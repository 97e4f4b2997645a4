----------------------------- MODULE LsdbProofs -----------------------------
(***************************************************************************)
(* The database keeps its promises for any number of routers, names,       *)
(* contents and sequence numbers.                                          *)
(***************************************************************************)
EXTENDS Lsdb, TLAPS

\* The database, its timers and the Name Prefix Table belong together.
LsaInv == LsaTypeOK /\ TimerForEveryLsa /\ NamesFollowLsas

\* So do the own LSAs, the manager's numbers and the published ones.
OwnInv == OwnTypeOK /\ ManagerMatchesLsas /\ PublishedCanBeFetched

IInv == LsaInv /\ OwnInv

\* What a step does to the numbers held: no LSA is replaced by an older one.
NumbersGrow ==
  \A t \in Types, r \in Routers : lsSeqNo'[t][r] # 0 => lsSeqNo'[t][r] >= lsSeqNo[t][r]

\* A step that leaves the own LSAs of all types other than t alone.
OnlyOwn(t, n) ==
  \A u \in Types : lsSeqNo'[u][Self] = IF u = t THEN n ELSE lsSeqNo[u][Self]

\* All events but those of the one LSA stay pending.
OtherTimersKept(t, r) ==
  \A u \in Types, q \in Routers, n \in Nat :
    <<u, q>> # <<t, r>> /\ <<u, q, n>> \in looseTimers => <<u, q, n>> \in looseTimers'

-----------------------------------------------------------------------------
\* SetLsa sets the one LSA and leaves the others as they are.
LEMMA SetLsaEffect ==
  ASSUME LsaTypeOK, NEW t \in Types, NEW r \in Routers, NEW s \in Nat, s <= MaxSeq[t],
         NEW S \in SUBSET Names, NEW c \in Contents, SetLsa(t, r, s, S, c)
  PROVE  /\ lsSeqNo' \in [Types -> [Routers -> Nat]]
         /\ \A u \in Types, q \in Routers : lsSeqNo'[u][q] <= MaxSeq[u]
         /\ names' \in [Routers -> SUBSET Names]
         /\ content' \in [Types -> [Routers -> Contents]]
         /\ lsSeqNo'[t][r] = s
         /\ \A u \in Types, q \in Routers :
              <<u, q>> # <<t, r>> => lsSeqNo'[u][q] = lsSeqNo[u][q]
         /\ t = "NAME" => names'[r] = S
         /\ \A q \in Routers : t # "NAME" \/ q # r => names'[q] = names[q]
<1>1. /\ lsSeqNo' \in [Types -> [Routers -> Nat]]
      /\ lsSeqNo'[t][r] = s
      /\ \A u \in Types, q \in Routers :
           <<u, q>> # <<t, r>> => lsSeqNo'[u][q] = lsSeqNo[u][q]
  BY DEF SetLsa, LsaTypeOK
<1>2. /\ names' \in [Routers -> SUBSET Names]
      /\ t = "NAME" => names'[r] = S
      /\ \A q \in Routers : t # "NAME" \/ q # r => names'[q] = names[q]
  BY DEF SetLsa, LsaTypeOK
<1>3. content' \in [Types -> [Routers -> Contents]]
  BY DEF SetLsa, LsaTypeOK
<1>4. \A u \in Types, q \in Routers : lsSeqNo'[u][q] <= MaxSeq[u]
  BY <1>1, BoundAssumption DEF LsaTypeOK
<1>5. QED
  BY <1>1, <1>2, <1>3, <1>4

\* Scheduling a calculation leaves the flag Boolean.
LEMMA ScheduleType ==
  ASSUME NEW t, calcScheduled \in BOOLEAN, ScheduleCalculation(t) \/ UNCHANGED calcScheduled
  PROVE  calcScheduled' \in BOOLEAN
  BY Zenon DEF ScheduleCalculation

\* Installing keeps the database, its timers and the Name Prefix Table
\* together, and never goes back.
LEMMA InstallKeeps ==
  ASSUME LsaInv, NEW t \in Types, NEW r \in Routers, NEW s \in 1..MaxSeq[t],
         NEW S \in SUBSET Names, NEW c \in Contents, Install(t, r, s, S, c)
  PROVE  LsaInv' /\ NumbersGrow /\ (r = Self => OnlyOwn(t, s))
<1> USE DEF LsaInv
<1>1. /\ s \in Nat \ {0}
      /\ s <= MaxSeq[t]
  BY BoundAssumption
<1>2. SetLsa(t, r, s, S, c)
  BY DEF Install, AddLsa, UpdateLsa
<1>3. /\ lsSeqNo' \in [Types -> [Routers -> Nat]]
      /\ \A u \in Types, q \in Routers : lsSeqNo'[u][q] <= MaxSeq[u]
      /\ names' \in [Routers -> SUBSET Names]
      /\ content' \in [Types -> [Routers -> Contents]]
      /\ lsSeqNo'[t][r] = s
      /\ \A u \in Types, q \in Routers :
           <<u, q>> # <<t, r>> => lsSeqNo'[u][q] = lsSeqNo[u][q]
      /\ t = "NAME" => names'[r] = S
      /\ \A q \in Routers : t # "NAME" \/ q # r => names'[q] = names[q]
  BY <1>1, <1>2, SetLsaEffect, Zenon
<1>4. NumbersGrow /\ (r = Self => OnlyOwn(t, s))
  <2>1. lsSeqNo[t][r] <= s
    BY <1>1 DEF Install, IsLsaNew, Held, LsaTypeOK
  <2>2. \A u \in Types, q \in Routers : lsSeqNo[u][q] \in Nat /\ lsSeqNo'[u][q] \in Nat
    BY <1>3 DEF LsaTypeOK
  <2>3. NumbersGrow
    BY <1>3, <2>1, <2>2 DEF NumbersGrow
  <2>4. r = Self => OnlyOwn(t, s)
    BY <1>3 DEF OnlyOwn, Routers
  <2>5. QED
    BY <2>3, <2>4
<1>5. LsaTypeOK'
  <2>1. calcScheduled' \in BOOLEAN
    BY ScheduleType DEF Install, AddLsa, UpdateLsa, LsaTypeOK
  <2>2. storedTimer' \in [Types -> [Routers -> Nat]]
    <3>1. storedTimer' = storedTimer \/ storedTimer' = [storedTimer EXCEPT ![t][r] = s]
      BY DEF Install, AddLsa, UpdateLsa, Reschedule
    <3>2. storedTimer \in [Types -> [Routers -> Nat]]
      BY DEF LsaTypeOK
    <3>3. QED
      BY <1>1, <3>1, <3>2
  <2>3. looseTimers' \subseteq Types \X Routers \X Nat
    BY <1>1 DEF Install, AddLsa, UpdateLsa, LsaTypeOK
  <2>4. npt' \subseteq ((Names \union Others) \ {Self}) \X Others
    BY RouterAssumption DEF Install, AddLsa, UpdateLsa, UpdatedNpt, NptEntries, LsaTypeOK, Routers
  <2>5. QED
    BY <1>3, <2>1, <2>2, <2>3, <2>4 DEF LsaTypeOK
<1>6. TimerForEveryLsa'
  <2>1. CASE AddLsa(t, r, s, S, c)
    BY <1>3, <2>1 DEF AddLsa, TimerForEveryLsa, Held
  <2>2. CASE UpdateLsa(t, r, s, S, c)
    <3>1. /\ storedTimer'[t][r] = s
          /\ \A u \in Types, q \in Routers :
               <<u, q>> # <<t, r>> => storedTimer'[u][q] = storedTimer[u][q]
      BY <2>2 DEF UpdateLsa, Reschedule, LsaTypeOK
    <3>2. QED
      BY <1>3, <2>2, <3>1 DEF UpdateLsa, TimerForEveryLsa, Held
  <2>3. QED
    BY <2>1, <2>2 DEF Install
<1>7. NamesFollowLsas'
  <2> SUFFICES ASSUME NEW q \in Others, NEW n \in Names \ Routers
               PROVE  <<n, q>> \in npt' <=> lsSeqNo'["NAME"][q] # 0 /\ n \in names'[q]
    BY DEF NamesFollowLsas, Held
  <2>1. <<n, q>> \in npt <=> lsSeqNo["NAME"][q] # 0 /\ n \in names[q]
    BY DEF NamesFollowLsas, Held
  <2>2. n # q /\ n # r /\ n # Self /\ q \in Routers /\ q # Self
    BY RouterAssumption DEF Routers
  <2>3. CASE q # r
    <3>1. <<n, q>> \in npt' <=> <<n, q>> \in npt
      BY <2>2, <2>3 DEF Install, AddLsa, UpdateLsa, UpdatedNpt, NptEntries
    <3>2. QED
      BY <1>3, <2>1, <2>2, <2>3, <3>1 DEF Types
  <2>4. CASE q = r /\ t # "NAME"
    <3>1. <<n, q>> \in npt' <=> <<n, q>> \in npt
      BY <2>2, <2>4 DEF Install, AddLsa, UpdateLsa, UpdatedNpt, NptEntries
    <3>2. QED
      BY <1>3, <2>1, <2>2, <2>4, <3>1 DEF Types
  <2>5. CASE q = r /\ t = "NAME" /\ ~Held(t, r) /\ AddLsa(t, r, s, S, c)
    <3>1. <<n, q>> \notin npt
      BY <2>1, <2>5 DEF Held
    <3>2. npt' = npt \union NptEntries({q} \union S, q)
      BY <2>2, <2>5 DEF AddLsa
    <3>3. QED
      BY <1>1, <1>3, <2>2, <2>5, <3>1, <3>2 DEF NptEntries
  <2>6. CASE q = r /\ t = "NAME" /\ Held(t, r) /\ UpdateLsa(t, r, s, S, c)
    <3>1. npt' = UpdatedNpt(q, S)
      BY <2>2, <2>6 DEF UpdateLsa
    <3>2. <<n, q>> \in npt <=> n \in names[q]
      BY <2>1, <2>6 DEF Held
    <3>3. <<n, q>> \in npt' <=> n \in S
      BY <2>2, <3>1, <3>2 DEF UpdatedNpt, NptEntries
    <3>4. QED
      BY <1>1, <1>3, <2>6, <3>3
  <2>7. QED
    BY <2>3, <2>4, <2>5, <2>6 DEF Install
<1>8. QED
  BY <1>4, <1>5, <1>6, <1>7

\* Removing an LSA keeps them together, whatever becomes of its own events.
LEMMA RemoveKeeps ==
  ASSUME LsaInv, NEW t \in Types, NEW r \in Routers, RemoveLsa(t, r),
         storedTimer' = [storedTimer EXCEPT ![t][r] = 0],
         looseTimers' \subseteq Types \X Routers \X Nat, OtherTimersKept(t, r),
         calcScheduled' \in BOOLEAN
  PROVE  LsaInv' /\ NumbersGrow /\ OnlyOwn(t, IF r = Self THEN 0 ELSE lsSeqNo[t][Self])
<1> USE DEF LsaInv
<1>1. 0 \in Nat /\ 0 <= MaxSeq[t]
  BY BoundAssumption
<1>2. PICK S0 \in SUBSET Names, c0 \in Contents : SetLsa(t, r, 0, S0, c0)
  <2>1. Blank \in Contents
    BY ContentAssumption DEF Blank
  <2>2. {} \in SUBSET Names /\ SetLsa(t, r, 0, {}, Blank)
    BY DEF RemoveLsa
  <2>3. QED
    BY <2>1, <2>2
<1>3. /\ lsSeqNo' \in [Types -> [Routers -> Nat]]
      /\ \A u \in Types, q \in Routers : lsSeqNo'[u][q] <= MaxSeq[u]
      /\ names' \in [Routers -> SUBSET Names]
      /\ content' \in [Types -> [Routers -> Contents]]
      /\ lsSeqNo'[t][r] = 0
      /\ \A u \in Types, q \in Routers :
           <<u, q>> # <<t, r>> => lsSeqNo'[u][q] = lsSeqNo[u][q]
      /\ \A q \in Routers : t # "NAME" \/ q # r => names'[q] = names[q]
  <2> DEFINE Effect(s) ==
               /\ lsSeqNo' \in [Types -> [Routers -> Nat]]
               /\ \A u \in Types, q \in Routers : lsSeqNo'[u][q] <= MaxSeq[u]
               /\ names' \in [Routers -> SUBSET Names]
               /\ content' \in [Types -> [Routers -> Contents]]
               /\ lsSeqNo'[t][r] = s
               /\ \A u \in Types, q \in Routers :
                    <<u, q>> # <<t, r>> => lsSeqNo'[u][q] = lsSeqNo[u][q]
               /\ t = "NAME" => names'[r] = S0
               /\ \A q \in Routers : t # "NAME" \/ q # r => names'[q] = names[q]
  <2>1. ASSUME NEW s \in Nat, s <= MaxSeq[t], SetLsa(t, r, s, S0, c0)
        PROVE  Effect(s)
    BY <1>2, <2>1, SetLsaEffect, Zenon
  <2>2. Effect(0)
    <3> HIDE DEF Effect
    <3> QED
      BY <1>1, <1>2, <2>1, Zenon
  <2>3. QED
    BY <2>2, Zenon
<1>4. NumbersGrow
  BY <1>3 DEF NumbersGrow, LsaTypeOK
<1>5. OnlyOwn(t, IF r = Self THEN 0 ELSE lsSeqNo[t][Self])
  <2>1. CASE r = Self
    BY <1>3, <2>1 DEF OnlyOwn
  <2>2. CASE r # Self
    BY <1>3, <2>2 DEF OnlyOwn, Routers
  <2>3. QED
    BY <2>1, <2>2
<1>6. LsaTypeOK'
  <2>1. npt' \subseteq npt
    BY DEF RemoveLsa
  <2>2. storedTimer' \in [Types -> [Routers -> Nat]]
    BY DEF LsaTypeOK
  <2>3. QED
    BY <1>3, <2>1, <2>2 DEF LsaTypeOK
<1>7. TimerForEveryLsa'
  <2>1. \A u \in Types, q \in Routers :
          <<u, q>> # <<t, r>> => storedTimer'[u][q] = storedTimer[u][q]
    BY DEF LsaTypeOK
  <2>2. \A u \in Types, q \in Routers : lsSeqNo'[u][q] \in Nat
    BY <1>3
  <2>3. QED
    BY <1>3, <2>1, <2>2 DEF TimerForEveryLsa, Held, OtherTimersKept
<1>8. NamesFollowLsas'
  <2> SUFFICES ASSUME NEW q \in Others, NEW n \in Names \ Routers
               PROVE  <<n, q>> \in npt' <=> lsSeqNo'["NAME"][q] # 0 /\ n \in names'[q]
    BY DEF NamesFollowLsas, Held
  <2>1. <<n, q>> \in npt <=> lsSeqNo["NAME"][q] # 0 /\ n \in names[q]
    BY DEF NamesFollowLsas, Held
  <2>2. n # q /\ n # r /\ n # Self /\ q \in Routers /\ q # Self
    BY RouterAssumption DEF Routers
  <2>3. CASE q # r \/ t # "NAME"
    <3>1. <<n, q>> \in npt' <=> <<n, q>> \in npt
      BY <2>2, <2>3 DEF RemoveLsa, NptEntries
    <3>2. QED
      BY <1>3, <2>1, <2>2, <2>3, <3>1 DEF Types
  <2>4. CASE q = r /\ t = "NAME"
    <3>1. npt' = npt \ NptEntries({q} \union names[q], q)
      BY <2>2, <2>4 DEF RemoveLsa
    <3>2. <<n, q>> \notin npt'
      BY <2>1, <2>2, <3>1 DEF NptEntries
    <3>3. QED
      BY <1>3, <2>4, <3>2
  <2>5. QED
    BY <2>3, <2>4
<1>9. QED
  BY <1>4, <1>5, <1>6, <1>7, <1>8

\* So does refreshing an own LSA, which is given a new event.
LEMMA RefreshKeeps ==
  ASSUME LsaInv, NEW t \in Types, Held(t, Self), RefreshOwnLsa(t),
         storedTimer' = [storedTimer EXCEPT ![t][Self] = lsSeqNo[t][Self] + 1],
         looseTimers' \subseteq Types \X Routers \X Nat, OtherTimersKept(t, Self),
         calcScheduled' \in BOOLEAN
  PROVE  LsaInv' /\ NumbersGrow /\ OnlyOwn(t, lsSeqNo[t][Self] + 1)
<1> USE DEF LsaInv
<1>1. Self \in Routers /\ lsSeqNo[t][Self] \in Nat /\ lsSeqNo[t][Self] + 1 <= MaxSeq[t]
  BY DEF LsaTypeOK, Routers, RefreshOwnLsa
<1>2. lsSeqNo' = [lsSeqNo EXCEPT ![t][Self] = lsSeqNo[t][Self] + 1]
  BY DEF RefreshOwnLsa
<1>3. /\ lsSeqNo' \in [Types -> [Routers -> Nat]]
      /\ lsSeqNo'[t][Self] = lsSeqNo[t][Self] + 1
      /\ \A u \in Types, q \in Routers :
           <<u, q>> # <<t, Self>> => lsSeqNo'[u][q] = lsSeqNo[u][q]
  BY <1>1, <1>2 DEF LsaTypeOK
<1>4. \A u \in Types, q \in Routers : lsSeqNo[u][q] \in Nat /\ lsSeqNo'[u][q] \in Nat
  BY <1>3 DEF LsaTypeOK
<1>5. NumbersGrow
  BY <1>1, <1>3, <1>4 DEF NumbersGrow
<1>6. OnlyOwn(t, lsSeqNo[t][Self] + 1)
  BY <1>1, <1>3 DEF OnlyOwn
<1>7. LsaTypeOK'
  <2>1. \A u \in Types, q \in Routers : lsSeqNo'[u][q] <= MaxSeq[u]
    BY <1>1, <1>3 DEF LsaTypeOK
  <2>2. storedTimer' \in [Types -> [Routers -> Nat]]
    BY <1>1 DEF LsaTypeOK
  <2>3. QED
    BY <1>3, <2>1, <2>2 DEF LsaTypeOK, RefreshOwnLsa
<1>8. TimerForEveryLsa'
  <2>1. /\ storedTimer'[t][Self] = lsSeqNo[t][Self] + 1
        /\ \A u \in Types, q \in Routers :
             <<u, q>> # <<t, Self>> => storedTimer'[u][q] = storedTimer[u][q]
    BY <1>1 DEF LsaTypeOK
  <2>2. QED
    BY <1>3, <1>4, <2>1 DEF TimerForEveryLsa, Held, OtherTimersKept
<1>9. NamesFollowLsas'
  <2>1. \A q \in Others : lsSeqNo'["NAME"][q] = lsSeqNo["NAME"][q]
    BY <1>3, RouterAssumption DEF Types, Routers
  <2>2. QED
    BY <2>1 DEF NamesFollowLsas, Held, RefreshOwnLsa
<1>10. QED
  BY <1>5, <1>6, <1>7, <1>8, <1>9

\* An event that fires keeps the database together: it expires, refreshes or
\* finds itself stale.  s is its number, pendingStored and pendingLoose what
\* remains of the others.
LEMMA ExpireKeeps ==
  ASSUME LsaInv, NEW t \in Types, NEW r \in Routers, NEW s \in Nat,
         NEW pendingStored \in Nat, NEW pendingLoose \in SUBSET looseTimers,
         \A u \in Types, q \in Routers, n \in Nat :
           <<u, q, n>> # <<t, r, s>> /\ <<u, q, n>> \in looseTimers => <<u, q, n>> \in pendingLoose,
         \/ pendingStored = storedTimer[t][r]
         \/ s = storedTimer[t][r] /\ pendingLoose = looseTimers,
         ExpireOrRefresh(t, r, s, pendingStored, pendingLoose)
  PROVE  LsaInv' /\ NumbersGrow
<1> USE DEF LsaInv
<1>1. CASE ~IsCurrent(t, r, s)
  <2>1. /\ UNCHANGED <<lsSeqNo, names, content, npt, calcScheduled>>
        /\ storedTimer' = [storedTimer EXCEPT ![t][r] = pendingStored]
        /\ looseTimers' = pendingLoose
    BY <1>1 DEF ExpireOrRefresh, lsaVars
  <2>2. LsaTypeOK'
    <3>1. storedTimer' \in [Types -> [Routers -> Nat]]
      BY <2>1 DEF LsaTypeOK
    <3>2. QED
      BY <2>1, <3>1 DEF LsaTypeOK
  <2>3. NamesFollowLsas' /\ NumbersGrow
    BY <2>1 DEF NamesFollowLsas, Held, NumbersGrow, LsaTypeOK
  <2>4. TimerForEveryLsa'
    <3> SUFFICES ASSUME NEW u \in Types, NEW q \in Routers, lsSeqNo[u][q] # 0
                 PROVE  storedTimer'[u][q] = lsSeqNo[u][q] \/ <<u, q, lsSeqNo[u][q]>> \in looseTimers'
      BY <2>1 DEF TimerForEveryLsa, Held
    <3>1. storedTimer[u][q] = lsSeqNo[u][q] \/ <<u, q, lsSeqNo[u][q]>> \in looseTimers
      BY DEF TimerForEveryLsa, Held
    <3>2. lsSeqNo[u][q] \in Nat
      BY DEF LsaTypeOK
    <3>3. CASE <<u, q>> # <<t, r>>
      <4>1. storedTimer'[u][q] = storedTimer[u][q]
        BY <2>1, <3>3 DEF LsaTypeOK
      <4>2. QED
        BY <2>1, <3>1, <3>2, <3>3, <4>1
    <3>4. CASE u = t /\ q = r
      <4>1. storedTimer'[t][r] = pendingStored
        BY <2>1 DEF LsaTypeOK
      <4>2. s # lsSeqNo[t][r]
        BY <1>1, <3>4 DEF IsCurrent, Held
      <4>3. QED
        BY <2>1, <3>1, <3>2, <3>4, <4>1, <4>2
    <3>5. QED
      BY <3>3, <3>4
  <2>5. QED
    BY <2>2, <2>3, <2>4
<1>2. CASE IsCurrent(t, r, s)
  <2>1. /\ looseTimers' = pendingLoose \union
                            (IF pendingStored = 0 THEN {} ELSE {<<t, r, pendingStored>>})
        /\ ScheduleCalculation(t)
    BY <1>2 DEF ExpireOrRefresh
  <2>2. looseTimers' \subseteq Types \X Routers \X Nat /\ OtherTimersKept(t, r)
    BY <2>1 DEF LsaTypeOK, OtherTimersKept
  <2>3. calcScheduled' \in BOOLEAN
    BY <2>1, ScheduleType DEF LsaTypeOK
  <2>4. CASE r = Self
    BY <1>2, <2>2, <2>3, <2>4, RefreshKeeps DEF ExpireOrRefresh, IsCurrent
  <2>5. CASE r # Self
    BY <1>2, <2>2, <2>3, <2>5, RemoveKeeps DEF ExpireOrRefresh
  <2>6. QED
    BY <2>4, <2>5
<1>3. QED
  BY <1>1, <1>2

\* What an event does to the own LSAs and numbers: nothing, or a refresh.
LEMMA ExpireOwn ==
  ASSUME LsaInv, NEW t \in Types, NEW r \in Routers, NEW s, NEW pendingStored, NEW pendingLoose,
         ExpireOrRefresh(t, r, s, pendingStored, pendingLoose)
  PROVE  \/ UNCHANGED ownVars /\ \A u \in Types : lsSeqNo'[u][Self] = lsSeqNo[u][Self]
         \/ Held(t, Self) /\ RefreshOwnLsa(t)
<1>1. CASE ~IsCurrent(t, r, s)
  BY <1>1 DEF ExpireOrRefresh, lsaVars
<1>2. CASE IsCurrent(t, r, s) /\ r = Self
  BY <1>2 DEF ExpireOrRefresh, IsCurrent
<1>3. CASE IsCurrent(t, r, s) /\ r # Self
  <2>1. RemoveLsa(t, r) /\ UNCHANGED ownVars
    BY <1>3 DEF ExpireOrRefresh
  <2>2. lsSeqNo' = [lsSeqNo EXCEPT ![t][r] = 0]
    BY <2>1 DEF RemoveLsa, SetLsa
  <2>3. \A u \in Types : lsSeqNo'[u][Self] = lsSeqNo[u][Self]
    BY <1>3, <2>2 DEF LsaInv, LsaTypeOK, Routers
  <2>4. QED
    BY <2>1, <2>3
<1>4. QED
  BY <1>1, <1>2, <1>3

\* The manager, the own LSA of type t and what is published move to n together.
LEMMA OwnAdvances ==
  ASSUME LsaTypeOK, OwnInv, NEW t \in Types, NEW n \in Nat, OnlyOwn(t, n),
         seqManager' = [seqManager EXCEPT ![t] = n], PublishRoutingUpdate,
         namePrefixList' \subseteq Names
  PROVE  OwnInv'
<1>1. /\ seqManager' \in [Types -> Nat]
      /\ \A u \in Types : seqManager'[u] = IF u = t THEN n ELSE seqManager[u]
  BY DEF OwnInv, OwnTypeOK
<1>2. ManagerMatchesLsas'
  BY <1>1 DEF OwnInv, ManagerMatchesLsas, OnlyOwn, Held
<1>3. QED
  BY <1>1, <1>2 DEF OwnInv, OwnTypeOK, ManagerMatchesLsas, PublishedCanBeFetched, PublishRoutingUpdate

\* The own LSAs keep matching when neither they nor the numbers move.
LEMMA OwnStays ==
  ASSUME OwnInv, UNCHANGED ownVars, \A u \in Types : lsSeqNo'[u][Self] = lsSeqNo[u][Self]
  PROVE  OwnInv'
BY DEF OwnInv, OwnTypeOK, ManagerMatchesLsas, PublishedCanBeFetched, Held, ownVars

-----------------------------------------------------------------------------
\* The initial state of the database has the invariant.
LEMMA InitInv == Init => IInv
<1> SUFFICES ASSUME Init PROVE IInv
  OBVIOUS
<1>1. /\ lsSeqNo \in [Types -> [Routers -> Nat]]
      /\ \A t \in Types, r \in Routers : lsSeqNo[t][r] = IF r = Self /\ t # "ADJ" THEN 1 ELSE 0
  BY DEF Init
<1>2. LsaTypeOK
  <2>1. Blank \in Contents
    BY ContentAssumption DEF Blank
  <2>2. content \in [Types -> [Routers -> Contents]] /\ storedTimer \in [Types -> [Routers -> Nat]]
    BY <2>1 DEF Init
  <2>3. names \in [Routers -> SUBSET Names] /\ looseTimers \subseteq Types \X Routers \X Nat
    BY DEF Init, Types, Routers
  <2>4. \A t \in Types, r \in Routers : lsSeqNo[t][r] <= MaxSeq[t]
    BY <1>1, BoundAssumption
  <2>5. npt = {} /\ calcScheduled \in BOOLEAN
    BY StateAssumption DEF Init
  <2>6. QED
    BY <1>1, <2>2, <2>3, <2>4, <2>5 DEF LsaTypeOK
<1>3. TimerForEveryLsa
  <2> SUFFICES ASSUME NEW t \in Types, NEW r \in Routers, Held(t, r)
               PROVE  <<t, r, lsSeqNo[t][r]>> \in looseTimers
    BY DEF TimerForEveryLsa
  <2>1. r = Self /\ t # "ADJ" /\ lsSeqNo[t][r] = 1
    BY <1>1 DEF Held
  <2>2. QED
    BY <2>1 DEF Init, Types
<1>4. NamesFollowLsas
  BY <1>1, RouterAssumption DEF Init, NamesFollowLsas, Held, Routers, Types
<1>5. OwnInv
  <2>1. OwnTypeOK
    BY DEF Init, OwnTypeOK, Zero
  <2>2. ManagerMatchesLsas
    BY <1>1 DEF Init, ManagerMatchesLsas, Held, Routers
  <2>3. PublishedCanBeFetched
    BY DEF Init, PublishedCanBeFetched
  <2>4. QED
    BY <2>1, <2>2, <2>3 DEF OwnInv
<1>6. QED
  BY <1>2, <1>3, <1>4, <1>5 DEF IInv, LsaInv

\* What an own LSA is built with keeps the invariant; numbers only grow.
LEMMA BuildKeeps ==
  ASSUME IInv, NEW t \in Types, NEW S \in SUBSET Names, NEW c \in Contents,
         BuildAndInstallOwnLsa(t, S, c), PublishRoutingUpdate, namePrefixList' \subseteq Names
  PROVE  IInv' /\ NumbersGrow /\ \A u \in Types : seqManager'[u] >= seqManager[u]
<1> DEFINE n == seqManager[t] + 1
<1>1. /\ seqManager \in [Types -> Nat]
      /\ MaxSeq[t] \in Nat
      /\ n \in Nat /\ n \in 1..MaxSeq[t]
  <2>1. MaxSeq[t] \in Nat
    BY BoundAssumption
  <2>2. seqManager \in [Types -> Nat] /\ seqManager[t] < MaxSeq[t]
    BY DEF BuildAndInstallOwnLsa, IInv, OwnInv, OwnTypeOK
  <2>3. QED
    BY <2>1, <2>2
<1>2. LsaInv' /\ NumbersGrow /\ OnlyOwn(t, n)
  <2>1. Install(t, Self, n, S, c) /\ Self \in Routers /\ LsaInv
    BY DEF BuildAndInstallOwnLsa, Routers, IInv
  <2> HIDE DEF n
  <2>2. QED
    BY <1>1, <2>1, InstallKeeps
<1>3. seqManager' = [seqManager EXCEPT ![t] = n]
  BY DEF BuildAndInstallOwnLsa
<1> HIDE DEF n
<1>4. OwnInv'
  BY <1>1, <1>2, <1>3, OwnAdvances DEF IInv, LsaInv
<1>5. \A u \in Types : seqManager'[u] >= seqManager[u]
  BY <1>1, <1>3 DEF n
<1>6. QED
  BY <1>2, <1>4, <1>5 DEF IInv

\* What an event does keeps the invariant; numbers only grow.
LEMMA FiringKeeps ==
  ASSUME IInv, NEW t \in Types, NEW r \in Routers, NEW s \in Nat,
         NEW pendingStored \in Nat, NEW pendingLoose \in SUBSET looseTimers,
         \A u \in Types, q \in Routers, n \in Nat :
           <<u, q, n>> # <<t, r, s>> /\ <<u, q, n>> \in looseTimers => <<u, q, n>> \in pendingLoose,
         \/ pendingStored = storedTimer[t][r]
         \/ s = storedTimer[t][r] /\ pendingLoose = looseTimers,
         ExpireOrRefresh(t, r, s, pendingStored, pendingLoose)
  PROVE  IInv' /\ NumbersGrow /\ \A u \in Types : seqManager'[u] >= seqManager[u]
<1>1. LsaInv' /\ NumbersGrow
  BY ExpireKeeps DEF IInv
<1>2. OwnInv' /\ \A u \in Types : seqManager'[u] >= seqManager[u]
  <2>1. CASE UNCHANGED ownVars /\ \A u \in Types : lsSeqNo'[u][Self] = lsSeqNo[u][Self]
    BY <2>1, OwnStays DEF IInv, ownVars, OwnInv, OwnTypeOK
  <2>2. CASE Held(t, Self) /\ RefreshOwnLsa(t)
    <3> DEFINE n == lsSeqNo[t][Self] + 1
    <3>1. /\ Self \in Routers /\ n \in Nat
          /\ n = seqManager[t] + 1
          /\ seqManager \in [Types -> Nat]
      BY <2>2 DEF IInv, LsaInv, LsaTypeOK, OwnInv, OwnTypeOK, ManagerMatchesLsas, Routers
    <3>2. /\ lsSeqNo' = [lsSeqNo EXCEPT ![t][Self] = n]
          /\ seqManager' = [seqManager EXCEPT ![t] = n]
          /\ PublishRoutingUpdate /\ UNCHANGED namePrefixList
      BY <2>2 DEF RefreshOwnLsa
    <3> HIDE DEF n
    <3>3. OnlyOwn(t, n)
      BY <3>1, <3>2 DEF OnlyOwn, IInv, LsaInv, LsaTypeOK
    <3>4. namePrefixList' \subseteq Names
      BY <3>2 DEF IInv, OwnInv, OwnTypeOK
    <3>5. OwnInv'
      BY <3>1, <3>2, <3>3, <3>4, OwnAdvances DEF IInv, LsaInv
    <3>6. QED
      BY <3>1, <3>2, <3>5
  <2>3. QED
    BY <2>1, <2>2, ExpireOwn DEF IInv
<1>3. QED
  BY <1>1, <1>2 DEF IInv

\* Every step keeps the invariant, and no number goes back.
LEMMA StepKeeps ==
  ASSUME IInv, [Next]_vars
  PROVE  IInv' /\ NumbersGrow /\ \A u \in Types : seqManager'[u] >= seqManager[u]
<1> DEFINE Goal == IInv' /\ NumbersGrow /\ \A u \in Types : seqManager'[u] >= seqManager[u]
<1>0. Blank \in Contents /\ {} \in SUBSET Names /\ "NAME" \in Types /\ "ADJ" \in Types
  BY ContentAssumption DEF Blank, Types
<1>1. ASSUME NEW n \in Names, UpdateNamePrefixList(n) PROVE Goal
  <2>1. namePrefixList' \in SUBSET Names
    BY <1>1 DEF UpdateNamePrefixList, IInv, OwnInv, OwnTypeOK
  <2>2. PICK S \in SUBSET Names : namePrefixList' = S /\ BuildAndInstallOwnLsa("NAME", S, Blank)
    BY <1>1, <2>1 DEF UpdateNamePrefixList
  <2>3. PublishRoutingUpdate
    BY <1>1 DEF UpdateNamePrefixList
  <2>4. QED
    BY <1>0, <2>2, <2>3, BuildKeeps
<1>2. ASSUME NEW c \in Contents, BuildAdjLsa(c) PROVE Goal
  <2>1. namePrefixList' \subseteq Names
    BY <1>2 DEF BuildAdjLsa, IInv, OwnInv, OwnTypeOK
  <2>2. BuildAndInstallOwnLsa("ADJ", {}, c) /\ PublishRoutingUpdate
    BY <1>2 DEF BuildAdjLsa
  <2>3. QED
    BY <1>0, <2>1, <2>2, BuildKeeps
<1>3. CASE RemoveOwnAdjLsa
  <2>1. calcScheduled' \in BOOLEAN
    BY <1>3, ScheduleType DEF RemoveOwnAdjLsa, IInv, LsaInv, LsaTypeOK
  <2>2. UNCHANGED ownVars /\ \A u \in Types : seqManager'[u] >= seqManager[u]
    BY <1>3 DEF RemoveOwnAdjLsa, ownVars, IInv, OwnInv, OwnTypeOK
  <2>3. CASE Held("ADJ", Self)
    <3>1. /\ RemoveLsa("ADJ", Self)
          /\ looseTimers' = looseTimers \union Loosened("ADJ", Self)
          /\ storedTimer' = [storedTimer EXCEPT !["ADJ"][Self] = 0]
      BY <1>3, <2>3 DEF RemoveOwnAdjLsa
    <3>2. Self \in Routers
      BY DEF Routers
    <3>3. looseTimers' \subseteq Types \X Routers \X Nat /\ OtherTimersKept("ADJ", Self)
      BY <1>0, <3>1, <3>2 DEF Loosened, IInv, LsaInv, LsaTypeOK, OtherTimersKept
    <3>4. LsaInv' /\ NumbersGrow /\ OnlyOwn("ADJ", 0)
      BY <1>0, <2>1, <3>1, <3>2, <3>3, RemoveKeeps DEF IInv
    <3>5. OwnInv'
      BY <2>2, <3>4 DEF IInv, OwnInv, OwnTypeOK, ManagerMatchesLsas, PublishedCanBeFetched,
                        Held, OnlyOwn, ownVars
    <3>6. QED
      BY <2>2, <3>4, <3>5 DEF IInv
  <2>4. CASE ~Held("ADJ", Self)
    <3>1. UNCHANGED <<lsSeqNo, names, content, storedTimer, looseTimers, npt>>
      BY <1>3, <2>4 DEF RemoveOwnAdjLsa, lsaVars, timerVars
    <3>2. LsaInv' /\ NumbersGrow
      BY <2>1, <3>1 DEF IInv, LsaInv, LsaTypeOK, TimerForEveryLsa, NamesFollowLsas, Held, NumbersGrow
    <3>3. OwnInv'
      BY <2>2, <3>1, OwnStays DEF IInv
    <3>4. QED
      BY <2>2, <3>2, <3>3 DEF IInv
  <2>5. QED
    BY <2>3, <2>4
<1>4. ASSUME NEW t \in Types, NEW r \in Others, NEW S \in SUBSET Names, NEW c \in Contents,
             NEW s \in 1..MaxSeq[t], ProcessContent(t, r, s, S, c)
      PROVE  Goal
  <2>1. /\ Install(t, r, s, S, c)
        /\ UNCHANGED ownVars
        /\ r \in Routers /\ r # Self
    BY <1>4, RouterAssumption DEF ProcessContent, Routers
  <2>2. LsaInv' /\ NumbersGrow
    BY <2>1, InstallKeeps DEF IInv
  <2>3. \A u \in Types : lsSeqNo'[u][Self] = lsSeqNo[u][Self]
    <3>1. lsSeqNo' = [lsSeqNo EXCEPT ![t][r] = s]
      BY <2>1 DEF Install, AddLsa, UpdateLsa, SetLsa
    <3>2. QED
      BY <2>1, <3>1 DEF IInv, LsaInv, LsaTypeOK, Routers
  <2>4. QED
    BY <2>1, <2>2, <2>3, OwnStays DEF IInv, ownVars, OwnInv, OwnTypeOK
<1>5. ASSUME NEW t \in Types, NEW r \in Routers, StoredTimerFires(t, r) PROVE Goal
  <2>1. storedTimer[t][r] \in Nat
    BY DEF IInv, LsaInv, LsaTypeOK
  <2>2. PICK s \in Nat : s = storedTimer[t][r] /\ ExpireOrRefresh(t, r, s, 0, looseTimers)
    BY <1>5, <2>1 DEF StoredTimerFires
  <2>3. QED
    BY <2>2, FiringKeeps
<1>6. ASSUME NEW t \in Types, NEW r \in Routers, NEW s \in 1..MaxSeq[t], LooseTimerFires(t, r, s)
      PROVE  Goal
  <2>1. storedTimer[t][r] \in Nat /\ s \in Nat
    BY BoundAssumption DEF IInv, LsaInv, LsaTypeOK
  <2>2. PICK p \in Nat, l \in SUBSET looseTimers :
          /\ p = storedTimer[t][r] /\ l = looseTimers \ {<<t, r, s>>}
          /\ ExpireOrRefresh(t, r, s, p, l)
    BY <1>6, <2>1 DEF LooseTimerFires
  <2>3. \A u \in Types, q \in Routers, n \in Nat :
          <<u, q, n>> # <<t, r, s>> /\ <<u, q, n>> \in looseTimers => <<u, q, n>> \in l
    BY <2>2
  <2>4. QED
    BY <2>1, <2>2, <2>3, FiringKeeps
<1>7. CASE Calculate \/ UNCHANGED vars
  <2>1. /\ UNCHANGED <<lsSeqNo, names, content, storedTimer, looseTimers, npt>>
        /\ UNCHANGED ownVars
    BY <1>7 DEF Calculate, vars, lsaVars, timerVars
  <2>2. calcScheduled' \in BOOLEAN
    BY <1>7, Zenon DEF Calculate, vars, IInv, LsaInv, LsaTypeOK
  <2>3. LsaInv' /\ NumbersGrow
    BY <2>1, <2>2 DEF IInv, LsaInv, LsaTypeOK, TimerForEveryLsa, NamesFollowLsas, Held, NumbersGrow
  <2>4. OwnInv'
    BY <2>1, OwnStays DEF IInv
  <2>5. QED
    BY <2>1, <2>3, <2>4 DEF IInv, ownVars, OwnInv, OwnTypeOK
<1>8. QED
  <2>1. ASSUME NEW S \in SUBSET Names, NEW r \in Others, NEW s \in 1..MaxSeq["NAME"],
               ProcessContent("NAME", r, s, S, Blank)
        PROVE  Goal
    BY <1>0, <1>4, <2>1
  <2>2. ASSUME NEW t \in {"ADJ", "COR"}, NEW r \in Others, NEW c \in Contents,
               NEW s \in 1..MaxSeq[t], ProcessContent(t, r, s, {}, c)
        PROVE  Goal
    BY <1>0, <1>4, <2>2 DEF Types
  <2>3. ASSUME NEW t \in Types, NEW r \in Routers,
               \/ StoredTimerFires(t, r)
               \/ \E s \in 1..MaxSeq[t] : LooseTimerFires(t, r, s)
        PROVE  Goal
    BY <1>5, <1>6, <2>3
  <2>4. CASE \E r \in Others, S \in SUBSET Names : \E s \in 1..MaxSeq["NAME"] :
               ProcessContent("NAME", r, s, S, Blank)
    BY <2>1, <2>4
  <2>5. CASE \E t \in {"ADJ", "COR"}, r \in Others, c \in Contents : \E s \in 1..MaxSeq[t] :
               ProcessContent(t, r, s, {}, c)
    BY <2>2, <2>5
  <2>6. CASE \E t \in Types, r \in Routers :
               \/ StoredTimerFires(t, r)
               \/ \E s \in 1..MaxSeq[t] : LooseTimerFires(t, r, s)
    BY <2>3, <2>6
  <2>7. CASE \E n \in Names : UpdateNamePrefixList(n)
    BY <1>1, <2>7
  <2>8. CASE \E c \in Contents : BuildAdjLsa(c)
    BY <1>2, <2>8
  <2>9. QED
    BY <1>3, <1>7, <2>4, <2>5, <2>6, <2>7, <2>8 DEF Next

-----------------------------------------------------------------------------
\* The invariant holds of every behaviour.
LEMMA InvCorrect == Spec => []IInv
<1>1. IInv /\ [Next]_vars => IInv'
  BY StepKeeps
<1>2. QED
  BY InitInv, <1>1, PTL DEF Spec

\* The variables keep their types: the Name Prefix Table never leads to this
\* router's own prefix, nor any name to this router (lsdb.cpp:158, 165).
THEOREM TypeCorrect == Spec => []TypeOK
<1>1. IInv => TypeOK
  BY DEF IInv, LsaInv, OwnInv, TypeOK
<1>2. QED
  BY InvCorrect, <1>1, PTL

\* Every LSA held has an event that will refresh or expire it under its present
\* number, although the first one's id is lost (lsdb.cpp:153, 175).
THEOREM TimerForEveryLsaCorrect == Spec => []TimerForEveryLsa
<1>1. IInv => TimerForEveryLsa
  BY DEF IInv, LsaInv
<1>2. QED
  BY InvCorrect, <1>1, PTL

\* The Name Prefix Table has the names of the Name LSAs held and no others
\* (lsdb.cpp:158-169, 196-222, 266-272).
THEOREM NamesFollowLsasCorrect == Spec => []NamesFollowLsas
<1>1. IInv => NamesFollowLsas
  BY DEF IInv, LsaInv
<1>2. QED
  BY InvCorrect, <1>1, PTL

\* The numbers built from the manager and those counted on by a refresh never
\* part (lsdb.cpp:733, 767, 804).
THEOREM ManagerMatchesLsasCorrect == Spec => []ManagerMatchesLsas
<1>1. IInv => ManagerMatchesLsas
  BY DEF IInv, OwnInv
<1>2. QED
  BY InvCorrect, <1>1, PTL

\* The own LSAs have the numbers last published, so that they can be fetched
\* (lsdb.cpp:961, 983, 1005).
THEOREM PublishedCanBeFetchedCorrect == Spec => []PublishedCanBeFetched
<1>1. IInv => PublishedCanBeFetched
  BY DEF IInv, OwnInv
<1>2. QED
  BY InvCorrect, <1>1, PTL

\* No LSA is replaced by an older one and no own number goes back.
THEOREM NeverBackwardsCorrect == Spec => NeverBackwards
<1> DEFINE Grows ==
      \A t \in Types :
        /\ seqManager'[t] >= seqManager[t]
        /\ \A r \in Routers : lsSeqNo'[t][r] # 0 => lsSeqNo'[t][r] >= lsSeqNo[t][r]
<1>1. IInv /\ [Next]_vars => Grows
  BY StepKeeps DEF NumbersGrow
<1>2. QED
  BY InvCorrect, <1>1, PTL DEF Spec, NeverBackwards

-----------------------------------------------------------------------------
\* A step that leaves the held LSAs that drive routing in place, with what they
\* say, leaves the topology.
LEMMA TopologyStays ==
  ASSUME \A u \in Types, q \in Routers : DrivesRouting(u) =>
           /\ lsSeqNo'[u][q] # 0 <=> lsSeqNo[u][q] # 0
           /\ lsSeqNo[u][q] # 0 => content'[u][q] = content[u][q]
  PROVE  Topology' = Topology
<1> DEFINE D == {u \in Types : DrivesRouting(u)}
           Said(u, q) == IF Held(u, q) THEN {content[u][q]} ELSE {}
<1>1. ASSUME NEW u \in D, NEW q \in Routers PROVE Said(u, q)' = Said(u, q)
  BY DEF Held
<1>2. [u \in D |-> [q \in Routers |-> Said(u, q)']] = [u \in D |-> [q \in Routers |-> Said(u, q)]]
  BY <1>1, Zenon
<1>3. QED
  BY <1>2, Zenon DEF Topology

\* Setting one LSA changes the topology only when its type drives routing.
LEMMA SetLsaTopology ==
  ASSUME LsaTypeOK, NEW t \in Types, NEW r \in Routers, NEW s, NEW S, NEW c,
         SetLsa(t, r, s, S, c)
  PROVE  \/ DrivesRouting(t)
         \/ Topology' = Topology
<1> SUFFICES ASSUME ~DrivesRouting(t) PROVE Topology' = Topology
  OBVIOUS
<1>1. \A u \in Types, q \in Routers : u # t =>
        lsSeqNo'[u][q] = lsSeqNo[u][q] /\ content'[u][q] = content[u][q]
  BY DEF SetLsa, LsaTypeOK
<1>2. \A u \in Types, q \in Routers : DrivesRouting(u) =>
        lsSeqNo'[u][q] = lsSeqNo[u][q] /\ content'[u][q] = content[u][q]
  BY <1>1
<1>3. QED
  BY <1>2, TopologyStays

\* A calculation scheduled for a type that drives routing is scheduled.
LEMMA ScheduleDrives ==
  ASSUME NEW t, DrivesRouting(t), ScheduleCalculation(t)
  PROVE  calcScheduled'
  BY Zenon DEF ScheduleCalculation

\* Installing an LSA leaves the topology or a calculation scheduled.
LEMMA InstallTopology ==
  ASSUME LsaTypeOK, NEW t \in Types, NEW r \in Routers, NEW s \in Nat \ {0}, NEW S, NEW c,
         Install(t, r, s, S, c)
  PROVE  calcScheduled' \/ Topology' = Topology
<1>1. SetLsa(t, r, s, S, c)
  BY DEF Install, AddLsa, UpdateLsa
<1>2. CASE ~DrivesRouting(t)
  BY <1>1, <1>2, SetLsaTopology
<1>3. CASE DrivesRouting(t) /\ ScheduleCalculation(t)
  BY <1>3, ScheduleDrives
<1>4. CASE DrivesRouting(t) /\ ~ScheduleCalculation(t)
  <2>1. t # "NAME" /\ Held(t, r) /\ c = content[t][r]
    BY <1>4 DEF Install, AddLsa, UpdateLsa, DrivesRouting
  <2>2. /\ lsSeqNo' = [lsSeqNo EXCEPT ![t][r] = s]
        /\ content' = [content EXCEPT ![t][r] = c]
    BY <1>1, <2>1 DEF SetLsa
  <2>3. \A u \in Types, q \in Routers : content'[u][q] = content[u][q]
    BY <2>1, <2>2 DEF LsaTypeOK
  <2>4. \A u \in Types, q \in Routers : lsSeqNo'[u][q] # 0 <=> lsSeqNo[u][q] # 0
    BY <2>1, <2>2 DEF LsaTypeOK, Held
  <2>5. QED
    BY <2>3, <2>4, TopologyStays
<1>5. QED
  BY <1>2, <1>3, <1>4

\* An event that fires leaves the topology or a calculation scheduled.
LEMMA ExpireTopology ==
  ASSUME LsaTypeOK, NEW t \in Types, NEW r \in Routers, NEW s, NEW pendingStored, NEW pendingLoose,
         ExpireOrRefresh(t, r, s, pendingStored, pendingLoose)
  PROVE  calcScheduled' \/ Topology' = Topology
<1>1. CASE ~IsCurrent(t, r, s)
  BY <1>1, TopologyStays DEF ExpireOrRefresh, lsaVars
<1>2. CASE IsCurrent(t, r, s) /\ DrivesRouting(t)
  BY <1>2, ScheduleDrives DEF ExpireOrRefresh
<1>3. CASE IsCurrent(t, r, s) /\ ~DrivesRouting(t) /\ r # Self
  BY <1>3, SetLsaTopology DEF ExpireOrRefresh, RemoveLsa
<1>4. CASE IsCurrent(t, r, s) /\ ~DrivesRouting(t) /\ r = Self
  <2>1. /\ lsSeqNo' = [lsSeqNo EXCEPT ![t][Self] = lsSeqNo[t][Self] + 1]
        /\ content' = content
    BY <1>4 DEF ExpireOrRefresh, RefreshOwnLsa
  <2>2. \A u \in Types, q \in Routers : DrivesRouting(u) => lsSeqNo'[u][q] = lsSeqNo[u][q]
    BY <1>4, <2>1 DEF LsaTypeOK
  <2>3. QED
    BY <2>1, <2>2, TopologyStays
<1>5. QED
  BY <1>1, <1>2, <1>3, <1>4

\* Whatever changes the topology leaves a calculation scheduled.
THEOREM TopologyChangeSchedulesCorrect == Spec => TopologyChangeSchedules
<1> DEFINE Scheduled == calcScheduled' \/ Topology' = Topology
<1>1. ASSUME IInv, [Next]_vars PROVE Scheduled
  <2>1. LsaTypeOK
    BY <1>1 DEF IInv, LsaInv
  <2>2. ASSUME NEW t \in Types, NEW S, NEW c, BuildAndInstallOwnLsa(t, S, c) PROVE Scheduled
    <3>1. PICK s \in Nat \ {0} : Install(t, Self, s, S, c)
      BY <1>1, <2>2 DEF BuildAndInstallOwnLsa, IInv, OwnInv, OwnTypeOK
    <3>2. Self \in Routers
      BY DEF Routers
    <3>3. QED
      BY <2>1, <3>1, <3>2, InstallTopology
  <2>3. ASSUME NEW t \in Types, NEW r \in Others, NEW s \in 1..MaxSeq[t], NEW S, NEW c,
               ProcessContent(t, r, s, S, c)
        PROVE  Scheduled
    <3>1. s \in Nat \ {0} /\ r \in Routers /\ Install(t, r, s, S, c)
      BY <2>3, BoundAssumption DEF ProcessContent, Routers
    <3>2. QED
      BY <2>1, <3>1, InstallTopology
  <2>4. ASSUME NEW n \in Names, UpdateNamePrefixList(n) PROVE Scheduled
    BY <2>2, <2>4 DEF UpdateNamePrefixList, Types
  <2>5. ASSUME NEW c \in Contents, BuildAdjLsa(c) PROVE Scheduled
    BY <2>2, <2>5 DEF BuildAdjLsa, Types
  <2>6. CASE RemoveOwnAdjLsa
    <3>1. DrivesRouting("ADJ")
      BY DEF DrivesRouting
    <3>2. QED
      BY <2>6, <3>1, ScheduleDrives DEF RemoveOwnAdjLsa
  <2>7. ASSUME NEW t \in Types, NEW r \in Routers, StoredTimerFires(t, r) PROVE Scheduled
    BY <2>1, <2>7, ExpireTopology DEF StoredTimerFires
  <2>8. ASSUME NEW t \in Types, NEW r \in Routers, NEW s, LooseTimerFires(t, r, s) PROVE Scheduled
    BY <2>1, <2>8, ExpireTopology DEF LooseTimerFires
  <2>9. CASE Calculate \/ UNCHANGED vars
    BY <2>9, TopologyStays DEF Calculate, vars, lsaVars
  <2>10. CASE \E r \in Others, S \in SUBSET Names : \E s \in 1..MaxSeq["NAME"] :
                ProcessContent("NAME", r, s, S, Blank)
    BY <2>3, <2>10 DEF Types
  <2>11. CASE \E t \in {"ADJ", "COR"}, r \in Others, c \in Contents : \E s \in 1..MaxSeq[t] :
                ProcessContent(t, r, s, {}, c)
    BY <2>3, <2>11 DEF Types
  <2>12. CASE \E t \in Types, r \in Routers :
                \/ StoredTimerFires(t, r)
                \/ \E s \in 1..MaxSeq[t] : LooseTimerFires(t, r, s)
    BY <2>7, <2>8, <2>12
  <2>13. QED
    BY <1>1, <2>4, <2>5, <2>6, <2>9, <2>10, <2>11, <2>12 DEF Next
<1>2. IInv /\ [Next]_vars => (Topology' # Topology => calcScheduled')
  BY <1>1
<1>3. QED
  BY InvCorrect, <1>2, PTL DEF Spec, TopologyChangeSchedules
=============================================================================
