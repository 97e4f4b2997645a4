-------------------------- MODULE SyncLogicProofs --------------------------
(***************************************************************************)
(* What the synchronisation promises, for any number of routers,           *)
(* publications and restarts.                                              *)
(***************************************************************************)
EXTENDS SyncLogic, TLAPS

Below(s, t) == \A p \in Routers : s[p] <= t[p]

\* What makes a packet worth sending, one by one.
Useful(type, d, content) ==
  /\ type = "normal" => Update(d, content) # d
  /\ type = "recovery" => Below(d, content)

(***************************************************************************)
(* The inductive invariant, by variable.  LogLeadsHere needs that the log  *)
(* is about the past of the state for a diff out of it to be news, and the *)
(* diff of a publication is news because no digest is ahead of what has    *)
(* been published.                                                         *)
(***************************************************************************)
LogTyped ==
  /\ DOMAIN log = Routers
  /\ \A r \in Routers : DOMAIN log[r] \subseteq States /\ log[r] \in [DOMAIN log[r] -> States]

LogIsPast == \A r \in Routers : \A d \in DOMAIN log[r] : Below(d, state[r])

CountersGood == published \in States /\ restarts \in 0..MaxRestarts

StateGood == state \in [Routers -> States] /\ LogTyped /\ LogLeadsHere /\ LogIsPast

StatePublished == \A r \in Routers : Below(state[r], published)

TableGood ==
  /\ interestTable \in [Routers -> SUBSET (States \X BOOLEAN)]
  /\ \A r \in Routers : \A e \in interestTable[r] : Below(e[1], published)

InterestsGood ==
  /\ interests \in [Routers -> SUBSET Names]
  /\ \A r \in Routers : \A n \in interests[r] : Below(n[2], published)

DelaysGood ==
  /\ storedDelay \in [Routers -> States \union {None}]
  /\ looseDelays \in [Routers -> SUBSET States]
  /\ \A r \in Routers : storedDelay[r] # None => Below(storedDelay[r], published)
  /\ \A r \in Routers : \A d \in looseDelays[r] : Below(d, published)

DataGood ==
  /\ data \subseteq {"normal", "recovery"} \X States \X States
  /\ \A a \in data : Below(a[2], published) /\ Below(a[3], published)
  /\ \A a \in data : Useful(a[1], a[2], a[3])

IInv ==
  /\ CountersGood
  /\ StateGood
  /\ StatePublished
  /\ TableGood
  /\ InterestsGood
  /\ DelaysGood
  /\ DataGood

-----------------------------------------------------------------------------
(* The operators on states.                                                *)

\* States are closed under what is done with them.
LEMMA StatesClosed ==
  ASSUME NEW s \in States, NEW t \in States
  PROVE  Update(s, t) \in States /\ News(s, t) \in States /\ Merge(s, t) \in States
BY DEF States, Update, News, Merge

\* The empty state is a state, and no other is below it.
LEMMA EmptyIsLeast ==
  /\ Empty \in States
  /\ \A s \in States : Below(Empty, s)
  /\ \A s \in States : Merge(s, Empty) = s
  /\ \A s \in States : Update(Empty, s) = s
BY DEF Empty, States, Below, Merge, Update

\* Taking leaves loses nothing, and brings what is below the bound of both.
LEMMA UpdateGrows ==
  ASSUME NEW s \in States, NEW t \in States
  PROVE  /\ Below(s, Update(s, t)) /\ Below(t, Update(s, t))
         /\ \A u \in States : Below(s, u) /\ Below(t, u) => Below(Update(s, t), u)
BY DEF States, Update, Below

\* Order between states.
LEMMA BelowTransitive ==
  ASSUME NEW s \in States, NEW t \in States, NEW u \in States, Below(s, t), Below(t, u)
  PROVE  Below(s, u)
BY DEF States, Below

\* A diff that led to s leads to what s becomes, once the news are added to it.
LEMMA MergeFollows ==
  ASSUME NEW d \in States, NEW diff \in States, NEW s \in States, NEW t \in States,
         Merge(d, diff) = s
  PROVE  Merge(d, Merge(diff, News(s, t))) = Update(s, t)
<1>1. ASSUME NEW p \in Routers
      PROVE  Merge(d, Merge(diff, News(s, t)))[p] = Update(s, t)[p]
  <2>1. s[p] = IF diff[p] # 0 THEN diff[p] ELSE d[p]
    BY DEF Merge
  <2>2. s[p] \in Nat /\ t[p] \in Nat
    BY DEF States
  <2>3. News(s, t)[p] = IF t[p] > s[p] THEN t[p] ELSE 0
    BY DEF News
  <2>4. Merge(diff, News(s, t))[p] = IF t[p] > s[p] THEN t[p] ELSE diff[p]
    BY <2>2, <2>3 DEF Merge
  <2> QED BY <2>1, <2>2, <2>4 DEF Merge, Update
<1> QED BY <1>1 DEF Merge, Update

\* A diff that leads from an earlier state to another one has news for it.
LEMMA DiffIsNews ==
  ASSUME NEW d \in States, NEW diff \in States, NEW s \in States,
         Merge(d, diff) = s, d # s, Below(d, s)
  PROVE  Update(d, diff) # d
<1>1. PICK p \in Routers : d[p] # s[p]
  BY DEF States
<1>2. diff[p] = s[p]
  BY <1>1 DEF Merge
<1>3. d[p] < s[p]
  BY <1>1 DEF States, Below
<1>4. Update(d, diff)[p] # d[p]
  BY <1>2, <1>3 DEF States, Update
<1> QED BY <1>4

-----------------------------------------------------------------------------
(* The state and its log.                                                  *)

\* What learning leaves does to the state and the log of r.
LEMMA LearnEffect ==
  ASSUME StateGood, NEW r \in Routers, NEW leaves \in States,
         InsertToDiffLog(r, Update(state[r], leaves), News(state[r], leaves))
  PROVE  state' = [state EXCEPT ![r] = Update(state[r], leaves)] /\ StateGood'
<1> DEFINE s == state[r]
           new == Update(s, leaves)
           diff == News(s, leaves)
<1>1. s \in States /\ new \in States /\ diff \in States
  BY StatesClosed DEF StateGood
<1>2. /\ state' = [state EXCEPT ![r] = new] /\ state' \in [Routers -> States]
      /\ state'[r] = new /\ \A q \in Routers \ {r} : state'[q] = state[q]
  BY <1>1 DEF InsertToDiffLog, StateGood
<1>3. /\ DOMAIN log' = Routers
      /\ DOMAIN log'[r] = DOMAIN log[r] \union {new}
      /\ log'[r][new] = Empty
      /\ \A d \in DOMAIN log[r] : d # new => log'[r][d] = Merge(log[r][d], diff)
      /\ \A q \in Routers \ {r} : log'[q] = log[q]
  BY DEF InsertToDiffLog, StateGood, LogTyped
<1>4. \A d \in DOMAIN log[r] : d \in States /\ log[r][d] \in States
  BY DEF StateGood, LogTyped
<1>5. \A d \in DOMAIN log[r] : Merge(log[r][d], diff) \in States
  BY <1>1, <1>4, StatesClosed
<1>6. DOMAIN log'[r] \subseteq States /\ log'[r] \in [DOMAIN log'[r] -> States]
  <2>1. log'[r] = [d \in DOMAIN log[r] \union {new} |->
                     IF d = new THEN Empty ELSE Merge(log[r][d], diff)]
    BY DEF InsertToDiffLog, StateGood, LogTyped
  <2> HIDE DEF new, diff
  <2> QED BY <1>1, <1>3, <1>4, <1>5, <2>1, EmptyIsLeast
<1>7. LogTyped'
  BY <1>3, <1>6 DEF StateGood, LogTyped
<1>8. ASSUME NEW d \in DOMAIN log'[r]
      PROVE  Merge(d, log'[r][d]) = new /\ Below(d, new)
  <2>1. CASE d = new
    <3>1. Below(new, new)
      BY <1>1 DEF States, Below
    <3> QED BY <1>1, <1>3, <2>1, <3>1, EmptyIsLeast
  <2>2. CASE d # new
    <3>1. d \in DOMAIN log[r]
      BY <1>3, <2>2
    <3>2. Merge(d, log[r][d]) = s /\ Below(d, s)
      BY <3>1 DEF StateGood, LogLeadsHere, LogIsPast
    <3>3. Merge(d, Merge(log[r][d], diff)) = new
      BY <1>1, <1>4, <3>1, <3>2, MergeFollows
    <3>4. Below(d, new)
      BY <1>1, <1>4, <3>1, <3>2, UpdateGrows, BelowTransitive
    <3> QED BY <1>3, <2>2, <3>1, <3>3, <3>4
  <2> QED BY <2>1, <2>2
<1>9. LogLeadsHere'
  <2>1. ASSUME NEW q \in Routers \ {r}
        PROVE  /\ (state[q] # Empty => InLog(q, state[q]))'
               /\ \A d \in DOMAIN log'[q] : Merge(d, log'[q][d]) = state'[q]
    BY <1>2, <1>3 DEF StateGood, LogLeadsHere, InLog
  <2>2. InLog(r, state[r])'
    BY <1>2, <1>3 DEF InLog
  <2> HIDE DEF new
  <2>3. \A d \in DOMAIN log'[r] : Merge(d, log'[r][d]) = state'[r]
    BY <1>2, <1>8
  <2> QED BY <2>1, <2>2, <2>3 DEF LogLeadsHere
<1>10. LogIsPast'
  <2> HIDE DEF new
  <2>1. \A d \in DOMAIN log'[r] : Below(d, state'[r])
    BY <1>2, <1>8
  <2>2. \A q \in Routers \ {r} : \A d \in DOMAIN log'[q] : Below(d, state'[q])
    BY <1>2, <1>3 DEF StateGood, LogIsPast
  <2> QED BY <2>1, <2>2 DEF LogIsPast, Below
<1> QED BY <1>2, <1>7, <1>9, <1>10 DEF StateGood

\* A restart leaves nothing in the log of r.
LEMMA RestartEffect ==
  ASSUME StateGood, NEW r \in Routers, Restart(r)
  PROVE  StateGood'
<1>1. /\ state' = [state EXCEPT ![r] = Empty]
      /\ log' = [log EXCEPT ![r] = [d \in {} |-> Empty]]
  BY DEF Restart
<1>2. /\ state' \in [Routers -> States] /\ state'[r] = Empty
      /\ \A q \in Routers \ {r} : state'[q] = state[q]
  BY <1>1, EmptyIsLeast DEF StateGood
<1>3. /\ DOMAIN log' = Routers /\ log'[r] = [d \in {} |-> Empty] /\ DOMAIN log'[r] = {}
      /\ \A q \in Routers \ {r} : log'[q] = log[q]
  BY <1>1 DEF StateGood, LogTyped
<1>4. LogTyped'
  BY <1>3 DEF StateGood, LogTyped
<1>5. LogLeadsHere'
  BY <1>2, <1>3 DEF StateGood, LogLeadsHere, InLog
<1>6. LogIsPast'
  BY <1>2, <1>3 DEF StateGood, LogIsPast, Below
<1> QED BY <1>2, <1>4, <1>5, <1>6 DEF StateGood

-----------------------------------------------------------------------------
(* The table and the packets sent.                                         *)

\* A packet that is published and useful may be sent.
LEMMA SendEffect ==
  ASSUME DataGood, published' = published,
         NEW type \in {"normal", "recovery"}, NEW d \in States, NEW content \in States,
         Below(d, published), Below(content, published), Useful(type, d, content),
         SendSyncData(type, d, content)
  PROVE  DataGood'
<1> DEFINE a == <<type, d, content>>
<1>1. data' = data \union {a}
  BY DEF SendSyncData
<1>2. a \in {"normal", "recovery"} \X States \X States /\ a[1] = type /\ a[2] = d /\ a[3] = content
  OBVIOUS
<1>3. data' \subseteq {"normal", "recovery"} \X States \X States
  BY <1>1, <1>2 DEF DataGood
<1>4. \A b \in data' : Below(b[2], published') /\ Below(b[3], published')
  BY <1>1, <1>2 DEF DataGood
<1>5. \A b \in data' : Useful(b[1], b[2], b[3])
  BY <1>1, <1>2 DEF DataGood
<1> QED BY <1>3, <1>4, <1>5 DEF DataGood

\* An interest for a published digest may be kept.
LEMMA InsertEffect ==
  ASSUME TableGood, published' = published,
         NEW r \in Routers, NEW d \in States, NEW unknown \in BOOLEAN,
         Below(d, published), InsertInterest(r, d, unknown)
  PROVE  TableGood'
<1>1. interestTable' = [interestTable EXCEPT ![r] = {e \in @ : e[1] # d} \union {<<d, unknown>>}]
  BY DEF InsertInterest
<1>2. interestTable'[r] = {e \in interestTable[r] : e[1] # d} \union {<<d, unknown>>}
  BY <1>1 DEF TableGood
<1>3. \A q \in Routers \ {r} : interestTable'[q] = interestTable[q]
  BY <1>1 DEF TableGood
<1>4. <<d, unknown>> \in States \X BOOLEAN
  OBVIOUS
<1>5. interestTable' \in [Routers -> SUBSET (States \X BOOLEAN)]
  BY <1>1, <1>4 DEF TableGood
<1>6. ASSUME NEW q \in Routers, NEW e \in interestTable'[q]
      PROVE  Below(e[1], published)
  <2>1. CASE q = r /\ e = <<d, unknown>>
    BY <2>1
  <2>2. CASE e \in interestTable[q]
    BY <2>2 DEF TableGood
  <2> QED BY <1>2, <1>3, <2>1, <2>2
<1> QED BY <1>5, <1>6 DEF TableGood

\* What AnswerOrKeep sends is useful, and what it keeps is published.
LEMMA AnswerOrKeepEffect ==
  ASSUME IInv, published' = published, NEW r \in Routers, NEW d \in States,
         Below(d, published), AnswerOrKeep(r, d)
  PROVE  TableGood' /\ DataGood'
<1>1. TableGood /\ DataGood
  BY DEF IInv
<1>2. state[r] \in States /\ Below(state[r], published)
  BY DEF IInv, StateGood, StatePublished
<1>3. ASSUME UNCHANGED interestTable PROVE TableGood'
  BY <1>1, <1>3 DEF TableGood
<1>4. ASSUME UNCHANGED data PROVE DataGood'
  BY <1>1, <1>4 DEF DataGood
<1>5. CASE ZeroRequest(r, d) /\ SendSyncData("normal", d, state[r]) /\ UNCHANGED interestTable
  <2>1. Useful("normal", d, state[r])
    BY <1>2, <1>5, EmptyIsLeast DEF Useful, ZeroRequest
  <2> QED BY <1>1, <1>2, <1>3, <1>5, <2>1, SendEffect
<1>6. CASE InsertInterest(r, d, FALSE) /\ UNCHANGED data
  BY <1>1, <1>4, <1>6, InsertEffect
<1>7. CASE /\ d # state[r] /\ InLog(r, d)
           /\ SendSyncData("normal", d, log[r][d]) /\ UNCHANGED interestTable
  <2>1. d \in DOMAIN log[r] /\ log[r][d] \in States
    BY <1>7 DEF IInv, StateGood, LogTyped, InLog
  <2>2. Merge(d, log[r][d]) = state[r] /\ Below(d, state[r])
    BY <2>1 DEF IInv, StateGood, LogLeadsHere, LogIsPast
  <2>3. Useful("normal", d, log[r][d])
    BY <1>2, <1>7, <2>1, <2>2, DiffIsNews DEF Useful
  <2>4. ASSUME NEW p \in Routers PROVE log[r][d][p] <= published[p]
    <3>1. state[r][p] = IF log[r][d][p] # 0 THEN log[r][d][p] ELSE d[p]
      BY <2>2 DEF Merge
    <3>2. log[r][d][p] \in Nat /\ published[p] \in Nat /\ state[r][p] <= published[p]
      BY <1>2, <2>1 DEF IInv, CountersGood, States, Below
    <3> QED BY <3>1, <3>2
  <2>5. Below(log[r][d], published)
    BY <2>4 DEF Below
  <2> QED BY <1>1, <1>3, <1>7, <2>1, <2>3, <2>5, SendEffect
<1> QED BY <1>5, <1>6, <1>7 DEF AnswerOrKeep

-----------------------------------------------------------------------------
(* The steps, one by one.                                                  *)

\* An interest for a published digest may be expressed.
LEMMA ExpressEffect ==
  ASSUME InterestsGood, published' = published, NEW r \in Routers,
         NEW type \in {"normal", "recovery"}, NEW d \in States, Below(d, published),
         ExpressInterest(r, type, d)
  PROVE  InterestsGood'
<1>1. interests' = [interests EXCEPT ![r] = @ \union {<<type, d>>}]
  BY DEF ExpressInterest
<1>2. <<type, d>> \in Names /\ <<type, d>>[2] = d
  BY DEF Names
<1>3. interests' \in [Routers -> SUBSET Names]
  BY <1>1, <1>2 DEF InterestsGood
<1>4. \A q \in Routers : \A n \in interests'[q] : Below(n[2], published)
  BY <1>1, <1>2 DEF InterestsGood
<1> QED BY <1>3, <1>4 DEF InterestsGood

\* The periodic interest is for the present state.
LEMMA SendSyncInterestStep ==
  ASSUME IInv, NEW r \in Routers, SendSyncInterest(r)
  PROVE  IInv'
<1>1. state[r] \in States /\ Below(state[r], published)
  BY DEF IInv, StateGood, StatePublished
<1>2. InterestsGood'
  BY <1>1, ExpressEffect DEF SendSyncInterest, IInv
<1>3. CountersGood' /\ StateGood' /\ StatePublished'
  BY DEF SendSyncInterest, IInv, CountersGood, StateGood, StatePublished, LogTyped,
         LogLeadsHere, LogIsPast, InLog
<1>4. TableGood' /\ DelaysGood' /\ DataGood'
  BY DEF SendSyncInterest, timerVars, IInv, TableGood, DelaysGood, DataGood
<1> QED BY <1>2, <1>3, <1>4 DEF IInv

\* Whatever interest arrives is for a published digest.
LEMMA OnSyncInterestStep ==
  ASSUME IInv, NEW r \in Routers, NEW d, OnSyncInterest(r, d)
  PROVE  IInv'
<1>1. PICK q \in Routers : <<"normal", d>> \in interests[q]
  BY DEF OnSyncInterest
<1>2. d \in States /\ Below(d, published)
  <2>1. <<"normal", d>> \in Names /\ Below(<<"normal", d>>[2], published)
    BY <1>1 DEF IInv, InterestsGood
  <2> QED BY <2>1 DEF Names
<1>3. UNCHANGED <<published, state, log, interests, restarts>>
  BY DEF OnSyncInterest
<1>4. CountersGood' /\ StateGood' /\ StatePublished' /\ InterestsGood'
  BY <1>3 DEF IInv, CountersGood, StateGood, StatePublished, LogTyped, LogLeadsHere,
              LogIsPast, InLog, InterestsGood
<1>5. CASE AnswerOrKeep(r, d) /\ UNCHANGED timerVars
  <2>1. TableGood' /\ DataGood'
    BY <1>2, <1>3, <1>5, AnswerOrKeepEffect
  <2>2. DelaysGood'
    BY <1>3, <1>5 DEF IInv, DelaysGood, timerVars
  <2> QED BY <1>4, <2>1, <2>2 DEF IInv
<1>6. CASE /\ storedDelay' = [storedDelay EXCEPT ![r] = d]
           /\ looseDelays' =
                IF \E e \in interestTable[r] : e[1] = d THEN looseDelays
                ELSE [looseDelays EXCEPT ![r] = @ \union ({storedDelay[r]} \ {None})]
           /\ InsertInterest(r, d, TRUE)
           /\ UNCHANGED data
  <2>1. TableGood'
    BY <1>2, <1>3, <1>6, InsertEffect DEF IInv
  <2>2. DataGood'
    BY <1>3, <1>6 DEF IInv, DataGood
  <2>3. storedDelay[r] # None => storedDelay[r] \in States /\ Below(storedDelay[r], published)
    BY DEF IInv, DelaysGood
  <2>4. storedDelay' \in [Routers -> States \union {None}]
    BY <1>2, <1>6 DEF IInv, DelaysGood
  <2>5. \A p \in Routers : storedDelay'[p] # None => Below(storedDelay'[p], published)
    BY <1>2, <1>6 DEF IInv, DelaysGood
  <2>6. looseDelays' \in [Routers -> SUBSET States]
    BY <1>6, <2>3 DEF IInv, DelaysGood
  <2>7. \A p \in Routers : \A c \in looseDelays'[p] : Below(c, published)
    BY <1>6, <2>3 DEF IInv, DelaysGood
  <2>8. DelaysGood'
    BY <1>3, <2>4, <2>5, <2>6, <2>7 DEF DelaysGood
  <2> QED BY <1>4, <2>1, <2>2, <2>8 DEF IInv
<1> QED BY <1>5, <1>6 DEF OnSyncInterest

\* Delayed processing is about a published digest.
LEMMA DelayedProcessingStep ==
  ASSUME IInv, NEW r \in Routers, NEW d \in looseDelays[r] \union ({storedDelay[r]} \ {None}),
         DelayedProcessing(r, d)
  PROVE  IInv'
<1>1. d \in States /\ Below(d, published)
  BY DEF IInv, DelaysGood
<1>2. UNCHANGED <<published, state, log, restarts>>
  BY DEF DelayedProcessing
<1>3. CountersGood' /\ StateGood' /\ StatePublished'
  BY <1>2 DEF IInv, CountersGood, StateGood, StatePublished, LogTyped, LogLeadsHere,
              LogIsPast, InLog
<1>4. DelaysGood'
  <2>1. CASE storedDelay' = [storedDelay EXCEPT ![r] = None] /\ UNCHANGED looseDelays
    BY <1>2, <2>1 DEF IInv, DelaysGood
  <2>2. CASE looseDelays' = [looseDelays EXCEPT ![r] = @ \ {d}] /\ UNCHANGED storedDelay
    BY <1>2, <2>2 DEF IInv, DelaysGood
  <2> QED BY <2>1, <2>2 DEF DelayedProcessing
<1>5. CASE AnswerOrKeep(r, d) /\ UNCHANGED interests
  <2>1. TableGood' /\ DataGood'
    BY <1>1, <1>2, <1>5, AnswerOrKeepEffect
  <2>2. InterestsGood'
    BY <1>2, <1>5 DEF IInv, InterestsGood
  <2> QED BY <1>3, <1>4, <2>1, <2>2 DEF IInv
<1>6. CASE ExpressInterest(r, "recovery", d) /\ UNCHANGED <<interestTable, data>>
  <2>1. InterestsGood'
    BY <1>1, <1>2, <1>6, ExpressEffect DEF IInv
  <2>2. TableGood' /\ DataGood'
    BY <1>2, <1>6 DEF IInv, TableGood, DataGood
  <2> QED BY <1>3, <1>4, <2>1, <2>2 DEF IInv
<1> QED BY <1>5, <1>6 DEF DelayedProcessing

\* The answer to a recovery interest holds what the log is about.
LEMMA OnRecoveryInterestStep ==
  ASSUME IInv, NEW r \in Routers, NEW d, OnRecoveryInterest(r, d)
  PROVE  IInv'
<1>1. /\ UNCHANGED <<published, state, log, interestTable, storedDelay, looseDelays, interests, restarts>>
      /\ d \in DOMAIN log[r] /\ SendSyncData("recovery", d, state[r])
  BY DEF OnRecoveryInterest, timerVars, InLog
<1>2. CountersGood' /\ StateGood' /\ StatePublished' /\ TableGood' /\ InterestsGood' /\ DelaysGood'
  BY <1>1 DEF IInv, CountersGood, StateGood, StatePublished, LogTyped, LogLeadsHere,
              LogIsPast, InLog, TableGood, InterestsGood, DelaysGood
<1>3. d \in States /\ state[r] \in States /\ published \in States
  BY <1>1 DEF IInv, CountersGood, StateGood, LogTyped
<1>4. Below(d, state[r]) /\ Below(state[r], published)
  BY <1>1 DEF IInv, StateGood, LogIsPast, StatePublished
<1>5. Below(d, published)
  BY <1>3, <1>4, BelowTransitive
<1>6. Useful("recovery", d, state[r])
  BY <1>4 DEF Useful
<1>7. DataGood'
  BY <1>1, <1>3, <1>4, <1>5, <1>6, SendEffect DEF IInv
<1> QED BY <1>2, <1>7 DEF IInv

\* Whatever data arrives has been published.
LEMMA OnSyncDataStep ==
  ASSUME IInv, NEW r \in Routers, NEW a \in data, OnSyncData(r, a[1], a[2], a[3])
  PROVE  IInv' /\ Below(state[r], state'[r])
               /\ state' = [state EXCEPT ![r] = state'[r]] /\ published' = published
<1>1. PICK content : content = a[3]
  OBVIOUS
<1>2. content \in States /\ Below(content, published)
  BY <1>1 DEF IInv, DataGood
<1>3. state[r] \in States /\ Below(state[r], published) /\ published \in States
  BY DEF IInv, CountersGood, StateGood, StatePublished
<1>4. /\ interests' = [interests EXCEPT ![r] = @ \ {<<a[1], a[2]>>}]
      /\ interestTable' = IF a[1] = "normal"
                          THEN [interestTable EXCEPT ![r] = {e \in @ : e[1] # a[2]}]
                          ELSE interestTable
      /\ InsertToDiffLog(r, Update(state[r], content), News(state[r], content))
      /\ UNCHANGED <<published, storedDelay, looseDelays, data, restarts>>
  BY <1>1 DEF OnSyncData
<1>5. state' = [state EXCEPT ![r] = Update(state[r], content)] /\ StateGood'
  BY <1>2, <1>4, LearnEffect DEF IInv
<1>6. state'[r] = Update(state[r], content)
  BY <1>5 DEF IInv, StateGood
<1>7. Below(state[r], state'[r]) /\ Below(state'[r], published)
  BY <1>2, <1>3, <1>6, UpdateGrows
<1>8. \A q \in Routers : Below(state'[q], published)
  BY <1>5, <1>7 DEF IInv, StateGood, StatePublished
<1>9. StatePublished'
  BY <1>4, <1>8 DEF StatePublished
<1>10. CountersGood' /\ DelaysGood' /\ DataGood'
  BY <1>4 DEF IInv, CountersGood, DelaysGood, DataGood
<1>11. InterestsGood'
  BY <1>4 DEF IInv, InterestsGood
<1>12. TableGood'
  BY <1>4 DEF IInv, TableGood
<1> QED BY <1>4, <1>5, <1>6, <1>7, <1>9, <1>10, <1>11, <1>12 DEF IInv

\* No digest knows of what is published now, so that the diff is news.
LEMMA AddLocalNamesStep ==
  ASSUME IInv, NEW r \in Routers, AddLocalNames(r)
  PROVE  /\ IInv'
         /\ published' = [published EXCEPT ![r] = published[r] + 1]
         /\ state' = [state EXCEPT ![r] = [state[r] EXCEPT ![r] = published[r] + 1]]
<1>1. PICK seq, diff, full :
        /\ seq = published[r] + 1
        /\ diff = [Empty EXCEPT ![r] = seq]
        /\ full = Update(state[r], diff)
        /\ published' = [published EXCEPT ![r] = seq]
        /\ InsertToDiffLog(r, full, diff)
        /\ SatisfyPendingSyncInterests(r, diff, full)
        /\ UNCHANGED <<timerVars, interests, restarts>>
  BY DEF AddLocalNames
<1>2. /\ published \in States /\ state[r] \in States
      /\ Below(state[r], published) /\ seq \in Nat
  BY <1>1 DEF IInv, CountersGood, StateGood, StatePublished, States
<1>3. diff \in States /\ diff[r] = seq /\ \A p \in Routers \ {r} : diff[p] = 0
  BY <1>1, <1>2 DEF Empty, States
<1>4. /\ published' \in States /\ published'[r] = seq
      /\ \A p \in Routers \ {r} : published'[p] = published[p]
      /\ Below(published, published')
  BY <1>1, <1>2 DEF States, Below
<1>5. state[r][r] < seq
  BY <1>1, <1>2 DEF States, Below
<1>6. diff = News(state[r], diff)
  BY <1>2, <1>3, <1>5 DEF News, States
<1>7. full = [state[r] EXCEPT ![r] = seq]
  BY <1>1, <1>2, <1>3, <1>5 DEF Update, States
<1>8. full \in States /\ Below(full, published') /\ Below(diff, published')
  BY <1>2, <1>3, <1>4, <1>7 DEF States, Below
<1>9. state' = [state EXCEPT ![r] = full] /\ StateGood'
  BY <1>1, <1>3, <1>6, LearnEffect DEF IInv
<1>10. ASSUME NEW s \in States, Below(s, published) PROVE Below(s, published')
  BY <1>2, <1>4, <1>10, BelowTransitive
<1>11. StatePublished'
  <2>1. \A q \in Routers : Below(state'[q], published')
    BY <1>8, <1>9, <1>10 DEF IInv, StateGood, StatePublished
  <2> QED BY <2>1 DEF StatePublished
<1>12. CountersGood'
  BY <1>1, <1>4 DEF IInv, CountersGood
<1>13. InterestsGood'
  <2>1. \A q \in Routers : \A n \in interests[q] : n[2] \in States
    BY DEF IInv, InterestsGood, Names
  <2> QED BY <1>1, <1>10, <2>1 DEF IInv, InterestsGood
<1>14. DelaysGood'
  <2>1. UNCHANGED <<storedDelay, looseDelays>>
    BY <1>1 DEF timerVars
  <2> QED BY <1>10, <2>1 DEF IInv, DelaysGood
<1>15. /\ interestTable' = [interestTable EXCEPT ![r] = {}]
       /\ data' = data \union {<<"normal", e[1], IF e[2] THEN full ELSE diff>> : e \in interestTable[r]}
  BY <1>1 DEF SatisfyPendingSyncInterests
<1>16. TableGood'
  <2>1. \A q \in Routers : \A e \in interestTable[q] : e[1] \in States
    BY DEF IInv, TableGood
  <2> QED BY <1>10, <1>15, <2>1 DEF IInv, TableGood
<1>17. ASSUME NEW b \in data'
       PROVE  /\ b \in {"normal", "recovery"} \X States \X States
              /\ Below(b[2], published') /\ Below(b[3], published')
              /\ Useful(b[1], b[2], b[3])
  <2>1. CASE b \in data
    <3>1. b[2] \in States /\ b[3] \in States
      BY <2>1 DEF IInv, DataGood
    <3> QED BY <1>10, <2>1, <3>1 DEF IInv, DataGood
  <2>2. CASE b \notin data
    <3>1. PICK e \in interestTable[r] : b = <<"normal", e[1], IF e[2] THEN full ELSE diff>>
      BY <1>15, <2>2
    <3>2. e[1] \in States /\ Below(e[1], published)
      BY DEF IInv, TableGood
    <3>3. PICK content \in States : b = <<"normal", e[1], content>> /\ content[r] = seq
                                    /\ Below(content, published')
      BY <1>2, <1>3, <1>7, <1>8, <3>1 DEF States
    <3>4. e[1][r] < seq
      BY <1>1, <1>2, <3>2 DEF States, Below
    <3>5. Update(e[1], content)[r] = seq
      BY <1>2, <3>2, <3>3, <3>4 DEF States, Update
    <3>6. Useful("normal", e[1], content)
      BY <1>2, <3>2, <3>4, <3>5 DEF Useful, States
    <3> QED BY <1>10, <3>2, <3>3, <3>6
  <2> QED BY <2>1, <2>2
<1>18. DataGood'
  BY <1>17 DEF DataGood
<1> QED BY <1>1, <1>7, <1>9, <1>11, <1>12, <1>13, <1>14, <1>16, <1>18 DEF IInv

\* Entries and interests that are dropped disturb nothing.
LEMMA ExpireInterestStep ==
  ASSUME IInv, NEW r \in Routers, ExpireInterest(r)
  PROVE  IInv'
<1>1. PICK e \in interestTable[r] : interestTable' = [interestTable EXCEPT ![r] = @ \ {e}]
  BY DEF ExpireInterest
<1>2. UNCHANGED <<published, state, log, storedDelay, looseDelays, interests, data, restarts>>
  BY DEF ExpireInterest, timerVars, netVars
<1>3. TableGood'
  BY <1>1, <1>2 DEF IInv, TableGood
<1> QED BY <1>2, <1>3 DEF IInv, CountersGood, StateGood, StatePublished, LogTyped, LogLeadsHere,
                          LogIsPast, InLog, InterestsGood, DelaysGood, DataGood

LEMMA InterestTimeoutStep ==
  ASSUME IInv, NEW r \in Routers, NEW type, InterestTimeout(r, type)
  PROVE  IInv'
<1>1. PICK n \in interests[r] : interests' = [interests EXCEPT ![r] = @ \ {n}]
  BY DEF InterestTimeout
<1>2. UNCHANGED <<published, state, log, storedDelay, looseDelays, interestTable, data, restarts>>
  BY DEF InterestTimeout, timerVars
<1>3. InterestsGood'
  BY <1>1, <1>2 DEF IInv, InterestsGood
<1> QED BY <1>2, <1>3 DEF IInv, CountersGood, StateGood, StatePublished, LogTyped, LogLeadsHere,
                          LogIsPast, InLog, TableGood, DelaysGood, DataGood

\* A router that starts over is behind everything.
LEMMA RestartStep ==
  ASSUME IInv, NEW r \in Routers, Restart(r)
  PROVE  /\ IInv'
         /\ state' = [state EXCEPT ![r] = Empty] /\ published' = published
<1>1. /\ restarts < MaxRestarts /\ restarts' = restarts + 1
      /\ state' = [state EXCEPT ![r] = Empty]
      /\ interestTable' = [interestTable EXCEPT ![r] = {}]
      /\ storedDelay' = [storedDelay EXCEPT ![r] = None]
      /\ looseDelays' = [looseDelays EXCEPT ![r] = {}]
      /\ interests' = [interests EXCEPT ![r] = {}]
      /\ UNCHANGED <<published, data>>
  BY DEF Restart
<1>2. CountersGood'
  BY <1>1, BoundAssumption DEF IInv, CountersGood
<1>3. StateGood'
  BY RestartEffect DEF IInv
<1>4. published \in States /\ Below(Empty, published)
  BY EmptyIsLeast DEF IInv, CountersGood
<1>5. StatePublished'
  <2>1. \A q \in Routers : Below(state'[q], published)
    BY <1>1, <1>4 DEF IInv, StateGood, StatePublished
  <2> QED BY <1>1, <2>1 DEF StatePublished
<1>6. TableGood' /\ InterestsGood' /\ DataGood'
  BY <1>1 DEF IInv, TableGood, InterestsGood, DataGood
<1>7. DelaysGood'
  BY <1>1 DEF IInv, DelaysGood
<1> QED BY <1>1, <1>2, <1>3, <1>5, <1>6, <1>7 DEF IInv

-----------------------------------------------------------------------------
(* The invariant and what follows from it.                                 *)

\* Nothing is known, nothing is published, nothing is sent.
LEMMA InitCorrect == Init => IInv
<1> SUFFICES ASSUME Init PROVE IInv
  OBVIOUS
<1>1. Empty \in States /\ Below(Empty, Empty) /\ Empty = published
  BY EmptyIsLeast DEF Init, Empty
<1>2. CountersGood
  BY <1>1, BoundAssumption DEF Init, CountersGood
<1>3. StateGood
  BY <1>1 DEF Init, StateGood, LogTyped, LogLeadsHere, LogIsPast, InLog
<1>4. StatePublished
  BY <1>1 DEF Init, StatePublished
<1>5. TableGood /\ InterestsGood
  BY DEF Init, TableGood, InterestsGood
<1>6. DelaysGood /\ DataGood
  BY DEF Init, DelaysGood, DataGood
<1> QED BY <1>2, <1>3, <1>4, <1>5, <1>6 DEF IInv

\* Every step keeps the invariant, and is a step of SyncSpec or a stutter.
LEMMA NextCorrect == IInv /\ [Next]_vars => IInv' /\ [Abstract!Next]_<<published, state>>
<1> SUFFICES ASSUME IInv, [Next]_vars
             PROVE  IInv' /\ [Abstract!Next]_<<published, state>>
  OBVIOUS
<1>1. CASE UNCHANGED vars
  <2>1. IInv'
    BY <1>1 DEF vars, timerVars, netVars, IInv, CountersGood, StateGood, StatePublished, LogTyped,
                LogLeadsHere, LogIsPast, InLog, TableGood, InterestsGood, DelaysGood, DataGood
  <2> QED BY <1>1, <2>1 DEF vars
<1>2. ASSUME NEW r \in Routers, SendSyncInterest(r)
      PROVE  IInv' /\ UNCHANGED <<published, state>>
  BY <1>2, SendSyncInterestStep DEF SendSyncInterest
<1>3. ASSUME NEW r \in Routers, NEW d, OnSyncInterest(r, d)
      PROVE  IInv' /\ UNCHANGED <<published, state>>
  BY <1>3, OnSyncInterestStep DEF OnSyncInterest
<1>4. ASSUME NEW r \in Routers, NEW d, OnRecoveryInterest(r, d)
      PROVE  IInv' /\ UNCHANGED <<published, state>>
  BY <1>4, OnRecoveryInterestStep DEF OnRecoveryInterest
<1>5. ASSUME NEW r \in Routers, NEW d \in looseDelays[r] \union ({storedDelay[r]} \ {None}),
             DelayedProcessing(r, d)
      PROVE  IInv' /\ UNCHANGED <<published, state>>
  BY <1>5, DelayedProcessingStep DEF DelayedProcessing
<1>6. ASSUME NEW r \in Routers, NEW a \in data, OnSyncData(r, a[1], a[2], a[3])
      PROVE  IInv' /\ Abstract!Next
  <2>1. /\ IInv' /\ Below(state[r], state'[r])
        /\ state' = [state EXCEPT ![r] = state'[r]] /\ published' = published
    BY <1>6, OnSyncDataStep
  <2>2. \A p \in Routers : state'[r][p] \in state[r][p]..published[p]
    BY <2>1 DEF IInv, CountersGood, StateGood, StatePublished, States, Below
  <2>3. Abstract!Learn(r)
    BY <2>1, <2>2 DEF Abstract!Learn
  <2> QED BY <2>1, <2>3 DEF Abstract!Next
<1>7. ASSUME NEW r \in Routers, AddLocalNames(r)
      PROVE  IInv' /\ Abstract!Next
  <2>1. /\ IInv'
        /\ published' = [published EXCEPT ![r] = published[r] + 1]
        /\ state' = [state EXCEPT ![r] = [state[r] EXCEPT ![r] = published[r] + 1]]
    BY <1>7, AddLocalNamesStep
  <2>2. published[r] \in Nat /\ published'[r] = published[r] + 1
    BY <2>1 DEF IInv, CountersGood, States
  <2>3. published'[r] > published[r]
    BY <2>2
  <2>4. state' = [state EXCEPT ![r][r] = published'[r]]
    BY <2>1, <2>2
  <2>5. Abstract!Publish(r)
    BY <2>1, <2>2, <2>3, <2>4 DEF Abstract!Publish
  <2> QED BY <2>1, <2>5 DEF Abstract!Next
<1>8. ASSUME NEW r \in Routers, ExpireInterest(r)
      PROVE  IInv' /\ UNCHANGED <<published, state>>
  BY <1>8, ExpireInterestStep DEF ExpireInterest
<1>9. ASSUME NEW r \in Routers, NEW type, InterestTimeout(r, type)
      PROVE  IInv' /\ UNCHANGED <<published, state>>
  BY <1>9, InterestTimeoutStep DEF InterestTimeout
<1>10. ASSUME NEW r \in Routers, Restart(r)
       PROVE  IInv' /\ Abstract!Next
  <2>1. IInv' /\ state' = [state EXCEPT ![r] = Empty] /\ published' = published
    BY <1>10, RestartStep
  <2>2. Abstract!Restart(r)
    BY <2>1 DEF Abstract!Restart, Empty
  <2> QED BY <2>1, <2>2 DEF Abstract!Next
<1> QED BY <1>1, <1>2, <1>3, <1>4, <1>5, <1>6, <1>7, <1>8, <1>9, <1>10 DEF Next

\* The invariant holds of every behaviour.
LEMMA IInvCorrect == Spec => []IInv
BY InitCorrect, NextCorrect, PTL DEF Spec

\* States, logs, tables and packets keep their types over all steps.
THEOREM TypeCorrect == Spec => []TypeOK
<1>1. IInv => TypeOK
  BY DEF IInv, CountersGood, StateGood, LogTyped, TableGood, InterestsGood, DelaysGood, DataGood, TypeOK
<1> QED BY <1>1, IInvCorrect, PTL

\* The diff the log holds for an old digest (DiffState::diff) always leads to
\* the present state.
THEOREM LogLeadsHereCorrect == Spec => []LogLeadsHere
<1>1. IInv => LogLeadsHere
  BY DEF IInv, StateGood
<1> QED BY <1>1, IInvCorrect, PTL

\* Data for a sync interest always has news for a router in the state asked
\* about, whichever branch sent it and however long it was on its way.
THEOREM AnswersTellNewsCorrect == Spec => []AnswersTellNews
<1>1. IInv => AnswersTellNews
  BY DEF IInv, DataGood, Useful, AnswersTellNews
<1> QED BY <1>1, IInvCorrect, PTL

\* Data for a recovery interest always covers the state asked about.
THEOREM RecoveryCoversCorrect == Spec => []RecoveryCovers
<1>1. IInv => RecoveryCovers
  <2> SUFFICES ASSUME IInv, NEW a \in data, a[1] = "recovery", NEW p \in Routers
               PROVE  a[3][p] >= a[2][p]
    BY DEF RecoveryCovers
  <2>1. a[2] \in States /\ a[3] \in States /\ Below(a[2], a[3])
    BY DEF IInv, DataGood, Useful
  <2> QED BY <2>1 DEF States, Below
<1> QED BY <1>1, IInvCorrect, PTL

\* nsync implements SyncSpec: a router that lives only gets to know newer
\* numbers, and none that was not published.
THEOREM RefinesSyncSpecCorrect == Spec => RefinesSyncSpec
<1>1. Init => Abstract!Init
  BY DEF Init, Abstract!Init, Empty
<1> QED BY <1>1, IInvCorrect, NextCorrect, PTL DEF Spec, RefinesSyncSpec, Abstract!Spec
=============================================================================
