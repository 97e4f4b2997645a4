----------------------------- MODULE SyncLogic -----------------------------
(***************************************************************************)
(* nsync on every router: the state (which sequence number of which router *)
(* is known), the log of earlier states with what was learned since, the   *)
(* table of pending sync interests, delayed processing and recovery; and   *)
(* the network between them, where interests and data may be late, lost or *)
(* repeated and data is served from caches for as long as it pleases.      *)
(*                                                                         *)
(* A digest stands for the state it is computed from; the zero digest is   *)
(* that of the empty state.  States and diffs are functions from routers   *)
(* to numbers, 0 where there is no leaf.                                   *)
(***************************************************************************)
EXTENDS Naturals, FiniteSets

CONSTANTS
  Routers,
  Histories,    \* bound: how often the routers publish
  MaxRestarts,  \* bound: restarts of all routers together
  MaxPending,   \* bound: interests of a kind a router waits for at a time
  MaxTable,     \* bound: interests pending in the table of a router
  None

States == [Routers -> Nat]
Empty == [p \in Routers |-> 0]

ASSUME BoundAssumption ==
  /\ Histories \subseteq States
  /\ {MaxPending, MaxTable} \subseteq [Histories \X Routers -> Nat]
  /\ MaxRestarts \in Nat
ASSUME NoneAssumption  == None \notin States

VARIABLES
  published,     \* the number each router published last
  state,         \* m_state
  log,           \* m_log: earlier digests, each with the diffs made since
  interestTable, \* pending interests: pairs of a digest and "was unknown"
  storedDelay,   \* the digest m_delayedInterestProcessingId is about
  looseDelays,   \* delayed processing whose event id was overwritten
  interests,     \* names each router has expressed and waits for
  data,          \* every data packet sent: in a cache, or on its way
  restarts

netVars == <<interests, data>>
timerVars == <<storedDelay, looseDelays>>
vars == <<published, state, log, interestTable, timerVars, netVars, restarts>>

Names == {"normal", "recovery"} \X States

Init ==
  /\ published = [r \in Routers |-> 0]
  /\ state = [r \in Routers |-> Empty]
  /\ log = [r \in Routers |-> [d \in {} |-> Empty]]
  /\ interestTable = [r \in Routers |-> {}]
  /\ storedDelay = [r \in Routers |-> None]
  /\ looseDelays = [r \in Routers |-> {}]
  /\ interests = [r \in Routers |-> {}]
  /\ data = {}
  /\ restarts = 0

-----------------------------------------------------------------------------
(* State, diffs and the log.                                               *)

\* DiffState::operator+=: the later diff replaces leaves of the earlier one.
Merge(earlier, later) ==
  [p \in Routers |-> IF later[p] # 0 THEN later[p] ELSE earlier[p]]

\* Mutant: a full state that is received replaces the one that was there.
Mut_UpdateReplaces(s, leaves) == leaves

\* FullState::update with every leaf: only newer numbers are taken.
Update(s, leaves) ==
  [p \in Routers |-> IF leaves[p] > s[p] THEN leaves[p] ELSE s[p]]

\* The leaves that update s.
News(s, leaves) ==
  [p \in Routers |-> IF leaves[p] > s[p] THEN leaves[p] ELSE 0]

\* Mutant: the new entry is not linked to those before it.
Mut_InsertToDiffLogNotLinked(r, s, diff) ==
  /\ state' = [state EXCEPT ![r] = s]
  /\ log' = [log EXCEPT ![r] =
               [d \in DOMAIN log[r] \union {s} |-> IF d = s THEN Empty ELSE log[r][d]]]

\* The state becomes s by diff: every entry of the log is followed by it, and
\* s becomes the last entry, nothing having been learned since.
InsertToDiffLog(r, s, diff) ==
  /\ state' = [state EXCEPT ![r] = s]
  /\ log' = [log EXCEPT ![r] =
               [d \in DOMAIN log[r] \union {s} |->
                  IF d = s THEN Empty ELSE Merge(log[r][d], diff)]]

\* Mutant: the name is kept in place of the digest.
Mut_InsertInterestName(r, d, unknown) ==
  /\ interestTable' = [interestTable EXCEPT ![r] = {<< <<"normal", d>>, unknown >>}]
  /\ Cardinality(interestTable'[r]) <= MaxTable[published, r]

\* SyncInterestTable::insert
InsertInterest(r, d, unknown) ==
  /\ interestTable' = [interestTable EXCEPT ![r] =
                         {e \in @ : e[1] # d} \union {<<d, unknown>>}]
  /\ Cardinality(interestTable'[r]) <= MaxTable[published, r]

-----------------------------------------------------------------------------
(* Sync interests.                                                         *)

ZeroRequest(r, d) == d = Empty /\ state[r] # Empty
InLog(r, d) == d \in DOMAIN log[r]

SendSyncData(type, d, content) == data' = data \union {<<type, d, content>>}

ExpressInterest(r, type, d) ==
  /\ interests' = [interests EXCEPT ![r] = @ \union {<<type, d>>}]
  /\ Cardinality({n \in interests'[r] : n[1] = type}) <= MaxPending[published, r]

\* The periodic interest, which also follows every change of the state.
SendSyncInterest(r) ==
  /\ ExpressInterest(r, "normal", state[r])
  /\ UNCHANGED <<published, state, log, interestTable, timerVars, data, restarts>>

\* Mutant: the log is searched before the digest is compared with the present.
Mut_AnswerOrKeepLogFirst(r, d) ==
  \/ /\ ZeroRequest(r, d)
     /\ SendSyncData("normal", d, state[r])
     /\ UNCHANGED interestTable
  \/ /\ d = state[r] /\ ~InLog(r, d)
     /\ InsertInterest(r, d, FALSE)
     /\ UNCHANGED data
  \/ /\ ~ZeroRequest(r, d) /\ InLog(r, d)
     /\ SendSyncData("normal", d, log[r][d])
     /\ UNCHANGED interestTable

\* The branches of processSyncInterest that know what to do at once.
AnswerOrKeep(r, d) ==
  \/ /\ ZeroRequest(r, d)
     /\ SendSyncData("normal", d, state[r])
     /\ UNCHANGED interestTable
  \/ /\ d = state[r]
     /\ InsertInterest(r, d, FALSE)
     /\ UNCHANGED data
  \/ /\ ~ZeroRequest(r, d) /\ d # state[r] /\ InLog(r, d)
     /\ SendSyncData("normal", d, log[r][d])
     /\ UNCHANGED interestTable

Unknown(r, d) == ~ZeroRequest(r, d) /\ d # state[r] /\ ~InLog(r, d)

\* An interest of another router.  For an unknown digest the processing is put
\* off, so that a router that knows it may answer first; the event scheduled
\* last is cancelled when an interest of this name was pending already.
OnSyncInterest(r, d) ==
  /\ \E q \in Routers \ {r} : <<"normal", d>> \in interests[q]
  /\ \/ AnswerOrKeep(r, d) /\ UNCHANGED timerVars
     \/ /\ Unknown(r, d)
        /\ storedDelay' = [storedDelay EXCEPT ![r] = d]
        /\ looseDelays' =
             IF \E e \in interestTable[r] : e[1] = d THEN looseDelays
             ELSE [looseDelays EXCEPT ![r] = @ \union ({storedDelay[r]} \ {None})]
        /\ Cardinality(looseDelays'[r]) < MaxTable[published, r]
        /\ InsertInterest(r, d, TRUE)
        /\ UNCHANGED data
  /\ UNCHANGED <<published, state, log, interests, restarts>>

\* Mutant: an unknown digest is not recovered, the next interest may be known.
Mut_DelayedProcessingNoRecovery(r, d) ==
  /\ d = storedDelay[r] \/ d \in looseDelays[r]
  /\ storedDelay' = [storedDelay EXCEPT ![r] = IF d = @ THEN None ELSE @]
  /\ looseDelays' = [looseDelays EXCEPT ![r] = @ \ {d}]
  /\ \/ AnswerOrKeep(r, d)
     \/ Unknown(r, d) /\ UNCHANGED <<interestTable, data>>
  /\ UNCHANGED <<published, state, log, interests, restarts>>

\* The delay is over: processSyncInterest once more, with timedProcessing.
DelayedProcessing(r, d) ==
  /\ \/ /\ d = storedDelay[r]
        /\ storedDelay' = [storedDelay EXCEPT ![r] = None]
        /\ UNCHANGED looseDelays
     \/ /\ d \in looseDelays[r]
        /\ looseDelays' = [looseDelays EXCEPT ![r] = @ \ {d}]
        /\ UNCHANGED storedDelay
  /\ \/ AnswerOrKeep(r, d) /\ UNCHANGED interests
     \/ /\ Unknown(r, d)
        /\ ExpressInterest(r, "recovery", d)
        /\ UNCHANGED <<interestTable, data>>
  /\ UNCHANGED <<published, state, log, restarts>>

\* Mutant: the answer to a recovery interest is what was learned since.
Mut_OnRecoveryInterestDiff(r, d) ==
  /\ \E q \in Routers \ {r} : <<"recovery", d>> \in interests[q]
  /\ InLog(r, d)
  /\ SendSyncData("recovery", d, log[r][d])
  /\ UNCHANGED <<published, state, log, interestTable, timerVars, interests, restarts>>

\* processSyncRecoveryInterest
OnRecoveryInterest(r, d) ==
  /\ \E q \in Routers \ {r} : <<"recovery", d>> \in interests[q]
  /\ InLog(r, d)
  /\ SendSyncData("recovery", d, state[r])
  /\ UNCHANGED <<published, state, log, interestTable, timerVars, interests, restarts>>

-----------------------------------------------------------------------------
(* Sync data and publications.                                             *)

\* processSyncData
OnSyncData(r, type, d, content) ==
  /\ <<type, d>> \in interests[r]
  /\ <<type, d, content>> \in data
  /\ interests' = [interests EXCEPT ![r] = @ \ {<<type, d>>}]
  /\ interestTable' = IF type = "normal"
                      THEN [interestTable EXCEPT ![r] = {e \in @ : e[1] # d}]
                      ELSE interestTable
  /\ InsertToDiffLog(r, Update(state[r], content), News(state[r], content))
  /\ UNCHANGED <<published, storedDelay, looseDelays, data, restarts>>

\* What a publication sends to the interests pending at r: the diff alone to
\* those of the state r had, everything to those it did not know.
SatisfyPendingSyncInterests(r, diff, full) ==
  /\ data' = data \union {<<"normal", e[1], IF e[2] THEN full ELSE diff>> : e \in interestTable[r]}
  /\ interestTable' = [interestTable EXCEPT ![r] = {}]

\* addLocalNames
AddLocalNames(r) ==
  LET seq  == published[r] + 1
      diff == [Empty EXCEPT ![r] = seq]
      full == Update(state[r], diff)
  IN  /\ published' = [published EXCEPT ![r] = seq]
      /\ published' \in Histories
      /\ InsertToDiffLog(r, full, diff)
      /\ SatisfyPendingSyncInterests(r, diff, full)
      /\ UNCHANGED <<timerVars, interests, restarts>>

\* expireInterests.  An entry lives for 4 s, delayed processing for 1 s.
ExpireInterest(r) ==
  /\ \E e \in interestTable[r] :
       /\ e[1] # storedDelay[r] /\ e[1] \notin looseDelays[r]
       /\ interestTable' = [interestTable EXCEPT ![r] = @ \ {e}]
  /\ UNCHANGED <<published, state, log, timerVars, netVars, restarts>>

\* An interest runs out.  The one that is expressed over and over counts as
\* late rather than lost.
InterestTimeout(r, type) ==
  /\ \E n \in interests[r] :
       /\ n[1] = type /\ n # <<"normal", state[r]>>
       /\ interests' = [interests EXCEPT ![r] = @ \ {n}]
  /\ UNCHANGED <<published, state, log, interestTable, timerVars, data, restarts>>

\* A router stops and starts: nsync starts from the empty state.
Restart(r) ==
  /\ restarts < MaxRestarts
  /\ restarts' = restarts + 1
  /\ state' = [state EXCEPT ![r] = Empty]
  /\ log' = [log EXCEPT ![r] = [d \in {} |-> Empty]]
  /\ interestTable' = [interestTable EXCEPT ![r] = {}]
  /\ storedDelay' = [storedDelay EXCEPT ![r] = None]
  /\ looseDelays' = [looseDelays EXCEPT ![r] = {}]
  /\ interests' = [interests EXCEPT ![r] = {}]
  /\ UNCHANGED <<published, data>>

Digests(r) ==
  {n[2] : n \in UNION {interests[q] : q \in Routers \ {r}}}

Next ==
  \E r \in Routers :
    \/ SendSyncInterest(r)
    \/ \E d \in Digests(r) : OnSyncInterest(r, d) \/ OnRecoveryInterest(r, d)
    \/ \E d \in looseDelays[r] \union ({storedDelay[r]} \ {None}) : DelayedProcessing(r, d)
    \/ \E p \in data : OnSyncData(r, p[1], p[2], p[3])
    \/ AddLocalNames(r)
    \/ ExpireInterest(r)
    \/ \E type \in {"normal", "recovery"} : InterestTimeout(r, type)
    \/ Restart(r)

Spec == Init /\ [][Next]_vars

\* The interest for q's present state reaches r.
OnCurrentInterest(r, q) == OnSyncInterest(r, state[q])

\* A router learns that the state it is in is asked to be recovered.
OnCurrentRecovery(r) == OnRecoveryInterest(r, state[r])

DelayIsOver(r) == \E d \in looseDelays[r] \union ({storedDelay[r]} \ {None}) : DelayedProcessing(r, d)

ReceiveData(r, type) == \E p \in data : p[1] = type /\ OnSyncData(r, type, p[2], p[3])

Fairness ==
  \A r \in Routers :
    /\ WF_vars(SendSyncInterest(r))
    /\ \A q \in Routers \ {r} : SF_vars(OnCurrentInterest(r, q))
    /\ WF_vars(DelayIsOver(r))
    /\ SF_vars(OnCurrentRecovery(r))
    /\ WF_vars(ReceiveData(r, "normal"))
    /\ SF_vars(ReceiveData(r, "recovery"))
    /\ WF_vars(ExpireInterest(r))
    /\ WF_vars(InterestTimeout(r, "normal"))
    /\ WF_vars(InterestTimeout(r, "recovery"))

FairSpec == Spec /\ Fairness

-----------------------------------------------------------------------------
(* Properties.                                                             *)

TypeOK ==
  /\ published \in States
  /\ state \in [Routers -> States]
  /\ DOMAIN log = Routers
  /\ \A r \in Routers : DOMAIN log[r] \subseteq States /\ log[r] \in [DOMAIN log[r] -> States]
  /\ interestTable \in [Routers -> SUBSET (States \X BOOLEAN)]
  /\ storedDelay \in [Routers -> States \union {None}]
  /\ looseDelays \in [Routers -> SUBSET States]
  /\ interests \in [Routers -> SUBSET Names]
  /\ data \subseteq {"normal", "recovery"} \X States \X States
  /\ restarts \in 0..MaxRestarts

\* What routers know is what SyncSpec allows.
Abstract == INSTANCE SyncSpec WITH known <- state
RefinesSyncSpec == Abstract!Spec

\* The log leads from every state it holds to the present one: the diff sent
\* for an old digest (sync-logic.cc:336) brings its sender up to date.  The
\* present digest is in the log, so that it can be recovered.
LogLeadsHere ==
  \A r \in Routers :
    /\ state[r] # Empty => InLog(r, state[r])
    /\ \A d \in DOMAIN log[r] : Merge(d, log[r][d]) = state[r]

\* Data that answers a digest has something new for a router in that state, or
\* else its next interest would be the same and be answered by the same data
\* out of a cache, for as long as it is fresh (sync-logic.cc:754: "hopefully
\* with a new digest").
AnswersTellNews ==
  \A a \in data : a[1] = "normal" => Update(a[2], a[3]) # a[2]

\* Data that recovers a digest holds at least the state the digest is of.
RecoveryCovers ==
  \A a \in data : a[1] = "recovery" => \A p \in Routers : a[3][p] >= a[2][p]

\* All routers end up with the same state.
Converges == <>[](\A r, q \in Routers : state[r] = state[q])
=============================================================================
