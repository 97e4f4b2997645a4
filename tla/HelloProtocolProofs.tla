------------------------- MODULE HelloProtocolProofs -------------------------
(***************************************************************************)
(* What HelloProtocol guarantees for any set of neighbours, any retry      *)
(* number and any bounds.                                                  *)
(***************************************************************************)
EXTENDS HelloProtocol, TLAPS

(* A counter steps to the next value or stays at the cap. *)
LEMMA IncFacts ==
  ASSUME NEW c \in 0..CountCap
  PROVE  /\ Inc(c) \in 0..CountCap
         /\ Inc(c) > 0 /\ Inc(c) >= c
         /\ Inc(c) = InterestRetryNumber => c < InterestRetryNumber
         /\ c < InterestRetryNumber => Inc(c) <= InterestRetryNumber
BY CapAssumption, RetryAssumption, SMT DEF Inc

(* Asking for a build, or not, keeps the build's flag and counter typed. *)
LEMMA ScheduleType ==
  ASSUME TypeOK, ScheduleAdjLsaBuild \/ UNCHANGED buildVars
  PROVE  adjBuildCount' \in 0..CountCap /\ buildScheduled' \in BOOLEAN
<1>1. CASE ScheduleAdjLsaBuild
  <2>1. adjBuildCount' \in 0..CountCap
    BY <1>1, IncFacts DEF ScheduleAdjLsaBuild, TypeOK
  <2>2. buildScheduled' \in BOOLEAN
    BY <1>1, Zenon DEF ScheduleAdjLsaBuild
  <2> QED BY <2>1, <2>2
<1>2. CASE UNCHANGED buildVars
  BY <1>2 DEF buildVars, TypeOK
<1> QED BY <1>1, <1>2

(* The specification keeps every variable in its type. *)
LEMMA TypeInit == Init => TypeOK
<1> SUFFICES ASSUME Init PROVE TypeOK
  OBVIOUS
<1>1. adjBuildCount \in 0..CountCap /\ 0 \in 0..CountCap
  BY CapAssumption DEF Init
<1>2. 0 \in 0..MaxHellos /\ 0 \in 0..MaxCommands
  BY BoundAssumption
<1> QED BY <1>1, <1>2 DEF Init, TypeOK, Status, NoFace

LEMMA TypeStep == TypeOK /\ [Next]_vars => TypeOK'
<1> SUFFICES ASSUME TypeOK, [Next]_vars PROVE TypeOK'
  OBVIOUS
<1> USE DEF adjVars, helloVars, cmdVars, nfdVars, buildVars, calcVars
<1> USE CapAssumption, RetryAssumption, BoundAssumption
<1>0. \A n \in Neighbors : Inc(timedOutNo[n]) \in 0..CountCap
  BY IncFacts DEF TypeOK
<1>00. ScheduleAdjLsaBuild \/ UNCHANGED buildVars
         => adjBuildCount' \in 0..CountCap /\ buildScheduled' \in BOOLEAN
  BY ScheduleType
<1>1. CASE SendScheduledInterest
  BY <1>1, SMTT(30) DEF SendScheduledInterest, HelloOrRegister, TypeOK
<1>2. ASSUME NEW n \in Neighbors, ProcessInterest(n) PROVE TypeOK'
  BY <1>2, SMTT(30) DEF ProcessInterest, HelloOrRegister, TypeOK
<1>3. ASSUME NEW n \in Neighbors, ProcessInterestTimedOut(n) PROVE TypeOK'
  <2>1. adjBuildCount' \in 0..CountCap /\ buildScheduled' \in BOOLEAN
    <3>1. ScheduleAdjLsaBuild \/ UNCHANGED buildVars
      BY <1>3, Zenon DEF ProcessInterestTimedOut
    <3> QED BY <3>1, <1>00
  <2>2. /\ status' \in [Neighbors -> Status]
        /\ hellos' \in [Neighbors -> 0..MaxHellos]
    <3>1. status' = [status EXCEPT ![n] = "INACTIVE"] \/ status' = status
      BY <1>3, Zenon DEF ProcessInterestTimedOut
    <3>2. hellos[n] > 0 /\ (hellos' = [hellos EXCEPT ![n] = @ - 1] \/ hellos' = hellos)
      BY <1>3, Zenon DEF ProcessInterestTimedOut
    <3> QED BY <3>1, <3>2 DEF TypeOK, Status
  <2> QED BY <1>3, <1>0, <2>1, <2>2 DEF ProcessInterestTimedOut, TypeOK
<1>4. ASSUME NEW n \in Neighbors, OnContent(n) PROVE TypeOK'
  BY <1>4, SMTT(30) DEF OnContent, TypeOK
<1>5. ASSUME NEW n \in Neighbors, OnContentValidated(n) PROVE TypeOK'
  BY <1>5, <1>00, SMTT(30) DEF OnContentValidated, TypeOK, Status
<1>6. ASSUME NEW n \in Neighbors, OnContentValidationFailed(n) PROVE TypeOK'
  BY <1>6, SMTT(30) DEF OnContentValidationFailed, TypeOK
<1>7. ASSUME NEW n \in Neighbors, OnFaceCreated(n) PROVE TypeOK'
  BY <1>7, SMTT(30) DEF OnFaceCreated, TypeOK
<1>8. ASSUME NEW n \in Neighbors, OnRegistrationSuccess(n) PROVE TypeOK'
  BY <1>8, SMTT(30) DEF OnRegistrationSuccess, TypeOK
<1>9. ASSUME NEW n \in Neighbors, OnRegistrationFailure(n) PROVE TypeOK'
  <2>1. adjBuildCount' \in 0..CountCap /\ buildScheduled' \in BOOLEAN
    <3>1. ScheduleAdjLsaBuild \/ UNCHANGED buildVars
      BY <1>9, Zenon DEF OnRegistrationFailure
    <3> QED BY <3>1, <1>00
  <2>2. /\ status' \in [Neighbors -> Status]
        /\ creating' \in [Neighbors -> 0..MaxCommands]
        /\ registering' \in [Neighbors -> [Faces -> 0..MaxCommands]]
    <3>1. status' = [status EXCEPT ![n] = "INACTIVE"] \/ status' = status
      BY <1>9, Zenon DEF OnRegistrationFailure
    <3>2. status' \in [Neighbors -> Status]
      BY <3>1 DEF TypeOK, Status
    <3>3. creating' \in [Neighbors -> 0..MaxCommands]
      <4>1. \/ creating[n] > 0 /\ creating' = [creating EXCEPT ![n] = @ - 1]
            \/ creating' = creating
        BY <1>9, Zenon DEF OnRegistrationFailure
      <4> QED BY <4>1 DEF TypeOK
    <3>4. registering' \in [Neighbors -> [Faces -> 0..MaxCommands]]
      <4>1. CASE registering' = registering
        BY <4>1 DEF TypeOK
      <4>2. CASE \E f \in Faces : /\ registering[n][f] > 0
                                 /\ registering' = [registering EXCEPT ![n][f] = @ - 1]
        <5>1. PICK f \in Faces : /\ registering[n][f] > 0
                                /\ registering' = [registering EXCEPT ![n][f] = @ - 1]
          BY <4>2
        <5>2. registering[n][f] - 1 \in 0..MaxCommands
          BY <5>1 DEF TypeOK
        <5> QED BY <5>1, <5>2 DEF TypeOK
      <4> QED BY <1>9, <4>1, <4>2, Zenon DEF OnRegistrationFailure
    <3> QED BY <3>2, <3>3, <3>4
  <2> QED BY <1>9, <1>0, <2>1, <2>2 DEF OnRegistrationFailure, TypeOK
<1>10. ASSUME NEW n \in Neighbors, PeerChange(n) PROVE TypeOK'
  BY <1>10, SMTT(30) DEF PeerChange, TypeOK
<1>11. ASSUME NEW n \in Neighbors, DestroyFace(n) PROVE TypeOK'
  BY <1>11, SMTT(30) DEF DestroyFace, TypeOK
<1>12. ASSUME NEW f \in Faces, OnFaceEventNotification(f) PROVE TypeOK'
  <2>1. adjBuildCount' \in 0..CountCap /\ buildScheduled' \in BOOLEAN
    <3>1. ScheduleAdjLsaBuild \/ UNCHANGED buildVars
      BY <1>12, Zenon DEF OnFaceEventNotification, FaceLost
    <3> QED BY <3>1, <1>00
  <2>2. /\ status' \in [Neighbors -> Status]
        /\ timedOutNo' \in [Neighbors -> 0..CountCap]
        /\ faceId' \in [Neighbors -> Faces \union {NoFace}]
    <3>1. \/ UNCHANGED adjVars
          \/ \E n \in Neighbors :
               /\ faceId' = [faceId EXCEPT ![n] = NoFace]
               /\ \/ /\ status' = [status EXCEPT ![n] = "INACTIVE"]
                     /\ timedOutNo' = [timedOutNo EXCEPT ![n] = InterestRetryNumber]
                  \/ UNCHANGED <<status, timedOutNo>>
      BY <1>12, Zenon DEF OnFaceEventNotification, FaceLost
    <3> QED BY <3>1 DEF TypeOK, Status
  <2> QED BY <1>12, <2>1, <2>2 DEF OnFaceEventNotification, TypeOK
<1>13. CASE BuildAdjLsa
  <2>1. /\ buildScheduled' \in BOOLEAN
        /\ calcScheduled' \in BOOLEAN
    BY <1>13, Zenon DEF BuildAdjLsa, TypeOK
  <2>2. adjBuildCount' \in 0..CountCap /\ adjLsa' \subseteq Neighbors
    <3>1. adjBuildCount' = 0 \/ adjBuildCount' = adjBuildCount
      BY <1>13, Zenon DEF BuildAdjLsa
    <3>2. adjLsa' = ActiveNeighbors \/ adjLsa' = adjLsa
      BY <1>13, Zenon DEF BuildAdjLsa
    <3> QED BY <3>1, <3>2 DEF ActiveNeighbors, TypeOK
  <2> QED BY <1>13, <2>1, <2>2 DEF BuildAdjLsa, TypeOK
<1>14. CASE RefreshOwnAdjLsa
  BY <1>14 DEF RefreshOwnAdjLsa, TypeOK
<1>15. CASE Calculate
  BY <1>15 DEF Calculate, TypeOK
<1>16. CASE UNCHANGED vars
  BY <1>16 DEF vars, TypeOK
<1> QED
  BY <1>1, <1>2, <1>3, <1>4, <1>5, <1>6, <1>7, <1>8, <1>9, <1>10, <1>11, <1>12,
     <1>13, <1>14, <1>15, <1>16 DEF Next

(* Every reachable state has the types the code's members have. *)
THEOREM TypeCorrect == Spec => []TypeOK
<1> QED BY TypeInit, TypeStep, PTL DEF Spec

-----------------------------------------------------------------------------
(* No ACTIVE neighbour has missed as many HELLOs as the retry number.  The
   invariant is inductive: a count grows by one, and the handlers that make it
   grow give the neighbour up when it gets to the retry number. *)
LEMMA ActiveStep == TypeOK /\ ActiveBelowRetry /\ [Next]_vars => ActiveBelowRetry'
<1> SUFFICES ASSUME TypeOK, ActiveBelowRetry, [Next]_vars,
                    NEW m \in Neighbors, status'[m] = "ACTIVE"
             PROVE  timedOutNo'[m] < InterestRetryNumber
  BY DEF ActiveBelowRetry
<1> USE RetryAssumption
<1>0. status[m] = "ACTIVE" => /\ timedOutNo[m] < InterestRetryNumber
                             /\ Inc(timedOutNo[m]) <= InterestRetryNumber
                             /\ Inc(timedOutNo[m]) \in Nat
  <2>1. timedOutNo[m] \in 0..CountCap
    BY DEF TypeOK
  <2> QED BY <2>1, IncFacts, CapAssumption DEF ActiveBelowRetry
<1>1. CASE UNCHANGED <<status, timedOutNo>>
  BY <1>0, <1>1
<1>2. ASSUME NEW n \in Neighbors, ProcessInterestTimedOut(n)
      PROVE  timedOutNo'[m] < InterestRetryNumber
  <2>1. timedOutNo' = [timedOutNo EXCEPT ![n] = Inc(timedOutNo[n])]
    BY <1>2, Zenon DEF ProcessInterestTimedOut
  <2>2. \/ Inc(timedOutNo[n]) < InterestRetryNumber /\ status' = status
        \/ Inc(timedOutNo[n]) = InterestRetryNumber /\ status[n] = "ACTIVE"
             /\ status' = [status EXCEPT ![n] = "INACTIVE"]
        \/ ~(status[n] = "ACTIVE" /\ Inc(timedOutNo[n]) = InterestRetryNumber)
             /\ Inc(timedOutNo[n]) >= InterestRetryNumber /\ status' = status
    BY <1>2, Zenon DEF ProcessInterestTimedOut
  <2>3. CASE m = n
    <3>1. timedOutNo'[m] = Inc(timedOutNo[m])
      BY <2>1, <2>3 DEF TypeOK
    <3>2. \/ Inc(timedOutNo[m]) < InterestRetryNumber
          \/ status[m] = "ACTIVE" /\ Inc(timedOutNo[m]) # InterestRetryNumber
      BY <2>2, <2>3 DEF TypeOK
    <3> QED BY <1>0, <3>1, <3>2
  <2>4. CASE m # n
    BY <1>0, <2>1, <2>2, <2>4 DEF TypeOK
  <2> QED BY <2>3, <2>4
<1>3. ASSUME NEW n \in Neighbors, OnContentValidated(n)
      PROVE  timedOutNo'[m] < InterestRetryNumber
  <2>1. /\ timedOutNo' = [timedOutNo EXCEPT ![n] = 0]
        /\ status' = [status EXCEPT ![n] = "ACTIVE"]
    BY <1>3, Zenon DEF OnContentValidated
  <2>2. CASE m = n
    BY <2>1, <2>2 DEF TypeOK
  <2>3. CASE m # n
    BY <1>0, <2>1, <2>3 DEF TypeOK
  <2> QED BY <2>2, <2>3
<1>4. ASSUME NEW n \in Neighbors, OnRegistrationFailure(n)
      PROVE  timedOutNo'[m] < InterestRetryNumber
  <2>1. timedOutNo' = [timedOutNo EXCEPT ![n] = Inc(timedOutNo[n])]
    BY <1>4, Zenon DEF OnRegistrationFailure
  <2>2. \/ status' = [status EXCEPT ![n] = "INACTIVE"]
        \/ Inc(timedOutNo[n]) # InterestRetryNumber /\ status' = status
    BY <1>4, Zenon DEF OnRegistrationFailure
  <2>3. CASE m = n
    <3>1. timedOutNo'[m] = Inc(timedOutNo[m])
      BY <2>1, <2>3 DEF TypeOK
    <3>2. status[m] = "ACTIVE" /\ Inc(timedOutNo[m]) # InterestRetryNumber
      BY <2>2, <2>3 DEF TypeOK
    <3> QED BY <1>0, <3>1, <3>2
  <2>4. CASE m # n
    BY <1>0, <2>1, <2>2, <2>4 DEF TypeOK
  <2> QED BY <2>3, <2>4
<1>5. ASSUME NEW f \in Faces, OnFaceEventNotification(f)
      PROVE  timedOutNo'[m] < InterestRetryNumber
  <2>1. \/ UNCHANGED <<status, timedOutNo>>
        \/ \E n \in Neighbors :
             /\ status' = [status EXCEPT ![n] = "INACTIVE"]
             /\ timedOutNo' = [timedOutNo EXCEPT ![n] = InterestRetryNumber]
    BY <1>5, Zenon DEF OnFaceEventNotification, FaceLost, adjVars
  <2>2. ASSUME NEW n \in Neighbors,
               status' = [status EXCEPT ![n] = "INACTIVE"],
               timedOutNo' = [timedOutNo EXCEPT ![n] = InterestRetryNumber]
        PROVE  timedOutNo'[m] < InterestRetryNumber
    <3>1. m # n
      BY <2>2 DEF TypeOK
    <3> QED BY <1>0, <2>2, <3>1 DEF TypeOK
  <2> QED BY <1>0, <2>1, <2>2
<1>6. \/ UNCHANGED <<status, timedOutNo>>
      \/ \E n \in Neighbors : \/ ProcessInterestTimedOut(n)
                             \/ OnContentValidated(n) \/ OnRegistrationFailure(n)
      \/ \E f \in Faces : OnFaceEventNotification(f)
  BY Zenon DEF Next, vars, adjVars, SendScheduledInterest, ProcessInterest, OnContent,
       OnContentValidationFailed, OnFaceCreated, OnRegistrationSuccess, PeerChange,
       DestroyFace, BuildAdjLsa, RefreshOwnAdjLsa, Calculate
<1> QED BY <1>1, <1>2, <1>3, <1>4, <1>5, <1>6

(* See ActiveBelowRetry: the neighbour that stops answering cannot slip past
   the equality test of the timeout handler (hello-protocol.cpp:176). *)
THEOREM ActiveBelowRetryCorrect == Spec => []ActiveBelowRetry
<1>1. Init => ActiveBelowRetry
  BY DEF Init, ActiveBelowRetry
<1> QED BY <1>1, TypeCorrect, ActiveStep, PTL DEF Spec

-----------------------------------------------------------------------------
(* Every step of the router does one of three things to the own LSA's build:
   it asks for a build, or it is the build, or it leaves the build, the LSA
   and the set of ACTIVE neighbours alone. *)
LEMMA BuildStep ==
  ASSUME TypeOK, [Next]_vars
  PROVE  \/ ScheduleAdjLsaBuild /\ adjLsa' = adjLsa
         \/ BuildAdjLsa /\ status' = status
         \/ UNCHANGED <<buildVars, adjLsa>> /\ ActiveNeighbors' = ActiveNeighbors
<1> DEFINE Quiet == UNCHANGED <<buildVars, adjLsa>> /\ ActiveNeighbors' = ActiveNeighbors
<1>0. UNCHANGED <<buildVars, adjLsa, status>> => Quiet
  BY DEF ActiveNeighbors
<1>1. ASSUME NEW n \in Neighbors, ProcessInterestTimedOut(n)
      PROVE  (ScheduleAdjLsaBuild /\ adjLsa' = adjLsa) \/ Quiet
  BY <1>0, <1>1, Zenon DEF ProcessInterestTimedOut
<1>2. ASSUME NEW n \in Neighbors, OnContentValidated(n)
      PROVE  (ScheduleAdjLsaBuild /\ adjLsa' = adjLsa) \/ Quiet
  <2>1. CASE status[n] # "ACTIVE"
    BY <1>2, <2>1, Zenon DEF OnContentValidated
  <2>2. CASE status[n] = "ACTIVE"
    <3>1. UNCHANGED <<buildVars, adjLsa>> /\ status' = [status EXCEPT ![n] = "ACTIVE"]
      BY <1>2, <2>2, Zenon DEF OnContentValidated
    <3>2. status' = status
      BY <3>1, <2>2 DEF TypeOK
    <3> QED BY <1>0, <3>1, <3>2
  <2> QED BY <2>1, <2>2
<1>3. ASSUME NEW n \in Neighbors, OnRegistrationFailure(n)
      PROVE  (ScheduleAdjLsaBuild /\ adjLsa' = adjLsa) \/ Quiet
  BY <1>0, <1>3, Zenon DEF OnRegistrationFailure
<1>4. ASSUME NEW f \in Faces, OnFaceEventNotification(f)
      PROVE  (ScheduleAdjLsaBuild /\ adjLsa' = adjLsa) \/ Quiet
  BY <1>0, <1>4, Zenon DEF OnFaceEventNotification, FaceLost, adjVars
<1>5. \/ UNCHANGED <<buildVars, adjLsa, status>>
      \/ \E n \in Neighbors : \/ ProcessInterestTimedOut(n)
                             \/ OnContentValidated(n) \/ OnRegistrationFailure(n)
      \/ \E f \in Faces : OnFaceEventNotification(f)
      \/ BuildAdjLsa /\ status' = status
  BY Zenon DEF Next, vars, adjVars, buildVars, SendScheduledInterest, ProcessInterest,
       OnContent, OnContentValidationFailed, OnFaceCreated, OnRegistrationSuccess,
       PeerChange, DestroyFace, BuildAdjLsa, RefreshOwnAdjLsa, Calculate
<1> QED BY <1>0, <1>1, <1>2, <1>3, <1>4, <1>5

(* A build that happens empties the counter and installs the ACTIVE
   neighbours; one that is put off changes nothing. *)
LEMMA BuildEffect ==
  ASSUME TypeOK, NoBuildRequestLost, BuildAdjLsa, status' = status
  PROVE  \/ ~buildScheduled' /\ adjBuildCount' = 0 /\ adjLsa' = ActiveNeighbors'
         \/ UNCHANGED <<buildVars, adjLsa>> /\ ActiveNeighbors' = ActiveNeighbors
<1>1. ActiveNeighbors' = ActiveNeighbors
  BY DEF ActiveNeighbors
<1>2. adjBuildCount > 0
  BY Zenon DEF BuildAdjLsa, NoBuildRequestLost
<1>3. CASE IsAdjLsaBuildable
  <2>1. ~buildScheduled' /\ adjBuildCount' = 0 /\ adjLsa' = ActiveNeighbors
    BY <1>2, <1>3, Zenon DEF BuildAdjLsa
  <2> QED BY <1>1, <2>1
<1>4. CASE ~IsAdjLsaBuildable
  <2>1. UNCHANGED <<buildVars, adjLsa>>
    BY <1>4, Zenon DEF BuildAdjLsa
  <2> QED BY <1>1, <2>1
<1> QED BY <1>3, <1>4

LEMMA RequestStep ==
  TypeOK /\ NoBuildRequestLost /\ AdjLsaCurrentOrPending /\ [Next]_vars
    => NoBuildRequestLost' /\ AdjLsaCurrentOrPending'
<1> SUFFICES ASSUME TypeOK, NoBuildRequestLost, AdjLsaCurrentOrPending, [Next]_vars
             PROVE  NoBuildRequestLost' /\ AdjLsaCurrentOrPending'
  OBVIOUS
<1>1. CASE ScheduleAdjLsaBuild
  <2>1. adjBuildCount' > 0
    BY <1>1, IncFacts DEF ScheduleAdjLsaBuild, TypeOK
  <2>2. buildScheduled'
    BY <1>1, Zenon DEF ScheduleAdjLsaBuild
  <2> QED BY <2>1, <2>2, Zenon DEF NoBuildRequestLost, AdjLsaCurrentOrPending
<1>2. CASE UNCHANGED <<buildVars, adjLsa>> /\ ActiveNeighbors' = ActiveNeighbors
  <2>1. NoBuildRequestLost'
    BY <1>2, Zenon DEF NoBuildRequestLost, buildVars
  <2>2. AdjLsaCurrentOrPending'
    BY <1>2, Zenon DEF AdjLsaCurrentOrPending, buildVars
  <2> QED BY <2>1, <2>2
<1>3. CASE ~buildScheduled' /\ adjBuildCount' = 0 /\ adjLsa' = ActiveNeighbors'
  <2>1. ~(adjBuildCount' > 0)
    BY <1>3
  <2> QED BY <1>3, <2>1, Zenon DEF NoBuildRequestLost, AdjLsaCurrentOrPending
<1> QED BY <1>1, <1>2, <1>3, BuildStep, BuildEffect

LEMMA RequestInv == Spec => [](NoBuildRequestLost /\ AdjLsaCurrentOrPending)
<1> DEFINE I == NoBuildRequestLost /\ AdjLsaCurrentOrPending
<1>1. Init => I
  <2>1. Init => NoBuildRequestLost
    <3>1. ~(0 > 0)
      OBVIOUS
    <3> QED BY <3>1, Zenon DEF Init, NoBuildRequestLost
  <2>2. Init => AdjLsaCurrentOrPending
    BY DEF Init, AdjLsaCurrentOrPending, ActiveNeighbors
  <2> QED BY <2>1, <2>2
<1>2. TypeOK /\ I /\ [Next]_vars => I'
  BY RequestStep
<1> QED BY <1>1, <1>2, TypeCorrect, PTL DEF Spec

(* scheduleAdjLsaBuild and buildAdjLsa never lose a request: see
   NoBuildRequestLost. *)
THEOREM NoBuildRequestLostCorrect == Spec => []NoBuildRequestLost
<1> QED BY RequestInv, PTL

(* Whatever changes the adjacency, a build is on its way as long as the own
   Adjacency LSA is out of date: see AdjLsaCurrentOrPending. *)
THEOREM AdjLsaCurrentOrPendingCorrect == Spec => []AdjLsaCurrentOrPending
<1> QED BY RequestInv, PTL

-----------------------------------------------------------------------------
(* What a step may do to one neighbour's status and count. *)
LEMMA AdjacentStep ==
  ASSUME TypeOK, [Next]_vars
  PROVE  \/ UNCHANGED <<status, timedOutNo>>
         \/ \E n \in Neighbors : ProcessInterestTimedOut(n)
         \/ \E n \in Neighbors : /\ OnContentValidated(n)
                               /\ status' = [status EXCEPT ![n] = "ACTIVE"]
                               /\ timedOutNo' = [timedOutNo EXCEPT ![n] = 0]
         \/ \E n \in Neighbors : OnRegistrationFailure(n)
         \/ \E n \in Neighbors : /\ status[n] = "ACTIVE"
                               /\ status' = [status EXCEPT ![n] = "INACTIVE"]
                               /\ timedOutNo' = [timedOutNo EXCEPT ![n] = InterestRetryNumber]
<1>1. \/ UNCHANGED <<status, timedOutNo>>
      \/ \E n \in Neighbors : \/ ProcessInterestTimedOut(n)
                             \/ OnContentValidated(n) \/ OnRegistrationFailure(n)
      \/ \E f \in Faces : OnFaceEventNotification(f)
  BY Zenon DEF Next, vars, adjVars, SendScheduledInterest, ProcessInterest, OnContent,
       OnContentValidationFailed, OnFaceCreated, OnRegistrationSuccess, PeerChange,
       DestroyFace, BuildAdjLsa, RefreshOwnAdjLsa, Calculate
<1>2. ASSUME NEW n \in Neighbors, OnContentValidated(n)
      PROVE  /\ status' = [status EXCEPT ![n] = "ACTIVE"]
             /\ timedOutNo' = [timedOutNo EXCEPT ![n] = 0]
  BY <1>2, Zenon DEF OnContentValidated
<1>3. ASSUME NEW f \in Faces, OnFaceEventNotification(f)
      PROVE  \/ UNCHANGED <<status, timedOutNo>>
             \/ \E n \in Neighbors :
                  /\ status[n] = "ACTIVE"
                  /\ status' = [status EXCEPT ![n] = "INACTIVE"]
                  /\ timedOutNo' = [timedOutNo EXCEPT ![n] = InterestRetryNumber]
  BY <1>3, Zenon DEF OnFaceEventNotification, FaceLost, adjVars
<1> QED BY <1>1, <1>2, <1>3, Zenon

LEMMA SettledStep ==
  TypeOK /\ [Next]_vars => \A m \in Neighbors : Settled(m) => Settled(m)'
<1> SUFFICES ASSUME TypeOK, [Next]_vars, NEW m \in Neighbors, Settled(m)
             PROVE  Settled(m)'
  OBVIOUS
<1> USE RetryAssumption DEF Settled
<1>0. /\ timedOutNo[m] \in Nat /\ Inc(timedOutNo[m]) \in Nat
      /\ Inc(timedOutNo[m]) >= timedOutNo[m]
  <2>1. timedOutNo[m] \in 0..CountCap
    BY DEF TypeOK
  <2> QED BY <2>1, IncFacts, CapAssumption
<1>1. CASE UNCHANGED <<status, timedOutNo>>
  BY <1>1
<1>2. ASSUME NEW n \in Neighbors, ProcessInterestTimedOut(n) PROVE Settled(m)'
  <2>1. timedOutNo' = [timedOutNo EXCEPT ![n] = Inc(timedOutNo[n])]
    BY <1>2, Zenon DEF ProcessInterestTimedOut
  <2>2. \/ status' = status
        \/ Inc(timedOutNo[n]) = InterestRetryNumber /\ status' = [status EXCEPT ![n] = "INACTIVE"]
    BY <1>2, Zenon DEF ProcessInterestTimedOut
  <2>3. timedOutNo'[m] >= timedOutNo[m]
    BY <1>0, <2>1 DEF TypeOK
  <2>4. CASE status' = status
    BY <1>0, <2>1, <2>3, <2>4 DEF TypeOK
  <2>5. CASE m # n /\ status'[m] = status[m]
    BY <1>0, <2>1, <2>3, <2>5 DEF TypeOK
  <2>6. CASE m = n /\ Inc(timedOutNo[n]) = InterestRetryNumber
    BY <2>1, <2>6 DEF TypeOK
  <2> QED BY <2>2, <2>4, <2>5, <2>6 DEF TypeOK
<1>3. ASSUME NEW n \in Neighbors, status' = [status EXCEPT ![n] = "ACTIVE"],
             timedOutNo' = [timedOutNo EXCEPT ![n] = 0]
      PROVE  Settled(m)'
  BY <1>3 DEF TypeOK
<1>4. ASSUME NEW n \in Neighbors, OnRegistrationFailure(n) PROVE Settled(m)'
  <2>1. timedOutNo' = [timedOutNo EXCEPT ![n] = Inc(timedOutNo[n])]
    BY <1>4, Zenon DEF OnRegistrationFailure
  <2>2. \/ status' = status
        \/ Inc(timedOutNo[n]) = InterestRetryNumber /\ status' = [status EXCEPT ![n] = "INACTIVE"]
    BY <1>4, Zenon DEF OnRegistrationFailure
  <2>3. timedOutNo'[m] >= timedOutNo[m]
    BY <1>0, <2>1 DEF TypeOK
  <2>4. CASE status' = status
    BY <1>0, <2>1, <2>3, <2>4 DEF TypeOK
  <2>5. CASE m # n /\ status'[m] = status[m]
    BY <1>0, <2>1, <2>3, <2>5 DEF TypeOK
  <2>6. CASE m = n /\ Inc(timedOutNo[n]) = InterestRetryNumber
    BY <2>1, <2>6 DEF TypeOK
  <2> QED BY <2>2, <2>4, <2>5, <2>6 DEF TypeOK
<1>5. ASSUME NEW n \in Neighbors, status' = [status EXCEPT ![n] = "INACTIVE"],
             timedOutNo' = [timedOutNo EXCEPT ![n] = InterestRetryNumber]
      PROVE  Settled(m)'
  BY <1>5 DEF TypeOK
<1> QED BY AdjacentStep, <1>1, <1>2, <1>3, <1>4, <1>5

(* A neighbour once ACTIVE or given up never blocks a build again. *)
THEOREM SettledForGoodCorrect == Spec => SettledForGood
<1>1. TypeOK /\ [Next]_vars => [\A n \in Neighbors : Settled(n) => Settled(n)']_vars
  BY SettledStep
<1> QED BY <1>1, TypeCorrect, PTL DEF Spec, SettledForGood

LEMMA BuildOnlyStep ==
  TypeOK /\ NoBuildRequestLost /\ [Next]_vars
    => (adjBuildCount' > adjBuildCount =>
         \/ ActiveNeighbors' # ActiveNeighbors
         \/ \E n \in Neighbors : timedOutNo[n] < InterestRetryNumber
                               /\ timedOutNo'[n] = InterestRetryNumber)
<1> SUFFICES ASSUME TypeOK, NoBuildRequestLost, [Next]_vars,
                    adjBuildCount' > adjBuildCount,
                    ActiveNeighbors' = ActiveNeighbors
             PROVE  \E n \in Neighbors : timedOutNo[n] < InterestRetryNumber
                                     /\ timedOutNo'[n] = InterestRetryNumber
  OBVIOUS
<1>0. ~UNCHANGED adjBuildCount /\ adjBuildCount \in Nat
  BY CapAssumption DEF TypeOK
<1>1. ASSUME NEW n \in Neighbors, status[n] = "ACTIVE",
             status' = [status EXCEPT ![n] = "INACTIVE"]
      PROVE  FALSE
  BY <1>1 DEF ActiveNeighbors, TypeOK
<1>2. ASSUME NEW n \in Neighbors, status[n] # "ACTIVE",
             status' = [status EXCEPT ![n] = "ACTIVE"]
      PROVE  FALSE
  <2>1. n \in ActiveNeighbors' /\ n \notin ActiveNeighbors
    BY <1>2 DEF ActiveNeighbors, TypeOK
  <2> QED BY <2>1
<1>3. ASSUME NEW n \in Neighbors, ProcessInterestTimedOut(n) PROVE FALSE
  <2>1. status[n] = "ACTIVE" /\ status' = [status EXCEPT ![n] = "INACTIVE"]
    BY <1>0, <1>3, Zenon DEF ProcessInterestTimedOut, buildVars
  <2> QED BY <1>1, <2>1
<1>4. ASSUME NEW n \in Neighbors, OnContentValidated(n) PROVE FALSE
  <2>1. status[n] # "ACTIVE" /\ status' = [status EXCEPT ![n] = "ACTIVE"]
    BY <1>0, <1>4, Zenon DEF OnContentValidated, buildVars
  <2> QED BY <1>2, <2>1
<1>5. ASSUME NEW f \in Faces, OnFaceEventNotification(f) PROVE FALSE
  <2>1. \E n \in Neighbors : /\ status[n] = "ACTIVE"
                           /\ status' = [status EXCEPT ![n] = "INACTIVE"]
    BY <1>0, <1>5, Zenon DEF OnFaceEventNotification, FaceLost, buildVars
  <2> QED BY <1>1, <2>1
<1>6. ASSUME NEW n \in Neighbors, OnRegistrationFailure(n)
      PROVE  timedOutNo[n] < InterestRetryNumber /\ timedOutNo'[n] = InterestRetryNumber
  <2>1. Inc(timedOutNo[n]) = InterestRetryNumber
    BY <1>0, <1>6, Zenon DEF OnRegistrationFailure, buildVars
  <2>2. timedOutNo' = [timedOutNo EXCEPT ![n] = Inc(timedOutNo[n])]
    BY <1>6, Zenon DEF OnRegistrationFailure
  <2>3. timedOutNo[n] \in 0..CountCap
    BY DEF TypeOK
  <2> QED BY <2>1, <2>2, <2>3, IncFacts DEF TypeOK
<1>7. CASE BuildAdjLsa
  <2>1. adjBuildCount' = 0
    BY <1>0, <1>7, Zenon DEF BuildAdjLsa, buildVars
  <2> QED BY <1>0, <2>1
<1>8. \/ UNCHANGED adjBuildCount
      \/ \E n \in Neighbors : \/ ProcessInterestTimedOut(n)
                             \/ OnContentValidated(n) \/ OnRegistrationFailure(n)
      \/ \E f \in Faces : OnFaceEventNotification(f)
      \/ BuildAdjLsa
  BY Zenon DEF Next, vars, adjVars, buildVars, SendScheduledInterest, ProcessInterest,
       OnContent, OnContentValidationFailed, OnFaceCreated, OnRegistrationSuccess,
       PeerChange, DestroyFace, BuildAdjLsa, RefreshOwnAdjLsa, Calculate
<1> QED BY <1>0, <1>3, <1>4, <1>5, <1>6, <1>7, <1>8

(* The own LSA's build, and with it the refresh, is put off only by a change
   of adjacency or a neighbour given up: see BuildOnlyOnChange (Bug #2733). *)
THEOREM BuildOnlyOnChangeCorrect == Spec => BuildOnlyOnChange
<1>1. TypeOK /\ NoBuildRequestLost /\ [Next]_vars
        => [adjBuildCount' > adjBuildCount =>
             \/ ActiveNeighbors' # ActiveNeighbors
             \/ \E n \in Neighbors : timedOutNo[n] < InterestRetryNumber
                                   /\ timedOutNo'[n] = InterestRetryNumber]_vars
  BY BuildOnlyStep
<1> QED BY <1>1, TypeCorrect, NoBuildRequestLostCorrect, PTL DEF Spec, BuildOnlyOnChange
=============================================================================
