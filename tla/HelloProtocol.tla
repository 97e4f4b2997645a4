---------------------------- MODULE HelloProtocol ----------------------------
(***************************************************************************)
(* Neighbour liveness in one NLSR router: the HELLO protocol, the          *)
(* adjacency list it maintains, the NFD faces behind the neighbours, and   *)
(* what a change of adjacency sets in motion, the delayed build of the     *)
(* router's own Adjacency LSA and the delayed routing table calculation.   *)
(*                                                                         *)
(* The daemon is single-threaded, so every callback is one atomic action.  *)
(* Time is abstracted: a scheduled event may fire at any moment after it   *)
(* has been scheduled.  NFD and the peers are the environment.             *)
(*                                                                         *)
(* Definitions named Mut_... are not part of the specification: each is a  *)
(* plausible slip in the definition after it, kept to show that the        *)
(* properties at the end of the module would notice.                       *)
(***************************************************************************)
EXTENDS Naturals, FiniteSets

CONSTANTS
  Neighbors,            \* the configured neighbours
  InterestRetryNumber,  \* hello-retries
  Faces,                \* the face ids NFD has left to allocate
  Untrusted,            \* neighbours whose HELLO data never validates
  MaxHellos,            \* bound: HELLO interests in flight to a neighbour
  MaxCommands,          \* bound: commands of one kind in flight for a neighbour
  CountCap              \* counters saturate here, above every compared value

ASSUME RetryAssumption == InterestRetryNumber \in Nat \ {0}
ASSUME CapAssumption   == CountCap \in Nat /\ CountCap > InterestRetryNumber
ASSUME BoundAssumption == MaxHellos \in Nat \ {0} /\ MaxCommands \in Nat \ {0}
ASSUME TrustAssumption == Untrusted \subseteq Neighbors

Status == {"ACTIVE", "INACTIVE"}
NoFace == 0

ASSUME FaceAssumption == NoFace \notin Faces

VARIABLES
  \* the Adjacent objects
  status, timedOutNo, faceId,
  \* HELLO interests in flight, HELLO data being validated
  hellos, validating,
  \* FaceCreate and RibRegister commands in flight
  creating, registering,
  \* NFD: live face of a neighbour's URI, ids handed out, destroy events to come
  nfdFace, usedFaces, faceEvents,
  \* peers that are up and reachable
  up,
  \* own Adjacency LSA: its neighbours, {} when the LSDB holds none
  buildScheduled, adjBuildCount, adjLsa,
  \* the own adjacency the routing table was last calculated from
  calcScheduled, routedAdj

adjVars   == <<status, timedOutNo, faceId>>
helloVars == <<hellos, validating>>
cmdVars   == <<creating, registering>>
nfdVars   == <<nfdFace, usedFaces, faceEvents>>
buildVars == <<buildScheduled, adjBuildCount>>
calcVars  == <<calcScheduled, routedAdj>>
vars == <<adjVars, helloVars, cmdVars, nfdVars, up, buildVars, adjLsa, calcVars>>

(* One state per neighbour, no LSA built and nothing scheduled but HELLOs. *)
Init ==
  /\ status = [n \in Neighbors |-> "INACTIVE"]
  /\ timedOutNo = [n \in Neighbors |-> 0]
  /\ faceId = [n \in Neighbors |-> NoFace]
  /\ hellos = [n \in Neighbors |-> 0]
  /\ validating = [n \in Neighbors |-> 0]
  /\ creating = [n \in Neighbors |-> 0]
  /\ registering = [n \in Neighbors |-> [f \in Faces |-> 0]]
  /\ nfdFace = [n \in Neighbors |-> NoFace]
  /\ usedFaces = {} /\ faceEvents = {}
  /\ up \in SUBSET Neighbors
  /\ buildScheduled = FALSE /\ adjBuildCount = 0 /\ adjLsa = {}
  /\ calcScheduled = FALSE /\ routedAdj = {}

-----------------------------------------------------------------------------
(* Helpers.                                                                *)

\* The code compares a timeout count with the retry number only and tests the
\* build count for zero only, so all values from CountCap on are alike.
Inc(c) == IF c < CountCap THEN c + 1 ELSE c

ActiveNeighbors == {n \in Neighbors : status[n] = "ACTIVE"}

\* ACTIVE, or INACTIVE long enough to be taken for dead.
Settled(n) == status[n] = "ACTIVE" \/ timedOutNo[n] >= InterestRetryNumber

IsAdjLsaBuildable == \A n \in Neighbors : Settled(n)

ScheduleAdjLsaBuild ==
  /\ adjBuildCount' = Inc(adjBuildCount)
  /\ buildScheduled' = TRUE

\* A HELLO to every neighbour of S that has a face, a registration otherwise.
HelloOrRegister(S) ==
  LET probed == {n \in S : faceId[n] # NoFace}
      unregistered == S \ probed IN
  /\ \A n \in probed : hellos[n] < MaxHellos
  /\ \A n \in unregistered : creating[n] < MaxCommands
  /\ hellos' = [n \in Neighbors |-> IF n \in probed THEN hellos[n] + 1 ELSE hellos[n]]
  /\ creating' = [n \in Neighbors |->
                    IF n \in unregistered THEN creating[n] + 1 ELSE creating[n]]

-----------------------------------------------------------------------------
(* HELLO handlers.                                                         *)

SendScheduledInterest ==
  /\ HelloOrRegister(Neighbors)
  /\ UNCHANGED <<adjVars, validating, registering, nfdVars, up, buildVars, adjLsa, calcVars>>

\* The peer's own HELLO; when its sender is ACTIVE only a Data goes back.
ProcessInterest(n) ==
  /\ n \in up
  /\ status[n] = "INACTIVE"
  /\ HelloOrRegister({n})
  /\ UNCHANGED <<adjVars, validating, registering, nfdVars, up, buildVars, adjLsa, calcVars>>

ProcessInterestTimedOut(n) ==
  LET count == Inc(timedOutNo[n]) IN
  /\ hellos[n] > 0
  /\ timedOutNo' = [timedOutNo EXCEPT ![n] = count]
  /\ \/ /\ count < InterestRetryNumber      \* one interest out, another one in
        /\ UNCHANGED <<status, hellos, buildVars>>
     \/ /\ count >= InterestRetryNumber
        /\ hellos' = [hellos EXCEPT ![n] = @ - 1]
        /\ IF status[n] = "ACTIVE" /\ count = InterestRetryNumber
           THEN /\ status' = [status EXCEPT ![n] = "INACTIVE"]
                /\ ScheduleAdjLsaBuild
           ELSE UNCHANGED <<status, buildVars>>
  /\ UNCHANGED <<faceId, validating, cmdVars, nfdVars, up, adjLsa, calcVars>>

\* One Data satisfies every pending interest of its name; each callback
\* starts a validation of its own.
OnContent(n) ==
  /\ n \in up /\ nfdFace[n] # NoFace
  /\ hellos[n] > 0 /\ validating[n] + hellos[n] <= MaxHellos
  /\ validating' = [validating EXCEPT ![n] = @ + hellos[n]]
  /\ hellos' = [hellos EXCEPT ![n] = 0]
  /\ UNCHANGED <<adjVars, cmdVars, nfdVars, up, buildVars, adjLsa, calcVars>>

Mut_OnContentValidatedNoReset(n) ==
  /\ validating[n] > 0 /\ n \notin Untrusted
  /\ validating' = [validating EXCEPT ![n] = @ - 1]
  /\ status' = [status EXCEPT ![n] = "ACTIVE"]
  /\ IF status[n] # "ACTIVE" THEN ScheduleAdjLsaBuild ELSE UNCHANGED buildVars
  /\ UNCHANGED <<timedOutNo, faceId, hellos, cmdVars, nfdVars, up, adjLsa, calcVars>>

OnContentValidated(n) ==
  /\ validating[n] > 0 /\ n \notin Untrusted
  /\ validating' = [validating EXCEPT ![n] = @ - 1]
  /\ status' = [status EXCEPT ![n] = "ACTIVE"]
  /\ timedOutNo' = [timedOutNo EXCEPT ![n] = 0]
  /\ IF status[n] # "ACTIVE" THEN ScheduleAdjLsaBuild ELSE UNCHANGED buildVars
  /\ UNCHANGED <<faceId, hellos, cmdVars, nfdVars, up, adjLsa, calcVars>>

Mut_OnContentValidationFailedUnknown(n) ==
  /\ validating[n] > 0
  /\ validating' = [validating EXCEPT ![n] = @ - 1]
  /\ status' = [status EXCEPT ![n] = "UNKNOWN"]
  /\ UNCHANGED <<timedOutNo, faceId, hellos, cmdVars, nfdVars, up, buildVars, adjLsa, calcVars>>

OnContentValidationFailed(n) ==
  /\ validating[n] > 0
  /\ validating' = [validating EXCEPT ![n] = @ - 1]
  /\ UNCHANGED <<adjVars, hellos, cmdVars, nfdVars, up, buildVars, adjLsa, calcVars>>

-----------------------------------------------------------------------------
(* Face creation and prefix registration.                                  *)

\* NFD answers FaceCreate with the URI's face, old or new; the router goes on
\* to register the neighbour's prefix on it.
OnFaceCreated(n) ==
  /\ creating[n] > 0
  /\ \E f \in Faces :
       /\ IF nfdFace[n] # NoFace THEN f = nfdFace[n] ELSE f \notin usedFaces
       /\ registering[n][f] < MaxCommands
       /\ nfdFace' = [nfdFace EXCEPT ![n] = f]
       /\ usedFaces' = usedFaces \union {f}
       /\ registering' = [registering EXCEPT ![n][f] = @ + 1]
  /\ creating' = [creating EXCEPT ![n] = @ - 1]
  /\ UNCHANGED <<adjVars, helloVars, faceEvents, up, buildVars, adjLsa, calcVars>>

\* The answer carries the face the command named, whether or not that face
\* has been destroyed since.
OnRegistrationSuccess(n) ==
  /\ hellos[n] < MaxHellos
  /\ \E f \in Faces :
       /\ registering[n][f] > 0
       /\ registering' = [registering EXCEPT ![n][f] = @ - 1]
       /\ faceId' = [faceId EXCEPT ![n] = f]
  /\ hellos' = [hellos EXCEPT ![n] = @ + 1]
  /\ UNCHANGED <<status, timedOutNo, validating, creating, nfdVars, up, buildVars,
                 adjLsa, calcVars>>

\* FaceCreate (or the canonization of the URI) or RibRegister is refused.
OnRegistrationFailure(n) ==
  LET count == Inc(timedOutNo[n]) IN
  /\ \/ /\ creating[n] > 0
        /\ creating' = [creating EXCEPT ![n] = @ - 1]
        /\ UNCHANGED registering
     \/ /\ \E f \in Faces :
             /\ registering[n][f] > 0
             /\ registering' = [registering EXCEPT ![n][f] = @ - 1]
        /\ UNCHANGED creating
  /\ timedOutNo' = [timedOutNo EXCEPT ![n] = count]
  /\ IF count = InterestRetryNumber
     THEN /\ status' = [status EXCEPT ![n] = "INACTIVE"]
          /\ ScheduleAdjLsaBuild
     ELSE UNCHANGED <<status, buildVars>>
  /\ UNCHANGED <<faceId, helloVars, nfdVars, up, adjLsa, calcVars>>

Mut_FaceLostNoBuild(n) ==
  /\ status' = [status EXCEPT ![n] = "INACTIVE"]
  /\ timedOutNo' = [timedOutNo EXCEPT ![n] = InterestRetryNumber]
  /\ UNCHANGED buildVars

Mut_FaceLostCountKept(n) ==
  IF status[n] = "ACTIVE"
  THEN /\ status' = [status EXCEPT ![n] = "INACTIVE"]
       /\ UNCHANGED timedOutNo
       /\ ScheduleAdjLsaBuild
  ELSE UNCHANGED <<status, timedOutNo, buildVars>>

Mut_FaceLostAlwaysBuild(n) ==
  /\ status' = [status EXCEPT ![n] = "INACTIVE"]
  /\ timedOutNo' = [timedOutNo EXCEPT ![n] = InterestRetryNumber]
  /\ ScheduleAdjLsaBuild

\* What the loss of its face does to neighbour n.
FaceLost(n) ==
  IF status[n] = "ACTIVE"
  THEN /\ status' = [status EXCEPT ![n] = "INACTIVE"]
       /\ timedOutNo' = [timedOutNo EXCEPT ![n] = InterestRetryNumber]
       /\ ScheduleAdjLsaBuild
  ELSE UNCHANGED <<status, timedOutNo, buildVars>>

\* NFD reports a destroyed face; ids are never reused, so only the event of
\* the id the router knows has an effect and the order of events is free.
OnFaceEventNotification(f) ==
  /\ f \in faceEvents
  /\ faceEvents' = faceEvents \ {f}
  /\ \/ /\ \A n \in Neighbors : faceId[n] # f
        /\ UNCHANGED <<adjVars, buildVars>>
     \/ \E n \in Neighbors :
        /\ faceId[n] = f
        /\ faceId' = [faceId EXCEPT ![n] = NoFace]
        /\ FaceLost(n)
  /\ UNCHANGED <<helloVars, cmdVars, nfdFace, usedFaces, up, adjLsa, calcVars>>

-----------------------------------------------------------------------------
(* The own Adjacency LSA and the routing table.                            *)

\* installAdjLsa, reached by buildAndInstallOwnAdjLsa, schedules a calculation
\* when the LSA is new or its content differs.
BuildAdjLsa ==
  /\ buildScheduled
  /\ IF IsAdjLsaBuildable
     THEN /\ buildScheduled' = FALSE
          /\ adjBuildCount' = 0
          /\ adjLsa' = IF adjBuildCount > 0 THEN ActiveNeighbors ELSE adjLsa
          /\ calcScheduled' = (calcScheduled \/ adjLsa' # adjLsa
                                 \/ (adjBuildCount > 0 /\ ActiveNeighbors = {}))
     ELSE UNCHANGED <<buildVars, adjLsa, calcScheduled>>   \* tried again later
  /\ UNCHANGED <<adjVars, helloVars, cmdVars, nfdVars, up, routedAdj>>

Mut_RefreshOwnAdjLsaNoCalculation ==
  /\ adjLsa # {}
  /\ UNCHANGED vars

\* exprireOrRefreshAdjLsa of the own LSA: same content, a new calculation.
RefreshOwnAdjLsa ==
  /\ adjLsa # {}
  /\ calcScheduled' = TRUE
  /\ UNCHANGED <<adjVars, helloVars, cmdVars, nfdVars, up, buildVars, adjLsa, routedAdj>>

\* Skipped, and not scheduled again, while a build is scheduled.
Calculate ==
  /\ calcScheduled
  /\ calcScheduled' = FALSE
  /\ routedAdj' = IF adjLsa # {} /\ buildScheduled THEN routedAdj ELSE adjLsa
  /\ UNCHANGED <<adjVars, helloVars, cmdVars, nfdVars, up, buildVars, adjLsa>>

-----------------------------------------------------------------------------
(* The environment: peers come and go, NFD destroys faces.                 *)

PeerChange(n) ==
  /\ up' = IF n \in up THEN up \ {n} ELSE up \union {n}
  /\ UNCHANGED <<adjVars, helloVars, cmdVars, nfdVars, buildVars, adjLsa, calcVars>>

DestroyFace(n) ==
  /\ nfdFace[n] # NoFace
  /\ nfdFace' = [nfdFace EXCEPT ![n] = NoFace]
  /\ faceEvents' = faceEvents \union {nfdFace[n]}
  /\ UNCHANGED <<adjVars, helloVars, cmdVars, usedFaces, up, buildVars, adjLsa, calcVars>>

Next ==
  \/ SendScheduledInterest
  \/ \E n \in Neighbors :
       \/ ProcessInterest(n) \/ ProcessInterestTimedOut(n)
       \/ OnContent(n) \/ OnContentValidated(n) \/ OnContentValidationFailed(n)
       \/ OnFaceCreated(n) \/ OnRegistrationSuccess(n) \/ OnRegistrationFailure(n)
       \/ PeerChange(n) \/ DestroyFace(n)
  \/ \E f \in Faces : OnFaceEventNotification(f)
  \/ BuildAdjLsa \/ RefreshOwnAdjLsa \/ Calculate

Spec == Init /\ [][Next]_vars

(* Timers fire, interests are answered or time out, NFD answers commands   *)
(* and delivers events, every validation ends, and the data of a trusted   *)
(* neighbour does not fail validation for ever.  The HELLO timer rearms     *)
(* itself and never waits: its fairness is strong because the bounds on    *)
(* what is in flight disable the action now and then, which the code does  *)
(* not do.                                                                 *)
Fairness ==
  /\ SF_vars(SendScheduledInterest)
  /\ WF_vars(BuildAdjLsa) /\ WF_vars(RefreshOwnAdjLsa) /\ WF_vars(Calculate)
  /\ \A f \in Faces : WF_vars(OnFaceEventNotification(f))
  /\ \A n \in Neighbors :
       /\ WF_vars(ProcessInterestTimedOut(n))
       /\ WF_vars(OnContentValidated(n) \/ OnContentValidationFailed(n))
       /\ SF_vars(OnContentValidated(n))
       /\ WF_vars(OnFaceCreated(n) \/ OnRegistrationSuccess(n) \/ OnRegistrationFailure(n))

FairSpec == Spec /\ Fairness

-----------------------------------------------------------------------------
(* Properties.                                                             *)

TypeOK ==
  /\ status \in [Neighbors -> Status]
  /\ timedOutNo \in [Neighbors -> 0..CountCap]
  /\ faceId \in [Neighbors -> Faces \union {NoFace}]
  /\ hellos \in [Neighbors -> 0..MaxHellos]
  /\ validating \in [Neighbors -> 0..MaxHellos]
  /\ creating \in [Neighbors -> 0..MaxCommands]
  /\ registering \in [Neighbors -> [Faces -> 0..MaxCommands]]
  /\ nfdFace \in [Neighbors -> Faces \union {NoFace}]
  /\ usedFaces \subseteq Faces
  /\ faceEvents \subseteq Faces
  /\ up \subseteq Neighbors
  /\ buildScheduled \in BOOLEAN
  /\ adjBuildCount \in 0..CountCap
  /\ adjLsa \subseteq Neighbors
  /\ calcScheduled \in BOOLEAN
  /\ routedAdj \subseteq Neighbors

\* The timeout handler gives a neighbour up when its count equals the retry
\* number (hello-protocol.cpp:176), so an ACTIVE neighbour whose count were
\* already there or beyond would stay ACTIVE however many HELLOs it missed.
ActiveBelowRetry ==
  \A n \in Neighbors : status[n] = "ACTIVE" => timedOutNo[n] < InterestRetryNumber

\* The counter and the flag of scheduleAdjLsaBuild / buildAdjLsa agree: a
\* request always has an event that will serve it, and the event always finds
\* a request (lsdb.cpp:505-546 keeps them apart in two members of Nlsr).
NoBuildRequestLost == buildScheduled <=> adjBuildCount > 0

\* Whoever changed a neighbour's status (HELLO data, timeouts, a registration
\* failure, a face event), a build is on its way as long as the own Adjacency
\* LSA does not list exactly the ACTIVE neighbours.
AdjLsaCurrentOrPending == adjLsa # ActiveNeighbors => buildScheduled

\* A neighbour once ACTIVE or given up never again holds back the build of the
\* Adjacency LSA: this is why a face event writes the retry number into the
\* timeout count (nlsr.cpp:379-381).
SettledForGood == [][\A n \in Neighbors : Settled(n) => Settled(n)']_vars

\* A build is asked for only when the set of ACTIVE neighbours changes or a
\* neighbour reaches the retry number: anything more would keep postponing the
\* refresh of the own LSA (Bug #2733, nlsr.cpp:364-375).
BuildOnlyOnChange ==
  [][adjBuildCount' > adjBuildCount =>
       \/ ActiveNeighbors' # ActiveNeighbors
       \/ \E n \in Neighbors : timedOutNo[n] < InterestRetryNumber
                             /\ timedOutNo'[n] = InterestRetryNumber]_vars

\* A neighbour that is gone for good is INACTIVE for good: whichever mix of
\* HELLO timeouts, failed registrations, late data and face events it meets.
DeadNeighborDetected ==
  \A n \in Neighbors : <>[](n \notin up) => <>[](status[n] = "INACTIVE")

\* Once the ACTIVE neighbours stop changing, the routing table is calculated
\* from them: the calculations RoutingTable::calculate skips while a build is
\* scheduled are made up for by a later one.
RoutingFollows ==
  \A S \in SUBSET Neighbors : <>[](ActiveNeighbors = S) => <>[](routedAdj = S)
=============================================================================
