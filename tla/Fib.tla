--------------------------------- MODULE Fib ---------------------------------
(***************************************************************************)
(* Fib and NFD.  Fib keeps the next hops of every name and sends NFD a     *)
(* command for each one that comes or goes.  NFD serves commands in their  *)
(* order, and answers; it may refuse, or its answer may be lost.  A failed *)
(* registration is tried again, with the cost it had, and comes after what *)
(* was sent meanwhile.  Routes run out in NFD.                             *)
(*                                                                         *)
(* A registration takes the face's number from the Adjacency List, which   *)
(* the Hello protocol keeps up to date; a withdrawal takes it from the     *)
(* FaceMap, which learns it from the answer to a registration.  A face     *)
(* that is created anew has another number.                                *)
(***************************************************************************)
EXTENDS Naturals, Sequences, FiniteSets, SequencesExt

CONSTANTS
  Names, Faces,
  Neighbors,    \* names of neighbours, whose routes the Hello protocol keeps
  HopChoices,   \* hops Fib may be given for a name, the cheapest ones already
  Retries,      \* times a failed registration is tried again: 3
  MaxId,        \* bound: the numbers each face goes through
  MaxCommands   \* bound: commands and answers under way when Fib is called

ASSUME NameAssumption == Neighbors \subseteq Names /\ IsFiniteSet(Names) /\ IsFiniteSet(Faces)
ASSUME HopAssumption  == \A h \in HopChoices : DOMAIN h \subseteq Faces /\ h \in [DOMAIN h -> Nat]
ASSUME BoundAssumption == Retries \in Nat /\ MaxId \in [Faces -> Nat] /\ MaxCommands \in Nat

VARIABLES
  table,      \* the faces of every entry, at the costs NFD was last told (the
              \* entry's own, which never rise, RoutingTable has); none for no entry
  adjFace,    \* the number of each face in the Adjacency List, 0 for none
  faceMap,    \* its number in the FaceMap, 0 for none
  nfdFace,    \* its number in NFD, 0 when there is no such face
  lastId,     \* how many numbers each face has had
  commands,   \* on their way to NFD
  answers,    \* on their way back: the commands, and whether they succeeded
  rib,        \* NFD's routes of this router: name and face to cost and whether it runs out
  fresh,      \* routes NFD registered for the entry as it is
  blemished,  \* history: pairs for which something went wrong
  running

nfdVars == <<nfdFace, lastId>>
vars == <<table, adjFace, faceMap, nfdFace, lastId, commands, answers, rib, fresh,
          blemished, running>>

NoHops == [f \in {} |-> 0]

Init ==
  /\ table = [n \in Names |-> NoHops]
  /\ adjFace = [f \in Faces |-> 0]
  /\ faceMap = [f \in Faces |-> 0]
  /\ nfdFace = [f \in Faces |-> 0]
  /\ lastId = [f \in Faces |-> 0]
  /\ commands = <<>>
  /\ answers = <<>>
  /\ rib = [r \in {} |-> 0]
  /\ fresh = {}
  /\ blemished = {}
  /\ running = TRUE

IsPrefixUpdatable(n) == n \notin Neighbors

-----------------------------------------------------------------------------
(* Commands.                                                               *)

Mut_RegisterForEver(n, f, c, times) ==
  [op |-> "register", name |-> n, face |-> f, id |-> adjFace[f], cost |-> c, times |-> times,
   expires |-> FALSE]

\* Every registration has an expiration period, and so has its repetition.
Register(n, f, c, times) ==
  [op |-> "register", name |-> n, face |-> f, id |-> adjFace[f], cost |-> c, times |-> times,
   expires |-> TRUE]

Mut_RegisterPrefixById(n, f, c, times) ==
  IF faceMap[f] # 0 THEN <<[Register(n, f, c, times) EXCEPT !.id = faceMap[f]]>> ELSE <<>>

\* Nothing is sent for a face without a number.
RegisterPrefix(n, f, c, times) ==
  IF adjFace[f] # 0 THEN <<Register(n, f, c, times)>> ELSE <<>>

\* The FaceMap gives 0 for a face it has not met, and the last number it was
\* told for any other.
GetFaceId(f) == faceMap[f]
UpdateFaceMap(f, id) == faceMap' = [faceMap EXCEPT ![f] = id]

UnregisterPrefix(n, f) ==
  IF GetFaceId(f) # 0
  THEN <<[op |-> "unregister", name |-> n, face |-> f, id |-> GetFaceId(f)]>> ELSE <<>>

\* One after the other, for those of S that there is something to send for.
ForEach(S, cmd(_)) ==
  LET Sent == {x \in S : cmd(x) # <<>>}
  IN [i \in 1..Cardinality(Sent) |-> cmd(SetToSeq(Sent)[i])[1]]

AddNextHopsToNfd(n, hops) == ForEach(DOMAIN hops, LAMBDA f : RegisterPrefix(n, f, hops[f], 0))
RemoveHopsFromNfd(n, S) == ForEach(S, LAMBDA f : UnregisterPrefix(n, f))

Room == running /\ Len(commands) + Len(answers) < MaxCommands

\* Registrations and withdrawals under another number than the face has, or
\* under none.
Amiss(n, S, ids) == {<<n, f>> : f \in {g \in S : ids[g] = 0 \/ ids[g] # nfdFace[g]}}

Mut_UpdateForgetsOldHops(n, hops) ==
  /\ Room
  /\ DOMAIN hops # {} \/ DOMAIN table[n] # {}
  /\ table' = [table EXCEPT ![n] = hops]
  /\ fresh' = {r \in fresh : r[1] # n}
  /\ commands' = IF IsPrefixUpdatable(n) THEN commands \o AddNextHopsToNfd(n, hops) ELSE commands
  /\ blemished' = blemished \union Amiss(n, DOMAIN hops, adjFace)
  /\ UNCHANGED <<adjFace, faceMap, nfdVars, answers, rib, running>>

\* The hops are registered, all of them again, then those the entry had and
\* has no more are withdrawn.  With no hops this is remove, be it called by the
\* Name Prefix Table or by the event of the entry.
Update(n, hops) ==
  LET Old == DOMAIN table[n] \ DOMAIN hops
  IN /\ Room
     /\ DOMAIN hops # {} \/ DOMAIN table[n] # {}
     /\ table' = [table EXCEPT ![n] = hops]
     /\ fresh' = {r \in fresh : r[1] # n}
     /\ commands' = IF IsPrefixUpdatable(n)
                    THEN commands \o AddNextHopsToNfd(n, hops) \o RemoveHopsFromNfd(n, Old)
                    ELSE commands
     /\ blemished' = blemished \union Amiss(n, Old, faceMap) \union Amiss(n, DOMAIN hops, adjFace)
     /\ UNCHANGED <<adjFace, faceMap, nfdVars, answers, rib, running>>

\* The router stops.  Here nobody asks whether a name is a neighbour's.
Clean ==
  /\ Room
  /\ running' = FALSE
  /\ table' = [n \in Names |-> NoHops]
  /\ fresh' = {}
  /\ commands' = commands \o ForEach({r \in Names \X Faces : r[2] \in DOMAIN table[r[1]]},
                                     LAMBDA r : UnregisterPrefix(r[1], r[2]))
  /\ blemished' = blemished \union UNION {Amiss(n, DOMAIN table[n], faceMap) : n \in Names}
  /\ UNCHANGED <<adjFace, faceMap, nfdVars, answers, rib>>

-----------------------------------------------------------------------------
(* NFD.                                                                    *)

WithRoute(c) ==
  [r \in DOMAIN rib \union {<<c.name, c.face>>} |->
     IF r = <<c.name, c.face>> THEN [cost |-> c.cost, expires |-> c.expires] ELSE rib[r]]
WithoutRoutes(S) == [r \in DOMAIN rib \ S |-> rib[r]]

\* A command is carried out if its face exists.
CarryOut(c) ==
  /\ nfdFace[c.face] = c.id
  /\ IF c.op = "register"
     THEN /\ rib' = WithRoute(c)
          /\ fresh' = IF c.face \in DOMAIN table[c.name] THEN fresh \union {<<c.name, c.face>>}
                      ELSE fresh
     ELSE /\ rib' = WithoutRoutes({<<c.name, c.face>>})
          /\ fresh' = fresh \ {<<c.name, c.face>>}

Answered(c, ok) ==
  /\ commands' = Tail(commands)
  /\ answers' = Append(answers, [command |-> c, ok |-> ok])
  /\ UNCHANGED <<table, adjFace, faceMap, nfdVars, running>>

NfdServes ==
  /\ commands # <<>>
  /\ CarryOut(Head(commands))
  /\ Answered(Head(commands), TRUE)
  /\ UNCHANGED blemished

\* Refused, lost, or carried out but the answer lost.
NfdFails ==
  LET c == Head(commands)
  IN /\ commands # <<>>
     /\ CarryOut(c) \/ UNCHANGED <<rib, fresh>>
     /\ Answered(c, FALSE)
     /\ blemished' = blemished \union {<<c.name, c.face>>}

\* What an update does not renew runs out.
RouteExpires(r) ==
  /\ r \in DOMAIN rib \ fresh /\ rib[r].expires
  /\ rib' = WithoutRoutes({r})
  /\ UNCHANGED <<table, adjFace, faceMap, nfdVars, commands, answers, fresh, blemished, running>>

\* A face comes under a new number; one that goes takes its routes along.
FaceCreated(f) ==
  /\ nfdFace[f] = 0 /\ lastId[f] < MaxId[f]
  /\ lastId' = [lastId EXCEPT ![f] = @ + 1]
  /\ nfdFace' = [nfdFace EXCEPT ![f] = lastId'[f]]
  /\ UNCHANGED <<table, adjFace, faceMap, commands, answers, rib, fresh, blemished, running>>

FaceDestroyed(f) ==
  LET Routes == Names \X {f}
  IN /\ nfdFace[f] # 0
     /\ nfdFace' = [nfdFace EXCEPT ![f] = 0]
     /\ rib' = WithoutRoutes(Routes)
     /\ fresh' = fresh \ Routes
     /\ blemished' = blemished \union Routes
     /\ UNCHANGED <<table, adjFace, faceMap, lastId, commands, answers, running>>

\* The Hello protocol or a face event tells the Adjacency List.
AdjacencyLearns(f) ==
  /\ running /\ adjFace[f] # nfdFace[f]
  /\ adjFace' = [adjFace EXCEPT ![f] = nfdFace[f]]
  /\ UNCHANGED <<table, faceMap, nfdVars, commands, answers, rib, fresh, blemished, running>>

-----------------------------------------------------------------------------
(* Answers.                                                                *)

Mut_OnRegistrationFailureOneMore(c) ==
  commands' = IF c.times <= Retries
              THEN commands \o RegisterPrefix(c.name, c.face, c.cost, c.times + 1)
              ELSE commands

\* Tried again up to three times, whatever has become of the entry meanwhile.
OnRegistrationFailure(c) ==
  commands' = IF c.times < Retries
              THEN commands \o RegisterPrefix(c.name, c.face, c.cost, c.times + 1)
              ELSE commands

\* A withdrawal that fails is not repeated.
OnAnswer ==
  LET a == Head(answers)
      registration == a.command.op = "register"
  IN /\ running
     /\ answers # <<>>
     /\ answers' = Tail(answers)
     /\ IF registration /\ a.ok THEN UpdateFaceMap(a.command.face, a.command.id)
        ELSE UNCHANGED faceMap
     /\ IF registration /\ ~a.ok THEN OnRegistrationFailure(a.command)
        ELSE UNCHANGED commands
     /\ UNCHANGED <<table, adjFace, nfdVars, rib, fresh, blemished, running>>

Next ==
  \/ \E n \in Names, h \in HopChoices : Update(n, h)
  \/ Clean
  \/ NfdServes \/ NfdFails \/ OnAnswer
  \/ \E r \in DOMAIN rib : RouteExpires(r)
  \/ \E f \in Faces : FaceCreated(f) \/ FaceDestroyed(f) \/ AdjacencyLearns(f)

Spec == Init /\ [][Next]_vars

\* The entry is refreshed: a calculation hands over the same hops again.
Refresh(n) == DOMAIN table[n] # {} /\ Update(n, table[n])

\* Of the registrations of a name and face NFD serves one well now and then.
Served(n, f) ==
  /\ NfdServes
  /\ Head(commands).op = "register" /\ Head(commands).name = n /\ Head(commands).face = f

\* NFD serves commands, routes run out, answers and numbers of faces arrive,
\* entries are refreshed while the router runs.
FairSpec ==
  /\ Spec
  /\ WF_vars(NfdServes \/ NfdFails)
  /\ WF_vars(OnAnswer)
  /\ \A n \in Names, f \in Faces : SF_vars(Served(n, f)) /\ WF_vars(RouteExpires(<<n, f>>))
  /\ \A f \in Faces : WF_vars(AdjacencyLearns(f))
  /\ \A n \in Names : SF_vars(Refresh(n))

-----------------------------------------------------------------------------
(* Properties.                                                             *)

Commands ==
  [op : {"register"}, name : Names, face : Faces, id : Nat \ {0}, cost : Nat, times : 0..Retries,
   expires : BOOLEAN]
    \union [op : {"unregister"}, name : Names, face : Faces, id : Nat \ {0}]

\* Types of the variables.
TypeOK ==
  /\ DOMAIN table = Names
  /\ \A n \in Names : table[n] \in [DOMAIN table[n] -> Nat] /\ DOMAIN table[n] \subseteq Faces
  /\ {adjFace, faceMap, nfdFace, lastId} \subseteq [Faces -> Nat]
  /\ commands \in Seq(Commands)
  /\ answers \in Seq([command : Commands, ok : BOOLEAN])
  /\ DOMAIN rib \subseteq Names \X Faces
  /\ fresh \subseteq DOMAIN rib
  /\ blemished \subseteq Names \X Faces
  /\ running \in BOOLEAN

\* As long as no command of a name and face failed, no withdrawal came before
\* the FaceMap knew the face by its present number (fib.cpp:417), and the face
\* did not change, NFD has in the end exactly the routes of the entries, at the
\* costs of the last update, whatever order commands and answers came in.
RibFollowsTable ==
  commands = <<>> =>
    \A n \in Names \ Neighbors, f \in Faces : <<n, f>> \notin blemished =>
      /\ f \in DOMAIN table[n] => <<n, f>> \in DOMAIN rib /\ rib[<<n, f>>].cost = table[n][f]
      /\ <<n, f>> \in DOMAIN rib => f \in DOMAIN table[n]

\* A route that Fib wants no more goes in the end, although its withdrawal
\* may have been lost, refused or never sent, and although a registration that
\* failed before may be tried again after it (fib.cpp:478).
WithdrawnRoutesGo ==
  \A n \in Names, f \in Faces :
    <>[](f \notin DOMAIN table[n]) => <>[](<<n, f>> \notin DOMAIN rib)

\* A hop Fib keeps is registered again and again, however many registrations
\* were given up (fib.cpp:486), once its face exists and stays.
WantedRoutesReturn ==
  \A n \in Names \ Neighbors, f \in Faces :
    <>[](running /\ f \in DOMAIN table[n] /\ nfdFace[f] # 0)
      => []<>(<<n, f>> \in DOMAIN rib)
===============================================================================
