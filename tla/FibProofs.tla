------------------------------ MODULE FibProofs ------------------------------
(***************************************************************************)
(* Proof that NFD has the routes of the FIB where nothing went wrong, for  *)
(* any names, faces, hops and retries, however long the queue of commands  *)
(* to NFD is.                                                              *)
(***************************************************************************)
EXTENDS Fib, FiniteSetTheorems, SequenceTheorems, TLAPS

-----------------------------------------------------------------------------
(* The inductive invariant.                                                *)

Pairs == (Names \ Neighbors) \X Faces
Concerns(c, r) == <<c.name, c.face>> = r

\* Of the commands of s none concerns r; command i is the last one that does.
Silent(s, r) == \A i \in DOMAIN s : ~Concerns(s[i], r)
IsLast(s, i, r) ==
  /\ Concerns(s[i], r)
  /\ \A j \in DOMAIN s : j > i => ~Concerns(s[j], r)

\* With t the table: the command leaves NFD with what the entry says of the face.
Brings(c, r, t) ==
  IF r[2] \in DOMAIN t[r[1]]
  THEN c.op = "register" /\ c.cost = t[r[1]][r[2]]
  ELSE c.op = "unregister"

RibAgrees(r) ==
  /\ r[2] \in DOMAIN table[r[1]] => r \in fresh /\ rib[r].cost = table[r[1]][r[2]]
  /\ r \in DOMAIN rib => r[2] \in DOMAIN table[r[1]]

\* Commands go to the face that NFD has.
CommandsReachFace(r) ==
  \A i \in DOMAIN commands : Concerns(commands[i], r) => commands[i].id = nfdFace[r[2]]

\* The last command of a pair brings what the entry says ...
LastCommandCounts(r) ==
  \A i \in DOMAIN commands : IsLast(commands, i, r) => Brings(commands[i], r, table)

\* ... and without a command under way NFD has it, and will not forget it.
SettledAgrees(r) == Silent(commands, r) => RibAgrees(r)

PairAgrees(r) == CommandsReachFace(r) /\ LastCommandCounts(r) /\ SettledAgrees(r)

\* No failure is on its way that does not count as one.
FailuresBlemish ==
  \A i \in DOMAIN answers :
    answers[i].ok \/ <<answers[i].command.name, answers[i].command.face>> \in blemished

IInv ==
  /\ TypeOK
  /\ FailuresBlemish
  /\ \A r \in Pairs \ blemished : PairAgrees(r)

-----------------------------------------------------------------------------
(* What is sent for a set: one command for each member there is one for.   *)

\* The sequence of a finite set is over the set and leaves nothing out.
LEMMA AllInSequence ==
  ASSUME NEW S, IsFiniteSet(S)
  PROVE  /\ Cardinality(S) \in Nat
         /\ SetToSeq(S) \in [1..Cardinality(S) -> S]
         /\ \A x \in S : \E i \in 1..Cardinality(S) : SetToSeq(S)[i] = x
<1> DEFINE n == Cardinality(S)
           q == SetToSeq(S)
<1>1. n \in Nat /\ ExistsBijection(1..n, S)
  BY FS_CardinalityType
<1>2. PICK b \in Bijection(1..n, S) : TRUE
  BY <1>1 DEF ExistsBijection
<1>3. b \in [1..n -> S] /\ IsInjective(b)
  BY <1>2 DEF Bijection, Injection
<1>4. q \in [1..n -> S] /\ IsInjective(q)
  BY <1>3 DEF SetToSeq
<1>5. q \in Injection(1..n, S)
  BY <1>4 DEF Injection
<1>6. IsFiniteSet(1..n) /\ Cardinality(1..n) = n
  BY <1>1, FS_Interval
<1>7. q \in Surjection(1..n, S)
  BY <1>5, <1>6, FS_Injection
<1> QED
  BY <1>1, <1>4, <1>7 DEF Surjection

Withdrawal(n, f) == [op |-> "unregister", name |-> n, face |-> f, id |-> faceMap[f]]
AllHops == {r \in Names \X Faces : r[2] \in DOMAIN table[r[1]]}

\* An update registers every hop whose face has a number, and nothing else.
LEMMA HopsRegistered ==
  ASSUME TypeOK, NEW n \in Names,
         NEW hops, DOMAIN hops \subseteq Faces, hops \in [DOMAIN hops -> Nat]
  PROVE  LET q == AddNextHopsToNfd(n, hops)
         IN  /\ q \in Seq(Commands)
             /\ \A i \in DOMAIN q : \E f \in DOMAIN hops : adjFace[f] # 0 /\ q[i] = Register(n, f, hops[f], 0)
             /\ \A f \in DOMAIN hops : adjFace[f] # 0 => \E i \in DOMAIN q : q[i] = Register(n, f, hops[f], 0)
<1> DEFINE Sent == {f \in DOMAIN hops : RegisterPrefix(n, f, hops[f], 0) # <<>>}
           q == AddNextHopsToNfd(n, hops)
           w == SetToSeq(Sent)
           k == Cardinality(Sent)
<1>1. Sent = {f \in DOMAIN hops : adjFace[f] # 0}
  BY DEF RegisterPrefix
<1>2. IsFiniteSet(Sent)
  BY <1>1, NameAssumption, FS_Subset
<1>3. \A f \in Sent : Register(n, f, hops[f], 0) \in Commands
  <2> SUFFICES ASSUME NEW f \in Sent
               PROVE  Register(n, f, hops[f], 0) \in Commands
    OBVIOUS
  <2>1. adjFace[f] \in Nat \ {0} /\ hops[f] \in Nat /\ f \in Faces
    BY <1>1 DEF TypeOK
  <2>2. 0 \in 0..Retries
    BY BoundAssumption
  <2> QED
    BY <2>1, <2>2 DEF Register, Commands
<1>4. k \in Nat /\ w \in [1..k -> Sent] /\ \A f \in Sent : \E i \in 1..k : w[i] = f
  BY <1>2, AllInSequence
<1>5. q = [i \in 1..k |-> RegisterPrefix(n, w[i], hops[w[i]], 0)[1]]
  BY DEF AddNextHopsToNfd, ForEach
<1> HIDE DEF Sent, w, k
<1>6. \A i \in 1..k : q[i] = Register(n, w[i], hops[w[i]], 0)
  BY <1>1, <1>4, <1>5 DEF RegisterPrefix
<1>7. q \in [1..k -> Commands]
  BY <1>3, <1>4, <1>5, <1>6
<1> HIDE DEF q
<1>8. q \in Seq(Commands) /\ DOMAIN q = 1..k
  BY <1>4, <1>7, SeqDef
<1>9. ASSUME NEW i \in DOMAIN q
      PROVE  \E f \in DOMAIN hops : adjFace[f] # 0 /\ q[i] = Register(n, f, hops[f], 0)
  <2>1. w[i] \in DOMAIN hops /\ adjFace[w[i]] # 0
    BY <1>1, <1>4, <1>8, <1>9
  <2> QED
    BY <2>1, <1>6, <1>8, <1>9
<1>10. ASSUME NEW f \in DOMAIN hops, adjFace[f] # 0
       PROVE  \E i \in DOMAIN q : q[i] = Register(n, f, hops[f], 0)
  <2>1. PICK i \in 1..k : w[i] = f
    BY <1>1, <1>4, <1>10
  <2> QED
    BY <2>1, <1>6, <1>8
<1> QED
  BY <1>8, <1>9, <1>10 DEF q

\* A withdrawal is sent for every hop whose face the FaceMap knows.
LEMMA HopsWithdrawn ==
  ASSUME TypeOK, NEW n \in Names, NEW S \in SUBSET Faces
  PROVE  LET q == RemoveHopsFromNfd(n, S)
         IN  /\ q \in Seq(Commands)
             /\ \A i \in DOMAIN q : \E f \in S : faceMap[f] # 0 /\ q[i] = Withdrawal(n, f)
             /\ \A f \in S : faceMap[f] # 0 => \E i \in DOMAIN q : q[i] = Withdrawal(n, f)
<1> DEFINE Sent == {f \in S : UnregisterPrefix(n, f) # <<>>}
           q == RemoveHopsFromNfd(n, S)
           w == SetToSeq(Sent)
           k == Cardinality(Sent)
<1>1. Sent = {f \in S : faceMap[f] # 0}
  BY DEF UnregisterPrefix, GetFaceId, Withdrawal
<1>2. IsFiniteSet(Sent)
  BY <1>1, NameAssumption, FS_Subset
<1>3. \A f \in Sent : Withdrawal(n, f) \in Commands
  BY <1>1 DEF TypeOK, Commands, Withdrawal
<1>4. k \in Nat /\ w \in [1..k -> Sent] /\ \A f \in Sent : \E i \in 1..k : w[i] = f
  BY <1>2, AllInSequence
<1>5. q = [i \in 1..k |-> UnregisterPrefix(n, w[i])[1]]
  BY DEF RemoveHopsFromNfd, ForEach
<1> HIDE DEF Sent, w, k
<1>6. \A i \in 1..k : q[i] = Withdrawal(n, w[i])
  BY <1>1, <1>4, <1>5 DEF UnregisterPrefix, GetFaceId, Withdrawal
<1>7. q \in [1..k -> Commands]
  BY <1>3, <1>4, <1>5, <1>6
<1> HIDE DEF q
<1>8. q \in Seq(Commands) /\ DOMAIN q = 1..k
  BY <1>4, <1>7, SeqDef
<1>9. ASSUME NEW i \in DOMAIN q
      PROVE  \E f \in S : faceMap[f] # 0 /\ q[i] = Withdrawal(n, f)
  <2>1. w[i] \in S /\ faceMap[w[i]] # 0
    BY <1>1, <1>4, <1>8, <1>9
  <2> QED
    BY <2>1, <1>6, <1>8, <1>9
<1>10. ASSUME NEW f \in S, faceMap[f] # 0
       PROVE  \E i \in DOMAIN q : q[i] = Withdrawal(n, f)
  <2>1. PICK i \in 1..k : w[i] = f
    BY <1>1, <1>4, <1>10
  <2> QED
    BY <2>1, <1>6, <1>8
<1> QED
  BY <1>8, <1>9, <1>10 DEF q

\* The same for the hops of every entry, when the router stops.
LEMMA AllWithdrawn ==
  ASSUME TypeOK
  PROVE  LET q == ForEach(AllHops, LAMBDA r : UnregisterPrefix(r[1], r[2]))
         IN  /\ q \in Seq(Commands)
             /\ \A i \in DOMAIN q : \E r \in AllHops : faceMap[r[2]] # 0 /\ q[i] = Withdrawal(r[1], r[2])
             /\ \A r \in AllHops : faceMap[r[2]] # 0 => \E i \in DOMAIN q : q[i] = Withdrawal(r[1], r[2])
<1> DEFINE Sent == {r \in AllHops : UnregisterPrefix(r[1], r[2]) # <<>>}
           q == ForEach(AllHops, LAMBDA r : UnregisterPrefix(r[1], r[2]))
           w == SetToSeq(Sent)
           k == Cardinality(Sent)
<1>1. Sent = {r \in AllHops : faceMap[r[2]] # 0}
  BY DEF UnregisterPrefix, GetFaceId, Withdrawal
<1>2. IsFiniteSet(Sent)
  <2>1. IsFiniteSet(Names \X Faces)
    BY NameAssumption, FS_Product
  <2> QED
    BY <1>1, <2>1, FS_Subset DEF AllHops
<1>3. \A r \in Sent : Withdrawal(r[1], r[2]) \in Commands
  BY <1>1 DEF TypeOK, Commands, Withdrawal, AllHops
<1>4. k \in Nat /\ w \in [1..k -> Sent] /\ \A r \in Sent : \E i \in 1..k : w[i] = r
  BY <1>2, AllInSequence
<1>5. q = [i \in 1..k |-> UnregisterPrefix(w[i][1], w[i][2])[1]]
  BY DEF ForEach
<1> HIDE DEF Sent, w, k
<1>6. \A i \in 1..k : q[i] = Withdrawal(w[i][1], w[i][2])
  BY <1>1, <1>4, <1>5 DEF UnregisterPrefix, GetFaceId, Withdrawal
<1>7. q \in [1..k -> Commands]
  <2>1. ASSUME NEW i \in 1..k
        PROVE  q[i] \in Commands
    <3>1. w[i] \in Sent
      BY <1>4
    <3> QED
      BY <1>3, <1>6, <3>1
  <2> QED
    BY <1>5, <2>1
<1> HIDE DEF q
<1>8. q \in Seq(Commands) /\ DOMAIN q = 1..k
  BY <1>4, <1>7, SeqDef
<1>9. ASSUME NEW i \in DOMAIN q
      PROVE  \E r \in AllHops : faceMap[r[2]] # 0 /\ q[i] = Withdrawal(r[1], r[2])
  <2>1. w[i] \in AllHops /\ faceMap[w[i][2]] # 0
    BY <1>1, <1>4, <1>8, <1>9
  <2> QED
    BY <2>1, <1>6, <1>8, <1>9
<1>10. ASSUME NEW r \in AllHops, faceMap[r[2]] # 0
       PROVE  \E i \in DOMAIN q : q[i] = Withdrawal(r[1], r[2])
  <2>1. PICK i \in 1..k : w[i] = r
    BY <1>1, <1>4, <1>10
  <2> QED
    BY <2>1, <1>6, <1>8
<1> QED
  BY <1>8, <1>9, <1>10 DEF q

-----------------------------------------------------------------------------
(* Types.                                                                  *)

\* A registration is tried again only as often as the code allows.
LEMMA RetryType ==
  ASSUME TypeOK, NEW c \in Commands, c.op = "register", c.times < Retries
  PROVE  /\ RegisterPrefix(c.name, c.face, c.cost, c.times + 1) \in Seq(Commands)
         /\ \A i \in DOMAIN RegisterPrefix(c.name, c.face, c.cost, c.times + 1) :
              LET d == RegisterPrefix(c.name, c.face, c.cost, c.times + 1)[i]
              IN  d.name = c.name /\ d.face = c.face
<1>1. /\ c.name \in Names /\ c.face \in Faces /\ c.cost \in Nat
      /\ c.times + 1 \in 0..Retries
  BY BoundAssumption DEF Commands
<1>2. adjFace[c.face] \in Nat
  BY <1>1 DEF TypeOK
<1>3. adjFace[c.face] # 0 => Register(c.name, c.face, c.cost, c.times + 1) \in Commands
  BY <1>1, <1>2 DEF Register, Commands
<1> QED
  BY <1>1, <1>3 DEF RegisterPrefix, Register

\* An update of an entry keeps the types.
LEMMA UpdateType ==
  ASSUME TypeOK, NEW n \in Names, NEW h, DOMAIN h \subseteq Faces, h \in [DOMAIN h -> Nat],
         Update(n, h)
  PROVE  TypeOK'
<1> DEFINE Old == DOMAIN table[n] \ DOMAIN h
<1>1. Old \in SUBSET Faces
  BY DEF TypeOK
<1>2. AddNextHopsToNfd(n, h) \in Seq(Commands) /\ RemoveHopsFromNfd(n, Old) \in Seq(Commands)
  BY <1>1, HopsRegistered, HopsWithdrawn
<1>3. commands' \in Seq(Commands)
  BY <1>2, ConcatProperties DEF Update, TypeOK
<1>4. blemished' \subseteq Names \X Faces
  BY <1>1 DEF Update, Amiss, TypeOK
<1>5. /\ DOMAIN table' = Names
      /\ \A m \in Names : table'[m] \in [DOMAIN table'[m] -> Nat] /\ DOMAIN table'[m] \subseteq Faces
  BY DEF Update, TypeOK
<1> QED
  BY <1>3, <1>4, <1>5 DEF Update, TypeOK, nfdVars

\* The withdrawal of entries keeps the types.
LEMMA CleanType ==
  ASSUME TypeOK, Clean
  PROVE  TypeOK'
<1>1. commands' \in Seq(Commands)
  BY AllWithdrawn, ConcatProperties DEF Clean, TypeOK, AllHops
<1>2. blemished' \subseteq Names \X Faces
  BY DEF Clean, Amiss, TypeOK
<1>3. /\ DOMAIN table' = Names
      /\ \A m \in Names : table'[m] \in [DOMAIN table'[m] -> Nat] /\ DOMAIN table'[m] \subseteq Faces
  BY DEF Clean, NoHops
<1> QED
  BY <1>1, <1>2, <1>3 DEF Clean, TypeOK, nfdVars

\* Whatever becomes of a command, it is answered.
LEMMA AnsweredType ==
  ASSUME TypeOK, commands # <<>>, NEW ok \in BOOLEAN, Answered(Head(commands), ok)
  PROVE  /\ Head(commands) \in Commands
         /\ commands' \in Seq(Commands)
         /\ answers' \in Seq([command : Commands, ok : BOOLEAN])
<1>1. Head(commands) \in Commands /\ Tail(commands) \in Seq(Commands)
  BY HeadTailProperties DEF TypeOK
<1> QED
  BY <1>1, AppendProperties DEF Answered, TypeOK

\* A command that NFD carries out keeps the types.
LEMMA CarryOutType ==
  ASSUME TypeOK, NEW c \in Commands, CarryOut(c)
  PROVE  DOMAIN rib' \subseteq Names \X Faces /\ fresh' \subseteq DOMAIN rib'
<1>1. c.name \in Names /\ c.face \in Faces
  BY DEF Commands
<1> QED
  BY <1>1 DEF CarryOut, WithRoute, WithoutRoutes, TypeOK

\* The first command of the queue keeps the types, served or lost.
LEMMA ServedType ==
  ASSUME TypeOK, NfdServes \/ NfdFails
  PROVE  TypeOK'
<1>1. CASE NfdServes
  BY <1>1, AnsweredType, CarryOutType DEF NfdServes, Answered, TypeOK, nfdVars
<1>2. CASE NfdFails
  <2>1. commands # <<>> /\ Answered(Head(commands), FALSE)
    BY <1>2 DEF NfdFails
  <2>2. /\ Head(commands) \in Commands
        /\ commands' \in Seq(Commands)
        /\ answers' \in Seq([command : Commands, ok : BOOLEAN])
    BY <2>1, AnsweredType
  <2>3. DOMAIN rib' \subseteq Names \X Faces /\ fresh' \subseteq DOMAIN rib'
    BY <1>2, <2>2, CarryOutType DEF NfdFails, TypeOK
  <2>4. blemished' \subseteq Names \X Faces
    BY <1>2, <2>2 DEF NfdFails, Commands, TypeOK
  <2> QED
    BY <2>1, <2>2, <2>3, <2>4 DEF Answered, TypeOK, nfdVars
<1> QED
  BY <1>1, <1>2

\* An answer keeps the types.
LEMMA OnAnswerType ==
  ASSUME TypeOK, OnAnswer
  PROVE  TypeOK'
<1> DEFINE a == Head(answers)
<1>1. /\ a \in [command : Commands, ok : BOOLEAN]
      /\ answers' \in Seq([command : Commands, ok : BOOLEAN])
  BY HeadTailProperties DEF OnAnswer, TypeOK
<1>2. a.command \in Commands /\ a.command.face \in Faces /\ a.command.id \in Nat
  BY <1>1 DEF Commands
<1> HIDE DEF a
<1>3. faceMap' \in [Faces -> Nat]
  BY <1>2 DEF OnAnswer, UpdateFaceMap, TypeOK, a
<1>4. commands' \in Seq(Commands)
  <2>1. CASE a.command.op = "register" /\ ~a.ok /\ a.command.times < Retries
    <3> DEFINE q == RegisterPrefix(a.command.name, a.command.face, a.command.cost, a.command.times + 1)
    <3>1. q \in Seq(Commands)
      BY <1>2, <2>1, RetryType
    <3>2. commands' = commands \o q
      BY <2>1 DEF OnAnswer, OnRegistrationFailure, a
    <3> QED
      BY <3>1, <3>2, ConcatProperties DEF TypeOK
  <2>2. CASE ~(a.command.op = "register" /\ ~a.ok /\ a.command.times < Retries)
    BY <2>2 DEF OnAnswer, OnRegistrationFailure, TypeOK, a
  <2> QED
    BY <2>1, <2>2
<1> QED
  BY <1>1, <1>3, <1>4 DEF OnAnswer, TypeOK, nfdVars

\* A face that goes or comes keeps the types.
LEMMA FaceType ==
  ASSUME TypeOK, NEW f \in Faces, FaceCreated(f) \/ FaceDestroyed(f) \/ AdjacencyLearns(f)
  PROVE  TypeOK'
<1>1. CASE FaceCreated(f)
  BY <1>1 DEF FaceCreated, TypeOK
<1>2. CASE FaceDestroyed(f)
  BY <1>2 DEF FaceDestroyed, WithoutRoutes, TypeOK
<1>3. CASE AdjacencyLearns(f)
  BY <1>3 DEF AdjacencyLearns, TypeOK, nfdVars
<1> QED
  BY <1>1, <1>2, <1>3

\* Every step keeps the types.
LEMMA TypeInv == TypeOK /\ [Next]_vars => TypeOK'
<1> SUFFICES ASSUME TypeOK, [Next]_vars
             PROVE  TypeOK'
  OBVIOUS
<1>1. ASSUME NEW n \in Names, NEW h \in HopChoices, Update(n, h)
      PROVE  TypeOK'
  BY <1>1, HopAssumption, UpdateType
<1>2. CASE Clean
  BY <1>2, CleanType
<1>3. CASE NfdServes \/ NfdFails
  BY <1>3, ServedType
<1>4. CASE OnAnswer
  BY <1>4, OnAnswerType
<1>5. ASSUME NEW r \in DOMAIN rib, RouteExpires(r)
      PROVE  TypeOK'
  BY <1>5 DEF RouteExpires, WithoutRoutes, TypeOK, nfdVars
<1>6. ASSUME NEW f \in Faces, FaceCreated(f) \/ FaceDestroyed(f) \/ AdjacencyLearns(f)
      PROVE  TypeOK'
  BY <1>6, FaceType
<1>7. CASE UNCHANGED vars
  BY <1>7 DEF vars, nfdVars, TypeOK
<1> QED
  BY <1>1, <1>2, <1>3, <1>4, <1>5, <1>6, <1>7 DEF Next

-----------------------------------------------------------------------------
(* The queue.                                                              *)

\* Commands of two sequences one after the other.
LEMMA ConcatElements ==
  ASSUME NEW s \in Seq(Commands), NEW q \in Seq(Commands)
  PROVE  /\ s \o q \in Seq(Commands)
         /\ Len(s) \in Nat /\ DOMAIN s = 1..Len(s)
         /\ \A i \in DOMAIN s : i \in DOMAIN (s \o q) /\ (s \o q)[i] = s[i]
         /\ \A i \in DOMAIN q : i + Len(s) \in DOMAIN (s \o q) /\ (s \o q)[i + Len(s)] = q[i]
         /\ \A i \in DOMAIN (s \o q) :
              \/ i \in DOMAIN s /\ (s \o q)[i] = s[i]
              \/ \E j \in DOMAIN q : i = j + Len(s) /\ (s \o q)[i] = q[j]
<1> DEFINE t == s \o q
<1>1. /\ Len(s) \in Nat /\ Len(q) \in Nat
      /\ DOMAIN s = 1..Len(s) /\ DOMAIN q = 1..Len(q)
      /\ t \in Seq(Commands) /\ Len(t) = Len(s) + Len(q) /\ DOMAIN t = 1..Len(t)
      /\ \A i \in 1..Len(t) : t[i] = IF i <= Len(s) THEN s[i] ELSE q[i - Len(s)]
  BY ConcatProperties, LenProperties
<1> HIDE DEF t
<1>2. \A i \in DOMAIN s : i \in DOMAIN t /\ t[i] = s[i]
  BY <1>1
<1>3. \A i \in DOMAIN q : i + Len(s) \in DOMAIN t /\ t[i + Len(s)] = q[i]
  BY <1>1
<1>4. \A i \in DOMAIN t : \/ i \in DOMAIN s /\ t[i] = s[i]
                        \/ \E j \in DOMAIN q : i = j + Len(s) /\ t[i] = q[j]
  <2> SUFFICES ASSUME NEW i \in DOMAIN t, i \notin DOMAIN s
               PROVE  \E j \in DOMAIN q : i = j + Len(s) /\ t[i] = q[j]
    BY <1>2
  <2>1. i - Len(s) \in DOMAIN q /\ i = (i - Len(s)) + Len(s) /\ t[i] = q[i - Len(s)]
    BY <1>1
  <2> QED
    BY <2>1
<1> QED
  BY <1>1, <1>2, <1>3, <1>4 DEF t

\* None concerns the pair when none of either part does.
LEMMA ConcatSilent ==
  ASSUME NEW s \in Seq(Commands), NEW q \in Seq(Commands), NEW r
  PROVE  Silent(s \o q, r) <=> Silent(s, r) /\ Silent(q, r)
<1> DEFINE t == s \o q
<1>1. \A i \in DOMAIN s : i \in DOMAIN t /\ t[i] = s[i]
  BY ConcatElements
<1>2. \A i \in DOMAIN q : i + Len(s) \in DOMAIN t /\ t[i + Len(s)] = q[i]
  BY ConcatElements
<1>3. \A i \in DOMAIN t : \/ i \in DOMAIN s /\ t[i] = s[i]
                        \/ \E j \in DOMAIN q : i = j + Len(s) /\ t[i] = q[j]
  BY ConcatElements, Zenon
<1> HIDE DEF t
<1>4. Silent(t, r) <=> Silent(s, r) /\ Silent(q, r)
  BY <1>1, <1>2, <1>3 DEF Silent
<1> QED
  BY <1>4 DEF t

\* The last one is in the second part, or is the last one of the first.
LEMMA ConcatLast ==
  ASSUME NEW s \in Seq(Commands), NEW q \in Seq(Commands), NEW r,
         NEW i \in DOMAIN (s \o q), IsLast(s \o q, i, r)
  PROVE  \/ Silent(q, r) /\ \E j \in DOMAIN s : IsLast(s, j, r) /\ (s \o q)[i] = s[j]
         \/ \E j \in DOMAIN q : Concerns(q[j], r) /\ (s \o q)[i] = q[j]
<1> DEFINE t == s \o q
<1>1. Len(s) \in Nat /\ DOMAIN s = 1..Len(s) /\ DOMAIN q = 1..Len(q)
  BY ConcatElements, LenProperties
<1>2. \A j \in DOMAIN s : j \in DOMAIN t /\ t[j] = s[j]
  BY ConcatElements
<1>3. \A j \in DOMAIN q : j + Len(s) \in DOMAIN t /\ t[j + Len(s)] = q[j]
  BY ConcatElements
<1>4. \/ i \in DOMAIN s /\ t[i] = s[i]
      \/ \E j \in DOMAIN q : i = j + Len(s) /\ t[i] = q[j]
  BY ConcatElements, Zenon
<1>5. Concerns(t[i], r) /\ \A j \in DOMAIN t : j > i => ~Concerns(t[j], r)
  BY DEF IsLast
<1> HIDE DEF t
<1>6. ASSUME ~\E j \in DOMAIN q : Concerns(q[j], r) /\ t[i] = q[j]
      PROVE  Silent(q, r) /\ \E j \in DOMAIN s : IsLast(s, j, r) /\ t[i] = s[j]
  <2>1. i \in DOMAIN s /\ t[i] = s[i]
    BY <1>4, <1>5, <1>6
  <2>2. Silent(q, r)
    <3> SUFFICES ASSUME NEW j \in DOMAIN q
                 PROVE  ~Concerns(q[j], r)
      BY DEF Silent
    <3>1. j + Len(s) > i
      BY <1>1, <2>1
    <3> QED
      BY <1>3, <1>5, <3>1
  <2>3. IsLast(s, i, r)
    BY <1>2, <1>5, <2>1 DEF IsLast
  <2> QED
    BY <2>1, <2>2, <2>3
<1> QED
  BY <1>6 DEF t

\* Commands are sent that agree with the entry as it is then; or none of the
\* pair, and its entry stays as it is.
LEMMA Sending ==
  ASSUME TypeOK, NEW r, PairAgrees(r), NEW q \in Seq(Commands),
         commands' = commands \o q, nfdFace'[r[2]] = nfdFace[r[2]],
         \A j \in DOMAIN q : Concerns(q[j], r) =>
           q[j].id = nfdFace[r[2]] /\ Brings(q[j], r, table'),
         Silent(q, r) => /\ \A c \in Commands : Brings(c, r, table) => Brings(c, r, table')
                         /\ RibAgrees(r) => RibAgrees(r)'
  PROVE  PairAgrees(r)'
<1>1. commands \in Seq(Commands) /\ commands' \in Seq(Commands)
  BY ConcatProperties DEF TypeOK
<1>2. \A i \in DOMAIN commands : commands[i] \in Commands
  BY <1>1, ElementOfSeq, LenProperties
<1>3. CommandsReachFace(r)'
  <2> SUFFICES ASSUME NEW i \in DOMAIN commands', Concerns(commands'[i], r)
               PROVE  commands'[i].id = nfdFace[r[2]]
    BY DEF CommandsReachFace, Concerns
  <2>1. \/ i \in DOMAIN commands /\ commands'[i] = commands[i]
        \/ \E j \in DOMAIN q : commands'[i] = q[j]
    <3> DEFINE t == commands \o q
    <3>1. i \in DOMAIN t /\ commands'[i] = t[i]
      OBVIOUS
    <3>2. \A k \in DOMAIN t : \/ k \in DOMAIN commands /\ t[k] = commands[k]
                             \/ \E j \in DOMAIN q : k = j + Len(commands) /\ t[k] = q[j]
      BY <1>1, ConcatElements, Zenon
    <3> HIDE DEF t
    <3> QED
      BY <3>1, <3>2
  <2> QED
    BY <2>1 DEF PairAgrees, CommandsReachFace
<1>4. LastCommandCounts(r)'
  <2> SUFFICES ASSUME NEW i \in DOMAIN commands', IsLast(commands', i, r)
               PROVE  Brings(commands'[i], r, table')
    BY DEF LastCommandCounts, IsLast, Brings, Concerns
  <2>1. \/ /\ Silent(q, r)
           /\ \E j \in DOMAIN commands : IsLast(commands, j, r) /\ commands'[i] = commands[j]
        \/ \E j \in DOMAIN q : Concerns(q[j], r) /\ commands'[i] = q[j]
    <3> DEFINE t == commands \o q
    <3>1. i \in DOMAIN t /\ commands'[i] = t[i] /\ IsLast(t, i, r)
      OBVIOUS
    <3> QED
      BY <1>1, <3>1, ConcatLast
  <2> QED
    BY <1>2, <2>1 DEF PairAgrees, LastCommandCounts
<1>5. SettledAgrees(r)'
  <2> SUFFICES ASSUME Silent(commands', r)
               PROVE  RibAgrees(r)'
    BY DEF SettledAgrees, Silent, Concerns
  <2>1. Silent(commands, r) /\ Silent(q, r)
    BY <1>1, ConcatSilent
  <2> QED
    BY <2>1 DEF PairAgrees, SettledAgrees
<1> QED
  BY <1>3, <1>4, <1>5 DEF PairAgrees

\* NFD takes the first command and carries it out if it concerns the pair.
LEMMA Taking ==
  ASSUME TypeOK, NEW r, PairAgrees(r), commands # <<>>, commands' = Tail(commands),
         UNCHANGED <<table, nfdFace>>,
         ~Concerns(Head(commands), r) => (RibAgrees(r) => RibAgrees(r)'),
         Concerns(Head(commands), r) /\ Brings(Head(commands), r, table) => RibAgrees(r)'
  PROVE  PairAgrees(r)'
<1>1. /\ commands \in Seq(Commands) /\ Len(commands) \in Nat /\ Len(commands) # 0
      /\ DOMAIN commands = 1..Len(commands) /\ Head(commands) = commands[1]
      /\ commands' \in Seq(Commands) /\ Len(commands') = Len(commands) - 1
      /\ DOMAIN commands' = 1..Len(commands')
      /\ \A i \in 1..Len(commands') : commands'[i] = commands[i + 1]
  BY HeadTailProperties, LenProperties, EmptySeq DEF TypeOK
<1>2. /\ \A i \in DOMAIN commands' : i + 1 \in DOMAIN commands /\ commands'[i] = commands[i + 1]
      /\ \A i \in DOMAIN commands : i # 1 => i - 1 \in DOMAIN commands' /\ commands'[i - 1] = commands[i]
      /\ 1 \in DOMAIN commands
  <2>1. ASSUME NEW i \in DOMAIN commands, i # 1
        PROVE  i - 1 \in DOMAIN commands' /\ commands'[i - 1] = commands[i]
    <3>1. i - 1 \in 1..Len(commands') /\ (i - 1) + 1 = i
      BY <1>1, <2>1
    <3> QED
      BY <1>1, <3>1
  <2>2. \A i \in DOMAIN commands' : i + 1 \in DOMAIN commands /\ commands'[i] = commands[i + 1]
    BY <1>1
  <2>3. 1 \in DOMAIN commands
    BY <1>1
  <2> QED
    BY <2>1, <2>2, <2>3
<1>3. CommandsReachFace(r)'
  BY <1>2 DEF PairAgrees, CommandsReachFace, Concerns
<1>4. LastCommandCounts(r)'
  <2> SUFFICES ASSUME NEW i \in DOMAIN commands', IsLast(commands', i, r)
               PROVE  Brings(commands'[i], r, table)
    BY DEF LastCommandCounts, IsLast, Brings, Concerns
  <2>1. IsLast(commands, i + 1, r)
    <3>1. Concerns(commands[i + 1], r)
      BY <1>2 DEF IsLast
    <3>2. ASSUME NEW j \in DOMAIN commands, j > i + 1
          PROVE  ~Concerns(commands[j], r)
      <4>1. j - 1 \in DOMAIN commands' /\ commands'[j - 1] = commands[j] /\ j - 1 > i
        BY <1>1, <1>2, <3>2
      <4> QED
        BY <4>1 DEF IsLast
    <3> QED
      BY <3>1, <3>2 DEF IsLast
  <2> QED
    BY <1>2, <2>1 DEF PairAgrees, LastCommandCounts
<1>5. SettledAgrees(r)'
  <2> SUFFICES ASSUME Silent(commands', r)
               PROVE  RibAgrees(r)'
    BY DEF SettledAgrees, Silent, Concerns
  <2>1. \A i \in DOMAIN commands : Concerns(commands[i], r) => i = 1
    BY <1>2 DEF Silent
  <2>2. CASE Concerns(Head(commands), r)
    <3>1. IsLast(commands, 1, r)
      BY <1>1, <2>1, <2>2 DEF IsLast
    <3> QED
      BY <1>1, <1>2, <2>2, <3>1 DEF PairAgrees, LastCommandCounts, CommandsReachFace
  <2>3. CASE ~Concerns(Head(commands), r)
    <3>1. Silent(commands, r)
      BY <1>1, <2>1, <2>3 DEF Silent
    <3> QED
      BY <2>3, <3>1 DEF PairAgrees, SettledAgrees
  <2> QED
    BY <2>2, <2>3
<1> QED
  BY <1>3, <1>4, <1>5 DEF PairAgrees

-----------------------------------------------------------------------------
(* The invariant is kept by every action.                                  *)

\* At first there are no commands and no routes.
LEMMA InitInv == Init => IInv
<1> SUFFICES ASSUME Init
             PROVE  IInv
  OBVIOUS
<1>1. TypeOK
  BY DEF Init, TypeOK, NoHops
<1>2. FailuresBlemish
  BY DEF Init, FailuresBlemish
<1>3. ASSUME NEW r \in Pairs
      PROVE  PairAgrees(r)
  BY NameAssumption
     DEF Init, Pairs, PairAgrees, CommandsReachFace, LastCommandCounts, SettledAgrees, RibAgrees, NoHops
<1> QED
  BY <1>1, <1>2, <1>3 DEF IInv

\* Which pair a command concerns its name and face say.
LEMMA ConcernsFields ==
  ASSUME NEW r \in Pairs, NEW c
  PROVE  Concerns(c, r) <=> c.name = r[1] /\ c.face = r[2]
  BY DEF Concerns, Pairs

\* What is not amiss is sent under the number NFD has.
LEMMA UpdateInv ==
  ASSUME IInv, NEW n \in Names, NEW h \in HopChoices, Update(n, h)
  PROVE  IInv'
<1> DEFINE Old == DOMAIN table[n] \ DOMAIN h
           A == AddNextHopsToNfd(n, h)
           W == RemoveHopsFromNfd(n, Old)
           q == A \o W
<1>1. TypeOK /\ TypeOK' /\ DOMAIN h \subseteq Faces /\ h \in [DOMAIN h -> Nat] /\ Old \in SUBSET Faces
  BY HopAssumption, TypeInv DEF IInv, Next, TypeOK
<1>2. /\ A \in Seq(Commands)
      /\ \A i \in DOMAIN A : \E f \in DOMAIN h : adjFace[f] # 0 /\ A[i] = Register(n, f, h[f], 0)
      /\ \A f \in DOMAIN h : adjFace[f] # 0 => \E i \in DOMAIN A : A[i] = Register(n, f, h[f], 0)
  BY <1>1, HopsRegistered
<1>3. /\ W \in Seq(Commands)
      /\ \A i \in DOMAIN W : \E f \in Old : faceMap[f] # 0 /\ W[i] = Withdrawal(n, f)
      /\ \A f \in Old : faceMap[f] # 0 => \E i \in DOMAIN W : W[i] = Withdrawal(n, f)
  BY <1>1, HopsWithdrawn
<1>4. /\ table' = [table EXCEPT ![n] = h] /\ DOMAIN table = Names
      /\ UNCHANGED <<nfdFace, rib, answers>> /\ fresh' = {r \in fresh : r[1] # n}
      /\ blemished' = blemished \union Amiss(n, Old, faceMap) \union Amiss(n, DOMAIN h, adjFace)
      /\ commands' = IF n \notin Neighbors THEN (commands \o A) \o W ELSE commands
  BY <1>1 DEF Update, nfdVars, IsPrefixUpdatable, TypeOK
<1> HIDE DEF A, W
<1>5. /\ \A i \in DOMAIN A : /\ A[i].op = "register" /\ A[i].name = n /\ A[i].face \in DOMAIN h
                             /\ A[i].cost = h[A[i].face] /\ A[i].id = adjFace[A[i].face]
      /\ \A f \in DOMAIN h : adjFace[f] # 0 => \E i \in DOMAIN A : A[i].name = n /\ A[i].face = f
  BY <1>2 DEF Register
<1>6. /\ \A i \in DOMAIN W : /\ W[i].op = "unregister" /\ W[i].name = n /\ W[i].face \in Old
                             /\ W[i].id = faceMap[W[i].face]
      /\ \A f \in Old : faceMap[f] # 0 => \E i \in DOMAIN W : W[i].name = n /\ W[i].face = f
  BY <1>3 DEF Withdrawal
<1>7. /\ q \in Seq(Commands)
      /\ \A j \in DOMAIN q : \/ \E i \in DOMAIN A : q[j] = A[i]
                            \/ \E i \in DOMAIN W : q[j] = W[i]
      /\ \A r : Silent(q, r) <=> Silent(A, r) /\ Silent(W, r)
  <2>1. q \in Seq(Commands)
    BY <1>2, <1>3, ConcatProperties
  <2>2. \A j \in DOMAIN q : \/ j \in DOMAIN A /\ q[j] = A[j]
                          \/ \E i \in DOMAIN W : j = i + Len(A) /\ q[j] = W[i]
    <3>1. A \in Seq(Commands) /\ W \in Seq(Commands)
      BY <1>2, <1>3
    <3> QED
      BY <3>1, ConcatElements, Zenon
  <2>3. \A r : Silent(q, r) <=> Silent(A, r) /\ Silent(W, r)
    BY <1>2, <1>3, ConcatSilent
  <2>4. \A j \in DOMAIN q : \/ \E i \in DOMAIN A : q[j] = A[i]
                         \/ \E i \in DOMAIN W : q[j] = W[i]
    <3> HIDE DEF q
    <3> QED
      BY <2>2, Zenon
  <2> HIDE DEF q
  <2> QED
    BY <2>1, <2>3, <2>4, Zenon
<1>8. (commands \o A) \o W = commands \o q
  <2>1. commands \in Seq(Commands) /\ A \in Seq(Commands) /\ W \in Seq(Commands)
    BY <1>1, <1>2, <1>3 DEF TypeOK
  <2> QED
    BY <2>1, ConcatAssociative
<1> HIDE DEF q, Old
<1>9. FailuresBlemish'
  BY <1>4 DEF IInv, FailuresBlemish
<1>10. ASSUME NEW r \in Pairs \ blemished'
       PROVE  PairAgrees(r)'
  <2>1. PairAgrees(r) /\ r = <<r[1], r[2]>> /\ r[1] \in Names \ Neighbors /\ r[2] \in Faces
    BY <1>4, <1>10 DEF IInv, Pairs
  <2>2. CASE n \in Neighbors
    <3>1. r[1] # n /\ table'[r[1]] = table[r[1]] /\ (r \in fresh' <=> r \in fresh)
      BY <1>4, <2>1, <2>2
    <3> QED
      BY <1>4, <2>1, <2>2, <3>1
         DEF PairAgrees, CommandsReachFace, LastCommandCounts, SettledAgrees, RibAgrees, Silent, IsLast,
             Concerns, Brings
  <2>3. CASE n \notin Neighbors
    <3>1. /\ r[1] = n /\ r[2] \in DOMAIN h => adjFace[r[2]] # 0 /\ adjFace[r[2]] = nfdFace[r[2]]
          /\ r[1] = n /\ r[2] \in Old => faceMap[r[2]] # 0 /\ faceMap[r[2]] = nfdFace[r[2]]
      BY <1>4, <1>10, <2>1 DEF Amiss
    <3>2. \A i \in DOMAIN A : Concerns(A[i], r) =>
            r[1] = n /\ A[i].id = nfdFace[r[2]] /\ Brings(A[i], r, table')
      BY <1>4, <1>5, <1>10, <3>1, ConcernsFields DEF Brings
    <3>3. \A i \in DOMAIN W : Concerns(W[i], r) =>
            r[1] = n /\ W[i].id = nfdFace[r[2]] /\ Brings(W[i], r, table')
      BY <1>4, <1>6, <1>10, <3>1, ConcernsFields DEF Brings, Old
    <3>4. \A j \in DOMAIN q : Concerns(q[j], r) =>
            q[j].id = nfdFace[r[2]] /\ Brings(q[j], r, table')
      BY <1>7, <3>2, <3>3
    <3>5. ASSUME Silent(q, r)
          PROVE  /\ r[2] \in DOMAIN table'[r[1]] <=> r[2] \in DOMAIN table[r[1]]
                 /\ r[2] \in DOMAIN table[r[1]] => /\ r[1] # n
                                                 /\ table'[r[1]] = table[r[1]]
      <4>1. Silent(A, r) /\ Silent(W, r)
        BY <1>7, <3>5
      <4>2. r[1] = n => r[2] \notin DOMAIN h
        BY <1>5, <1>10, <3>1, <4>1, ConcernsFields DEF Silent
      <4>3. r[1] = n => r[2] \notin Old
        BY <1>6, <1>10, <3>1, <4>1, ConcernsFields DEF Silent
      <4> QED
        BY <1>4, <2>1, <4>2, <4>3 DEF Old
    <3>6. Silent(q, r) => /\ \A c \in Commands : Brings(c, r, table) => Brings(c, r, table')
                          /\ RibAgrees(r) => RibAgrees(r)'
      BY <1>4, <2>1, <3>5 DEF Brings, RibAgrees
    <3> QED
      BY <1>1, <1>4, <1>7, <1>8, <2>1, <2>3, <3>4, <3>6, Sending
  <2> QED
    BY <2>2, <2>3
<1> QED
  BY <1>1, <1>9, <1>10 DEF IInv

\* The withdrawal of all entries is a command for every hop with a number.
LEMMA CleanInv ==
  ASSUME IInv, Clean
  PROVE  IInv'
<1> DEFINE q == ForEach(AllHops, LAMBDA r : UnregisterPrefix(r[1], r[2]))
<1>1. TypeOK /\ TypeOK'
  BY CleanType DEF IInv
<1>2. /\ q \in Seq(Commands)
      /\ \A i \in DOMAIN q : \E r \in AllHops : faceMap[r[2]] # 0 /\ q[i] = Withdrawal(r[1], r[2])
      /\ \A r \in AllHops : faceMap[r[2]] # 0 => \E i \in DOMAIN q : q[i] = Withdrawal(r[1], r[2])
  BY <1>1, AllWithdrawn
<1>3. /\ table' = [n \in Names |-> NoHops]
      /\ UNCHANGED <<nfdFace, rib, answers>> /\ fresh' = {}
      /\ blemished' = blemished \union UNION {Amiss(n, DOMAIN table[n], faceMap) : n \in Names}
      /\ commands' = commands \o q
  BY DEF Clean, nfdVars, AllHops
<1> HIDE DEF q
<1>4. \A i \in DOMAIN q : /\ q[i].op = "unregister" /\ <<q[i].name, q[i].face>> \in AllHops
                          /\ q[i].id = faceMap[q[i].face]
  BY <1>2 DEF Withdrawal, AllHops
<1>5. \A r \in AllHops : faceMap[r[2]] # 0 => \E i \in DOMAIN q : q[i].name = r[1] /\ q[i].face = r[2]
  BY <1>2 DEF Withdrawal
<1>6. FailuresBlemish'
  BY <1>3 DEF IInv, FailuresBlemish
<1>7. ASSUME NEW r \in Pairs \ blemished'
      PROVE  PairAgrees(r)'
  <2>1. PairAgrees(r) /\ r = <<r[1], r[2]>> /\ r[1] \in Names /\ r[2] \in Faces
    BY <1>3, <1>7 DEF IInv, Pairs
  <2>2. r[2] \in DOMAIN table[r[1]] => faceMap[r[2]] # 0 /\ faceMap[r[2]] = nfdFace[r[2]]
    <3> SUFFICES ASSUME r[2] \in DOMAIN table[r[1]], ~(faceMap[r[2]] # 0 /\ faceMap[r[2]] = nfdFace[r[2]])
                 PROVE  r \in blemished'
      BY <1>7
    <3>1. r \in Amiss(r[1], DOMAIN table[r[1]], faceMap)
      BY <2>1 DEF Amiss
    <3> QED
      BY <1>3, <2>1, <3>1
  <2>3. r \in AllHops <=> r[2] \in DOMAIN table[r[1]]
    BY <2>1 DEF AllHops
  <2>4. table'[r[1]] = NoHops /\ DOMAIN NoHops = {}
    BY <1>3, <2>1 DEF NoHops
  <2>5. ASSUME NEW j \in DOMAIN q, Concerns(q[j], r)
        PROVE  q[j].id = nfdFace[r[2]] /\ Brings(q[j], r, table')
    <3>1. <<q[j].name, q[j].face>> = r /\ q[j].face = r[2]
      BY <1>7, <2>5, ConcernsFields DEF Concerns
    <3> QED
      BY <1>4, <2>2, <2>3, <2>4, <3>1 DEF Brings
  <2>6. Silent(q, r) => r[2] \notin DOMAIN table[r[1]]
    BY <1>5, <1>7, <2>2, <2>3, ConcernsFields DEF Silent
  <2>7. Silent(q, r) => /\ \A c \in Commands : Brings(c, r, table) => Brings(c, r, table')
                        /\ RibAgrees(r) => RibAgrees(r)'
    BY <1>3, <2>4, <2>6 DEF Brings, RibAgrees
  <2> QED
    BY <1>1, <1>2, <1>3, <2>1, <2>5, <2>7, Sending
<1> QED
  BY <1>1, <1>6, <1>7 DEF IInv

\* A command that concerns the pair leaves the RIB as it brings, another one
\* does not touch its route.
LEMMA CarryOutRib ==
  ASSUME TypeOK, NEW c \in Commands, CarryOut(c), UNCHANGED table, NEW r \in Pairs
  PROVE  /\ ~Concerns(c, r) => (RibAgrees(r) => RibAgrees(r)')
         /\ Concerns(c, r) /\ Brings(c, r, table) => RibAgrees(r)'
<1>1. ASSUME ~Concerns(c, r), RibAgrees(r)
      PROVE  RibAgrees(r)'
  BY <1>1 DEF CarryOut, WithRoute, WithoutRoutes, Concerns, RibAgrees, TypeOK
<1>2. ASSUME Concerns(c, r), Brings(c, r, table)
      PROVE  RibAgrees(r)'
  <2>1. r = <<c.name, c.face>> /\ c.name = r[1] /\ c.face = r[2]
    BY <1>2, ConcernsFields DEF Concerns
  <2>2. CASE r[2] \in DOMAIN table[r[1]]
    <3>1. c.op = "register" /\ c.cost = table[r[1]][r[2]]
      BY <1>2, <2>2 DEF Brings
    <3>2. rib'[r].cost = c.cost /\ r \in fresh'
      BY <2>1, <2>2, <3>1 DEF CarryOut, WithRoute
    <3> QED
      BY <2>2, <3>1, <3>2 DEF RibAgrees
  <2>3. CASE r[2] \notin DOMAIN table[r[1]]
    <3>1. c.op = "unregister"
      BY <1>2, <2>3 DEF Brings
    <3>2. r \notin DOMAIN rib'
      BY <2>1, <3>1 DEF CarryOut, WithoutRoutes
    <3> QED
      BY <2>3, <3>2 DEF RibAgrees
  <2> QED
    BY <2>2, <2>3
<1> QED
  BY <1>1, <1>2

\* A success is as good as carried out; a failure blemishes its pair.
LEMMA ServedInv ==
  ASSUME IInv, NfdServes \/ NfdFails
  PROVE  IInv'
<1> DEFINE c == Head(commands)
<1>1. TypeOK /\ TypeOK' /\ commands # <<>>
  BY ServedType DEF IInv, NfdServes, NfdFails
<1>2. c \in Commands
  BY <1>1, HeadTailProperties DEF TypeOK
<1>3. /\ commands' = Tail(commands) /\ UNCHANGED <<table, nfdFace>>
      /\ blemished \subseteq blemished'
  BY DEF NfdServes, NfdFails, Answered, nfdVars
<1>4. PICK ok \in BOOLEAN : /\ answers' = Append(answers, [command |-> c, ok |-> ok])
                            /\ ok \/ <<c.name, c.face>> \in blemished'
  BY DEF NfdServes, NfdFails, Answered
<1>5. CarryOut(c) \/ (UNCHANGED <<rib, fresh>> /\ <<c.name, c.face>> \in blemished')
  <2>1. CASE NfdServes
    BY <2>1 DEF NfdServes
  <2>2. CASE NfdFails
    BY <2>2 DEF NfdFails
  <2> QED
    BY <2>1, <2>2
<1> HIDE DEF c
<1>6. FailuresBlemish'
  <2> DEFINE a == [command |-> c, ok |-> ok]
  <2>1. \A i \in DOMAIN answers' : \/ i \in DOMAIN answers /\ answers'[i] = answers[i]
                                 \/ answers'[i] = a
    BY <1>1, <1>2, <1>4, AppendProperties, LenProperties DEF TypeOK
  <2>2. a.ok = ok /\ a.command = c
    OBVIOUS
  <2> HIDE DEF a
  <2> QED
    BY <1>3, <1>4, <2>1, <2>2 DEF IInv, FailuresBlemish
<1>7. ASSUME NEW r \in Pairs \ blemished'
      PROVE  PairAgrees(r)'
  <2>1. PairAgrees(r)
    BY <1>3, <1>7 DEF IInv
  <2>2. CASE CarryOut(c)
    <3>1. ~Concerns(c, r) => (RibAgrees(r) => RibAgrees(r)')
      BY <1>1, <1>2, <1>3, <1>7, <2>2, CarryOutRib
    <3>2. Concerns(c, r) /\ Brings(c, r, table) => RibAgrees(r)'
      BY <1>1, <1>2, <1>3, <1>7, <2>2, CarryOutRib
    <3> QED
      BY <1>1, <1>3, <2>1, <3>1, <3>2, Taking DEF c
  <2>3. CASE UNCHANGED <<rib, fresh>> /\ <<c.name, c.face>> \in blemished'
    <3>1. ~Concerns(c, r) /\ (RibAgrees(r) => RibAgrees(r)')
      BY <1>3, <1>7, <2>3 DEF Concerns, RibAgrees
    <3> QED
      BY <1>1, <1>3, <2>1, <3>1, Taking DEF c
  <2> QED
    BY <1>5, <2>2, <2>3
<1> QED
  BY <1>1, <1>6, <1>7 DEF IInv

\* What is tried again failed, which counts as a blemish.
LEMMA OnAnswerInv ==
  ASSUME IInv, OnAnswer
  PROVE  IInv'
<1> DEFINE a == Head(answers)
           c == a.command
           q == RegisterPrefix(c.name, c.face, c.cost, c.times + 1)
<1>1. TypeOK /\ TypeOK' /\ answers # <<>> /\ answers' = Tail(answers)
  BY OnAnswerType DEF IInv, OnAnswer
<1>2. /\ UNCHANGED <<table, nfdFace, rib, fresh, blemished>>
  BY DEF OnAnswer, nfdVars
<1>3. /\ a \in [command : Commands, ok : BOOLEAN] /\ a = answers[1] /\ 1 \in DOMAIN answers
      /\ \A i \in DOMAIN answers' : i + 1 \in DOMAIN answers /\ answers'[i] = answers[i + 1]
  <2> DEFINE T == [command : Commands, ok : BOOLEAN]
  <2>1. answers \in Seq(T) /\ answers # <<>>
    BY <1>1 DEF TypeOK
  <2> HIDE DEF T
  <2>2. /\ a \in T /\ Len(answers) \in Nat /\ Len(answers) # 0
        /\ DOMAIN answers = 1..Len(answers)
        /\ answers' \in Seq(T) /\ Len(answers') = Len(answers) - 1
        /\ DOMAIN answers' = 1..Len(answers')
        /\ \A i \in 1..Len(answers') : answers'[i] = answers[i + 1]
    BY <1>1, <2>1, HeadTailProperties, LenProperties, EmptySeq
  <2>3. a = answers[1]
    BY <2>1
  <2> QED
    BY <2>2, <2>3 DEF T
<1>4. FailuresBlemish'
  BY <1>2, <1>3 DEF IInv, FailuresBlemish
<1>5. commands' = commands \/ /\ ~a.ok /\ c.op = "register" /\ c.times < Retries
                              /\ commands' = commands \o q
  BY DEF OnAnswer, OnRegistrationFailure
<1>6. c \in Commands
  BY <1>3
<1> HIDE DEF a, c, q
<1>7. ASSUME NEW r \in Pairs \ blemished'
      PROVE  PairAgrees(r)'
  <2>1. PairAgrees(r)
    BY <1>2, <1>7 DEF IInv
  <2>2. RibAgrees(r) => RibAgrees(r)'
    BY <1>2 DEF RibAgrees
  <2>3. CASE commands' = commands
    BY <1>2, <2>1, <2>2, <2>3
       DEF PairAgrees, CommandsReachFace, LastCommandCounts, SettledAgrees, Silent, IsLast, Concerns, Brings
  <2>4. CASE /\ ~a.ok /\ c.op = "register" /\ c.times < Retries
             /\ commands' = commands \o q
    <3>1. <<c.name, c.face>> \in blemished
      BY <1>3, <2>4 DEF IInv, FailuresBlemish, c
    <3>2. q \in Seq(Commands) /\ \A i \in DOMAIN q : q[i].name = c.name /\ q[i].face = c.face
      BY <1>1, <1>6, <2>4, RetryType DEF q
    <3>3. \A i \in DOMAIN q : ~Concerns(q[i], r)
      BY <1>2, <1>7, <3>1, <3>2 DEF Concerns
    <3> QED
      BY <1>1, <1>2, <2>1, <2>2, <2>4, <3>2, <3>3, Sending
  <2> QED
    BY <1>5, <2>3, <2>4
<1> QED
  BY <1>1, <1>4, <1>7 DEF IInv

\* Only a route that no entry wants runs out.
LEMMA ExpiryInv ==
  ASSUME IInv, NEW x \in DOMAIN rib, RouteExpires(x)
  PROVE  IInv'
<1>1. /\ TypeOK'
      /\ rib' = [r \in DOMAIN rib \ {x} |-> rib[r]] /\ x \notin fresh
      /\ UNCHANGED <<table, nfdFace, commands, answers, fresh, blemished>>
  BY TypeInv DEF IInv, Next, RouteExpires, WithoutRoutes, nfdVars
<1>2. FailuresBlemish'
  BY <1>1 DEF IInv, FailuresBlemish
<1>3. ASSUME NEW r \in Pairs \ blemished'
      PROVE  PairAgrees(r)'
  <2>1. PairAgrees(r) /\ (RibAgrees(r) => RibAgrees(r)')
    BY <1>1, <1>3 DEF IInv, RibAgrees, TypeOK
  <2> QED
    BY <1>1, <2>1
       DEF PairAgrees, CommandsReachFace, LastCommandCounts, SettledAgrees, Silent, IsLast, Concerns, Brings
<1> QED
  BY <1>1, <1>2, <1>3 DEF IInv

\* A face that comes has no commands on their way for a pair without blemish;
\* one that goes blemishes its pairs.
LEMMA FaceInv ==
  ASSUME IInv, NEW f \in Faces, FaceCreated(f) \/ FaceDestroyed(f) \/ AdjacencyLearns(f)
  PROVE  IInv'
<1>1. TypeOK /\ TypeOK' /\ UNCHANGED <<table, commands, answers>> /\ blemished \subseteq blemished'
  BY FaceType DEF IInv, FaceCreated, FaceDestroyed, AdjacencyLearns
<1>2. FailuresBlemish'
  BY <1>1 DEF IInv, FailuresBlemish
<1>3. ASSUME NEW r \in Pairs \ blemished'
      PROVE  PairAgrees(r)'
  <2>1. PairAgrees(r) /\ r[1] \in Names /\ r[2] \in Faces /\ r = <<r[1], r[2]>>
    BY <1>1, <1>3 DEF IInv, Pairs
  <2>2. LastCommandCounts(r)'
    BY <1>1, <2>1 DEF PairAgrees, LastCommandCounts, IsLast, Concerns, Brings
  <2>3. CASE FaceCreated(f)
    <3>1. ASSUME NEW i \in DOMAIN commands, Concerns(commands[i], r)
          PROVE  nfdFace[r[2]] # 0
      <4>1. commands[i] \in Commands
        BY <1>1, ElementOfSeq, LenProperties DEF TypeOK
      <4>2. commands[i].id # 0
        BY <4>1 DEF Commands
      <4> QED
        BY <2>1, <3>1, <4>2 DEF PairAgrees, CommandsReachFace
    <3>2. \A g \in Faces : nfdFace[g] # 0 => nfdFace'[g] = nfdFace[g]
      BY <1>1, <2>3 DEF FaceCreated, TypeOK
    <3>3. CommandsReachFace(r)'
      BY <1>1, <2>1, <3>1, <3>2 DEF PairAgrees, CommandsReachFace, Concerns
    <3>4. SettledAgrees(r)'
      BY <1>1, <2>1, <2>3 DEF FaceCreated, PairAgrees, SettledAgrees, RibAgrees, Silent, Concerns
    <3> QED
      BY <2>2, <3>3, <3>4 DEF PairAgrees
  <2>4. CASE FaceDestroyed(f)
    <3>1. r[2] # f /\ nfdFace'[r[2]] = nfdFace[r[2]]
      BY <1>1, <1>3, <2>1, <2>4 DEF FaceDestroyed, TypeOK
    <3>2. RibAgrees(r) => RibAgrees(r)'
      BY <1>1, <2>1, <2>4, <3>1 DEF FaceDestroyed, WithoutRoutes, RibAgrees, TypeOK
    <3>3. CommandsReachFace(r)' /\ SettledAgrees(r)'
      BY <1>1, <2>1, <3>1, <3>2 DEF PairAgrees, CommandsReachFace, SettledAgrees, Silent, Concerns
    <3> QED
      BY <2>2, <3>3 DEF PairAgrees
  <2>5. CASE AdjacencyLearns(f)
    BY <1>1, <2>1, <2>2, <2>5
       DEF AdjacencyLearns, nfdVars, PairAgrees, CommandsReachFace, SettledAgrees, RibAgrees, Silent, Concerns
  <2> QED
    BY <2>3, <2>4, <2>5
<1> QED
  BY <1>1, <1>2, <1>3 DEF IInv

\* Every step keeps the invariant.
LEMMA NextInv == IInv /\ [Next]_vars => IInv'
<1> SUFFICES ASSUME IInv, [Next]_vars
             PROVE  IInv'
  OBVIOUS
<1>1. ASSUME NEW n \in Names, NEW h \in HopChoices, Update(n, h)
      PROVE  IInv'
  BY <1>1, UpdateInv
<1>2. CASE Clean
  BY <1>2, CleanInv
<1>3. CASE NfdServes \/ NfdFails
  BY <1>3, ServedInv
<1>4. CASE OnAnswer
  BY <1>4, OnAnswerInv
<1>5. ASSUME NEW r \in DOMAIN rib, RouteExpires(r)
      PROVE  IInv'
  BY <1>5, ExpiryInv
<1>6. ASSUME NEW f \in Faces, FaceCreated(f) \/ FaceDestroyed(f) \/ AdjacencyLearns(f)
      PROVE  IInv'
  BY <1>6, FaceInv
<1>7. CASE UNCHANGED vars
  BY <1>7
     DEF vars, nfdVars, IInv, TypeOK, FailuresBlemish, PairAgrees, CommandsReachFace, LastCommandCounts,
         SettledAgrees, RibAgrees, Silent, IsLast, Concerns, Brings
<1> QED
  BY <1>1, <1>2, <1>3, <1>4, <1>5, <1>6, <1>7 DEF Next

-----------------------------------------------------------------------------
(* The theorems.                                                           *)

\* IInv holds in every state of Fib and NFD.
THEOREM InvCorrect == Spec => []IInv
<1> QED
  BY InitInv, NextInv, PTL DEF Spec

\* Every variable has its type: commands name faces Fib had a number for.
THEOREM TypeCorrect == Spec => []TypeOK
<1>1. IInv => TypeOK
  BY DEF IInv
<1> QED
  BY <1>1, InvCorrect, PTL

\* Where nothing went wrong, NFD has in the end the routes of the entries, at
\* the costs of the last update (fib.cpp:417, fib.cpp:478), however many
\* updates came before NFD had served the commands of the first.
THEOREM RibFollowsTableCorrect == Spec => []RibFollowsTable
<1>1. IInv => RibFollowsTable
  <2> SUFFICES ASSUME IInv, commands = <<>>,
                      NEW n \in Names \ Neighbors, NEW f \in Faces, <<n, f>> \notin blemished
               PROVE  /\ f \in DOMAIN table[n] =>
                           <<n, f>> \in DOMAIN rib /\ rib[<<n, f>>].cost = table[n][f]
                      /\ <<n, f>> \in DOMAIN rib => f \in DOMAIN table[n]
    BY DEF RibFollowsTable
  <2>1. <<n, f>> \in Pairs \ blemished
    BY DEF Pairs
  <2>2. Silent(commands, <<n, f>>)
    BY DEF Silent
  <2>3. RibAgrees(<<n, f>>)
    BY <2>1, <2>2 DEF IInv, PairAgrees, SettledAgrees
  <2> QED
    BY <2>3 DEF RibAgrees, IInv, TypeOK
<1> QED
  BY <1>1, InvCorrect, PTL
==============================================================================
