------------------------------ MODULE PartsProofs ------------------------------
(***************************************************************************)
(* Proofs about the parts that share no state, for all values of the       *)
(* constants: what a router discloses grows for ever, over any number of   *)
(* crashes that spare the writing of the file, and is read by others as it *)
(* was, what nlsrc reports of its commands is true, what it prints the     *)
(* database has had, the order of the sections of a file makes no          *)
(* difference, encodings tell the object they were made of, and the        *)
(* receiver of LSAs follows the links of the sender.                       *)
(***************************************************************************)
EXTENDS SequencingManager, SeqNoFields, PrefixUpdate, Datasets, Configuration, TlvEncoding,
        LsaContent, Integers, FiniteSetTheorems, SequenceTheorems, WellFoundedInduction, TLAPS

-----------------------------------------------------------------------------
(* Sequence numbers: the inductive invariant.                              *)

\* No field of q is ahead of p.
Covered(q, p) == \A t \in Types : q[t] <= p[t]

\* Saved before disclosed: the file covers what is published and what is on
\* its way, and the counters cover the file.
SavedInv ==
  /\ phase # "writing" => \A p \in published : Covered(p, Stored)
  /\ phase = "up" => \A i \in 1..Len(posted) : Covered(posted[i], Stored)
  /\ phase = "up" => Covered(Stored, seq)

\* The counters cover everything, strictly while a new number is being saved.
FreshInv ==
  /\ phase # "down" => \A p \in published : Covered(p, seq)
  /\ phase # "down" => \A i \in 1..Len(posted) : Covered(posted[i], seq)
  /\ phase = "writing" => \A p \in published : Below(p, seq)
  /\ phase = "writing" => \A i \in 1..Len(posted) : Below(posted[i], seq)

\* The publications on their way are in order, after all that were made.
OrderInv ==
  /\ phase = "down" => posted = <<>>
  /\ \A i \in 1..Len(posted) : \A p \in published : Below(p, posted[i])
  /\ \A i, j \in 1..Len(posted) : i < j => Below(posted[i], posted[j])

SeqIInv == TypeOK /\ SavedInv /\ FreshInv /\ OrderInv

-----------------------------------------------------------------------------
\* The initial state has the type of TypeOK, and every step keeps it.
LEMMA SeqTypeInductive ==
  /\ Init => TypeOK
  /\ TypeOK /\ [Next]_vars => TypeOK'
<1>1. Init => TypeOK
  BY BoundsAssumption DEF Init, TypeOK, Numbers, Zero
<1>2. ASSUME TypeOK, [Next]_vars PROVE TypeOK'
  <2> USE <1>2
  <2>1. CASE Initialize
    BY <2>1 DEF Initialize, TypeOK
  <2>2. CASE PublishRoutingUpdate
    BY <2>2 DEF PublishRoutingUpdate, TypeOK
  <2>3. CASE PublishDataInternal
    BY <2>3 DEF PublishDataInternal, TypeOK
  <2>4. CASE Crash
    BY <2>4, BoundsAssumption DEF Crash, TypeOK, Numbers, Zero
  <2>5. ASSUME NEW t \in Types, BuildLsa(t) PROVE TypeOK'
    BY <2>5 DEF BuildLsa, TypeOK
  <2>6. CASE UNCHANGED vars
    BY <2>6 DEF vars, TypeOK
  <2>7. QED
    BY <2>1, <2>2, <2>3, <2>4, <2>5, <2>6 DEF Next
<1>3. QED
  BY <1>1, <1>2

(* A number below another in the fields is below it in the order of the    *)
(* combined numbers.                                                       *)
LEMMA BelowIsLess ==
  ASSUME NEW p \in Numbers, NEW q \in Numbers, Below(q, p)
  PROVE  Less(q, p)
<1>1. \A t \in Types : q[t] \in Int /\ p[t] \in Int /\ q[t] <= p[t]
  BY DEF Numbers, Below
<1>2. \E t \in Types : q[t] # p[t]
  BY DEF Numbers, Below
<1>3. QED
  BY <1>1, <1>2 DEF Less, Types

-----------------------------------------------------------------------------
(* Taking the next number of any type puts the counters strictly above all *)
(* numbers they covered.                                                   *)
LEMMA NextNumberIsAbove ==
  ASSUME TypeOK, NEW t \in Types, BuildLsa(t), NEW p \in Numbers, Covered(p, seq)
  PROVE  Below(p, seq')
<1>1. seq \in [Types -> Int] /\ p \in [Types -> Int]
  BY BoundsAssumption DEF TypeOK, Numbers
<1>2. seq' = [seq EXCEPT ![t] = @ + 1]
  BY DEF BuildLsa
<1>3. p[t] < seq'[t]
  BY <1>1, <1>2 DEF Covered
<1>4. \A u \in Types : p[u] <= seq'[u]
  BY <1>1, <1>2 DEF Covered
<1>5. QED
  BY <1>1, <1>3, <1>4 DEF Below

\* The three parts of the invariant hold at first, and every step keeps them
\* as long as the process does not stop while it rewrites the file.
LEMMA SeqInductive ==
  ASSUME ~CrashInWrite
  PROVE  /\ Init => SeqIInv
         /\ SeqIInv /\ [Next]_vars => SeqIInv'
<1>1. Init => SeqIInv
  BY SeqTypeInductive, BoundsAssumption DEF Init, SeqIInv, SavedInv, FreshInv, OrderInv
<1>2. ASSUME SeqIInv, [Next]_vars PROVE SeqIInv'
  <2> USE <1>2 DEF SeqIInv
  <2>0. TypeOK' /\ Stored \in Numbers /\ Stored' \in Numbers
    <3>1. TypeOK'
      BY SeqTypeInductive
    <3>2. QED
      BY <3>1, BoundsAssumption DEF TypeOK, Stored, Numbers, Zero
  <2>1. CASE Initialize
    <3>1. /\ UNCHANGED <<file, posted, published>> /\ phase = "down" /\ phase' = "up"
          /\ seq' = [t \in Types |-> InitialSeqNo[t] + IF t = "ADJ" THEN 0 ELSE 1]
      BY <2>1 DEF Initialize
    <3>2. Stored' = Stored /\ posted = <<>>
      BY <3>1 DEF Stored, OrderInv
    <3>3. Covered(Stored, seq')
      BY <3>1, <2>0, JumpAssumption, BoundsAssumption
      DEF Covered, InitialSeqNo, Stored, Numbers, Zero
    <3>4. \A p \in published : Covered(p, Stored) /\ Covered(p, seq')
      BY <3>1, <3>3, <2>0, BoundsAssumption DEF SavedInv, Covered, Numbers, TypeOK
    <3>5. QED
      BY <3>1, <3>2, <3>3, <3>4, <2>0 DEF SavedInv, FreshInv, OrderInv
  <2>2. ASSUME NEW t \in Types, BuildLsa(t) PROVE SeqIInv'
    <3>1. /\ phase = "up" /\ phase' = "writing" /\ UNCHANGED <<posted, published>>
      BY <2>2 DEF BuildLsa
    <3>2. \A p \in Numbers : Covered(p, seq) => Below(p, seq')
      BY <2>2, NextNumberIsAbove
    <3>3. \A p \in published : Below(p, seq')
      BY <3>1, <3>2 DEF FreshInv, TypeOK
    <3>4. \A i \in 1..Len(posted) : Below(posted[i], seq')
      BY <3>1, <3>2 DEF FreshInv, TypeOK
    <3>5. QED
      BY <3>1, <3>3, <3>4, <2>0 DEF SavedInv, FreshInv, OrderInv, Below, Covered
  <2>3. CASE PublishRoutingUpdate
    <3>1. /\ phase = "writing" /\ phase' = "up" /\ UNCHANGED <<seq, published>>
          /\ file' = seq /\ posted' = Append(posted, seq)
      BY <2>3 DEF PublishRoutingUpdate
    <3>2. Stored' = seq
      BY <3>1, <2>0, FileAssumption DEF Stored, TypeOK
    <3>3. /\ Len(posted') = Len(posted) + 1
          /\ \A i \in 1..Len(posted') :
               posted'[i] = IF i = Len(posted) + 1 THEN seq ELSE posted[i]
      BY <3>1 DEF TypeOK
    <3>4. \A i \in 1..Len(posted') : i # Len(posted) + 1 => i \in 1..Len(posted)
      BY <3>3 DEF TypeOK
    <3>5. SavedInv' /\ FreshInv'
      BY <3>1, <3>2, <3>3, <3>4, <2>0, BoundsAssumption DEF SavedInv, FreshInv, Covered, TypeOK, Numbers
    <3>6. OrderInv'
      <4>1. \A i \in 1..Len(posted') : \A p \in published' : Below(p, posted'[i])
        BY <3>1, <3>3, <3>4 DEF FreshInv, OrderInv
      <4>2. ASSUME NEW i \in 1..Len(posted'), NEW j \in 1..Len(posted'), i < j
            PROVE  Below(posted'[i], posted'[j])
        <5>1. i \in 1..Len(posted) /\ posted'[i] = posted[i]
          BY <4>2, <3>3 DEF TypeOK
        <5>2. CASE j = Len(posted) + 1
          BY <5>1, <5>2, <3>1, <3>3 DEF FreshInv
        <5>3. CASE j # Len(posted) + 1
          BY <5>1, <5>3, <3>3, <3>4, <4>2 DEF OrderInv
        <5>4. QED
          BY <5>2, <5>3
      <4>3. QED
        BY <3>1, <4>1, <4>2 DEF OrderInv
    <3>7. QED
      BY <3>5, <3>6, <2>0
  <2>4. CASE PublishDataInternal
    <3>1. /\ phase = "up" /\ posted # <<>> /\ UNCHANGED <<phase, seq, file>>
          /\ published' = published \union {posted[1]} /\ posted' = Tail(posted)
      BY <2>4 DEF PublishDataInternal, TypeOK
    <3>2. Stored' = Stored
      BY <3>1 DEF Stored
    <3>3. /\ 1 \in 1..Len(posted)
          /\ \A i \in 1..Len(posted') : i + 1 \in 1..Len(posted) /\ posted'[i] = posted[i + 1]
      BY <3>1 DEF TypeOK
    <3>4. SavedInv' /\ FreshInv'
      BY <3>1, <3>2, <3>3 DEF SavedInv, FreshInv, Covered
    <3>5. OrderInv'
      <4>1. \A i \in 1..Len(posted') : \A p \in published' : Below(p, posted'[i])
        BY <3>1, <3>3 DEF OrderInv
      <4>2. \A i, j \in 1..Len(posted') : i < j => Below(posted'[i], posted'[j])
        BY <3>1, <3>3 DEF OrderInv
      <4>3. QED
        BY <3>1, <4>1, <4>2 DEF OrderInv
    <3>6. QED
      BY <3>4, <3>5, <2>0
  <2>5. CASE Crash
    <3>1. phase = "up" /\ phase' = "down" /\ UNCHANGED <<file, published>> /\ posted' = <<>>
      BY <2>5 DEF Crash
    <3>2. QED
      BY <3>1, <2>0 DEF SavedInv, FreshInv, OrderInv, Stored, Covered
  <2>6. CASE UNCHANGED vars
    BY <2>6, <2>0 DEF vars, SavedInv, FreshInv, OrderInv, Stored, Covered
  <2>7. QED
    BY <2>1, <2>2, <2>3, <2>4, <2>5, <2>6 DEF Next
<1>3. QED
  BY <1>1, <1>2

-----------------------------------------------------------------------------
(* Sequence numbers: the theorems.                                         *)

\* Counters, file and publications keep their types, crashes or not.
THEOREM TypeCorrect == Spec => []TypeOK
  BY SeqTypeInductive, PTL DEF Spec

\* The invariant holds throughout when writing the file is never cut short.
LEMMA SeqInvCorrect == ASSUME ~CrashInWrite PROVE Spec => []SeqIInv
  BY SeqInductive, PTL DEF Spec

\* What was disclosed can be read back from the file after any crash.
THEOREM PublishedIsPersistedCorrect ==
  ASSUME ~CrashInWrite PROVE Spec => []PublishedIsPersisted
<1>1. SeqIInv => PublishedIsPersisted
  BY DEF SeqIInv, SavedInv, PublishedIsPersisted, Covered
<1>2. QED
  BY <1>1, SeqInvCorrect, PTL

\* A running router is past every number it disclosed, in every life.
THEOREM NumbersAreFreshCorrect ==
  ASSUME ~CrashInWrite PROVE Spec => []NumbersAreFresh
<1>1. SeqIInv => NumbersAreFresh
  BY DEF SeqIInv, FreshInv, NumbersAreFresh, Covered
<1>2. QED
  BY <1>1, SeqInvCorrect, PTL

\* Numbers reach the sync state in increasing order, over all lives.
THEOREM PublicationsGrowCorrect ==
  ASSUME ~CrashInWrite PROVE Spec => PublicationsGrow
<1> DEFINE Grow == \A p \in published' : \A q \in published : p \notin published => Less(q, p)
<1>1. ASSUME SeqIInv, [Next]_vars PROVE Grow
  <2>1. CASE PublishDataInternal
    <3>1. published' = published \union {posted[1]} /\ 1 \in 1..Len(posted)
      BY <2>1, <1>1 DEF PublishDataInternal, SeqIInv, TypeOK
    <3>2. \A q \in published : Below(q, posted[1]) /\ q \in Numbers /\ posted[1] \in Numbers
      BY <3>1, <1>1 DEF SeqIInv, OrderInv, TypeOK
    <3>3. QED
      BY <3>1, <3>2, BelowIsLess
  <2>2. CASE UNCHANGED published
    BY <2>2
  <2>3. QED
    BY <1>1, <2>1, <2>2
    DEF Next, vars, Initialize, BuildLsa, PublishRoutingUpdate, Crash
<1>2. QED
  BY <1>1, SeqInvCorrect, PTL DEF Spec, PublicationsGrow

-----------------------------------------------------------------------------
(* The fields of a combined number.                                        *)

\* The combined number is made of the counters, which are words.
FieldIInv ==
  /\ {nameLsaSeq, corLsaSeq, adjLsaSeq} \subseteq SUBSET Positions
  /\ combinedSeqNo = CombineSequenceNo(nameLsaSeq, corLsaSeq, adjLsaSeq)

\* One more is a word again.
LEMMA PlusOneIsWord ==
  ASSUME NEW word \in SUBSET Positions
  PROVE  PlusOne(word) \in SUBSET Positions
  BY DEF PlusOne

\* Every counter that is set is combined with the others.
LEMMA FieldStepInv == FieldIInv /\ [FieldNext]_fieldVars => FieldIInv'
<1> SUFFICES ASSUME FieldIInv, [FieldNext]_fieldVars
             PROVE  FieldIInv'
  OBVIOUS
<1>1. CASE IncreaseNameLsaSeq
  BY <1>1, PlusOneIsWord DEF IncreaseNameLsaSeq, Recombine, FieldIInv
<1>2. CASE IncreaseCorLsaSeq
  BY <1>2, PlusOneIsWord DEF IncreaseCorLsaSeq, Recombine, FieldIInv
<1>3. CASE IncreaseAdjLsaSeq
  BY <1>3, PlusOneIsWord DEF IncreaseAdjLsaSeq, Recombine, FieldIInv
<1>4. CASE UNCHANGED fieldVars
  BY <1>4 DEF fieldVars, FieldIInv
<1> QED
  BY <1>1, <1>2, <1>3, <1>4 DEF FieldNext

\* Fields that hold their numbers do not get into each other's way.
LEMMA FieldsApart ==
  ASSUME NEW name \in SUBSET Mask(NameBits), NEW cor \in SUBSET Mask(CorBits),
         NEW adj \in SUBSET Mask(AdjBits)
  PROVE  SplitSequenceNo(CombineSequenceNo(name, cor, adj)) = [name |-> name, cor |-> cor, adj |-> adj]
<1> DEFINE c == CombineSequenceNo(name, cor, adj)
           a == AdjBits
           b == AdjBits + CorBits
           e == AdjBits + CorBits + NameBits
<1>1. /\ a \in Nat /\ b \in Nat /\ e \in Nat /\ WordBits \in Nat
      /\ 0 < a /\ a < b /\ b < e /\ e <= WordBits
      /\ CorBits = b - a /\ NameBits = e - b /\ AdjBits = a
  BY WidthAssumption
<1> HIDE DEF a, b, e
<1>2. adj \subseteq 0..a - 1 /\ cor \subseteq 0..(b - a) - 1 /\ name \subseteq 0..(e - b) - 1
  BY <1>1 DEF Mask
<1>3. /\ ShiftL(cor, a) = {k + a : k \in cor}
      /\ ShiftL(name, b) = {k + b : k \in name}
  BY <1>1, <1>2 DEF ShiftL, Positions
<1>4. c = (adj \union {k + a : k \in cor}) \union {k + b : k \in name}
  BY <1>3 DEF CombineSequenceNo, a, b
<1>5. /\ \A k \in adj : k \in Int /\ 0 <= k /\ k < a
      /\ \A k \in cor : k \in Int /\ 0 <= k /\ k + a < b
      /\ \A k \in name : k \in Int /\ 0 <= k /\ k + b < e
  BY <1>1, <1>2
<1> HIDE DEF c
<1>6. c \intersect Mask(a) = adj
  <2>1. Mask(a) = {k \in Int : 0 <= k /\ k < a}
    BY <1>1 DEF Mask
  <2>2. ASSUME NEW k \in c, k < a
        PROVE  k \in adj
    BY <1>1, <1>4, <1>5, <2>2
  <2> QED
    BY <1>4, <1>5, <2>1, <2>2
<1>7. ShiftR(c, a) \intersect Mask(b - a) = cor
  <2>1. ASSUME NEW k \in c, k - a \in 0..(b - a) - 1
        PROVE  k - a \in cor
    <3>1. k \notin adj /\ \A j \in name : k # j + b
      BY <1>1, <1>5, <2>1
    <3>2. PICK j \in cor : k = j + a
      BY <1>4, <3>1
    <3> QED
      BY <1>1, <1>5, <3>2
  <2>2. ASSUME NEW j \in cor
        PROVE  /\ j + a \in c /\ (j + a) - a = j
               /\ j \in 0..(b - a) - 1 /\ j \in Positions
    BY <1>1, <1>4, <1>5 DEF Positions
  <2> QED
    BY <2>1, <2>2 DEF ShiftR, Mask
<1>8. ShiftR(c, b) \intersect Mask(e - b) = name
  <2>1. ASSUME NEW k \in c, k - b \in 0..(e - b) - 1
        PROVE  k - b \in name
    <3>1. k \notin adj /\ \A j \in cor : k # j + a
      BY <1>1, <1>5, <2>1
    <3>2. PICK j \in name : k = j + b
      BY <1>4, <3>1
    <3> QED
      BY <1>1, <1>5, <3>2
  <2>2. ASSUME NEW j \in name
        PROVE  /\ j + b \in c /\ (j + b) - b = j
               /\ j \in 0..(e - b) - 1 /\ j \in Positions
    BY <1>1, <1>4, <1>5 DEF Positions
  <2> QED
    BY <2>1, <2>2 DEF ShiftR, Mask
<1>9. /\ c \intersect Mask(AdjBits) = adj
      /\ ShiftR(c, AdjBits) \intersect Mask(CorBits) = cor
      /\ ShiftR(c, AdjBits + CorBits) \intersect Mask(NameBits) = name
  <2>1. a = AdjBits /\ b = AdjBits + CorBits /\ b - a = CorBits /\ e - b = NameBits
    BY <1>1 DEF a, b
  <2> QED
    BY <1>6, <1>7, <1>8, <2>1
<1> QED
  BY <1>9 DEF SplitSequenceNo, c

\* ReceiverReadsSender: as long as no counter has outgrown its field, splitSequenceNo
\* returns the three numbers combineSequenceNo was given (sequencing-manager.cpp:38-54),
\* for fields of any width that fit into a word.
THEOREM ReceiverReadsSenderCorrect == FieldSpec => []ReceiverReadsSender
<1>1. FieldInit => FieldIInv
  BY DEF FieldInit, FieldIInv, CombineSequenceNo, ShiftL
<1>2. FieldIInv => ReceiverReadsSender
  BY FieldsApart DEF FieldIInv, ReceiverReadsSender, InRange
<1> QED
  BY <1>1, <1>2, FieldStepInv, PTL DEF FieldSpec

-----------------------------------------------------------------------------
(* Prefix updates.                                                         *)

Results == Codes \union {-1, Nack, Timeout}

Command == [client : Clients, verb : {"advertise", "withdraw", "other"},
            name : NamePrefixes \union {NoName}, result : Results, since : Nat]

Packet == [what : {"interest", "checked", "answer"}, number : Nat, code : Codes \union {-1, Nack}]

-----------------------------------------------------------------------------
(* Prefix updates: the inductive invariant.                                *)

UpdateTypeOK ==
  /\ commands \in Seq(Command)
  /\ nameLsas \in Seq(SUBSET NamePrefixes) /\ Len(nameLsas) >= 1
  /\ prefixes = nameLsas[Len(nameLsas)]
  /\ traffic \subseteq Packet
  /\ \A t \in traffic : t.number \in Sent
  /\ \A i \in Sent : commands[i].since \in 1..Len(nameLsas)

\* A command is on its way once, as Interest, as command or as answer, and no
\* longer when its client has the answer.
OnItsWayOnce ==
  /\ \A t, u \in traffic : t.number = u.number => t = u
  /\ \A t \in traffic : commands[t.number].result \in {-1, Timeout}

Applied(i) ==
  \E k \in commands[i].since..Len(nameLsas) :
    (commands[i].verb = "advertise") = (commands[i].name \in nameLsas[k])

\* A success is answered, or reported, of what was applied.
SuccessIsApplied ==
  /\ \A i \in Sent : commands[i].result = 200 => Applied(i)
  /\ \A t \in traffic : t.what = "answer" /\ t.code = 200 => Applied(t.number)

\* The advertisement i of p was carried out and is not answered otherwise.
Backs(i, p) ==
  /\ i \in Sent
  /\ commands[i].verb = "advertise" /\ commands[i].name = p
  /\ commands[i].result \in {-1, 200, Timeout}
  /\ \A t \in traffic : t.number = i => t.what = "answer" /\ t.code = 200

PublishedIsBacked ==
  \A k \in 1..Len(nameLsas) : \A p \in nameLsas[k] \ Configured : \E i \in Sent : Backs(i, p)

UpdateIInv == UpdateTypeOK /\ OnItsWayOnce /\ SuccessIsApplied /\ PublishedIsBacked

\* At first nothing was sent and what is published was configured.
LEMMA UpdateInitInv == UpdateInit => UpdateIInv
<1>1. SUFFICES ASSUME UpdateInit PROVE UpdateIInv
  OBVIOUS
<1>2. /\ commands = <<>> /\ traffic = {} /\ Sent = {}
      /\ nameLsas = <<Configured>> /\ Len(nameLsas) = 1 /\ nameLsas[1] = Configured
      /\ prefixes = Configured /\ Configured \subseteq NamePrefixes
  BY <1>1, CommandAssumption DEF UpdateInit, Sent
<1>3. UpdateTypeOK
  BY <1>2 DEF UpdateTypeOK
<1>4. OnItsWayOnce /\ SuccessIsApplied /\ PublishedIsBacked
  BY <1>2 DEF OnItsWayOnce, SuccessIsApplied, PublishedIsBacked
<1>5. QED
  BY <1>3, <1>4 DEF UpdateIInv

\* A packet is taken, and another one of the same command may take its place,
\* but not the answer of a success.
LEMMA PacketInv ==
  ASSUME UpdateIInv, NEW t \in traffic, NEW new \in SUBSET Packet,
         \A u \in new : u.number = t.number /\ u.code # 200 /\ t.what # "answer",
         \A u, v \in new : u = v,
         traffic' = (traffic \ {t}) \union new,
         UNCHANGED <<prefixes, nameLsas, commands>>
  PROVE  UpdateIInv'
<1>1. Sent' = Sent /\ \A i : Applied(i)' = Applied(i)
  BY DEF Sent, Applied
<1>2. UpdateTypeOK'
  BY <1>1 DEF UpdateIInv, UpdateTypeOK
<1>3. OnItsWayOnce'
  BY DEF UpdateIInv, OnItsWayOnce
<1>4. SuccessIsApplied'
  BY <1>1 DEF UpdateIInv, SuccessIsApplied, Sent, Applied
<1>5. PublishedIsBacked'
  <2>1. SUFFICES ASSUME NEW k \in 1..Len(nameLsas), NEW p \in nameLsas[k] \ Configured
                 PROVE  \E i \in Sent : Backs(i, p)'
    BY <1>1 DEF PublishedIsBacked
  <2>2. PICK i \in Sent : Backs(i, p)
    BY <2>1 DEF UpdateIInv, PublishedIsBacked
  <2>3. \A u \in traffic' : u.number = i => u.what = "answer" /\ u.code = 200
    BY <2>2 DEF Backs
  <2>4. Backs(i, p)'
    BY <1>1, <2>2, <2>3 DEF Backs
  <2>5. QED
    BY <2>4
<1>6. QED
  BY <1>2, <1>3, <1>4, <1>5 DEF UpdateIInv

\* A command that is sent is on its way as an Interest.
LEMMA SendInv ==
  ASSUME UpdateIInv, NEW c \in Clients, SendNamePrefixUpdate(c)
  PROVE  UpdateIInv'
<1>1. PICK verb \in {"advertise", "withdraw", "other"}, name \in NamePrefixes \union {NoName} :
        commands' = Append(commands, [client |-> c, verb |-> verb, name |-> name, result |-> -1,
                                      since |-> Len(nameLsas)])
  BY DEF SendNamePrefixUpdate
<1> DEFINE m == [client |-> c, verb |-> verb, name |-> name, result |-> -1, since |-> Len(nameLsas)]
<1> DEFINE n == Len(commands) + 1
<1>2. /\ traffic' = traffic \union {Interest(n)} /\ nameLsas' = nameLsas /\ prefixes' = prefixes
      /\ Len(nameLsas) \in Nat /\ commands \in Seq(Command) /\ Len(commands) \in Nat
  BY <1>1 DEF SendNamePrefixUpdate, UpdateIInv, UpdateTypeOK
<1>3. m \in Command
  BY <1>2 DEF Command, Results
<1>4. /\ commands' \in Seq(Command) /\ Sent' = Sent \union {n} /\ n \notin Sent
      /\ commands'[n] = m /\ \A i \in Sent : commands'[i] = commands[i]
  BY <1>1, <1>2, <1>3 DEF Sent
<1>5. Interest(n) \in Packet /\ Interest(n).what = "interest" /\ Interest(n).number = n
  BY <1>2 DEF Interest, Packet
<1>6. \A t \in traffic : t.number \in Sent
  BY DEF UpdateIInv, UpdateTypeOK
<1>7. UpdateTypeOK'
  BY <1>2, <1>4, <1>5 DEF UpdateIInv, UpdateTypeOK
<1>8. OnItsWayOnce'
  BY <1>2, <1>4, <1>5, <1>6 DEF UpdateIInv, OnItsWayOnce
<1>9. SuccessIsApplied'
  <2>1. \A i \in Sent : Applied(i) => Applied(i)'
    BY <1>2, <1>4 DEF Applied
  <2>2. \A i \in Sent' : commands'[i].result = 200 => Applied(i)'
    BY <1>4, <2>1 DEF UpdateIInv, SuccessIsApplied
  <2>3. \A t \in traffic' : t.what = "answer" /\ t.code = 200 => Applied(t.number)'
    BY <1>2, <1>5, <1>6, <2>1 DEF UpdateIInv, SuccessIsApplied
  <2>4. QED
    BY <2>2, <2>3 DEF SuccessIsApplied
<1>10. PublishedIsBacked'
  <2>1. SUFFICES ASSUME NEW k \in 1..Len(nameLsas), NEW p \in nameLsas[k] \ Configured
                 PROVE  \E i \in Sent' : Backs(i, p)'
    BY <1>2 DEF PublishedIsBacked
  <2>2. PICK i \in Sent : Backs(i, p)
    BY <2>1 DEF UpdateIInv, PublishedIsBacked
  <2>3. \A u \in traffic' : u.number = i => u.what = "answer" /\ u.code = 200
    BY <1>2, <1>4, <1>5, <2>2 DEF Backs
  <2>4. Backs(i, p)'
    BY <1>4, <2>2, <2>3 DEF Backs
  <2>5. QED
    BY <1>4, <2>4
<1>11. QED
  BY <1>7, <1>8, <1>9, <1>10 DEF UpdateIInv

\* A client takes an answer, or gives up.
LEMMA ResultInv ==
  ASSUME UpdateIInv, NEW c \in Clients, OnControlResponse(c) \/ OnTimeout(c)
  PROVE  UpdateIInv'
<1>1. PICK i \in Waiting(c), code \in Results, gone \in SUBSET traffic :
        /\ commands' = [commands EXCEPT ![i].result = code]
        /\ traffic' = traffic \ gone
        /\ \/ code = Timeout
           \/ \E a \in gone : a.what = "answer" /\ a.number = i /\ a.code = code
        /\ UNCHANGED <<prefixes, nameLsas>>
  <2>1. CASE OnControlResponse(c)
    <3>1. PICK i \in Waiting(c), a \in traffic :
            /\ a.what = "answer" /\ a.number = i
            /\ commands' = [commands EXCEPT ![i].result = a.code]
            /\ traffic' = traffic \ {a}
            /\ UNCHANGED <<prefixes, nameLsas>>
      BY <2>1 DEF OnControlResponse
    <3>2. a.code \in Results /\ {a} \in SUBSET traffic
      BY DEF UpdateIInv, UpdateTypeOK, Packet, Results
    <3>3. QED
      BY <3>1, <3>2
  <2>2. CASE OnTimeout(c)
    <3>1. PICK i \in Waiting(c) : commands' = [commands EXCEPT ![i].result = Timeout]
      BY <2>2 DEF OnTimeout
    <3>2. Timeout \in Results /\ {} \in SUBSET traffic
      BY DEF Results
    <3>3. traffic' = traffic \ {} /\ UNCHANGED <<prefixes, nameLsas>>
      BY <2>2 DEF OnTimeout
    <3>4. QED
      BY <3>1, <3>2, <3>3
  <2>3. QED
    BY <2>1, <2>2
<1>2. i \in Sent /\ commands[i].result = -1 /\ commands \in Seq(Command) /\ Sent = 1..Len(commands)
  BY DEF Waiting, Sent, UpdateIInv, UpdateTypeOK
<1>3. commands[i] \in Command /\ [commands[i] EXCEPT !.result = code] \in Command
  <2>1. commands[i] \in Command
    BY <1>2
  <2>2. code \in Results
    OBVIOUS
  <2>3. QED
    BY <2>1, <2>2 DEF Command
<1>4. /\ commands' \in Seq(Command) /\ Sent' = Sent
      /\ commands'[i] = [commands[i] EXCEPT !.result = code]
      /\ \A j \in Sent \ {i} : commands'[j] = commands[j]
  BY <1>1, <1>2, <1>3 DEF Sent
<1>5. /\ commands'[i].result = code /\ commands'[i].since = commands[i].since
      /\ commands'[i].verb = commands[i].verb /\ commands'[i].name = commands[i].name
  BY <1>3, <1>4 DEF Command
<1>6. \A j \in Sent : Applied(j) => Applied(j)'
  BY <1>1, <1>4, <1>5 DEF Applied
<1>7. UpdateTypeOK'
  <2>1. \A j \in Sent' : commands'[j].since \in 1..Len(nameLsas)
    BY <1>4, <1>5 DEF UpdateIInv, UpdateTypeOK
  <2>2. QED
    BY <1>1, <1>4, <2>1 DEF UpdateIInv, UpdateTypeOK
<1>8. OnItsWayOnce'
  BY <1>1, <1>4, <1>5 DEF UpdateIInv, UpdateTypeOK, OnItsWayOnce
<1>9. SuccessIsApplied'
  <2>1. code = 200 => Applied(i)
    BY <1>1 DEF UpdateIInv, SuccessIsApplied, Timeout
  <2>2. ASSUME NEW j \in Sent', commands'[j].result = 200 PROVE Applied(j)'
    <3>1. Applied(j)
      <4>1. CASE j = i
        BY <1>5, <2>1, <2>2, <4>1
      <4>2. CASE j # i
        BY <1>4, <2>2, <4>2 DEF UpdateIInv, SuccessIsApplied
      <4>3. QED
        BY <4>1, <4>2
    <3>2. QED
      BY <1>4, <1>6, <3>1
  <2>3. \A t \in traffic' : t.what = "answer" /\ t.code = 200 => Applied(t.number)'
    BY <1>1, <1>6 DEF UpdateIInv, UpdateTypeOK, SuccessIsApplied
  <2>4. QED
    BY <2>2, <2>3 DEF SuccessIsApplied
<1>10. PublishedIsBacked'
  <2>1. SUFFICES ASSUME NEW k \in 1..Len(nameLsas), NEW p \in nameLsas[k] \ Configured
                 PROVE  \E j \in Sent' : Backs(j, p)'
    BY <1>1 DEF PublishedIsBacked
  <2>2. PICK j \in Sent : Backs(j, p)
    BY <2>1 DEF UpdateIInv, PublishedIsBacked
  <2>3. j = i => code \in {200, Timeout}
    BY <1>1, <2>2 DEF Backs
  <2>4. /\ commands'[j].verb = "advertise" /\ commands'[j].name = p
        /\ commands'[j].result \in {-1, 200, Timeout}
    <3>1. CASE j = i
      BY <1>5, <2>2, <2>3, <3>1 DEF Backs
    <3>2. CASE j # i
      BY <1>4, <2>2, <3>2 DEF Backs
    <3>3. QED
      BY <3>1, <3>2
  <2>5. Backs(j, p)'
    BY <1>1, <1>4, <2>2, <2>4 DEF Backs
  <2>6. QED
    BY <1>4, <2>5
<1>11. QED
  BY <1>7, <1>8, <1>9, <1>10 DEF UpdateIInv

\* A command that asks for the list is carried out and its success answered.
LEMMA AppliedInv ==
  ASSUME UpdateIInv, NEW t \in traffic, t.what = "checked", NEW list \in SUBSET NamePrefixes,
         (commands[t.number].verb = "advertise") <=> (commands[t.number].name \in list),
         \A p \in list :
                         \/ p \in prefixes
                         \/ (commands[t.number].verb = "advertise" /\ commands[t.number].name = p),
         Update(list), traffic' = (traffic \ {t}) \union {Answer(t.number, 200)},
         UNCHANGED commands
  PROVE  UpdateIInv'
<1> DEFINE n == t.number
<1> DEFINE u == Answer(t.number, 200)
<1>1. n \in Sent /\ Sent' = Sent /\ n \in Nat
  BY DEF UpdateIInv, UpdateTypeOK, Sent, Packet
<1>2. u \in Packet /\ u.what = "answer" /\ u.number = n /\ u.code = 200
  BY <1>1 DEF Answer, Packet, Codes
<1>3. /\ nameLsas' \in Seq(SUBSET NamePrefixes)
      /\ Len(nameLsas) \in Nat /\ Len(nameLsas) >= 1
      /\ Len(nameLsas') \in Nat /\ Len(nameLsas') >= Len(nameLsas)
      /\ Len(nameLsas') <= Len(nameLsas) + 1
      /\ nameLsas'[Len(nameLsas')] = list /\ prefixes' = list
      /\ \A k \in 1..Len(nameLsas) : nameLsas'[k] = nameLsas[k]
  <2>1. CASE list = prefixes
    BY <2>1 DEF Update, UpdateIInv, UpdateTypeOK
  <2>2. CASE list # prefixes
    BY <2>2 DEF Update, UpdateIInv, UpdateTypeOK
  <2>3. QED
    BY <2>1, <2>2
<1>4. \A i \in Sent : commands[i].since \in 1..Len(nameLsas)
  BY DEF UpdateIInv, UpdateTypeOK
<1>5. UpdateTypeOK'
  BY <1>1, <1>2, <1>3, <1>4 DEF UpdateIInv, UpdateTypeOK
<1>6. OnItsWayOnce'
  BY <1>1, <1>2 DEF UpdateIInv, OnItsWayOnce
<1>7. SuccessIsApplied'
  <2>1. \A i \in Sent : Applied(i) => Applied(i)'
    BY <1>3, <1>4 DEF Applied
  <2>2. Applied(n)'
    BY <1>1, <1>3, <1>4 DEF Applied
  <2>3. \A i \in Sent' : commands'[i].result = 200 => Applied(i)'
    BY <1>1, <2>1 DEF UpdateIInv, SuccessIsApplied
  <2>4. \A v \in traffic' : v.what = "answer" /\ v.code = 200 => Applied(v.number)'
    BY <1>2, <2>1, <2>2 DEF UpdateIInv, UpdateTypeOK, SuccessIsApplied
  <2>5. QED
    BY <2>3, <2>4 DEF SuccessIsApplied
<1>8. PublishedIsBacked'
  <2>1. \A i \in Sent : \A p : Backs(i, p) => Backs(i, p)'
    BY <1>1, <1>2 DEF Backs
  <2>2. commands[n].verb = "advertise" => Backs(n, commands[n].name)'
    <3>1. commands[n].result \in {-1, 200, Timeout}
      BY DEF UpdateIInv, OnItsWayOnce
    <3>2. \A v \in traffic' : v.number = n => v = u
      BY <1>2 DEF UpdateIInv, OnItsWayOnce
    <3>3. QED
      BY <1>1, <1>2, <3>1, <3>2 DEF Backs
  <2>3. SUFFICES ASSUME NEW k \in 1..Len(nameLsas'), NEW p \in nameLsas'[k] \ Configured
                 PROVE  \E i \in Sent : Backs(i, p)'
    BY <1>1 DEF PublishedIsBacked
  <2>4. CASE k \in 1..Len(nameLsas)
    BY <1>3, <2>1, <2>4 DEF UpdateIInv, PublishedIsBacked
  <2>5. CASE k \notin 1..Len(nameLsas)
    <3>1. p \in list
      BY <1>3, <2>5
    <3>2. CASE p \in prefixes
      BY <1>3, <2>1, <3>2 DEF UpdateIInv, UpdateTypeOK, PublishedIsBacked
    <3>3. CASE p \notin prefixes
      BY <1>1, <2>2, <3>1, <3>3
    <3>4. QED
      BY <3>2, <3>3
  <2>6. QED
    BY <2>4, <2>5
<1>9. QED
  BY <1>5, <1>6, <1>7, <1>8 DEF UpdateIInv

\* A command that is carried out is answered with what was done.
LEMMA ValidatedInv ==
  ASSUME UpdateIInv, NEW t \in traffic, OnCommandValidated(t)
  PROVE  UpdateIInv'
<1>1. t.what = "checked" /\ t.number \in Sent /\ t.number \in Nat /\ UNCHANGED commands
  BY DEF OnCommandValidated, UpdateIInv, UpdateTypeOK, Packet
<1>2. commands[t.number] \in Command
  BY <1>1 DEF UpdateIInv, UpdateTypeOK, Sent
<1>3. prefixes \subseteq NamePrefixes
  BY DEF UpdateIInv, UpdateTypeOK
<1>4. ASSUME NEW u \in Packet, u.number = t.number, u.code # 200,
             traffic' = (traffic \ {t}) \union {u}, UNCHANGED <<prefixes, nameLsas>>
      PROVE  UpdateIInv'
  <2>1. {u} \in SUBSET Packet /\ UNCHANGED <<prefixes, nameLsas, commands>>
    BY <1>1, <1>4
  <2>2. \A v \in {u} : v.number = t.number /\ v.code # 200 /\ t.what # "answer"
    BY <1>1, <1>4
  <2>3. QED
    BY <1>4, <2>1, <2>2, PacketInv
<1>5. CASE /\ commands[t.number].verb = "advertise" /\ commands[t.number].name # NoName
           /\ traffic' = (traffic \ {t}) \union {Answer(t.number, 200)}
           /\ Update(prefixes \union {commands[t.number].name})
  <2>1. commands[t.number].name \in NamePrefixes
    BY <1>2, <1>5 DEF Command
  <2> DEFINE list == prefixes \union {commands[t.number].name}
  <2>2. /\ list \in SUBSET NamePrefixes
        /\ (commands[t.number].verb = "advertise") <=> (commands[t.number].name \in list)
        /\ \A p \in list :
             \/ p \in prefixes
             \/ (commands[t.number].verb = "advertise" /\ commands[t.number].name = p)
    <3>1. commands[t.number].verb = "advertise" /\ commands[t.number].name \in list
      BY <1>5
    <3>2. list \in SUBSET NamePrefixes
      BY <1>3, <2>1
    <3>3. \A p \in list :
             \/ p \in prefixes
             \/ (commands[t.number].verb = "advertise" /\ commands[t.number].name = p)
      BY <1>5
    <3>4. (commands[t.number].verb = "advertise") <=> (commands[t.number].name \in list)
      BY <3>1
    <3>5. QED
      BY <3>2, <3>3, <3>4, Zenon
  <2>3. QED
    BY <1>1, <1>5, <2>2, AppliedInv
<1>6. CASE /\ commands[t.number].verb = "withdraw" /\ commands[t.number].name # NoName
           /\ traffic' = (traffic \ {t}) \union {Answer(t.number, 200)}
           /\ Update(prefixes \ {commands[t.number].name})
  <2>1. commands[t.number].name \in NamePrefixes
    BY <1>2, <1>6 DEF Command
  <2> DEFINE list == prefixes \ {commands[t.number].name}
  <2>2. /\ list \in SUBSET NamePrefixes
        /\ (commands[t.number].verb = "advertise") <=> (commands[t.number].name \in list)
        /\ \A p \in list :
             \/ p \in prefixes
             \/ (commands[t.number].verb = "advertise" /\ commands[t.number].name = p)
    <3>1. commands[t.number].verb # "advertise" /\ commands[t.number].name \notin list
      BY <1>6
    <3>2. list \in SUBSET NamePrefixes
      BY <1>3, <2>1
    <3>3. \A p \in list :
             \/ p \in prefixes
             \/ (commands[t.number].verb = "advertise" /\ commands[t.number].name = p)
      BY <1>6
    <3>4. (commands[t.number].verb = "advertise") <=> (commands[t.number].name \in list)
      BY <3>1
    <3>5. QED
      BY <3>2, <3>3, <3>4, Zenon
  <2>3. QED
    BY <1>1, <1>6, <2>2, AppliedInv
<1>7. \A code \in {400, 501} :
        /\ Answer(t.number, code) \in Packet
        /\ Answer(t.number, code).number = t.number /\ Answer(t.number, code).code # 200
  BY <1>1 DEF Answer, Packet, Codes
<1>8. QED
  BY <1>4, <1>5, <1>6, <1>7 DEF OnCommandValidated

\* Every step keeps the invariant.
LEMMA UpdateStepInv == UpdateIInv /\ [UpdateNext]_updateVars => UpdateIInv'
<1>1. SUFFICES ASSUME UpdateIInv, [UpdateNext]_updateVars PROVE UpdateIInv'
  OBVIOUS
<1>2. ASSUME NEW c \in Clients, SendNamePrefixUpdate(c) PROVE UpdateIInv'
  BY <1>1, <1>2, SendInv
<1>3. ASSUME NEW c \in Clients, OnControlResponse(c) \/ OnTimeout(c) PROVE UpdateIInv'
  BY <1>1, <1>3, ResultInv
<1>4. ASSUME NEW t \in traffic, OnCommandValidated(t) PROVE UpdateIInv'
  BY <1>1, <1>4, ValidatedInv
<1>5. ASSUME NEW t \in traffic, OnInterest(t) PROVE UpdateIInv'
  <2>1. t.number \in Nat
    BY <1>1 DEF UpdateIInv, UpdateTypeOK, Packet
  <2>2. PICK u \in {Checked(t.number), Answer(t.number, Nack)} :
          traffic' = (traffic \ {t}) \union {u} /\ UNCHANGED <<prefixes, nameLsas, commands>>
    BY <1>5 DEF OnInterest
  <2>3. {u} \in SUBSET Packet
    BY <2>1 DEF Checked, Answer, Packet, Nack, Codes
  <2>4. \A v \in {u} : v.number = t.number /\ v.code # 200 /\ t.what # "answer"
    BY <1>5 DEF Checked, Answer, Nack, OnInterest
  <2>5. QED
    BY <1>1, <2>2, <2>3, <2>4, PacketInv
<1>6. ASSUME NEW t \in traffic, OnCommandValidationFailed(t) PROVE UpdateIInv'
  <2>1. t.number \in Nat
    BY <1>1 DEF UpdateIInv, UpdateTypeOK, Packet
  <2>2. {Answer(t.number, 403)} \in SUBSET Packet
    BY <2>1 DEF Answer, Packet, Codes
  <2>3. \A u \in {Answer(t.number, 403)} :
          u.number = t.number /\ u.code # 200 /\ t.what # "answer"
    BY <1>6 DEF OnCommandValidationFailed, Answer
  <2>4. traffic' = (traffic \ {t}) \union {Answer(t.number, 403)}
        /\ UNCHANGED <<prefixes, nameLsas, commands>>
    BY <1>6 DEF OnCommandValidationFailed
  <2>5. QED
    BY <1>1, <2>2, <2>3, <2>4, PacketInv, ZenonT(60)
<1>7. ASSUME NEW t \in traffic, Lose(t) PROVE UpdateIInv'
  <2>1. traffic' = (traffic \ {t}) \union {} /\ {} \in SUBSET Packet
    BY <1>7 DEF Lose
  <2>2. QED
    BY <1>1, <1>7, <2>1, PacketInv DEF Lose
<1>8. CASE UNCHANGED updateVars
  <2>1. UNCHANGED <<prefixes, nameLsas, commands, traffic>>
    BY <1>8 DEF updateVars
  <2>2. QED
    BY <1>1, <2>1 DEF UpdateIInv, UpdateTypeOK, Sent, OnItsWayOnce, SuccessIsApplied, Applied, PublishedIsBacked,
       Backs
<1>9. QED
  BY <1>1, <1>2, <1>3, <1>4, <1>5, <1>6, <1>7, <1>8 DEF UpdateNext

-----------------------------------------------------------------------------
(* Prefix updates: theorems.                                               *)

\* UpdateIInv holds for any clients, prefixes and number of commands.
THEOREM UpdateInvCorrect == UpdateSpec => []UpdateIInv
  BY UpdateInitInv, UpdateStepInv, PTL DEF UpdateSpec

\* A success that nlsrc reports was true of what was published after the
\* command was sent, and what is published and was not configured has been
\* advertised by a command that was not refused (prefix-update-processor.cpp:
\* 140-178).
THEOREM ReportsAreTrueCorrect == UpdateSpec => []ReportsAreTrue
<1>1. UpdateIInv => ReportsAreTrue
  <2>1. SUFFICES ASSUME UpdateIInv PROVE ReportsAreTrue
    OBVIOUS
  <2>2. \A i \in Sent : commands[i].result = 200 => Applied(i)
    BY <2>1 DEF UpdateIInv, SuccessIsApplied
  <2>3. \A k \in 1..Len(nameLsas) : \A p \in nameLsas[k] \ Configured :
          \E i \in Sent : /\ commands[i].verb = "advertise" /\ commands[i].name = p
                          /\ commands[i].result \in {-1, 200, Timeout}
    BY <2>1 DEF UpdateIInv, PublishedIsBacked, Backs
  <2>4. QED
    BY <2>2, <2>3 DEF ReportsAreTrue, Applied
<1>2. QED
  BY <1>1, UpdateInvCorrect, PTL

-----------------------------------------------------------------------------
(* Datasets: segments.                                                     *)

\* Lists of LSAs, and the octets they are encoded in.
Lists == Seq(Lsas)
Content == Seq(Units)

SegmentCount(c) == IF c = <<>> THEN 1 ELSE (Len(c) + MaxSegmentSize - 1) \div MaxSegmentSize
SegmentEnd(c, i) == IF i * MaxSegmentSize > Len(c) THEN Len(c) ELSE i * MaxSegmentSize

\* What has been read when segment i is the next one.
ReadBefore(c, i) == SubSeq(c, 1, (i - 1) * MaxSegmentSize)

\* A product grows with its first factor.
LEMMA ProductGrows ==
  ASSUME NEW i \in Nat, NEW k \in Nat, i <= k, NEW m \in Nat
  PROVE  i * m <= k * m /\ i * m \in Nat /\ k * m \in Nat
<1>1. PICK d \in Nat : k = i + d
  BY SMT
<1>2. k * m = i * m + d * m /\ d * m \in Nat /\ i * m \in Nat
  BY <1>1
<1> QED
  BY <1>2

\* There are as many segments as the content needs.
LEMMA CountProperties ==
  ASSUME NEW c \in Content
  PROVE  /\ SegmentCount(c) \in Nat \ {0}
         /\ \A i \in 1..SegmentCount(c) : i < SegmentCount(c) => i * MaxSegmentSize < Len(c)
         /\ SegmentCount(c) * MaxSegmentSize >= Len(c)
<1> DEFINE M == MaxSegmentSize
           L == Len(c)
           C == SegmentCount(c)
<1>1. M \in Nat \ {0} /\ L \in Nat
  BY SegmentAssumption, LenProperties DEF Content
<1>2. CASE c = <<>>
  <2>1. C = 1 /\ L = 0
    BY <1>2 DEF SegmentCount
  <2> QED
    BY <1>1, <2>1
<1>3. CASE c # <<>>
  <2>1. L >= 1
    BY <1>1, <1>3, EmptySeq DEF Content
  <2>2. C = (L + M - 1) \div M
    BY <1>3 DEF SegmentCount
  <2> HIDE DEF M, L, C
  <2>3. C \in Nat /\ C * M <= L + M - 1 /\ L + M - 1 < C * M + M
    BY <1>1, <2>1, <2>2
  <2>4. C # 0
    BY <1>1, <2>1, <2>3
  <2>5. C * M >= L
    BY <1>1, <2>1, <2>3
  <2>6. ASSUME NEW i \in 1..C, i < C
        PROVE  i * M < L
    <3>1. (C - 1) * M = C * M - M /\ C - 1 \in Nat
      BY <1>1, <2>3, <2>4
    <3>2. i * M <= (C - 1) * M /\ i * M \in Nat
      BY <1>1, <2>3, <2>6, <3>1, ProductGrows
    <3> QED
      BY <1>1, <2>3, <3>1, <3>2
  <2> QED
    BY <2>3, <2>4, <2>5, <2>6 DEF M, L, C
<1> QED
  BY <1>2, <1>3

\* Segments of a content: their number, what each has, which one is final.
LEMMA SegmentProperties ==
  ASSUME NEW c \in Content
  PROVE  /\ DOMAIN Segments(c) = 1..SegmentCount(c)
         /\ \A i \in 1..SegmentCount(c) :
              /\ Segments(c)[i].content \in Content
              /\ Segments(c)[i].final <=> i = SegmentCount(c)
              /\ i = SegmentCount(c) => ReadBefore(c, i) \o Segments(c)[i].content = c
              /\ i < SegmentCount(c) => ReadBefore(c, i) \o Segments(c)[i].content = ReadBefore(c, i + 1)
<1> DEFINE M == MaxSegmentSize
           L == Len(c)
           C == SegmentCount(c)
<1>1. M \in Nat \ {0} /\ L \in Nat /\ c \in Seq(Units)
  BY SegmentAssumption, LenProperties DEF Content
<1>2. /\ C \in Nat \ {0}
      /\ \A i \in 1..C : i < C => i * M < L
      /\ C * M >= L
  BY CountProperties
<1>3. Segments(c) = [i \in 1..C |-> [content |-> SubSeq(c, (i - 1) * M + 1, SegmentEnd(c, i)),
                                     final |-> i = C]]
  BY DEF Segments, SegmentCount, SegmentEnd
<1> HIDE DEF C
<1>4. ASSUME NEW i \in 1..C
      PROVE  /\ Segments(c)[i].content \in Content
             /\ Segments(c)[i].final <=> i = C
             /\ i = C => ReadBefore(c, i) \o Segments(c)[i].content = c
             /\ i < C => ReadBefore(c, i) \o Segments(c)[i].content = ReadBefore(c, i + 1)
  <2> DEFINE a == (i - 1) * M
             e == SegmentEnd(c, i)
  <2>1. /\ Segments(c)[i].final = (i = C)
        /\ Segments(c)[i].content = SubSeq(c, a + 1, e)
    BY <1>3
  <2>2. a \in 0..L
    <3>1. CASE i = 1
      BY <1>1, <3>1
    <3>2. CASE i # 1
      <4>1. i - 1 \in 1..C /\ i - 1 < C
        BY <1>2, <3>2
      <4>2. a < L
        BY <1>2, <4>1
      <4>3. a \in Nat
        BY <1>1, <4>1, ProductGrows
      <4> QED
        BY <1>1, <4>2, <4>3
    <3> QED
      BY <3>1, <3>2
  <2>3. a <= i * M /\ i * M \in Nat /\ (i + 1) - 1 = i
    BY <1>1, <1>2, ProductGrows
  <2>4. i = C => e = L
    BY <1>1, <1>2, <2>3 DEF SegmentEnd
  <2>5. i < C => e = i * M /\ i * M < L
    BY <1>1, <1>2, <2>3 DEF SegmentEnd
  <2>6. e \in a..L
    BY <1>1, <1>2, <2>2, <2>3, <2>4, <2>5
  <2> HIDE DEF a, e, M, L
  <2>7. SubSeq(c, 1, a) \o SubSeq(c, a + 1, e) = SubSeq(c, 1, e)
    <3>1. 1 \in 1..L + 1 /\ a \in 1 - 1..L
      BY <1>1, <2>2
    <3> QED
      BY <1>1, <2>6, <3>1, ConcatAdjacentSubSeq DEF L
  <2>8. ReadBefore(c, i) = SubSeq(c, 1, a)
    BY DEF ReadBefore, a, M
  <2>9. i = C => SubSeq(c, 1, e) = c
    BY <1>1, <2>4, SubSeqFull DEF L
  <2>10. i < C => ReadBefore(c, i + 1) = SubSeq(c, 1, e)
    BY <2>3, <2>5 DEF ReadBefore, M
  <2>11. SubSeq(c, a + 1, e) \in Content
    <3>1. \A j \in (a + 1)..e : c[j] \in Units
      BY <1>1, <2>2, <2>6, ElementOfSeq DEF L
    <3> QED
      BY <1>1, <2>2, <2>6, <3>1, SubSeqProperties DEF Content
  <2> QED
    BY <2>1, <2>7, <2>8, <2>9, <2>10, <2>11
<1>5. DOMAIN Segments(c) = 1..C
  BY <1>3
<1> QED
  BY <1>4, <1>5 DEF C

\* Reversed twice, the LSAs are in their order again.
LEMMA ReverseTwice ==
  ASSUME NEW c \in Lists
  PROVE  Reverse(c) \in Lists /\ Reverse(Reverse(c)) = c
<1> DEFINE r == Reverse(c)
<1>1. c \in Seq(Lsas) /\ Len(c) \in Nat /\ c \in [1..Len(c) -> Lsas]
  BY LenProperties DEF Lists
<1>2. r \in [1..Len(c) -> Lsas] /\ \A i \in 1..Len(c) : r[i] = c[(Len(c) - i) + 1]
  BY <1>1 DEF Reverse
<1>3. r \in Lists /\ Len(r) = Len(c)
  BY <1>1, <1>2, SeqDef, LenProperties DEF Lists
<1>4. Reverse(r) = [i \in 1..Len(c) |-> r[(Len(c) - i) + 1]]
  BY <1>3 DEF Reverse
<1> HIDE DEF r
<1>5. \A i \in 1..Len(c) : Reverse(r)[i] = c[i]
  <2> SUFFICES ASSUME NEW i \in 1..Len(c)
               PROVE  r[(Len(c) - i) + 1] = c[i]
    BY <1>4
  <2>1. (Len(c) - i) + 1 \in 1..Len(c) /\ (Len(c) - ((Len(c) - i) + 1)) + 1 = i
    BY <1>1
  <2> QED
    BY <1>2, <2>1
<1>6. Reverse(r) = c
  BY <1>1, <1>4, <1>5
<1> QED
  BY <1>3, <1>6 DEF r

\* The quotient and the rest are the only ones there are.
LEMMA QuotientIs ==
  ASSUME NEW m \in Nat, NEW r \in Nat, NEW S \in Nat \ {0}, r < S, NEW k, k = m * S + r
  PROVE  k \div S = m /\ k % S = r
<1> DEFINE q == k \div S
           t == k % S
<1>1. m * S \in Nat
  BY ProductGrows
<1>2. k \in Nat
  BY <1>1
<1>3. q \in Nat /\ t \in 0..S - 1 /\ k = q * S + t
  BY <1>2
<1> HIDE DEF q, t
<1>4. ASSUME NEW a \in Nat, NEW b \in Nat, a < b
      PROVE  a * S + S <= b * S /\ a * S \in Nat /\ b * S \in Nat
  <2>1. (a + 1) * S = a * S + S
    BY ProductGrows
  <2>2. (a + 1) * S <= b * S
    BY <1>4, ProductGrows
  <2> QED
    BY <2>1, <2>2, ProductGrows
<1>5. ~(q < m)
  <2> SUFFICES ASSUME q < m
               PROVE  FALSE
    OBVIOUS
  <2>1. q * S + S <= m * S /\ q * S \in Nat
    BY <1>3, <1>4
  <2> QED
    BY <1>1, <1>3, <2>1
<1>6. ~(m < q)
  <2> SUFFICES ASSUME m < q
               PROVE  FALSE
    OBVIOUS
  <2>1. m * S + S <= q * S /\ q * S \in Nat
    BY <1>3, <1>4
  <2> QED
    BY <1>1, <1>3, <2>1
<1>7. q = m
  BY <1>3, <1>5, <1>6
<1>8. t = r
  BY <1>1, <1>3, <1>7
<1> QED
  BY <1>7, <1>8 DEF q, t

\* The octets of the LSAs of a list: those of LSA i are at their place.
LEMMA Encoding ==
  ASSUME NEW l \in Lists
  PROVE  /\ Encoded(l) \in Content /\ Len(Encoded(l)) = Len(l) * LsaSize
         /\ \A i \in 1..Len(l), j \in 1..LsaSize :
              /\ (i - 1) * LsaSize + j \in 1..Len(l) * LsaSize
              /\ Encoded(l)[(i - 1) * LsaSize + j] = <<l[i], j>>
<1> DEFINE S == LsaSize
           N == Len(l)
           x == Encoded(l)
<1>1. S \in Nat \ {0} /\ N \in Nat /\ l \in [1..N -> Lsas]
  BY SegmentAssumption, LenProperties DEF Lists
<1>2. N * S \in Nat
  BY <1>1, ProductGrows
<1>3. x = [k \in 1..N * S |-> <<l[((k - 1) \div S) + 1], ((k - 1) % S) + 1>>]
  BY DEF Encoded
<1> HIDE DEF x, S, N
<1>4. ASSUME NEW k \in 1..N * S
      PROVE  <<l[((k - 1) \div S) + 1], ((k - 1) % S) + 1>> \in Units
  <2> DEFINE q == (k - 1) \div S
             r == (k - 1) % S
  <2>1. k - 1 \in Nat
    BY <1>2
  <2>2. q \in Nat /\ r \in 0..S - 1 /\ k - 1 = q * S + r
    BY <1>1, <2>1
  <2> HIDE DEF q, r
  <2>3. q < N
    <3> SUFFICES ASSUME N <= q
                 PROVE  FALSE
      BY <1>1, <2>2
    <3>1. N * S <= q * S /\ q * S \in Nat
      BY <1>1, <2>2, ProductGrows
    <3> QED
      BY <1>1, <1>2, <2>2, <3>1
  <2>4. q + 1 \in 1..N /\ r + 1 \in 1..S
    BY <1>1, <2>2, <2>3
  <2>5. l[q + 1] \in Lsas
    BY <1>1, <2>4
  <2> QED
    BY <2>4, <2>5 DEF Units, S, q, r
<1>5. x \in [1..N * S -> Units]
  BY <1>3, <1>4
<1>6. x \in Content /\ Len(x) = N * S
  BY <1>2, <1>5, SeqDef, LenProperties DEF Content
<1>7. ASSUME NEW i \in 1..N, NEW j \in 1..S
      PROVE  (i - 1) * S + j \in 1..N * S /\ x[(i - 1) * S + j] = <<l[i], j>>
  <2> DEFINE m == i - 1
             k == m * S + j
  <2>1. m \in Nat /\ i = m + 1 /\ m * S \in Nat /\ i * S = m * S + S
    <3>1. m \in Nat /\ i = m + 1
      BY <1>1
    <3>2. m * S \in Nat /\ (m + 1) * S = m * S + S
      BY <1>1, <3>1, ProductGrows
    <3> QED
      BY <3>1, <3>2
  <2>2. i * S <= N * S /\ i * S \in Nat
    BY <1>1, ProductGrows
  <2>3. k \in 1..N * S
    BY <1>1, <1>2, <2>1, <2>2
  <2>4. (k - 1) \div S = m /\ (k - 1) % S = j - 1
    <3>1. k - 1 = m * S + (j - 1) /\ j - 1 \in 0..S - 1 /\ k - 1 \in Nat
      BY <1>1, <2>1
    <3> HIDE DEF k, m
    <3>2. m \in Nat /\ j - 1 \in Nat /\ S \in Nat \ {0} /\ j - 1 < S
      BY <1>1, <2>1
    <3> HIDE DEF k, m
    <3>3. k - 1 = m * S + (j - 1) /\ m \in Nat /\ j - 1 \in Nat /\ S \in Nat \ {0} /\ j - 1 < S
      BY <3>1, <3>2
    <3>4. PICK r, e : r = j - 1 /\ e = k - 1
      OBVIOUS
    <3>5. e = m * S + r /\ m \in Nat /\ r \in Nat /\ S \in Nat \ {0} /\ r < S
      BY <3>3, <3>4
    <3>6. e \div S = m /\ e % S = r
      BY ONLY <3>5, QuotientIs
    <3> QED
      BY <3>4, <3>6
  <2>5. x[k] = <<l[((k - 1) \div S) + 1], ((k - 1) % S) + 1>>
    BY <1>3, <2>3
  <2> HIDE DEF k
  <2>6. (j - 1) + 1 = j
    BY <1>1
  <2>7. x[k] = <<l[i], j>>
    BY <2>1, <2>4, <2>5, <2>6
  <2> QED
    BY <2>3, <2>7 DEF k, m
<1> QED
  BY <1>6, <1>7 DEF x, S, N

\* c has the first p octets of the LSAs of l, and then ends or has what is none.
AgreesUpTo(c, l, p) ==
  /\ p \in 0..Len(Encoded(l)) /\ p <= Len(c)
  /\ \A j \in 1..p : c[j] = Encoded(l)[j]
  /\ p < Len(c) => c[p + 1] = Foreign

\* What is read of it are the first LSAs of l; all, if c is their octets.
LEMMA ReadIntact ==
  ASSUME NEW l \in Lists, NEW c \in Seq(Units \union {Foreign}), NEW n \in Nat, Reads(c, n),
         NEW p, AgreesUpTo(c, l, p)
  PROVE  /\ LsasRead(c, n) \in Lists /\ IsPrefix(LsasRead(c, n), l)
         /\ c = Encoded(l) => LsasRead(c, n) = l
<1> DEFINE S == LsaSize
           N == Len(l)
           x == Encoded(l)
           read == LsasRead(c, n)
<1>1. /\ S \in Nat \ {0} /\ N \in Nat /\ l \in [1..N -> Lsas] /\ Len(c) \in Nat
      /\ N * S \in Nat
  BY SegmentAssumption, LenProperties, ProductGrows DEF Lists
<1>2. /\ x \in Content /\ Len(x) = N * S
      /\ \A i \in 1..N, j \in 1..S : (i - 1) * S + j \in 1..N * S /\ x[(i - 1) * S + j] = <<l[i], j>>
  BY Encoding
<1>3. /\ p \in 0..Len(x) /\ p <= Len(c) /\ \A j \in 1..p : c[j] = x[j]
      /\ p < Len(c) => c[p + 1] = Foreign
  BY DEF AgreesUpTo
<1>3a. p \in Nat /\ p <= N * S
  BY <1>1, <1>2, <1>3
<1>4. /\ \A i \in 1..n : i * S <= Len(c) /\ \E a \in Lsas : \A j \in 1..S : c[(i - 1) * S + j] = <<a, j>>
      /\ ~IsLsa(c, n + 1)
  BY DEF Reads, IsLsa
<1>5. read = [i \in 1..n |-> c[(i - 1) * S + 1][1]]
  BY DEF LsasRead
<1> HIDE DEF S, N, x, read
<1>6. n * S \in Nat /\ n * S <= p
  <2>1. n * S \in Nat
    BY <1>1, ProductGrows
  <2>2. SUFFICES ASSUME p < n * S
                 PROVE  FALSE
    BY <1>1, <1>2, <1>3, <2>1
  <2>3. n \in 1..n /\ n * S <= Len(c)
    <3>1. n # 0
      BY <1>1, <1>2, <1>3, <2>2
    <3>2. n \in 1..n
      BY <3>1
    <3> QED
      BY <1>4, <3>2
  <2>4. c[p + 1] = Foreign
    BY <1>1, <1>2, <1>3, <2>1, <2>2, <2>3
  <2>5. PICK q \in Nat, r \in 0..S - 1 : p = q * S + r
    <3>1. p \in Nat
      BY <1>1, <1>2, <1>3
    <3>2. p = (p \div S) * S + (p % S) /\ p \div S \in Nat /\ p % S \in 0..S - 1
      BY <1>1, <3>1
    <3> QED
      BY <3>2
  <2>6. q < n
    <3> SUFFICES ASSUME n <= q
                 PROVE  FALSE
      BY <2>5
    <3>1. n * S <= q * S /\ q * S \in Nat
      BY <1>1, <2>5, ProductGrows
    <3> QED
      BY <1>1, <2>1, <2>2, <2>5, <3>1
  <2>7. q + 1 \in 1..n /\ (q + 1) - 1 = q /\ r + 1 \in 1..S /\ q * S \in Nat
    BY <1>1, <2>5, <2>6, ProductGrows
  <2>8. PICK a \in Lsas : \A j \in 1..S : c[((q + 1) - 1) * S + j] = <<a, j>>
    BY <1>4, <2>7
  <2>9. c[q * S + (r + 1)] = <<a, r + 1>>
    BY <2>7, <2>8
  <2>10. q * S + (r + 1) = p + 1
    BY <1>1, <2>5, <2>7
  <2>11. <<a, r + 1>> \in Units
    BY <2>7 DEF Units, S
  <2> QED
    BY <2>4, <2>9, <2>10, <2>11, ForeignAssumption
<1>7. n <= N
  <2> SUFFICES ASSUME N + 1 <= n
               PROVE  FALSE
    BY <1>1
  <2>1. (N + 1) * S <= n * S /\ (N + 1) * S = N * S + S
    BY <1>1, ProductGrows
  <2>2. N * S + S <= p
    BY <1>1, <1>6, <1>3a, <2>1
  <2> QED
    BY <1>1, <1>3a, <2>2
<1>8. ASSUME NEW i \in 1..n
      PROVE  read[i] = l[i]
  <2> DEFINE k == (i - 1) * S + 1
  <2>1. i \in 1..N /\ 1 \in 1..S
    BY <1>1, <1>7
  <2>2. k \in 1..N * S /\ x[k] = <<l[i], 1>>
    BY <1>2, <2>1
  <2>3. k <= p
    <3>1. i * S <= n * S /\ i * S \in Nat
      BY <1>1, ProductGrows
    <3>2. i - 1 \in Nat /\ i = (i - 1) + 1
      OBVIOUS
    <3>3. ((i - 1) + 1) * S = (i - 1) * S + S /\ (i - 1) * S \in Nat
      BY <1>1, <3>2, ProductGrows
    <3>4. i * S = (i - 1) * S + S
      BY <3>2, <3>3
    <3> QED
      BY <1>1, <1>6, <1>3a, <3>1, <3>3, <3>4
  <2>4. read[i] = c[k][1]
    BY <1>5
  <2> HIDE DEF k
  <2>5. c[k] = x[k]
    BY <1>1, <1>2, <1>3, <2>2, <2>3
  <2> QED
    BY <2>2, <2>4, <2>5
<1>9. read \in Lists /\ Len(read) = n
  <2>1. \A i \in 1..n : l[i] \in Lsas
    BY <1>1, <1>7
  <2>2. read \in [1..n -> Lsas]
    BY <1>5, <1>8, <2>1
  <2> QED
    BY <2>2, SeqDef, LenProperties DEF Lists
<1>10. IsPrefix(read, l)
  <2>1. SubSeq(read, 1, n) = read
    BY <1>9, SubSeqFull DEF Lists
  <2>2. SubSeq(l, 1, n) = [i \in 1..n |-> l[i]]
    BY <1>1, <1>7 DEF Lists
  <2>3. read = [i \in 1..n |-> l[i]]
    BY <1>5, <1>8
  <2> QED
    BY <1>1, <1>7, <1>9, <2>1, <2>2, <2>3 DEF IsPrefix, N
<1>11. ASSUME c = x
       PROVE  read = l
  <2>1. n = N
    <3> SUFFICES ASSUME n < N
                 PROVE  FALSE
      BY <1>1, <1>7
    <3>1. n + 1 \in 1..N
      BY <1>1
    <3>2. (n + 1) * S <= N * S
      BY <1>1, <3>1, ProductGrows
    <3>3. l[n + 1] \in Lsas /\ \A j \in 1..S : x[((n + 1) - 1) * S + j] = <<l[n + 1], j>>
      BY <1>1, <1>2, <3>1
    <3>4. IsLsa(c, n + 1)
      BY <1>2, <1>11, <3>2, <3>3 DEF IsLsa, S
    <3> QED
      BY <1>4, <3>4
  <2>2. read = [i \in 1..N |-> l[i]]
    BY <1>5, <1>8, <2>1
  <2> QED
    BY <1>1, <2>2
<1> QED
  BY <1>9, <1>10, <1>11 DEF read, x

-----------------------------------------------------------------------------
(* Datasets: the inductive invariant.                                      *)

AllKinds == ToSet(Kinds)
Received == Seq(Units \union {Foreign})
ResultLists == UNION {[D -> [lsas : Lists, broken : BOOLEAN]] : D \in SUBSET AllKinds}
FetchType == [step : 0..6, version : Nat, next : Nat \ {0}, has : Received, changes : Nat, result : ResultLists]

DatasetTypeOK ==
  /\ lsdb \in [AllKinds -> Lists]
  /\ past \in [AllKinds -> SUBSET Lists]
  /\ versions \in Nat
  /\ fetch \in FetchType

\* What the database has it has had.
NowIsPast == \A k \in AllKinds : lsdb[k] \in past[k]

\* What has come before segment i of the LSAs of l is asked for: all that is
\* before it, or an error at some place with all that is before that place.
ComesBefore(has, l, i) ==
  \/ i \in 1..SegmentCount(Encoded(l)) /\ has = ReadBefore(Encoded(l), i)
  \/ \E p \in Nat : p < Len(has) /\ AgreesUpTo(has, l, p)

IsSegmentOf(s, l) ==
  /\ s.number \in 1..SegmentCount(Encoded(l))
  /\ s.content = Segments(Encoded(l))[s.number].content
  /\ s.final = Segments(Encoded(l))[s.number].final

\* w has the kind and the LSAs of every version: those the database has had, of
\* which the cache has segments and nlsrc, if it fetches this version, what
\* comes before the segment it asks for.
Explains(w) ==
  /\ w \in [1..versions -> [kind : AllKinds, lsas : Lists]]
  /\ \A v \in 1..versions : Reverse(w[v].lsas) \in past[w[v].kind]
  /\ \A s \in cache :
       s.version \in 1..versions /\ s.kind = w[s.version].kind /\ IsSegmentOf(s, w[s.version].lsas)
  /\ Fetching /\ fetch.version # NoVersion =>
       /\ fetch.version \in 1..versions
       /\ w[fetch.version].kind = Kind
       /\ ComesBefore(fetch.has, w[fetch.version].lsas, fetch.next)

\* Between datasets nothing is left of the one before.
FetchStartsAfresh ==
  /\ fetch.step = 0 => fetch.version = NoVersion
  /\ fetch.step \in 0..3 /\ fetch.version = NoVersion => fetch.next = 1 /\ fetch.has = <<>>

\* A result for LSAs l of the database: they, or the first of them with an error.
Told(r, l) == r.lsas = l \/ (r.broken /\ IsPrefix(r.lsas, l))

WasThere(r, S) == Reverse(r.lsas) \in S \/ (r.broken /\ \E d \in S : IsPrefix(r.lsas, Reverse(d)))

\* The datasets of the steps behind are there, each as the database had it.
ResultsWereThere ==
  /\ fetch.step \in 0..4 => DOMAIN fetch.result = {Kinds[i] : i \in {j \in 1..3 : j < fetch.step}}
  /\ \A k \in DOMAIN fetch.result : WasThere(fetch.result[k], past[k])

DatasetIInv ==
  /\ DatasetTypeOK
  /\ NowIsPast
  /\ \E w : Explains(w)
  /\ FetchStartsAfresh
  /\ ResultsWereThere

\* There are three kinds.
LEMMA KindsAreThree == \A k : k \in AllKinds <=> \E i \in 1..3 : k = Kinds[i]
  BY DEF AllKinds, ToSet, Kinds

\* At first the database has had nothing.
LEMMA DatasetInitInv == DatasetInit => DatasetIInv
<1> SUFFICES ASSUME DatasetInit
             PROVE  DatasetIInv
  OBVIOUS
<1>1. <<>> \in Lists /\ <<>> \in Received
  BY DEF Lists, Received
<1>2. DatasetTypeOK
  <2>1. [k \in {} |-> <<>>] \in [{} -> [lsas : Lists, broken : BOOLEAN]] /\ {} \in SUBSET AllKinds
    OBVIOUS
  <2>2. [k \in {} |-> <<>>] \in ResultLists
    BY <2>1 DEF ResultLists
  <2>3. fetch \in FetchType
    BY <1>1, <2>2 DEF DatasetInit, NoVersion, FetchType
  <2>4. lsdb \in [AllKinds -> Lists] /\ past \in [AllKinds -> SUBSET Lists] /\ versions \in Nat
    BY <1>1 DEF DatasetInit, AllKinds
  <2> QED
    BY <2>3, <2>4 DEF DatasetTypeOK
<1>3. NowIsPast /\ FetchStartsAfresh /\ ResultsWereThere
  BY DEF DatasetInit, NowIsPast, FetchStartsAfresh, ResultsWereThere, AllKinds, NoVersion
<1>4. Explains([v \in 1..0 |-> 0])
  BY DEF DatasetInit, Explains, Fetching
<1> QED
  BY <1>2, <1>3, <1>4 DEF DatasetIInv

\* A change of the database leaves what is past in the past.
LEMMA ChangeLsdbInv ==
  ASSUME DatasetIInv, NEW k \in AllKinds, ChangeLsdb(k)
  PROVE  DatasetIInv'
<1>1. lsdb[k] \in Lists /\ lsdb[k] \in Seq(Lsas)
  BY DEF DatasetIInv, DatasetTypeOK, Lists
<1>2. PICK c : lsdb' = [lsdb EXCEPT ![k] = c] /\ c \in Lists
  <2>1. CASE \E l \in Lsas \ ToSet(lsdb[k]) : lsdb' = [lsdb EXCEPT ![k] = Append(@, l)]
    <3>1. PICK l \in Lsas : lsdb' = [lsdb EXCEPT ![k] = Append(lsdb[k], l)]
      BY <2>1
    <3>2. Append(lsdb[k], l) \in Lists
      BY <1>1, AppendProperties DEF Lists
    <3> QED
      BY <3>1, <3>2
  <2>2. CASE \E i \in DOMAIN lsdb[k] : lsdb' = [lsdb EXCEPT ![k] = RemoveAt(@, i)]
    <3>1. PICK i \in DOMAIN lsdb[k] : lsdb' = [lsdb EXCEPT ![k] = RemoveAt(lsdb[k], i)]
      BY <2>2
    <3>2. Len(lsdb[k]) \in Nat /\ i \in 1..Len(lsdb[k]) /\ \A j \in 1..Len(lsdb[k]) : lsdb[k][j] \in Lsas
      BY <1>1, LenProperties, ElementOfSeq
    <3>3. SubSeq(lsdb[k], 1, i - 1) \in Seq(Lsas) /\ SubSeq(lsdb[k], i + 1, Len(lsdb[k])) \in Seq(Lsas)
      BY <3>2, SubSeqProperties
    <3>4. RemoveAt(lsdb[k], i) \in Lists
      BY <3>3, ConcatProperties DEF RemoveAt, Lists
    <3> QED
      BY <3>1, <3>4
  <2> QED
    BY <2>1, <2>2 DEF ChangeLsdb
<1>3. /\ past' = [past EXCEPT ![k] = @ \union {lsdb'[k]}]
      /\ fetch' = [fetch EXCEPT !.changes = @ + 1] /\ UNCHANGED <<cache, versions>>
  BY DEF ChangeLsdb
<1>4. /\ lsdb' \in [AllKinds -> Lists] /\ lsdb'[k] \in Lists
      /\ past' \in [AllKinds -> SUBSET Lists] /\ lsdb'[k] \in past'[k]
      /\ \A j \in AllKinds : past[j] \subseteq past'[j]
      /\ \A j \in AllKinds : j # k => lsdb'[j] = lsdb[j]
  BY <1>2, <1>3 DEF DatasetIInv, DatasetTypeOK
<1>5. /\ fetch' \in FetchType
      /\ fetch'.step = fetch.step /\ fetch'.version = fetch.version /\ fetch'.next = fetch.next
      /\ fetch'.has = fetch.has /\ fetch'.result = fetch.result
  BY <1>3 DEF DatasetIInv, DatasetTypeOK, FetchType
<1>6. DatasetTypeOK'
  BY <1>3, <1>4, <1>5 DEF DatasetIInv, DatasetTypeOK
<1>7. NowIsPast'
  BY <1>4 DEF DatasetIInv, NowIsPast
<1>8. PICK w : Explains(w)
  BY DEF DatasetIInv
<1>9. Explains(w)'
  BY <1>3, <1>4, <1>5, <1>8 DEF Explains, Fetching, Kind
<1>10. FetchStartsAfresh'
  BY <1>5 DEF DatasetIInv, FetchStartsAfresh
<1>11. ResultsWereThere'
  <2>1. DOMAIN fetch.result \subseteq AllKinds
    BY DEF DatasetIInv, DatasetTypeOK, FetchType, ResultLists
  <2>2. \A j \in DOMAIN fetch.result : WasThere(fetch.result[j], past'[j])
    BY <1>4, <2>1 DEF DatasetIInv, ResultsWereThere, WasThere
  <2> QED
    BY <1>5, <2>2 DEF DatasetIInv, ResultsWereThere
<1> QED
  BY <1>6, <1>7, <1>9, <1>10, <1>11 DEF DatasetIInv

\* nlsrc starts with the first dataset.
LEMMA GetStatusInv ==
  ASSUME DatasetIInv, GetStatus
  PROVE  DatasetIInv'
<1>1. /\ fetch.step = 0 /\ fetch' = [fetch EXCEPT !.step = 1]
      /\ UNCHANGED <<lsdb, past, cache, versions>>
  BY DEF GetStatus
<1>2. fetch \in FetchType
  BY DEF DatasetIInv, DatasetTypeOK
<1>3. /\ fetch' \in FetchType /\ fetch'.step = 1 /\ fetch'.version = fetch.version
      /\ fetch'.next = fetch.next /\ fetch'.has = fetch.has /\ fetch'.result = fetch.result
  BY <1>1, <1>2 DEF FetchType
<1>4. fetch.version = NoVersion /\ FetchStartsAfresh'
  BY <1>1, <1>3 DEF DatasetIInv, FetchStartsAfresh
<1>5. NowIsPast' /\ DatasetTypeOK'
  BY <1>1, <1>3 DEF DatasetIInv, NowIsPast, DatasetTypeOK
<1>6. PICK w : Explains(w)
  BY DEF DatasetIInv
<1>7. Explains(w)'
  BY <1>1, <1>3, <1>4, <1>6 DEF Explains, Fetching
<1>8. ResultsWereThere'
  <2>1. DOMAIN fetch.result = {}
    BY <1>1, <1>2 DEF DatasetIInv, ResultsWereThere
  <2>2. {j \in 1..3 : j < 1} = {}
    OBVIOUS
  <2> QED
    BY <1>1, <1>3, <2>1, <2>2 DEF ResultsWereThere
<1> QED
  BY <1>3, <1>4, <1>5, <1>7, <1>8 DEF DatasetIInv

\* At first nothing has come.
LEMMA ComesBeforeFirst ==
  ASSUME NEW l \in Lists
  PROVE  ComesBefore(<<>>, l, 1)
<1>1. Encoded(l) \in Content
  BY Encoding
<1>2. SegmentCount(Encoded(l)) \in Nat \ {0}
  BY <1>1, CountProperties
<1>3. (1 - 1) * MaxSegmentSize = 0
  BY SegmentAssumption
<1>4. SubSeq(Encoded(l), 1, 0) = <<>>
  BY <1>1, SubSeqEmpty DEF Content
<1> QED
  BY <1>2, <1>3, <1>4 DEF ComesBefore, ReadBefore

\* What was received agrees as far as it did, whatever follows.
LEMMA AgreesWithMore ==
  ASSUME NEW l \in Lists, NEW has \in Received, NEW more \in Received,
         NEW p \in Nat, p < Len(has), AgreesUpTo(has, l, p)
  PROVE  p < Len(has \o more) /\ AgreesUpTo(has \o more, l, p)
<1>1. /\ Len(has) \in Nat /\ Len(more) \in Nat /\ Len(has \o more) = Len(has) + Len(more)
      /\ \A j \in 1..Len(has) : (has \o more)[j] = has[j]
  BY ConcatProperties, LenProperties DEF Received
<1>2. \A j \in 1..p : j \in 1..Len(has)
  BY <1>1
<1>3. p + 1 \in 1..Len(has)
  BY <1>1
<1> QED
  BY <1>1, <1>2, <1>3 DEF AgreesUpTo

\* The next segment leads to what comes before the one after it, or to the end.
LEMMA SegmentFollows ==
  ASSUME NEW l \in Lists, NEW has \in Received, NEW s, IsSegmentOf(s, l),
         ComesBefore(has, l, s.number)
  PROVE  /\ has \o s.content \in Received
         /\ ~s.final => ComesBefore(has \o s.content, l, s.number + 1)
         /\ s.final => \E p \in Nat :
              /\ AgreesUpTo(has \o s.content, l, p)
              /\ p < Len(has \o s.content) \/ has \o s.content = Encoded(l)
<1> DEFINE x == Encoded(l)
           i == s.number
           C == SegmentCount(x)
           c == has \o s.content
<1>1. x \in Content /\ Len(x) \in Nat
  BY Encoding, LenProperties DEF Content
<1>2. C \in Nat \ {0}
  BY <1>1, CountProperties
<1>3. /\ i \in 1..C
      /\ s.content = Segments(x)[i].content /\ s.final = Segments(x)[i].final
  BY DEF IsSegmentOf
<1>4. /\ Segments(x)[i].content \in Content
      /\ Segments(x)[i].final <=> i = C
      /\ i = C => ReadBefore(x, i) \o Segments(x)[i].content = x
      /\ i < C => ReadBefore(x, i) \o Segments(x)[i].content = ReadBefore(x, i + 1)
  BY <1>1, <1>3, SegmentProperties
<1>5. s.content \in Received
  <2>1. \A q \in Seq(Units) : q \in Seq(Units \union {Foreign})
    OBVIOUS
  <2> QED
    BY <1>3, <1>4, <2>1 DEF Content, Received
<1>6. c \in Received
  BY <1>5, ConcatProperties DEF Received
<1> HIDE DEF x, C, c
<1>7. CASE i \in 1..C /\ has = ReadBefore(x, i)
  <2>1. ~s.final => ComesBefore(c, l, i + 1)
    <3> SUFFICES ASSUME ~s.final
                 PROVE  ComesBefore(c, l, i + 1)
      OBVIOUS
    <3>1. i < C /\ i + 1 \in 1..C
      BY <1>2, <1>3, <1>4
    <3>2. c = ReadBefore(x, i + 1)
      BY <1>3, <1>4, <1>7, <3>1 DEF c
    <3> QED
      BY <3>1, <3>2 DEF ComesBefore, x, C
  <2>2. s.final => c = x
    BY <1>3, <1>4, <1>7 DEF c
  <2>3. Len(x) \in Nat /\ AgreesUpTo(x, l, Len(x))
    BY <1>1 DEF AgreesUpTo, x
  <2> QED
    BY <1>6, <2>1, <2>2, <2>3 DEF c, x
<1>8. CASE \E p \in Nat : p < Len(has) /\ AgreesUpTo(has, l, p)
  <2>1. PICK p \in Nat : p < Len(has) /\ AgreesUpTo(has, l, p)
    BY <1>8
  <2>2. p < Len(c) /\ AgreesUpTo(c, l, p)
    BY <1>5, <2>1, AgreesWithMore DEF c
  <2> QED
    BY <1>6, <2>2 DEF c, ComesBefore
<1> QED
  BY <1>7, <1>8 DEF ComesBefore, x, C

\* An error in the place of a segment.
LEMMA ErrorFollows ==
  ASSUME NEW l \in Lists, NEW has \in Received, NEW i \in Nat \ {0}, ComesBefore(has, l, i)
  PROVE  /\ Append(has, Foreign) \in Received
         /\ ComesBefore(Append(has, Foreign), l, i + 1)
<1> DEFINE x == Encoded(l)
           e == Append(has, Foreign)
<1>1. x \in Content /\ Len(x) \in Nat /\ Len(has) \in Nat
  BY Encoding, LenProperties DEF Content, Received
<1>2. /\ e \in Received /\ Len(e) = Len(has) + 1 /\ e[Len(has) + 1] = Foreign
      /\ \A j \in 1..Len(has) : e[j] = has[j]
  BY AppendProperties DEF Received
<1> HIDE DEF e, x
<1>3. CASE i \in 1..SegmentCount(x) /\ has = ReadBefore(x, i)
  <2> DEFINE a == (i - 1) * MaxSegmentSize
  <2>1. a \in Nat /\ a <= Len(x)
    <3>1. SegmentCount(x) \in Nat \ {0} /\ \A j \in 1..SegmentCount(x) : j < SegmentCount(x) => j * MaxSegmentSize < Len(x)
      BY <1>1, CountProperties
    <3>2. CASE i = 1
      BY <1>1, <3>2, SegmentAssumption
    <3>3. CASE i # 1
      <4>1. i - 1 \in 1..SegmentCount(x) /\ i - 1 < SegmentCount(x) /\ i - 1 \in Nat
        BY <1>3, <3>1, <3>3
      <4>2. a < Len(x)
        BY <3>1, <4>1
      <4>3. a \in Nat
        BY <4>1, SegmentAssumption, ProductGrows
      <4> QED
        BY <1>1, <4>2, <4>3
    <3> QED
      BY <3>2, <3>3
  <2> HIDE DEF a
  <2>2. has = SubSeq(x, 1, a)
    BY <1>3 DEF ReadBefore, a
  <2>3. Len(has) = a /\ \A j \in 1..a : has[j] = x[j]
    BY <1>1, <2>1, <2>2 DEF Content
  <2>4. a < Len(e) /\ AgreesUpTo(e, l, a)
    BY <1>1, <1>2, <2>1, <2>3 DEF AgreesUpTo, x
  <2> QED
    BY <1>2, <2>1, <2>4 DEF ComesBefore, e
<1>4. CASE \E p \in Nat : p < Len(has) /\ AgreesUpTo(has, l, p)
  <2>1. PICK p \in Nat : p < Len(has) /\ AgreesUpTo(has, l, p)
    BY <1>4
  <2>2. p < Len(e) /\ (\A j \in 1..p : e[j] = has[j]) /\ e[p + 1] = has[p + 1]
    BY <1>1, <1>2, <2>1
  <2>3. AgreesUpTo(e, l, p)
    BY <1>1, <1>2, <2>1, <2>2 DEF AgreesUpTo
  <2> QED
    BY <1>2, <2>2, <2>3 DEF ComesBefore, e
<1> QED
  BY <1>3, <1>4 DEF ComesBefore, x

\* What is printed of what has come: the LSAs, or the first of them.
LEMMA ReadIsTold ==
  ASSUME NEW l \in Lists, NEW c \in Received, NEW n \in Nat, Reads(c, n),
         NEW p \in Nat, AgreesUpTo(c, l, p), p < Len(c) \/ c = Encoded(l)
  PROVE  LsasRead(c, n) \in Lists /\ Told([lsas |-> LsasRead(c, n), broken |-> Foreign \in ToSet(c)], l)
<1>1. /\ LsasRead(c, n) \in Lists /\ IsPrefix(LsasRead(c, n), l)
      /\ c = Encoded(l) => LsasRead(c, n) = l
  BY ReadIntact DEF Received
<1>2. p < Len(c) => Foreign \in ToSet(c)
  <2> SUFFICES ASSUME p < Len(c)
               PROVE  Foreign \in ToSet(c)
    OBVIOUS
  <2>1. Len(c) \in Nat /\ DOMAIN c = 1..Len(c)
    BY LenProperties DEF Received
  <2>2. p + 1 \in DOMAIN c /\ c[p + 1] = Foreign
    BY <2>1 DEF AgreesUpTo
  <2> QED
    BY <2>2 DEF ToSet
<1> QED
  BY <1>1, <1>2 DEF Told

\* A result of LSAs the database had had is one that was there.
LEMMA ToldWasThere ==
  ASSUME NEW l \in Lists, NEW S, Reverse(l) \in S, NEW r, Told(r, l)
  PROVE  WasThere(r, S)
  BY ReverseTwice DEF Told, WasThere

\* A segment that comes goes on with its version, ends the dataset with a result
\* that was there, or ends the run.
LEMMA ReceiveInv ==
  ASSUME DatasetTypeOK, FetchStartsAfresh, ResultsWereThere, Fetching,
         NEW l \in Lists, Reverse(l) \in past[Kind],
         NEW s, IsSegmentOf(s, l), s.version \in Nat \ {0}, s.number = fetch.next,
         ComesBefore(fetch.has, l, fetch.next), Receive(s), UNCHANGED past
  PROVE  /\ fetch' \in FetchType /\ FetchStartsAfresh' /\ ResultsWereThere'
         /\ Fetching' /\ fetch'.version # NoVersion =>
              fetch'.version = s.version /\ Kind' = Kind /\ ComesBefore(fetch'.has, l, fetch'.next)
<1>1. fetch \in FetchType /\ fetch.step \in 1..3 /\ fetch.has \in Received
  BY DEF DatasetTypeOK, Fetching, FetchType
<1>2. Kind \in AllKinds
  BY <1>1, KindsAreThree DEF Kind
<1>3. ComesBefore(fetch.has, l, s.number)
  OBVIOUS
<1> DEFINE c == fetch.has \o s.content
<1>4. /\ c \in Received
      /\ ~s.final => ComesBefore(c, l, s.number + 1)
      /\ s.final => \E p \in Nat : AgreesUpTo(c, l, p) /\ (p < Len(c) \/ c = Encoded(l))
  BY <1>1, <1>3, SegmentFollows
<1> HIDE DEF c
<1>5. CASE ~s.final /\ fetch' = [fetch EXCEPT !.version = s.version, !.next = s.number + 1, !.has = c]
  <2>1. s.number + 1 \in Nat \ {0}
    BY <1>1 DEF FetchType
  <2>2. /\ fetch' \in FetchType /\ fetch'.step = fetch.step /\ fetch'.version = s.version
        /\ fetch'.next = s.number + 1 /\ fetch'.has = c /\ fetch'.result = fetch.result
    BY <1>1, <1>4, <1>5, <2>1 DEF FetchType
  <2>3. Kind' = Kind
    BY <2>2 DEF Kind
  <2>4. FetchStartsAfresh'
    BY <1>1, <2>2 DEF FetchStartsAfresh, NoVersion
  <2>5. ResultsWereThere'
    BY <2>2 DEF ResultsWereThere
  <2> QED
    BY <1>4, <1>5, <2>2, <2>3, <2>4, <2>5
<1>6. CASE s.final /\ OnFetchSuccess(c)
  <2>1. PICK n \in 0..Len(c) :
          /\ Reads(c, n)
          /\ \/ fetch' = [fetch EXCEPT
                   !.step = @ + 1, !.version = NoVersion, !.next = 1, !.has = <<>>,
                   !.result = [k \in DOMAIN @ \union {Kind} |->
                      IF k = Kind THEN [lsas |-> LsasRead(c, n), broken |-> Foreign \in ToSet(c)] ELSE @[k]]]
             \/ n * LsaSize # Len(c) /\ fetch' = [fetch EXCEPT !.step = 6]
    BY <1>6 DEF OnFetchSuccess
  <2>2. CASE fetch' = [fetch EXCEPT !.step = 6]
    <3>1. fetch' \in FetchType /\ fetch'.step = 6 /\ fetch'.result = fetch.result
      BY <1>1, <2>2 DEF FetchType
    <3> QED
      BY <3>1 DEF FetchStartsAfresh, ResultsWereThere, Fetching
  <2>3. CASE fetch' = [fetch EXCEPT
                   !.step = @ + 1, !.version = NoVersion, !.next = 1, !.has = <<>>,
                   !.result = [k \in DOMAIN @ \union {Kind} |->
                      IF k = Kind THEN [lsas |-> LsasRead(c, n), broken |-> Foreign \in ToSet(c)] ELSE @[k]]]
    <3>1. PICK p \in Nat : AgreesUpTo(c, l, p) /\ (p < Len(c) \/ c = Encoded(l))
      BY <1>4, <1>6
    <3>2. n \in Nat
      BY <1>4, LenProperties DEF Received
    <3> DEFINE r == [lsas |-> LsasRead(c, n), broken |-> Foreign \in ToSet(c)]
               result == [k \in DOMAIN fetch.result \union {Kind} |-> IF k = Kind THEN r ELSE fetch.result[k]]
    <3>3. LsasRead(c, n) \in Lists /\ Told(r, l)
      BY <1>4, <2>1, <3>1, <3>2, ReadIsTold
    <3>4. r \in [lsas : Lists, broken : BOOLEAN]
      BY <3>3
    <3>5. fetch' = [fetch EXCEPT !.step = @ + 1, !.version = NoVersion, !.next = 1, !.has = <<>>,
                      !.result = result]
      BY <2>3
    <3>6. WasThere(r, past[Kind])
      BY <3>3, ToldWasThere
    <3> HIDE DEF r
    <3>7. /\ DOMAIN result = DOMAIN fetch.result \union {Kind}
          /\ result[Kind] = r
          /\ \A k \in DOMAIN fetch.result : k # Kind => result[k] = fetch.result[k]
      OBVIOUS
    <3>8. /\ DOMAIN fetch.result \subseteq AllKinds
          /\ fetch.result \in [DOMAIN fetch.result -> [lsas : Lists, broken : BOOLEAN]]
      BY <1>1 DEF ResultLists, FetchType
    <3>9. result \in [DOMAIN fetch.result \union {Kind} -> [lsas : Lists, broken : BOOLEAN]]
      BY <3>4, <3>8
    <3>10. result \in ResultLists
      BY <1>2, <3>8, <3>9 DEF ResultLists
    <3> HIDE DEF result
    <3>11. /\ fetch'.step = fetch.step + 1 /\ fetch'.version = NoVersion /\ fetch'.next = 1
           /\ fetch'.has = <<>> /\ fetch'.result = result
      BY <1>1, <3>5 DEF FetchType
    <3>12. fetch' \in FetchType
      <4>1. fetch' = [step |-> fetch.step + 1, version |-> NoVersion, next |-> 1, has |-> <<>>,
                      changes |-> fetch.changes, result |-> result]
        BY <1>1, <3>5 DEF FetchType
      <4>2. fetch.step + 1 \in 0..6 /\ NoVersion \in Nat /\ 1 \in Nat \ {0} /\ fetch.changes \in Nat
        BY <1>1 DEF NoVersion, FetchType
      <4>3. <<>> \in Received
        BY DEF Received
      <4> QED
        BY <3>10, <4>1, <4>2, <4>3 DEF FetchType
    <3>13. FetchStartsAfresh'
      BY <1>1, <3>11 DEF FetchStartsAfresh
    <3>14. ResultsWereThere'
      <4>1. fetch'.step \in 0..4 /\ fetch.step \in 0..4
        BY <1>1, <3>11
      <4>2. DOMAIN fetch.result = {Kinds[j] : j \in {m \in 1..3 : m < fetch.step}}
        BY <4>1 DEF ResultsWereThere
      <4>3. DOMAIN result = {Kinds[j] : j \in {m \in 1..3 : m < fetch.step + 1}}
        <5>1. {m \in 1..3 : m < fetch.step + 1} = {m \in 1..3 : m < fetch.step} \union {fetch.step}
          BY <1>1
        <5> QED
          BY <3>7, <4>2, <5>1 DEF Kind
      <4>4. \A k \in DOMAIN result : WasThere(result[k], past[k])
        BY <3>6, <3>7 DEF ResultsWereThere
      <4> QED
        BY <3>11, <4>3, <4>4 DEF ResultsWereThere
    <3> QED
      BY <3>11, <3>12, <3>13, <3>14
  <2> QED
    BY <2>1, <2>2, <2>3
<1> QED
  BY <1>5, <1>6 DEF Receive, c

\* What explains the versions and leaves the database as it is goes on doing so.
LEMMA ExplainedInv ==
  ASSUME DatasetIInv, UNCHANGED <<lsdb, past>>, versions' \in Nat, fetch' \in FetchType,
         FetchStartsAfresh', ResultsWereThere', NEW w, Explains(w)'
  PROVE  DatasetIInv'
<1>1. DatasetTypeOK' /\ NowIsPast'
  BY DEF DatasetIInv, DatasetTypeOK, NowIsPast
<1> QED
  BY <1>1 DEF DatasetIInv

\* A segment is the next one of the version that is read, so that all together
\* are its content.
LEMMA RequestSegmentInv ==
  ASSUME DatasetIInv, RequestSegment
  PROVE  DatasetIInv'
<1>1. /\ Fetching /\ fetch.version # NoVersion /\ UNCHANGED <<lsdb, past, cache, versions>>
      /\ fetch \in FetchType /\ versions \in Nat
  BY DEF RequestSegment, DatasetIInv, DatasetTypeOK
<1>2. PICK w : Explains(w)
  BY DEF DatasetIInv
<1>3. PICK s \in cache : s.kind = Kind /\ s.version = fetch.version /\ s.number = fetch.next /\ Receive(s)
  BY DEF RequestSegment
<1> DEFINE l == w[fetch.version].lsas
<1>4. /\ fetch.version \in 1..versions /\ w[fetch.version].kind = Kind /\ l \in Lists
      /\ Reverse(l) \in past[Kind] /\ ComesBefore(fetch.has, l, fetch.next)
      /\ IsSegmentOf(s, l) /\ s.version \in Nat \ {0}
  BY <1>1, <1>2, <1>3 DEF Explains
<1>5. DatasetTypeOK /\ FetchStartsAfresh /\ ResultsWereThere /\ UNCHANGED past
  BY <1>1 DEF DatasetIInv
<1> HIDE DEF l
<1>6. /\ fetch' \in FetchType /\ FetchStartsAfresh' /\ ResultsWereThere'
      /\ Fetching' /\ fetch'.version # NoVersion =>
           fetch'.version = s.version /\ Kind' = Kind /\ ComesBefore(fetch'.has, l, fetch'.next)
  BY <1>1, <1>3, <1>4, <1>5, ReceiveInv
<1>7. Explains(w)'
  BY <1>1, <1>2, <1>3, <1>4, <1>6 DEF Explains, l
<1> QED
  BY <1>1, <1>6, <1>7, ExplainedInv

\* A version is one of the cache, or the next one, of the database as it is.
LEMMA RequestVersionInv ==
  ASSUME DatasetIInv, RequestVersion
  PROVE  DatasetIInv'
<1>1. /\ Fetching /\ fetch.version = NoVersion /\ UNCHANGED <<lsdb, past>>
      /\ fetch \in FetchType /\ versions \in Nat
  BY DEF RequestVersion, DatasetIInv, DatasetTypeOK
<1>2. PICK w : Explains(w)
  BY DEF DatasetIInv
<1>3. fetch.step \in 1..3 /\ Kind \in AllKinds
  BY <1>1, KindsAreThree DEF Kind, Fetching
<1>4. fetch.next = 1 /\ fetch.has = <<>>
  BY <1>1, <1>3 DEF DatasetIInv, FetchStartsAfresh
<1>5. DatasetTypeOK /\ FetchStartsAfresh /\ ResultsWereThere /\ UNCHANGED past
  BY <1>1 DEF DatasetIInv
<1>6. ASSUME NEW s \in cache, s.kind = Kind, s.number = 1 /\ Receive(s), UNCHANGED <<cache, versions>>
      PROVE  DatasetIInv'
  <2> DEFINE l == w[s.version].lsas
  <2>1. /\ s.version \in 1..versions /\ w[s.version].kind = Kind /\ l \in Lists
        /\ Reverse(l) \in past[Kind] /\ IsSegmentOf(s, l) /\ s.version \in Nat \ {0}
    BY <1>1, <1>2, <1>6 DEF Explains
  <2> HIDE DEF l
  <2>2. s.number = fetch.next /\ ComesBefore(fetch.has, l, fetch.next)
    BY <1>4, <1>6, <2>1, ComesBeforeFirst
  <2>3. /\ fetch' \in FetchType /\ FetchStartsAfresh' /\ ResultsWereThere'
        /\ Fetching' /\ fetch'.version # NoVersion =>
             fetch'.version = s.version /\ Kind' = Kind /\ ComesBefore(fetch'.has, l, fetch'.next)
    BY <1>1, <1>5, <1>6, <2>1, <2>2, ReceiveInv
  <2>4. Explains(w)'
    BY <1>1, <1>2, <1>6, <2>1, <2>3 DEF Explains, l
  <2> QED
    BY <1>1, <1>6, <2>3, <2>4, ExplainedInv
<1>7. ASSUME NEW s \in cache, s.kind = Kind, fetch' = [fetch EXCEPT !.version = s.version],
             UNCHANGED <<cache, versions>>
      PROVE  DatasetIInv'
  <2>1. /\ s.version \in 1..versions /\ w[s.version].kind = Kind /\ w[s.version].lsas \in Lists
        /\ s.version \in Nat \ {0}
    BY <1>1, <1>2, <1>7 DEF Explains
  <2>2. /\ fetch' \in FetchType /\ fetch'.step = fetch.step /\ fetch'.version = s.version
        /\ fetch'.next = 1 /\ fetch'.has = <<>> /\ fetch'.result = fetch.result
    BY <1>1, <1>4, <1>7, <2>1 DEF FetchType
  <2>3. FetchStartsAfresh' /\ ResultsWereThere' /\ Kind' = Kind
    BY <1>1, <1>3, <1>5, <2>1, <2>2 DEF FetchStartsAfresh, ResultsWereThere, Kind, NoVersion
  <2>4. ComesBefore(<<>>, w[s.version].lsas, 1)
    BY <2>1, ComesBeforeFirst
  <2>5. Explains(w)'
    BY <1>1, <1>2, <1>7, <2>1, <2>2, <2>3, <2>4 DEF Explains
  <2> QED
    BY <1>1, <1>7, <2>2, <2>3, <2>5, ExplainedInv
<1>8. ASSUME cache' = cache \union Publish(Kind, versions + 1), versions' = versions + 1,
             NEW s \in Publish(Kind, versions + 1), s.number = 1 /\ Receive(s)
      PROVE  DatasetIInv'
  <2> DEFINE l == Reverse(lsdb[Kind])
             x == [v \in 1..versions + 1 |-> IF v = versions + 1 THEN [kind |-> Kind, lsas |-> l] ELSE w[v]]
             segments == Segments(Encoded(l))
  <2>1. lsdb[Kind] \in Lists /\ lsdb[Kind] \in past[Kind]
    BY <1>3 DEF DatasetIInv, DatasetTypeOK, NowIsPast
  <2>2. l \in Lists /\ Reverse(l) \in past[Kind]
    BY <2>1, ReverseTwice
  <2>3. Encoded(l) \in Content
    BY <2>2, Encoding
  <2>4. DOMAIN segments = 1..SegmentCount(Encoded(l))
    BY <2>3, SegmentProperties
  <2>5. Publish(Kind, versions + 1)
          = {[kind |-> Kind, version |-> versions + 1, number |-> i, content |-> segments[i].content,
              final |-> segments[i].final] : i \in DOMAIN segments}
    BY DEF Publish
  <2> HIDE DEF segments, l
  <2>6. \A t \in Publish(Kind, versions + 1) :
          /\ t.version = versions + 1 /\ t.kind = Kind /\ t.number \in 1..SegmentCount(Encoded(l))
          /\ t.content = segments[t.number].content /\ t.final = segments[t.number].final
    BY <2>4, <2>5
  <2>7. \A t \in Publish(Kind, versions + 1) :
          t.version = versions + 1 /\ t.kind = Kind /\ IsSegmentOf(t, l)
    BY <2>6 DEF IsSegmentOf, segments
  <2>8. /\ x \in [1..versions + 1 -> [kind : AllKinds, lsas : Lists]]
        /\ x[versions + 1].kind = Kind /\ x[versions + 1].lsas = l
        /\ \A v \in 1..versions : v \in 1..versions + 1 /\ x[v] = w[v]
    BY <1>1, <1>2, <1>3, <2>2 DEF Explains
  <2> HIDE DEF x
  <2>9. versions + 1 \in 1..versions + 1 /\ versions + 1 \in Nat \ {0}
    BY <1>1
  <2>10. s.version \in Nat \ {0} /\ s.version = versions + 1 /\ IsSegmentOf(s, l)
    BY <1>8, <2>7, <2>9
  <2>11. s.number = fetch.next /\ ComesBefore(fetch.has, l, fetch.next)
    BY <1>4, <1>8, <2>2, ComesBeforeFirst
  <2>12. /\ fetch' \in FetchType /\ FetchStartsAfresh' /\ ResultsWereThere'
         /\ Fetching' /\ fetch'.version # NoVersion =>
              fetch'.version = s.version /\ Kind' = Kind /\ ComesBefore(fetch'.has, l, fetch'.next)
    BY <1>1, <1>5, <1>8, <2>2, <2>10, <2>11, ReceiveInv
  <2>13. \A v \in 1..versions + 1 : Reverse(x[v].lsas) \in past[x[v].kind]
    BY <1>1, <1>2, <2>2, <2>8 DEF Explains
  <2>14. ASSUME NEW t \in cache'
         PROVE  t.version \in 1..versions + 1 /\ t.kind = x[t.version].kind /\ IsSegmentOf(t, x[t.version].lsas)
    <3>1. CASE t \in cache
      BY <1>2, <2>8, <3>1 DEF Explains
    <3>2. CASE t \in Publish(Kind, versions + 1)
      BY <2>7, <2>8, <2>9, <3>2
    <3> QED
      BY <1>8, <3>1, <3>2
  <2>15. PICK y : y = x
    OBVIOUS
  <2>16. Explains(y)'
    BY <1>1, <1>8, <2>8, <2>9, <2>10, <2>12, <2>13, <2>14, <2>15 DEF Explains
  <2>17. versions' \in Nat /\ UNCHANGED <<lsdb, past>>
    BY <1>1, <1>8, <2>9
  <2> QED
    BY <2>12, <2>16, <2>17, ExplainedInv
<1> QED
  BY <1>6, <1>7, <1>8 DEF RequestVersion

\* An error comes in the place of a segment.
LEMMA RequestDroppedSegmentInv ==
  ASSUME DatasetIInv, RequestDroppedSegment
  PROVE  DatasetIInv'
<1>1. /\ Fetching /\ fetch.version # NoVersion /\ UNCHANGED <<lsdb, past, cache, versions>>
      /\ fetch \in FetchType /\ versions \in Nat
      /\ fetch' = [fetch EXCEPT !.next = @ + 1, !.has = Append(@, Foreign)]
  BY DEF RequestDroppedSegment, DatasetIInv, DatasetTypeOK
<1>2. PICK w : Explains(w)
  BY DEF DatasetIInv
<1> DEFINE l == w[fetch.version].lsas
<1>3. l \in Lists /\ fetch.has \in Received /\ fetch.next \in Nat \ {0} /\ ComesBefore(fetch.has, l, fetch.next)
  BY <1>1, <1>2 DEF Explains, FetchType
<1>4. Append(fetch.has, Foreign) \in Received /\ ComesBefore(Append(fetch.has, Foreign), l, fetch.next + 1)
  BY <1>3, ErrorFollows
<1> DEFINE e == Append(fetch.has, Foreign)
<1>5. /\ fetch' \in FetchType /\ fetch'.step = fetch.step /\ fetch'.version = fetch.version
      /\ fetch'.next = fetch.next + 1 /\ fetch'.has = e /\ fetch'.result = fetch.result
  <2>1. fetch' = [fetch EXCEPT !.next = fetch.next + 1, !.has = e]
    BY <1>1
  <2>2. e \in Received /\ fetch.next + 1 \in Nat \ {0}
    BY <1>3, <1>4
  <2> HIDE DEF e
  <2> QED
    BY <1>1, <2>1, <2>2 DEF FetchType
<1>6. FetchStartsAfresh' /\ ResultsWereThere' /\ Kind' = Kind
  BY <1>1, <1>5 DEF DatasetIInv, FetchStartsAfresh, ResultsWereThere, Kind, Fetching
<1>7. Explains(w)'
  BY <1>1, <1>2, <1>4, <1>5, <1>6 DEF Explains, Fetching
<1> QED
  BY <1>1, <1>5, <1>6, <1>7, ExplainedInv

\* The run of nlsrc ends.
LEMMA RequestTimesOutInv ==
  ASSUME DatasetIInv, RequestTimesOut
  PROVE  DatasetIInv'
<1>1. fetch' = [fetch EXCEPT !.step = 5] /\ UNCHANGED <<lsdb, past, cache, versions>>
  BY DEF RequestTimesOut
<1>2. PICK w : Explains(w)
  BY DEF DatasetIInv
<1>3. fetch \in FetchType /\ versions \in Nat
  BY DEF DatasetIInv, DatasetTypeOK
<1>4. fetch' \in FetchType /\ fetch'.step = 5 /\ fetch'.result = fetch.result
  BY <1>1, <1>3 DEF FetchType
<1>5. FetchStartsAfresh' /\ ResultsWereThere'
  BY <1>1, <1>4 DEF DatasetIInv, FetchStartsAfresh, ResultsWereThere
<1>6. Explains(w)'
  BY <1>1, <1>2, <1>4 DEF Explains, Fetching
<1> QED
  BY <1>1, <1>3, <1>4, <1>5, <1>6, ExplainedInv

\* A segment goes from the cache.
LEMMA DropSegmentInv ==
  ASSUME DatasetIInv, DropSegment
  PROVE  DatasetIInv'
<1>1. cache' \subseteq cache /\ UNCHANGED <<lsdb, past, versions, fetch>>
  BY DEF DropSegment
<1>2. PICK w : Explains(w)
  BY DEF DatasetIInv
<1>3. Explains(w)'
  BY <1>1, <1>2 DEF Explains, Fetching, Kind
<1> QED
  BY <1>1, <1>3 DEF DatasetIInv, DatasetTypeOK, NowIsPast, FetchStartsAfresh, ResultsWereThere

\* Every step keeps the invariant.
LEMMA DatasetStepInv == DatasetIInv /\ [DatasetNext]_datasetVars => DatasetIInv'
<1> SUFFICES ASSUME DatasetIInv, [DatasetNext]_datasetVars
             PROVE  DatasetIInv'
  OBVIOUS
<1>1. ASSUME NEW k \in ToSet(Kinds), ChangeLsdb(k)
      PROVE  DatasetIInv'
  BY <1>1, ChangeLsdbInv DEF AllKinds
<1>2. CASE GetStatus
  BY <1>2, GetStatusInv
<1>3. CASE RequestVersion
  BY <1>3, RequestVersionInv
<1>4. CASE RequestSegment
  BY <1>4, RequestSegmentInv
<1>5. CASE RequestDroppedSegment
  BY <1>5, RequestDroppedSegmentInv
<1>6. CASE RequestTimesOut
  BY <1>6, RequestTimesOutInv
<1>7. CASE DropSegment
  BY <1>7, DropSegmentInv
<1>8. CASE UNCHANGED datasetVars
  <2>1. PICK w : Explains(w)
    BY DEF DatasetIInv
  <2>2. Explains(w)'
    BY <1>8, <2>1 DEF datasetVars, Explains, Fetching, Kind
  <2> QED
    BY <1>8, <2>2
       DEF datasetVars, DatasetIInv, DatasetTypeOK, NowIsPast, FetchStartsAfresh, ResultsWereThere
<1> QED
  BY <1>1, <1>2, <1>3, <1>4, <1>5, <1>6, <1>7, <1>8 DEF DatasetNext

\* DatasetIInv holds in every state.
THEOREM DatasetInvCorrect == DatasetSpec => []DatasetIInv
  BY DatasetInitInv, DatasetStepInv, PTL DEF DatasetSpec

\* What nlsrc prints the database has had, whole and last one first, wherever
\* segments were cut (segment-publisher.hpp:67); and if errors were answered in
\* the place of segments (nlsrc.cpp:243), the first LSAs of what it has had.
THEOREM PrintedWasThereCorrect == DatasetSpec => []PrintedWasThere
<1>1. DatasetIInv => PrintedWasThere
  <2> SUFFICES ASSUME DatasetIInv, fetch.step = 4
               PROVE  /\ DOMAIN fetch.result = AllKinds
                      /\ \A k \in AllKinds : WasThere(fetch.result[k], past[k])
    BY DEF PrintedWasThere, AllKinds, WasThere
  <2>1. DOMAIN fetch.result = {Kinds[i] : i \in {j \in 1..3 : j < 4}}
    BY DEF DatasetIInv, ResultsWereThere
  <2>2. DOMAIN fetch.result = AllKinds
    BY <2>1, KindsAreThree
  <2> QED
    BY <2>2 DEF DatasetIInv, ResultsWereThere
<1> QED
  BY <1>1, DatasetInvCorrect, PTL

-----------------------------------------------------------------------------
(* Configuration: what sections of different kinds set together.           *)

OfKind(S, kind) == {s \in S : s.kind = kind}
HasKind(S, kind) == OfKind(S, kind) # {}
The(S, kind) == CHOOSE s \in OfKind(S, kind) : TRUE

GeneralSettings == {"lsaRefreshTime", "lsaInterestLifetime"}

SettingsOf(S) ==
  [k \in DOMAIN Defaults |->
     IF k \in GeneralSettings /\ HasKind(S, "general") THEN Setting(The(S, "general"), k)
     ELSE IF k \in NeighborSettings /\ HasKind(S, "neighbors") THEN Setting(The(S, "neighbors"), k)
     ELSE IF k \in FibSettings /\ HasKind(S, "fib") THEN Setting(The(S, "fib"), k)
     ELSE Defaults[k]]
RouterDeadIntervalOf(S) == IF HasKind(S, "general") THEN DeadInterval(The(S, "general")) ELSE 3600
IsThere(S, kind) == IF HasKind(S, kind) THEN TRUE ELSE FALSE
HyperbolicOf(S) ==
  IF ~HasKind(S, "hyperbolic") THEN "off"
  ELSE IF The(S, "hyperbolic").state = "ON" THEN "on" ELSE The(S, "hyperbolic").state
CoordinatesOf(S) == IF HasKind(S, "hyperbolic") THEN The(S, "hyperbolic").coordinates = "good" ELSE FALSE
NeighborsOf(S) ==
  IF HasKind(S, "neighbors") THEN InsertNeighbors(<<>>, The(S, "neighbors").neighbors) ELSE <<>>
PrefixesOf(S) == IF HasKind(S, "advertising") THEN The(S, "advertising").prefixes \union {} ELSE {}
PrefixUpdatesOf(S) == IF HasKind(S, "security") THEN TakesUpdates(The(S, "security")) ELSE FALSE
PublishedOf(S) == IF HasKind(S, "security") THEN CertificatesRead(The(S, "security")) ELSE {}

\* The configuration after sections of different kinds, whatever their order.
ConfOf(S) ==
  [settings |-> SettingsOf(S), routerDeadInterval |-> RouterDeadIntervalOf(S),
   named |-> IsThere(S, "general"), directories |-> IsThere(S, "general"),
   hyperbolic |-> HyperbolicOf(S), coordinates |-> CoordinatesOf(S), neighbors |-> NeighborsOf(S),
   prefixes |-> PrefixesOf(S), validator |-> IsThere(S, "security"),
   prefixUpdates |-> PrefixUpdatesOf(S), published |-> PublishedOf(S)]

\* Without sections there are the defaults.
LEMMA ConfOfNone == ConfOf({}) = ConfParameter
<1>1. \A kind : ~HasKind({}, kind)
  BY DEF HasKind, OfKind
<1>2. SettingsOf({}) = Defaults
  BY <1>1 DEF Defaults, SettingsOf
<1>3. /\ RouterDeadIntervalOf({}) = 3600 /\ HyperbolicOf({}) = "off" /\ NeighborsOf({}) = <<>>
      /\ PrefixesOf({}) = {} /\ PublishedOf({}) = {}
  BY <1>1 DEF RouterDeadIntervalOf, HyperbolicOf, NeighborsOf, PrefixesOf, PublishedOf
<1>4. /\ IsThere({}, "general") = FALSE /\ IsThere({}, "security") = FALSE
      /\ CoordinatesOf({}) = FALSE /\ PrefixUpdatesOf({}) = FALSE
  BY <1>1 DEF IsThere, CoordinatesOf, PrefixUpdatesOf
<1>5. ConfParameter = [settings |-> Defaults, routerDeadInterval |-> 3600, named |-> FALSE, directories |-> FALSE,
       hyperbolic |-> "off", coordinates |-> FALSE, neighbors |-> <<>>, prefixes |-> {},
       validator |-> FALSE, prefixUpdates |-> FALSE, published |-> {}]
  BY DEF ConfParameter
<1>6. ConfOf({}) = [settings |-> SettingsOf({}), routerDeadInterval |-> RouterDeadIntervalOf({}),
   named |-> IsThere({}, "general"), directories |-> IsThere({}, "general"),
   hyperbolic |-> HyperbolicOf({}), coordinates |-> CoordinatesOf({}), neighbors |-> NeighborsOf({}),
   prefixes |-> PrefixesOf({}), validator |-> IsThere({}, "security"),
   prefixUpdates |-> PrefixUpdatesOf({}), published |-> PublishedOf({})]
  BY DEF ConfOf
<1> QED
  BY <1>2, <1>3, <1>4, <1>5, <1>6

\* A section of a kind that is not there yet sets what is its own.
LEMMA ConfOfOneMore ==
  ASSUME NEW S, NEW s, \A t \in S : t.kind # s.kind
  PROVE  ConfOf(S \union {s}) = ProcessSection(ConfOf(S), s)
<1> DEFINE c == ConfOf(S)
           T == S \union {s}
<1>1. HasKind(T, s.kind) /\ The(T, s.kind) = s /\ ~HasKind(S, s.kind)
  <2>1. OfKind(T, s.kind) = {s} /\ OfKind(S, s.kind) = {}
    BY DEF OfKind
  <2> QED
    BY <2>1 DEF HasKind, The
<1>2. \A kind : kind # s.kind => (HasKind(T, kind) <=> HasKind(S, kind)) /\ The(T, kind) = The(S, kind)
  <2>1. \A kind : kind # s.kind => OfKind(T, kind) = OfKind(S, kind)
    BY DEF OfKind
  <2> QED
    BY <2>1 DEF HasKind, The
<1> HIDE DEF T
<1>3. s.kind # "general" =>
        RouterDeadIntervalOf(T) = RouterDeadIntervalOf(S) /\ IsThere(T, "general") = IsThere(S, "general")
  BY <1>2 DEF RouterDeadIntervalOf, IsThere
<1>4. s.kind # "hyperbolic" => HyperbolicOf(T) = HyperbolicOf(S) /\ CoordinatesOf(T) = CoordinatesOf(S)
  BY <1>2 DEF HyperbolicOf, CoordinatesOf
<1>5. s.kind # "neighbors" => NeighborsOf(T) = NeighborsOf(S)
  BY <1>2 DEF NeighborsOf
<1>6. s.kind # "advertising" => PrefixesOf(T) = PrefixesOf(S)
  BY <1>2 DEF PrefixesOf
<1>7. s.kind # "security" => /\ IsThere(T, "security") = IsThere(S, "security")
                             /\ PrefixUpdatesOf(T) = PrefixUpdatesOf(S) /\ PublishedOf(T) = PublishedOf(S)
  BY <1>2 DEF IsThere, PrefixUpdatesOf, PublishedOf
<1>8. s.kind \notin {"general", "neighbors", "fib"} => SettingsOf(T) = SettingsOf(S)
  BY <1>2 DEF SettingsOf
<1>9. \A k : /\ k \in GeneralSettings => k \notin NeighborSettings /\ k \notin FibSettings
             /\ k \in NeighborSettings => k \notin FibSettings
  BY DEF GeneralSettings, NeighborSettings, FibSettings
<1>10. DOMAIN SettingsOf(S) = DOMAIN Defaults
  BY DEF SettingsOf
<1>11. c = [settings |-> SettingsOf(S), routerDeadInterval |-> RouterDeadIntervalOf(S),
            named |-> IsThere(S, "general"), directories |-> IsThere(S, "general"),
            hyperbolic |-> HyperbolicOf(S), coordinates |-> CoordinatesOf(S), neighbors |-> NeighborsOf(S),
            prefixes |-> PrefixesOf(S), validator |-> IsThere(S, "security"),
            prefixUpdates |-> PrefixUpdatesOf(S), published |-> PublishedOf(S)]
  BY DEF ConfOf
<1>12. ConfOf(T) = [settings |-> SettingsOf(T), routerDeadInterval |-> RouterDeadIntervalOf(T),
            named |-> IsThere(T, "general"), directories |-> IsThere(T, "general"),
            hyperbolic |-> HyperbolicOf(T), coordinates |-> CoordinatesOf(T), neighbors |-> NeighborsOf(T),
            prefixes |-> PrefixesOf(T), validator |-> IsThere(T, "security"),
            prefixUpdates |-> PrefixUpdatesOf(T), published |-> PublishedOf(T)]
  BY DEF ConfOf
<1> HIDE DEF c
<1> SUFFICES ConfOf(T) = ProcessSection(c, s)
  BY DEF T, c
<1>13. CASE s.kind = "general"
  <2>1. ProcessSection(c, s) = GeneralSection(c, s)
    BY <1>13 DEF ProcessSection
  <2>2. SettingsOf(T) = [k \in DOMAIN SettingsOf(S) |->
                           IF k \in GeneralSettings THEN Setting(s, k) ELSE SettingsOf(S)[k]]
    BY <1>1, <1>2, <1>9, <1>10, <1>13 DEF SettingsOf
  <2>3. RouterDeadIntervalOf(T) = DeadInterval(s)
    BY <1>1, <1>13 DEF RouterDeadIntervalOf
  <2>4. IsThere(T, "general") = TRUE
    BY <1>1, <1>13 DEF IsThere
  <2>5. GeneralSection(c, s) = [c EXCEPT !.settings = SettingsOf(T), !.routerDeadInterval = DeadInterval(s),
                                         !.named = TRUE, !.directories = TRUE]
    BY <1>11, <2>2 DEF GeneralSection, WithSettings, GeneralSettings
  <2> QED
    BY <1>4, <1>5, <1>6, <1>7, <1>11, <1>12, <1>13, <2>1, <2>3, <2>4, <2>5, ZenonT(60)
<1>14. CASE s.kind = "neighbors"
  <2>1. ProcessSection(c, s) = NeighborsSection(c, s)
    BY <1>14 DEF ProcessSection
  <2>2. SettingsOf(T) = [k \in DOMAIN SettingsOf(S) |->
                           IF k \in NeighborSettings THEN Setting(s, k) ELSE SettingsOf(S)[k]]
    BY <1>1, <1>2, <1>9, <1>10, <1>14 DEF SettingsOf
  <2>3. NeighborsOf(S) = <<>> /\ NeighborsOf(T) = InsertNeighbors(<<>>, s.neighbors)
    BY <1>1, <1>14 DEF NeighborsOf
  <2>4. NeighborsSection(c, s) = [c EXCEPT !.settings = SettingsOf(T), !.neighbors = NeighborsOf(T)]
    BY <1>11, <2>2, <2>3 DEF NeighborsSection, WithSettings
  <2> QED
    BY <1>3, <1>4, <1>6, <1>7, <1>11, <1>12, <1>14, <2>1, <2>4
<1>15. CASE s.kind = "fib"
  <2>1. ProcessSection(c, s) = FibSection(c, s)
    BY <1>15 DEF ProcessSection
  <2>2. SettingsOf(T) = [k \in DOMAIN SettingsOf(S) |-> IF k \in FibSettings THEN Setting(s, k) ELSE SettingsOf(S)[k]]
    BY <1>1, <1>2, <1>9, <1>10, <1>15 DEF SettingsOf
  <2>3. FibSection(c, s) = [c EXCEPT !.settings = SettingsOf(T)]
    BY <1>11, <2>2 DEF FibSection, WithSettings
  <2> QED
    BY <1>3, <1>4, <1>5, <1>6, <1>7, <1>11, <1>12, <1>15, <2>1, <2>3
<1>16. CASE s.kind = "hyperbolic"
  <2>1. ProcessSection(c, s) = HyperbolicSection(c, s)
    BY <1>16 DEF ProcessSection
  <2>2. HyperbolicOf(T) = (IF s.state = "ON" THEN "on" ELSE s.state)
    BY <1>1, <1>16 DEF HyperbolicOf
  <2>3. CoordinatesOf(T) = (CoordinatesOf(S) \/ s.coordinates = "good")
    BY <1>1, <1>16 DEF CoordinatesOf
  <2>4. HyperbolicSection(c, s) = [c EXCEPT !.hyperbolic = HyperbolicOf(T), !.coordinates = CoordinatesOf(T)]
    BY <1>11, <2>2, <2>3 DEF HyperbolicSection
  <2> QED
    BY <1>3, <1>5, <1>6, <1>7, <1>8, <1>11, <1>12, <1>16, <2>1, <2>4
<1>17. CASE s.kind = "advertising"
  <2>1. ProcessSection(c, s) = AdvertisingSection(c, s)
    BY <1>17 DEF ProcessSection
  <2>2. PrefixesOf(T) = PrefixesOf(S) \union s.prefixes
    BY <1>1, <1>17 DEF PrefixesOf
  <2>3. AdvertisingSection(c, s) = [c EXCEPT !.prefixes = PrefixesOf(T)]
    BY <1>11, <2>2 DEF AdvertisingSection
  <2> QED
    BY <1>3, <1>4, <1>5, <1>7, <1>8, <1>11, <1>12, <1>17, <2>1, <2>3
<1>18. CASE s.kind = "security"
  <2>1. ProcessSection(c, s) = SecuritySection(c, s)
    BY <1>18 DEF ProcessSection
  <2>2. PublishedOf(T) = PublishedOf(S) \union CertificatesRead(s)
    BY <1>1, <1>18 DEF PublishedOf
  <2>3. PrefixUpdatesOf(T) = (PrefixUpdatesOf(S) \/ TakesUpdates(s))
    BY <1>1, <1>18 DEF PrefixUpdatesOf, TakesUpdates
  <2>4. IsThere(T, "security") = TRUE
    BY <1>1, <1>18 DEF IsThere
  <2>5. SecuritySection(c, s) = [c EXCEPT !.validator = TRUE, !.prefixUpdates = PrefixUpdatesOf(T),
                                          !.published = PublishedOf(T)]
    BY <1>11, <2>2, <2>3 DEF SecuritySection
  <2> QED
    BY <1>3, <1>4, <1>5, <1>6, <1>8, <1>11, <1>12, <1>18, <2>1, <2>4, <2>5, ZenonT(60)
<1>19. CASE s.kind \notin {"general", "neighbors", "hyperbolic", "fib", "advertising", "security"}
  <2>1. ProcessSection(c, s) = c
    BY <1>19 DEF ProcessSection
  <2> QED
    BY <1>3, <1>4, <1>5, <1>6, <1>7, <1>8, <1>11, <1>12, <1>19, <2>1
<1> QED
  BY <1>13, <1>14, <1>15, <1>16, <1>17, <1>18, <1>19

DifferentKinds(q) == \A i, j \in DOMAIN q : i # j => q[i].kind # q[j].kind
SectionsFrom(q, i) == {q[j] : j \in i..Len(q)}

ConfIInv ==
  /\ sections \in Seq(Sections)
  /\ verdict = "reading" /\ DifferentKinds(sections) => conf = ConfOf(SectionsFrom(sections, 1))

\* Before the first section there are the defaults.
LEMMA ConfInitInv == ConfInit => ConfIInv
<1> SUFFICES ASSUME ConfInit
             PROVE  ConfIInv
  OBVIOUS
<1>1. sections = <<>> /\ conf = ConfParameter
  BY DEF ConfInit
<1>2. SectionsFrom(sections, 1) = {}
  BY <1>1 DEF SectionsFrom
<1> QED
  BY <1>1, <1>2, ConfOfNone DEF ConfIInv

\* A section is added to what the ones before it set together.
LEMMA ConfStepInv == ConfIInv /\ [ConfNext]_confVars => ConfIInv'
<1> SUFFICES ASSUME ConfIInv, [ConfNext]_confVars
             PROVE  ConfIInv'
  OBVIOUS
<1>1. CASE ReadSection
  <2>1. PICK s \in Sections :
          /\ verdict = "reading" /\ sections' = Append(sections, s)
          /\ IF Good(s) THEN conf' = ProcessSection(conf, s) /\ verdict' = verdict
             ELSE verdict' = "rejected" /\ conf' = conf
    BY <1>1 DEF ReadSection
  <2>2. sections \in Seq(Sections) /\ sections' \in Seq(Sections)
    BY <2>1, AppendProperties DEF ConfIInv
  <2>3. ASSUME verdict' = "reading", DifferentKinds(sections)'
        PROVE  conf' = ConfOf(SectionsFrom(sections, 1))'
    <3>1. conf' = ProcessSection(conf, s)
      BY <2>1, <2>3
    <3>2. /\ Len(sections) \in Nat /\ DOMAIN sections = 1..Len(sections)
          /\ Len(sections') = Len(sections) + 1 /\ DOMAIN sections' = 1..Len(sections) + 1
          /\ sections'[Len(sections) + 1] = s
          /\ \A i \in 1..Len(sections) : sections'[i] = sections[i]
      BY <2>1, <2>2, AppendProperties, LenProperties
    <3>3. DifferentKinds(sections) /\ \A i \in 1..Len(sections) : sections[i].kind # s.kind
      <4>1. \A i, j \in 1..Len(sections) + 1 : i # j => sections'[i].kind # sections'[j].kind
        BY <2>3, <3>2 DEF DifferentKinds
      <4>2. /\ Len(sections) + 1 \in 1..Len(sections) + 1
            /\ \A i \in 1..Len(sections) : i \in 1..Len(sections) + 1 /\ i # Len(sections) + 1
        BY <3>2
      <4> QED
        BY <3>2, <4>1, <4>2 DEF DifferentKinds
    <3>4. SectionsFrom(sections, 1)' = SectionsFrom(sections, 1) \union {s}
      <4>1. SectionsFrom(sections, 1)' = {sections'[j] : j \in 1..Len(sections) + 1}
        BY <3>2 DEF SectionsFrom
      <4>2. 1..Len(sections) + 1 = (1..Len(sections)) \union {Len(sections) + 1}
        BY <3>2
      <4> QED
        BY <3>2, <4>1, <4>2 DEF SectionsFrom
    <3>5. conf = ConfOf(SectionsFrom(sections, 1))
      BY <2>1, <3>3 DEF ConfIInv
    <3>6. \A t \in SectionsFrom(sections, 1) : t.kind # s.kind
      BY <3>3 DEF SectionsFrom
    <3>7. ConfOf(SectionsFrom(sections, 1) \union {s}) = ProcessSection(conf, s)
      BY <3>5, <3>6, ConfOfOneMore
    <3> QED
      BY <3>1, <3>4, <3>7
  <2> QED
    BY <2>2, <2>3 DEF ConfIInv
<1>2. CASE InitializeNlsr
  BY <1>2 DEF InitializeNlsr, ConfIInv
<1>3. CASE UNCHANGED confVars
  BY <1>3 DEF confVars, ConfIInv, DifferentKinds, SectionsFrom
<1> QED
  BY <1>1, <1>2, <1>3 DEF ConfNext

\* As many kinds as sections: the kinds are different.
LEMMA KindsDiffer ==
  ASSUME sections \in Seq(Sections), Cardinality(SectionKinds) = Len(sections)
  PROVE  DifferentKinds(sections)
<1> DEFINE n == Len(sections)
           D == 1..n
           f == [i \in D |-> sections[i].kind]
<1>1. n \in Nat /\ DOMAIN sections = D
  BY LenProperties
<1>2. IsFiniteSet(D) /\ Cardinality(D) = n
  <2> HIDE DEF n
  <2>1. 1 \in Int /\ n \in Int
    BY <1>1
  <2>2. IsFiniteSet(1..n) /\ Cardinality(1..n) = IF 1 > n THEN 0 ELSE n - 1 + 1
    BY <2>1, FS_Interval, Zenon
  <2> QED
    BY <1>1, <2>2
<1>3. f \in Surjection(D, SectionKinds)
  BY <1>1 DEF Surjection, SectionKinds
<1>4. f \in Injection(D, SectionKinds)
  BY <1>2, <1>3, FS_Surjection
<1>5. \A i, j \in D : f[i] = f[j] => i = j
  BY <1>4 DEF Injection, IsInjective
<1> QED
  BY <1>1, <1>5 DEF DifferentKinds

\* Sections read from the end give what they set together.
LEMMA BackwardsIsConfOf ==
  ASSUME sections \in Seq(Sections), DifferentKinds(sections)
  PROVE  ReadBackwards = ConfOf(SectionsFrom(sections, 1))
<1> DEFINE n == Len(sections)
           f == [i \in 1..n + 1 |-> ConfOf(SectionsFrom(sections, i))]
           Step(g) == [i \in 1..n + 1 |->
                         IF i = n + 1 THEN ConfParameter ELSE ProcessSection(g[i + 1], sections[i])]
           read == CHOOSE g : g = Step(g)
<1>1. n \in Nat /\ DOMAIN sections = 1..n
  BY LenProperties
<1>2. ReadBackwards = read[1]
  BY DEF ReadBackwards
<1> HIDE DEF n
<1>3. f[n + 1] = ConfParameter
  <2>1. SectionsFrom(sections, n + 1) = {}
    BY <1>1 DEF SectionsFrom, n
  <2>2. n + 1 \in 1..n + 1
    BY <1>1
  <2> QED
    BY <2>1, <2>2, ConfOfNone
<1>4. ASSUME NEW i \in 1..n
      PROVE  f[i] = ProcessSection(f[i + 1], sections[i])
  <2>1. SectionsFrom(sections, i) = SectionsFrom(sections, i + 1) \union {sections[i]}
    <3>1. i..n = (i + 1..n) \union {i}
      BY <1>1
    <3> QED
      BY <3>1 DEF SectionsFrom, n
  <2>2. \A t \in SectionsFrom(sections, i + 1) : t.kind # sections[i].kind
    <3>1. \A j \in i + 1..n : j \in 1..n /\ j # i
      BY <1>1
    <3> QED
      BY <1>1, <3>1 DEF SectionsFrom, DifferentKinds, n
  <2>3. i \in 1..n + 1 /\ i + 1 \in 1..n + 1
    BY <1>1
  <2>4. f[i] = ConfOf(SectionsFrom(sections, i)) /\ f[i + 1] = ConfOf(SectionsFrom(sections, i + 1))
    BY <2>3
  <2> QED
    BY <2>1, <2>2, <2>4, ConfOfOneMore
<1>5. f = Step(f)
  <2>1. \A i \in 1..n + 1 : i # n + 1 => i \in 1..n
    BY <1>1
  <2>2. \A i \in 1..n + 1 : f[i] = Step(f)[i]
    <3> HIDE DEF f
    <3> QED
      BY <1>3, <1>4, <2>1
  <2> QED
    BY <2>2
<1>6. read = Step(read)
  <2> HIDE DEF f
  <2> QED
    BY <1>5
<1> HIDE DEF f, read
<1>7. ASSUME NEW i \in 1..n + 1, read[i] # f[i]
      PROVE  FALSE
  <2> DEFINE Wrong == {d \in Nat : d <= n /\ read[n + 1 - d] # f[n + 1 - d]}
  <2>1. n + 1 - i \in Wrong
    BY <1>1, <1>7
  <2>2. PICK d \in Wrong : \A e \in Wrong : ~(<<e, d>> \in OpToRel(<, Nat))
    BY <2>1, NatLessThanWellFounded, WFMin
  <2>3. d \in Nat /\ d <= n /\ read[n + 1 - d] # f[n + 1 - d]
    BY <2>2
  <2>4. CASE d = 0
    BY <1>1, <1>3, <1>6, <2>3, <2>4
  <2>5. CASE d # 0
    <3>1. d - 1 \in Nat /\ d - 1 < d /\ d - 1 <= n
      BY <1>1, <2>3, <2>5
    <3>2. d - 1 \notin Wrong
      BY <2>2, <2>3, <3>1 DEF OpToRel
    <3>3. n + 1 - d \in 1..n /\ (n + 1 - d) + 1 = n + 1 - (d - 1) /\ n + 1 - d \in 1..n + 1 /\ n + 1 - d # n + 1
      BY <1>1, <2>3, <2>5
    <3>4. read[(n + 1 - d) + 1] = f[(n + 1 - d) + 1]
      BY <3>1, <3>2, <3>3
    <3>5. read[n + 1 - d] = ProcessSection(read[(n + 1 - d) + 1], sections[n + 1 - d])
      BY <1>6, <3>3
    <3>6. f[n + 1 - d] = ProcessSection(f[(n + 1 - d) + 1], sections[n + 1 - d])
      BY <1>4, <3>3
    <3> QED
      BY <2>3, <3>4, <3>5, <3>6
  <2> QED
    BY <2>4, <2>5
<1>8. 1 \in 1..n + 1
  BY <1>1
<1> QED
  BY <1>2, <1>7, <1>8 DEF f

\* Files with each section once set the same in whatever order (conf-file-
\* processor.cpp:171), for any sections and however many.
THEOREM OrderMakesNoDifferenceCorrect == ConfSpec => []OrderMakesNoDifference
<1>1. ConfIInv => OrderMakesNoDifference
  BY KindsDiffer, BackwardsIsConfOf DEF ConfIInv, OrderMakesNoDifference
<1> QED
  BY <1>1, ConfInitInv, ConfStepInv, PTL DEF ConfSpec

-----------------------------------------------------------------------------
(* Sequences.                                                              *)

\* What two sequences in a row are, whatever is in them.
LEMMA InARow ==
  ASSUME NEW S, NEW T, NEW p \in Seq(S), NEW q \in Seq(T)
  PROVE  /\ Len(p) \in Nat /\ Len(q) \in Nat /\ Len(p \o q) = Len(p) + Len(q)
         /\ DOMAIN (p \o q) = 1..Len(p) + Len(q)
         /\ \A i \in 1..Len(p) : (p \o q)[i] = p[i]
         /\ \A i \in 1..Len(q) : (p \o q)[Len(p) + i] = q[i]
         /\ p \o q \in Seq(S \union T)
<1>1. p \in Seq(S \union T) /\ q \in Seq(S \union T)
  BY SeqDef
<1>2. /\ Len(p) \in Nat /\ Len(q) \in Nat /\ Len(p \o q) = Len(p) + Len(q)
      /\ p \o q \in Seq(S \union T)
      /\ \A i \in 1..Len(p) + Len(q) : (p \o q)[i] = IF i <= Len(p) THEN p[i] ELSE q[i - Len(p)]
  BY <1>1, ConcatProperties, LenProperties, Zenon
<1>3. DOMAIN (p \o q) = 1..Len(p) + Len(q)
  BY <1>2, LenProperties
<1> DEFINE r == p \o q
<1> HIDE DEF r
<1>4. \A i \in 1..Len(p) : r[i] = p[i]
  BY <1>2 DEF r
<1>5. \A i \in 1..Len(q) : r[Len(p) + i] = q[i]
  <2>1. \A i \in 1..Len(q) : Len(p) + i \in 1..Len(p) + Len(q) /\ ~(Len(p) + i <= Len(p)) /\ (Len(p) + i) - Len(p) = i
    BY <1>2
  <2> QED
    BY <1>2, <2>1 DEF r
<1> QED
  BY <1>2, <1>3, <1>4, <1>5 DEF r

\* A function on the first numbers is a sequence.
LEMMA SequenceOf ==
  ASSUME NEW S, NEW n \in Nat, NEW f \in [1..n -> S]
  PROVE  f \in Seq(S) /\ Len(f) = n
<1>1. f \in Seq(S)
  BY SeqDef
<1> QED
  BY <1>1, LenProperties

-----------------------------------------------------------------------------
(* TLV encodings: LsaInfo and its period.                                  *)

\* A period of either sign survives its way through an unsigned number.
LEMMA PeriodTold ==
  ASSUME NEW p \in -Word..Word - 1
  PROVE  Signed(Unsigned(p)) = p
<1> DEFINE T == 2 * Word
<1>1. T \in Nat \ {0} /\ Word \in Nat \ {0} /\ p \in Int /\ -Word <= p /\ p < Word /\ T = Word + Word
  BY WordAssumption
<1> HIDE DEF T
<1>2. 0 <= p => p % T = p
  BY <1>1
<1>3. p < 0 => p % T = p + T
  BY <1>1
<1> QED
  BY <1>1, <1>2, <1>3 DEF Signed, Unsigned, T

\* The fields of LsaInfo.
InfoValue(info) == EncodeLsaInfo(info).value

\* The fields of LsaInfo and what may follow them read as the object.
LEMMA InfoTold ==
  ASSUME NEW info \in Infos, NEW more \in Seq(Strange)
  PROVE  /\ DecodeLsaInfo(Element("LsaInfo", InfoValue(info) \o more)) = info
         /\ EncodeLsaInfo(info) = Element("LsaInfo", InfoValue(info))
         /\ InfoValue(info) \in Seq({InfoValue(info)[i] : i \in DOMAIN InfoValue(info)})
         /\ Len(InfoValue(info)) >= 1
<1> DEFINE v == InfoValue(info)
           F == {v[i] : i \in DOMAIN v}
           head == <<Element("OriginRouter", <<Element("Name", info.origin)>>), Element("SequenceNumber", info.seq)>>
           tail == IF info.period = None THEN <<>> ELSE <<Element("ExpirationPeriod", Unsigned(info.period))>>
<1>1. /\ info = [origin |-> info.origin, seq |-> info.seq, period |-> info.period]
      /\ info.period = None \/ info.period \in -Word..Word - 1
  BY ObjectAssumption
<1>2. v = head \o tail /\ EncodeLsaInfo(info) = Element("LsaInfo", v)
  BY DEF EncodeLsaInfo, InfoValue, Element
<1>3. /\ Len(v) = 2 + (IF info.period = None THEN 0 ELSE 1)
      /\ v[1] = Element("OriginRouter", <<Element("Name", info.origin)>>)
      /\ v[2] = Element("SequenceNumber", info.seq)
      /\ info.period # None => v[3] = Element("ExpirationPeriod", Unsigned(info.period))
      /\ v \in Seq(F)
  <2> DEFINE e1 == Element("OriginRouter", <<Element("Name", info.origin)>>)
             e2 == Element("SequenceNumber", info.seq)
             e3 == Element("ExpirationPeriod", Unsigned(info.period))
             A  == {e1, e2}
             B  == {e3}
  <2>1. /\ head = <<e1, e2>> /\ tail = IF info.period = None THEN <<>> ELSE <<e3>>
    OBVIOUS
  <2> HIDE DEF e1, e2, e3, head, tail
  <2>2. head \in Seq(A) /\ Len(head) = 2 /\ head[1] = e1 /\ head[2] = e2
    BY <2>1
  <2>3. /\ tail \in Seq(B) /\ Len(tail) = (IF info.period = None THEN 0 ELSE 1)
        /\ info.period # None => tail[1] = e3
    BY <2>1
  <2>4. /\ Len(v) = 2 + (IF info.period = None THEN 0 ELSE 1)
        /\ v[1] = e1 /\ v[2] = e2
        /\ info.period # None => v[3] = e3
        /\ v \in Seq(A \union B)
    <3>1. /\ Len(head \o tail) = Len(head) + Len(tail)
          /\ \A i \in 1..Len(head) : (head \o tail)[i] = head[i]
          /\ \A i \in 1..Len(tail) : (head \o tail)[Len(head) + i] = tail[i]
          /\ head \o tail \in Seq(A \union B)
      <4> HIDE DEF A, B
      <4>1. head \in Seq(A) /\ tail \in Seq(B)
        BY <2>2, <2>3
      <4> QED
        BY <4>1, InARow
    <3> HIDE DEF v
    <3> QED
      BY <1>2, <2>2, <2>3, <3>1
  <2>5. v \in Seq(F)
    <3> DEFINE E == A \union B
    <3>1. v \in Seq(E)
      BY <2>4
    <3> HIDE DEF v, E
    <3>2. Len(v) \in Nat /\ v \in [1..Len(v) -> E] /\ DOMAIN v = 1..Len(v)
      BY <3>1, LenProperties
    <3>3. v \in [1..Len(v) -> F]
      BY <3>2
    <3> QED
      BY <3>2, <3>3, SeqDef
  <2> QED
    BY <2>4, <2>5 DEF e1, e2, e3
<1> HIDE DEF v
<1> DEFINE w == v \o more
<1>4. /\ Len(w) = Len(v) + Len(more) /\ Len(more) \in Nat
      /\ \A i \in 1..Len(v) : w[i] = v[i]
      /\ \A i \in 1..Len(more) : w[Len(v) + i] = more[i]
  <2> HIDE DEF F
  <2>1. v \in Seq(F) /\ more \in Seq(Strange)
    BY <1>3
  <2> QED
    BY <2>1, InARow
<1> HIDE DEF w, F
<1>5. w[1] = Element("OriginRouter", <<Element("Name", info.origin)>>) /\ w[2] = Element("SequenceNumber", info.seq)
      /\ Len(w) >= 2
  BY <1>3, <1>4
<1> DEFINE e == Element("LsaInfo", w)
<1>6. e.value = w
  BY DEF Element
<1>7. /\ Has(e, 1, "OriginRouter") /\ Has(e, 2, "SequenceNumber") /\ Has(e.value[1], 1, "Name")
      /\ e.value[1].value[1].value = info.origin /\ e.value[2].value = info.seq
  <2>1. e.value[1].type = "OriginRouter" /\ e.value[1].value = <<Element("Name", info.origin)>>
        /\ e.value[2].type = "SequenceNumber" /\ e.value[2].value = info.seq
        /\ Len(e.value) >= 2 /\ Len(e.value) \in Nat
    BY <1>3, <1>4, <1>5, <1>6 DEF Element
  <2> HIDE DEF e
  <2>2. Has(e.value[1], 1, "Name") /\ e.value[1].value[1].value = info.origin
    <3>1. Len(e.value[1].value) = 1 /\ e.value[1].value[1] = [type |-> "Name", value |-> info.origin]
      BY <2>1 DEF Element
    <3> QED
      BY <3>1 DEF Has
  <2> QED
    BY <2>1, <2>2 DEF Has
<1>8. (IF Has(e, 3, "ExpirationPeriod") THEN Signed(e.value[3].value) ELSE None) = info.period
  <2>1. CASE info.period = None
    <3>1. Len(w) >= 3 => 1 \in 1..Len(more) /\ w[3] = more[1]
      BY <1>3, <1>4, <2>1
    <3>2. Len(w) >= 3 => w[3].type # "ExpirationPeriod"
      BY <3>1, StrangeAssumption
    <3> QED
      BY <1>3, <1>4, <1>6, <2>1, <3>2 DEF Has
  <2>2. CASE info.period # None
    <3>1. Len(w) >= 3 /\ w[3] = Element("ExpirationPeriod", Unsigned(info.period))
      BY <1>3, <1>4, <2>2
    <3>2. Signed(Unsigned(info.period)) = info.period
      BY <1>1, <2>2, PeriodTold
    <3> QED
      BY <1>6, <3>1, <3>2 DEF Has, Element
  <2> QED
    BY <2>1, <2>2
<1> HIDE DEF e
<1>9. DecodeLsaInfo(e) = info
  BY <1>1, <1>7, <1>8 DEF DecodeLsaInfo
<1> QED
  <2>1. DecodeLsaInfo(Element("LsaInfo", v \o more)) = info
    BY <1>9 DEF e, w
  <2>2. Len(v) >= 1
    BY <1>3
  <2> QED
    BY <1>2, <1>3, <2>1, <2>2 DEF v, F

-----------------------------------------------------------------------------
(* What a LSA is written as, and read as.                                  *)

\* The types of LSAs that have items, the LSAs, and what a LSA is written as when
\* something has been put behind the fields of LsaInfo.
TypesOfLsas == {"AdjacencyLsa", "NameLsa"}
LsasOf(t) == [info : Infos, items : Seq(Items[t])]
InfoElement(info, more) == Element("LsaInfo", InfoValue(info) \o more)
WireOf(t, info, more, items) == Element(t, <<InfoElement(info, more)>> \o EncodeItems(t, items))

\* An adjacency or a name reads as it was written.
LEMMA ItemTold ==
  ASSUME NEW t \in TypesOfLsas, NEW item \in Items[t]
  PROVE  DecodeItem(t, EncodeItem(t, item)) = item /\ item # Error
<1>1. item # Error
  BY ErrorAssumption DEF TypesOfLsas
<1>2. CASE t = "AdjacencyLsa"
  <2> DEFINE e == EncodeAdjacency(item)
  <2>1. /\ item = [name |-> item.name, uri |-> item.uri, cost |-> item.cost]
        /\ item.cost \in 0..2 * Word - 1
    BY <1>2, ObjectAssumption
  <2>2. Unsigned(item.cost) = item.cost
    <3> DEFINE T == 2 * Word
    <3>1. T \in Nat \ {0} /\ item.cost \in Nat /\ item.cost < T
      BY <2>1, WordAssumption
    <3> HIDE DEF T
    <3> QED
      BY <3>1 DEF Unsigned, T
  <2>3. /\ e.type = "Adjacency" /\ Len(e.value) = 3
        /\ e.value[1].type = "Name" /\ e.value[1].value = item.name
        /\ e.value[2].type = "Uri" /\ e.value[2].value = item.uri
        /\ e.value[3].type = "Cost" /\ e.value[3].value = item.cost
    BY <2>2 DEF EncodeAdjacency, Element
  <2>4. EncodeItem(t, item) = e
    BY <1>2 DEF EncodeItem
  <2> HIDE DEF e
  <2>5. DecodeAdjacency(e) = item
    BY <2>1, <2>3 DEF DecodeAdjacency, Has
  <2> QED
    BY <1>1, <1>2, <2>3, <2>4, <2>5 DEF DecodeItem
<1>3. CASE t = "NameLsa"
  BY <1>1, <1>3 DEF DecodeItem, EncodeItem, Element
<1> QED
  BY <1>2, <1>3 DEF TypesOfLsas

\* That, part by part.
IsWireOf(e, t, info, more, items) ==
  /\ e = [type |-> t, value |-> e.value] /\ e.type = t
  /\ Len(e.value) = 1 + Len(items) /\ Len(items) \in Nat
  /\ e.value = [i \in 1..1 + Len(items) |-> e.value[i]]
  /\ e.value[1] = InfoElement(info, more)
  /\ \A i \in 1..Len(items) : e.value[i + 1] = EncodeItem(t, items[i])

\* What the wire of a LSA consists of.
LEMMA WireParts ==
  ASSUME NEW t, NEW info, NEW more, NEW items \in Seq(Items[t])
  PROVE  IsWireOf(WireOf(t, info, more, items), t, info, more, items)
<1> DEFINE x == InfoElement(info, more)
           A == {x}
           B == {EncodeItem(t, y) : y \in Items[t]}
           q == EncodeItems(t, items)
           v == <<x>> \o q
<1>1. Len(items) \in Nat /\ DOMAIN items = 1..Len(items) /\ items \in [1..Len(items) -> Items[t]]
  BY LenProperties
<1>2. q \in [1..Len(items) -> B] /\ \A i \in 1..Len(items) : q[i] = EncodeItem(t, items[i])
  BY <1>1 DEF EncodeItems
<1>3. WireOf(t, info, more, items) = [type |-> t, value |-> v]
  BY DEF WireOf, Element
<1> HIDE DEF q, B, x
<1>4. q \in Seq(B) /\ Len(q) = Len(items)
  BY <1>1, <1>2, SeqDef, LenProperties
<1>5. <<x>> \in Seq(A) /\ Len(<<x>>) = 1 /\ <<x>>[1] = x
  OBVIOUS
<1>6. /\ Len(v) = 1 + Len(items)
      /\ DOMAIN v = 1..1 + Len(items)
      /\ v[1] = x
      /\ \A i \in 1..Len(items) : v[1 + i] = q[i]
      /\ v \in Seq(A \union B)
  <2> DEFINE p == <<x>>
  <2> HIDE DEF p, A
  <2>1. p \in Seq(A) /\ Len(p) = 1
    BY <1>5 DEF p
  <2>2. /\ Len(p) \in Nat /\ Len(q) \in Nat /\ Len(p \o q) = Len(p) + Len(q)
        /\ DOMAIN (p \o q) = 1..Len(p) + Len(q)
        /\ \A i \in 1..Len(p) : (p \o q)[i] = p[i]
        /\ \A i \in 1..Len(q) : (p \o q)[Len(p) + i] = q[i]
        /\ p \o q \in Seq(A \union B)
    BY <1>4, <2>1, InARow
  <2>3. v = p \o q /\ p[1] = x
    BY <1>5 DEF p
  <2> HIDE DEF v
  <2> QED
    BY <1>1, <1>4, <2>1, <2>2, <2>3
<1> HIDE DEF v
<1>7. v = [i \in 1..1 + Len(items) |-> v[i]]
  BY <1>6, LenProperties
<1>8. \A i \in 1..Len(items) : v[i + 1] = EncodeItem(t, items[i])
  BY <1>1, <1>2, <1>6
<1> QED
  <2> DEFINE e == WireOf(t, info, more, items)
  <2>1. e = [type |-> t, value |-> v]
    BY <1>3
  <2> HIDE DEF e
  <2>2. e.type = t /\ e.value = v /\ e = [type |-> t, value |-> e.value]
    BY <2>1
  <2>3. v[1] = InfoElement(info, more)
    BY <1>6 DEF x
  <2>4. IsWireOf(e, t, info, more, items)
    BY <1>1, <1>6, <1>7, <1>8, <2>2, <2>3 DEF IsWireOf
  <2> QED
    BY <2>4 DEF e

\* What is written reads as the LSA, whatever has been put behind the fields of LsaInfo.
LEMMA WireTold ==
  ASSUME NEW t \in TypesOfLsas, NEW info \in Infos, NEW more \in Seq(Strange), NEW items \in Seq(Items[t])
  PROVE  /\ DecodeLsa(t, WireOf(t, info, more, items)) = [info |-> info, items |-> items]
         /\ [info |-> info, items |-> items] # Error
<1> DEFINE e == WireOf(t, info, more, items)
           d == [i \in 1..Len(e.value) - 1 |-> DecodeItem(t, e.value[i + 1])]
<1>1. /\ e.type = t /\ Len(e.value) = 1 + Len(items) /\ Len(items) \in Nat
      /\ e.value[1] = InfoElement(info, more)
      /\ \A i \in 1..Len(items) : e.value[i + 1] = EncodeItem(t, items[i])
  <2> HIDE DEF e
  <2>1. IsWireOf(e, t, info, more, items)
    BY WireParts, Zenon DEF e
  <2> QED
    BY <2>1 DEF IsWireOf
<1> HIDE DEF e
<1>2. DecodeLsaInfo(e.value[1]) = info /\ e.value[1].type = "LsaInfo" /\ info # Error
  <2>1. DecodeLsaInfo(InfoElement(info, more)) = info
    BY InfoTold, Zenon DEF InfoElement
  <2>2. InfoElement(info, more).type = "LsaInfo"
    BY DEF InfoElement, Element
  <2> QED
    BY <1>1, <2>1, <2>2, ErrorAssumption
<1>3. /\ DOMAIN d = 1..Len(items)
      /\ \A i \in 1..Len(items) : items[i] \in Items[t] /\ d[i] = items[i] /\ d[i] # Error
  <2>1. ASSUME NEW i \in 1..Len(items)
        PROVE  items[i] \in Items[t] /\ DecodeItem(t, e.value[i + 1]) = items[i] /\ items[i] # Error
    <3>1. items[i] \in Items[t]
      BY LenProperties
    <3> QED
      BY <1>1, <3>1, ItemTold
  <2>2. Len(e.value) - 1 = Len(items)
    BY <1>1
  <2> QED
    BY <2>1, <2>2
<1>4. d = items
  BY <1>3, LenProperties
<1>5. DecodeLsa(t, e) = [info |-> info, items |-> d]
  <2> HIDE DEF d
  <2>1. Has(e, 1, "LsaInfo")
    BY <1>1, <1>2 DEF Has
  <2>2. ~(\E i \in DOMAIN d : d[i] = Error)
    BY <1>3
  <2> QED
    BY <1>1, <1>2, <2>1, <2>2 DEF DecodeLsa, d
<1>6. [info |-> info, items |-> items] # Error
  BY ErrorAssumption DEF TypesOfLsas
<1> QED
  BY <1>4, <1>5, <1>6 DEF e

-----------------------------------------------------------------------------
(* The object and the encoding it keeps: the inductive invariant.          *)

\* The object is one it can be given, and the encoding it keeps is its own,
\* that of a LSA whose items were cleared at least.
TlvIInv ==
  /\ type \in TypesOfLsas /\ object \in LsasOf(type)
  /\ wire # None =>
       \E more \in Seq(Strange), items \in Seq(Items[type]) :
         /\ wire = WireOf(type, object.info, more, items)
         /\ items = object.items \/ object.items = <<>>

\* A LSA without items, and none written, is one of these.
LEMMA TlvInitInv == TlvInit => TlvIInv
<1> SUFFICES ASSUME TlvInit
             PROVE  TlvIInv
  OBVIOUS
<1>1. type \in TypesOfLsas /\ wire = None
  BY DEF TlvInit, TypesOfLsas
<1>2. object \in LsasOf(type)
  <2>1. PICK info \in Infos : object = [info |-> info, items |-> <<>>]
    BY DEF TlvInit
  <2>2. <<>> \in Seq(Items[type])
    OBVIOUS
  <2> QED
    BY <2>1, <2>2 DEF LsasOf
<1> QED
  BY <1>1, <1>2 DEF TlvIInv

\* A LSA is written without anything behind the fields of LsaInfo.
LEMMA EncodedIsWire ==
  ASSUME NEW t, NEW lsa \in LsasOf(t)
  PROVE  EncodeLsa(t, lsa) = WireOf(t, lsa.info, <<>>, lsa.items)
<1>1. lsa.info \in Infos
  BY DEF LsasOf
<1> DEFINE v == InfoValue(lsa.info)
           F == {v[i] : i \in DOMAIN v}
<1>2. /\ EncodeLsaInfo(lsa.info) = Element("LsaInfo", v)
      /\ v \in Seq(F)
  <2>1. <<>> \in Seq(Strange)
    OBVIOUS
  <2> QED
    BY <1>1, <2>1, InfoTold
<1> HIDE DEF F, v
<1>3. v \o <<>> = v
  BY <1>2, ConcatEmptySeq
<1>4. EncodeLsaInfo(lsa.info) = InfoElement(lsa.info, <<>>)
  BY <1>2, <1>3 DEF InfoElement, v
<1> QED
  BY <1>4 DEF EncodeLsa, WireOf

Extended(e, strange) == [e EXCEPT !.value[1].value = Append(@, strange)]

\* Another element behind the fields of LsaInfo leaves the rest as it is.
LEMMA ExtendedIsWire ==
  ASSUME NEW t, NEW info \in Infos, NEW more \in Seq(Strange), NEW items \in Seq(Items[t]),
         NEW strange \in Strange
  PROVE  Extended(WireOf(t, info, more, items), strange)
           = WireOf(t, info, Append(more, strange), items)
<1> DEFINE e == WireOf(t, info, more, items)
           f == WireOf(t, info, Append(more, strange), items)
           n == 1 + Len(items)
           w == InfoValue(info) \o more
<1>1. IsWireOf(e, t, info, more, items) /\ IsWireOf(f, t, info, Append(more, strange), items)
  BY WireParts, Zenon
<1> HIDE DEF e, f
<1>2. /\ InfoElement(info, more) = [type |-> "LsaInfo", value |-> w]
      /\ InfoElement(info, Append(more, strange)) = [type |-> "LsaInfo", value |-> Append(w, strange)]
  <2> DEFINE v == InfoValue(info)
             F == {v[i] : i \in DOMAIN v}
             E == F \union Strange
  <2>1. v \in Seq(F)
    BY InfoTold
  <2> HIDE DEF F
  <2>2. v \in Seq(E) /\ more \in Seq(E) /\ <<strange>> \in Seq(E) /\ v \o more \in Seq(E) /\ strange \in E
    <3>1. v \in Seq(E) /\ more \in Seq(E) /\ strange \in E
      BY <2>1, SeqDef
    <3> HIDE DEF E, v
    <3> QED
      BY <3>1, ConcatProperties
  <2> HIDE DEF v, E
  <2>3. v \o Append(more, strange) = Append(v \o more, strange)
    <3>1. Append(more, strange) = more \o <<strange>> /\ Append(v \o more, strange) = (v \o more) \o <<strange>>
      BY <2>2, AppendIsConcat
    <3>2. (v \o more) \o <<strange>> = v \o (more \o <<strange>>)
      BY <2>2, ConcatAssociative
    <3> QED
      BY <3>1, <3>2
  <2>4. InfoElement(info, more) = [type |-> "LsaInfo", value |-> w]
    BY DEF InfoElement, Element, v, w
  <2>5. InfoElement(info, Append(more, strange)) = [type |-> "LsaInfo", value |-> Append(w, strange)]
    BY <2>3 DEF InfoElement, Element, v, w
  <2> QED
    BY <2>4, <2>5
<1>3. n \in Nat /\ 1 \in 1..n
  BY <1>1 DEF IsWireOf
<1> HIDE DEF w
<1>4. Extended(e, strange)
        = [type |-> t, value |-> [i \in 1..n |-> IF i = 1 THEN [type |-> "LsaInfo", value |-> Append(w, strange)]
                                                          ELSE e.value[i]]]
  <2> DEFINE x == Append(w, strange)
             y == [e.value[1] EXCEPT !.value = x]
             v == [e.value EXCEPT ![1] = y]
  <2>1. e = [type |-> t, value |-> e.value] /\ e.value = [i \in 1..n |-> e.value[i]]
        /\ e.value[1] = [type |-> "LsaInfo", value |-> w]
    BY <1>1, <1>2 DEF IsWireOf
  <2> HIDE DEF n, x
  <2>2. Extended(e, strange) = [e EXCEPT !.value[1].value = x]
    <3>1. e.value[1].value = w
      BY <2>1
    <3>2. Extended(e, strange) = [e EXCEPT !.value[1].value = Append(e.value[1].value, strange)]
      BY DEF Extended
    <3> QED
      BY <3>1, <3>2 DEF x
  <2>3. [e EXCEPT !.value[1].value = x] = [e EXCEPT !.value = v]
    OBVIOUS
  <2>4. y = [type |-> "LsaInfo", value |-> x]
    BY <2>1
  <2> HIDE DEF y
  <2>5. v = [i \in 1..n |-> IF i = 1 THEN y ELSE e.value[i]]
    BY <1>3, <2>1
  <2> HIDE DEF v
  <2>6. [e EXCEPT !.value = v] = [type |-> t, value |-> v]
    BY <2>1
  <2> QED
    BY <2>2, <2>3, <2>4, <2>5, <2>6 DEF x
<1>5. f = [type |-> t, value |-> f.value] /\ f.value = [i \in 1..n |-> f.value[i]]
  BY <1>1 DEF IsWireOf
<1>6. \A i \in 1..n : f.value[i] = IF i = 1 THEN [type |-> "LsaInfo", value |-> Append(w, strange)] ELSE e.value[i]
  <2>1. f.value[1] = [type |-> "LsaInfo", value |-> Append(w, strange)]
    BY <1>1, <1>2 DEF IsWireOf
  <2>2. ASSUME NEW i \in 1..n, i # 1
        PROVE  f.value[i] = e.value[i]
    <3>1. i - 1 \in 1..Len(items) /\ (i - 1) + 1 = i
      BY <1>3, <2>2
    <3> QED
      BY <1>1, <3>1 DEF IsWireOf
  <2> QED
    BY <2>1, <2>2
<1> HIDE DEF n
<1>7. Extended(e, strange) = f
  BY <1>4, <1>5, <1>6
<1> QED
  BY <1>7 DEF e, f

\* Every change of the object drops the encoding, but clearAdjacencies, which leaves
\* that of the items before (tlv/adjacency-lsa.hpp:105).
LEMMA TlvStepInv == TlvIInv /\ [TlvNext]_tlvVars => TlvIInv'
<1> SUFFICES ASSUME TlvIInv, [TlvNext]_tlvVars
             PROVE  TlvIInv'
  OBVIOUS
<1>1. type' = type
  BY DEF TlvNext, SetLsaInfo, AddItem, ClearItems, WireEncode, WireDecode, tlvVars
<1>2. object = [info |-> object.info, items |-> object.items] /\ object.info \in Infos
      /\ object.items \in Seq(Items[type]) /\ type \in TypesOfLsas
  BY DEF TlvIInv, LsasOf
<1>3. CASE SetLsaInfo
  <2>1. object' \in LsasOf(type)
    BY <1>2, <1>3 DEF SetLsaInfo, LsasOf
  <2> QED
    BY <1>1, <1>2, <1>3, <2>1 DEF SetLsaInfo, TlvIInv
<1>4. CASE AddItem
  <2>1. PICK item \in Items[type] : object' = [object EXCEPT !.items = Append(@, item)]
    BY <1>4 DEF AddItem
  <2> DEFINE items == Append(object.items, item)
  <2>2. items \in Seq(Items[type])
    BY <1>2, AppendProperties
  <2>3. object' = [info |-> object.info, items |-> items]
    BY <1>2, <2>1
  <2> HIDE DEF items
  <2>4. object' \in LsasOf(type)
    BY <1>2, <2>2, <2>3 DEF LsasOf
  <2>5. wire' = None
    BY <1>4 DEF AddItem
  <2> QED
    BY <1>1, <1>2, <2>4, <2>5 DEF TlvIInv
<1>5. CASE ClearItems
  <2>1. object' \in LsasOf(type) /\ object'.info = object.info /\ object'.items = <<>> /\ wire' = wire
    <3>1. object' = [info |-> object.info, items |-> <<>>] /\ wire' = wire
      BY <1>2, <1>5 DEF ClearItems
    <3>2. <<>> \in Seq(Items[type])
      OBVIOUS
    <3> QED
      BY <1>2, <3>1, <3>2 DEF LsasOf
  <2> QED
    BY <1>1, <1>2, <2>1 DEF TlvIInv
<1>6. CASE WireEncode
  <2>1. CASE wire = None
    <3>1. wire' = WireOf(type, object.info, <<>>, object.items) /\ object' = object
      BY <1>6, <2>1, EncodedIsWire DEF WireEncode, TlvIInv
    <3>2. <<>> \in Seq(Strange)
      OBVIOUS
    <3> QED
      BY <1>1, <1>2, <3>1, <3>2 DEF TlvIInv
  <2>2. CASE wire # None
    BY <1>1, <1>6, <2>2 DEF WireEncode, TlvIInv
  <2> QED
    BY <2>1, <2>2
<1>7. CASE WireDecode
  <2>1. PICK more \in Seq(Strange), items \in Seq(Items[type]) : wire = WireOf(type, object.info, more, items)
    BY <1>7 DEF WireDecode, TlvIInv
  <2>2. PICK strange \in Strange \union {None} :
          LET extended == IF strange = None THEN wire ELSE [wire EXCEPT !.value[1].value = Append(@, strange)]
          IN object' = DecodeLsa(type, extended) /\ wire' = extended
    BY <1>7 DEF WireDecode
  <2>3. PICK behind \in Seq(Strange) :
          wire' = WireOf(type, object.info, behind, items) /\ object' = DecodeLsa(type, wire')
    <3>1. CASE strange = None
      BY <2>1, <2>2, <3>1
    <3>2. CASE strange # None
      <4>1. strange \in Strange /\ Append(more, strange) \in Seq(Strange)
        BY <3>2
      <4>2. wire' = WireOf(type, object.info, Append(more, strange), items) /\ object' = DecodeLsa(type, wire')
        <5>1. Extended(WireOf(type, object.info, more, items), strange)
                = WireOf(type, object.info, Append(more, strange), items)
          BY <1>2, <4>1, ExtendedIsWire
        <5>2. wire' = Extended(wire, strange) /\ object' = DecodeLsa(type, wire')
          BY <2>2, <3>2 DEF Extended
        <5> QED
          BY <2>1, <5>1, <5>2, Zenon
      <4> QED
        BY <4>1, <4>2
    <3> QED
      BY <3>1, <3>2
  <2>4. object' = [info |-> object.info, items |-> items]
    BY <1>2, <2>3, WireTold
  <2>5. object' \in LsasOf(type) /\ object'.info = object.info /\ object'.items = items
    BY <1>2, <2>4 DEF LsasOf
  <2> QED
    BY <1>1, <1>2, <2>3, <2>5 DEF TlvIInv
<1>8. CASE UNCHANGED tlvVars
  BY <1>8 DEF tlvVars, TlvIInv
<1> QED
  BY <1>3, <1>4, <1>5, <1>6, <1>7, <1>8 DEF TlvNext

\* What is written reads as the object, or as the object before its items were cleared.
LEMMA LsaToldOnceInv == TlvIInv => LsaTold
<1> SUFFICES ASSUME TlvIInv, wire # None
             PROVE  LsaTold
  BY DEF LsaTold
<1>1. type \in TypesOfLsas /\ object.info \in Infos
  BY DEF TlvIInv, LsasOf
<1>2. PICK more \in Seq(Strange), items \in Seq(Items[type]) :
        /\ wire = WireOf(type, object.info, more, items)
        /\ items = object.items \/ object.items = <<>>
  BY DEF TlvIInv
<1>3. /\ DecodeLsa(type, wire) = [info |-> object.info, items |-> items]
      /\ [info |-> object.info, items |-> items] # Error
  BY <1>1, <1>2, WireTold
<1> QED
  BY <1>2, <1>3 DEF LsaTold

-----------------------------------------------------------------------------
(* Datasets: the three types in a row, and nothing else.                   *)

\* A function on the first numbers is a sequence.
\* The LSAs without items.
CoordinateLsas == [info : Infos, radius : Int, angle : Int]

\* A Coordinate LSA reads as it was written.
LEMMA CoordinateTold ==
  ASSUME NEW c \in CoordinateLsas
  PROVE  /\ DecodeCoordinateLsa(EncodeCoordinateLsa(c)) = c /\ c # Error
         /\ EncodeCoordinateLsa(c).type = "CoordinateLsa"
<1> DEFINE e == EncodeCoordinateLsa(c)
<1>1. c = [info |-> c.info, radius |-> c.radius, angle |-> c.angle] /\ c.info \in Infos /\ c # Error
  BY ErrorAssumption DEF CoordinateLsas
<1>2. /\ DecodeLsaInfo(EncodeLsaInfo(c.info)) = c.info /\ c.info # Error
      /\ EncodeLsaInfo(c.info).type = "LsaInfo"
  <2> DEFINE v == InfoValue(c.info)
             F == {v[i] : i \in DOMAIN v}
  <2>1. <<>> \in Seq(Strange)
    OBVIOUS
  <2>2. /\ DecodeLsaInfo(Element("LsaInfo", v \o <<>>)) = c.info
        /\ EncodeLsaInfo(c.info) = Element("LsaInfo", v)
        /\ v \in Seq(F)
    BY <1>1, <2>1, InfoTold
  <2> HIDE DEF F, v
  <2>3. v \o <<>> = v
    BY <2>2, ConcatEmptySeq
  <2>4. Element("LsaInfo", v).type = "LsaInfo"
    BY DEF Element
  <2> QED
    BY <1>1, <2>2, <2>3, <2>4, ErrorAssumption
<1>3. /\ e.type = "CoordinateLsa" /\ Len(e.value) = 3
      /\ e.value[1] = EncodeLsaInfo(c.info)
      /\ e.value[2].type = "HyperbolicRadius" /\ e.value[2].value = <<Element("Double", c.radius)>>
      /\ e.value[3].type = "HyperbolicAngle" /\ e.value[3].value = <<Element("Double", c.angle)>>
  BY DEF EncodeCoordinateLsa, Element
<1> HIDE DEF e
<1>4. ASSUME NEW x, NEW d, x.value = <<Element("Double", d)>>
      PROVE  Has(x, 1, "Double") /\ x.value[1].value = d
  BY <1>4 DEF Has, Element
<1>5. /\ Has(e, 1, "LsaInfo") /\ Has(e, 2, "HyperbolicRadius") /\ Has(e, 3, "HyperbolicAngle")
  BY <1>2, <1>3 DEF Has
<1>6. DecodeCoordinateLsa(e) = c
  BY <1>1, <1>2, <1>3, <1>4, <1>5 DEF DecodeCoordinateLsa
<1> QED
  BY <1>1, <1>3, <1>6 DEF e

\* Where a run of elements of a type ends.
LEMMA RunEnds ==
  ASSUME NEW v, Len(v) \in Nat, NEW t, NEW first \in Nat \ {0}, NEW k \in first..Len(v) + 1,
         \A i \in first..k - 1 : v[i].type = t, k <= Len(v) => v[k].type # t
  PROVE  EndOfRun(v, first, t) = k
<1> DEFINE P(m) == /\ \A i \in first..m - 1 : v[i].type = t
                   /\ m <= Len(v) => v[m].type # t
           e == CHOOSE m \in first..Len(v) + 1 : P(m)
<1>1. e \in first..Len(v) + 1 /\ P(e)
  <2>1. P(k)
    OBVIOUS
  <2> HIDE DEF P
  <2> QED
    BY <2>1
<1>2. EndOfRun(v, first, t) = e
  BY Zenon DEF EndOfRun
<1> HIDE DEF e
<1>3. ~(e < k)
  BY <1>1
<1>4. ~(k < e)
  BY <1>1
<1> QED
  BY <1>1, <1>2, <1>3, <1>4

\* Adjacency LSAs, Coordinate LSAs and Name LSAs in a row, and nothing else
\* that would go on with one of them.
ThreeRuns(v, a, c, n) ==
  /\ a + c + n <= Len(v)
  /\ \A i \in 1..a : v[i].type = "AdjacencyLsa"
  /\ \A i \in 1..c : v[a + i].type = "CoordinateLsa"
  /\ \A i \in 1..n : v[a + c + i].type = "NameLsa"
  /\ a + c + n < Len(v) => /\ v[a + c + n + 1].type \notin {"AdjacencyLsa", "NameLsa"}
                           /\ n = 0 => v[a + c + n + 1].type # "CoordinateLsa"

\* The runs end where the next one begins.
LEMMA RunsEnd ==
  ASSUME NEW v, Len(v) \in Nat, NEW a \in Nat, NEW c \in Nat, NEW n \in Nat, ThreeRuns(v, a, c, n)
  PROVE  /\ EndOfRun(v, 1, "AdjacencyLsa") = a + 1
         /\ EndOfRun(v, a + 1, "CoordinateLsa") = a + c + 1
         /\ EndOfRun(v, a + c + 1, "NameLsa") = a + c + n + 1
<1> USE DEF ThreeRuns
<1>1. EndOfRun(v, 1, "AdjacencyLsa") = a + 1
  <2>1. a + 1 \in 1..Len(v) + 1 /\ \A i \in 1..(a + 1) - 1 : v[i].type = "AdjacencyLsa"
    OBVIOUS
  <2>2. ASSUME a + 1 <= Len(v)
        PROVE  v[a + 1].type # "AdjacencyLsa"
    <3>1. CASE c > 0
      <4>1. 1 \in 1..c
        BY <3>1
      <4> QED
        BY <4>1
    <3>2. CASE c = 0 /\ n > 0
      <4>1. 1 \in 1..n /\ a + c + 1 = a + 1
        BY <3>2
      <4> QED
        BY <4>1
    <3>3. CASE c = 0 /\ n = 0
      <4>1. a + c + n < Len(v) /\ a + c + n + 1 = a + 1
        BY <2>2, <3>3
      <4> QED
        BY <4>1
    <3> QED
      BY <3>1, <3>2, <3>3
  <2> QED
    BY <2>1, <2>2, RunEnds
<1>2. EndOfRun(v, a + 1, "CoordinateLsa") = a + c + 1
  <2>1. a + c + 1 \in a + 1..Len(v) + 1 /\ a + 1 \in Nat \ {0}
    OBVIOUS
  <2>2. ASSUME NEW i \in a + 1..(a + c + 1) - 1
        PROVE  v[i].type = "CoordinateLsa"
    <3>1. i - a \in 1..c /\ a + (i - a) = i
      OBVIOUS
    <3> QED
      BY <3>1
  <2>3. ASSUME a + c + 1 <= Len(v)
        PROVE  v[a + c + 1].type # "CoordinateLsa"
    <3>1. CASE n > 0
      <4>1. 1 \in 1..n
        BY <3>1
      <4> QED
        BY <4>1
    <3>2. CASE n = 0
      <4>1. a + c + n < Len(v) /\ a + c + n + 1 = a + c + 1
        BY <2>3, <3>2
      <4> QED
        BY <3>2, <4>1
    <3> QED
      BY <3>1, <3>2
  <2> DEFINE first == a + 1
             k == a + c + 1
  <2>4. /\ first \in Nat \ {0} /\ k \in first..Len(v) + 1
        /\ \A i \in first..k - 1 : v[i].type = "CoordinateLsa"
        /\ k <= Len(v) => v[k].type # "CoordinateLsa"
    BY <2>1, <2>2, <2>3, SMTT(30)
  <2> HIDE DEF first, k
  <2>5. EndOfRun(v, first, "CoordinateLsa") = k
    BY <2>4, RunEnds
  <2> QED
    BY <2>5 DEF first, k
<1>3. EndOfRun(v, a + c + 1, "NameLsa") = a + c + n + 1
  <2>1. a + c + n + 1 \in a + c + 1..Len(v) + 1 /\ a + c + 1 \in Nat \ {0}
    OBVIOUS
  <2>2. ASSUME NEW i \in a + c + 1..(a + c + n + 1) - 1
        PROVE  v[i].type = "NameLsa"
    <3>1. i - (a + c) \in 1..n /\ a + c + (i - (a + c)) = i
      OBVIOUS
    <3> QED
      BY <3>1
  <2>3. ASSUME a + c + n + 1 <= Len(v)
        PROVE  v[a + c + n + 1].type # "NameLsa"
    BY <2>3
  <2> DEFINE first == a + c + 1
             k == a + c + n + 1
  <2>4. /\ first \in Nat \ {0} /\ k \in first..Len(v) + 1
        /\ \A i \in first..k - 1 : v[i].type = "NameLsa"
        /\ k <= Len(v) => v[k].type # "NameLsa"
    BY <2>1, <2>2, <2>3
  <2> HIDE DEF first, k
  <2>5. EndOfRun(v, first, "NameLsa") = k
    BY <2>4, RunEnds
  <2> QED
    BY <2>5 DEF first, k
<1> QED
  BY <1>1, <1>2, <1>3

\* What a status of these LSAs is made of, and what it reads as.
LEMMA StatusTogether ==
  ASSUME NEW adj \in Seq(LsasOf("AdjacencyLsa")), NEW cor \in Seq(CoordinateLsas), NEW nam \in Seq(LsasOf("NameLsa")),
         NEW more, NEW rest \in Seq({more}), Len(rest) <= 1,
         more.type \notin {"AdjacencyLsa", "NameLsa"},
         nam = <<>> => more.type # "CoordinateLsa"
  PROVE  LET s == [adjacencies |-> adj, coordinates |-> cor, names |-> nam]
             e == [type |-> "LsdbStatus", value |-> EncodeLsdbStatus(s).value \o rest]
         IN /\ DecodeLsdbStatus(e) = IF rest = <<>> THEN s ELSE Error
            /\ rest = <<>> => EncodeLsdbStatus(s) = e
<1> DEFINE s == [adjacencies |-> adj, coordinates |-> cor, names |-> nam]
           a == Len(adj)
           c == Len(cor)
           n == Len(nam)
           p == [i \in DOMAIN adj |-> EncodeLsa("AdjacencyLsa", adj[i])]
           q == [i \in DOMAIN cor |-> EncodeCoordinateLsa(cor[i])]
           r == [i \in DOMAIN nam |-> EncodeLsa("NameLsa", nam[i])]
           v == ((p \o q) \o r) \o rest
<1>1. /\ a \in Nat /\ DOMAIN adj = 1..a /\ \A i \in 1..a : adj[i] \in LsasOf("AdjacencyLsa")
      /\ c \in Nat /\ DOMAIN cor = 1..c /\ \A i \in 1..c : cor[i] \in CoordinateLsas
      /\ n \in Nat /\ DOMAIN nam = 1..n /\ \A i \in 1..n : nam[i] \in LsasOf("NameLsa")
      /\ Len(rest) \in {0, 1} /\ (Len(rest) = 0 <=> rest = <<>>) /\ (Len(rest) = 1 => rest[1] = more)
  <2>1. a \in Nat /\ DOMAIN adj = 1..a /\ \A i \in 1..a : adj[i] \in LsasOf("AdjacencyLsa")
    BY LenProperties
  <2>2. c \in Nat /\ DOMAIN cor = 1..c /\ \A i \in 1..c : cor[i] \in CoordinateLsas
    BY LenProperties
  <2>3. n \in Nat /\ DOMAIN nam = 1..n /\ \A i \in 1..n : nam[i] \in LsasOf("NameLsa")
    BY LenProperties
  <2>4. Len(rest) \in {0, 1} /\ (Len(rest) = 0 <=> rest = <<>>) /\ (Len(rest) = 1 => rest[1] = more)
    <3> DEFINE M == {more}
    <3>1. rest \in Seq(M) /\ \A x \in M : x = more
      OBVIOUS
    <3> HIDE DEF M
    <3>2. Len(rest) \in Nat /\ \A i \in 1..Len(rest) : rest[i] \in M
      BY <3>1, LenProperties
    <3>3. rest = <<>> <=> Len(rest) = 0
      BY <3>1
    <3>4. Len(rest) = 1 => rest[1] \in M
      BY <3>2
    <3>5. Len(rest) \in {0, 1}
      <4>1. \A k \in Nat : k <= 1 => k \in {0, 1}
        OBVIOUS
      <4> QED
        BY <3>2, <4>1, Zenon
    <3> QED
      BY <3>1, <3>3, <3>4, <3>5
  <2> QED
    BY <2>1, <2>2, <2>3, <2>4
<1>2. /\ Len(v) = a + c + n + Len(rest)
      /\ \A i \in 1..a : v[i] = p[i]
      /\ \A i \in 1..c : v[a + i] = q[i]
      /\ \A i \in 1..n : v[a + c + i] = r[i]
      /\ Len(rest) = 1 => v[a + c + n + 1] = more
      /\ ((p \o q) \o r) \o <<>> = (p \o q) \o r
  <2> DEFINE P == {EncodeLsa("AdjacencyLsa", x) : x \in LsasOf("AdjacencyLsa")}
             Q == {EncodeCoordinateLsa(x) : x \in CoordinateLsas}
             R == {EncodeLsa("NameLsa", x) : x \in LsasOf("NameLsa")}
             M == {more}
  <2>1. p \in Seq(P) /\ Len(p) = a /\ q \in Seq(Q) /\ Len(q) = c /\ r \in Seq(R) /\ Len(r) = n /\ rest \in Seq(M)
    <3>1. p \in [1..a -> P] /\ q \in [1..c -> Q] /\ r \in [1..n -> R]
      BY <1>1
    <3> HIDE DEF p, q, r, P, Q, R
    <3>2. p \in Seq(P) /\ Len(p) = a
      BY <1>1, <3>1, SequenceOf
    <3>3. q \in Seq(Q) /\ Len(q) = c
      BY <1>1, <3>1, SequenceOf
    <3>4. r \in Seq(R) /\ Len(r) = n
      BY <1>1, <3>1, SequenceOf
    <3> QED
      BY <3>2, <3>3, <3>4
  <2> HIDE DEF p, q, r, P, Q, R, M
  <2> DEFINE pq == p \o q
             pqr == pq \o r
  <2>2. Len(pq) = a + c /\ pq \in Seq(P \union Q)
        /\ (\A i \in 1..a : pq[i] = p[i]) /\ (\A i \in 1..c : pq[a + i] = q[i])
    <3>1. p \in Seq(P) /\ q \in Seq(Q)
      BY <2>1
    <3>2. Len(pq) = Len(p) + Len(q) /\ pq \in Seq(P \union Q) /\ (\A i \in 1..Len(p) : pq[i] = p[i])
          /\ (\A i \in 1..Len(q) : pq[Len(p) + i] = q[i])
      BY <3>1, InARow
    <3> QED
      BY <2>1, <3>2
  <2> DEFINE PQ == P \union Q
  <2> HIDE DEF pq, PQ
  <2>3. Len(pqr) = (a + c) + n /\ pqr \in Seq(PQ \union R) /\ (\A i \in 1..a + c : pqr[i] = pq[i])
        /\ (\A i \in 1..n : pqr[(a + c) + i] = r[i])
    <3>1. pq \in Seq(PQ) /\ r \in Seq(R)
      BY <2>1, <2>2 DEF PQ
    <3>2. Len(pqr) = Len(pq) + Len(r) /\ pqr \in Seq(PQ \union R) /\ (\A i \in 1..Len(pq) : pqr[i] = pq[i])
          /\ (\A i \in 1..Len(r) : pqr[Len(pq) + i] = r[i])
      BY <3>1, InARow
    <3> QED
      BY <2>1, <2>2, <3>2
  <2> DEFINE PQR == PQ \union R
  <2>4. v = pqr \o rest
    BY DEF pq
  <2> HIDE DEF pqr, PQR, v
  <2>5. Len(v) = Len(pqr) + Len(rest) /\ (\A i \in 1..Len(pqr) : v[i] = pqr[i])
        /\ (\A i \in 1..Len(rest) : v[Len(pqr) + i] = rest[i])
    <3>1. pqr \in Seq(PQR) /\ rest \in Seq(M)
      BY <2>1, <2>3 DEF PQR
    <3> QED
      BY <2>4, <3>1, InARow
  <2>6. /\ \A i \in 1..a : i \in 1..a + c /\ i \in 1..(a + c) + n
        /\ \A i \in 1..c : a + i \in 1..a + c /\ a + i \in 1..(a + c) + n
        /\ \A i \in 1..n : (a + c) + i \in 1..(a + c) + n /\ (a + c) + i = a + c + i
        /\ 1 \in 1..1 /\ ((a + c) + n) + 1 = a + c + n + 1
    BY <1>1
  <2> HIDE DEF a, c, n
  <2>7. \A i \in 1..a : v[i] = p[i]
    BY <2>2, <2>3, <2>5, <2>6
  <2>8. \A i \in 1..c : v[a + i] = q[i]
    BY <2>2, <2>3, <2>5, <2>6
  <2>9. \A i \in 1..n : v[a + c + i] = r[i]
    BY <2>3, <2>5, <2>6
  <2>10. Len(v) = a + c + n + Len(rest) /\ (Len(rest) = 1 => v[a + c + n + 1] = more)
    BY <1>1, <2>3, <2>5, <2>6
  <2>11. pqr \o <<>> = pqr
    <3>1. pqr \in Seq(PQR)
      BY <2>3 DEF PQR
    <3> QED
      BY <3>1, ConcatEmptySeq
  <2>12. ((p \o q) \o r) \o <<>> = (p \o q) \o r
    BY <2>11 DEF pqr, pq
  <2> QED
    BY <2>7, <2>8, <2>9, <2>10, <2>12
<1> HIDE DEF v
<1>3. ASSUME NEW t \in TypesOfLsas, NEW x \in LsasOf(t)
      PROVE  DecodeLsa(t, EncodeLsa(t, x)) = x /\ x # Error /\ EncodeLsa(t, x).type = t
  <2>1. x = [info |-> x.info, items |-> x.items] /\ x.info \in Infos /\ x.items \in Seq(Items[t])
    BY DEF LsasOf
  <2>2. EncodeLsa(t, x) = WireOf(t, x.info, <<>>, x.items)
    BY EncodedIsWire
  <2>3. <<>> \in Seq(Strange)
    OBVIOUS
  <2>4. EncodeLsa(t, x).type = t
    BY DEF EncodeLsa, Element
  <2> QED
    <3>1. /\ DecodeLsa(t, WireOf(t, x.info, <<>>, x.items)) = [info |-> x.info, items |-> x.items]
          /\ [info |-> x.info, items |-> x.items] # Error
      BY <2>1, <2>3, WireTold
    <3> QED
      BY <2>1, <2>2, <2>4, <3>1
<1>4. /\ \A i \in 1..a : v[i].type = "AdjacencyLsa" /\ DecodeLsa("AdjacencyLsa", v[i]) = adj[i] /\ adj[i] # Error
      /\ \A i \in 1..c : v[a + i].type = "CoordinateLsa" /\ DecodeCoordinateLsa(v[a + i]) = cor[i] /\ cor[i] # Error
      /\ \A i \in 1..n : /\ v[a + c + i].type = "NameLsa"
                        /\ DecodeLsa("NameLsa", v[a + c + i]) = nam[i] /\ nam[i] # Error
  <2>1. ASSUME NEW i \in 1..a
        PROVE  v[i].type = "AdjacencyLsa" /\ DecodeLsa("AdjacencyLsa", v[i]) = adj[i] /\ adj[i] # Error
    <3>1. v[i] = EncodeLsa("AdjacencyLsa", adj[i])
      BY <1>1, <1>2
    <3> QED
      BY <1>1, <1>3, <3>1 DEF TypesOfLsas
  <2>2. ASSUME NEW i \in 1..c
        PROVE  v[a + i].type = "CoordinateLsa" /\ DecodeCoordinateLsa(v[a + i]) = cor[i] /\ cor[i] # Error
    <3>1. v[a + i] = EncodeCoordinateLsa(cor[i])
      BY <1>1, <1>2
    <3> QED
      BY <1>1, <3>1, CoordinateTold
  <2>3. ASSUME NEW i \in 1..n
        PROVE  v[a + c + i].type = "NameLsa" /\ DecodeLsa("NameLsa", v[a + c + i]) = nam[i] /\ nam[i] # Error
    <3>1. v[a + c + i] = EncodeLsa("NameLsa", nam[i])
      BY <1>1, <1>2
    <3> QED
      BY <1>1, <1>3, <3>1 DEF TypesOfLsas
  <2> QED
    BY <2>1, <2>2, <2>3
<1>5. /\ EndOfRun(v, 1, "AdjacencyLsa") = a + 1
      /\ EndOfRun(v, a + 1, "CoordinateLsa") = a + c + 1
      /\ EndOfRun(v, a + c + 1, "NameLsa") = a + c + n + 1
  <2>1. Len(v) \in Nat /\ a + c + n <= Len(v) /\ a \in Nat /\ c \in Nat /\ n \in Nat
    BY <1>1, <1>2
  <2>2. a + c + n < Len(v) =>
          /\ v[a + c + n + 1].type \notin {"AdjacencyLsa", "NameLsa"}
          /\ n = 0 => v[a + c + n + 1].type # "CoordinateLsa"
    <3>1. n = 0 => nam = <<>>
      OBVIOUS
    <3> QED
      BY <1>1, <1>2, <3>1
  <2>3. /\ \A i \in 1..a : v[i].type = "AdjacencyLsa"
        /\ \A i \in 1..c : v[a + i].type = "CoordinateLsa"
        /\ \A i \in 1..n : v[a + c + i].type = "NameLsa"
    BY <1>4
  <2>4. ThreeRuns(v, a, c, n)
    <3> HIDE DEF a, c, n
    <3> QED
      BY <2>1, <2>2, <2>3, Zenon DEF ThreeRuns
  <2> HIDE DEF a, c, n
  <2> QED
    BY <2>1, <2>4, RunsEnd
<1> DEFINE e == [type |-> "LsdbStatus", value |-> v]
           A == [i \in 1..(a + 1) - 1 |-> DecodeLsa("AdjacencyLsa", v[i])]
           C == [i \in 1..(a + c + 1) - (a + 1) |-> DecodeCoordinateLsa(v[(a + 1) - 1 + i])]
           N == [i \in 1..(a + c + n + 1) - (a + c + 1) |-> DecodeLsa("NameLsa", v[(a + c + 1) - 1 + i])]
<1>6. A = adj /\ C = cor /\ N = nam
  <2>1. (a + 1) - 1 = a /\ (a + c + 1) - (a + 1) = c /\ (a + c + n + 1) - (a + c + 1) = n
        /\ (a + c + 1) - 1 = a + c
    BY <1>1
  <2>2. /\ A = [i \in 1..a |-> DecodeLsa("AdjacencyLsa", v[i])]
        /\ C = [i \in 1..c |-> DecodeCoordinateLsa(v[a + i])]
        /\ N = [i \in 1..n |-> DecodeLsa("NameLsa", v[a + c + i])]
    BY <2>1
  <2> HIDE DEF A, C, N
  <2>3. A = [i \in 1..a |-> adj[i]] /\ C = [i \in 1..c |-> cor[i]] /\ N = [i \in 1..n |-> nam[i]]
    BY <1>4, <2>2
  <2>4. adj = [i \in 1..a |-> adj[i]] /\ cor = [i \in 1..c |-> cor[i]] /\ nam = [i \in 1..n |-> nam[i]]
    BY LenProperties
  <2> QED
    BY <2>3, <2>4
<1> HIDE DEF A, C, N
<1>7. DecodeLsdbStatus(e) =
        IF e.type # "LsdbStatus" \/ a + c + n + 1 <= Len(v) \/ \E l \in {A, C, N} : \E i \in DOMAIN l : l[i] = Error
        THEN Error ELSE [adjacencies |-> A, coordinates |-> C, names |-> N]
  <2>1. e.value = v
    OBVIOUS
  <2> HIDE DEF e, a, c, n
  <2> QED
    BY <1>5, <2>1, Zenon DEF DecodeLsdbStatus, A, C, N
<1>8. ~(\E l \in {A, C, N} : \E i \in DOMAIN l : l[i] = Error)
  BY <1>1, <1>4, <1>6
<1>9. a + c + n + 1 <= Len(v) <=> rest # <<>>
  BY <1>1, <1>2
<1>10. DecodeLsdbStatus(e) = IF rest = <<>> THEN s ELSE Error
  <2>1. e.type = "LsdbStatus"
    OBVIOUS
  <2> HIDE DEF e, a, c, n
  <2> QED
    BY <1>6, <1>7, <1>8, <1>9, <2>1
<1>11. EncodeLsdbStatus(s) = [type |-> "LsdbStatus", value |-> (p \o q) \o r]
  BY DEF EncodeLsdbStatus, Element
<1>12. EncodeLsdbStatus(s).value = (p \o q) \o r
  <2> DEFINE x == EncodeLsdbStatus(s)
             y == (p \o q) \o r
  <2>1. x = [type |-> "LsdbStatus", value |-> y]
    BY <1>11
  <2> HIDE DEF x, y
  <2>2. x.value = y
    BY <2>1
  <2> QED
    BY <2>2 DEF x, y
<1>13. rest = <<>> => e = EncodeLsdbStatus(s)
  BY <1>2, <1>11 DEF v
<1> QED
  BY <1>10, <1>12, <1>13 DEF v

\* A dataset of LSAs reads as it was written, and one with anything else behind or
\* between them is refused (lsdb-status.cpp:116-145).
LEMMA StatusToldOnceInv == TlvIInv => StatusTold
<1> SUFFICES ASSUME TlvIInv, NEW a \in 0..2, NEW n \in 0..2
             PROVE  LET c == [info |-> object.info, radius |-> 1, angle |-> 0]
                        S(b, k) == [adjacencies |-> IF type = "AdjacencyLsa" THEN [i \in 1..b |-> object] ELSE <<>>,
                                    coordinates |-> [i \in 1..k |-> c],
                                    names |-> IF type = "NameLsa" THEN [i \in 1..b |-> object] ELSE <<>>]
                        Mixed(t, e) == [EncodeLsdbStatus(t) EXCEPT !.value = @ \o <<e>>]
                        s == S(a, n)
                    IN /\ DecodeLsdbStatus(EncodeLsdbStatus(s)) = s
                       /\ \A e \in Strange : DecodeLsdbStatus(Mixed(s, e)) = Error
                       /\ type = "NameLsa" /\ a > 0 => DecodeLsdbStatus(Mixed(s, EncodeCoordinateLsa(c))) = Error
  BY DEF StatusTold
<1> DEFINE c   == [info |-> object.info, radius |-> 1, angle |-> 0]
           adj == IF type = "AdjacencyLsa" THEN [i \in 1..a |-> object] ELSE <<>>
           cor == [i \in 1..n |-> c]
           nam == IF type = "NameLsa" THEN [i \in 1..a |-> object] ELSE <<>>
           s   == [adjacencies |-> adj, coordinates |-> cor, names |-> nam]
           With(rest) == [type |-> "LsdbStatus", value |-> EncodeLsdbStatus(s).value \o rest]
<1>1. type \in TypesOfLsas /\ object \in LsasOf(type) /\ a \in Nat /\ n \in Nat
  BY DEF TlvIInv
<1>2. c \in CoordinateLsas
  BY <1>1 DEF LsasOf, CoordinateLsas
<1>3. adj \in Seq(LsasOf("AdjacencyLsa"))
  <2>1. CASE type = "AdjacencyLsa"
    BY <1>1, <2>1, SequenceOf
  <2>2. CASE type # "AdjacencyLsa"
    BY <2>2
  <2> QED
    BY <2>1, <2>2
<1>4. nam \in Seq(LsasOf("NameLsa"))
  <2>1. CASE type = "NameLsa"
    BY <1>1, <2>1, SequenceOf
  <2>2. CASE type # "NameLsa"
    BY <2>2
  <2> QED
    BY <2>1, <2>2
<1>5. cor \in Seq(CoordinateLsas)
  <2> HIDE DEF c
  <2>1. cor \in [1..n -> CoordinateLsas]
    BY <1>2
  <2> HIDE DEF cor
  <2> QED
    BY <1>1, <2>1, SequenceOf
<1>6. type = "NameLsa" /\ a > 0 => nam # <<>>
  <2>1. ASSUME type = "NameLsa", a > 0
        PROVE  nam # <<>>
    <3>1. Len(nam) = a
      BY <1>1, <2>1, SequenceOf
    <3> HIDE DEF nam
    <3> QED
      BY <2>1, <3>1
  <2> QED
    BY <2>1
<1> HIDE DEF adj, cor, nam
<1>7. ASSUME NEW more, more.type \notin {"AdjacencyLsa", "NameLsa"}, nam = <<>> => more.type # "CoordinateLsa"
      PROVE  /\ DecodeLsdbStatus(EncodeLsdbStatus(s)) = s
             /\ EncodeLsdbStatus(s) = [type |-> "LsdbStatus", value |-> EncodeLsdbStatus(s).value]
             /\ DecodeLsdbStatus(With(<<more>>)) = Error
  <2> DEFINE M == {more}
  <2>1. <<>> \in Seq(M) /\ Len(<<>>) <= 1 /\ <<more>> \in Seq(M) /\ Len(<<more>>) <= 1 /\ <<more>> # <<>>
    OBVIOUS
  <2>2. ASSUME NEW rest \in Seq(M), Len(rest) <= 1
        PROVE  /\ DecodeLsdbStatus(With(rest)) = IF rest = <<>> THEN s ELSE Error
               /\ rest = <<>> => EncodeLsdbStatus(s) = With(rest)
    BY <1>3, <1>4, <1>5, <1>7, <2>2, StatusTogether, ZenonT(30)
  <2> HIDE DEF s, M
  <2>3. DecodeLsdbStatus(With(<<>>)) = s /\ EncodeLsdbStatus(s) = With(<<>>)
    BY <2>1, <2>2
  <2>4. DecodeLsdbStatus(With(<<more>>)) = Error
    BY <2>1, <2>2
  <2>5. With(<<>>) = [type |-> "LsdbStatus", value |-> With(<<>>).value]
    OBVIOUS
  <2> QED
    BY <2>3, <2>4, <2>5, Zenon
<1>8. ASSUME NEW more, EncodeLsdbStatus(s) = [type |-> "LsdbStatus", value |-> EncodeLsdbStatus(s).value]
      PROVE  [EncodeLsdbStatus(s) EXCEPT !.value = @ \o <<more>>] = With(<<more>>)
  <2> DEFINE w == EncodeLsdbStatus(s)
  <2> HIDE DEF s
  <2>1. w = [type |-> "LsdbStatus", value |-> w.value]
    BY <1>8
  <2> DEFINE x == w.value \o <<more>>
  <2>2. [w EXCEPT !.value = w.value \o <<more>>] = [w EXCEPT !.value = x]
    OBVIOUS
  <2> HIDE DEF w, x
  <2>3. [w EXCEPT !.value = x] = [type |-> "LsdbStatus", value |-> x]
    BY <2>1
  <2> QED
    BY <2>2, <2>3 DEF w, x
<1>9. /\ DecodeLsdbStatus(EncodeLsdbStatus(s)) = s
      /\ EncodeLsdbStatus(s) = [type |-> "LsdbStatus", value |-> EncodeLsdbStatus(s).value]
  <2> DEFINE more == [type |-> "LsdbStatus"]
  <2>1. more.type \notin {"AdjacencyLsa", "NameLsa"} /\ more.type # "CoordinateLsa"
    OBVIOUS
  <2> HIDE DEF more, s
  <2> QED
    BY <1>7, <2>1
<1>10. ASSUME NEW e \in Strange
       PROVE  DecodeLsdbStatus([EncodeLsdbStatus(s) EXCEPT !.value = @ \o <<e>>]) = Error
  <2>1. e.type \notin {"AdjacencyLsa", "NameLsa"} /\ e.type # "CoordinateLsa"
    BY StrangeAssumption
  <2>2. DecodeLsdbStatus(With(<<e>>)) = Error
    BY <1>7, <2>1, Zenon
  <2>3. [EncodeLsdbStatus(s) EXCEPT !.value = @ \o <<e>>] = With(<<e>>)
    BY <1>8, <1>9, Zenon
  <2> QED
    BY <2>2, <2>3, Zenon
<1>11. type = "NameLsa" /\ a > 0 =>
         DecodeLsdbStatus([EncodeLsdbStatus(s) EXCEPT !.value = @ \o <<EncodeCoordinateLsa(c)>>]) = Error
  <2> SUFFICES ASSUME type = "NameLsa", a > 0
               PROVE  DecodeLsdbStatus([EncodeLsdbStatus(s) EXCEPT !.value = @ \o <<EncodeCoordinateLsa(c)>>]) = Error
    OBVIOUS
  <2> DEFINE e == EncodeCoordinateLsa(c)
  <2>1. e.type = "CoordinateLsa"
    BY <1>2, CoordinateTold
  <2>2. e.type \notin {"AdjacencyLsa", "NameLsa"} /\ (nam = <<>> => e.type # "CoordinateLsa")
    BY <1>6, <2>1
  <2> HIDE DEF e
  <2>3. DecodeLsdbStatus(With(<<e>>)) = Error
    BY <1>7, <2>2, Zenon
  <2>4. [EncodeLsdbStatus(s) EXCEPT !.value = @ \o <<e>>] = With(<<e>>)
    BY <1>8, <1>9, Zenon
  <2> QED
    BY <2>3, <2>4, Zenon DEF e
<1> QED
  BY <1>9, <1>10, <1>11 DEF adj, cor, nam

\* EncodingTellsObject: whatever order an object is given its fields, items and
\* encodings in, what is read from its encoding is the object, but for the items that
\* clearAdjacencies leaves in an encoding kept before (tlv/adjacency-lsa.hpp:105); a
\* period of any sign survives (tlv/lsa-info.cpp:60), and the LSAs of a dataset are
\* read as they were written, with nothing else between them.
THEOREM EncodingTellsObjectCorrect == TlvSpec => []EncodingTellsObject
<1>1. TlvIInv => EncodingTellsObject
  BY LsaToldOnceInv, StatusToldOnceInv DEF EncodingTellsObject
<1> QED
  BY <1>1, TlvInitInv, TlvStepInv, PTL DEF TlvSpec

-----------------------------------------------------------------------------
(* Content of LSAs: putting adjacents in order, and comparing them.        *)

\* What a list of adjacents is: no name is in it twice (adjacency-list.cpp:39-50).
Adjacents == [name : NeighborNames, half : Nat]
DifferentNames(l) == \A i, j \in DOMAIN l : l[i].name = l[j].name => i = j
IsAdjacencyList(l) == l \in Seq(Adjacents) /\ DifferentNames(l)

\* How many names of S come before x.
Rank(S, x) == Cardinality({m \in S : m < x})

\* A name that comes later has a higher rank, so each rank belongs to one name.
LEMMA RankProperties ==
  ASSUME NEW S \in SUBSET Int, IsFiniteSet(S)
  PROVE  /\ Cardinality(S) \in Nat
         /\ \A x \in S : Rank(S, x) \in Nat /\ Rank(S, x) < Cardinality(S)
         /\ \A x, y \in S : Rank(S, x) = Rank(S, y) => x = y
         /\ \A k \in 1..Cardinality(S) : \E x \in S : Rank(S, x) = k - 1
<1> DEFINE B(x) == {m \in S : m < x}
           n == Cardinality(S)
<1>1. n \in Nat
  BY FS_CardinalityType
<1>2. ASSUME NEW x \in S
      PROVE  IsFiniteSet(B(x)) /\ Rank(S, x) = Cardinality(B(x)) /\ Rank(S, x) \in Nat /\ Rank(S, x) < n
  <2>1. B(x) \in SUBSET S /\ x \notin B(x)
    BY x \in Int
  <2>2. IsFiniteSet(B(x)) /\ Cardinality(B(x)) <= n /\ (n = Cardinality(B(x)) => S = B(x))
    BY <2>1, FS_Subset, Zenon
  <2>3. Cardinality(B(x)) \in Nat /\ Cardinality(B(x)) # n
    BY <2>1, <2>2, FS_CardinalityType
  <2>4. Rank(S, x) = Cardinality(B(x))
    BY DEF Rank
  <2> HIDE DEF B, n
  <2> QED
    BY <1>1, <2>2, <2>3, <2>4
<1>3. ASSUME NEW x \in S, NEW y \in S, x < y
      PROVE  Rank(S, x) < Rank(S, y)
  <2>1. B(x) \in SUBSET B(y) /\ x \in B(y) /\ x \notin B(x)
    <3>1. \A i, j, k \in Int : i < j /\ j < k => i < k /\ ~(j < j)
      OBVIOUS
    <3>2. x \in Int /\ y \in Int /\ \A m \in S : m \in Int
      OBVIOUS
    <3> QED
      BY <1>3, <3>1, <3>2, Zenon
  <2> HIDE DEF B
  <2>2. Cardinality(B(x)) <= Cardinality(B(y)) /\ (Cardinality(B(y)) = Cardinality(B(x)) => B(y) = B(x))
    BY <1>2, <2>1, FS_Subset, Zenon
  <2>3. Cardinality(B(x)) # Cardinality(B(y))
    BY <2>1, <2>2
  <2> QED
    BY <1>2, <2>2, <2>3
<1>4. ASSUME NEW x \in S, NEW y \in S, Rank(S, x) = Rank(S, y)
      PROVE  x = y
  <2>1. x \in Int /\ y \in Int /\ Rank(S, x) \in Nat /\ Rank(S, y) \in Nat
    BY <1>2
  <2>2. ~(x < y) /\ ~(y < x)
    BY <1>3, <1>4, <2>1
  <2> QED
    BY <2>1, <2>2
<1>5. ASSUME NEW k \in 1..n
      PROVE  \E x \in S : Rank(S, x) = k - 1
  <2> DEFINE f == [x \in S |-> Rank(S, x) + 1]
             K == 1..n
  <2>1. f \in Injection(S, K)
    <3>1. f \in [S -> K]
      <4>1. ASSUME NEW x \in S
            PROVE  Rank(S, x) + 1 \in 1..n
        <5>1. Rank(S, x) \in Nat /\ Rank(S, x) < n
          BY <1>2
        <5> HIDE DEF n
        <5> QED
          BY <1>1, <5>1
      <4> QED
        BY <4>1
    <3>2. \A x, y \in S : f[x] = f[y] => x = y
      <4>1. ASSUME NEW x \in S, NEW y \in S, Rank(S, x) + 1 = Rank(S, y) + 1
            PROVE  x = y
        <5>1. Rank(S, x) \in Nat /\ Rank(S, y) \in Nat
          BY <1>2
        <5>2. Rank(S, x) = Rank(S, y)
          BY <4>1, <5>1
        <5> QED
          BY <1>4, <5>2
      <4> QED
        BY <4>1
    <3> HIDE DEF f, K
    <3> QED
      BY <3>1, <3>2 DEF Injection, IsInjective
  <2>2. IsFiniteSet(K) /\ Cardinality(K) = n
    <3> HIDE DEF n
    <3>1. 1 \in Int /\ n \in Int
      BY <1>1
    <3>2. IsFiniteSet(1..n) /\ Cardinality(1..n) = IF 1 > n THEN 0 ELSE n - 1 + 1
      BY <3>1, FS_Interval, Zenon
    <3> QED
      BY <1>1, <3>2
  <2>3. f \in Surjection(S, K)
    <3> HIDE DEF f, K
    <3> QED
      BY <2>1, <2>2, FS_Injection DEF n
  <2>4. PICK x \in S : f[x] = k
    <3> HIDE DEF f
    <3> QED
      BY <2>3 DEF Surjection
  <2>5. Rank(S, x) + 1 = k /\ Rank(S, x) \in Nat
    BY <1>2, <2>4
  <2> QED
    BY <2>5
<1> QED
  BY <1>1, <1>2, <1>4, <1>5

\* Every name has one place in the order, and every place a name.
LEMMA OrderProperties ==
  ASSUME NEW S \in SUBSET Int, IsFiniteSet(S)
  PROVE  /\ Cardinality(S) \in Nat
         /\ InOrder(S) \in [1..Cardinality(S) -> S]
         /\ \A j, k \in 1..Cardinality(S) : InOrder(S)[j] = InOrder(S)[k] => j = k
         /\ \A x \in S : \E k \in 1..Cardinality(S) : InOrder(S)[k] = x
<1> DEFINE n == Cardinality(S)
           f == InOrder(S)
<1>1. /\ n \in Nat
      /\ \A x \in S : Rank(S, x) \in Nat /\ Rank(S, x) < n
      /\ \A x, y \in S : Rank(S, x) = Rank(S, y) => x = y
      /\ \A k \in 1..n : \E x \in S : Rank(S, x) = k - 1
  BY RankProperties
<1>2. f = [k \in 1..n |-> CHOOSE x \in S : Rank(S, x) = k - 1]
  BY DEF InOrder, Rank
<1>3. ASSUME NEW k \in 1..n
      PROVE  f[k] \in S /\ Rank(S, f[k]) = k - 1
  <2> DEFINE x == CHOOSE y \in S : Rank(S, y) = k - 1
  <2>1. x \in S /\ Rank(S, x) = k - 1
    BY <1>1
  <2>2. f[k] = x
    BY <1>2
  <2> HIDE DEF x, f
  <2> QED
    BY <2>1, <2>2
<1>4. f \in [1..n -> S]
  BY <1>2, <1>3
<1> HIDE DEF f, n
<1>5. ASSUME NEW j \in 1..n, NEW k \in 1..n, f[j] = f[k]
      PROVE  j = k
  <2>1. j - 1 = k - 1
    BY <1>3, <1>5
  <2> QED
    BY <2>1
<1>6. ASSUME NEW x \in S
      PROVE  \E k \in 1..n : f[k] = x
  <2>1. Rank(S, x) + 1 \in 1..n /\ (Rank(S, x) + 1) - 1 = Rank(S, x)
    BY <1>1
  <2>2. f[Rank(S, x) + 1] = x
    BY <1>1, <1>3, <2>1
  <2> QED
    BY <2>1, <2>2
<1> QED
  BY <1>1, <1>4, <1>5, <1>6 DEF f, n

\* A list has as many adjacents as names; put in order it has the same ones, in the order of their names.
LEMMA SortedProperties ==
  ASSUME NEW l, IsAdjacencyList(l)
  PROVE  /\ Len(l) \in Nat /\ DOMAIN l = 1..Len(l) /\ DOMAIN Sorted(l) = 1..Len(l)
         /\ NamesOf(l) \subseteq NeighborNames /\ IsFiniteSet(NamesOf(l)) /\ Cardinality(NamesOf(l)) = Len(l)
         /\ \A k \in 1..Len(l) : Sorted(l)[k] \in AsSet(l) /\ Sorted(l)[k].name = InOrder(NamesOf(l))[k]
         /\ \A a \in AsSet(l) : \E k \in 1..Len(l) : Sorted(l)[k] = a
         /\ \A a, b \in AsSet(l) : a.name = b.name => a = b
         /\ \A a \in AsSet(l) : a.name \in NamesOf(l) /\ a \in Adjacents
<1> DEFINE n == Len(l)
           D == 1..n
           N == NamesOf(l)
           q == Sorted(l)
<1>1. n \in Nat /\ DOMAIN l = D /\ (\A i \in D : l[i] \in Adjacents) /\ \A i, j \in D : l[i].name = l[j].name => i = j
  <2>1. l \in Seq(Adjacents)
    BY DEF IsAdjacencyList
  <2>2. n \in Nat /\ DOMAIN l = D /\ (\A i \in D : l[i] \in Adjacents)
    BY <2>1, LenProperties
  <2> QED
    BY <2>2 DEF IsAdjacencyList, DifferentNames
<1>2. N \subseteq NeighborNames /\ IsFiniteSet(N) /\ N \subseteq Int
  <2>1. N \subseteq NeighborNames
    BY <1>1 DEF NamesOf, Adjacents
  <2> HIDE DEF N
  <2> QED
    BY <2>1, FS_Subset, NeighborAssumption
<1>3. Cardinality(N) = n
  <2> DEFINE f == [i \in D |-> l[i].name]
  <2>1. f \in Surjection(D, N)
    BY <1>1 DEF Surjection, NamesOf
  <2>2. f \in Injection(D, N)
    <3>1. f \in [D -> N] /\ \A i, j \in D : f[i] = f[j] => i = j
      BY <1>1 DEF NamesOf
    <3> HIDE DEF f, D, N
    <3> QED
      BY <3>1 DEF Injection, IsInjective
  <2>3. IsFiniteSet(D) /\ Cardinality(D) = n
    <3> HIDE DEF n
    <3>1. 1 \in Int /\ n \in Int
      BY <1>1
    <3>2. IsFiniteSet(1..n) /\ Cardinality(1..n) = IF 1 > n THEN 0 ELSE n - 1 + 1
      BY <3>1, FS_Interval, Zenon
    <3> QED
      BY <1>1, <3>2
  <2> HIDE DEF f, D, N
  <2> QED
    BY <2>1, <2>2, <2>3, FS_Surjection
<1>4. /\ InOrder(N) \in [D -> N]
      /\ \A x \in N : \E k \in D : InOrder(N)[k] = x
  <2> HIDE DEF N
  <2> QED
    BY <1>2, <1>3, OrderProperties
<1>5. q = [k \in D |-> l[CHOOSE i \in D : l[i].name = InOrder(N)[k]]]
  BY <1>1 DEF Sorted
<1>6. ASSUME NEW k \in D
      PROVE  q[k] \in AsSet(l) /\ q[k].name = InOrder(N)[k]
  <2> DEFINE P(i) == l[i].name = InOrder(N)[k]
             e == CHOOSE i \in D : P(i)
  <2>1. \E i \in D : P(i)
    <3>1. InOrder(N)[k] \in N
      BY <1>4
    <3> QED
      BY <1>1, <3>1 DEF NamesOf
  <2>2. e \in D /\ P(e)
    <3> HIDE DEF P
    <3> QED
      BY <2>1
  <2>3. q[k] = l[e]
    BY <1>5
  <2> HIDE DEF e, q
  <2> QED
    BY <1>1, <2>2, <2>3 DEF AsSet
<1>7. \A a, b \in AsSet(l) : a.name = b.name => a = b
  BY <1>1 DEF AsSet
<1>8. \A a \in AsSet(l) : a.name \in N /\ a \in Adjacents
  BY <1>1 DEF AsSet, NamesOf
<1>9. DOMAIN q = D
  BY <1>5
<1> HIDE DEF q, N, D
<1>10. ASSUME NEW a \in AsSet(l)
       PROVE  \E k \in D : q[k] = a
  <2>1. PICK k \in D : InOrder(N)[k] = a.name
    BY <1>4, <1>8
  <2>2. q[k] \in AsSet(l) /\ q[k].name = a.name
    BY <1>6, <2>1
  <2> QED
    BY <1>7, <2>2
<1> QED
  BY <1>1, <1>2, <1>3, <1>6, <1>7, <1>8, <1>9, <1>10 DEF q, N, D

\* An adjacent at its cost rounded up.
Whole(a) == [name |-> a.name, half |-> 2 * RoundUp(a.half)]

\* Two lists are the same when the first has the adjacents of the other, at their costs rounded up.
LEMMA SameMeans ==
  ASSUME NEW l, NEW o, IsAdjacencyList(l), IsAdjacencyList(o)
  PROVE  SameAdjacencies(l, o) <=> AsSet(l) = WholeCosts(o)
<1>1. /\ Len(l) \in Nat /\ DOMAIN l = 1..Len(l)
      /\ Cardinality(NamesOf(l)) = Len(l)
      /\ \A k \in 1..Len(l) : Sorted(l)[k] \in AsSet(l) /\ Sorted(l)[k].name = InOrder(NamesOf(l))[k]
      /\ \A a \in AsSet(l) : \E k \in 1..Len(l) : Sorted(l)[k] = a
      /\ \A a, b \in AsSet(l) : a.name = b.name => a = b
      /\ \A a \in AsSet(l) : a \in Adjacents
  BY SortedProperties
<1>2. /\ Len(o) \in Nat
      /\ Cardinality(NamesOf(o)) = Len(o)
      /\ \A k \in 1..Len(o) : Sorted(o)[k] \in AsSet(o) /\ Sorted(o)[k].name = InOrder(NamesOf(o))[k]
      /\ \A a \in AsSet(o) : \E k \in 1..Len(o) : Sorted(o)[k] = a
      /\ \A a, b \in AsSet(o) : a.name = b.name => a = b
  BY SortedProperties
<1>3. WholeCosts(o) = {Whole(a) : a \in AsSet(o)}
  BY DEF WholeCosts, Whole
<1>4. \A a \in AsSet(l) : \A b : SameAdjacent(a, b) <=> a = Whole(b)
  BY <1>1 DEF SameAdjacent, Adjacents, Whole
<1>5. NamesOf(l) = {a.name : a \in AsSet(l)} /\ NamesOf(o) = {a.name : a \in AsSet(o)}
  BY DEF NamesOf, AsSet
<1>6. \A b : Whole(b).name = b.name
  BY DEF Whole
<1>7. ASSUME SameAdjacencies(l, o)
      PROVE  AsSet(l) = WholeCosts(o)
  <2>1. Len(l) = Len(o) /\ \A k \in 1..Len(l) : Sorted(l)[k] = Whole(Sorted(o)[k])
    BY <1>1, <1>4, <1>7 DEF SameAdjacencies
  <2>2. ASSUME NEW a \in AsSet(l)
        PROVE  a \in WholeCosts(o)
    BY <1>1, <1>2, <1>3, <2>1
  <2>3. ASSUME NEW b \in AsSet(o)
        PROVE  Whole(b) \in AsSet(l)
    <3>1. PICK k \in 1..Len(l) : Sorted(o)[k] = b
      BY <1>2, <2>1
    <3> QED
      BY <1>1, <2>1, <3>1
  <2> QED
    BY <1>3, <2>2, <2>3
<1>8. ASSUME AsSet(l) = WholeCosts(o)
      PROVE  SameAdjacencies(l, o)
  <2>1. NamesOf(l) = NamesOf(o)
    BY <1>3, <1>5, <1>6, <1>8
  <2>2. Len(l) = Len(o)
    BY <1>1, <1>2, <2>1
  <2>3. ASSUME NEW k \in 1..Len(l)
        PROVE  SameAdjacent(Sorted(l)[k], Sorted(o)[k])
    <3>1. Sorted(l)[k] \in AsSet(l) /\ Sorted(o)[k] \in AsSet(o) /\ Sorted(l)[k].name = Sorted(o)[k].name
      BY <1>1, <1>2, <2>1, <2>2
    <3>2. Whole(Sorted(o)[k]) \in AsSet(l) /\ Whole(Sorted(o)[k]).name = Sorted(o)[k].name
      BY <1>3, <1>6, <1>8, <3>1
    <3>3. Sorted(l)[k] = Whole(Sorted(o)[k])
      BY <1>1, <3>1, <3>2
    <3> QED
      BY <1>4, <3>1, <3>3
  <2> QED
    BY <1>1, <2>2, <2>3 DEF SameAdjacencies
<1> QED
  BY <1>7, <1>8

-----------------------------------------------------------------------------
(* Adding adjacents to a list.                                             *)

\* All of a list without a name twice is added to an empty one (adjacency-list.cpp:39-50).
LEMMA AllAreAdded ==
  ASSUME NEW l, IsAdjacencyList(l)
  PROVE  AddAdjacents(<<>>, l) = l
<1> DEFINE n == Len(l)
           First(i) == SubSeq(l, 1, i)
           f == [i \in 0..n |-> First(i)]
           Step(g) == [i \in 0..n |-> IF i = 0 THEN <<>>
                                      ELSE IF l[i].name \in NamesOf(g[i - 1]) THEN g[i - 1]
                                      ELSE Append(g[i - 1], l[i])]
           added == CHOOSE g : g = Step(g)
<1>1. /\ n \in Nat /\ DOMAIN l = 1..n /\ l \in Seq(Adjacents)
      /\ \A i, j \in 1..n : l[i].name = l[j].name => i = j
  BY LenProperties DEF IsAdjacencyList, DifferentNames
<1>2. AddAdjacents(<<>>, l) = added[n]
  BY DEF AddAdjacents
<1>3. First(0) = <<>> /\ First(n) = l
  <2>1. First(0) = <<>>
    BY SubSeqEmpty
  <2>2. First(n) = l
    BY <1>1, SubSeqFull
  <2> QED
    BY <2>1, <2>2
<1> HIDE DEF n
<1>4. ASSUME NEW i \in 1..n
      PROVE  /\ l[i].name \notin NamesOf(First(i - 1))
             /\ First(i) = Append(First(i - 1), l[i])
  <2>1. i - 1 \in Nat /\ i \in Nat /\ 1 <= i /\ i <= n /\ i \in 1..i
    BY <1>1
  <2>2. \A j \in 1..i : l[j] \in Adjacents
    BY <1>1, <2>1, LenProperties
  <2>3. /\ First(i) \in Seq(Adjacents) /\ Len(First(i)) = i
        /\ \A j \in 1..i : First(i)[j] = l[j]
    <3>1. /\ SubSeq(l, 1, i) \in Seq(Adjacents)
          /\ Len(SubSeq(l, 1, i)) = IF 1 <= i THEN i - 1 + 1 ELSE 0
          /\ \A j \in 1..i - 1 + 1 : SubSeq(l, 1, i)[j] = l[1 + j - 1]
      BY <2>1, <2>2, SubSeqProperties
    <3>2. i - 1 + 1 = i /\ \A j \in 1..i : 1 + j - 1 = j
      BY <2>1
    <3> QED
      BY <2>1, <3>1, <3>2
  <2>4. /\ First(i - 1) \in Seq(Adjacents) /\ Len(First(i - 1)) = i - 1
        /\ \A j \in 1..i - 1 : First(i - 1)[j] = l[j]
    <3> DEFINE m == i - 1
    <3>1. m \in Nat /\ (IF 1 <= m THEN m - 1 + 1 ELSE 0) = m /\ (\A j \in 1..m : 1 + j - 1 = j) /\ m - 1 + 1 = m
          /\ \A j \in 1..m : j \in 1..i
      BY <2>1
    <3> HIDE DEF m
    <3>2. /\ SubSeq(l, 1, m) \in Seq(Adjacents)
          /\ Len(SubSeq(l, 1, m)) = IF 1 <= m THEN m - 1 + 1 ELSE 0
          /\ \A j \in 1..m - 1 + 1 : SubSeq(l, 1, m)[j] = l[1 + j - 1]
      BY <2>2, <3>1, SubSeqProperties
    <3>3. SubSeq(l, 1, m) \in Seq(Adjacents) /\ Len(SubSeq(l, 1, m)) = m /\ \A j \in 1..m : SubSeq(l, 1, m)[j] = l[j]
      BY <3>1, <3>2
    <3> QED
      BY <3>3 DEF m
  <2> DEFINE a == First(i)
             b == First(i - 1)
             e == l[i]
  <2>5. a = Append(b, e)
    <3>1. e \in Adjacents
      BY <2>1, <2>2
    <3>2. a[i] = e /\ \A j \in 1..i - 1 : a[j] = b[j]
      <4>1. \A j \in 1..i - 1 : j \in 1..i
        BY <2>1
      <4> QED
        BY <2>1, <2>3, <2>4, <4>1
    <3>3. a \in Seq(Adjacents) /\ b \in Seq(Adjacents) /\ Len(a) = i /\ Len(b) = i - 1
      BY <2>3, <2>4
    <3> HIDE DEF a, b, e
    <3>4. /\ Append(b, e) \in Seq(Adjacents) /\ Len(Append(b, e)) = i
          /\ \A j \in 1..i - 1 : Append(b, e)[j] = b[j]
          /\ Append(b, e)[i] = e
      BY <2>1, <3>1, <3>3, AppendProperties
    <3>5. \A j \in 1..i : a[j] = Append(b, e)[j]
      <4>1. \A j \in 1..i : j \in 1..i - 1 \/ j = i
        BY <2>1
      <4> QED
        BY <3>2, <3>4, <4>1
    <3> DEFINE c == Append(b, e)
    <3> HIDE DEF c
    <3>6. c \in Seq(Adjacents) /\ Len(c) = i /\ \A j \in 1..i : a[j] = c[j]
      BY <3>4, <3>5 DEF c
    <3>7. a \in [1..i -> Adjacents] /\ c \in [1..i -> Adjacents]
      BY <3>3, <3>6, LenProperties
    <3>8. a = c
      BY <3>6, <3>7
    <3> QED
      BY <3>8 DEF c
  <2>6. l[i].name \notin NamesOf(First(i - 1))
    <3>1. DOMAIN b = 1..i - 1
      BY <2>4, LenProperties
    <3>2. \A j \in 1..i - 1 : j \in 1..n /\ i \in 1..n /\ j # i
      BY <1>1, <2>1
    <3>3. \A j \in 1..i - 1 : b[j].name # l[i].name
      BY <1>1, <2>4, <3>2
    <3> QED
      BY <3>1, <3>3 DEF NamesOf
  <2> QED
    BY <2>5, <2>6
<1>5. f = Step(f)
  <2>1. \A i \in 0..n : i # 0 => i \in 1..n /\ i - 1 \in 0..n
    BY <1>1
  <2>2. ASSUME NEW i \in 0..n
        PROVE  f[i] = Step(f)[i]
    <3>1. CASE i = 0
      BY <1>3, <3>1
    <3>2. CASE i # 0
      <4>1. i \in 1..n /\ f[i] = First(i) /\ f[i - 1] = First(i - 1)
        BY <2>1, <3>2
      <4>2. l[i].name \notin NamesOf(f[i - 1]) /\ f[i] = Append(f[i - 1], l[i])
        BY <1>4, <4>1
      <4> HIDE DEF f
      <4> QED
        BY <3>2, <4>2
    <3> QED
      BY <3>1, <3>2
  <2> QED
    BY <2>2
<1>6. added = Step(added)
  <2> HIDE DEF f
  <2> QED
    BY <1>5
<1>7. f[0] = <<>> /\ f[n] = l /\ \A i \in 1..n : l[i].name \notin NamesOf(f[i - 1]) /\ f[i] = Append(f[i - 1], l[i])
  <2>1. 0 \in 0..n /\ n \in 0..n /\ \A i \in 1..n : i \in 0..n /\ i - 1 \in 0..n
    BY <1>1
  <2>2. \A i \in 0..n : f[i] = First(i)
    OBVIOUS
  <2> HIDE DEF f, First
  <2> QED
    BY <1>3, <1>4, <2>1, <2>2
<1>8. added[0] = <<>> /\ \A i \in 1..n : added[i] = IF l[i].name \in NamesOf(added[i - 1]) THEN added[i - 1]
                                                 ELSE Append(added[i - 1], l[i])
  <2>1. 0 \in 0..n /\ \A i \in 1..n : i \in 0..n /\ i # 0
    BY <1>1
  <2> HIDE DEF added
  <2> QED
    BY <1>6, <2>1
<1> HIDE DEF f, added
<1>9. ASSUME added[n] # f[n]
      PROVE  FALSE
  <2> DEFINE Wrong == {d \in Nat : d <= n /\ added[d] # f[d]}
  <2>1. n \in Wrong
    BY <1>1, <1>9
  <2>2. PICK d \in Wrong : \A e \in Wrong : ~(<<e, d>> \in OpToRel(<, Nat))
    BY <2>1, NatLessThanWellFounded, WFMin
  <2>3. d \in Nat /\ d <= n /\ added[d] # f[d]
    BY <2>2
  <2>4. CASE d = 0
    BY <1>7, <1>8, <2>3, <2>4
  <2>5. CASE d # 0
    <3>1. d - 1 \in Nat /\ d - 1 < d /\ d - 1 <= n /\ d \in 1..n
      BY <1>1, <2>3, <2>5
    <3>2. d - 1 \notin Wrong
      BY <2>2, <2>3, <3>1 DEF OpToRel
    <3>3. added[d - 1] = f[d - 1]
      BY <3>1, <3>2
    <3> QED
      BY <1>7, <1>8, <2>3, <3>1, <3>3
  <2> QED
    BY <2>4, <2>5
<1> QED
  BY <1>2, <1>7, <1>9

-----------------------------------------------------------------------------
(* Reading what was written, whatever follows it in memory.                *)

\* The AdjacencyList, with any whole number of halves as costs.
AdjacenciesType == adjacencies \in [NeighborNames -> [half : Nat, active : BOOLEAN]]

\* The ACTIVE adjacents are a list without a name twice.
LEMMA ActiveIsList ==
  ASSUME AdjacenciesType
  PROVE  IsAdjacencyList(ActiveAdjacents)
<1> DEFINE S == {x \in NeighborNames : adjacencies[x].active}
           names == InOrder(S)
           n == Cardinality(S)
           l == [i \in DOMAIN names |-> [name |-> names[i], half |-> adjacencies[names[i]].half]]
<1>1. S \in SUBSET Int /\ IsFiniteSet(S) /\ S \subseteq NeighborNames
  <2>1. S \subseteq NeighborNames
    OBVIOUS
  <2> HIDE DEF S
  <2> QED
    BY <2>1, FS_Subset, NeighborAssumption
<1>2. ActiveAdjacents = l
  BY DEF ActiveAdjacents
<1> HIDE DEF S
<1>3. n \in Nat /\ names \in [1..n -> S] /\ \A j, k \in 1..n : names[j] = names[k] => j = k
  BY <1>1, OrderProperties
<1> HIDE DEF names, n
<1>4. DOMAIN l = 1..n /\ \A i \in 1..n : l[i].name = names[i] /\ l[i] \in Adjacents
  <2>1. \A x \in NeighborNames : adjacencies[x].half \in Nat
    BY DEF AdjacenciesType
  <2> QED
    BY <1>1, <1>3, <2>1 DEF Adjacents
<1>5. l \in [1..n -> Adjacents]
  BY <1>3, <1>4
<1> HIDE DEF l
<1>6. l \in Seq(Adjacents)
  BY <1>3, <1>5, SequenceOf
<1> QED
  BY <1>2, <1>3, <1>4, <1>6 DEF IsAdjacencyList, DifferentNames

\* The same list at the costs rounded up.
WholeList(l) == [i \in 1..Len(l) |-> Whole(l[i])]

\* It is a list as well, and rounding up again changes nothing.
LEMMA WholeIsList ==
  ASSUME NEW l, IsAdjacencyList(l)
  PROVE  /\ IsAdjacencyList(WholeList(l))
         /\ AsSet(WholeList(l)) = WholeCosts(l)
         /\ WholeCosts(WholeList(l)) = WholeCosts(l)
<1> DEFINE n == Len(l)
           w == WholeList(l)
<1>1. /\ n \in Nat /\ DOMAIN l = 1..n /\ \A i \in 1..n : l[i] \in Adjacents
      /\ \A i, j \in 1..n : l[i].name = l[j].name => i = j
  BY LenProperties DEF IsAdjacencyList, DifferentNames
<1>2. \A a \in Adjacents : Whole(a) \in Adjacents /\ Whole(a).name = a.name /\ Whole(Whole(a)) = Whole(a)
  <2>1. \A h \in Nat : RoundUp(h) \in Nat /\ 2 * RoundUp(h) \in Nat /\ RoundUp(2 * RoundUp(h)) = RoundUp(h)
    BY DEF RoundUp
  <2> QED
    BY <2>1 DEF Whole, Adjacents
<1>3. DOMAIN w = 1..n /\ \A i \in 1..n : w[i] = Whole(l[i])
  BY DEF WholeList
<1>4. \A x : WholeCosts(x) = {Whole(a) : a \in AsSet(x)}
  BY DEF WholeCosts, Whole
<1> HIDE DEF n
<1>5. w \in [1..n -> Adjacents]
  BY <1>1, <1>2 DEF WholeList, n
<1> HIDE DEF w
<1>6. w \in Seq(Adjacents)
  BY <1>1, <1>5, SequenceOf
<1>7. IsAdjacencyList(w)
  BY <1>1, <1>2, <1>3, <1>6 DEF IsAdjacencyList, DifferentNames
<1>8. AsSet(w) = {w[i] : i \in 1..n} /\ AsSet(l) = {l[i] : i \in 1..n}
  BY <1>1, <1>3 DEF AsSet
<1>9. AsSet(w) = WholeCosts(l)
  BY <1>3, <1>4, <1>8
<1>10. \A a \in AsSet(w) : Whole(a) = a
  BY <1>1, <1>2, <1>3, <1>8
<1>11. WholeCosts(w) = AsSet(w)
  BY <1>4, <1>10
<1> QED
  BY <1>7, <1>9, <1>11 DEF w

\* What may follow the content in memory.
Behind == {<<>>, <<Junk>>}

\* Content that ends with a separator is read back from the front.
LEMMA ContentInMemory ==
  ASSUME NEW S, NEW T, NEW head \in Seq(S), NEW body \in Seq(T), NEW junk \in Behind
  PROVE  /\ Len(head) \in Nat /\ Len(body) \in Nat
         /\ Len((head \o body) \o junk) \in Nat
         /\ Len((head \o body) \o junk) >= Len(head) + Len(body)
         /\ \A i \in 1..Len(head) : ((head \o body) \o junk)[i] = head[i]
         /\ \A i \in 1..Len(body) : ((head \o body) \o junk)[Len(head) + i] = body[i]
<1> DEFINE r == head \o body
           J == {Junk}
           E == S \union T
<1>1. junk \in Seq(J)
  <2>1. Junk \in J
    OBVIOUS
  <2> HIDE DEF J
  <2>2. <<>> \in Seq(J) /\ <<Junk>> \in Seq(J)
    BY <2>1
  <2> QED
    BY <2>2 DEF Behind
<1>2. /\ Len(head) \in Nat /\ Len(body) \in Nat /\ Len(r) = Len(head) + Len(body)
      /\ \A i \in 1..Len(head) : r[i] = head[i]
      /\ \A i \in 1..Len(body) : r[Len(head) + i] = body[i]
      /\ r \in Seq(E)
  BY InARow
<1> HIDE DEF r, J, E
<1>3. /\ Len(r) \in Nat /\ Len(junk) \in Nat /\ Len(r \o junk) = Len(r) + Len(junk)
      /\ \A i \in 1..Len(r) : (r \o junk)[i] = r[i]
  <2>1. r \in Seq(E)
    BY <1>2
  <2> QED
    BY <1>1, <2>1, InARow
<1>4. (head \o body) \o junk = r \o junk
  BY DEF r
<1>5. /\ \A i \in 1..Len(head) : i \in 1..Len(r)
      /\ \A i \in 1..Len(body) : Len(head) + i \in 1..Len(r)
  BY <1>2
<1> QED
  BY <1>2, <1>3, <1>4, <1>5

\* The links of a LSA are read as they were written, at the costs rounded up.
LEMMA LinksTold ==
  ASSUME NEW number \in Nat, NEW l, IsAdjacencyList(l), NEW junk \in Behind
  PROVE  InitializeFromContent(InMemory(GetData([orig |-> Self, seq |-> number, adl |-> l]), junk))
           = [orig |-> Self, seq |-> number, adl |-> WholeList(l)]
<1> DEFINE n == Len(l)
           head == <<Self, number, n>>
           body == LinkTokens(l)
           t == (head \o body) \o junk
           H == {Self, number, n}
           B == {body[i] : i \in 1..2 * n}
<1>1. n \in Nat /\ DOMAIN l = 1..n /\ (\A i \in 1..n : l[i] \in Adjacents) /\ 2 * n \in Nat
  BY LenProperties DEF IsAdjacencyList
<1>2. InMemory(GetData([orig |-> Self, seq |-> number, adl |-> l]), junk) = t
  BY DEF InMemory, GetData
<1>3. head \in Seq(H) /\ Len(head) = 3 /\ head[1] = Self /\ head[2] = number /\ head[3] = n
  OBVIOUS
<1> HIDE DEF n
<1>4. body = [k \in 1..2 * n |-> IF k % 2 = 1 THEN l[(k + 1) \div 2].name ELSE RoundUp(l[k \div 2].half)]
  BY DEF LinkTokens, n
<1>5. \A i \in 1..n : body[2 * i - 1] = l[i].name /\ body[2 * i] = RoundUp(l[i].half)
  <2>1. ASSUME NEW i \in 1..n
        PROVE  /\ 2 * i - 1 \in 1..2 * n /\ (2 * i - 1) % 2 = 1 /\ ((2 * i - 1) + 1) \div 2 = i
               /\ 2 * i \in 1..2 * n /\ (2 * i) % 2 # 1 /\ (2 * i) \div 2 = i
    BY <1>1
  <2> QED
    BY <1>4, <2>1
<1> HIDE DEF body
<1>6. body \in Seq(B) /\ Len(body) = 2 * n
  <2>1. body \in [1..2 * n -> B]
    BY <1>4
  <2> HIDE DEF B
  <2> QED
    BY <1>1, <2>1, SequenceOf
<1> HIDE DEF head, H, B
<1> DEFINE m == Len(t)
<1>7. /\ m \in Nat /\ m >= 3 + 2 * n
      /\ \A i \in 1..3 : t[i] = head[i]
      /\ \A i \in 1..2 * n : t[3 + i] = body[i]
  <2>1. head \in Seq(H) /\ body \in Seq(B)
    BY <1>3, <1>6
  <2>2. /\ Len(t) \in Nat /\ Len(t) >= Len(head) + Len(body)
        /\ \A i \in 1..Len(head) : t[i] = head[i]
        /\ \A i \in 1..Len(body) : t[Len(head) + i] = body[i]
    BY <2>1, ContentInMemory
  <2> HIDE DEF t
  <2> QED
    BY <1>3, <1>6, <2>2
<1> HIDE DEF t, m
<1>8. t[1] = Self /\ t[2] = number /\ t[3] = n
  BY <1>3, <1>7
<1>9. \A i \in 1..n : /\ 3 + 2 * (i - 1) + 2 <= m
                      /\ t[3 + 2 * (i - 1) + 1] = l[i].name
                      /\ t[3 + 2 * (i - 1) + 2] = RoundUp(l[i].half)
                      /\ RoundUp(l[i].half) \in Nat
  <2>1. ASSUME NEW i \in 1..n
        PROVE  /\ 2 * i - 1 \in 1..2 * n /\ 3 + 2 * (i - 1) + 1 = 3 + (2 * i - 1)
               /\ 2 * i \in 1..2 * n /\ 3 + 2 * (i - 1) + 2 = 3 + 2 * i
               /\ 3 + 2 * i <= 3 + 2 * n
    <3>1. i \in Nat /\ 1 <= i /\ i <= n
      BY <1>1
    <3> QED
      BY <1>1, <3>1
  <2>2. ASSUME NEW i \in 1..n
        PROVE  t[3 + (2 * i - 1)] = l[i].name /\ t[3 + 2 * i] = RoundUp(l[i].half)
    BY <1>5, <1>7, <2>1
  <2>3. \A i \in 1..n : RoundUp(l[i].half) \in Nat
    <3>1. \A h \in Nat : RoundUp(h) \in Nat
      BY DEF RoundUp
    <3> QED
      BY <1>1, <3>1 DEF Adjacents
  <2>4. ASSUME NEW i \in 1..n
        PROVE  3 + 2 * (i - 1) + 2 <= m
    <3>1. 3 + 2 * (i - 1) + 2 <= 3 + 2 * n /\ 3 + 2 * (i - 1) + 2 \in Int /\ 3 + 2 * n \in Int
      BY <1>1, <2>1
    <3>2. m \in Int /\ 3 + 2 * n <= m
      BY <1>1, <1>7
    <3> QED
      BY <3>1, <3>2
  <2> QED
    BY <2>1, <2>2, <2>3, <2>4
<1> DEFINE read == [i \in 1..n |-> [name |-> t[3 + 2 * (i - 1) + 1], half |-> 2 * t[3 + 2 * (i - 1) + 2]]]
<1>10. read = WholeList(l)
  <2>1. WholeList(l) = [i \in 1..n |-> [name |-> l[i].name, half |-> 2 * RoundUp(l[i].half)]]
    BY DEF WholeList, Whole, n
  <2> QED
    BY <1>9, <2>1
<1>11. AddAdjacents(<<>>, read) = WholeList(l)
  <2>1. IsAdjacencyList(WholeList(l))
    BY WholeIsList
  <2> HIDE DEF read
  <2> QED
    BY <1>10, <2>1, AllAreAdded
<1>12. /\ 2 <= Len(t) /\ t[2] \in Nat /\ 3 <= Len(t) /\ t[3] \in Nat
       /\ \A i \in 1..t[3] : 3 + 2 * (i - 1) + 2 <= Len(t) /\ t[3 + 2 * (i - 1) + 2] \in Nat
  <2>1. 2 <= m /\ 3 <= m
    <3>1. m \in Nat /\ m >= 3 + 2 * n
      BY <1>7
    <3> QED
      BY <1>1, <3>1
  <2>2. \A i \in 1..n : 3 + 2 * (i - 1) + 2 <= m /\ t[3 + 2 * (i - 1) + 2] \in Nat
    BY <1>9
  <2> QED
    BY <1>1, <1>8, <2>1, <2>2 DEF m
<1>13. InitializeFromContent(t) = [orig |-> t[1], seq |-> t[2], adl |-> AddAdjacents(<<>>,
         [i \in 1..t[3] |-> [name |-> t[3 + 2 * (i - 1) + 1], half |-> 2 * t[3 + 2 * (i - 1) + 2]]])]
  BY <1>12, Zenon DEF InitializeFromContent
<1> QED
  BY <1>2, <1>8, <1>11, <1>13

\* Names in any order are read as they were written.
LEMMA NamesTold ==
  ASSUME NEW number \in Nat, NEW S, NEW names \in Seq(S), NEW junk \in Behind
  PROVE  InitializeNames(InMemory(GetNameData([orig |-> Self, seq |-> number, names |-> names]), junk))
           = [orig |-> Self, seq |-> number, names |-> names]
<1> DEFINE n == Len(names)
           head == <<Self, number, n>>
           t == (head \o names) \o junk
           H == {Self, number, n}
           read == SubSeq(t, 4, 3 + n)
<1>1. n \in Nat
  BY LenProperties
<1>2. InMemory(GetNameData([orig |-> Self, seq |-> number, names |-> names]), junk) = t
  BY DEF InMemory, GetNameData
<1>3. head \in Seq(H) /\ Len(head) = 3 /\ head[1] = Self /\ head[2] = number /\ head[3] = n
  OBVIOUS
<1> HIDE DEF head, H
<1>4. /\ \A i \in 1..3 : t[i] = head[i]
      /\ \A i \in 1..n : t[3 + i] = names[i]
  <2>1. /\ \A i \in 1..Len(head) : t[i] = head[i]
        /\ \A i \in 1..Len(names) : t[Len(head) + i] = names[i]
    <3>1. head \in Seq(H) /\ names \in Seq(S)
      BY <1>3
    <3> HIDE DEF n
    <3> QED
      BY <3>1, ContentInMemory
  <2> HIDE DEF t
  <2> QED
    BY <1>3, <2>1
<1> HIDE DEF t
<1>5. t[1] = Self /\ t[2] = number /\ t[3] = n
  BY <1>3, <1>4
<1>6. read = names
  <2>1. names \in [1..n -> S]
    BY LenProperties
  <2> HIDE DEF n, read
  <2>2. ASSUME NEW i \in 4..3 + n
        PROVE  t[i] \in S
    <3>1. i - 3 \in 1..n /\ 3 + (i - 3) = i
      BY <1>1
    <3> QED
      BY <1>4, <2>1, <3>1
  <2> DEFINE m == 3 + n
  <2>3. /\ m \in Int /\ m - 4 + 1 = n /\ (IF 4 <= m THEN m - 4 + 1 ELSE 0) = n
        /\ \A i \in 1..n : 4 + i - 1 = 3 + i
        /\ \A i \in 4..m : t[i] \in S
        /\ read = SubSeq(t, 4, m)
    BY <1>1, <2>2 DEF read
  <2> HIDE DEF m
  <2>4. read \in Seq(S) /\ Len(read) = n /\ \A i \in 1..n : read[i] = names[i]
    <3>1. /\ SubSeq(t, 4, m) \in Seq(S)
          /\ Len(SubSeq(t, 4, m)) = IF 4 <= m THEN m - 4 + 1 ELSE 0
          /\ \A i \in 1..m - 4 + 1 : SubSeq(t, 4, m)[i] = t[4 + i - 1]
      BY <2>3, SubSeqProperties
    <3>2. read \in Seq(S) /\ Len(read) = n /\ \A i \in 1..n : read[i] = t[3 + i]
      BY <2>3, <3>1
    <3> QED
      BY <1>4, <3>2
  <2>5. read \in [1..n -> S]
    BY <2>4, LenProperties
  <2> QED
    BY <2>1, <2>4, <2>5
<1>7. {t[2], t[3]} \subseteq Nat
  BY <1>1, <1>5
<1>8. InitializeNames(t) = [orig |-> t[1], seq |-> t[2], names |-> SubSeq(t, 4, 3 + t[3])]
  BY <1>7 DEF InitializeNames
<1> HIDE DEF n
<1> QED
  BY <1>2, <1>5, <1>6, <1>8 DEF read

\* So are coordinates.
LEMMA CoordinatesTold ==
  ASSUME NEW number \in Nat, NEW radius \in Nat, NEW theta \in Nat, NEW junk \in Behind
  PROVE  InitializeCoordinates(InMemory(GetCoordinateData(
             [orig |-> Self, seq |-> number, radius |-> radius, theta |-> theta]), junk))
           = [orig |-> Self, seq |-> number, radius |-> radius, theta |-> theta]
<1> DEFINE head == <<Self, number, radius, theta>>
           t == (head \o <<>>) \o junk
           H == {Self, number, radius, theta}
           E == {}
<1>1. head \in Seq(H) /\ Len(head) = 4 /\ head[1] = Self /\ head[2] = number /\ head[3] = radius /\ head[4] = theta
  OBVIOUS
<1>2. InMemory(GetCoordinateData([orig |-> Self, seq |-> number, radius |-> radius, theta |-> theta]), junk)
        = head \o junk
  BY DEF InMemory, GetCoordinateData
<1> HIDE DEF head, H
<1>3. head \o <<>> = head
  BY <1>1, ConcatEmptySeq
<1>4. \A i \in 1..4 : t[i] = head[i]
  <2>1. <<>> \in Seq(E) /\ head \in Seq(H)
    BY <1>1
  <2> HIDE DEF E
  <2>2. \A i \in 1..Len(head) : t[i] = head[i]
    BY <2>1, ContentInMemory
  <2> HIDE DEF t
  <2> QED
    BY <1>1, <2>2
<1>5. t = head \o junk
  BY <1>3
<1> HIDE DEF t
<1>6. t[1] = Self /\ t[2] = number /\ t[3] = radius /\ t[4] = theta
  BY <1>1, <1>4
<1>7. {t[2], t[3], t[4]} \subseteq Nat
  BY <1>6
<1>8. InitializeCoordinates(t) = [orig |-> t[1], seq |-> t[2], radius |-> t[3], theta |-> t[4]]
  BY <1>7 DEF InitializeCoordinates
<1> QED
  BY <1>2, <1>5, <1>6, <1>8

\* Names and coordinates are told for every number and whatever follows them.
LEMMA OthersAreTold ==
  ASSUME NEW number \in Nat
  PROVE  OthersTold(number)
<1>1. ASSUME NEW junk \in Behind, NEW S \in SUBSET NeighborNames, NEW names \in SetToSeqs(S)
      PROVE  InitializeNames(InMemory(GetNameData([orig |-> Self, seq |-> number, names |-> names]), junk))
               = [orig |-> Self, seq |-> number, names |-> names]
  <2>1. Cardinality(S) \in Nat
    BY FS_Subset, FS_CardinalityType, NeighborAssumption
  <2>2. names \in [1..Cardinality(S) -> S]
    BY DEF SetToSeqs
  <2>3. names \in Seq(S)
    BY <2>1, <2>2, SequenceOf
  <2> QED
    BY <2>3, NamesTold
<1>2. ASSUME NEW junk \in Behind, NEW radius \in HalfCosts, NEW theta \in HalfCosts
      PROVE  InitializeCoordinates(InMemory(GetCoordinateData(
                 [orig |-> Self, seq |-> number, radius |-> radius, theta |-> theta]), junk))
               = [orig |-> Self, seq |-> number, radius |-> radius, theta |-> theta]
  BY CoordinatesTold, HalfCostAssumption
<1>3. \A names \in UNION {SetToSeqs(S) : S \in SUBSET NeighborNames} :
        \E S \in SUBSET NeighborNames : names \in SetToSeqs(S)
  OBVIOUS
<1> QED
  BY <1>1, <1>2, <1>3, Zenon DEF OthersTold, Behind

-----------------------------------------------------------------------------
(* The lists both routers hold: the inductive invariant.                   *)

\* The databases have lists without a name twice, at costs that are numbers.
LsaIInv ==
  /\ AdjacenciesType /\ builds \in Nat
  /\ IsAdjacencyList(kept) /\ IsAdjacencyList(held)

\* Nothing is held at first.
LEMMA LsaInitInv == LsaInit => LsaIInv
<1> SUFFICES ASSUME LsaInit
             PROVE  LsaIInv
  OBVIOUS
<1>1. AdjacenciesType /\ builds \in Nat
  BY DEF LsaInit, AdjacenciesType
<1>2. IsAdjacencyList(<<>>)
  BY DEF IsAdjacencyList, DifferentNames
<1> QED
  BY <1>1, <1>2 DEF LsaInit, LsaIInv

\* What installing a list leaves there, and that it is the list or the same.
LEMMA InstalledFollows ==
  ASSUME NEW there, NEW adl, IsAdjacencyList(there), IsAdjacencyList(adl)
  PROVE  /\ IsAdjacencyList(Installed(there, adl))
         /\ (Installed(there, adl) = there /\ AsSet(there) = WholeCosts(adl)) \/ Installed(there, adl) = adl
         /\ AsSet(there) = WholeCosts(adl) => Installed(there, adl) = there
<1>1. AddAdjacents(<<>>, adl) = adl
  BY AllAreAdded
<1>2. SameAdjacencies(there, adl) <=> AsSet(there) = WholeCosts(adl)
  BY SameMeans
<1> QED
  BY <1>1, <1>2 DEF Installed

\* A LSA that is built and sent.
Delivered ==
  /\ builds' = builds + 1
  /\ kept' = Installed(kept, ActiveAdjacents)
  /\ held' = Installed(held, WholeList(ActiveAdjacents))
  /\ calculates' <=> ~SameAdjacencies(held, WholeList(ActiveAdjacents))
  /\ UNCHANGED adjacencies

\* What is built is read by the other router as it is, at the costs rounded up.
LEMMA BuiltIsDelivered == LsaIInv /\ BuildAndSend => Delivered
<1> SUFFICES ASSUME LsaIInv, BuildAndSend
             PROVE  Delivered
  OBVIOUS
<1> DEFINE lsa == [orig |-> Self, seq |-> builds + 1, adl |-> ActiveAdjacents]
           R(junk) == InitializeFromContent(InMemory(GetData(lsa), junk))
<1>1. PICK junk \in Behind :
        /\ builds' = builds + 1
        /\ kept' = Installed(kept, lsa.adl)
        /\ held' = IF R(junk).seq > 0 THEN Installed(held, R(junk).adl) ELSE held
        /\ calculates' = (R(junk).seq > 0 /\ ~SameAdjacencies(held, R(junk).adl))
  BY DEF BuildAndSend, Behind
<1>2. builds + 1 \in Nat /\ builds + 1 > 0
  BY DEF LsaIInv
<1>3. IsAdjacencyList(ActiveAdjacents)
  BY ActiveIsList DEF LsaIInv
<1>4. R(junk) = [orig |-> Self, seq |-> builds + 1, adl |-> WholeList(ActiveAdjacents)]
  BY <1>2, <1>3, LinksTold
<1> HIDE DEF R
<1>5. R(junk).seq > 0 /\ R(junk).adl = WholeList(ActiveAdjacents) /\ lsa.adl = ActiveAdjacents
  BY <1>2, <1>4
<1>6. UNCHANGED adjacencies
  BY DEF BuildAndSend
<1> QED
  BY <1>1, <1>5, <1>6 DEF Delivered

\* Both routers keep lists of adjacents, whichever LSA comes.
LEMMA LsaStepInv == LsaIInv /\ [LsaNext]_lsaVars => LsaIInv'
<1> SUFFICES ASSUME LsaIInv, [LsaNext]_lsaVars
             PROVE  LsaIInv'
  OBVIOUS
<1>1. CASE BuildAndSend
  <2>1. Delivered
    BY <1>1, BuiltIsDelivered
  <2> DEFINE a == ActiveAdjacents
             w == WholeList(ActiveAdjacents)
  <2>2. IsAdjacencyList(a) /\ IsAdjacencyList(w)
    BY ActiveIsList, WholeIsList DEF LsaIInv
  <2> HIDE DEF a, w
  <2>3. IsAdjacencyList(Installed(kept, a)) /\ IsAdjacencyList(Installed(held, w))
    BY <2>2, InstalledFollows DEF LsaIInv
  <2>4. IsAdjacencyList(kept') /\ IsAdjacencyList(held')
    BY <2>1, <2>3 DEF Delivered, a, w
  <2>5. AdjacenciesType' /\ builds' \in Nat
    BY <2>1 DEF Delivered, LsaIInv, AdjacenciesType
  <2> QED
    BY <2>4, <2>5 DEF LsaIInv
<1>2. ASSUME NEW n \in NeighborNames, ChangeNeighbor(n)
      PROVE  LsaIInv'
  <2>1. AdjacenciesType'
    BY <1>2, HalfCostAssumption DEF LsaIInv, AdjacenciesType, ChangeNeighbor
  <2> QED
    BY <1>2, <2>1 DEF LsaIInv, ChangeNeighbor
<1>3. CASE UNCHANGED lsaVars
  BY <1>3 DEF LsaIInv, AdjacenciesType, lsaVars
<1> QED
  BY <1>1, <1>2, <1>3 DEF LsaNext

\* A LSA brings both routers to the same links; if they were the same, nothing is
\* calculated.
LEMMA LsaStepFollows ==
  LsaIInv /\ [LsaNext]_lsaVars =>
    [builds' # builds =>
       /\ AsSet(held') = WholeCosts(kept')
       /\ calculates' <=> AsSet(held') # AsSet(held)
       /\ OthersTold(builds')]_lsaVars
<1> SUFFICES ASSUME LsaIInv, [LsaNext]_lsaVars, builds' # builds
             PROVE  /\ AsSet(held') = WholeCosts(kept')
                    /\ calculates' <=> AsSet(held') # AsSet(held)
                    /\ OthersTold(builds')
  OBVIOUS
<1> DEFINE a == ActiveAdjacents
           w == WholeList(ActiveAdjacents)
<1>1. BuildAndSend
  BY DEF LsaNext, ChangeNeighbor, lsaVars
<1>2. Delivered
  BY <1>1, BuiltIsDelivered
<1>3. /\ IsAdjacencyList(a) /\ IsAdjacencyList(w)
      /\ AsSet(w) = WholeCosts(a) /\ WholeCosts(w) = WholeCosts(a)
  BY ActiveIsList, WholeIsList DEF LsaIInv
<1> HIDE DEF a, w
<1>4. IsAdjacencyList(kept) /\ IsAdjacencyList(held)
  BY DEF LsaIInv
<1>5. /\ kept' = Installed(kept, a) /\ held' = Installed(held, w)
      /\ calculates' <=> ~SameAdjacencies(held, w)
  BY <1>2 DEF Delivered, a, w
<1>6. (kept' = kept /\ AsSet(kept) = WholeCosts(a)) \/ kept' = a
  BY <1>3, <1>4, <1>5, InstalledFollows
<1>7. WholeCosts(kept') = WholeCosts(a)
  <2>1. ASSUME AsSet(kept) = WholeCosts(a)
        PROVE  WholeCosts(kept) = WholeCosts(a)
    <3>1. WholeCosts(kept) = WholeCosts(w)
      BY <1>3, <2>1 DEF WholeCosts
    <3> QED
      BY <1>3, <3>1
  <2> QED
    BY <1>6, <2>1
<1>8. AsSet(held') = WholeCosts(a) /\ (AsSet(held) = WholeCosts(a) => held' = held)
  <2>1. (held' = held /\ AsSet(held) = WholeCosts(w)) \/ held' = w
    BY <1>3, <1>4, <1>5, InstalledFollows
  <2>2. AsSet(held) = WholeCosts(w) => held' = held
    BY <1>3, <1>4, <1>5, InstalledFollows
  <2> QED
    BY <1>3, <2>1, <2>2
<1>9. calculates' <=> AsSet(held) # WholeCosts(a)
  <2>1. SameAdjacencies(held, w) <=> AsSet(held) = WholeCosts(w)
    BY <1>3, <1>4, SameMeans
  <2> QED
    BY <1>3, <1>5, <2>1
<1>10. OthersTold(builds')
  <2>1. builds' \in Nat
    BY <1>2 DEF Delivered, LsaIInv
  <2> QED
    BY <2>1, OthersAreTold
<1> QED
  BY <1>7, <1>8, <1>9, <1>10

\* ReceiverFollowsLinks: whatever LSAs a router builds of its AdjacencyList, another one
\* holds the same links at the costs rounded up, whatever followed the content in memory
\* (lsdb.cpp:1069), and calculates its routing table exactly when one of them has changed
\* (lsa.cpp:262-315, lsdb.cpp:631); names and coordinates are told as they are.
THEOREM ReceiverFollowsLinksCorrect == LsaContentSpec => ReceiverFollowsLinks
  BY LsaInitInv, LsaStepInv, LsaStepFollows, PTL DEF LsaContentSpec, ReceiverFollowsLinks
================================================================================
