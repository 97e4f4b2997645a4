----------------------------- MODULE SeqNoFields -----------------------------
(***************************************************************************)
(* How SequencingManager packs the sequence numbers of the three LSA types *)
(* into one combined number, which is what nsync compares and what a       *)
(* receiver of a sync update takes apart again.                            *)
(*                                                                         *)
(* Numbers are unsigned words (uint64_t).  A word is the set of positions  *)
(* of its ones, the lowest is 0.                                           *)
(***************************************************************************)
EXTENDS Integers

CONSTANTS
  WordBits,                     \* 64
  AdjBits, CorBits, NameBits    \* field widths: 20, 20 and 24

ASSUME WidthAssumption ==
  /\ WordBits \in Nat /\ {AdjBits, CorBits, NameBits} \subseteq Nat \ {0}
  /\ AdjBits + CorBits + NameBits <= WordBits

VARIABLES nameLsaSeq, corLsaSeq, adjLsaSeq, combinedSeqNo
fieldVars == <<nameLsaSeq, corLsaSeq, adjLsaSeq, combinedSeqNo>>

-----------------------------------------------------------------------------
(* Words.  What is shifted beyond either end is lost.                      *)

Positions == 0..WordBits - 1

ShiftL(word, bits) == {k + bits : k \in word} \intersect Positions
ShiftR(word, bits) == {k - bits : k \in word} \intersect Positions

\* Ones at the low end.
Mask(bits) == 0..bits - 1

\* The ones at the low end are carried into the zero behind them, if there is one.
PlusOne(word) ==
  LET carried == {k \in Positions : 0..k \subseteq word}
      zero    == {k \in Positions \ word : 0..k - 1 \subseteq word}
  IN (word \ carried) \union zero

-----------------------------------------------------------------------------

\* The fields are not masked on their way in.
CombineSequenceNo(name, cor, adj) ==
  (adj \union ShiftL(cor, AdjBits)) \union ShiftL(name, AdjBits + CorBits)

Mut_SplitSequenceNoMask(seqNo) ==
  [name |-> ShiftR(seqNo, AdjBits + CorBits) \intersect Mask(CorBits),
   cor  |-> ShiftR(seqNo, AdjBits) \intersect Mask(CorBits),
   adj  |-> seqNo \intersect Mask(AdjBits)]

SplitSequenceNo(seqNo) ==
  [name |-> ShiftR(seqNo, AdjBits + CorBits) \intersect Mask(NameBits),
   cor  |-> ShiftR(seqNo, AdjBits) \intersect Mask(CorBits),
   adj  |-> seqNo \intersect Mask(AdjBits)]

FieldInit ==
  /\ nameLsaSeq = {} /\ corLsaSeq = {} /\ adjLsaSeq = {}
  /\ combinedSeqNo = {}

Recombine == combinedSeqNo' = CombineSequenceNo(nameLsaSeq', corLsaSeq', adjLsaSeq')

\* Bound: no counter goes on from the first value that its field does not hold.
IncreaseNameLsaSeq ==
  /\ nameLsaSeq \subseteq Mask(NameBits)
  /\ nameLsaSeq' = PlusOne(nameLsaSeq)
  /\ UNCHANGED <<corLsaSeq, adjLsaSeq>>
  /\ Recombine

IncreaseCorLsaSeq ==
  /\ corLsaSeq \subseteq Mask(CorBits)
  /\ corLsaSeq' = PlusOne(corLsaSeq)
  /\ UNCHANGED <<nameLsaSeq, adjLsaSeq>>
  /\ Recombine

IncreaseAdjLsaSeq ==
  /\ adjLsaSeq \subseteq Mask(AdjBits)
  /\ adjLsaSeq' = PlusOne(adjLsaSeq)
  /\ UNCHANGED <<nameLsaSeq, corLsaSeq>>
  /\ Recombine

FieldNext == IncreaseNameLsaSeq \/ IncreaseCorLsaSeq \/ IncreaseAdjLsaSeq

FieldSpec == FieldInit /\ [][FieldNext]_fieldVars

-----------------------------------------------------------------------------
(* Properties.                                                             *)

InRange ==
  /\ nameLsaSeq \subseteq Mask(NameBits)
  /\ corLsaSeq \subseteq Mask(CorBits)
  /\ adjLsaSeq \subseteq Mask(AdjBits)

\* As long as no counter has outgrown its field, the receiver of a sync update
\* (SyncUpdate, sync-logic-handler.cpp:84-100) reads the sender's three
\* numbers, whatever they are, up to the largest each field can hold.
ReceiverReadsSender ==
  InRange => SplitSequenceNo(combinedSeqNo)
               = [name |-> nameLsaSeq, cor |-> corLsaSeq, adj |-> adjLsaSeq]
=============================================================================
