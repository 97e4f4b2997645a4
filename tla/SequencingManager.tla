------------------------- MODULE SequencingManager -------------------------
(***************************************************************************)
(* The sequence numbers of one router's own LSAs over its crashes: the     *)
(* three counters in memory, the file they are saved to, and the sync      *)
(* updates that disclose them to the other routers.                        *)
(*                                                                         *)
(* A combined number is the record of its three fields here; how the       *)
(* fields are packed into 64 bits is the subject of SeqNoFields.           *)
(***************************************************************************)
EXTENDS Naturals, Sequences

CONSTANTS
  Absent, Empty, \* what nlsrSeqNo.txt can be when it holds no number
  Jump,          \* added to every counter when they are read back: 10
  MaxSeq,        \* bound: largest value of a counter
  MaxPosted,     \* bound: publications posted to the event loop, not yet run
  CrashInWrite   \* whether the process may stop while it rewrites the file

ASSUME JumpAssumption   == Jump \in Nat
ASSUME BoundsAssumption == MaxSeq \in Nat /\ MaxPosted \in Nat
ASSUME CrashAssumption  == CrashInWrite \in BOOLEAN

Types == {"NAME", "ADJ", "COR"}
Numbers == [Types -> 0..MaxSeq]
Zero == [t \in Types |-> 0]

ASSUME FileAssumption == Absent # Empty /\ {Absent, Empty} \intersect Numbers = {}

VARIABLES
  phase,      \* "down", "up", or "writing": the file is truncated, not written
  seq,        \* the counters in memory
  file,
  posted,     \* combined numbers on their way to SyncLogic::addLocalNames
  published   \* history: the numbers other routers may have seen

vars == <<phase, seq, file, posted, published>>

Init ==
  /\ phase = "down"
  /\ seq = Zero
  /\ file = Absent
  /\ posted = <<>>
  /\ published = {}

\* q is behind p in one field at least and ahead in none.
Below(q, p) == q # p /\ \A t \in Types : q[t] <= p[t]

\* The order of the combined numbers, which nsync goes by: the Name field is
\* the most significant one, then the Coordinate field.
Less(q, p) ==
  \/ q["NAME"] < p["NAME"]
  \/ q["NAME"] = p["NAME"] /\ q["COR"] < p["COR"]
  \/ q["NAME"] = p["NAME"] /\ q["COR"] = p["COR"] /\ q["ADJ"] < p["ADJ"]

-----------------------------------------------------------------------------
\* The counters found in the file.  Nothing can be extracted from an empty
\* one, which leaves the member at zero.
Stored == IF file \in {Absent, Empty} THEN Zero ELSE file

InitialSeqNo ==
  IF file = Absent THEN Zero ELSE [t \in Types |-> Stored[t] + Jump]

\* Nlsr::initialize: the numbers are read back, then the own Name and
\* Coordinate LSAs are built, each with the next number and no publication.
Initialize ==
  /\ phase = "down"
  /\ phase' = "up"
  /\ seq' = [t \in Types |-> InitialSeqNo[t] + IF t = "ADJ" THEN 0 ELSE 1]
  /\ seq' \in Numbers
  /\ UNCHANGED <<file, posted, published>>

\* A new own LSA of type t (built for a change of the names or neighbours, or
\* refreshed) takes the next number; publishRoutingUpdate starts to save it.
BuildLsa(t) ==
  /\ phase = "up"
  /\ Len(posted) < MaxPosted
  /\ seq' = [seq EXCEPT ![t] = @ + 1]
  /\ seq' \in Numbers
  /\ phase' = "writing"
  /\ file' = Empty
  /\ UNCHANGED <<posted, published>>

\* The handler goes on: the number is in the file, and its publication is
\* posted to the event loop.
PublishRoutingUpdate ==
  /\ phase = "writing"
  /\ phase' = "up"
  /\ file' = seq
  /\ posted' = Append(posted, seq)
  /\ UNCHANGED <<seq, published>>

Mut_PublishDataInternalLastFirst ==
  /\ phase = "up"
  /\ posted # <<>>
  /\ published' = published \union {posted[Len(posted)]}
  /\ posted' = SubSeq(posted, 1, Len(posted) - 1)
  /\ UNCHANGED <<phase, seq, file>>

\* The posted call runs: the number becomes part of the sync state.
PublishDataInternal ==
  /\ phase = "up"
  /\ posted # <<>>
  /\ published' = published \union {Head(posted)}
  /\ posted' = Tail(posted)
  /\ UNCHANGED <<phase, seq, file>>

Crash ==
  /\ phase = "up" \/ (phase = "writing" /\ CrashInWrite)
  /\ phase' = "down"
  /\ seq' = Zero
  /\ posted' = <<>>
  /\ UNCHANGED <<file, published>>

Next ==
  \/ Initialize \/ PublishRoutingUpdate \/ PublishDataInternal \/ Crash
  \/ \E t \in Types : BuildLsa(t)

Spec == Init /\ [][Next]_vars

-----------------------------------------------------------------------------
(* Properties.                                                             *)

TypeOK ==
  /\ phase \in {"down", "up", "writing"}
  /\ seq \in Numbers
  /\ file \in Numbers \union {Absent, Empty}
  /\ posted \in Seq(Numbers)
  /\ published \subseteq Numbers

\* Whatever was disclosed can be read back: publishRoutingUpdate saves before
\* it posts (sync-logic-handler.cpp:274-276), so that no crash, before or
\* after the posted call has run, leaves a file behind what others have seen.
PublishedIsPersisted ==
  phase # "writing" =>
    \A p \in published : \A t \in Types : p[t] <= Stored[t]

\* A router that runs uses no number below one it disclosed in this or an
\* earlier life: the next LSA of any type is new to everybody.
NumbersAreFresh ==
  phase # "down" => \A p \in published : \A t \in Types : p[t] <= seq[t]

\* Every number that reaches the sync state is above all earlier ones in the
\* order nsync compares by (sync-seq-no.h:109-113): over crashes, and with
\* several publications on their way, none is taken for an old one.
PublicationsGrow ==
  [][\A p \in published' : \A q \in published : p \notin published => Less(q, p)]_vars
=============================================================================
