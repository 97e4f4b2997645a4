------------------------------- MODULE Datasets -------------------------------
(***************************************************************************)
(* The datasets of the LSDB and "nlsrc status": LsdbDatasetInterestHandler *)
(* has a publisher write a dataset in segments, nlsrc fetches the three    *)
(* datasets one after the other and prints them.                           *)
(*                                                                         *)
(* The database changes meanwhile.  Segments stay in the cache of the      *)
(* forwarder for a while, so that a request may get a version published    *)
(* before; a segment that is dropped there is asked for at the handler,    *)
(* which knows only the names of datasets.  Segments are cut where they    *)
(* are full, be it within a LSA.                                           *)
(***************************************************************************)
EXTENDS Integers, Sequences, FiniteSets, SequencesExt

CONSTANTS
  Lsas,             \* LSAs there may be
  LsaSize,          \* units of a LSA
  MaxSegmentSize,   \* units of a segment
  Foreign,          \* what a segment is not made of: a ControlResponse
  MaxVersions,      \* bound: versions published
  MaxChanges,       \* bound: changes of the database
  MaxErrors         \* bound: errors answered in the place of segments of a dataset

Units == Lsas \X (1..LsaSize)

ASSUME SegmentAssumption ==
  /\ {LsaSize, MaxSegmentSize} \subseteq Nat \ {0}
  /\ {MaxVersions, MaxChanges, MaxErrors} \subseteq Nat
ASSUME ForeignAssumption == Foreign \notin Units

Kinds == <<"adjacencies", "coordinates", "names">>

VARIABLES
  lsdb,        \* the LSAs in the database, by kind, in their order
  past,        \* all that the database has had, by kind
  cache,       \* segments published
  versions,    \* versions published
  fetch        \* nlsrc: the step it is at, the version and next segment, what it has

datasetVars == <<lsdb, past, cache, versions, fetch>>

NoVersion == 0
Kind == Kinds[fetch.step]
Fetching == fetch.step \in 1..3

-----------------------------------------------------------------------------
(* SegmentPublisher.                                                       *)

\* The octets of LSAs one after the other.
Encoded(lsas) ==
  [j \in 1..Len(lsas) * LsaSize |-> <<lsas[((j - 1) \div LsaSize) + 1], ((j - 1) % LsaSize) + 1>>]

\* Mutant: the octets that do not fill a segment are left out.
Mut_SegmentsFullOnly(content) ==
  LET Count == IF Len(content) < MaxSegmentSize THEN 1 ELSE Len(content) \div MaxSegmentSize
      End(i) == IF i * MaxSegmentSize > Len(content) THEN Len(content) ELSE i * MaxSegmentSize
  IN [i \in 1..Count |-> [content |-> SubSeq(content, (i - 1) * MaxSegmentSize + 1, End(i)),
                          final |-> i = Count]]

\* At least one segment; the last one says so.
Segments(content) ==
  LET Count == IF content = <<>> THEN 1 ELSE (Len(content) + MaxSegmentSize - 1) \div MaxSegmentSize
      End(i) == IF i * MaxSegmentSize > Len(content) THEN Len(content) ELSE i * MaxSegmentSize
  IN [i \in 1..Count |-> [content |-> SubSeq(content, (i - 1) * MaxSegmentSize + 1, End(i)),
                          final |-> i = Count]]

\* The encoder writes each LSA before the ones it has: the last comes first.
Publish(kind, version) ==
  LET segments == Segments(Encoded(Reverse(lsdb[kind])))
  IN {[kind |-> kind, version |-> version, number |-> i, content |-> segments[i].content,
       final |-> segments[i].final] : i \in DOMAIN segments}

-----------------------------------------------------------------------------

DatasetInit ==
  /\ lsdb = [k \in ToSet(Kinds) |-> <<>>] /\ past = [k \in ToSet(Kinds) |-> {<<>>}]
  /\ cache = {} /\ versions = 0
  /\ fetch = [step |-> 0, version |-> NoVersion, next |-> 1, has |-> <<>>, changes |-> 0,
              result |-> [k \in {} |-> <<>>]]

\* LSAs are added at the end and removed anywhere.
ChangeLsdb(k) ==
  /\ fetch.changes < MaxChanges
  /\ \/ \E l \in Lsas \ ToSet(lsdb[k]) : lsdb' = [lsdb EXCEPT ![k] = Append(@, l)]
     \/ \E i \in DOMAIN lsdb[k] : lsdb' = [lsdb EXCEPT ![k] = RemoveAt(@, i)]
  /\ past' = [past EXCEPT ![k] = @ \union {lsdb'[k]}]
  /\ fetch' = [fetch EXCEPT !.changes = @ + 1]
  /\ UNCHANGED <<cache, versions>>

GetStatus ==
  /\ fetch.step = 0
  /\ fetch' = [fetch EXCEPT !.step = 1]
  /\ UNCHANGED <<lsdb, past, cache, versions>>

-----------------------------------------------------------------------------
(* nlsrc and its SegmentFetcher.                                           *)

\* Block i of what was fetched is a LSA.
IsLsa(c, i) ==
  /\ i * LsaSize <= Len(c)
  /\ \E l \in Lsas : \A j \in 1..LsaSize : c[(i - 1) * LsaSize + j] = <<l, j>>

\* n LSAs can be read, and no more.
Reads(c, n) == (\A i \in 1..n : IsLsa(c, i)) /\ ~IsLsa(c, n + 1)

LsasRead(c, n) == [i \in 1..n |-> c[(i - 1) * LsaSize + 1][1]]

\* The LSAs are read up to the first block that cannot be: that is reported,
\* and the next step run all the same.  If the block is a block at all, of
\* another kind or with something else in it, its constructor throws instead,
\* and nlsrc ends; what might by chance be read from there on is not kept here.
OnFetchSuccess(c) ==
  \E n \in 0..Len(c) :
    /\ Reads(c, n)
    /\ \/ fetch' = [fetch EXCEPT
             !.step = @ + 1, !.version = NoVersion, !.next = 1, !.has = <<>>,
             !.result = [k \in DOMAIN @ \union {Kind} |->
                IF k = Kind THEN [lsas |-> LsasRead(c, n), broken |-> Foreign \in ToSet(c)] ELSE @[k]]]
       \/ n * LsaSize # Len(c) /\ fetch' = [fetch EXCEPT !.step = 6]

\* The segment that is asked for has come.
Receive(s) ==
  \/ ~s.final /\ fetch' = [fetch EXCEPT !.version = s.version, !.next = s.number + 1,
                                        !.has = @ \o s.content]
  \/ s.final /\ OnFetchSuccess(fetch.has \o s.content)

\* A request without a version is answered from the cache, or by the handler,
\* which has all the segments published at once.  A later segment only tells
\* the version.
RequestVersion ==
  /\ Fetching /\ fetch.version = NoVersion
  /\ \/ \E s \in cache : /\ s.kind = Kind
                         /\ \/ s.number = 1 /\ Receive(s)
                            \/ s.number # 1 /\ fetch' = [fetch EXCEPT !.version = s.version]
                         /\ UNCHANGED <<cache, versions>>
     \/ /\ versions < MaxVersions
        /\ cache' = cache \union Publish(Kind, versions + 1)
        /\ versions' = versions + 1
        /\ \E s \in Publish(Kind, versions + 1) : s.number = 1 /\ Receive(s)
  /\ UNCHANGED <<lsdb, past>>

RequestSegment ==
  /\ Fetching /\ fetch.version # NoVersion
  /\ \E s \in cache : /\ s.kind = Kind /\ s.version = fetch.version /\ s.number = fetch.next
                     /\ Receive(s)
  /\ UNCHANGED <<lsdb, past, cache, versions>>

\* The segment is no longer in the cache, or there is none after the last one
\* was missed: the handler takes the Interest with version and segment for a
\* malformed command.  The 400 it answers is Data of that name and not the last
\* one: its content is taken for the segment, and the next one is asked for.
RequestDroppedSegment ==
  /\ Fetching /\ fetch.version # NoVersion
  /\ ~\E s \in cache : s.kind = Kind /\ s.version = fetch.version /\ s.number = fetch.next
  /\ Cardinality({i \in DOMAIN fetch.has : fetch.has[i] = Foreign}) < MaxErrors
  /\ fetch' = [fetch EXCEPT !.next = @ + 1, !.has = Append(@, Foreign)]
  /\ UNCHANGED <<lsdb, past, cache, versions>>

\* No answer: nlsrc reports it and ends.
RequestTimesOut ==
  /\ Fetching
  /\ fetch' = [fetch EXCEPT !.step = 5]
  /\ UNCHANGED <<lsdb, past, cache, versions>>

\* Segments leave the cache one by one.
DropSegment ==
  /\ \E s \in cache : cache' = cache \ {s}
  /\ UNCHANGED <<lsdb, past, versions, fetch>>

DatasetNext ==
  \/ \E k \in ToSet(Kinds) : ChangeLsdb(k)
  \/ GetStatus \/ RequestVersion \/ RequestSegment \/ RequestDroppedSegment \/ RequestTimesOut
  \/ DropSegment

DatasetSpec == DatasetInit /\ [][DatasetNext]_datasetVars

-----------------------------------------------------------------------------
(* Properties.                                                             *)

\* When nlsrc prints, each of the three datasets is one the database had at
\* some time, whole and last one first: however many segments it took, whatever
\* was published, changed or dropped in between, and though a request that is
\* not answered ends the run.  Only if an error was answered in the place of a
\* segment (nlsrc.cpp:243) there are no more than the first LSAs of such a
\* dataset, up to where that segment began.  The three need not be of the same
\* time.
PrintedWasThere ==
  fetch.step = 4 =>
    /\ DOMAIN fetch.result = ToSet(Kinds)
    /\ \A k \in ToSet(Kinds) :
         \/ Reverse(fetch.result[k].lsas) \in past[k]
         \/ /\ fetch.result[k].broken
            /\ \E d \in past[k] : IsPrefix(fetch.result[k].lsas, Reverse(d))
===============================================================================
