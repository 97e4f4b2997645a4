------------------------------ MODULE TlvEncoding ------------------------------
(***************************************************************************)
(* The TLV encodings of the datasets of the LSDB: how the types of         *)
(* src/tlv write themselves as elements and read themselves from elements, *)
(* and the encoding that an object keeps until it is changed.              *)
(*                                                                         *)
(* An element has a type and, as its value, elements, or what a name, an   *)
(* URI or a number stands for.                                             *)
(***************************************************************************)
EXTENDS Integers, Sequences, FiniteSets

CONSTANTS
  Error,         \* what a decoder throws
  None,
  Word,          \* numbers on the wire are modulo 2 * Word, durations from -Word on
  Infos,         \* the LsaInfos objects are given
  Items,         \* the adjacencies and names they are given
  Strange,       \* elements no decoder looks for where they are put
  MaxItems       \* bound: items of an object

ASSUME WordAssumption == Word \in Nat \ {0} /\ MaxItems \in Nat

\* milliseconds are signed, m_cost and m_sequenceNumber are not.
ASSUME ObjectAssumption ==
  /\ \A i \in Infos : /\ i = [origin |-> i.origin, seq |-> i.seq, period |-> i.period]
                      /\ i.period = None \/ i.period \in -Word..Word - 1
  /\ \A a \in Items["AdjacencyLsa"] : /\ a = [name |-> a.name, uri |-> a.uri, cost |-> a.cost]
                                     /\ a.cost \in 0..2 * Word - 1

ASSUME StrangeAssumption ==
  \A e \in Strange :
    /\ e = [type |-> e.type, value |-> e.value]
    /\ e.type \notin {"ExpirationPeriod", "AdjacencyLsa", "CoordinateLsa", "NameLsa"}

\* An exception is none of the objects, and None is no period.
ASSUME ErrorAssumption ==
  /\ None \notin Int /\ Error \notin Infos
  /\ \A t \in {"AdjacencyLsa", "NameLsa"} : Error \notin Items[t] \union [info : Infos, items : Seq(Items[t])]
  /\ Error \notin [info : Infos, radius : Int, angle : Int]

VARIABLES
  type,          \* "AdjacencyLsa" or "NameLsa"
  object,        \* LsaInfo and the list of items
  wire           \* the encoding kept in m_wire, None when there is none

tlvVars == <<type, object, wire>>

Element(t, v) == [type |-> t, value |-> v]
Has(e, i, t)  == i <= Len(e.value) /\ e.value[i].type = t

-----------------------------------------------------------------------------
(* LsaInfo: no ExpirationPeriod means that the LSA does not expire.  The   *)
(* period is what is left at the time of the request, and less than        *)
(* nothing for a LSA that is about to go.                                  *)

Unsigned(n) == n % (2 * Word)
Signed(n)   == IF n >= Word THEN n - 2 * Word ELSE n

EncodeLsaInfo(info) ==
  Element("LsaInfo",
    <<Element("OriginRouter", <<Element("Name", info.origin)>>), Element("SequenceNumber", info.seq)>>
    \o (IF info.period = None THEN <<>> ELSE <<Element("ExpirationPeriod", Unsigned(info.period))>>))

Mut_DecodeLsaInfoUnsigned(e) ==
  IF ~Has(e, 1, "OriginRouter") \/ ~Has(e, 2, "SequenceNumber") THEN Error
  ELSE IF ~Has(e.value[1], 1, "Name") THEN Error
  ELSE [origin |-> e.value[1].value[1].value, seq |-> e.value[2].value,
        period |-> IF Has(e, 3, "ExpirationPeriod") THEN e.value[3].value ELSE None]

\* What follows is not looked at.
DecodeLsaInfo(e) ==
  IF ~Has(e, 1, "OriginRouter") \/ ~Has(e, 2, "SequenceNumber") THEN Error
  ELSE IF ~Has(e.value[1], 1, "Name") THEN Error
  ELSE [origin |-> e.value[1].value[1].value, seq |-> e.value[2].value,
        period |-> IF Has(e, 3, "ExpirationPeriod") THEN Signed(e.value[3].value) ELSE None]

-----------------------------------------------------------------------------
(* Items, and the LSAs that are lists of them.                             *)

EncodeAdjacency(a) ==
  Element("Adjacency", <<Element("Name", a.name), Element("Uri", a.uri), Element("Cost", Unsigned(a.cost))>>)

DecodeAdjacency(e) ==
  IF ~Has(e, 1, "Name") \/ ~Has(e, 2, "Uri") \/ ~Has(e, 3, "Cost") THEN Error
  ELSE [name |-> e.value[1].value, uri |-> e.value[2].value, cost |-> e.value[3].value]

EncodeItem(t, item) == IF t = "AdjacencyLsa" THEN EncodeAdjacency(item) ELSE Element("Name", item)
DecodeItem(t, e) ==
  IF t = "AdjacencyLsa" THEN IF e.type = "Adjacency" THEN DecodeAdjacency(e) ELSE Error
  ELSE IF e.type = "Name" THEN e.value ELSE Error

\* Written from the last to the first, each before what is there.
EncodeItems(t, items) == [i \in DOMAIN items |-> EncodeItem(t, items[i])]

EncodeLsa(t, lsa) == Element(t, <<EncodeLsaInfo(lsa.info)>> \o EncodeItems(t, lsa.items))

\* An element that is not an item is an error, wherever it is.
DecodeLsa(t, e) ==
  IF e.type # t \/ ~Has(e, 1, "LsaInfo") THEN Error
  ELSE LET info  == DecodeLsaInfo(e.value[1])
           items == [i \in 1..Len(e.value) - 1 |-> DecodeItem(t, e.value[i + 1])]
       IN IF info = Error \/ \E i \in DOMAIN items : items[i] = Error THEN Error
          ELSE [info |-> info, items |-> items]

-----------------------------------------------------------------------------
(* Coordinate LSAs, and the status of the whole database.                  *)

EncodeCoordinateLsa(lsa) ==
  Element("CoordinateLsa",
    <<EncodeLsaInfo(lsa.info),
      Element("HyperbolicRadius", <<Element("Double", lsa.radius)>>),
      Element("HyperbolicAngle", <<Element("Double", lsa.angle)>>)>>)

DecodeCoordinateLsa(e) ==
  IF e.type # "CoordinateLsa" \/ ~Has(e, 1, "LsaInfo") \/ ~Has(e, 2, "HyperbolicRadius")
     \/ ~Has(e, 3, "HyperbolicAngle") THEN Error
  ELSE IF ~Has(e.value[2], 1, "Double") \/ ~Has(e.value[3], 1, "Double")
          \/ DecodeLsaInfo(e.value[1]) = Error THEN Error
  ELSE [info |-> DecodeLsaInfo(e.value[1]), radius |-> e.value[2].value[1].value,
        angle |-> e.value[3].value[1].value]

EncodeLsdbStatus(s) ==
  Element("LsdbStatus",
    [i \in DOMAIN s.adjacencies |-> EncodeLsa("AdjacencyLsa", s.adjacencies[i])]
    \o [i \in DOMAIN s.coordinates |-> EncodeCoordinateLsa(s.coordinates[i])]
    \o [i \in DOMAIN s.names |-> EncodeLsa("NameLsa", s.names[i])])

\* The first place from here on that has no element of the type.
EndOfRun(v, first, t) ==
  CHOOSE k \in first..Len(v) + 1 : /\ \A i \in first..k - 1 : v[i].type = t
                                   /\ k <= Len(v) => v[k].type # t

\* Adjacency LSAs, as many as come first, Coordinate LSAs, as many as follow,
\* and Name LSAs; then it has to be over.
DecodeLsdbStatus(e) ==
  LET v   == e.value
      c   == EndOfRun(v, 1, "AdjacencyLsa")
      n   == EndOfRun(v, c, "CoordinateLsa")
      end == EndOfRun(v, n, "NameLsa")
      adj == [i \in 1..c - 1 |-> DecodeLsa("AdjacencyLsa", v[i])]
      cor == [i \in 1..n - c |-> DecodeCoordinateLsa(v[c - 1 + i])]
      nam == [i \in 1..end - n |-> DecodeLsa("NameLsa", v[n - 1 + i])]
  IN IF \/ e.type # "LsdbStatus" \/ end <= Len(v)
        \/ \E l \in {adj, cor, nam} : \E i \in DOMAIN l : l[i] = Error
     THEN Error
     ELSE [adjacencies |-> adj, coordinates |-> cor, names |-> nam]

-----------------------------------------------------------------------------
(* An object and the encoding it keeps.                                    *)

TlvInit ==
  /\ type \in {"AdjacencyLsa", "NameLsa"}
  /\ object \in [info : Infos, items : {<<>>}]
  /\ wire = None

SetLsaInfo ==
  /\ \E info \in Infos : object' = [object EXCEPT !.info = info]
  /\ wire' = None
  /\ UNCHANGED type

AddItem ==
  /\ Len(object.items) < MaxItems
  /\ \E item \in Items[type] : object' = [object EXCEPT !.items = Append(@, item)]
  /\ wire' = None
  /\ UNCHANGED type

\* The encoding stays.
ClearItems ==
  /\ object' = [object EXCEPT !.items = <<>>]
  /\ UNCHANGED <<type, wire>>

WireEncode ==
  /\ wire' = IF wire = None THEN EncodeLsa(type, object) ELSE wire
  /\ UNCHANGED <<type, object>>

\* Another object is read from what this one writes; of LsaInfo and Adjacency,
\* what comes behind the fields is passed over.  Decoders that throw, which leave
\* in m_wire what they could not read (lsa-info.cpp:106), are not called here: no
\* caller goes on with such an object.
WireDecode ==
  /\ wire # None
  /\ \E strange \in Strange \union {None} :
       LET extended == IF strange = None THEN wire
                       ELSE [wire EXCEPT !.value[1].value = Append(@, strange)]
       IN /\ DecodeLsa(type, extended) # Error
          /\ object' = DecodeLsa(type, extended)
          /\ Len(extended.value[1].value) <= 4
          /\ wire' = extended
  /\ UNCHANGED type

TlvNext == SetLsaInfo \/ AddItem \/ ClearItems \/ WireEncode \/ WireDecode

TlvSpec == TlvInit /\ [][TlvNext]_tlvVars

-----------------------------------------------------------------------------
(* Properties.                                                             *)

LsaTold ==
  wire # None =>
    LET told == DecodeLsa(type, wire)
    IN /\ told # Error /\ told.info = object.info
       /\ told.items = object.items \/ object.items = <<>>

StatusTold ==
  LET c == [info |-> object.info, radius |-> 1, angle |-> 0]
      S(a, n) == [adjacencies |-> IF type = "AdjacencyLsa" THEN [i \in 1..a |-> object] ELSE <<>>,
                  coordinates |-> [i \in 1..n |-> c],
                  names |-> IF type = "NameLsa" THEN [i \in 1..a |-> object] ELSE <<>>]
      Mixed(s, e) == [EncodeLsdbStatus(s) EXCEPT !.value = @ \o <<e>>]
  IN \A a, n \in 0..2 :
       LET s == S(a, n) IN
       /\ DecodeLsdbStatus(EncodeLsdbStatus(s)) = s
       /\ \A e \in Strange : DecodeLsdbStatus(Mixed(s, e)) = Error
       /\ type = "NameLsa" /\ a > 0 => DecodeLsdbStatus(Mixed(s, EncodeCoordinateLsa(c))) = Error

\* What an object that was made, read and changed in any order gives out as its
\* encoding reads as the object itself, with the order of its items and the
\* period of a LSA that is overdue - unless items were cleared
\* (adjacency-lsa.hpp:105, name-lsa.hpp:104), and then as one whose items have
\* not been cleared.  The status of the database reads as it was written, and
\* not at all when LSAs of one kind come behind those of a later one or
\* something else is among them (lsdb-status.cpp:116-145).
EncodingTellsObject == LsaTold /\ StatusTold
===============================================================================
