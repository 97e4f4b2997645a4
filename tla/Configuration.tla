----------------------------- MODULE Configuration -----------------------------
(***************************************************************************)
(* ConfFileProcessor and ConfParameter: the sections of nlsr.conf are      *)
(* processed in the order of the file, until one of them is wrong; then    *)
(* NlsrRunner gives up or initializes Nlsr with what was set.              *)
(*                                                                         *)
(* A section has its kind and, by name, what is written in it.  A number   *)
(* that cannot be read is Garbage.  Names, directories and levels are only *)
(* good or bad; a prefix or a name of a neighbour that is empty is EmptyName.  *)
(***************************************************************************)
EXTENDS Integers, Sequences, FiniteSets

CONSTANTS
  Garbage, EmptyName,
  Sections,      \* the sections a file may have
  MaxSections    \* bound: sections of a file

ASSUME MaxSectionsAssumption == MaxSections \in Nat

VARIABLES
  sections,      \* the sections read so far
  conf,      \* ConfParameter, AdjacencyList, NamePrefixList, CertificateStore
  verdict    \* "reading", "rejected" or "running"

confVars == <<sections, conf, verdict>>

-----------------------------------------------------------------------------
(* Settings.                                                               *)

Ranges ==
  [lsaRefreshTime      |-> 240..7200,
   lsaInterestLifetime |-> 1..60,
   helloRetries        |-> 1..15,
   helloTimeout        |-> 1..15,
   helloInterval       |-> 30..90,
   adjLsaBuildInterval |-> 0..10,
   firstHelloInterval  |-> 0..20,
   maxFacesPerPrefix   |-> 0..60,
   routingCalcInterval |-> 0..30]

Defaults ==
  [lsaRefreshTime |-> 1800, lsaInterestLifetime |-> 4, helloRetries |-> 3, helloTimeout |-> 3,
   helloInterval |-> 60, adjLsaBuildInterval |-> 5, firstHelloInterval |-> 10,
   maxFacesPerPrefix |-> 0, routingCalcInterval |-> 15]

\* What the components have before a file is read.
ConfParameter ==
  [settings |-> Defaults, routerDeadInterval |-> 3600, named |-> FALSE, directories |-> FALSE,
   hyperbolic |-> "off", coordinates |-> FALSE, neighbors |-> <<>>, prefixes |-> {},
   validator |-> FALSE, prefixUpdates |-> FALSE, published |-> {}]

OrDefault(value, default) == IF value = Garbage THEN default ELSE value
Written(section, key, default) ==
  IF key \in DOMAIN section.settings THEN OrDefault(section.settings[key], default) ELSE default

\* A setting of the section: what is written, or the default for what is
\* missing or cannot be read.
Setting(section, key) == Written(section, key, Defaults[key])

AllInRange(section, keys) == \A k \in keys : Setting(section, k) \in Ranges[k]

WithSettings(c, section, keys) ==
  [c EXCEPT !.settings = [k \in DOMAIN @ |-> IF k \in keys THEN Setting(section, k) ELSE @[k]]]

-----------------------------------------------------------------------------
(* Sections.  Each of these yields whether the section is good, and the    *)
(* configuration with it.                                                  *)

DeadInterval(section) == Written(section, "routerDeadInterval", 2 * Setting(section, "lsaRefreshTime"))

GoodGeneral(s) ==
  /\ s.named /\ s.logLevel /\ s.directories
  /\ AllInRange(s, {"lsaRefreshTime", "lsaInterestLifetime"})
  /\ DeadInterval(s) > Setting(s, "lsaRefreshTime")

GeneralSection(c, s) ==
  [WithSettings(c, s, {"lsaRefreshTime", "lsaInterestLifetime"}) EXCEPT
     !.routerDeadInterval = DeadInterval(s), !.named = TRUE, !.directories = TRUE]

NeighborSettings ==
  {"helloRetries", "helloTimeout", "helloInterval", "adjLsaBuildInterval", "firstHelloInterval"}

GoodNeighbors(s) ==
  /\ AllInRange(s, NeighborSettings)
  /\ \A i \in DOMAIN s.neighbors : s.neighbors[i].faceUri

\* A neighbour without a name is passed over, and so is one that is in the
\* list already.
InsertNeighbors(list, neighbors) ==
  LET inserted[i \in 0..Len(neighbors)] ==
        IF i = 0 THEN list
        ELSE LET n == neighbors[i]
                 there == inserted[i - 1]
             IN IF n.name = EmptyName \/ \E j \in DOMAIN there : there[j].name = n.name THEN there
                ELSE Append(there, [name |-> n.name, linkCost |-> n.linkCost])
  IN inserted[Len(neighbors)]

NeighborsSection(c, s) ==
  [WithSettings(c, s, NeighborSettings) EXCEPT !.neighbors = InsertNeighbors(c.neighbors, s.neighbors)]

\* Coordinates may only be missing when the state is off, or is not written in
\* small letters.
GoodHyperbolic(s) ==
  /\ s.state \in {"off", "on", "ON", "dry-run"}
  /\ s.coordinates # "negative radius"
  /\ s.coordinates = "missing" => s.state \notin {"on", "dry-run"}

\* The costs of links are set to 0 right away.
Mut_HyperbolicSectionZeroesCosts(c, s) ==
  [c EXCEPT !.hyperbolic = IF s.state = "ON" THEN "on" ELSE s.state,
            !.coordinates = @ \/ s.coordinates = "good",
            !.neighbors = [i \in DOMAIN @ |-> IF s.state = "on" THEN [@[i] EXCEPT !.linkCost = 0] ELSE @[i]]]

HyperbolicSection(c, s) ==
  [c EXCEPT !.hyperbolic = IF s.state = "ON" THEN "on" ELSE s.state,
            !.coordinates = @ \/ s.coordinates = "good"]

FibSettings == {"maxFacesPerPrefix", "routingCalcInterval"}
GoodFib(s)  == AllInRange(s, FibSettings)
FibSection(c, s) == WithSettings(c, s, FibSettings)

GoodAdvertising(s)  == EmptyName \notin s.prefixes
AdvertisingSection(c, s)   == [c EXCEPT !.prefixes = @ \union s.prefixes]

\* Entries are looked at by their place: the validator, then the validator of
\* prefix updates, then certificates; what follows the validator is passed over
\* when it does not start with that of prefix updates.
TakesUpdates(s) == Len(s.entries) > 1 /\ s.entries[2] = "prefix-update-validator"
CertificatesRead(s) == IF TakesUpdates(s) THEN {s.entries[i] : i \in 3..Len(s.entries)} ELSE {}

GoodSecurity(s) ==
  /\ s.entries # <<>> /\ s.entries[1] = "validator"
  /\ CertificatesRead(s) \subseteq s.certificates

SecuritySection(c, s) ==
  [c EXCEPT !.validator = TRUE, !.prefixUpdates = @ \/ TakesUpdates(s),
            !.published = @ \union CertificatesRead(s)]

\* A section of another name is reported and passed over.
Good(s) ==
  CASE s.kind = "general"     -> GoodGeneral(s)
    [] s.kind = "neighbors"   -> GoodNeighbors(s)
    [] s.kind = "hyperbolic"  -> GoodHyperbolic(s)
    [] s.kind = "fib"         -> GoodFib(s)
    [] s.kind = "advertising" -> GoodAdvertising(s)
    [] s.kind = "security"    -> GoodSecurity(s)
    [] OTHER                  -> TRUE

ProcessSection(c, s) ==
  CASE s.kind = "general"     -> GeneralSection(c, s)
    [] s.kind = "neighbors"   -> NeighborsSection(c, s)
    [] s.kind = "hyperbolic"  -> HyperbolicSection(c, s)
    [] s.kind = "fib"         -> FibSection(c, s)
    [] s.kind = "advertising" -> AdvertisingSection(c, s)
    [] s.kind = "security"    -> SecuritySection(c, s)
    [] OTHER                  -> c

-----------------------------------------------------------------------------

ConfInit == sections = <<>> /\ conf = ConfParameter /\ verdict = "reading"

\* What a bad section set before it was found bad is not looked at again:
\* NlsrRunner exits.
ReadSection ==
  /\ verdict = "reading" /\ Len(sections) < MaxSections
  /\ \E s \in Sections :
       /\ sections' = Append(sections, s)
       /\ IF Good(s) THEN conf' = ProcessSection(conf, s) /\ verdict' = verdict
          ELSE verdict' = "rejected" /\ conf' = conf

\* Nlsr::initialize at the end of the file.  Hyperbolic routing goes without
\* link costs.
InitializeNlsr ==
  /\ verdict = "reading"
  /\ verdict' = "running"
  /\ conf' = IF conf.hyperbolic = "on"
             THEN [conf EXCEPT !.neighbors = [i \in DOMAIN @ |-> [@[i] EXCEPT !.linkCost = 0]]]
             ELSE conf
  /\ UNCHANGED sections

ConfNext == ReadSection \/ InitializeNlsr

ConfSpec == ConfInit /\ [][ConfNext]_confVars

-----------------------------------------------------------------------------
(* Properties.                                                             *)

SectionKinds == {sections[i].kind : i \in DOMAIN sections}

\* What section by section gives from the end of the file to its start.
ReadBackwards ==
  LET read[i \in 1..Len(sections) + 1] ==
        IF i = Len(sections) + 1 THEN ConfParameter ELSE ProcessSection(read[i + 1], sections[i])
  IN read[1]

\* The order of sections makes no difference as long as each is there once
\* (conf-file-processor.cpp:171): a router that was told of its neighbours
\* after, or before, hyperbolic routing was turned on runs with the same links.
OrderMakesNoDifference ==
  verdict = "reading" /\ Cardinality(SectionKinds) = Len(sections) => conf = ReadBackwards

\* Every certificate the file lists for publication is published
\* (docs/SECURITY-CONFIG.rst:48-62).
ListedCertificatesPublished ==
  verdict = "running" =>
    \A i \in DOMAIN sections :
      sections[i].kind = "security" =>
        {sections[i].entries[k] : k \in DOMAIN sections[i].entries} \intersect sections[i].certificates \subseteq conf.published
================================================================================
