---- MODULE MCParts ----
(* The parts that share no state with each other while they work, each for itself: *)
(* the first choice is the part, the others stay as they are at first.              *)
EXTENDS SequencingManager, SeqNoFields, RouteCalculation, Configuration, LsaContent, TlvEncoding,
        PrefixUpdate, Datasets, TLC

CONSTANTS c1, c2, p1, p2

VARIABLE part

Parts == {"numbers", "fields", "links", "coordinates", "configuration", "content", "encoding",
          "updates", "datasets"}

(* Four routers in a ring with a diagonal: what each tells of its links.             *)
OfferedAdjLsas(r) ==
  CASE r = 1 -> {2 :> 1 @@ 3 :> 1 @@ 4 :> 5, 2 :> 4 @@ 3 :> 1 @@ 4 :> 2}
    [] r = 2 -> {1 :> 1 @@ 4 :> 1, 4 :> 1}
    [] r = 3 -> {1 :> 1 @@ 4 :> 1, 1 :> 1 @@ 4 :> 4}
    [] r = 4 -> {1 :> 5 @@ 2 :> 1 @@ 3 :> 1}

Curved(a, b, angle) == a + b + angle
Places == [radius : {-1, 2}, angle : 0..3] \union [radius : {1}, angle : {3, 5}]
Chain == <<[orig |-> 1, links |-> 2 :> 1], [orig |-> 2, links |-> 1 :> 1 @@ 3 :> 1],
           [orig |-> 3, links |-> 2 :> 1]>>

(* Sections of nlsr.conf, good ones and ones that are wrong at a boundary.           *)
GoodOne == [kind |-> "general", named |-> TRUE, logLevel |-> TRUE, directories |-> TRUE,
            settings |-> "lsaRefreshTime" :> 240 @@ "routerDeadInterval" :> 241]
Neighborhood(settings, list) == [kind |-> "neighbors", settings |-> settings, neighbors |-> list]
Neighbor(name, cost) == [name |-> name, faceUri |-> TRUE, linkCost |-> cost]
SecurityOf(entries) == [kind |-> "security", entries |-> entries, certificates |-> {"site.cert", "router.cert"}]
SomeSections ==
  { GoodOne, [GoodOne EXCEPT !.settings = "lsaRefreshTime" :> Garbage],
    [GoodOne EXCEPT !.settings = "lsaRefreshTime" :> 240 @@ "routerDeadInterval" :> 240],
    [GoodOne EXCEPT !.settings = "lsaInterestLifetime" :> 61], [GoodOne EXCEPT !.named = FALSE],
    Neighborhood("helloRetries" :> 1 @@ "firstHelloInterval" :> 20,
                 <<Neighbor("a", 25), Neighbor("b", 10), Neighbor("a", 1), Neighbor(EmptyName, 1)>>),
    Neighborhood("adjLsaBuildInterval" :> 0, <<Neighbor("b", 5)>>),
    Neighborhood("adjLsaBuildInterval" :> 11, <<>>), Neighborhood("helloTimeout" :> 0, <<>>),
    Neighborhood("helloInterval" :> Garbage, <<[Neighbor("a", 25) EXCEPT !.faceUri = FALSE]>>),
    [kind |-> "hyperbolic", state |-> "on", coordinates |-> "good"],
    [kind |-> "hyperbolic", state |-> "ON", coordinates |-> "missing"],
    [kind |-> "hyperbolic", state |-> "dry-run", coordinates |-> "missing"],
    [kind |-> "hyperbolic", state |-> "off", coordinates |-> "negative radius"],
    [kind |-> "fib", settings |-> "maxFacesPerPrefix" :> 60 @@ "routingCalcInterval" :> 30],
    [kind |-> "fib", settings |-> "maxFacesPerPrefix" :> 61],
    [kind |-> "advertising", prefixes |-> {"/p", "/q"}], [kind |-> "advertising", prefixes |-> {"/p", EmptyName}],
    SecurityOf(<<"validator", "site.cert", "router.cert">>),
    SecurityOf(<<"validator", "prefix-update-validator", "router.cert">>),
    SecurityOf(<<"validator", "prefix-update-validator", "lost.cert">>), SecurityOf(<<"router.cert">>),
    [kind |-> "extra"] }

SomeInfos == [origin : {1}, seq : {7}, period : {-1, 3, None}]
SomeItems == [AdjacencyLsa |-> [name : {1, 2}, uri : {5}, cost : {1, 4}], NameLsa |-> {1, 2, 3}]
Uris == {[type |-> "Uri", value |-> 4]}

calcVars == <<adjLsdb, coordinates>>
allVars == <<part, vars, fieldVars, calcVars, confVars, lsaVars, tlvVars, updateVars, datasetVars>>

PartsInit ==
  /\ part \in Parts
  /\ Init /\ FieldInit /\ ConfInit /\ LsaInit /\ TlvInit /\ UpdateInit /\ DatasetInit
  /\ adjLsdb = (IF part = "coordinates" THEN Chain ELSE <<>>) /\ coordinates = [r \in {} |-> 0]
  /\ part # "encoding" => type = "NameLsa" /\ object.info.period = None
  /\ part # "updates" => ~enabled

PartsNext ==
  \/ /\ part = "numbers" /\ Next
     /\ UNCHANGED <<part, fieldVars, calcVars, confVars, lsaVars, tlvVars, updateVars, datasetVars>>
  \/ /\ part = "fields" /\ FieldNext
     /\ UNCHANGED <<part, vars, calcVars, confVars, lsaVars, tlvVars, updateVars, datasetVars>>
  \/ /\ part = "links" /\ \E r \in Routers : InstallAdjLsa(r) \/ RemoveAdjLsa(r)
     /\ UNCHANGED <<part, vars, fieldVars, confVars, lsaVars, tlvVars, updateVars, datasetVars>>
  \/ /\ part = "coordinates" /\ \E r \in 1..3 : InstallCoordinateLsa(r) \/ RemoveCoordinateLsa(r)
     /\ UNCHANGED <<part, vars, fieldVars, confVars, lsaVars, tlvVars, updateVars, datasetVars>>
  \/ /\ part = "configuration" /\ ConfNext
     /\ UNCHANGED <<part, vars, fieldVars, calcVars, lsaVars, tlvVars, updateVars, datasetVars>>
  \/ /\ part = "content" /\ LsaNext
     /\ UNCHANGED <<part, vars, fieldVars, calcVars, confVars, tlvVars, updateVars, datasetVars>>
  \/ /\ part = "encoding" /\ TlvNext
     /\ UNCHANGED <<part, vars, fieldVars, calcVars, confVars, lsaVars, updateVars, datasetVars>>
  \/ /\ part = "updates" /\ UpdateNext
     /\ UNCHANGED <<part, vars, fieldVars, calcVars, confVars, lsaVars, tlvVars, datasetVars>>
  \/ /\ part = "datasets" /\ DatasetNext
     /\ UNCHANGED <<part, vars, fieldVars, calcVars, confVars, lsaVars, tlvVars, updateVars>>

PartsSpec == PartsInit /\ [][PartsNext]_allVars
====
