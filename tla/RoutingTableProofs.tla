-------------------------- MODULE RoutingTableProofs --------------------------
(***************************************************************************)
(* Proofs about RoutingTable: the FIB and what NFD is told follow the      *)
(* routing table and the origins of each name, and an entry that is in use *)
(* lapses only after a calculation was skipped or put off, for any names,  *)
(* routers, lists of hops, results of the calculation and refresh time.    *)
(***************************************************************************)
EXTENDS RoutingTable, TLAPS, NaturalsInduction, WellFoundedInduction

-----------------------------------------------------------------------------
(* The inductive invariant.                                                *)

\* What an origin of a name has kept is what the routing table has for it, or
\* the loop has yet to come to it; it only comes to origins.
NptFollowsRoutes ==
  \A n \in Names : \A r \in Others :
    IF <<n, r>> \in todo THEN r \in Origins(n)
    ELSE r \in Origins(n) => npt[n][r] = routes[r]

\* What Fib makes of a list of hops for a name.
Follows(n, hops) ==
  /\ told[n] = ForNfd(HopsToAdd(hops))
  /\ \A f \in DOMAIN fib[n] : fib[n][f] <= HopsToAdd(hops)[f]

\* Also in the midst of a loop Fib has what the origins have.
FibFollowsNpt ==
  \A n \in Names :
    IF n \in lapsed THEN fib[n] = NoHops /\ told[n] = NoHops
    ELSE Follows(n, GenerateNhl(npt[n]))

\* Without the own Adjacency LSA the table is empty, or about to be.
LostLsaClears == ~ownAdjLsa /\ ~calcScheduled => routes = Unreachable

\* A lapsed name still has origins, so that the next calculation restores it.
LapsedHasOrigins == \A n \in lapsed : Origins(n) # {}

Ahead(n) == \E r \in Others : <<n, r>> \in todo

\* As long as nothing is skipped or put off, an entry in use is no older than
\* the own Adjacency LSA, or a calculation is due, or the loop comes to it.
InUseIsYoung ==
  ~skipped /\ ~putOff => \A n \in Names :
    InUse(n) => \/ Ahead(n)
                \/ age[n] <= RefreshTime /\ (calcScheduled \/ age[n] <= adjAge)

\* A lapsed name is one for which something was skipped or put off, or that
\* the loop comes to.
LapsedIsLate == ~skipped /\ ~putOff => \A n \in lapsed : Ahead(n)

IInv ==
  /\ TypeOK /\ NptFollowsRoutes /\ FibFollowsNpt
  /\ LostLsaClears /\ LapsedHasOrigins /\ InUseIsYoung /\ LapsedIsLate

-----------------------------------------------------------------------------
(* Lists of hops.                                                          *)

LEMMA NatMinimum ==
  ASSUME NEW T, T \subseteq Nat, T # {}
  PROVE  \E c \in T : \A d \in T : c <= d
<1>1. PICK c \in T : \A d \in T : <<d, c>> \notin OpToRel(<, Nat)
  BY NatLessThanWellFounded, WFMin, Zenon
<1>2. \A d \in T : ~(d < c)
  BY <1>1, Zenon DEF OpToRel
<1>3. QED
  BY <1>2

LEMMA NoHopsType == NoHops \in Hops /\ Unreachable \in [Others -> Hops]
<1>1. NoHops \in [{} -> Costs]
  BY DEF NoHops
<1>2. NoHops \in Hops
  BY <1>1 DEF Hops
<1>3. QED
  BY <1>2 DEF Unreachable

LEMMA HopsProperties ==
  ASSUME NEW hops
  PROVE  hops \in Hops <=> DOMAIN hops \subseteq Faces /\ hops \in [DOMAIN hops -> Costs]
BY DEF Hops

\* Lists of hops make a list of hops.
LEMMA AddAllType ==
  ASSUME NEW lists, lists \subseteq Hops
  PROVE  AddAll(lists) \in Hops
<1> DEFINE F == UNION {DOMAIN h : h \in lists}
<1> DEFINE At(f) == {h[f] : h \in {k \in lists : f \in DOMAIN k}}
<1> DEFINE Cheapest(f, c) == \A h \in lists : f \in DOMAIN h => c <= h[f]
<1> DEFINE A == [f \in F |-> CHOOSE c \in At(f) : Cheapest(f, c)]
<1>1. \A h \in lists : DOMAIN h \subseteq Faces /\ h \in [DOMAIN h -> Costs]
  BY HopsProperties
<1>2. F \subseteq Faces
  BY <1>1
<1>3. ASSUME NEW f \in F PROVE A[f] \in Costs
  <2>1. At(f) # {} /\ At(f) \subseteq Costs
    BY <1>1
  <2>2. PICK c \in At(f) : \A d \in At(f) : c <= d
    <3>1. At(f) \subseteq Nat
      BY <2>1, FaceAssumption
    <3>2. QED
      BY <2>1, <3>1, NatMinimum
  <2>3. Cheapest(f, c)
    BY <2>2
  <2>4. (CHOOSE d \in At(f) : Cheapest(f, d)) \in At(f)
    BY <2>3
  <2>5. QED
    BY <2>1, <2>4
<1>4. A \in [F -> Costs]
  <2> HIDE DEF F, At, Cheapest
  <2>1. QED
    BY <1>3
<1>5. A \in Hops
  <2> HIDE DEF F, A
  <2>1. QED
    BY <1>2, <1>4 DEF Hops
<1>6. AddAll(lists) = A
  BY DEF AddAll
<1>7. QED
  BY <1>5, <1>6

LEMMA GenerateNhlType ==
  ASSUME NEW rtes, rtes \in [DOMAIN rtes -> Hops]
  PROVE  GenerateNhl(rtes) \in Hops
<1>1. {rtes[r] : r \in DOMAIN rtes} \subseteq Hops
  OBVIOUS
<1>2. QED
  BY <1>1, AddAllType DEF GenerateNhl

\* The hops added are hops of the list.
LEMMA HopsToAddProperties ==
  ASSUME NEW hops
  PROVE  /\ DOMAIN HopsToAdd(hops) \subseteq DOMAIN hops
         /\ \A f \in DOMAIN HopsToAdd(hops) : HopsToAdd(hops)[f] = hops[f]
         /\ hops \in Hops => HopsToAdd(hops) \in Hops
<1>1. /\ DOMAIN HopsToAdd(hops) \subseteq DOMAIN hops
      /\ HopsToAdd(hops) = [f \in DOMAIN HopsToAdd(hops) |-> hops[f]]
  BY DEF HopsToAdd
<1>2. \A f \in DOMAIN HopsToAdd(hops) : HopsToAdd(hops)[f] = hops[f]
  BY <1>1
<1>3. ASSUME hops \in Hops PROVE HopsToAdd(hops) \in Hops
  BY <1>1, <1>2, <1>3, HopsProperties
<1>4. QED
  BY <1>1, <1>2, <1>3

\* The entry has the hops added, at their costs or lower ones.
LEMMA MergedProperties ==
  ASSUME NEW entry \in Hops, NEW added \in Hops
  PROVE  /\ Merged(entry, added) \in Hops /\ DOMAIN Merged(entry, added) = DOMAIN added
         /\ \A f \in DOMAIN added : Merged(entry, added)[f] <= added[f]
<1>1. /\ DOMAIN Merged(entry, added) = DOMAIN added
      /\ \A f \in DOMAIN added :
           Merged(entry, added)[f] =
             IF f \in DOMAIN entry THEN Smaller(added[f], entry[f]) ELSE added[f]
  BY DEF Merged, AddNextHop
<1>2. /\ \A f \in DOMAIN added : added[f] \in Costs
      /\ \A f \in DOMAIN entry : entry[f] \in Costs
      /\ Costs \subseteq Nat
  BY HopsProperties, FaceAssumption
<1>3. \A f \in DOMAIN added :
        Merged(entry, added)[f] \in Costs /\ Merged(entry, added)[f] <= added[f]
  <2>1. SUFFICES ASSUME NEW f \in DOMAIN added
                 PROVE  Merged(entry, added)[f] \in Costs /\ Merged(entry, added)[f] <= added[f]
    OBVIOUS
  <2> DEFINE a == added[f]
  <2> DEFINE e == entry[f]
  <2>2. /\ a \in Costs /\ a \in Nat
        /\ f \in DOMAIN entry => e \in Costs /\ e \in Nat
    BY <1>2
  <2>3. Merged(entry, added)[f] = IF f \in DOMAIN entry THEN (IF a < e THEN a ELSE e) ELSE a
    BY <1>1 DEF Smaller
  <2> HIDE DEF a, e
  <2>4. Merged(entry, added)[f] \in Costs /\ Merged(entry, added)[f] <= a
    BY <2>2, <2>3
  <2>5. QED
    BY <2>4 DEF a
<1>4. Merged(entry, added) \in [DOMAIN added -> Costs]
  BY <1>1, <1>3 DEF Merged
<1>5. QED
  BY <1>1, <1>3, <1>4, HopsProperties

LEMMA ForNfdType ==
  ASSUME NEW hops \in Hops
  PROVE  ForNfd(hops) \in [DOMAIN hops -> Nat]
<1>1. \A f \in DOMAIN hops : hops[f] \in Nat
  BY HopsProperties, FaceAssumption
<1>2. \A f \in DOMAIN hops : AdjustedInteger(hops[f]) \in Nat
  BY <1>1, FaceAssumption DEF AdjustedInteger
<1>3. QED
  BY <1>2 DEF ForNfd

\* A list without hops leaves Fib nothing to add and NFD nothing to be told.
LEMMA NothingToAdd ==
  ASSUME NEW hops, DOMAIN hops = {}
  PROVE  HopsToAdd(hops) = NoHops /\ ForNfd(HopsToAdd(hops)) = NoHops
BY DEF HopsToAdd, NoHops, ForNfd

\* Lists without hops make a list without hops.
LEMMA AllEmpty ==
  ASSUME NEW lists, \A h \in lists : DOMAIN h = {}
  PROVE  DOMAIN AddAll(lists) = {}
<1>1. UNION {DOMAIN h : h \in lists} = {}
  OBVIOUS
<1>2. QED
  BY <1>1 DEF AddAll

\* What Fib makes of a list without hops is no entry.
LEMMA FollowsNothing ==
  ASSUME NEW n \in Names, NEW hops, TypeOK, DOMAIN hops = {}
  PROVE  Follows(n, hops) <=> fib[n] = NoHops /\ told[n] = NoHops
<1>1. HopsToAdd(hops) = NoHops /\ ForNfd(HopsToAdd(hops)) = NoHops
  BY NothingToAdd
<1>2. told[n] \in [DOMAIN fib[n] -> Nat] /\ fib[n] \in Hops
  BY DEF TypeOK
<1>3. DOMAIN fib[n] = {} => fib[n] = NoHops
  BY <1>2, HopsProperties DEF NoHops
<1>4. told[n] = NoHops => DOMAIN fib[n] = {}
  BY <1>2 DEF NoHops
<1>5. QED
  BY <1>1, <1>3, <1>4 DEF Follows, NoHops

\* An entry in use belongs to a name that has an origin with hops.
LEMMA InUseHasHops ==
  ASSUME IInv, NEW n \in Names, InUse(n)
  PROVE  n \notin lapsed /\ \E r \in Origins(n) : DOMAIN npt[n][r] # {}
<1>1. n \notin lapsed /\ Follows(n, GenerateNhl(npt[n]))
  BY DEF IInv, FibFollowsNpt, InUse
<1>2. SUFFICES ASSUME \A r \in Origins(n) : DOMAIN npt[n][r] = {} PROVE FALSE
  BY <1>1
<1>3. DOMAIN AddAll({npt[n][r] : r \in DOMAIN npt[n]}) = {}
  BY <1>2, AllEmpty DEF Origins
<1>4. fib[n] = NoHops
  BY <1>1, <1>3, FollowsNothing DEF IInv, GenerateNhl
<1>5. QED
  BY <1>4 DEF InUse

-----------------------------------------------------------------------------
(* Inductiveness.                                                          *)

LEMMA InitInv == Init => IInv
<1>1. SUFFICES ASSUME Init PROVE IInv
  OBVIOUS
<1>2. \A n \in Names : Origins(n) = {} /\ npt[n] = NoHops
  BY <1>1 DEF Init, Origins, NoHops
<1>3. TypeOK
  <2>1. \A n \in Names : npt[n] \in [Origins(n) -> Hops]
    BY <1>2 DEF Origins, NoHops
  <2>2. paths \in [Others -> Hops] /\ routes \in [Others -> Hops]
    BY <1>1, NoHopsType, ResultAssumption DEF Init
  <2>3. {ownAdjLsa, buildScheduled, calcScheduled, skipped, putOff} \subseteq BOOLEAN
    BY <1>1 DEF Init
  <2>4. age \in [Names -> 0..2 * RefreshTime] /\ adjAge \in 0..RefreshTime
    BY <1>1, TimeAssumption DEF Init
  <2>5. fib \in [Names -> Hops]
    BY <1>1, NoHopsType DEF Init
  <2>6. DOMAIN told = Names /\ \A n \in Names : told[n] \in [DOMAIN fib[n] -> Nat]
    <3>1. DOMAIN told = Names /\ \A n \in Names : told[n] = NoHops /\ fib[n] = NoHops
      BY <1>1 DEF Init
    <3>2. QED
      BY <3>1 DEF NoHops
  <2>7. todo \subseteq Names \X Others /\ DOMAIN npt = Names /\ lapsed \subseteq Names
    BY <1>1 DEF Init
  <2>8. \A n \in Names : Origins(n) \subseteq Others
    BY <1>2
  <2>9. QED
    BY <2>1, <2>2, <2>3, <2>4, <2>5, <2>6, <2>7, <2>8, Zenon DEF TypeOK
<1>4. FibFollowsNpt
  <2>1. SUFFICES ASSUME NEW n \in Names PROVE Follows(n, GenerateNhl(npt[n]))
    BY <1>1 DEF Init, FibFollowsNpt
  <2>2. DOMAIN npt[n] = {}
    BY <1>2 DEF Origins
  <2>3. {npt[n][r] : r \in DOMAIN npt[n]} = {}
    BY <2>2
  <2>4. DOMAIN GenerateNhl(npt[n]) = {}
    BY <2>3, AllEmpty DEF GenerateNhl
  <2>5. fib[n] = NoHops /\ told[n] = NoHops
    BY <1>1 DEF Init
  <2>6. QED
    BY <1>3, <2>4, <2>5, FollowsNothing
<1>5. NptFollowsRoutes /\ LostLsaClears /\ LapsedHasOrigins /\ InUseIsYoung /\ LapsedIsLate
  BY <1>1, <1>2 DEF Init, NptFollowsRoutes, LostLsaClears, LapsedHasOrigins, InUseIsYoung, InUse,
     LapsedIsLate
<1>6. QED
  BY <1>3, <1>4, <1>5 DEF IInv

\* What Fib::update leaves of the entries.
LEMMA ToFibEntries ==
  ASSUME TypeOK, NEW n \in Names, NEW hops \in Hops, ToFib(n, hops)
  PROVE  /\ fib' \in [Names -> Hops] /\ DOMAIN told' = Names
         /\ \A m \in Names : told'[m] \in [DOMAIN fib'[m] -> Nat]
         /\ age' \in [Names -> 0..2 * RefreshTime] /\ age'[n] = 0
         /\ lapsed' = lapsed \ {n}
         /\ Follows(n, hops)'
         /\ \A m \in Names \ {n} : fib'[m] = fib[m] /\ told'[m] = told[m] /\ age'[m] = age[m]
<1> DEFINE added == HopsToAdd(hops)
<1>1. fib \in [Names -> Hops] /\ fib[n] \in Hops /\ DOMAIN told = Names
  BY DEF TypeOK
<1>2. added \in Hops
  BY HopsToAddProperties
<1>3. /\ Merged(fib[n], added) \in Hops /\ DOMAIN Merged(fib[n], added) = DOMAIN added
      /\ \A f \in DOMAIN added : Merged(fib[n], added)[f] <= added[f]
  BY <1>1, <1>2, MergedProperties
<1>4. ForNfd(added) \in [DOMAIN added -> Nat]
  BY <1>2, ForNfdType
<1>5. fib' = [fib EXCEPT ![n] = Merged(fib[n], added)] /\ told' = [told EXCEPT ![n] = ForNfd(added)]
  BY DEF ToFib
<1> HIDE DEF added
<1>6. fib'[n] = Merged(fib[n], added) /\ \A m \in Names \ {n} : fib'[m] = fib[m]
  BY <1>1, <1>5
<1>7. told'[n] = ForNfd(added) /\ \A m \in Names \ {n} : told'[m] = told[m]
  BY <1>1, <1>5
<1>8. fib' \in [Names -> Hops] /\ DOMAIN told' = Names
  BY <1>1, <1>3, <1>5
<1>9. \A m \in Names : told'[m] \in [DOMAIN fib'[m] -> Nat]
  <2>1. SUFFICES ASSUME NEW m \in Names PROVE told'[m] \in [DOMAIN fib'[m] -> Nat]
    OBVIOUS
  <2>2. CASE m = n
    BY <1>3, <1>4, <1>6, <1>7, <2>2
  <2>3. CASE m # n
    BY <1>6, <1>7, <2>3 DEF TypeOK
  <2>4. QED
    BY <2>2, <2>3
<1>10. /\ age' \in [Names -> 0..2 * RefreshTime] /\ age'[n] = 0
       /\ \A m \in Names \ {n} : age'[m] = age[m]
  BY TimeAssumption DEF TypeOK, ToFib
<1>11. Follows(n, hops)'
  <2>1. \A f \in DOMAIN fib'[n] : fib'[n][f] <= added[f]
    BY <1>3, <1>6
  <2>2. QED
    BY <1>7, <2>1 DEF Follows, added
<1>12. lapsed' = lapsed \ {n}
  BY DEF ToFib
<1>13. QED
  BY <1>6, <1>7, <1>8, <1>9, <1>10, <1>11, <1>12

\* The origins of one name have changed, in the loop or outside, and either
\* Fib was told or the name was new and without hops.
LEMMA OneNameInv ==
  ASSUME IInv, NEW n \in Names, NEW rtes, NEW R \in SUBSET Others,
         DOMAIN rtes \subseteq Others, rtes \in [DOMAIN rtes -> Hops],
         npt' = [npt EXCEPT ![n] = rtes],
         \A r \in Others : <<n, r>> \in todo => r \in DOMAIN rtes,
         todo' = todo \ {<<n, r>> : r \in R},
         \A r \in DOMAIN rtes : rtes[r] = routes[r] \/ (<<n, r>> \in todo /\ r \notin R),
         \/ ToFib(n, GenerateNhl(rtes))
         \/ Origins(n) = {} /\ DOMAIN GenerateNhl(rtes) = {} /\ UNCHANGED <<fib, told, age, lapsed>>,
         UNCHANGED <<paths, ownAdjLsa, adjAge, buildScheduled, calcScheduled, routes, skipped, putOff>>
  PROVE  IInv'
<1>1. /\ Origins(n)' = DOMAIN rtes /\ npt'[n] = rtes /\ DOMAIN npt' = Names
      /\ \A m \in Names \ {n} : Origins(m)' = Origins(m) /\ npt'[m] = npt[m]
  BY DEF IInv, TypeOK, Origins
<1>2. GenerateNhl(rtes) \in Hops
  BY GenerateNhlType
<1>3. /\ fib' \in [Names -> Hops] /\ DOMAIN told' = Names
      /\ \A m \in Names : told'[m] \in [DOMAIN fib'[m] -> Nat]
      /\ age' \in [Names -> 0..2 * RefreshTime]
      /\ \A m \in Names \ {n} : fib'[m] = fib[m] /\ told'[m] = told[m] /\ age'[m] = age[m]
      /\ lapsed' = lapsed \ {n}
      /\ Follows(n, GenerateNhl(rtes))'
      /\ InUse(n)' => age'[n] = 0
  <2>1. CASE ToFib(n, GenerateNhl(rtes))
    BY <1>2, <2>1, ToFibEntries DEF IInv
  <2>2. CASE Origins(n) = {} /\ DOMAIN GenerateNhl(rtes) = {} /\ UNCHANGED <<fib, told, age, lapsed>>
    <3>1. n \notin lapsed
      BY <2>2 DEF IInv, LapsedHasOrigins
    <3>2. ~InUse(n)
      BY <2>2, InUseHasHops
    <3>3. DOMAIN npt[n] = {}
      BY <2>2 DEF Origins
    <3>4. DOMAIN GenerateNhl(npt[n]) = {}
      <4>1. {npt[n][r] : r \in DOMAIN npt[n]} = {}
        BY <3>3
      <4>2. QED
        BY <4>1, AllEmpty DEF GenerateNhl
    <3>5. fib[n] = NoHops /\ told[n] = NoHops
      BY <3>1, <3>4, FollowsNothing DEF IInv, FibFollowsNpt
    <3>6. Follows(n, GenerateNhl(rtes))
      BY <2>2, <3>5, FollowsNothing DEF IInv
    <3>7. Follows(n, GenerateNhl(rtes))'
      BY <2>2, <3>6 DEF Follows
    <3>8. QED
      BY <2>2, <3>1, <3>2, <3>7 DEF IInv, TypeOK, InUse
  <2>3. QED
    BY <2>1, <2>2
<1>4. todo' \subseteq todo /\ \A m \in Names \ {n}, r \in Others : <<m, r>> \in todo' <=> <<m, r>> \in todo
  OBVIOUS
<1>5. \A r \in Others : <<n, r>> \in todo' <=> <<n, r>> \in todo /\ r \notin R
  OBVIOUS
<1>6. TypeOK'
  <2>1. \A m \in Names : Origins(m)' \subseteq Others /\ npt'[m] \in [Origins(m)' -> Hops]
    BY <1>1 DEF IInv, TypeOK
  <2>2. todo' \subseteq Names \X Others /\ lapsed' \subseteq Names
    BY <1>3, <1>4 DEF IInv, TypeOK
  <2>3. /\ paths' \in [Others -> Hops] /\ routes' \in [Others -> Hops]
        /\ {ownAdjLsa, buildScheduled, calcScheduled, skipped, putOff}' \subseteq BOOLEAN
        /\ adjAge' \in 0..RefreshTime
    BY DEF IInv, TypeOK
  <2>4. QED
    BY <1>1, <1>3, <2>1, <2>2, <2>3, Zenon DEF TypeOK
<1>7. NptFollowsRoutes'
  <2>1. SUFFICES ASSUME NEW m \in Names, NEW r \in Others
                 PROVE  IF <<m, r>> \in todo' THEN r \in Origins(m)'
                        ELSE r \in Origins(m)' => npt'[m][r] = routes[r]
    BY DEF NptFollowsRoutes
  <2>2. CASE m = n
    BY <1>1, <1>5, <2>2
  <2>3. CASE m # n
    BY <1>1, <1>4, <2>3 DEF IInv, NptFollowsRoutes
  <2>4. QED
    BY <2>2, <2>3
<1>8. FibFollowsNpt'
  <2>1. SUFFICES ASSUME NEW m \in Names
                 PROVE  IF m \in lapsed' THEN fib'[m] = NoHops /\ told'[m] = NoHops
                        ELSE Follows(m, GenerateNhl(npt[m]))'
    BY DEF FibFollowsNpt
  <2>2. CASE m = n
    BY <1>1, <1>3, <2>2 DEF Follows
  <2>3. CASE m # n
    BY <1>1, <1>3, <2>3 DEF IInv, FibFollowsNpt, Follows
  <2>4. QED
    BY <2>2, <2>3
<1>9. LapsedHasOrigins'
  BY <1>1, <1>3 DEF IInv, TypeOK, LapsedHasOrigins
<1>10. InUseIsYoung' /\ LapsedIsLate'
  <2>1. \A m \in Names \ {n} : Ahead(m)' <=> Ahead(m)
    BY <1>4 DEF Ahead
  <2>2. InUseIsYoung'
    <3>1. SUFFICES ASSUME ~skipped, ~putOff, NEW m \in Names, InUse(m)', ~Ahead(m)'
                   PROVE  age'[m] <= RefreshTime /\ (calcScheduled \/ age'[m] <= adjAge)
      BY DEF InUseIsYoung
    <3>2. CASE m = n
      BY <1>3, <3>1, <3>2, TimeAssumption DEF IInv, TypeOK
    <3>3. CASE m # n
      BY <1>3, <2>1, <3>1, <3>3 DEF IInv, InUseIsYoung, InUse
    <3>4. QED
      BY <3>2, <3>3
  <2>3. LapsedIsLate'
    <3>1. SUFFICES ASSUME ~skipped, ~putOff, NEW m \in lapsed' PROVE Ahead(m)'
      BY DEF LapsedIsLate
    <3>2. m \in Names \ {n} /\ m \in lapsed
      BY <1>3, <3>1 DEF IInv, TypeOK
    <3>3. Ahead(m)
      BY <3>1, <3>2 DEF IInv, LapsedIsLate
    <3>4. QED
      BY <2>1, <3>2, <3>3
  <2>4. QED
    BY <2>2, <2>3
<1>11. LostLsaClears'
  BY DEF IInv, LostLsaClears, Unreachable
<1>12. QED
  BY <1>6, <1>7, <1>8, <1>9, <1>10, <1>11 DEF IInv

LEMMA AddOriginInv ==
  ASSUME IInv, NEW n \in Names, NEW r \in Others, AddOrigin(n, r),
         \/ todo = {} /\ UNCHANGED todo
         \/ <<n, r>> \in todo /\ todo' = todo \ {<<n, r>>}
  PROVE  IInv'
<1> DEFINE rtes == [o \in Origins(n) \union {r} |-> IF o = r THEN routes[r] ELSE npt[n][o]]
<1> DEFINE R == {r}
<1>1. DOMAIN rtes \subseteq Others /\ rtes \in [DOMAIN rtes -> Hops]
  BY DEF IInv, TypeOK
<1>2. npt' = [npt EXCEPT ![n] = rtes]
  BY DEF AddOrigin
<1>3. \A o \in Others : <<n, o>> \in todo => o \in DOMAIN rtes
  BY DEF IInv, NptFollowsRoutes
<1>4. todo' = todo \ {<<n, o>> : o \in R}
  OBVIOUS
<1>5. \A o \in DOMAIN rtes : rtes[o] = routes[o] \/ (<<n, o>> \in todo /\ o \notin R)
  <2>1. SUFFICES ASSUME NEW o \in Origins(n), o # r PROVE npt[n][o] = routes[o] \/ <<n, o>> \in todo
    OBVIOUS
  <2>2. o \in Others
    BY DEF IInv, TypeOK
  <2>3. QED
    BY <2>2 DEF IInv, NptFollowsRoutes
<1>6. \/ ToFib(n, GenerateNhl(rtes))
      \/ Origins(n) = {} /\ DOMAIN GenerateNhl(rtes) = {} /\ UNCHANGED <<fib, told, age, lapsed>>
  BY DEF AddOrigin, entries
<1>7. UNCHANGED <<paths, ownAdjLsa, adjAge, buildScheduled, calcScheduled, routes, skipped, putOff>>
  BY DEF AddOrigin, inputs, history
<1> HIDE DEF rtes
<1>8. QED
  BY <1>1, <1>2, <1>3, <1>4, <1>5, <1>6, <1>7, OneNameInv

LEMMA RemoveEntryInv ==
  ASSUME IInv, NEW n \in Names, NEW r \in Others, RemoveEntry(n, r)
  PROVE  IInv'
<1> DEFINE rtes == [o \in Origins(n) \ {r} |-> npt[n][o]]
<1> DEFINE R == {}
<1>1. DOMAIN rtes \subseteq Others /\ rtes \in [DOMAIN rtes -> Hops]
  BY DEF IInv, TypeOK
<1>2. npt' = [npt EXCEPT ![n] = rtes] /\ ToFib(n, GenerateNhl(rtes))
  BY DEF RemoveEntry
<1>3. \A o \in Others : <<n, o>> \in todo => o \in DOMAIN rtes
  BY DEF RemoveEntry
<1>4. todo' = todo \ {<<n, o>> : o \in R} /\ R \in SUBSET Others
  BY DEF RemoveEntry
<1>5. \A o \in DOMAIN rtes : rtes[o] = routes[o] \/ (<<n, o>> \in todo /\ o \notin R)
  <2>1. SUFFICES ASSUME NEW o \in Origins(n) PROVE npt[n][o] = routes[o]
    OBVIOUS
  <2>2. o \in Others /\ todo = {}
    BY DEF IInv, TypeOK, RemoveEntry
  <2>3. QED
    BY <2>2 DEF IInv, NptFollowsRoutes
<1>6. UNCHANGED <<paths, ownAdjLsa, adjAge, buildScheduled, calcScheduled, routes, skipped, putOff>>
  BY DEF RemoveEntry, inputs, history
<1> HIDE DEF rtes, R
<1>7. QED
  BY <1>1, <1>2, <1>3, <1>4, <1>5, <1>6, OneNameInv

\* A calculation that is carried out has every origin of every name ahead, so
\* whatever is in use or has lapsed will be renewed.
LEMMA CalculateInv == ASSUME IInv, Calculate PROVE IInv'
<1>1. /\ UNCHANGED <<npt, fib, told, age, lapsed, paths, ownAdjLsa, adjAge, buildScheduled>>
      /\ calcScheduled' = FALSE /\ todo = {}
  BY DEF Calculate, entries, inputs
<1>2. CASE ownAdjLsa /\ buildScheduled
  <2>1. UNCHANGED <<routes, todo, putOff>> /\ skipped' = TRUE
    BY <1>2 DEF Calculate
  <2>2. TypeOK' /\ NptFollowsRoutes' /\ FibFollowsNpt' /\ LapsedHasOrigins'
    BY <1>1, <2>1 DEF IInv, TypeOK, NptFollowsRoutes, FibFollowsNpt, LapsedHasOrigins, Origins, Follows
  <2>3. LostLsaClears' /\ InUseIsYoung' /\ LapsedIsLate'
    BY <1>1, <1>2, <2>1 DEF LostLsaClears, InUseIsYoung, LapsedIsLate
  <2>4. QED
    BY <2>2, <2>3 DEF IInv
<1>3. CASE ~(ownAdjLsa /\ buildScheduled)
  <2>1. /\ routes' = (IF ownAdjLsa THEN paths ELSE Unreachable)
        /\ todo' = {p \in Names \X Others : p[2] \in Origins(p[1])}
        /\ skipped' = FALSE /\ putOff' = FALSE
    BY <1>3 DEF Calculate
  <2>2. \A n \in Names, r \in Others : <<n, r>> \in todo' <=> r \in Origins(n)
    BY <2>1
  <2>3. \A n \in Names : Origins(n) # {} => Ahead(n)'
    BY <2>2 DEF Ahead, IInv, TypeOK
  <2>4. routes' \in [Others -> Hops]
    BY <2>1, NoHopsType DEF IInv, TypeOK
  <2>5. TypeOK'
    BY <1>1, <2>1, <2>4 DEF IInv, TypeOK, Origins
  <2>6. NptFollowsRoutes'
    BY <1>1, <2>2 DEF NptFollowsRoutes, Origins
  <2>7. FibFollowsNpt' /\ LapsedHasOrigins'
    BY <1>1 DEF IInv, FibFollowsNpt, LapsedHasOrigins, Origins, Follows
  <2>8. LostLsaClears'
    BY <1>1, <2>1 DEF LostLsaClears, Unreachable
  <2>9. InUseIsYoung'
    <3>1. SUFFICES ASSUME NEW n \in Names, InUse(n)' PROVE Ahead(n)'
      BY DEF InUseIsYoung
    <3>2. InUse(n)
      BY <1>1, <3>1 DEF InUse
    <3>3. QED
      BY <2>3, <3>2, InUseHasHops
  <2>10. LapsedIsLate'
    BY <1>1, <2>3 DEF IInv, TypeOK, LapsedIsLate, LapsedHasOrigins
  <2>11. QED
    BY <2>5, <2>6, <2>7, <2>8, <2>9, <2>10 DEF IInv
<1>4. QED
  BY <1>2, <1>3

\* The database, the builds of the own Adjacency LSA and its refresh change
\* what the next calculation finds, and schedule it; or the refresh is put
\* off.
LEMMA InputsInv ==
  ASSUME IInv, LsdbChanges \/ ScheduleBuild \/ BuildAdjLsa \/ RefreshAdjLsa
  PROVE  IInv'
<1>1. UNCHANGED <<routes, npt, fib, told, age, lapsed, todo, skipped>>
  BY DEF LsdbChanges, ScheduleBuild, BuildAdjLsa, RefreshAdjLsa, tables, entries, history
<1>2. /\ paths' \in [Others -> Hops] /\ adjAge' \in 0..RefreshTime
      /\ ownAdjLsa' \in BOOLEAN /\ buildScheduled' \in BOOLEAN /\ calcScheduled' \in BOOLEAN
      /\ putOff' \in BOOLEAN
  <2>1. /\ paths \in [Others -> Hops] /\ Results \subseteq [Others -> Hops]
        /\ adjAge \in 0..RefreshTime /\ 0 \in 0..RefreshTime
        /\ ownAdjLsa \in BOOLEAN /\ buildScheduled \in BOOLEAN /\ calcScheduled \in BOOLEAN
        /\ putOff \in BOOLEAN
    BY ResultAssumption, TimeAssumption DEF IInv, TypeOK
  <2>2. CASE LsdbChanges \/ ScheduleBuild
    BY <2>1, <2>2 DEF LsdbChanges, ScheduleBuild, history
  <2>3. CASE BuildAdjLsa
    BY <2>1, <2>3 DEF BuildAdjLsa
  <2>4. CASE RefreshAdjLsa
    BY <2>1, <2>4 DEF RefreshAdjLsa, inputs, history
  <2>5. QED
    BY <2>2, <2>3, <2>4
<1>3. calcScheduled' = TRUE \/ UNCHANGED <<ownAdjLsa, calcScheduled>>
  BY DEF LsdbChanges, ScheduleBuild, BuildAdjLsa, RefreshAdjLsa, inputs
<1>4. /\ calcScheduled' = TRUE \/ putOff' = TRUE \/ UNCHANGED <<calcScheduled, adjAge>>
      /\ putOff => putOff'
  BY DEF LsdbChanges, ScheduleBuild, BuildAdjLsa, RefreshAdjLsa, history, IInv, TypeOK
<1>5. TypeOK' /\ NptFollowsRoutes' /\ FibFollowsNpt' /\ LapsedHasOrigins'
  <2>1. TypeOK'
    <3>1. {ownAdjLsa, buildScheduled, calcScheduled, skipped, putOff}' \subseteq BOOLEAN
      BY <1>1, <1>2 DEF IInv, TypeOK
    <3>2. QED
      BY <1>1, <1>2, <3>1, Zenon DEF IInv, TypeOK, Origins
  <2>2. QED
    BY <1>1, <2>1 DEF IInv, NptFollowsRoutes, FibFollowsNpt, LapsedHasOrigins, Origins, Follows
<1>6. LostLsaClears'
  BY <1>1, <1>3 DEF IInv, LostLsaClears, Unreachable
<1>7. InUseIsYoung'
  <2>1. SUFFICES ASSUME ~skipped, ~putOff', NEW n \in Names, InUse(n)', ~Ahead(n)'
                 PROVE  age'[n] <= RefreshTime /\ (calcScheduled' \/ age'[n] <= adjAge')
    BY <1>1 DEF InUseIsYoung
  <2>2. InUse(n) /\ ~Ahead(n) /\ ~putOff
    BY <1>1, <1>4, <2>1 DEF InUse, Ahead
  <2>3. age[n] <= RefreshTime /\ (calcScheduled \/ age[n] <= adjAge)
    BY <2>1, <2>2 DEF IInv, InUseIsYoung
  <2>4. QED
    BY <1>1, <1>4, <2>1, <2>3
<1>8. LapsedIsLate'
  BY <1>1, <1>4 DEF IInv, LapsedIsLate, Ahead
<1>9. QED
  BY <1>5, <1>6, <1>7, <1>8 DEF IInv

\* An entry that runs out is two refresh times old, so something was skipped
\* or put off.
LEMMA ExpireInv == ASSUME IInv, NEW n \in Names, Expire(n) PROVE IInv'
<1>1. UNCHANGED <<routes, npt, todo, paths, ownAdjLsa, adjAge, buildScheduled, calcScheduled, skipped, putOff>>
  BY DEF Expire, tables, inputs, history
<1>2. fib' = [fib EXCEPT ![n] = NoHops] /\ told' = [told EXCEPT ![n] = NoHops]
  BY DEF Expire
<1>3. /\ fib'[n] = NoHops /\ told'[n] = NoHops /\ lapsed' = lapsed \union {n}
      /\ age' \in [Names -> 0..2 * RefreshTime]
      /\ \A m \in Names \ {n} : fib'[m] = fib[m] /\ told'[m] = told[m] /\ age'[m] = age[m]
  BY TimeAssumption DEF Expire, IInv, TypeOK
<1>4. InUse(n) /\ age[n] = 2 * RefreshTime /\ todo = {}
  BY DEF Expire
<1>5. skipped \/ putOff
  <2>1. ~(age[n] <= RefreshTime)
    BY <1>4, TimeAssumption
  <2>2. ~Ahead(n)
    BY <1>4 DEF Ahead
  <2>3. QED
    BY <1>4, <2>1, <2>2 DEF IInv, InUseIsYoung
<1>6. Origins(n) # {}
  BY <1>4, InUseHasHops
<1>7. TypeOK'
  <2>1. fib' \in [Names -> Hops] /\ DOMAIN told' = Names
    BY <1>2, NoHopsType DEF IInv, TypeOK
  <2>2. \A m \in Names : told'[m] \in [DOMAIN fib'[m] -> Nat]
    <3>1. SUFFICES ASSUME NEW m \in Names PROVE told'[m] \in [DOMAIN fib'[m] -> Nat]
      OBVIOUS
    <3>2. CASE m = n
      BY <1>3, <3>2 DEF NoHops
    <3>3. CASE m # n
      BY <1>3, <3>3 DEF IInv, TypeOK
    <3>4. QED
      BY <3>2, <3>3
  <2>3. QED
    BY <1>1, <1>3, <2>1, <2>2 DEF IInv, TypeOK, Origins
<1>8. NptFollowsRoutes' /\ LostLsaClears' /\ LapsedHasOrigins'
  BY <1>1, <1>3, <1>6 DEF IInv, Origins, NptFollowsRoutes, LostLsaClears, LapsedHasOrigins, Unreachable
<1>9. FibFollowsNpt'
  <2>1. SUFFICES ASSUME NEW m \in Names
                 PROVE  IF m \in lapsed' THEN fib'[m] = NoHops /\ told'[m] = NoHops
                        ELSE Follows(m, GenerateNhl(npt[m]))'
    BY DEF FibFollowsNpt
  <2>2. CASE m = n
    BY <1>3, <2>2
  <2>3. CASE m # n
    BY <1>1, <1>3, <2>3 DEF IInv, FibFollowsNpt, Follows
  <2>4. QED
    BY <2>2, <2>3
<1>10. InUseIsYoung' /\ LapsedIsLate'
  BY <1>1, <1>5 DEF InUseIsYoung, LapsedIsLate
<1>11. QED
  BY <1>7, <1>8, <1>9, <1>10 DEF IInv

\* Without the own Adjacency LSA there is nothing in use that could age; with
\* it, what is in use gets no older than that LSA.
LEMMA TimePassesInv == ASSUME IInv, TimePasses PROVE IInv'
<1>1. /\ UNCHANGED <<routes, npt, todo, fib, told, lapsed, paths, ownAdjLsa, buildScheduled>>
      /\ UNCHANGED <<calcScheduled, skipped, putOff>>
  BY DEF TimePasses, tables, inputs, history
<1>2. /\ age' = [n \in Names |-> IF InUse(n) THEN age[n] + 1 ELSE 0]
      /\ adjAge' = IF ownAdjLsa THEN adjAge + 1 ELSE 0
      /\ ownAdjLsa => adjAge < RefreshTime
      /\ calcScheduled = FALSE /\ todo = {}
      /\ \A n \in Names : InUse(n) => age[n] < 2 * RefreshTime
  BY DEF TimePasses, IInv, TypeOK
<1>3. RefreshTime \in Nat /\ adjAge \in 0..RefreshTime /\ \A n \in Names : age[n] \in 0..2 * RefreshTime
  BY TimeAssumption DEF IInv, TypeOK
<1>4. age' \in [Names -> 0..2 * RefreshTime] /\ adjAge' \in 0..RefreshTime
  <2>1. \A n \in Names : (IF InUse(n) THEN age[n] + 1 ELSE 0) \in 0..2 * RefreshTime
    BY <1>2, <1>3
  <2>2. QED
    BY <1>2, <1>3, <2>1
<1>5. TypeOK'
  BY <1>1, <1>4, Zenon DEF IInv, TypeOK, Origins
<1>6. NptFollowsRoutes' /\ FibFollowsNpt' /\ LapsedHasOrigins' /\ LapsedIsLate' /\ LostLsaClears'
  BY <1>1 DEF IInv, Origins, NptFollowsRoutes, FibFollowsNpt, Follows, LapsedHasOrigins, LapsedIsLate,
     LostLsaClears, Unreachable, Ahead
<1>7. InUseIsYoung'
  <2>1. SUFFICES ASSUME ~skipped, ~putOff, NEW n \in Names, InUse(n)
                 PROVE  age'[n] <= RefreshTime /\ age'[n] <= adjAge'
    BY <1>1 DEF InUseIsYoung, InUse
  <2>2. age[n] <= adjAge
    BY <1>2, <2>1 DEF IInv, InUseIsYoung, Ahead
  <2>3. ownAdjLsa
    <3>1. SUFFICES ASSUME ~ownAdjLsa PROVE FALSE
      OBVIOUS
    <3>2. routes = Unreachable
      BY <1>2, <3>1 DEF IInv, LostLsaClears
    <3>3. PICK r \in Origins(n) : DOMAIN npt[n][r] # {}
      BY <2>1, InUseHasHops
    <3>4. r \in Others /\ npt[n][r] = routes[r]
      BY <1>2 DEF IInv, TypeOK, NptFollowsRoutes
    <3>5. QED
      BY <3>2, <3>3, <3>4 DEF Unreachable, NoHops
  <2>4. age'[n] = age[n] + 1 /\ adjAge' = adjAge + 1 /\ adjAge < RefreshTime
    BY <1>2, <2>1, <2>3
  <2>5. QED
    BY <1>3, <2>2, <2>4
<1>8. QED
  BY <1>5, <1>6, <1>7 DEF IInv

LEMMA StepInv == IInv /\ [Next]_vars => IInv'
<1>1. SUFFICES ASSUME IInv, [Next]_vars PROVE IInv'
  OBVIOUS
<1>2. ASSUME NEW n \in Names, NEW r \in Others, AddEntry(n, r) PROVE IInv'
  BY <1>1, <1>2, AddOriginInv DEF AddEntry
<1>3. ASSUME NEW n \in Names, NEW r \in Others, RemoveEntry(n, r) PROVE IInv'
  BY <1>1, <1>3, RemoveEntryInv
<1>4. ASSUME NEW n \in Names, NEW r \in Others, UpdateWithNewRoute(n, r) PROVE IInv'
  BY <1>1, <1>4, AddOriginInv DEF UpdateWithNewRoute
<1>5. ASSUME NEW n \in Names, Expire(n) PROVE IInv'
  BY <1>1, <1>5, ExpireInv
<1>6. CASE Calculate
  BY <1>1, <1>6, CalculateInv
<1>7. CASE LsdbChanges \/ ScheduleBuild \/ BuildAdjLsa \/ RefreshAdjLsa
  BY <1>1, <1>7, InputsInv
<1>8. CASE TimePasses
  BY <1>1, <1>8, TimePassesInv
<1>9. CASE UNCHANGED vars
  <2>1. /\ UNCHANGED <<paths, ownAdjLsa, buildScheduled, adjAge, calcScheduled, routes, npt, todo>>
        /\ UNCHANGED <<fib, told, age, lapsed, skipped, putOff>>
    BY <1>9 DEF vars, inputs, tables, entries, history
  <2>2. TypeOK'
    BY <1>1, <2>1, Zenon DEF IInv, TypeOK, Origins
  <2>3. QED
    BY <1>1, <2>1, <2>2 DEF IInv, Origins, NptFollowsRoutes, FibFollowsNpt, Follows, LostLsaClears,
       LapsedHasOrigins, InUseIsYoung, InUse, LapsedIsLate, Ahead, Unreachable
<1>10. QED
  BY <1>1, <1>2, <1>3, <1>4, <1>5, <1>6, <1>7, <1>8, <1>9 DEF Next

-----------------------------------------------------------------------------
(* Theorems.                                                               *)

\* IInv holds for any names, routers, hops, results and refresh time.
THEOREM InvCorrect == Spec => []IInv
  BY InitInv, StepInv, PTL DEF Spec

\* The variables keep their types: the entries and what NFD was told of have
\* the same faces, and no entry gets older than two refresh times.
THEOREM TypeCorrect == Spec => []TypeOK
<1>1. IInv => TypeOK
  BY DEF IInv
<1>2. QED
  BY <1>1, InvCorrect, PTL

\* NFD was told of the cheapest hops the routing table has to the origins of a
\* name, at their present costs, and the FIB entry has these hops at these
\* costs or lower ones, however the origins came and went and whatever was
\* calculated (name-prefix-table.cpp:44-120, nexthop-list.cpp:80).
THEOREM FibFollowsRoutesCorrect == Spec => []FibFollowsRoutes
<1>1. ASSUME IInv PROVE FibFollowsRoutes
  <2>1. SUFFICES ASSUME todo = {}, NEW n \in Names
                 PROVE  IF n \in lapsed THEN fib[n] = NoHops /\ told[n] = NoHops
                        ELSE /\ told[n] = ForNfd(HopsToAdd(Reaching(n)))
                             /\ DOMAIN fib[n] = DOMAIN told[n]
                             /\ \A f \in DOMAIN fib[n] : fib[n][f] <= Reaching(n)[f]
    BY DEF FibFollowsRoutes
  <2>2. \A r \in DOMAIN npt[n] : npt[n][r] = routes[r]
    BY <1>1, <2>1 DEF IInv, TypeOK, NptFollowsRoutes, Origins
  <2>3. {npt[n][r] : r \in DOMAIN npt[n]} = {routes[r] : r \in Origins(n)}
    BY <2>2 DEF Origins
  <2>4. GenerateNhl(npt[n]) = Reaching(n)
    BY <2>3 DEF GenerateNhl, Reaching
  <2>5. CASE n \in lapsed
    BY <1>1, <2>5 DEF IInv, FibFollowsNpt
  <2>6. CASE n \notin lapsed
    <3>1. Follows(n, Reaching(n))
      BY <1>1, <2>4, <2>6 DEF IInv, FibFollowsNpt
    <3>2. DOMAIN fib[n] = DOMAIN told[n]
      BY <1>1 DEF IInv, TypeOK
    <3>3. \A f \in DOMAIN HopsToAdd(Reaching(n)) : HopsToAdd(Reaching(n))[f] = Reaching(n)[f]
      BY HopsToAddProperties
    <3>4. DOMAIN told[n] = DOMAIN HopsToAdd(Reaching(n))
      BY <3>1 DEF Follows, ForNfd
    <3>5. \A f \in DOMAIN fib[n] : fib[n][f] <= Reaching(n)[f]
      BY <3>1, <3>2, <3>3, <3>4 DEF Follows
    <3>6. told[n] = ForNfd(HopsToAdd(Reaching(n)))
      BY <3>1 DEF Follows
    <3>7. QED
      BY <2>6, <3>2, <3>5, <3>6
  <2>7. QED
    BY <2>5, <2>6
<1>2. IInv => FibFollowsRoutes
  BY <1>1
<1>3. QED
  BY <1>2, InvCorrect, PTL

\* An entry in use is removed by its event only after a calculation was
\* skipped for a scheduled build (routing-table.cpp:55), or a build that
\* changed nothing put the refresh of the own Adjacency LSA off
\* (lsdb.cpp:641), since the table was last calculated.
THEOREM LapsesOnlyIfPutOffCorrect == Spec => []LapsesOnlyIfPutOff
<1>1. IInv => LapsesOnlyIfPutOff
  BY DEF IInv, LapsesOnlyIfPutOff, LapsedIsLate, Ahead
<1>2. QED
  BY <1>1, InvCorrect, PTL
===============================================================================
