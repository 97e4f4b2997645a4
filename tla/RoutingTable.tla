----------------------------- MODULE RoutingTable -----------------------------
(***************************************************************************)
(* From the database to the FIB: the routing table, calculated anew from   *)
(* time to time, the Name Prefix Table, which keeps for every name its     *)
(* origins with the next hops to each, and what Fib makes of the hops of a *)
(* name: an entry of its own, and the routes it tells NFD of (where the    *)
(* name is not a neighbour's, which is Fib's to see).                      *)
(*                                                                         *)
(* Every FIB entry has an event that removes it after two refresh times.   *)
(* Nothing but a later update puts that event off, and an update only      *)
(* comes with a calculation.  The refresh of the own Adjacency LSA, one    *)
(* refresh time after the LSA was installed, schedules one; but each build *)
(* of that LSA schedules its refresh anew, also the build that leaves its  *)
(* content as it was and needs no calculation.                             *)
(***************************************************************************)
EXTENDS NexthopList

CONSTANTS
  Names,        \* names that are advertised, the names of routers among them
  Others,       \* the other routers
  Results,      \* what a calculation may yield, the next hops to every router
  RefreshTime   \* lsa-refresh-time, in ticks of the clock

ASSUME ResultAssumption == Results \subseteq [Others -> Hops]
ASSUME TimeAssumption == RefreshTime \in Nat \ {0}

VARIABLES
  paths,            \* what a calculation from the present database would yield
  ownAdjLsa,        \* whether the database has this router's Adjacency LSA
  adjAge,           \* ticks since its refresh was scheduled
  buildScheduled,   \* m_isBuildAdjLsaSheduled
  calcScheduled,    \* m_isRouteCalculationScheduled
  routes,           \* m_rTable, without hops where there is no entry
  todo,             \* names and origins updateWithNewRoute has yet to come to
  npt,              \* for every name its origins and the hops to them
  fib,              \* the next hops of every FIB entry, none for no entry
  told,             \* the faces and costs NFD was last told of for every name
  age,              \* ticks since the FIB entry was updated
  lapsed,           \* history: names whose FIB entry was removed by its event
  skipped,          \* history: the last calculation found a build scheduled
  putOff            \* history: since the last one that did not, a build put the refresh off

inputs == <<paths, ownAdjLsa, buildScheduled>>
tables == <<routes, npt>>
entries == <<fib, told, age, lapsed>>
history == <<skipped, putOff>>
vars == <<inputs, adjAge, calcScheduled, tables, todo, entries, history>>

Unreachable == [r \in Others |-> NoHops]

Init ==
  /\ paths \in Results
  /\ ownAdjLsa = FALSE /\ adjAge = 0 /\ buildScheduled = FALSE /\ calcScheduled = FALSE
  /\ routes = Unreachable
  /\ todo = {}
  /\ npt = [n \in Names |-> NoHops]
  /\ fib = [n \in Names |-> NoHops]
  /\ told = [n \in Names |-> NoHops]
  /\ age = [n \in Names |-> 0]
  /\ lapsed = {}
  /\ skipped = FALSE /\ putOff = FALSE

Origins(n) == DOMAIN npt[n]

-----------------------------------------------------------------------------
(* The Name Prefix Table.                                                  *)

Mut_ToFibMerged(n, hops) ==
  /\ fib' = [fib EXCEPT ![n] = Merged(fib[n], HopsToAdd(hops))]
  /\ told' = [told EXCEPT ![n] = ForNfd(Merged(fib[n], HopsToAdd(hops)))]
  /\ age' = [age EXCEPT ![n] = 0]
  /\ lapsed' = lapsed \ {n}

\* Fib::update, which is Fib::remove when there are no hops.  NFD is told the
\* costs of the hops added, whatever the entry has; what the entry has and is
\* not added again goes, and the event is scheduled anew.
ToFib(n, hops) ==
  /\ fib' = [fib EXCEPT ![n] = Merged(fib[n], HopsToAdd(hops))]
  /\ told' = [told EXCEPT ![n] = ForNfd(HopsToAdd(hops))]
  /\ age' = [age EXCEPT ![n] = 0]
  /\ lapsed' = lapsed \ {n}

GenerateNhl(rtes) == AddAll({rtes[r] : r \in DOMAIN rtes})

\* The origin is added to the name, or its hops are replaced by those the
\* routing table has now.  A new name without hops is none of Fib's business.
AddOrigin(n, r) ==
  LET rtes == [o \in Origins(n) \union {r} |-> IF o = r THEN routes[r] ELSE npt[n][o]]
  IN /\ npt' = [npt EXCEPT ![n] = rtes]
     /\ IF Origins(n) = {} /\ DOMAIN GenerateNhl(rtes) = {}
        THEN UNCHANGED entries
        ELSE ToFib(n, GenerateNhl(rtes))
     /\ UNCHANGED <<inputs, adjAge, calcScheduled, routes, history>>

\* A LSA that lists the name, or stands for the router of that name, was
\* installed.
AddEntry(n, r) == todo = {} /\ AddOrigin(n, r) /\ UNCHANGED todo

\* The LSA is gone, or lists the name no more, whether or not the router was
\* an origin of the name.
RemoveEntry(n, r) ==
  LET rtes == [o \in Origins(n) \ {r} |-> npt[n][o]]
  IN /\ todo = {} /\ Origins(n) # {}
     /\ npt' = [npt EXCEPT ![n] = rtes]
     /\ ToFib(n, GenerateNhl(rtes))
     /\ UNCHANGED <<inputs, adjAge, calcScheduled, routes, todo, history>>

-----------------------------------------------------------------------------
(* The calculation.                                                        *)

Mut_CalculateDropsRequest ==
  /\ calcScheduled /\ todo = {}
  /\ calcScheduled' = FALSE
  /\ IF ~ownAdjLsa \/ buildScheduled
     THEN skipped' = ownAdjLsa /\ UNCHANGED <<routes, todo, putOff>>
     ELSE /\ routes' = paths
          /\ todo' = {p \in Names \X Others : p[2] \in Origins(p[1])}
          /\ skipped' = FALSE /\ putOff' = FALSE
  /\ UNCHANGED <<inputs, adjAge, npt, entries>>

\* The request is forgotten even when a build of the Adjacency LSA that is
\* scheduled keeps the table from being calculated.  A new table is at once
\* carried over to every origin of every name.
Calculate ==
  /\ calcScheduled /\ todo = {}
  /\ calcScheduled' = FALSE
  /\ IF ownAdjLsa /\ buildScheduled
     THEN skipped' = TRUE /\ UNCHANGED <<routes, todo, putOff>>
     ELSE /\ routes' = IF ownAdjLsa THEN paths ELSE Unreachable
          /\ todo' = {p \in Names \X Others : p[2] \in Origins(p[1])}
          /\ skipped' = FALSE /\ putOff' = FALSE
  /\ UNCHANGED <<inputs, adjAge, npt, entries>>

\* The loop of Calculate over the names and their origins: nothing else goes
\* on before it is done, but Fib sees every turn of it.
UpdateWithNewRoute(n, r) ==
  /\ <<n, r>> \in todo
  /\ AddOrigin(n, r)
  /\ todo' = todo \ {<<n, r>>}

\* LSAs of other routers were installed, updated or removed.
LsdbChanges ==
  /\ todo = {}
  /\ paths' \in Results
  /\ calcScheduled' = TRUE
  /\ UNCHANGED <<ownAdjLsa, adjAge, buildScheduled, tables, todo, entries, history>>

ScheduleBuild ==
  /\ todo = {}
  /\ buildScheduled' = TRUE
  /\ UNCHANGED <<paths, ownAdjLsa, adjAge, calcScheduled, tables, todo, entries, history>>

\* There is nothing to build; or the own Adjacency LSA comes out as it was,
\* and only its refresh is put off; or it is new, or removed for want of
\* neighbours.
BuildAdjLsa ==
  /\ buildScheduled /\ todo = {}
  /\ buildScheduled' = FALSE
  /\ \/ UNCHANGED <<paths, ownAdjLsa, calcScheduled, adjAge, putOff>>
     \/ ownAdjLsa /\ adjAge' = 0 /\ putOff' = TRUE /\ UNCHANGED <<paths, ownAdjLsa, calcScheduled>>
     \/ /\ paths' \in Results /\ ownAdjLsa' \in BOOLEAN
        /\ adjAge' = 0 /\ calcScheduled' = TRUE /\ UNCHANGED putOff
  /\ UNCHANGED <<tables, todo, entries, skipped>>

Mut_RefreshWithoutCalculation ==
  /\ ownAdjLsa /\ adjAge = RefreshTime /\ todo = {}
  /\ adjAge' = 0
  /\ UNCHANGED <<inputs, calcScheduled, tables, todo, entries, history>>

\* The own Adjacency LSA is refreshed, which schedules a calculation.
RefreshAdjLsa ==
  /\ ownAdjLsa /\ adjAge = RefreshTime /\ todo = {}
  /\ adjAge' = 0
  /\ calcScheduled' = TRUE
  /\ UNCHANGED <<inputs, tables, todo, entries, history>>

-----------------------------------------------------------------------------
(* Time.                                                                   *)

InUse(n) == fib[n] # NoHops

\* The event of a FIB entry that was not updated for two refresh times.
Expire(n) ==
  /\ InUse(n) /\ age[n] = 2 * RefreshTime /\ todo = {}
  /\ fib' = [fib EXCEPT ![n] = NoHops]
  /\ told' = [told EXCEPT ![n] = NoHops]
  /\ age' = [age EXCEPT ![n] = 0]
  /\ lapsed' = lapsed \union {n}
  /\ UNCHANGED <<inputs, adjAge, calcScheduled, tables, todo, history>>

Mut_TimePassesEventsLate ==
  /\ ~calcScheduled /\ todo = {}
  /\ ownAdjLsa => adjAge < RefreshTime
  /\ adjAge' = IF ownAdjLsa THEN adjAge + 1 ELSE 0
  /\ age' = [n \in Names |-> IF InUse(n) THEN age[n] + 1 ELSE 0]
  /\ UNCHANGED <<inputs, calcScheduled, tables, todo, fib, told, lapsed, history>>

\* A tick, much longer than routing-calc-interval; what is due comes first.
TimePasses ==
  /\ ~calcScheduled /\ todo = {}
  /\ ownAdjLsa => adjAge < RefreshTime
  /\ \A n \in Names : InUse(n) => age[n] < 2 * RefreshTime
  /\ adjAge' = IF ownAdjLsa THEN adjAge + 1 ELSE 0
  /\ age' = [n \in Names |-> IF InUse(n) THEN age[n] + 1 ELSE 0]
  /\ UNCHANGED <<inputs, calcScheduled, tables, todo, fib, told, lapsed, history>>

Next ==
  \/ \E n \in Names, r \in Others : AddEntry(n, r) \/ RemoveEntry(n, r) \/ UpdateWithNewRoute(n, r)
  \/ \E n \in Names : Expire(n)
  \/ Calculate \/ LsdbChanges \/ ScheduleBuild \/ BuildAdjLsa \/ RefreshAdjLsa \/ TimePasses

Spec == Init /\ [][Next]_vars

\* Loops end, timers fire, and time goes by.
FairSpec ==
  /\ Spec
  /\ WF_vars(Calculate)
  /\ WF_vars(\E n \in Names, r \in Others : UpdateWithNewRoute(n, r))
  /\ WF_vars(BuildAdjLsa)
  /\ WF_vars(RefreshAdjLsa)
  /\ WF_vars(\E n \in Names : Expire(n))
  /\ WF_vars(TimePasses)

-----------------------------------------------------------------------------
(* Properties.                                                             *)

\* Types of the variables.
TypeOK ==
  /\ paths \in [Others -> Hops] /\ routes \in [Others -> Hops]
  /\ {ownAdjLsa, buildScheduled, calcScheduled, skipped, putOff} \subseteq BOOLEAN
  /\ adjAge \in 0..RefreshTime
  /\ todo \subseteq Names \X Others
  /\ DOMAIN npt = Names
  /\ \A n \in Names : Origins(n) \subseteq Others /\ npt[n] \in [Origins(n) -> Hops]
  /\ fib \in [Names -> Hops]
  /\ DOMAIN told = Names
  /\ \A n \in Names : told[n] \in [DOMAIN fib[n] -> Nat]
  /\ age \in [Names -> 0..2 * RefreshTime]
  /\ lapsed \subseteq Names

\* The hops the present routing table has to the present origins of a name.
Reaching(n) == AddAll({routes[r] : r \in Origins(n)})

\* Whatever was added, removed, recalculated or left out piece by piece, NFD
\* was told of the cheapest hops the present routing table has to the present
\* origins of a name, all of them, at their present costs
\* (name-prefix-table.cpp:44-120), and the FIB entry has these hops, at their
\* present costs or lower ones from before (nexthop-list.cpp:80); unless its
\* event has removed it.
FibFollowsRoutes ==
  todo = {} => \A n \in Names :
    IF n \in lapsed THEN fib[n] = NoHops /\ told[n] = NoHops
    ELSE /\ told[n] = ForNfd(HopsToAdd(Reaching(n)))
         /\ DOMAIN fib[n] = DOMAIN told[n]
         /\ \A f \in DOMAIN fib[n] : fib[n][f] <= Reaching(n)[f]

\* A FIB entry that is in use is not removed by its event (fib.cpp:199, 229)
\* unless, since the table was last calculated, a calculation was skipped for
\* a build that was scheduled (routing-table.cpp:55) or a build that changed
\* nothing put the refresh of the own Adjacency LSA off (lsdb.cpp:641): left
\* to themselves the refreshes are frequent enough, and losing that LSA clears
\* the table in time.
LapsesOnlyIfPutOff == todo = {} /\ lapsed # {} => skipped \/ putOff

\* Once the database and the builds have settled, the routing table is the one
\* calculated from it and no FIB entry is missing, for good: the request that
\* a skipped calculation forgets is made up for by the next refresh.
RoutesFollowLsdb ==
  <>[][FALSE]_inputs =>
    <>[](routes = (IF ownAdjLsa THEN paths ELSE Unreachable) /\ (todo = {} => lapsed = {}))
===============================================================================
