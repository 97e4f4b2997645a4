# A verification project for NLSR

NLSR (`src/`) is the routing daemon of a Named Data Networking router.  It finds
out which neighbours are alive, floods link-state advertisements (LSAs) over the
bundled ChronoSync library (`nsync/`), computes routes from the LSAs it holds,
and installs next hops in the local forwarder NFD.  This directory models the
daemon in TLA+, checks the models with TLC and proves some of their properties
with TLAPS.

## 1. The system

One NLSR process is single-threaded: every handler is a callback of one
`boost::asio` loop, so handlers are atomic with respect to each other.  What is
concurrent is everything between them: timers that were scheduled and never
cancelled, interests whose answer comes late, commands to NFD that are answered
after the state they were issued in has gone, validations, the other routers,
and crashes.

| component (source) | state | operations | talks to | what makes it correct |
|---|---|---|---|---|
| HelloProtocol (`src/hello-protocol.cpp`), AdjacencyList / Adjacent (`src/adjacency-list.cpp`, `src/adjacent.cpp`) | status, timeout count and face of every neighbour; HELLOs in flight | periodic send, peer's HELLO, timeout, content, validation, registration answers | Fib (registration), Lsdb (`scheduleAdjLsaBuild`), NFD | a dead neighbour is given up, a live one is not forgotten, nobody blocks the Adjacency LSA for good |
| Nlsr (`src/nlsr.cpp`) | build counter and flag, configuration, certificates | start-up, face events, face destruction | all | a destroyed face takes its neighbour down once |
| Lsdb (`src/lsdb.cpp`), LSA types (`src/lsa.cpp`) | Name, Adjacency and Coordinate LSAs, their expiry timers, `m_highestSeqNo` | build, install, remove, refresh/expire, fetch, serve | SyncLogicHandler, SequencingManager, RoutingTable, NamePrefixTable | sequence numbers only grow, a stale timer changes nothing, every LSA has a live timer |
| SequencingManager (`src/sequencing-manager.cpp`) | three counters, their packing, the file | increase, pack, unpack, write, read | SyncLogicHandler, Lsdb | a number that was published is never published again for another content, also after a crash |
| SyncLogicHandler (`src/communication/sync-logic-handler.cpp`) | the sync socket | publish, process updates | nsync, Lsdb | a newer LSA is fetched, the own one never |
| nsync (`nsync/*.cc`) | full state, diff log, interest table, outstanding timers | sync interest, recovery interest, sync data, publish | other routers | states converge to the maximum of what was published, the diff log explains the current digest |
| RoutingTable (`src/route/routing-table.cpp`), calculators, Map | entries, the scheduled flag | schedule, calculate (link state, hyperbolic, dry run) | Lsdb, NamePrefixTable | the table follows the LSDB |
| NamePrefixTable, its entries, NexthopList | prefix -> routers -> next hops | add / remove an origin, update with new routes | RoutingTable, Fib | exactly the origins the LSDB names, next hops of the cheapest cost per face |
| Fib, FaceMap, FibEntry (`src/route/fib.cpp`) | prefix -> next hops, expiry events, face ids | update, remove, refresh, (un)register, answers | NFD | NFD holds the routes the FIB holds, whatever answers are lost or late |
| FaceController (`src/utility/face-controller.cpp`) | - | create, canonize, destroy | NFD | - |
| PrefixUpdateProcessor, NamePrefixList (`src/update`, `src/name-prefix-list.cpp`) | advertised names | advertise, withdraw | Lsdb, SyncLogicHandler | an accepted command changes the Name LSA once and is published |
| LsdbDatasetInterestHandler, publishers (`src/publisher`), TLV (`src/tlv`) | - | dataset interest, segmentation | Lsdb | segments concatenate to the dataset |
| Validator, CertificateStore (`src/validator.hpp`, `src/security`) | certificates | validate, publish keys | Lsdb, HelloProtocol | - |
| ConfFileProcessor, ConfParameter, NlsrRunner (`src/conf-file-processor.cpp`, `src/nlsr-runner.cpp`) | configuration | process a section, initialize or give up | all | what runs is what the file says, whatever the order of its sections |
| nlsrc (`tools/nlsrc.cpp`) | the step it is at | send a command, fetch and print the datasets | PrefixUpdateProcessor, dataset handler | what it reports was true |
| Statistics, Logger | counters | - | - | nothing depends on them |

Behaviours that are hard: neighbours that flap while HELLOs, registrations and
validations of an earlier life are still in flight; two delayed jobs (LSA build,
route calculation) that interact through two flags; LSA timers that are not
cancelled; sequence numbers that must survive a crash in a file that is written
in place; three sequence numbers packed in one word; gossip of states with lost,
late and reordered messages; NFD commands that are retried after the route they
belong to has been withdrawn; fetches of several numbers of one LSA that overtake
each other; tables and FIB entries that only the next calculation renews;
commands and datasets that cross a database that changes.

## 2. The modules

| modules | model | compose with |
|---|---|---|
| `HelloProtocol`, `MCHelloProtocol`, `HelloProtocolProofs` | neighbour liveness, faces, the delayed build of the Adjacency LSA and the delayed calculation | Nlsr, Lsdb and RoutingTable as far as adjacency goes |
| `SequencingManager`, `SeqNoFields` | own sequence numbers over crashes; their packing in one word | SyncLogicHandler, SyncSocket |
| `Lsdb`, `MCLsdb`, `LsdbProofs` | the database, its timers, the own LSAs and what the database drives | SequencingManager, NamePrefixTable, RoutingTable's flag |
| `SyncSpec`, `SyncLogic`, `MCSyncLogic`, `SyncLogicProofs` | nsync between routers, and what it promises | |
| `LsaSpec`, `Dissemination`, `MCDissemination`, `DisseminationProofs` | an origin, what nsync promises, and the retrieval of LSAs by another router, with caches, parallel fetches, deadlines, crashes; and what all that promises | nsync, by what `SyncSpec` says of it |
| `NexthopList`, `RoutingTable`, `MCRoutingTable`, `RoutingTableProofs` | next hops; the routing table, the Name Prefix Table and what Fib is told, with calculations skipped or put off and entries that run out | the build of the Adjacency LSA |
| `Fib`, `MCFib`, `FibProofs` | FIB entries, commands to NFD and their answers, retries, faces under changing numbers | NFD, AdjacencyList |
| `RoutingTableCalculator`, `RouteCalculation`, `CalculatorProofs` | the calculators as operators; every database that LSAs can leave behind | |
| `Configuration` | the sections of `nlsr.conf` and what runs with them | |
| `LsaContent` | what a LSA says, how it is written, read and compared | |
| `TlvEncoding` | the encodings of the datasets and the copies objects keep of them | |
| `PrefixUpdate` | `nlsrc advertise/withdraw`, the processor and the Name LSAs that come of it | |
| `Datasets` | publishers, segments, caches and `nlsrc status` | |
| `PartsProofs` | proofs about `SequencingManager`, `SeqNoFields`, `PrefixUpdate`, `Datasets`, `Configuration`, `TlvEncoding`, `LsaContent` | |
| `MCParts` | one instance of the smaller parts: `SequencingManager`, `SeqNoFields`, `RouteCalculation`, `Configuration`, `LsaContent`, `TlvEncoding`, `PrefixUpdate`, `Datasets` | |

`MCParts` is a way of checking only: its variable `part` picks one of nine parts
at the start (link state and hyperbolic calculation count as two), the others
stay as they are.  Parts that share no state share a run that way; a property of
one part is checked in all states of that part, as if it ran alone.

How the modules depend on each other.  `SyncSpec` is implemented by `SyncLogic`
and is what `Dissemination` takes of nsync: a router gets to know *some* later
publication, not every one.  `LsaSpec` is implemented by `Dissemination`; `Lsdb`
assumes less, it takes any LSA of any age from the network.  `Lsdb` and
`HelloProtocol` set the flag that makes `RoutingTable` calculate; `RoutingTable`
takes any of the constant `Results` for what a calculation yields, and
`RouteCalculation` says what it yields; the hops `RoutingTable` chooses are what
`Fib` is given, from the constant `HopChoices`.

## 3. Conventions

A callback of the event loop is one action.  A scheduled event may fire at any
moment after it was scheduled, so the models contain every order of timers,
including orders the configured intervals would make rare; where the code relies
on two intervals being far apart this is said at the action.  An answer that has
to come from elsewhere is a packet or a command in flight that the environment
delivers, fails or drops.  Bounds are constants whose comment starts with
"bound:".  `Mut_...` definitions are slips a maintainer could make in the
definition after them; every property below is known to fail under one of them.
Every `MC...` module and `.cfg` gives constants only.

Checking: `tlc -config HelloSafety.cfg MCHelloProtocol`, and so on for the runs
below; `tlapm HelloProtocolProofs.tla`, and so on for the proofs.

## 4. HelloProtocol

**State.** For every neighbour the members of its `Adjacent` object (`status`,
`timedOutNo`, `faceId`), HELLO interests in flight and HELLO data handed to the
validator, `FaceCreate` and `RibRegister` commands in flight; of NFD the face of
each neighbour's URI, the ids it has given out and the destroy events not yet
delivered; of `Nlsr`/`Lsdb` the build flag and counter, the content of the own
Adjacency LSA, and of the routing table whether a calculation is scheduled and
which adjacency the last one saw.

**Actions.** One per callback of `hello-protocol.cpp`: `SendScheduledInterest`,
`ProcessInterest`, `ProcessInterestTimedOut`, `OnContent`, `OnContentValidated`,
`OnContentValidationFailed`, `OnFaceCreated`, `OnRegistrationSuccess`,
`OnRegistrationFailure`; `OnFaceEventNotification` of `nlsr.cpp`; `BuildAdjLsa`
and `RefreshOwnAdjLsa` of `lsdb.cpp` and `Calculate` of `routing-table.cpp` as
far as they concern adjacency; `PeerChange` and `DestroyFace` are the
environment.

**Run.** `hello_safety`: two neighbours, one HELLO in flight to each.  A build
is on its way whenever the LSA does not list the ACTIVE neighbours; a neighbour
that was settled never blocks the build again; builds are asked for only when
something changed; a neighbour that is gone ends up INACTIVE for good; the
routing table follows the ACTIVE neighbours once they are stable, although a
calculation that is due while a build is scheduled is skipped and its flag
cleared (`routing-table.cpp:55,101`): a refresh of the own LSA makes up for it.

**Bounds.** A second HELLO in flight, or a third neighbour, adds no new pair of
handlers that interfere: neighbours share only the build and the calculation,
for which two are enough.  One face id that NFD still has to give out lets either
neighbour have its face created, used and destroyed.  A retry number of one keeps
the count short; the proofs hold for all.

**Fairness** (`FairSpec`).  Timers fire (weak fairness of the build, the refresh,
the calculation, the timeout), NFD delivers its events and answers its commands
one way or another, and the periodic send happens again and again (strong, as
its bound on HELLOs in flight disables it for a while).  A trusted peer's HELLO
data validates again and again.

**Proved** (`HelloProtocolProofs`, any number of neighbours and faces, any retry
number): the type invariant, `ActiveBelowRetry` (an ACTIVE neighbour is below the retry
number, else the handler's `==` would never give it up), `NoBuildRequestLost`
(the build counter and the flag never part), `AdjLsaCurrentOrPending`,
`SettledForGood`, `BuildOnlyOnChange`.  The type
invariant makes the counters comparable; `ActiveBelowRetry` is inductive over it
and the two action properties need both.

## 5. SequencingManager and SeqNoFields

**State.** The three counters in memory, the content of `nlsrSeqNo.txt`
(`Absent`, `Empty` or numbers), the publications posted to the event loop and not
yet carried out, and what nsync was given, over all lives of the router.

**Actions.** `Initialize` (start-up: read the file, build and disclose the first
LSAs), `BuildLsa`, `PublishRoutingUpdate` (disclose, save), `PublishDataInternal`
(the posted half of `SyncSocket::publishData`), `Crash`, which with
`CrashInWrite` may also hit between the truncation of the file and its rewriting.

**Runs.** In `parts`: publications reach nsync in increasing order
(`PublicationsGrow`), over crashes; and, with all counters in fields of 2, 2 and
3 bits of a word of 8, up to the first value each field does not hold, a receiver reads the sender's numbers as long as none has
outgrown its field (`ReceiverReadsSender`).  `seq_crash_in_write` (expected
violation): a crash inside the rewriting leaves an empty file, the router starts
over from its first numbers and the session stays 0, although
`nsync/sync-seq-no.h:172-174` expects a new session after a crash.

**Bounds.** Counters up to three with a jump of one (six and two where the crash
is to lose something): the jump of ten of the code
matters only in being larger than what one life discloses unsaved.  Two posted
publications are the least that can be reordered.  The fields of `SeqNoFields`
are the constants of shifts and masks only; narrower fields keep their layout.  Its
numbers are words, each the set of the positions of its ones: `|` and `&` are union
and intersection, a shift loses what leaves the word, and adding one carries.

**Proved** (`PartsProofs`, for every bound, when no crash cuts the
rewriting short): `PublicationsGrow`, and what it rests on: everything disclosed
can be read back from the file (`PublishedIsPersisted`), and a running router is
past every number it ever disclosed (`NumbersAreFresh`).  The invariant says what
is in the file bounds what was disclosed (`SavedInv`), what is in memory is past
it (`FreshInv`), and the posted publications are ordered (`OrderInv`).  For fields
of any width that fit into a word, `ReceiverReadsSender`: no field reaches into
another one, and each mask is as wide as its field (`FieldsApart`).

## 6. Lsdb

**State.** For every type and router the number of the LSA held and what it
says; the event an LSA knows by `m_expiringEventId` and those whose id was lost;
the manager's counters and the ones last published; the names this router
advertises; the Name Prefix Table as pairs of a prefix and a router; whether a
routing table calculation is scheduled.

**Actions.** `UpdateNamePrefixList`, `BuildAdjLsa` and `RemoveOwnAdjLsa` change the
own LSAs and publish; `ProcessContent` installs whatever the network brings (any
router, number and content, so old and repeated answers too);
`StoredTimerFires` and `LooseTimerFires` refresh or expire an LSA, or find it
superseded; `Calculate` clears the flag.  Installing, updating and removing are
modelled with everything they call: the Name Prefix Table, the scheduling, the
cancelled and the new timer.

**Runs.** `lsdb_safety`: every LSA has an event that will refresh or expire it
under its present number, although several ids are lost; what was published can
be served; the Name Prefix Table has a name by a router exactly when that
router's Name LSA lists it (a router may list *our* prefix too); each change of
the topology leaves a calculation scheduled.  `lsdb_expiry`: an LSA whose origin is
silent leaves the database.  `lsdb_router_prefix` (expected violation): all three
LSA types share one entry of their router's prefix, so that the first to be
removed takes it away from the others.

**Bounds.** One other router, as LSAs of different routers meet nowhere but in
the flag; two numbers of the types whose updates matter; two contents, so that
an update may or may not change something.  **Fairness**: timers fire.

**Proved** (`LsdbProofs`, any number of routers, names, contents, numbers): the
five properties of `lsdb_safety`, and that the two sources of own numbers never
part (`ManagerMatchesLsas`) and no LSA is replaced by an older one
(`NeverBackwards`).  The conjunction of the five state properties
is inductive as it stands: `TimerForEveryLsa` and `NamesFollowLsas` need only the
types (`LsaInv`), the properties of the own numbers (`OwnInv`) need each other,
as a refresh takes its number from the LSA and a new LSA from the manager.

## 7. SyncSpec and SyncLogic

**What is promised.** `SyncSpec`: a router knows of every other a number that
was published, and while it lives only gets to know newer ones.

**State.** On every router `m_state` (a function from routers to numbers), `m_log`
(for each earlier digest the sum of the diffs made since, which is what
`DiffState::diff` computes along its `next` pointers), the interest table, the
delayed processing whose event id is stored and the one whose id was
overwritten, and the interests it waits for; every data packet ever sent, as
any may sit in a cache for `m_syncResponseFreshness` = 1000 seconds.  A digest
*is* the state it is computed from: collisions of hashes are not modelled.

**Actions.** `SendSyncInterest`, `OnSyncInterest` and `DelayedProcessing` (the
two passes through `processSyncInterest`), `OnRecoveryInterest`, `OnSyncData`
(`processSyncData`, for either kind), `AddLocalNames` with
`SatisfyPendingSyncInterests`, `ExpireInterest`, `InterestTimeout`, `Restart`.
An interest is in the network as long as its sender waits for it, may reach any
router any number of times, in any order, or none.  The retransmissions of a
recovery interest are covered by that and have no action.  `remove()` is never
called by the daemon.

**Runs.**
- `sync_safety`: two routers that publish once each, and one restart of either.
  The log leads from every digest in it to the present state; what answers a
  sync interest has news for who asked (otherwise the same interest would fetch
  the same cached data over and over); what answers a recovery interest covers the
  state asked about; and nsync implements `SyncSpec` (the state is `known`).
- `sync_convergence`: two routers that publish once each, possibly at the same
  time, or one that publishes twice, agree in the end.

**Bounds.** `Histories` says how often each router publishes, `MaxPending` how
many interests of a kind it waits for, `MaxTable` how many it keeps, and one less
is the number of delayed processings whose event id was overwritten; the last two
depend on who asks and on what is published, so that there is room where it is
used.  In the convergence run `TwoKept` lets a router keep two interests where
two digests can ask it: one that has not published, those of before and after the
publication of the other, and one whose peer published twice, those of both of
its states.  This is where a repeated interest cancels the delayed processing of
another digest (`sync-logic.cc:353`), and where a kept interest, one of a known
digest too, is answered with the diff of a publication alone although the state
had moved on (`sync-logic.cc:488,523`).  In `sync_safety` one entry is kept at a
time: its properties are about single packets and logs, and proved without bounds.
Not reached with two routers: a third answering first, which shortens delays, and
an asker that such a diff alone puts in a state nobody had, from which it has to be
recovered; that routers agree after this is not checked.

**Fairness.** The periodic interest is expressed (every 4 s) and, being repeated,
reaches the other router (strong fairness for the present digest).  Delays of at
most 1 s end; entries expire; stale interests time out; data for the interest
that is repeated arrives.  Recovery interests may be given up
(`sync-logic.cc:684`) and lost, but start again with each delayed processing, so
their reception and the answer's get strong fairness.

**Proved** (`SyncLogicProofs`, any number of routers, publications and restarts,
no bound): the type invariant, `LogLeadsHere`, `AnswersTellNews`,
`RecoveryCovers`, and `RefinesSyncSpec`.  The invariant `IInv` adds `LogIsPast`
(the digests in a log are of states below the present one) and that no digest or
content anywhere is ahead of what was published.  The first makes a diff out of
the log news, and the state an answer to recovery; the second makes the diff
of a publication news for whatever digest is pending.

## 8. LsaSpec and Dissemination

**What is promised.** `LsaSpec`: a router holds of another only LSAs that were
issued, and replaces one only by a newer one; it may drop them.

**State.** Of every origin whether it runs, the numbers of its LSAs, those it
serves and what it published; how far nsync has told this router; the data
packets that were ever sent (a forwarder may have cached any); of this router the
number of each LSA held, `m_highestSeqNo`, and the fetches: a fetch is the chain of
callbacks one `expressInterest` sets off, and is asking, validating, or waiting to
validate again, before or after its deadline.  Two histories: the newest number
ever held, and what was given up.

**Actions.** `Publish`, `RemoveAdjLsa` (the last neighbour is gone; nobody is
told, `lsdb.cpp:524`), `Crash`, `Restart` of an origin; `OnNsyncUpdate`, with the
choice of the LSAs to ask for; `ProcessInterestTimedOut`, `OnContent`,
`OnContentValidated`, `OnContentValidationFailed`, `RetryContentValidation` of a
fetch; `DeadlinePasses`; `Expire`; another router's interest, which fills caches.

**Run.** `dissemination`: one origin that publishes twice, crashes, comes back
and loses its neighbours, with two types of LSA and two fetches of the same
number.  Before its first Adjacency LSA the origin announces number 0 for it with
every Name LSA.  `isAdjLsaNew` (`lsdb.cpp:579`) takes any number for new that is of
a LSA not held, so this one is asked for, and nobody ever answers.  The newest
announced number is held, or fetched, or was given up, at its deadline or as its
content did not decode (`NewestIsFetched`); `LsaSpec` is implemented; what the
origin goes on serving is held in the end and from then on (`NewestInstalled`)
unless given up; of a router that is gone for good nothing is held or asked for in
the end (`DeadRouterForgotten`), although caches go on answering.  This is not so of
an Adjacency LSA that a live router has removed: the router goes on announcing its
number, each announcement has a receiver that let it run out ask again
(`lsdb.cpp:842`), and a cache may answer.  It comes back for as long as caches have it.

**Bounds.** Fetches of different origins never meet.  Two publications are the
least that overtake each other, a restart between them makes a jump.

**Fairness.** The newest fetch is answered as long as its number is served, and
its data validates in the end (strong: it may fail in between); the validator
answers, timers fire, deadlines pass, held LSAs that are not refreshed expire.

**Proved** (`DisseminationProofs`, any number of origins, publications, copies):
types, `NewestIsFetched`, and `Spec => RefinesLsaSpec`.  The invariant `IInv` adds
that what is served has a number above 0, which announcements may not (`Served`),
that publications of an origin grow and stay below its numbers, also after a
restart (`Issued`), that nothing held or fetched is beyond them, nor
`m_highestSeqNo` beyond what was announced (`Known`), and that a newest number
that was not installed is the one `m_highestSeqNo` has and is asked for or given
up (`Pursued`).

## 9. NexthopList, RoutingTable

**State.** What a calculation from the present database would yield, whether the
database has the own Adjacency LSA and how long ago its refresh was scheduled, the
two flags; the routing table; for every name its origins and their hops; the hops
of every FIB entry with the costs the entry has (`fib`), the faces and costs NFD
was last told of (`told`), and how long ago the entry was updated.  A list of next
hops is a function from faces to costs, since `addNextHop` keeps one hop for each
face.  `fib` and `told` differ: an update registers every hop at its present cost,
but merges it into the entry with `addNextHop`, which only ever lowers the cost of
a hop the list has (`fib.cpp:103`, `nexthop-list.cpp:80`; the comment at
`nexthop-list.cpp:65` has it take the new cost).  A hop that becomes dearer
therefore keeps its old cost in the entry as long as it stays one of the chosen.
Nobody but the log and the removal from the list reads that cost.

**Actions.** `AddEntry`, `RemoveEntry` (`name-prefix-table.cpp`), with the next
hops of all origins merged and handed to Fib (`ToFib`); `Calculate`, and turn by
turn its loop over all names and their origins, `UpdateWithNewRoute`, during which
nothing else happens (`todo`) but Fib sees hops of the old table mixed with those
of the new one; `LsdbChanges`, `ScheduleBuild`, `BuildAdjLsa` as what schedules
calculations, or keeps them from being made; `RefreshAdjLsa`; `Expire` of a FIB
entry; `TimePasses`.

**Run.** `routing_table`: two names with up to two origins, four results with
hops that NFD cannot tell apart and one that becomes dearer, one face for each
name.  NFD was told what the present table says of the present origins, and the
entry has these hops at these costs or lower ones (`FibFollowsRoutes`), or the
entry was removed by its event.  That happens only when something kept the table
from being calculated for two refresh times (`LapsesOnlyIfPutOff`): a calculation
was skipped because a build was scheduled, or a build that changed nothing
cancelled the refresh of the own Adjacency LSA, scheduled it anew and asked for no
calculation (`lsdb.cpp:641-644`).  Builds that change nothing, if they keep coming,
can put the next calculation off for ever, and every FIB entry then lapses although
the routes are good.  When database and builds settle, both heal
(`RoutesFollowLsdb`).

**Bounds.** Two origins are the least that can be merged and parted, and whose
turns in the loop differ; costs 2 and 3 are one cost for NFD, 4 is another.  A
refresh time is two ticks: a build can come in the middle of one, which is what it
takes to put a refresh off without meeting it.  **Fairness**: loops end, timers
fire and time goes by.  `routing-calc-interval` is much shorter than a tick, so
none is pending when one passes.

**Proved** (`RoutingTableProofs`, any names, routers, hops, results, refresh time):
types, `FibFollowsRoutes`, `LapsesOnlyIfPutOff`.  The invariant adds
`NptFollowsRoutes` (the hops kept for an origin are those of the table, or the loop
has yet to come to it), `FibFollowsNpt` (Fib has what the origins have, also in the
midst of a loop), `LostLsaClears` (without an own LSA either nothing is routed or a
calculation is scheduled), `LapsedHasOrigins`, `LapsedIsLate`, and `InUseIsYoung`
(as long as nothing was skipped or put off, an entry in use is no older than the
scheduled refresh of the own LSA, or a calculation is scheduled, or the loop comes
to it).

## 10. Fib

**State.** The hops of every entry; the number of each face in the Adjacency
List, in the FaceMap and in NFD; commands and answers under way; NFD's routes and
which of them were registered for the entry as it is; a history of the pairs of
name and face for which something went wrong.

**Actions.** `Update` (update, remove and the event of the entry), `Clean`,
`OnAnswer` (success teaches the FaceMap, failure is tried again three times);
`AdjacencyLearns`; of NFD `NfdServes`, `NfdFails` (refused, lost, or done with the
answer lost), `RouteExpires`, `FaceCreated`, `FaceDestroyed`.

**Run.** `fib`: one name over two faces, one of which is created anew.
Where nothing failed NFD has in the end the routes of the entries at their costs
(`RibFollowsTable`); a route Fib does not want goes in the end (`WithdrawnRoutesGo`),
because every registration expires, though its withdrawal may be lost, or never
sent for want of a number in the FaceMap (`fib.cpp:417`), and a failed registration
may be repeated after it; a route it keeps comes back (`WantedRoutesReturn`).

**Bounds.** Names share nothing but the numbers of faces.  Two commands under way
when Fib is called, one retry, two numbers of one face.  **Fairness**: NFD
serves or fails commands, routes expire, answers and face numbers arrive; an entry
is refreshed again and again and one of the registrations of each pair succeeds
again and again (strong, each is at times impossible). 

**Proved** (`FibProofs`, any names, faces, hops and retries, with no bound on the
commands under way): types and `RibFollowsTable`.  That NFD agrees with an entry
once no command is left is not inductive: with commands left NFD may have anything.
The invariant says it of every pair of name and face that is not blemished, command
by command: its commands go to the number NFD has for the face
(`CommandsReachFace`); the last command of the pair brings what the entry says
(`LastCommandCounts`); and when there is none, NFD has that already, from a
registration for the entry as it is (`SettledAgrees`).  A failure on its way, which
would be tried again with an old cost, has blemished its pair (`FailuresBlemish`).
What an update appends to the queue is characterised by lemmas about the
sequences of its commands (`HopsRegistered`, `AllWithdrawn`), so that the order in
which the faces of an entry are served does not matter.

## 11. The smaller parts

All are checked in the run `parts`.

- `RoutingTableCalculator`, `RouteCalculation`.  Map, matrix, Dijkstra's algorithm
  with its queue that is sorted in place, the pass over each link of the router for
  multipath, hyperbolic routing.  The database is a list, as the order of LSAs numbers
  the routers and numbers break ties.  `RoutesAreShortest`: for four routers in a
  ring with a diagonal, each with or without one of one or two LSAs, in every order, single path
  routing takes a neighbour on a shortest path, and multipath every neighbour a way leads over
  that does not return.  Shortest paths are defined by the number of
  links.  `HyperbolicIsRelative`: turning all coordinates changes nothing if their angles
  are within a turn, and distances are symmetric; half a turn is two steps, and the hyperbolic distance
  is an arbitrary function of radii and angle.
- `Configuration`.  A file of up to three out of some two dozen sections, good ones and ones at
  and beyond each kind of boundary.  `OrderMakesNoDifference`: a file that has
  each section once yields the same configuration in any order.
  `listed_certificates` (expected violation): certificates after a validator are
  passed over when there is no prefix-update-validator.
- `LsaContent`.  The tokens a LSA is written as, and the string that is read from
  memory up to a zero byte nobody sends (`lsdb.cpp:1069`).  `ReceiverFollowsLinks`:
  a receiver holds the sender's links at costs rounded up and calculates exactly
  when one of them changed, whatever lies behind the content.
- `TlvEncoding`.  `EncodingTellsObject`: objects set, extended, cleared, encoded and
  read in any order give out an encoding that reads as themselves, except for what
  `clearAdjacencies` and `clearNames` clear, which keep the old encoding; a
  negative expiration period survives.  Numbers are modulo 16 instead of 2^64.
- `PrefixUpdate`.  Two clients and two commands, validated in any order, lost or
  given up.  `ReportsAreTrue`: a command reported as applied was so in a Name LSA
  published after it was sent, and what is published without being configured was
  advertised by a command not reported as failed.
- `Datasets`.  A database that changes three times, caches that forget, and segments
  that are cut within LSAs: a LSA has three units, a segment four
  (`segment-publisher.hpp:85`).  An interest for a segment that is not in the cache
  gets the answer 400, which is not a last segment, so the fetch goes on with that in
  the midst of the data; where the blocks stop making sense `nlsrc` prints an error
  and what it has read, and goes on to the next dataset (`nlsrc.cpp:242-253`).
  `PrintedWasThere`: each dataset printed is one the database had, or, if an error
  came in the place of a segment, the first LSAs of one.

**Proved** (`PartsProofs`):

- `ReportsAreTrue`, for any clients, prefixes and commands.  The invariant says
  that a command is on its way once (`OnItsWayOnce`), that a success under way or
  reported was published (`SuccessIsApplied`), and that each prefix published
  beyond the configured ones has an advertisement that can only be answered 200
  (`PublishedIsBacked`).
- `PrintedWasThere`, for any LSAs, sizes of LSAs and segments, versions, changes
  and errors.  The invariant has a witness for each version published (`Explains`):
  LSAs the database has had, of whose octets every segment in the cache is the
  segment of its number, and of which `nlsrc` has what comes before the segment it
  asks for, or what comes before some place and an error at that place
  (`ComesBefore`).  The lemmas about `Segments` (`CountProperties`,
  `SegmentProperties`) say that the segments of a content put together are the
  content, and the last one only is final; `Encoding` says where the octets of each
  LSA are, and `ReadIntact` that reading stops before the first place that is not as
  it was written, and nowhere else.
- `OrderMakesNoDifference`, for any sections and any number of them.  The invariant
  describes the configuration that sections of different kinds set together as a
  function of their set (`ConfOf`), to which each section adds what is its own
  (`ConfOfOneMore`); that the recursion over the file from its end comes to the same
  is an induction, by a least place where it would not (`BackwardsIsConfOf`).
- `EncodingTellsObject`, for any width of numbers, any objects and number of items.
  The invariant (`TlvIInv`) is about the encoding that is kept: it is what `WireOf`
  makes of the fields of the object and of its items, or of items that were cleared
  since, with any elements behind the fields of LsaInfo, which decoding keeps.
  `WireTold` says that such an encoding reads as the object; it rests on what two
  sequences in a row are (`InARow`) and on a period that survives its way through an
  unsigned number (`PeriodTold`).  A dataset is three runs of LSAs, which end where
  the next type begins (`RunsEnd`), so it reads as it was written, and one with anything
  else in it is refused (`StatusTogether`).  Assumed of the constants: what the types
  of the fields admit (`ObjectAssumption`), that an unknown element has none of the
  types looked for (`StrangeAssumption`), that an exception is not an object
  (`ErrorAssumption`).
- `ReceiverFollowsLinks`, for any neighbours, costs and number of LSAs.  `LinksTold`
  says that content followed by anything in memory reads as the links at the costs
  rounded up, `SameMeans` that comparing two lists put in order place by place, as
  `isEqualContent` does, compares them as sets.  It rests on names having one place
  each in the order (`RankProperties`, `OrderProperties`), which is where it matters
  that no list has a name twice, the inductive invariant (`LsaIInv`).  That a list
  is copied as a whole by adding its adjacents one by one (`AllAreAdded`) is an
  induction by a least place again.

**Proved** (`CalculatorProofs`):

- `RoutesAreShortest`, for any finite set of routers, any links of whole costs from
  0 on (`LinkAssumption`) and every list of Adjacency LSAs their coming, changing and
  going leaves.  The argument has three parts.
  - *The search.*  Every round of `doDijkstraPathCalculation` keeps `Settled`: no
    explored router is farther than one that is not, the links of explored routers
    lead nowhere nearer than the distances say, and a router that is reached has the
    distance of its parent, an explored one, and the link from there
    (`OneMoreSettled`, `ExploreProperties`).  The round takes the head of the queue
    for the nearest router that is left, which is what sorting the queue in place is
    for: `SortProperties` says that exchanging brings the least distance to the head
    and loses no router.  What the search stops at leaves out only what is out of
    reach (`DijkstraProperties`).
  - *The next hop.*  A parent is nearer than its child, as links that count cost more
    than nothing, so the way `getLsNextHop` goes back ends (`HopsExist`,
    `NextHopProperties`), and what it returns begins a way of the distance found
    (`HopIsOnAWay`).  That this way has few enough links to be among those of
    `Distances` is counted by the routers that are farther (`FarGrows`).
  - *The shortest ways.*  No way, of however many links, is shorter than the search
    says (`NoShorterWay`, by the number of links).  For a single search these give
    `SingleIsShortest`; multipath routing searches once for every link of the router
    with its other links left out, which changes no way that does not return
    (`AdjustedFits`, `MultiIsShortest`).

  Inductions over numbers go by a least number where they would fail
  (`LeastNumber`, `PassedOn`); `Recursion` says that a definition such as that of a
  loop has values at all.  A cost of `Infinite`, 2147483647, or more is no way, here
  as in the code.  Costs are whole numbers in the model, doubles in the program;
  that none is negative is assumed, since the configuration does not look
  (`conf-file-processor.cpp:486`).
- `HyperbolicIsRelative`, for any routers, coordinates, `HalfTurn` and `Bend`.  That
  turning changes nothing is said of angles within a turn (`WithinTurn`): the code
  does not check that they are where it reads them (`conf-file-processor.cpp:536`),
  and subtracts from a turn once only (`routing-table-calculator.cpp:465`).

## 12. Only model-checked, and not modelled

Liveness (`DeadNeighborDetected`, `RoutingFollows`, `EveryLsaRunsOut`, `Converges`,
`NewestInstalled`, `DeadRouterForgotten`, `RoutesFollowLsdb`, `WithdrawnRoutesGo`,
`WantedRoutesReturn`) is checked by TLC on the instances above and not proved:
TLAPS does not handle ENABLED, hence no fairness.  All invariants and action
properties of the runs are proved.

Partly modelled: nsync without `remove()`, decoding errors and digest
collisions; Nlsr without its filters, strategies and keys; Fib without the
strategies it sets; certificates as far as the configuration loads them.
The objects of `src/tlv` are not looked at after a failed decoding, which leaves in
`m_wire` what could not be read; no caller uses such an object.
Not modelled: statistics, logging, daemonising and the command line, on which
nothing else depends; the trust schema, which belongs to the library; the
hyperbolic functions; the table of a dry run, which is only logged.

Assumed, not modelled: intervals that are far apart (`routing-calc-interval` and
`lsa-refresh-time`); `router-dead-interval` above `lsa-refresh-time`, which the
configuration enforces; one validator and one NFD, which answer everything in
one way or another where fairness says so.

## 13. Disagreements

Three runs show the code at odds with its own documentation or comments: numbers
that start over after a crash in the wrong moment (`seq_crash_in_write`,
`nsync/sync-seq-no.h:172`), a router prefix that leaves the Name Prefix Table with
the first of three LSAs (`lsdb_router_prefix`, `name-prefix-table.cpp:100`), and
certificates that are listed and not published (`listed_certificates`,
`docs/SECURITY-CONFIG.rst:48`).

Met on the way, without a run of their own:

- A calculation that is due while a build is scheduled is dropped and its request
  cleared (`routing-table.cpp:55,101`), unlike `nlsr.conf:118` says; a refresh makes
  up for it.
- A face's destroy event may overtake the registration answer that names it;
  `onRegistrationSuccess` (`hello-protocol.cpp:254`) then stores the dead id and no
  face is set up again (`docs/RELEASE-NOTES.rst:149`).
- A link with a fractional cost never equals itself: `adjacent.cpp:73` compares the
  cost of one with the rounded cost of the other.
- The ranges the comments of `nlsr.conf` give (lines 49, 61, 66, 121) are not those
  of `conf-parameter.hpp`, nor is the default of `hello-timeout`; a file without a
  general section, whose network, site and router line 7 calls mandatory, is
  accepted; hyperbolic state `ON`, in capitals, goes without
  coordinates.
- A prefix update without a name is answered twice, 400 and then 200.
- `clearAdjacencies` and `clearNames` keep the old encoding.
- A later segment of a dataset that has left the cache is answered 400 by the
  handler in place of the segment, and `nlsrc` takes the answer for the segment.
- `addNextHop` keeps the lower cost of a next hop it has
  (`nexthop-list.cpp:80`), where the comment before it has it take the new one
  (`nexthop-list.cpp:65`).
- A build of the Adjacency LSA that changes nothing puts off its refresh, and with
  it the calculation that renews FIB entries (`lsdb.cpp:641`).
