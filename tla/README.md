# A TLA+ model of the vehicle scheduling system

This directory is the verification project of the service in `src/`: a FastAPI
application that keeps the timetable of battery-driven vehicles on a fixed
track, in PostgreSQL. It holds TLA+ modules translated from the source, TLC
configurations that check them on small instances, and proofs of what holds for
every instance. `PROJECT.json` lists runs, mutants, findings, hazards, theorems
and the source lines of every definition.

## 1. The system

| Component | State it keeps | Operations |
|---|---|---|
| Track topology (`app/topology.py`) | constants: graph, interlocking groups, battery limits | lookups |
| Path validation (`logic/path_validator.py`) | none | `validate_path`, `reachable_from` |
| Stop times (`routers/services.py`, `logic/snapshots.py`, `logic/schedule_generator.py`) | none | three expansions of stops into (node, enter, exit) |
| Conflict detection (`logic/conflict_detector.py`) | none | block, battery and vehicle conflicts of a list of snapshots |
| Battery ledger (`logic/battery.py`, `models/battery_event.py`) | table `battery_events` | sums up to an instant; events of four types |
| Service endpoints (`routers/services.py`) | tables `services`, `service_stops` | POST, PUT, DELETE |
| Vehicle endpoints (`routers/vehicles.py`) | table `vehicles` | POST, PATCH (name, level), DELETE, GET |
| Block endpoint (`routers/blocks.py`) | table `block_configs` | PUT of a traversal time, GET |
| Schedule generator (`logic/schedule_generator.py`, `routers/schedule.py`) | local to the request: the slot, the trips placed so far | POST /schedule/generate: round trips, charging, rejection |
| Positions (`logic/positions.py`, `routers/topology.py`) | none (read only) | where each vehicle is at an instant, at what level |
| Schedule reads (`routers/schedule.py`) | none (read only) | GET /schedule, GET /schedule/conflicts |
| GraphQL gateway (`app/graphql/`) | per request: session, lock, loaders | fields resolved concurrently |
| Startup (`main.py`) | `block_configs` rows | seeding at every start |
| Migrations (`alembic/`) | the schema, levels of vehicles | 0002 up and down |

**How they interact.** Every request runs in a coroutine of its own with a
database session, hence a transaction, of its own; there is no state in memory
between requests. The components therefore meet in the tables. A write of a
service locks the row of *one* vehicle (`SELECT ... FOR UPDATE`), validates the
path, expands the stops with the block times, reads the ledger for the departure
battery, reads the vehicle's other services, asks the conflict detector, and
writes the service, its stops and one ledger event, all in one commit. Deleting
a service cascades to its stops and ledger events by foreign key; deleting a
vehicle cascades to its ledger and is stopped by its services. The generator
does the same for many trips in one transaction, but reads the timetable once
and locks nothing. The readers ask the same tables statement by statement.

**What is hard.** Handlers interleave at every `await`, also across server
processes. The isolation level is READ COMMITTED: each statement sees what was
committed when it began, so whatever a handler has read may be old when it
writes, unless a lock covers it. The lock covers one vehicle and is taken by two
handlers only; `update_service` reads its service *before* it, `delete_service`,
`generate_schedule` and `update_block` never take it. A reader sees a timetable
that need never have existed. Then there are the cached departure battery next
to the ledger it is computed from, two accounts of a battery (ledger and
display), the three expansions that must agree, the half-open intervals and
thresholds of the detectors, the search of the generator that must end, names
that are checked and written apart, a lock and a loader on one event loop, and
crashes between the steps of a start. `PROJECT.json` lists these hazards line by
line.

**What makes the components correct.** Paths follow the track. All readers of a
service derive the same instants. The detectors report what is physically
impossible, and only that. No vehicle is in two places at once or jumps, stored
or shown. Every stored service is in the ledger exactly once. The departure
battery is what the ledger says. A generated day has no conflicts and no long
waits, and charging stops at the maximum. References hold; names are unique;
every vehicle has one baseline. Every request and every field is answered.

## 2. Modules

    Topology ── PathValidator ───────────────────────────┐
        ├────── StopTimes ───── Battery ─────────────────┼── ServiceWrites
        └────── ConflictDetector ────────────────────────┘        │ EXTENDS
                     └── Positions (with StopTimes) ───── TimetableReads
                                                           │        │
                                            ScheduleGenerator   ReadGateway
    Battery ── VehicleRegistry
    VehicleTimeline   (abstract; ServiceWrites refers to it by INSTANCE ... WITH)

    proofs: StopTimesProofs ── ServiceWritesProofs ── VehicleOverlapProofs ── TimetableProofs
                    │                                          │           │
                    │                                ReadGatewayProofs   ScheduleGeneratorProofs
                    ├── LogicProofs (on MCLogic)
                    └── VehicleRegistryProofs

`MCLogic` (which extends `MCPathValidator`, `MCStopTimes`, `MCConflictDetector`),
`MCServiceWrites`, `MCScheduleGenerator`, `MCReadGateway` and
`MCVehicleRegistry` instantiate them for TLC.

**Units.** Instants are seconds, `None` a missing time. Levels are in 1/1200 of a
percent, in which the charge of a second (1/12 %), the cost of a block and the
hundredths of the column `delta` (`Numeric(5, 2)`, `Hundredths`) are all whole.
The level computed in memory is not rounded, what the ledger stores is. The epoch
of the baseline event is an instant before every service.

### Pure functions

* **Topology** - the constants of `topology.py`, literally.
* **PathValidator** - `validate_path` returns a set of errors instead of
  messages; `reachable_from` is the search, layer by layer.
* **StopTimes** - the write path's loop and the readers' loop are translated one by
  one (`WriteRound`, `SnapshotRound`); they share what both keep between two rounds.
  They differ on a node that is not on the track: the write path passes over it, a
  reader takes it for a stop. `_compute_stops` and `_stored_rows` are the
  generator's.
* **ConflictDetector** - the detectors over a *set* of snapshots. The scan of
  the sorted list keeps its early exit (`Scanned`). The code's sorts are stable and
  their lists come from a SELECT without ORDER BY, the candidate last; here ties go by
  service id. For block conflicts the order of a tie does not matter: two intervals
  that begin together overlap whichever comes first. For services of one vehicle
  that start at one instant it decides which discontinuity is named beside their
  overlap, and it matters for the verdict only when one of them takes no time or ends
  before it starts: then the model knows one of the orders the code may take.
* **Battery** - the ledger is a set of events, a level is a sum.
* **Positions** - `compute_positions_at` in both modes. The services come from a
  SELECT without ORDER BY, so an answer is the set of what may be shown.

### ServiceWrites: the write path

Variables: the four tables, the row locks, and for each handler its next
statement (`pc`), its request and what it has read. `services` holds a service
together with its stops; a stop row carries the number of the request that
inserted it (`batch`), which with its index is its primary key. One action is one
statement (or run of statements) whose order other transactions can observe:

| Code | Actions |
|---|---|
| `create_service` | `LockVehicle`, `ReadTraversal`, `ReadBattery`, `CheckSiblings`, `CommitCreate`, `ReloadService` |
| `update_service` | `LoadService`, `LoadStops`, `LockVehicle`, `ReadTraversal`, `WipeConsume` (`ResumeWipe`), `ReadBattery`, `CheckSiblings`, `CommitUpdate`, `ReloadService` |
| `delete_service` | `LoadService`, `DeleteServiceRow`, `CascadeAndCommit` |
| `update_vehicle` (level) | `ReadLevel`, `AdjustLevel` |
| `delete_vehicle` | `CountServices`, `RemoveVehicle` |
| `update_block` | `UpdateBlock` |
| PostgreSQL | row lock waits in the guards, `DeadlockAbort` |

Rows written since a handler's last SELECT become visible at its commit, so
flush, inserts and commit are one action; locks that a flush takes earlier are
the guards and the variable `wiped`. A write that fails (a missing row, the
unique constraint on `(service_id, sequence)`, a foreign key) rolls back:
`Refuse` leaves the tables alone.

`_load_service` is two SELECTs, one of the row and one of its stops (`selectinload`),
before there is a lock: an update may hold the row of one moment and the stops of a
later one, or none, when the service was deleted in between (an IndexError, 500, in
`ReadBattery`). What it assigns to the row is compared with what it loaded, and an
equal departure battery is not written (`UpdatedRow`). The loads after a commit and
before a DELETE are single steps, as nothing is done with the stops. The siblings are
read in one step too: their vehicle is locked, so none joins or changes its stops
between the SELECTs. One that leaves may be counted although it is gone, which misses
no overlap; given to another vehicle and retimed in one PUT it may hide a gap in
the day it has left, and the properties that speak of gaps are about requests
without reassignments.

**VehicleTimeline** is its abstract specification: a book of trips in which one
clerk books, changes and cancels single trips, each only if free. `ServiceWrites`
implements it (`ImplementsTimeline`) with `trips` replaced by the windows of the
stored services (`Trips`).

### TimetableReads, ScheduleGenerator

`TimetableReads` is how generator and readers take in the timetable: a SELECT of
the services, later a SELECT of their stops, each as of its own moment.
`ScheduleGenerator` composes `ServiceWrites` with a further handler whose local
state is `plan[p]`; the other handlers go on between its statements.

| `generate_schedule`, `routers/schedule.py` | Actions |
|---|---|
| block times, vehicles (404), services, their stops | `ReadConfig`, `ReadVehicles`, `ReadServices`, `ReadStops` |
| `for v`, `while slot < end_time` | `NextVehicle` |
| `battery_at` of the idle moment | `ReadIdleBattery` |
| `battery_before`, the charge, the three checks | `CheckSlot` |
| the flushes of trip, stops, consume and charge events | `InsertTrip` |
| passenger wait check (422), commit of the router | `FinishGenerate` |

* The order of the vehicles is the database's: any (`SetToSeqs`).
* A row that refers to a vehicle shares the vehicle's row (`FOR KEY SHARE`) until
  the commit: `VehicleRowShared` holds off a handler that wants it `FOR UPDATE`,
  and `InsertTrip` waits for one that has it.
* A request reserves one key per slot it may fill (`KeysFor`), so `MaxRequests`
  bounds the keys drawn.
* The charge is dated a microsecond before the slot; in the model a second, as
  all other instants are whole minutes or at least seconds further apart.

### ReadGateway: the readers

One reading request, of one or several fields, beside the handlers of
`ServiceWrites`. A GraphQL request resolves its fields as tasks that share a
session and a lock; the loader of levels is one more task. A GET endpoint is a
request of one field. Every statement is two steps, `Call` and `Return`, between
which other tasks and transactions run; `Return` gives what is committed then.

| Code | Model |
|---|---|
| `async with ctx.lock` in every resolver | `StartField`, the release in `GoOn`; `TakesLock` |
| the statements of each resolver or endpoint | `Statements`, `Returned` |
| `loaders.battery.load_many`, the batch function | `LoadMany`, `LoaderCall`, `LoaderReturn`, `LevelsLoaded` |
| `get_schedule`, `list_conflicts`, `get_positions`, `get_topology`, `list_blocks`, `list_vehicles` | `AnswerOf` |

Rows of an earlier field are read anew, as the session holds them weakly and the
resolver that read them has returned.

### VehicleRegistry: names, levels, starts

A deployment's life: migrations, seeding, the handlers of `routers/vehicles.py`
with the names that `ServiceWrites` leaves out, crashes and restarts.

| Code | Actions |
|---|---|
| `0002_battery_events.py` | `upgrade` (within `StartServer`), `downgrade` |
| container start: `alembic upgrade head`, then `lifespan` | `StartServer`, `_seed_block_configs` |
| `create_vehicle` | `CheckName`, `Flush`, `Commit`, `Refresh` |
| `update_vehicle` | `GetVehicle`, `CheckName`, `Flush` (the autoflush before the level is read), `Commit`, `Refresh` |
| `delete_vehicle` | `GetVehicle`, `Delete` |
| the process stops | `Crash`: every transaction under way is lost |
| services written, blocks retimed | `OtherHandlers` |

`vehicles` is a function on the ids that exist; `claim` is a row written and not
committed, for which writers of the same name or row wait (the unique index).

PostgreSQL is external: its row locks, waits, foreign keys, unique indexes, READ
COMMITTED re-checks and deadlock detection are modelled as far as the handlers
meet them. So is asyncio: its lock, and that it runs tasks that are ready.

## 3. What the runs show

| Run | Question | Bounds, and why they are enough |
|---|---|---|
| `logic` | Do the functions without a state agree with definitions by the track, by instants, by drivable orders? Do writer, readers and generator derive the same instants, detector and display the same state? | paths of up to 9 nodes over all 21 nodes and an unknown one: longer than any two segments, and every rule looks at two neighbouring nodes; payloads of 4 stops over yard, platform, two blocks and a node that is not on the track, every combination of present and missing times; timetables of 3 services of 2 vehicles out of trips with two-way and interlocked blocks, with levels that fall below the threshold before a yard and behind one, starts that touch and overlap |
| `concurrent` | Three handlers on one vehicle: types, overlap, ledger, paths, references, lock | 4 requests of 8 kinds in every interleaving; three handlers: a waiter, a lock holder, and a delete that needs no lock |
| `contention` | Is every request answered, and do the handlers implement the book of trips? | 2 handlers, 4 requests that wait for vehicle, service and ledger rows of each other (the deadlock of an update and a delete, a reassignment waiting for a deleted ledger row) |
| `timetable` | Neither overlap nor jump, and is a departure battery the ledger's level when it is written? | 2 handlers, 4 requests of 7 kinds, trips that touch, a trip that ends in a block, a level adjusted in between |
| `generated_day` | One request at a time: does everything hold that the documents promise of a timetable, generated schedules, reassignments, renumbering and block updates included? | 12 kinds of requests on 2 vehicles before and after 3 kinds of schedules: two trips with more time at the yard between them than there is room to charge, two vehicles half an interval apart, slots five minutes apart of which most are rejected. Five keys: three are the most a schedule draws, two are left for trips by hand |
| `gateway` | Does one task at a time use the session, is every field answered, is no reader shown a vehicle in two places? | one writer with 3 requests between any two steps of the reader, so between any two statements; up to 3 fields, twice the one that uses the loader and one more; positions at the instant at which one trip ends and another begins |
| `registry` | Names, baselines and levels over crashes and migrations | 2 handlers, 3 requests, 2 names, 2 levels (one not whole in hundredths), 2 starts: a crash, a second start, a migration down and up again |

Each property is also checked against a mutated definition (a dropped lock, a
cascade left out, a closed interval, ...), which stands before the definition it
replaces under its name with a suffix (`VehicleRowFreeAlways`, `CoversClosed`), and
TLC finds the property violated.

**Bounds.** `MaxRequests` bounds the requests served in all (and so the ids, and
the keys a schedule reserves); `MaxStarts` the starts of the server; `Now` is a
fixed wall clock; `Proc`, `Vehicle`, `Name`, `Level` and `Requests` are small
sets. When all requests are served only the stuttering step `Served` is left, so
a deadlock TLC reports is one of the handlers. Handlers and names are
interchangeable: the runs of safety properties use symmetry in them. `logic` ends when
the data is complete and `registry` when starts and requests are used up, so these
do not check deadlock.

**What the runs leave out, on purpose.**

* `timetable` has no deletions and no reassignments: taking a trip out of a
  vehicle's day leaves a gap (`delete_service` checks nothing), which is legal;
  and a trip deleted between the reading of the level and the commit makes the
  stored level stale at once, since `delete_service` does not take the vehicle's
  row. `BatteryWrittenIsFresh` is about levels that are written; that one is written
  with every change of a service is what run `torn_load` refutes.
* `concurrent` has no reassignments and no renumbered stops: these break its
  properties, see below. `generated_day` has both, one request at a time.
* `gateway` has no reassignments either: a read of services before one and of
  stops after it does report an overlap that was never stored. Nor has it block
  updates: a service that ends on the block then lasts longer than the checks knew,
  and TLC shows a reader the vehicle in two places (a hazard listed).
* `ChargeIsCapped` speaks of a schedule that is generated into a ledger without
  charges: deleting a generated service keeps its charge, and a second schedule
  may pass the maximum (a hazard listed).

**Fairness.** `FairSpec` adds `WF_vars(Step(p))` for every handler: a statement
that can run is run, because the event loop and PostgreSQL run whatever is
ready. `ReadSpec` has weak fairness of `GatewayStep` as a whole: the event loop
runs some task that can go on; it need not be fair to any one task, and no
handler need ever write. Nothing is assumed of clients (`Begin` is not fair), nor
strong fairness of locks: with the bounded number of requests a waiting handler
cannot be overtaken for ever.

### Disagreements between documents and code

Each is a run TLC must find violated; the quotations are in `PROJECT.json`.

| Run | Documents say | The code does |
|---|---|---|
| `reassign_overlap` | README.md:81: overlapping services of a vehicle are refused | a PUT of stops and a PUT of the vehicle lock different vehicles; both commit, and the service overlaps another |
| `renumber` | DESIGN.md:314: no illegal path is in the database | two PUTs of stops numbered differently leave both paths in one service |
| `lost_adjust` | battery.py:78: the delta moves the battery to the new level | the level is read without a lock and may be stale at the commit |
| `generator_race` | DESIGN.md:615: a generated schedule has no interlocking or vehicle conflict | the timetable is read once, without a lock; a POST of the same vehicle that commits meanwhile overlaps what is stored |
| `torn_load` | snapshots.py:8: the cached departure battery is rebuilt whenever a service is created or updated | row and stops are loaded in two SELECTs without a lock; with another PUT between them the level computed equals the old one loaded and is not written, and the other PUT's level stays beside the new stops |

Found while modelling, with nothing to search for and so without runs:

* README.md:87 says that an idle vehicle is shown where its last service ended.
  `_last_known_node` (positions.py:92) replaces its candidate only for a strictly later
  exit, so a last stop of no length, as of every generated trip, loses the tie to the
  stop before it: the vehicle is shown idle on block B1 instead of the yard.
* battery_event.py:4 defines the current battery as the sum up to now;
  `current_battery` sums the whole ledger, services of the future included.
* battery.py:39 and DESIGN.md:863 say that `non_service_battery` sums BASELINE and
  MANUAL_ADJUST; it sums whatever is not SERVICE_CONSUME, charges included. The
  model, and `ShownLevelIsLedgerLevel`, follow the code.
* DESIGN.md:620 says the generator checks blocks only; the code checks battery
  and vehicle conflicts too. DESIGN.md:860 has the emission of YARD_CHARGE
  deferred; `generate_schedule` emits it.
* The two PUTs of `reassign_overlap` may also leave a service two consume events
  (`ResumeWipe`), and the cached departure battery of a later trip stays when an
  earlier one is created, moved or deleted (DESIGN.md 9.12 says the cache is
  rebuilt on the write path only; `BatteryWrittenIsFresh` and
  `StoredBatteryIsLedgerLevel` state what that does guarantee).

## 4. What is proved

All proofs are checked by TLAPS, for any finite or infinite sets of handlers,
vehicles, names and requests, and for paths, payloads and timetables of any
length, that satisfy the named assumptions of the modules
(`ParametersAssumption`, `RequestsAssumption`, `GenerationsAssumption`,
`GatewayAssumption`, `RegistryAssumption`, `MaxLenAssumption`,
`TimetableBoundsAssumption`, ...), which say what the request schemas accept. An
invariant that had to be strengthened was first checked by TLC, as an invariant
of the run of the property.

**Hypotheses.** Some theorems need that certain requests are never made. Each is
an operator named in its proof module, satisfied by the run that checks the same
property, and each is needed, for the reason given:

| Hypothesis | Says of the requests | Without it |
|---|---|---|
| `NumberedFromZero` | payloads number their stops from 0 | run `renumber`: two payloads become one path |
| `OrdinaryRequests` | that, and no PUT moves a service to another vehicle or changes a block's time | run `reassign_overlap`; a service may end on a block, whose window then moves |
| `PlannedRequests` | that, and no service is deleted | a deletion leaves a gap in a day, and makes a level just read stale, as it takes no lock |
| `AscendingRequests` | a payload arrives at a stop when it has left the node in front of it, or later | the first departure is not the start; a list sorted by it is out of order, and a service is shown at two of its own nodes |
| `ForwardRequests` | a payload does not end before it starts | such a service consumes before its own start, so that its own event counts in the level it departs with |
| `OneHandler` | there is a single handler | a row may be gone between two statements; run `generator_race`: a trip entered during a generation clashes with the generated ones |
| `ForwardPayloads` | that, for whatever times the blocks are set to | the same; used with the generator, whose invariant says of stored rows that they are accepted ones, not which blocks' times they were accepted with |
| `EndsStay` | no block is retimed, or no accepted payload ends on a block | retiming the block on which a service ends moves its window, and the event that `battery.py` dated at the end stays where it was |
| `SchedulesAreAhead` | no schedule begins before `Now`, the instant of the adjustments | an adjustment falls after the vehicle came to stand: a charge is computed from the level before it, and the adjustment adds to the charge. The code does not ask for it |
| `RowsAreRows` | a row is not the model value `None` | (a fact of the encoding, which TLC knows and the provers do not) |

**Stop times** (`StopTimesProofs`). Lemmas about the recursive definitions: a
recursive function is unrolled once (`ExpandWalks`, `SumsExist`), and what it
computes is then shown position by position. The induction theorem of the library
takes an operator, which none of the provers can instantiate; the induction is
done with *sets of numbers* instead: a set that holds 0 and with every number the
next holds all (`InductionUpTo`), a non-empty one has a least (`LeastElement`).

The module also holds what several others need. **Sums** (`MapThenSumSet`, whose
parameter is an operator too): the sum of a finite set is what a function on its
subsets says that starts at 0 and with every element adds the element's value
(`AddsUp`); there is one such function (`SubsetSums`), from which follow the sums of
images, unions, negatives and of sets that differ in one element (`SumOfImages`,
`SumOfBoth`, `SumOfNegatives`, `SumsApart`); `LedgerAddsUp` and `SumOfOneEvent` say
the same of a ledger. **Positions**: services of one vehicle
whose windows do not overlap are shown in one place (`ShownInOnePlace`). **Costs**:
what a service has cost by an instant at which it is over, ahead, or under way.

**The pure functions** (`LogicProofs`, all for `LogicSpec`)

* **`SearchFindsEveryWalk`**, **`NobodyIsStranded`**: the breadth-first search
  finds what a path has visited, and every stop from wherever a path ends.
  `SearchIsComplete` is the reason a search of as many layers as there are nodes
  is enough: each layer adds a node or the search is closed, and it cannot add
  more nodes than there are. `TrackIsConnected` names, for every node, where the
  track leads on.
* **`WritersAndReadersAgree`**, **`NoNodeIsLost`**, **`TripsReadBack`**: the loop of the
  write path makes of a payload what the readers' loop makes of its stops on the track
  (the invariant `KnownFollowed`: a stop at a node off the track leaves the write path's
  loop as it was), and so of an accepted payload the same as the readers' loop. Of an accepted payload no node is
  lost and no gap is left; a generated trip reads back from its rows as computed.
* **`RulesAreTheTrack`**: the rules, which look at one hop at a time, accept exactly
  what follows the segments of DESIGN.md. From a stop the edges lead along a segment
  or back over a two-way block (`EdgesRunAlongSegments`), so that a path of edges is
  cut by its stops into segments, the last into the beginning of one
  (`EdgesMakePieces`, `PiecesMakeEdges`). The attempt showed that the reference
  definition was wrong: it took P3A B1 P3A for turning back on a two-way block,
  which no run had built, since the rules refuse its beginning.
* **`LowBatteryIsLastLeg`**: the blocks passed only grow (`BlocksAddUp`), so the
  last block of the last leg decides (`LastLegDecides`).
* **`ScanIsExact`**: the scan of the sorted intervals, with its early exit, finds
  all pairs that overlap (`ScanFindsOverlaps`: whatever lies between two
  overlapping intervals in the order starts before the first ends), and they are
  the pairs of services that hold clashing blocks at one instant. The horizon of
  the definition is long enough for every trip (`TripsFit`).
* **`SilentIsDrivable`**: services of one vehicle can be ordered by their starts
  (`OrderByStart`). Silence means that neighbours in that order neither overlap nor
  jump; the detector looks at the successive pairs, and in a drivable order they are
  the neighbours (`DrivenInOrder`).
* **`SilentMeansSafeToSee`**: a service takes some time and runs without a gap
  (`RunsForward`, `AlwaysSomewhere`), so that windows that do not overlap follow one
  another. At any instant at most one of them is under way (`OneUnderWay`); if none
  is, the vehicle rests where the one left last ended, and of two services one has
  been left later (`OneLeftLast`, `OneLastKnown`). That is `ShownInOnePlace`; the
  groups follow from the lemma of `ScanIsExact`, `BlockConflictsOf`.
* **`ModesStayClose`**: strict and smooth display cost a service that is over or ahead
  the same, and the one under way less than a block apart. As at most one is under
  way, the two sums differ in one term (`SumsApart`, `ModesOfDay`).

**The write path**

* **`TypeCorrect`** (`ServiceWritesProofs`): `Spec => []TypeOK`, without further
  hypotheses. The invariant adds to `TypeOK` that a handler at work has a request
  of the kind its label belongs to (`TypeInv`), without which the vehicle and the
  service it writes would not be known to exist. Battery levels and the elements
  of stop sequences are left out of the type.

* **`StoredPathsStayValid`** (`ServiceWritesProofs`): `Spec => []StoredPathsAreValid`
  under `NumberedFromZero`; reassignments, block changes and deletions are allowed.
  The inductive invariant `RowsInv` is `TypeInv` and

  1. `PayloadsChecked`: a handler past the path validation has an accepted payload;
  2. `KeysUnique`: the number of a request is used for one set of rows only;
  3. `RowsWhole`: what is stored or loaded is one accepted payload, not a mixture;
  4. `LoadedStopsAged`: the stops a handler loaded before it had the lock differ
     from the stored ones only by another request's stops, and then the new stops
     clash at sequence 0 and the commit fails (`UpdateReplacesStops`). This is
     where the unique constraint, not the lock, keeps the timetable right. It speaks
     of the stops, not of the row they were loaded with, which may be older;
  5. `GoneForGood`: a handler that loaded no stops loaded them of a service that was
     deleted, and will find nothing to update.

* **`ReferencesAlwaysHold`** (`ServiceWritesProofs`): `Spec => []ReferencesHold`,
  whatever is requested. `ReferencesInv` adds `VehiclesHeld`: a handler past its
  lock holds the row of its vehicle and the vehicle exists, so a deletion waits
  for it and then finds the service by the foreign key. Ledger events follow
  because every write of one is under the lock or fails at its own foreign key.

* **`VehiclesNeverOverlap`** (`VehicleOverlapProofs`): `Spec => []NoVehicleOverlap`
  under `OrdinaryRequests`. `OverlapInv` adds to `RowsInv`

  1. `TraversalFixed`: windows do not move by themselves;
  2. `RowHeld`: from lock to commit a handler holds the row of the vehicle it
     writes for, so that two handlers never check the same vehicle at once;
  3. `LoadedVehicleKept`: an update writes for the vehicle it found;
  4. `CheckStillTrue`: what a handler has checked holds until it commits;
  5. `NoVehicleOverlap` itself.

  `CheckFindsOverlaps` connects them to the code's check: if
  `_raise_if_vehicle_conflict` finds nothing, the candidate overlaps no sibling.
  `OverlapStep` has one step per action; actions that share an effect (a handler
  moves on, a request ends, a payload is committed) share a lemma.

* **`LockFreezes`** (`VehicleOverlapProofs`): `LockFreezesTimetable` under
  `OrdinaryRequests`. `ServiceSteps` reduces every step to one of three: a payload
  committed by the holder of the row, a cancelled service, no change.

* **`HandlersKeepTheBook`** (`VehicleOverlapProofs`): the refinement
  `Spec => ImplementsTimeline` under `OrdinaryRequests`. `OneServiceIsOneTrip`: a
  step that changes one service changes one trip, which is free because
  `OverlapInv` holds *after* the step.

* **`LedgerAlwaysMatches`** (`TimetableProofs`): `Spec => []LedgerMatchesTimetable`
  under `OrdinaryRequests`: every stored service has exactly one consume event, of
  its blocks and at its end. `LedgerInv` is `OverlapInv`, the property, that every
  event of a service is a consume event, and `WipesOwnEvents`: an update past its
  DELETE has locked exactly the events of its service, which it replaces.

* **`DaysStayConnected`** (`TimetableProofs`): `Spec => []NoVehicleConflict` under
  `PlannedRequests`: neither overlap nor jump. `ConnectedDaysAreQuiet` and
  `QuietDetector` show that the detector is silent about a day exactly if every
  service starts where the one before it ended (`Connected`); `DaysInv` adds to
  `LedgerInv` that every stored day is connected, and that the day a handler has
  checked would be, up to its commit (`PlanConnected`).

* **`BatteryReadStaysFresh`** (`TimetableProofs`): `BatteryWrittenIsFresh`
  under `PlannedRequests` and `ForwardRequests`: a departure battery that a commit
  writes is the level of the ledger that commit leaves, although it was read several
  statements before. `FreshInv` adds to `LedgerInv` that the level read is still the
  ledger's without the events the handler has wiped (`BatteryRead`; no other handler
  writes to the ledger of a vehicle whose row is locked). Nothing is needed, and
  nothing could be shown, of the row an update has loaded: a level that is *not*
  written may be of other stops (run `torn_load`).

* **`ShownLevelsAgree`** (`TimetableProofs`): `Spec => []ShownLevelIsLedgerLevel` under
  `OrdinaryRequests`: between services the display, which subtracts the blocks of
  stored paths, and the ledger, which holds one sum per service, give one level.
  `SoundInv` adds to `LedgerInv` that amounts and instants of events are numbers, the
  events of a vehicle finitely many and its services too (`LedgerSound`), and that a
  level read by an adjustment is one (`LevelsRead`). `LedgerMatchesTimetable` makes
  the services that are over correspond one to one to the consume events up to the
  instant, with opposite amounts (`ShownAsLedger`); the rest is `SumOfImages`,
  `SumOfNegatives` and `SumOfBoth`.

**The generator** (`ScheduleGeneratorProofs`). **`SchedulesEnd`**:
`GenSpec => EveryScheduleEnds`. Each statement of the loop leaves fewer vehicles,
a later slot or fewer statements for the slot, and no slot passes the end by the
interval, so the loop ends (that a descending measure ends is left to the
reader). `GenInv` carries that a plan's vehicles are at most those of its request
and that a slot under work is before the end (`PlanOK`); `FirstSlotInTime` is the
arithmetic of the offsets; `HandlersApart` says that the handlers of
`ServiceWrites` never are at a statement of the generator, so that its plan is
its own.

**`NobodyFailsAlone`**: `GenSpec => []NoInternalError` under `OneHandler` and
`RowsAreRows`: a process that serves one request at a time answers none, of any kind and in any
order, with an internal error. `AloneInv` adds to `GenInv` that what the handler
has read is still there (`ReadsHold`), for the schedule its vehicles
(`VehiclesRead`); that there are stops to read takes the stored rows being accepted
ones (`ServingInv`, below). So each of the internal errors that can occur with several
handlers is a race.

**`GeneratedDaysAreQuiet`**, **`PassengersNeverWaitLonger`** and
**`GeneratedPathsStayValid`**: under `OneHandler` and `RowsAreRows`, `GenSpec`
implies `GeneratedDayIsConflictFree`, `PassengersWaitAtMostTheInterval` and
`[]StoredPathsAreValid`, for any sequence of schedules and other requests. What the
generator checks and what it stores are different things, and the proof is
that the difference does not matter:

1. A candidate is compared at the end of the list (`LastInList`) and stored under
   the next free key. Ids decide ties of the sorts and say which intervals belong
   together, so the detectors might tell the two apart. `QuietRenamed`: they do
   not, as long as either id is greater than all others, and they are
   (`KeysInUse`).
2. The keys reserved suffice: every trip placed had a departure of its own among
   those `KeysFor` counts (`Placed`, `TripPlaced`). This is an argument about the
   bound of the model, not about the code; without it keys might run into those
   of the next request.
3. The rows of a trip are read back as the trip that was checked, and are rows the
   write endpoints would accept (`TripReadsBack`), although the generator never
   shows its path to the validator (`RoundTripAccepted`).
4. The timetable is the one the generator has read, as nobody else writes.

The inductive invariant `DayInv` is `AloneInv` with `ServingInv` (every stored row
is an accepted one under a key drawn before, and what that takes of a handler at
work) and `Generating` (the timetable read is the one stored, the trips placed are
the generator's own under consecutive keys, and both together are `Quiet`, with
the candidate as well once it is checked). `GeneratedDayIsConflictFree` alone is not
inductive: at the commit it is about rows, and only `DayPlanned` ties those to the
list that was checked. `FinishStores` puts them together: what is stored after the
commit is `committed_snapshots`.

**`ChargingStopsAtMax`**, **`StoredBatteryIsRead`**: `GenSpec` implies `ChargeIsCapped`
under `OneHandler`, `RowsAreRows` and `SchedulesAreAhead`, and
`StoredBatteryIsLedgerLevel` under `OneHandler`, `RowsAreRows` and `ForwardPayloads`.
The generator reads a level when the vehicle comes to stand, computes from it the
charge of a later slot, and enters the charge just before that slot, into a ledger
that may hold consumptions on either side of all three instants.

1. `ChargeInv` is `DayInv` with three additions. `BookOK`: adjustments are never in
   the future, services only consume, amounts are whole hundredths, and events bear
   keys drawn before. `LevelRead`: what a handler has read of ledger and blocks is
   still so. `Charging`: the ledger with the plan's events (`Ledger`) is as orderly
   (`PlanCharged`), and the level of the idle start and that of the slot
   are what it says (`IdleRead`, `SlotRead`).
2. A charge fits. It is computed for a slot not before the idle start, between which
   nothing is added: what was charged was charged before the idle start (`CurrentOK`),
   and what was adjusted, before the schedule (`SchedulesAreAhead`). So the level at
   the slot is at most the one at the idle start, for which the charge has room
   (`ChargeFills`); rounding it to hundredths does not pass the maximum, as that is
   itself in hundredths (`SumInHundredths`). `TripEntered` says what the rows of a trip
   add to every vehicle at every instant, `InsertCharged` that no level then passes
   the maximum (`CappedSoFar`). The step that is not obvious is that levels *after* the
   charge also stay within it, with the consumptions entered by hand for later: they
   only lower it.
3. The level stored with a trip is the one before its start in the final ledger: the
   rows of later trips of the vehicle lie at or after their slot less one, which is
   after that start, and those of other vehicles do not count (`Untouched`). The rows
   of the trip itself are its charge, which it was told of up to rounding
   (`StoredWithin`), and its consumption, which is at its end.
4. A write endpoint reads the level without the events it has wiped. `WipedInv` says
   that a handler which creates has wiped none, so that what a PUT takes from the
   ledger is what it has left out of the sum (`CommitStoresRead`).

**`GeneratedLedgersMatch`**, **`GeneratedLevelsAgree`**: `GenSpec` implies
`[]LedgerMatchesTimetable` and `[]ShownLevelIsLedgerLevel` under `OneHandler`,
`RowsAreRows` and `EndsStay`. The theorems on `Spec` leave out requests that move a
service to another vehicle or retime a block; here both are made, schedules are
generated in between, and what is asked instead is that one request is served at a
time. `KeptInv` is `ChargeInv` and `WipedInv` with `MatchInv`:

1. `BookMatches` is `LedgerMatchesTimetable` with what it takes to keep it: only
   consume events name a service (`ServicesConsume`), which the cascade, the PUT and
   the removal of a vehicle rely on, and every stored path ends on a stop if blocks
   may be retimed (`EndsOnStop`), a round trip because it ends in the yard.
2. `WriteExact` says that a PUT has deleted all consume events of its service when it
   commits, or none if it does not emit one, and that the key of a create is free.
   `MatchHandled` goes through the handlers with it.
3. `PlanMatches` says the same of a schedule in the making: of the rows it has
   flushed exactly one names each of its trips, and none any other service.
   `InsertMatches` adds a trip, under a key no earlier trip has; `FinishMatches` turns
   the plan into the tables. The event was computed from the trip as it was placed, the
   property speaks of the rows stored, and `TripReadsBack` with `ConsumeDelta` makes
   them one.
4. The display then follows by the lemma of `ShownLevelsAgree` (`ShownAsLedger`), of
   which `KeptRows` and `BookOK` are the other hypotheses.

**The readers.** **`OneTaskUsesTheSession`** (`ReadGatewayProofs`):
`ReadSpec => []SessionUsedByOne`. `GatewayInv`: the field that holds the lock is
the one that is running (`LockHeld`), a field with a statement under way is
running and not at its loader (`FieldsUseSession`), and the loader works only
while the running field waits for it (`LoaderServes`). This is why the loader may
go without the lock that would deadlock it.

**`ReadersSeeNoOverlap`**, **`ScheduleIsInRunningOrder`**: `ReadSpec` implies
`[]NoReaderSeesAnOverlap` and `[]ScheduleInRunningOrder`, under `OrdinaryRequests` and
`AscendingRequests`. A reader has the services as of one moment, their stops as of a
later one, the block times as of a third. The invariant `ReadersInv` is `GatewayInv`
and `OverlapInv` with what is true in between: after the first statement the rows have
their vehicles, which never change (`RowsSelected`); after the second their stops are
what was stored *then*, or none, if the service was deleted, and so free of overlap
whatever is committed later (`RowsConsistent`). A service of which there are no stops
is nowhere. Rows like these are services one after another (`ConsistentRowsFollow`), so
there is no overlap to report (`ConsistentConflicts`) and each vehicle is shown once
(`ConsistentPositions`, by `ShownInOnePlace`); and the first departure orders them as
their starts do (`FirstDeparture`, `ListedAsDriven`).

**The registry** (`VehicleRegistryProofs`), all for `RegistrySpec` without further
hypotheses, from `RegInv` (handlers run only while the server is up at schema 2,
each with a request its label belongs to, and request numbers, which are ids,
are fresh): **`NamesStayUnique`** (the unique constraint at flush and commit; the
early check plays no part), **`VehiclesHaveOneBaseline`** (with `BaselineInv`: the
baselines of a stored vehicle are one event, those of others none),
**`NameConflictsAreConflicts`**, **`StartsKeepTraversalTimes`**,
**`MigrationsPreserveLevels`**: with `LevelInv` (at the schema without a ledger levels
are percents within the CHECK) and `BaselineInv` (at the one with a ledger a vehicle's
events are one), a migration up turns a level into one event of the nearest
hundredth (`RoundedLevel`), a migration down sums it up again (`SumOfOneEvent`), and
no vehicle is left with the empty ledger that would restore as full.

**Only model-checked:**

* liveness (`EveryRequestAnswered`, `EveryFieldAnswered`): fairness and ENABLED are
  beyond the prover.

## 5. Not modelled, and the plan

Not modelled, and why:

* the error envelope (`errors.py`) and the response schemas: layout, after the
  handler has ended;
* the three GraphQL loaders no resolver calls, and the filters of the fields
  `vehicles` and `services`;
* of the migrations 0001 (creates or drops everything) and the departure
  batteries that 0002 fills in for stored services: the registry has no
  timetable;
* GET of one service or vehicle: one row read in one statement;
* SQLAlchemy's identity map beyond the rows a handler keeps (`loaded`); a lost
  connection, which is a rollback (`Refuse`) or, at the commit, a crash;
* several servers started at once (their seeding is one statement, ON CONFLICT
  DO NOTHING); container files, CI and tests.

Done, in this order: the pure functions; `ServiceWrites`, `VehicleTimeline` and
their theorems; `ScheduleGenerator` and `Positions`; `ReadGateway`;
`VehicleRegistry`; proofs of references, lock, refinement, generator loop,
session and registry; proofs of paths, ledger, days and departure battery, of the
lone handler, of the pure functions, and of the generated day; sums, what readers are
shown, and the agreement of display and ledger; the charges, stored levels and
ledgers of generated days.

Left: the timetable in the registry, for what 0002 does to services older than it.
