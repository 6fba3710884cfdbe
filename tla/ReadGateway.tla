----------------------------- MODULE ReadGateway -----------------------------
(***************************************************************************)
(* A request that reads, beside the handlers of ServiceWrites that write.  *)
(*                                                                         *)
(* POST /graphql (app/graphql): the fields of a request are tasks of one   *)
(* event loop that share one AsyncSession, which two tasks must not use at *)
(* the same time, and one asyncio.Lock; the DataLoader of battery levels is*)
(* a task of its own.  A field holds the lock from its first statement to  *)
(* its answer.  The GET endpoints of routers/schedule.py, topology.py,     *)
(* blocks.py and vehicles.py run the same statements, as a request of one  *)
(* field.                                                                  *)
(*                                                                         *)
(* A statement on the session is two steps, the call and its return: other *)
(* tasks, and other transactions, run in between.  Every request has a     *)
(* session and loaders of its own, so one request is modelled.  ORM rows   *)
(* live as long as the resolver that read them (the session refers to them *)
(* weakly), so every field reads them anew.                                *)
(***************************************************************************)
EXTENDS TimetableReads

CONSTANTS
  Queries,  \* the requests: sequences of fields
  At        \* the instant positions are asked for

\* list_vehicles is GET /vehicles, which reads levels without the loader.
Fields == {"vehicles", "list_vehicles", "services", "schedule", "conflicts", "blocks",
           "topology", "positions"}

ASSUME GatewayAssumption ==
  Queries \subseteq Seq(Fields) /\ At \in Nat /\ Vehicle \subseteq Nat

VARIABLES
  query,    \* the fields of the request
  db_lock,  \* the field that holds the lock, or None
  at,       \* per field: the statement it is at, 0 before it has begun, one past its
            \* last when it is answered
  calls,    \* the tasks that have a statement under way on the session
  read,     \* per field: what its statements have returned
  pending,  \* vehicles handed to the loader of levels
  loader,   \* the loader's cache: level per vehicle
  answers   \* per field: its answer, once it is there

gateway == <<query, db_lock, at, calls, read, pending, loader, answers>>

NothingRead == [vehicles |-> {}, levels |-> << >>, rows |-> << >>, traversal |-> None]

\* The statements of a field.  "levels" and "base" are one statement per vehicle.
Statements(field) ==
  CASE field = "vehicles"                -> <<"vehicles", "load_levels">>
    [] field = "list_vehicles"           -> <<"vehicles", "levels">>
    [] field \in {"services", "schedule"} -> <<"services", "stops">>
    [] field = "conflicts"               -> <<"services", "stops", "traversal">>
    [] field \in {"blocks", "topology"}   -> <<"traversal">>
    [] field = "positions" -> <<"vehicles", "base", "services", "stops", "traversal">>

Loader == 0

Task == DOMAIN query \cup {Loader}

\* Mutated form: the resolvers take no lock.
TakesLockNone(task) == task \notin Task

\* Mutated form: the loader takes the lock as well.
TakesLockAll(task) == task \in Task

\* The resolvers run under the lock; the loader runs under the lock of the resolver
\* that waits for it.
TakesLock(task) == task # Loader

GatewayInit ==
  /\ query \in Queries
  /\ db_lock = None
  /\ at = [i \in DOMAIN query |-> 0]
  /\ calls = {}
  /\ read = [i \in DOMAIN query |-> NothingRead]
  /\ pending = {}
  /\ loader = << >>
  /\ answers = [i \in DOMAIN query |-> None]

Answered(i) == at[i] > Len(Statements(query[i]))

Running(i) == at[i] # 0 /\ ~Answered(i)

Statement(i) == Statements(query[i])[at[i]]

\* The fields start in the order of the request, and the lock serves them in it.
StartField(i) ==
  /\ at[i] = 0 /\ \A j \in 1 .. i - 1 : at[j] # 0
  /\ TakesLock(i) => db_lock = None
  /\ db_lock' = IF TakesLock(i) THEN i ELSE db_lock
  /\ at' = [at EXCEPT ![i] = 1]
  /\ UNCHANGED <<query, calls, read, pending, loader, answers>>

Call(i) ==
  /\ Running(i) /\ i \notin calls /\ Statement(i) # "load_levels"
  /\ calls' = calls \cup {i}
  /\ UNCHANGED <<query, db_lock, at, read, pending, loader, answers>>
-----------------------------------------------------------------------------
(* What statements return and fields answer *)

\* The levels with that of one vehicle more.
WithLevel(levels, v, level) ==
  [w \in DOMAIN levels \cup {v} |-> IF w = v THEN level ELSE levels[w]]

\* Vehicles whose level has not been read yet, one after the other by id.
ToRead(i) == read[i].vehicles \ DOMAIN read[i].levels

LevelRead(i, v) ==
  IF Statement(i) = "base" THEN non_service_battery(events, v) ELSE current_battery(events, v)

\* Mutated form: rows an earlier field has read are kept in the session and found again.
StopsReadKept(i) ==
  LET Earlier(s) == {j \in 1 .. i - 1 : query[j] = "services" /\ s \in DOMAIN answers[j]}
  IN  [s \in DOMAIN read[i].rows |->
         IF Earlier(s) # {} THEN answers[Min(Earlier(s))][s] ELSE SelectStops(read[i].rows)[s]]

\* The rows of the services with their stops.
StopsRead(i) == SelectStops(read[i].rows)

\* What a field knows once the statement under way has returned.
Returned(i) ==
  CASE Statement(i) = "vehicles" -> [read[i] EXCEPT !.vehicles = vehicles]
    [] Statement(i) \in {"base", "levels"} ->
         IF ToRead(i) = {} THEN read[i]
         ELSE LET v == Min(ToRead(i))
              IN  [read[i] EXCEPT !.levels = WithLevel(@, v, LevelRead(i, v))]
    [] Statement(i) = "services" -> [read[i] EXCEPT !.rows = SelectServices]
    [] Statement(i) = "stops" -> [read[i] EXCEPT !.rows = StopsRead(i)]
    [] Statement(i) = "traversal" -> [read[i] EXCEPT !.traversal = block_configs]

FAR_PAST == -1

\* Mutated form: no departure is looked for.
first_departure_none(row) == IF row.stops = << >> THEN FAR_PAST ELSE 0

\* The departure from the first stop that has one.
first_departure(row) ==
  LET departing == {i \in DOMAIN row.stops : row.stops[i].stop.departure_time # None}
  IN  IF departing = {} THEN FAR_PAST ELSE row.stops[Min(departing)].stop.departure_time

\* The order of the sorted list: sorted is stable, and the rows come by id.
ListedBefore(rows, r, s) ==
  \/ first_departure(rows[r]) < first_departure(rows[s])
  \/ first_departure(rows[r]) = first_departure(rows[s]) /\ r < s

\* The n-th row listed is the one that n - 1 others are listed before.
get_schedule(rows) ==
  LET Ahead(s) == {r \in DOMAIN rows : ListedBefore(rows, r, s)}
  IN  [n \in 1 .. Cardinality(DOMAIN rows) |->
         CHOOSE s \in DOMAIN rows : Cardinality(Ahead(s)) = n - 1]

BlockInfo(b, seconds) ==
  [traversal_seconds |-> seconds, interlocking_group |-> interlocking_group_for(b),
   bidirectional |-> b \in BIDIRECTIONAL_BLOCKS]

\* The blocks with a configuration, and all blocks of the topology.
blocks(got)   == [b \in DOMAIN got.traversal |-> BlockInfo(b, got.traversal[b])]
topology(got) == [b \in BLOCKS |-> BlockInfo(b, TraversalSeconds(b, got.traversal))]

schedule(got) == [rows |-> got.rows, order |-> get_schedule(got.rows)]

conflicts(got) == detect_all_conflicts(build_snapshots(got.rows, got.traversal))

positions(got) ==
  compute_positions_at(At, got.levels, build_snapshots(got.rows, got.traversal), "strict")

AnswerOf(field, got) ==
  CASE field \in {"vehicles", "list_vehicles"} -> got.levels
    [] field = "services"  -> got.rows
    [] field = "schedule"  -> schedule(got)
    [] field = "conflicts" -> conflicts(got)
    [] field = "blocks"    -> blocks(got)
    [] field = "topology"  -> topology(got)
    [] field = "positions" -> positions(got)

\* The field goes on with what it got: to its next statement, or to its answer, with
\* which it releases the lock.
GoOn(i, got) ==
  /\ at' = [at EXCEPT ![i] = @ + 1]
  /\ IF at[i] < Len(Statements(query[i]))
       THEN /\ read' = [read EXCEPT ![i] = got]
            /\ UNCHANGED <<db_lock, answers>>
       ELSE /\ answers' = [answers EXCEPT ![i] = AnswerOf(query[i], got)]
            /\ read' = [read EXCEPT ![i] = NothingRead]
            /\ db_lock' = IF db_lock = i THEN None ELSE db_lock

\* A statement returns what is committed then; the levels are read one by one.
Return(i) ==
  /\ i \in calls
  /\ calls' = calls \ {i}
  /\ IF Statement(i) \in {"base", "levels"} /\ Cardinality(ToRead(i)) > 1
       THEN /\ read' = [read EXCEPT ![i] = Returned(i)]
            /\ UNCHANGED <<db_lock, at, answers>>
       ELSE \E got \in {Returned(i)} : GoOn(i, got)
  /\ UNCHANGED <<query, pending, loader>>
-----------------------------------------------------------------------------
(* The loader of battery levels *)

\* load_many: the levels not in the cache are left to the loader.
LoadMany(i) ==
  LET missing == read[i].vehicles \ DOMAIN loader
  IN  /\ Running(i) /\ Statement(i) = "load_levels"
      /\ ~(missing \subseteq pending)
      /\ pending' = pending \cup missing
      /\ UNCHANGED <<query, db_lock, at, calls, read, loader, answers>>

LoaderCall ==
  /\ pending # {} /\ Loader \notin calls
  /\ TakesLock(Loader) => db_lock = None
  /\ calls' = calls \cup {Loader}
  /\ UNCHANGED <<query, db_lock, at, read, pending, loader, answers>>

LoaderReturn ==
  /\ Loader \in calls
  /\ calls' = calls \ {Loader}
  /\ LET v == Min(pending)
     IN  /\ loader' = WithLevel(loader, v, current_battery(events, v))
         /\ pending' = pending \ {v}
  /\ UNCHANGED <<query, db_lock, at, read, answers>>

\* All levels are there, read now or for an earlier field.
LevelsLoaded(i) ==
  /\ Running(i) /\ Statement(i) = "load_levels"
  /\ read[i].vehicles \subseteq DOMAIN loader
  /\ GoOn(i, [read[i] EXCEPT !.levels = [v \in read[i].vehicles |-> loader[v]]])
  /\ UNCHANGED <<query, calls, pending, loader>>
-----------------------------------------------------------------------------
GatewayStep ==
  \/ \E i \in DOMAIN query : StartField(i) \/ Call(i) \/ Return(i) \/ LoadMany(i) \/ LevelsLoaded(i)
  \/ LoaderCall \/ LoaderReturn

ReadInit == Init /\ GatewayInit

ReadNext ==
  \/ GatewayStep /\ UNCHANGED vars
  \/ Next /\ UNCHANGED gateway

\* The event loop runs a task that can go on; no handler need ever write.
ReadSpec == ReadInit /\ [][ReadNext]_<<vars, gateway>>
              /\ WF_<<vars, gateway>>(GatewayStep /\ UNCHANGED vars)
-----------------------------------------------------------------------------
(* Properties *)

\* The session serves one task at a time, the resolver that holds the lock or the
\* loader it waits for (router.py: an AsyncSession is not safe for concurrent use).
SessionUsedByOne == Cardinality(calls) <= 1

\* Every field of every request is answered: no resolver waits for a lock or a loader
\* that waits for it.
EveryFieldAnswered == <>(\A i \in DOMAIN query : Answered(i))

\* What is read statement by statement while a timetable is rewritten need never have
\* been stored; still no reader is shown a vehicle in two places, unless services
\* change vehicles, blocks their traversal times, or a payload arrives at a stop before
\* it has left the node in front: conflicts reports no overlap, positions shows each
\* vehicle once.
NoReaderSeesAnOverlap ==
  \A i \in DOMAIN query : Answered(i) =>
    /\ query[i] = "conflicts" => \A c \in answers[i] : c.conflict_type # "vehicle_overlap"
    /\ query[i] = "positions" => \A v \in DOMAIN answers[i] : Cardinality(answers[i][v]) = 1

\* GET /schedule lists the services of a vehicle in the order it drives them, also
\* when the rows were read in part before a change and in part after it.
ScheduleInRunningOrder ==
  \A i \in DOMAIN query : query[i] = "schedule" /\ Answered(i) =>
    LET rows  == answers[i].rows
        order == answers[i].order
        snap  == [n \in DOMAIN order |-> SnapshotOf(order[n], rows[order[n]], InitialTraversal)]
    IN  \A m, n \in DOMAIN order :
          (/\ m < n /\ snap[m].vehicle_id = snap[n].vehicle_id
           /\ << >> \notin {snap[m].stops, snap[n].stops})
          => StartsBefore(snap[m], snap[n])
=============================================================================
