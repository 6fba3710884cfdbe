---------------------------- MODULE ServiceWrites ----------------------------
(***************************************************************************)
(* The write path of the scheduling service: the request handlers of       *)
(* routers/services.py, routers/vehicles.py and routers/blocks.py that     *)
(* change the timetable or the battery ledger, run by concurrent processes *)
(* against PostgreSQL at READ COMMITTED.                                   *)
(*                                                                         *)
(* Each process serves one request at a time, in one transaction, and its  *)
(* steps are the statements whose order another transaction can observe:   *)
(* what a SELECT returned, which row locks a statement took or waits for,  *)
(* and the commit, at which all rows written since the last SELECT appear. *)
(* Computation between two statements belongs to the step before or after. *)
(*                                                                         *)
(* Primary keys: a request inserts at most one service, one ledger event   *)
(* and one batch of stops, so its number (ticket) stands for the keys the  *)
(* database's sequences would give them.                                   *)
(***************************************************************************)
EXTENDS Battery, ConflictDetector, PathValidator, SequencesExt

CONSTANTS
  Proc,             \* handlers running at the same time
  Vehicle,          \* ids of the vehicles there are at the start
  Requests,         \* the requests clients may send
  MaxRequests,      \* bound: requests served in all
  Now,              \* the wall clock while they are served
  InitialTraversal  \* traversal_seconds of the configured blocks

CreateRequest(vehicle_id, stops) ==
  [op |-> "create", vehicle_id |-> vehicle_id, stops |-> stops]
UpdateRequest(service_id, vehicle_id, stops) ==
  [op |-> "update", service_id |-> service_id, vehicle_id |-> vehicle_id, stops |-> stops]
DeleteRequest(service_id) == [op |-> "delete", service_id |-> service_id]
AdjustRequest(vehicle_id, level) == [op |-> "adjust", vehicle_id |-> vehicle_id, level |-> level]
RemoveRequest(vehicle_id) == [op |-> "remove", vehicle_id |-> vehicle_id]
BlockRequest(block, seconds) == [op |-> "block", block |-> block, seconds |-> seconds]

ServiceId == 1 .. MaxRequests

\* What the request schemas let through: at least two stops, ascending sequences.
SchemaAccepts(stops) ==
  /\ stops \in Seq([sequence : Nat, node_id : STRING,
                    arrival_time : Nat \cup {None}, departure_time : Nat \cup {None}])
  /\ stops # None /\ Len(stops) >= 2
  /\ \A i, j \in DOMAIN stops : i < j => stops[i].sequence < stops[j].sequence

ASSUME ParametersAssumption ==
  /\ MaxRequests \in Nat
  /\ None \notin Vehicle /\ None \notin Proc /\ None \notin Nat
  /\ Now \in Nat
  /\ InitialTraversal \in [BLOCKS -> Nat \ {0}]  \* seeded when the program starts

ASSUME RequestsAssumption ==
  \A r \in Requests :
    \/ /\ r.op = "create" /\ r = CreateRequest(r.vehicle_id, r.stops)
       /\ r.vehicle_id \in Vehicle /\ SchemaAccepts(r.stops)
    \/ /\ r.op = "update" /\ r = UpdateRequest(r.service_id, r.vehicle_id, r.stops)
       /\ r.service_id \in ServiceId /\ r.vehicle_id \in Vehicle \cup {None}
       /\ r.stops = None \/ SchemaAccepts(r.stops)
    \/ /\ r.op = "delete" /\ r = DeleteRequest(r.service_id) /\ r.service_id \in ServiceId
    \/ /\ r.op = "adjust" /\ r = AdjustRequest(r.vehicle_id, r.level)
       /\ r.vehicle_id \in Vehicle /\ r.level \in 0 .. BATTERY_MAX
    \/ /\ r.op = "remove" /\ r = RemoveRequest(r.vehicle_id) /\ r.vehicle_id \in Vehicle
    \/ /\ r.op = "block" /\ r = BlockRequest(r.block, r.seconds)
       /\ r.block \in BLOCKS /\ r.seconds \in Nat \ {0}

VARIABLES
  vehicles,         \* table vehicles: the ids that exist
  services,         \* tables services and service_stops: a row or None per id
  events,           \* table battery_events
  block_configs,    \* table block_configs: block |-> traversal_seconds
  lock,             \* who holds a vehicle row FOR UPDATE
  wiped,            \* per process: consume events it deletes, not committed yet
  pc,               \* per process: the next statement of its handler
  req,              \* per process: its request
  ticket,           \* per process: the number of its request
  loaded,           \* per process: the service row it has loaded
  block_traversal,  \* per process: the traversal times it has read
  dep_battery,      \* per process: the battery level it has read
  reply,            \* per process: the status of its last answer
  begun             \* requests begun so far

tables  == <<vehicles, services, events, block_configs>>
reads   == <<loaded, block_traversal, dep_battery>>
request == <<req, ticket, begun>>
vars    == <<tables, lock, wiped, pc, request, reads, reply>>
-----------------------------------------------------------------------------
(* Rows *)

\* The rows of service_stops a request inserts, in order: batch and index are the
\* primary key.
StopRows(batch, stops) == [i \in DOMAIN stops |-> [batch |-> batch, stop |-> stops[i]]]

\* The stops of a service row.
StopsIn(row) == [i \in DOMAIN row.stops |-> row.stops[i].stop]

Live == {s \in ServiceId : services[s] # None}

SnapshotOf(s, row, traversal) ==
  [service_id |-> s, vehicle_id |-> row.vehicle_id,
   stops |-> SnapshotStops(StopsIn(row), traversal),
   departure_battery |-> row.departure_battery]

ConsumeEvents(s) == {e \in events : e.event_type = "SERVICE_CONSUME" /\ e.service_id = s}
-----------------------------------------------------------------------------
(* What a handler computes from its request and its reads *)

Creating(p) == req[p].op = "create"

\* Mutated form: the id is taken before the flush has assigned one.
WrittenPlaceholder(p) == IF Creating(p) THEN 0 ELSE req[p].service_id

\* The service a create or an update writes.
Written(p) == IF Creating(p) THEN ticket[p] ELSE req[p].service_id

TargetVehicle(p) == IF req[p].vehicle_id # None THEN req[p].vehicle_id ELSE loaded[p].vehicle_id

Reassigning(p) ==
  /\ req[p].op = "update"
  /\ req[p].vehicle_id # None /\ req[p].vehicle_id # loaded[p].vehicle_id

\* The update touches what the timetable check depends on.
Rechecked(p) == req[p].stops # None \/ Reassigning(p)

StopsForCheck(p) == IF req[p].stops # None THEN req[p].stops ELSE StopsIn(loaded[p])

StopTuples(p) == _compute_stop_tuples(StopsForCheck(p), block_traversal[p])

\* Mutated form: the path is not validated.
PayloadErrorsTiming(stops) == IF stops = None THEN FALSE ELSE _timing_errors(stops) # {}

\* The payload is answered with 422.
PayloadErrors(stops) ==
  IF stops = None THEN FALSE
  ELSE validate_path(NodesOf(stops)) # {} \/ _timing_errors(stops) # {}

Candidate(p) ==
  [service_id |-> Written(p), vehicle_id |-> TargetVehicle(p), stops |-> StopTuples(p),
   departure_battery |-> IF ~Creating(p) /\ dep_battery[p] = 0 THEN BATTERY_INITIAL
                         ELSE dep_battery[p]]

\* Mutated form: overlaps alone.
WriteTimeOverlapOnly == {"vehicle_overlap"}

WRITE_TIME_CONFLICTS == {"vehicle_overlap", "vehicle_discontinuity"}

\* What _load_vehicle_services returns: the vehicle's services but the one written.
Siblings(p) ==
  {s \in Live : services[s].vehicle_id = TargetVehicle(p) /\ s # Written(p)}

\* The conflicts _raise_if_vehicle_conflict refuses the write for.
WriteConflicts(p) ==
  LET snapshots == {SnapshotOf(s, services[s], block_configs) : s \in Siblings(p)}
                     \cup {Candidate(p)}
  IN  {c \in detect_all_conflicts(snapshots) : c.conflict_type \in WRITE_TIME_CONFLICTS}
-----------------------------------------------------------------------------
(* Row locks *)

\* Mutated form: SELECT without FOR UPDATE.
VehicleRowFreeAlways(v) == v \in Vehicle

\* Nobody holds the vehicle's row FOR UPDATE.
VehicleRowFree(v) == lock[v] = None

\* The ledger rows a process has deleted and not committed; while it waits for
\* another's it has not got them yet.
Wiped(p) == IF pc[p] = "wipe_wait" THEN {} ELSE wiped[p]

WipedByOthers(p) == UNION {Wiped(q) : q \in Proc \ {p}}

\* Another process has deleted the service's row and not committed.
RowBeingDeleted(p, s) ==
  \E q \in Proc \ {p} : pc[q] = "cascade" /\ req[q].service_id = s

\* p waits for q's row of services, q for a ledger row of p.
WaitsInCircle(p, q) ==
  /\ pc[p] = "commit" /\ pc[q] = "cascade"
  /\ req[p].op = "update" /\ req[p].service_id = req[q].service_id
  /\ \E e \in Wiped(p) : e.service_id = req[q].service_id
-----------------------------------------------------------------------------
Init ==
  /\ vehicles = Vehicle
  /\ services = [s \in ServiceId |-> None]
  /\ events = {emit_baseline(v, BATTERY_INITIAL) : v \in Vehicle}
  /\ block_configs = InitialTraversal
  /\ lock = [v \in Vehicle |-> None]
  /\ wiped = [p \in Proc |-> {}]
  /\ pc = [p \in Proc |-> "idle"]
  /\ req = [p \in Proc |-> None]
  /\ ticket = [p \in Proc |-> 0]
  /\ loaded = [p \in Proc |-> None]
  /\ block_traversal = [p \in Proc |-> None]
  /\ dep_battery = [p \in Proc |-> None]
  /\ reply = [p \in Proc |-> 0]
  /\ begun = 0

Goto(p, label) == pc' = [pc EXCEPT ![p] = label]

\* The vehicle rows still locked once a process's transaction has ended.
LocksWithout(p) == [v \in Vehicle |-> IF lock[v] = p THEN None ELSE lock[v]]

\* Mutated form: the session is left open, the vehicle's row locked.
EndTransactionOpen(p) ==
  /\ lock' = lock
  /\ wiped' = [wiped EXCEPT ![p] = {}]

\* The transaction ends (committed or rolled back) and with it every lock.
EndTransaction(p) ==
  /\ lock' = LocksWithout(p)
  /\ wiped' = [wiped EXCEPT ![p] = {}]

\* The request is answered; the session's copies are gone.
Answer(p, status) ==
  /\ EndTransaction(p)
  /\ Goto(p, "idle")
  /\ reply' = [reply EXCEPT ![p] = status]
  /\ req' = [req EXCEPT ![p] = None]
  /\ ticket' = [ticket EXCEPT ![p] = 0]
  /\ loaded' = [loaded EXCEPT ![p] = None]
  /\ block_traversal' = [block_traversal EXCEPT ![p] = None]
  /\ dep_battery' = [dep_battery EXCEPT ![p] = None]
  /\ UNCHANGED begun

\* An answer without any write: the transaction is rolled back.
Refuse(p, status) == Answer(p, status) /\ UNCHANGED tables

FirstStatement(op) ==
  CASE op = "create" -> "lock"
    [] op \in {"update", "delete"} -> "load"
    [] op = "adjust" -> "read_level"
    [] op = "remove" -> "count"
    [] op = "block" -> "block"

\* A client's request arrives at an idle handler.
Begin(p) ==
  /\ pc[p] = "idle" /\ begun < MaxRequests
  /\ begun' = begun + 1
  /\ ticket' = [ticket EXCEPT ![p] = begun + 1]
  /\ \E r \in Requests : /\ req' = [req EXCEPT ![p] = r]
                         /\ Goto(p, FirstStatement(r.op))
  /\ reply' = [reply EXCEPT ![p] = 0]
  /\ UNCHANGED <<tables, lock, wiped, reads>>
-----------------------------------------------------------------------------
(* create_service and update_service *)

\* _load_service at the start of PUT and DELETE /services/{id}: the SELECT of the row.
\* A DELETE has no use for the stops it goes on to load.
LoadService(p) ==
  /\ pc[p] = "load"
  /\ LET row == services[req[p].service_id]
     IN  IF row = None THEN Refuse(p, 404)
         ELSE /\ loaded' = [loaded EXCEPT ![p] = [row EXCEPT !.stops = << >>]]
              /\ Goto(p, IF req[p].op = "delete" THEN "delete" ELSE "load_stops")
              /\ UNCHANGED <<tables, lock, wiped, request, block_traversal, dep_battery, reply>>

\* The stops there are of a service: none once it is gone.
StoredStops(s) == IF services[s] = None THEN << >> ELSE services[s].stops

\* selectinload: the stops are read by a SELECT of their own, which sees what has been
\* committed since the row was read.
LoadStops(p) ==
  /\ pc[p] = "load_stops"
  /\ loaded' = [loaded EXCEPT ![p] = [@ EXCEPT !.stops = StoredStops(req[p].service_id)]]
  /\ Goto(p, "lock")
  /\ UNCHANGED <<tables, lock, wiped, request, block_traversal, dep_battery, reply>>

\* _lock_vehicle: SELECT ... FOR UPDATE waits for the row, or finds none; then the
\* payload is validated.
LockVehicle(p) ==
  LET v == TargetVehicle(p)
  IN  /\ pc[p] = "lock"
      /\ VehicleRowFree(v)
      /\ \/ v \notin vehicles /\ Refuse(p, 404)
         \/ v \in vehicles /\ PayloadErrors(req[p].stops) /\ Refuse(p, 422)
         \/ /\ v \in vehicles /\ ~PayloadErrors(req[p].stops)
            /\ lock' = [lock EXCEPT ![v] = p]
            /\ Goto(p, "traversal")
            /\ UNCHANGED <<tables, wiped, request, reads, reply>>

\* get_block_traversal.  An update that leaves stops and vehicle alone goes on to
\* its commit.
ReadTraversal(p) ==
  /\ pc[p] = "traversal"
  /\ block_traversal' = [block_traversal EXCEPT ![p] = block_configs]
  /\ Goto(p, IF Creating(p) THEN "battery" ELSE IF Rechecked(p) THEN "wipe" ELSE "commit")
  /\ UNCHANGED <<tables, lock, wiped, request, loaded, dep_battery, reply>>

\* Mutated form: the consume events are looked up by the target vehicle.
EventsToWipeOfTarget(p) ==
  {e \in ConsumeEvents(req[p].service_id) : e.vehicle_id = TargetVehicle(p)}

\* The events the DELETE of update_service finds: the consume events of the service.
EventsToWipe(p) == ConsumeEvents(req[p].service_id)

\* The DELETE locks the rows it finds, or waits for another transaction that has
\* deleted one of them.
WipeConsume(p) ==
  /\ pc[p] = "wipe"
  /\ wiped' = [wiped EXCEPT ![p] = EventsToWipe(p)]
  /\ Goto(p, IF EventsToWipe(p) \cap WipedByOthers(p) = {} THEN "battery" ELSE "wipe_wait")
  /\ UNCHANGED <<tables, lock, request, reads, reply>>

\* The other transaction has ended: the DELETE goes on with the rows it found that
\* still exist, not with rows inserted since it began.
ResumeWipe(p) ==
  /\ pc[p] = "wipe_wait"
  /\ wiped[p] \cap WipedByOthers(p) = {}
  /\ wiped' = [wiped EXCEPT ![p] = @ \cap events]
  /\ Goto(p, "battery")
  /\ UNCHANGED <<tables, lock, request, reads, reply>>

\* battery_before the service's start, its own consume events deleted.  A service
\* deleted before its stops were loaded has no start (IndexError).
ReadBattery(p) ==
  /\ pc[p] = "battery"
  /\ \/ StopTuples(p) = << >> /\ Refuse(p, 500)
     \/ /\ StopTuples(p) # << >>
        /\ dep_battery' = [dep_battery EXCEPT ![p] =
             battery_before(events \ wiped[p], TargetVehicle(p), _service_start(StopTuples(p)))]
        /\ Goto(p, "siblings")
        /\ UNCHANGED <<tables, lock, wiped, request, loaded, block_traversal, reply>>

\* _raise_if_vehicle_conflict.  Its three SELECTs are one step: the vehicle's row is
\* locked, so no sibling joins between them.  One that leaves, deleted or given to
\* another vehicle, may still be counted: an overlap is not missed for that, but one
\* that is moved and retimed at once may fill a gap it is no longer in.
CheckSiblings(p) ==
  /\ pc[p] = "siblings"
  /\ \/ WriteConflicts(p) # {} /\ Refuse(p, 409)
     \/ /\ WriteConflicts(p) = {}
        /\ Goto(p, "commit")
        /\ UNCHANGED <<tables, lock, wiped, request, reads, reply>>

\* The SERVICE_CONSUME event of the service being written.
NewConsumeEvent(p) ==
  emit_service_consume(ticket[p], TargetVehicle(p), Written(p),
    _service_end(StopTuples(p)), service_consume_delta(StopTuples(p)))

CommitCreate(p) ==
  /\ pc[p] = "commit" /\ Creating(p)
  /\ services' = [services EXCEPT ![ticket[p]] =
       [vehicle_id |-> req[p].vehicle_id, stops |-> StopRows(ticket[p], req[p].stops),
        departure_battery |-> dep_battery[p]]]
  /\ events' = events \cup {NewConsumeEvent(p)}
  /\ EndTransaction(p)
  /\ Goto(p, "reload")
  /\ UNCHANGED <<vehicles, block_configs, request, reads, reply>>

\* Mutated form: the rows to delete are not flushed before the new ones.
RowsKeptAll(p) == Range(services[req[p].service_id].stops)

\* The stop rows of the service that an update does not delete: it deletes the rows
\* it loaded, by primary key.
RowsKept(p) == Range(services[req[p].service_id].stops) \ Range(loaded[p].stops)

\* Mutated form: the table lacks the unique constraint on (service_id, sequence).
SequenceClashNever(p) == req[p].stops # None /\ RowsKept(p) # RowsKept(p)

\* uq_service_stop_seq: a row to insert has the sequence of a row that stays.
SequenceClash(p) ==
  /\ req[p].stops # None
  /\ \E r \in RowsKept(p), i \in DOMAIN req[p].stops : r.stop.sequence = req[p].stops[i].sequence

\* Service.stops after the update, in the order of their sequences.
StopsAfterUpdate(p) ==
  LET current  == services[req[p].service_id].stops
      inserted == StopRows(ticket[p], req[p].stops)
      Kept(r)  == r \in RowsKept(p)
  IN  IF req[p].stops = None THEN current
      ELSE IF RowsKept(p) = {} THEN inserted
      ELSE SortSeq(SelectSeq(current, Kept) \o inserted,
                   LAMBDA a, b : a.stop.sequence < b.stop.sequence)

\* The row after the commit.  Only attributes the session changed are written: the
\* vehicle of a reassignment, a battery level other than the one loaded.
UpdatedRow(p) ==
  LET row == services[req[p].service_id]
  IN  [vehicle_id |-> IF Reassigning(p) THEN TargetVehicle(p) ELSE row.vehicle_id,
       stops |-> StopsAfterUpdate(p),
       departure_battery |->
         IF Rechecked(p) /\ dep_battery[p] # loaded[p].departure_battery
           THEN dep_battery[p] ELSE row.departure_battery]

\* The flushes and the commit of update_service.  They wait for a transaction that
\* is deleting the service's row, and fail (500) if the row is gone or a stop's
\* sequence is taken.
CommitUpdate(p) ==
  LET s == req[p].service_id
  IN  /\ pc[p] = "commit" /\ req[p].op = "update"
      /\ ~RowBeingDeleted(p, s)
      /\ \/ services[s] = None /\ Refuse(p, 500)
         \/ services[s] # None /\ SequenceClash(p) /\ Refuse(p, 500)
         \/ /\ services[s] # None /\ ~SequenceClash(p)
            /\ services' = [services EXCEPT ![s] = UpdatedRow(p)]
            /\ events' = (events \ wiped[p])
                           \cup (IF Rechecked(p) THEN {NewConsumeEvent(p)} ELSE {})
            /\ EndTransaction(p)
            /\ Goto(p, "reload")
            /\ UNCHANGED <<vehicles, block_configs, request, reads, reply>>

\* The reply is read back in a new transaction, where the service may be gone again.
ReloadService(p) ==
  /\ pc[p] = "reload"
  /\ Refuse(p, IF services[Written(p)] = None THEN 404 ELSE IF Creating(p) THEN 201 ELSE 200)
-----------------------------------------------------------------------------
(* delete_service *)

\* DELETE FROM services takes the row, or finds it gone, which is no error.
DeleteServiceRow(p) ==
  LET s == req[p].service_id
  IN  /\ pc[p] = "delete"
      /\ ~RowBeingDeleted(p, s)
      /\ \/ services[s] = None /\ Refuse(p, 204)
         \/ /\ services[s] # None
            /\ Goto(p, "cascade")
            /\ UNCHANGED <<tables, lock, wiped, request, reads, reply>>

\* Mutated form: the foreign key of battery_events does not cascade.
CascadedEventsNone(s) == {e \in events : e.service_id = s /\ e.event_type = "MANUAL_ADJUST"}

\* ON DELETE CASCADE: the ledger rows of a service.
CascadedEvents(s) == {e \in events : e.service_id = s}

\* The cascade waits for ledger rows another transaction has deleted; then it commits.
CascadeAndCommit(p) ==
  LET s == req[p].service_id
  IN  /\ pc[p] = "cascade"
      /\ CascadedEvents(s) \cap WipedByOthers(p) = {}
      /\ services' = [services EXCEPT ![s] = None]
      /\ events' = events \ CascadedEvents(s)
      /\ Answer(p, 204)
      /\ UNCHANGED <<vehicles, block_configs>>

\* PostgreSQL breaks a circle of two waiting transactions by failing either one.
DeadlockAbort(p) ==
  /\ \E q \in Proc : WaitsInCircle(p, q) \/ WaitsInCircle(q, p)
  /\ Refuse(p, 500)
-----------------------------------------------------------------------------
(* update_vehicle and delete_vehicle, update_block *)

\* PATCH /vehicles/{id} with a battery_level: db.get and current_battery.
ReadLevel(p) ==
  LET v == req[p].vehicle_id
  IN  /\ pc[p] = "read_level"
      /\ \/ v \notin vehicles /\ Refuse(p, 404)
         \/ /\ v \in vehicles
            /\ dep_battery' = [dep_battery EXCEPT ![p] = current_battery(events, v)]
            /\ Goto(p, "adjust")
            /\ UNCHANGED <<tables, lock, wiped, request, loaded, block_traversal, reply>>

\* Inserting the event shares the vehicle's row (FOR KEY SHARE), so it waits for
\* FOR UPDATE; a vehicle deleted meanwhile breaks the foreign key, reported as 409.
AdjustLevel(p) ==
  LET v == req[p].vehicle_id
  IN  /\ pc[p] = "adjust"
      /\ VehicleRowFree(v)
      /\ \/ v \notin vehicles /\ Refuse(p, 409)
         \/ /\ v \in vehicles
            /\ events' = events \cup
                 {emit_manual_adjust(ticket[p], v, dep_battery[p], req[p].level, Now)}
            /\ Answer(p, 200)
            /\ UNCHANGED <<vehicles, services, block_configs>>

HasServices(v) == \E s \in Live : services[s].vehicle_id = v

\* DELETE /vehicles/{id}: db.get and the count of its services.
CountServices(p) ==
  LET v == req[p].vehicle_id
  IN  /\ pc[p] = "count"
      /\ \/ v \notin vehicles /\ Refuse(p, 404)
         \/ v \in vehicles /\ HasServices(v) /\ Refuse(p, 409)
         \/ /\ v \in vehicles /\ ~HasServices(v)
            /\ Goto(p, "remove")
            /\ UNCHANGED <<tables, lock, wiped, request, reads, reply>>

\* Mutated form: services.vehicle_id is no foreign key.
StillReferencedNever(v) == v \notin vehicles

\* A service inserted since the count: the foreign key keeps the vehicle.
StillReferenced(v) == HasServices(v)

RemoveVehicle(p) ==
  LET v == req[p].vehicle_id
  IN  /\ pc[p] = "remove"
      /\ VehicleRowFree(v)
      /\ \/ v \notin vehicles /\ Refuse(p, 204)
         \/ v \in vehicles /\ StillReferenced(v) /\ Refuse(p, 500)
         \/ /\ v \in vehicles /\ ~StillReferenced(v)
            /\ vehicles' = vehicles \ {v}
            /\ events' = {e \in events : e.vehicle_id # v}
            /\ Answer(p, 204)
            /\ UNCHANGED <<services, block_configs>>

\* PUT /blocks/{id}; every block has its row since the service started.
UpdateBlock(p) ==
  /\ pc[p] = "block"
  /\ block_configs' = [block_configs EXCEPT ![req[p].block] = req[p].seconds]
  /\ Answer(p, 200)
  /\ UNCHANGED <<vehicles, services, events>>
-----------------------------------------------------------------------------
\* One statement of the request a process is serving.
Step(p) ==
  \/ LoadService(p) \/ LoadStops(p) \/ LockVehicle(p) \/ ReadTraversal(p)
  \/ WipeConsume(p) \/ ResumeWipe(p) \/ ReadBattery(p) \/ CheckSiblings(p)
  \/ CommitCreate(p) \/ CommitUpdate(p) \/ ReloadService(p) \/ DeleteServiceRow(p)
  \/ CascadeAndCommit(p) \/ DeadlockAbort(p) \/ ReadLevel(p) \/ AdjustLevel(p)
  \/ CountServices(p) \/ RemoveVehicle(p) \/ UpdateBlock(p)

\* All requests of the bounded run are answered: the only state without a next step.
Served ==
  /\ begun = MaxRequests /\ \A p \in Proc : pc[p] = "idle"
  /\ UNCHANGED vars

Next == (\E p \in Proc : Begin(p) \/ Step(p)) \/ Served

Spec == Init /\ [][Next]_vars

\* A handler whose next statement can run gets to run it; requests need not arrive.
FairSpec == Spec /\ \A p \in Proc : WF_vars(Step(p))
-----------------------------------------------------------------------------
(* Properties *)

Labels == {"idle", "load", "load_stops", "lock", "traversal", "wipe", "wipe_wait", "battery",
           "siblings", "commit", "reload", "delete", "cascade", "read_level", "adjust",
           "count", "remove", "block"}

IsRow(row) ==
  /\ DOMAIN row = {"vehicle_id", "stops", "departure_battery"}
  /\ row.vehicle_id \in Vehicle

\* Every variable has the type its table column or handler variable gives it (the
\* stops of a row and the battery levels have their own properties below).
TypeOK ==
  /\ vehicles \subseteq Vehicle
  /\ DOMAIN services = ServiceId /\ \A s \in Live : IsRow(services[s])
  /\ \A e \in events : e.vehicle_id \in Vehicle /\ e.service_id \in ServiceId \cup {None}
  /\ block_configs \in [BLOCKS -> Nat \ {0}]
  /\ lock \in [Vehicle -> Proc \cup {None}]
  /\ DOMAIN wiped = Proc /\ \A p \in Proc : \A e \in wiped[p] : e.service_id \in ServiceId
  /\ pc \in [Proc -> Labels]
  /\ req \in [Proc -> Requests \cup {None}]
  /\ ticket \in [Proc -> 0 .. MaxRequests]
  /\ DOMAIN loaded = Proc /\ \A p \in Proc : loaded[p] = None \/ IsRow(loaded[p])
  /\ block_traversal \in [Proc -> [BLOCKS -> Nat \ {0}] \cup {None}]
  /\ DOMAIN dep_battery = Proc
  /\ reply \in [Proc -> {0, 200, 201, 204, 404, 409, 422, 500}]
  /\ begun \in 0 .. MaxRequests

Window(s) == _snap_window(SnapshotOf(s, services[s], block_configs))

\* A service none of whose stops has a known time has no window; the detector leaves
\* it out as well.
Timed == {s \in Live : SnapshotStops(StopsIn(services[s]), block_configs) # << >>}

\* No vehicle is ever in two places: the windows of two stored services of one
\* vehicle do not overlap, whichever handlers ran side by side (DESIGN.md 6.2 and
\* 9.10, A3: _lock_vehicle before the read, the check and the write).
NoVehicleOverlap ==
  \A s, t \in Timed : s # t /\ services[s].vehicle_id = services[t].vehicle_id =>
    ~_intervals_overlap(Window(s), Window(t))

\* Nor does it jump: each service starts where the vehicle's service before it ended.
NoVehicleConflict ==
  detect_vehicle_conflicts({SnapshotOf(s, services[s], block_configs) : s \in Live}) = {}

\* Every stored service is in the ledger exactly once, on its own vehicle, with the
\* blocks of its stored path, at the end of its window (DESIGN.md 9.12: PUT deletes
\* the consume event and emits it anew, DELETE cascades).
LedgerMatchesTimetable ==
  /\ \A s \in Live : \E e \in events :
       /\ ConsumeEvents(s) = {e}
       /\ e.vehicle_id = services[s].vehicle_id
       /\ e.occurred_at = Window(s).exit
       /\ e.delta = service_consume_delta(StopsIn(services[s]))
  /\ \A e \in events : e.service_id # None => e.service_id \in Live

\* Every stored path is one validate_path and _timing_errors accept (DESIGN.md 6.2:
\* no illegal path is in the database).
StoredPathsAreValid ==
  \A s \in Live : /\ validate_path(NodesOf(StopsIn(services[s]))) = {}
                  /\ _timing_errors(StopsIn(services[s])) = {}

\* The vehicle of every stored service and of every ledger event exists: counting a
\* vehicle's services and deleting it are two statements, and a create may come
\* between them.
ReferencesHold ==
  /\ \A s \in Live : services[s].vehicle_id \in vehicles
  /\ \A e \in events : e.vehicle_id \in vehicles

\* The deltas of a vehicle that occurred before an instant, summed.
LedgerLevelBefore(v, t) ==
  _sum({e \in events : e.vehicle_id = v /\ e.occurred_at < t})

\* A departure battery that is written is what the ledger says, when the write
\* commits, of the instant before the service starts (battery_event.py: the sum of the
\* deltas that occurred before service_start), although it was read statements before.
BatteryWrittenIsFresh ==
  [][\A s \in ServiceId :
       /\ services'[s] # None
       /\ services[s] = None \/ services[s].departure_battery # services'[s].departure_battery
       => services'[s].departure_battery =
            LedgerLevelBefore(services[s].vehicle_id, Window(s).enter)']_vars

\* The departure battery is rebuilt with every update of a service (snapshots.py: "this
\* projection is rebuilt whenever a service is created or updated"): whenever the stops
\* of a service are stored or replaced, the battery beside them is the ledger's.
BatteryRebuiltWithStops ==
  [][\A s \in ServiceId :
       services'[s] # None /\ (services[s] = None \/ services[s].stops # services'[s].stops) =>
         services'[s].departure_battery =
           LedgerLevelBefore(services[s].vehicle_id, Window(s).enter)']_vars

\* While a handler holds a vehicle's row, no other handler adds, moves or retimes a
\* service of that vehicle: what it checked stays true until it commits.
LockFreezesTimetable ==
  [][\A v \in Vehicle, s \in ServiceId :
       (/\ lock[v] # None /\ lock'[v] = lock[v]
        /\ services'[s] # None /\ services'[s].vehicle_id = v)
       => services'[s] = services[s]]_vars

\* With one handler at a time no request fails for a reason its client is not told.
NoInternalError == \A p \in Proc : reply[p] # 500

\* Every request is answered, whatever locks it meets on its way.
EveryRequestAnswered == \A p \in Proc : pc[p] # "idle" ~> pc[p] = "idle"
-----------------------------------------------------------------------------
(* The abstract timetable *)

\* The book of trips the tables amount to.
Trips ==
  {LET window == Window(s)
   IN  [service |-> s, vehicle |-> services[s].vehicle_id,
        enter |-> window.enter, exit |-> window.exit] : s \in Live}

Timeline == INSTANCE VehicleTimeline WITH trips <- Trips

\* Seen from outside, the concurrent handlers with their row locks are a book of
\* trips that one clerk keeps: every commit books, changes or cancels one trip that
\* is free at that very moment, and every other step changes nothing.
ImplementsTimeline == Timeline!Spec
=============================================================================
