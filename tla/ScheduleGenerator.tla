-------------------------- MODULE ScheduleGenerator --------------------------
(***************************************************************************)
(* logic/schedule_generator.py beside the handlers of ServiceWrites:       *)
(* POST /schedule/generate runs as one transaction that reads the          *)
(* timetable once, then tries slot after slot for one vehicle after the    *)
(* other, and commits all trips at its end.  Between its statements the    *)
(* other handlers go on.                                                   *)
(*                                                                         *)
(* It locks no vehicle.  The rows it has inserted share the rows of their  *)
(* vehicles (foreign keys, FOR KEY SHARE) until it commits; they hold off  *)
(* a handler that wants such a row FOR UPDATE, and wait for one that has it*)
(*                                                                         *)
(* A request for a schedule reserves one key per slot it may fill, so that *)
(* MaxRequests bounds the keys drawn in all.                               *)
(***************************************************************************)
EXTENDS TimetableReads

CONSTANT Generations  \* the schedules clients may ask for

\* Times and dwell in seconds; so is the interval, which the code takes in minutes.
GenerateRequest(vehicle_ids, start_time, end_time, interval, dwell) ==
  [op |-> "generate", vehicle_ids |-> vehicle_ids, start_time |-> start_time,
   end_time |-> end_time, interval |-> interval, dwell |-> dwell]

DEFAULT_ROUND_TRIP ==
  <<"Y", "B1", "P1A", "B3", "B5", "P2A", "B6", "B7", "P3A",
    "B10", "B11", "P2B", "B12", "B13", "P1A", "B1", "Y">>

per_vehicle_offset(r) == r.interval \div Cardinality(r.vehicle_ids)

ASSUME GenerationsAssumption ==
  \A r \in Generations :
    /\ r = GenerateRequest(r.vehicle_ids, r.start_time, r.end_time, r.interval, r.dwell)
    /\ r.vehicle_ids # {} /\ IsFiniteSet(r.vehicle_ids)
    /\ r.start_time \in Nat /\ r.end_time \in Nat /\ r.end_time > r.start_time
    /\ r.interval \in Nat \ {0} /\ r.dwell \in Nat
    /\ per_vehicle_offset(r) * Cardinality(r.vehicle_ids) = r.interval  \* whole seconds

VARIABLE plan  \* per process: the local state of generate_schedule, or None

gvars == <<vars, plan>>

\* The departures tried for the vehicle at a position of the list.
FirstSlot(r, position) == r.start_time + per_vehicle_offset(r) * position

\* Bound: the keys a schedule may draw, one per departure before end_time.
KeysFor(r) ==
  Cardinality({try \in (0 .. Cardinality(r.vehicle_ids) - 1) \X (0 .. r.end_time) :
                 FirstSlot(r, try[1]) + try[2] * r.interval < r.end_time})
-----------------------------------------------------------------------------
(* What generate_schedule computes from its request and its reads *)

Tuples(p) ==
  _compute_stops(DEFAULT_ROUND_TRIP, plan[p].slot, block_traversal[p], req[p].dwell)

TripEnd(p) == _service_end(Tuples(p))

\* The loop goes on for this vehicle: the trip starts and ends in time.
Fits(p) == plan[p].slot < req[p].end_time /\ TripEnd(p) <= req[p].end_time

Current(p) == Head(plan[p].vehicles)

\* The vehicle has stood at the yard since its trip before.
IdleAtYard(p) ==
  plan[p].last_yard_idle_since # None /\ plan[p].slot > plan[p].last_yard_idle_since

\* Mutated form: charged for as long as it stands.
charge_deltaUncapped(p) ==
  IF plan[p].battery_at_idle_start = None THEN 0
  ELSE (plan[p].slot - plan[p].last_yard_idle_since) * BATTERY_CHARGE_RATE

charge_delta(p) ==
  IF plan[p].battery_at_idle_start = None THEN 0
  ELSE LET gap_seconds == plan[p].slot - plan[p].last_yard_idle_since
       IN  Max({0, Min({gap_seconds * BATTERY_CHARGE_RATE,
                        BATTERY_MAX - plan[p].battery_at_idle_start})})

\* What the transaction sees of the ledger: the commits and its own rows.
Ledger(p) == events \cup plan[p].events

\* The key of the next trip, and its place at the end of the list that is checked.
NextKey(p) == ticket[p] + Len(plan[p].created)
LastInList == MaxRequests + 1

CandidateTrip(p, service_id, departure_battery) ==
  [service_id |-> service_id, vehicle_id |-> Current(p), stops |-> Tuples(p),
   departure_battery |-> departure_battery]

\* Mutated form: the trips placed before are not among those compared.
committed_snapshots_as_read(p) == plan[p].existing

committed_snapshots(p) == plan[p].existing \cup Range(plan[p].created)

\* The slot is skipped: a conflict anywhere in the list, not only of the candidate.
Rejected(p, departure_battery) ==
  \E candidate \in {CandidateTrip(p, LastInList, departure_battery)} :
    \/ detect_battery_conflicts(candidate) # {}
    \/ detect_vehicle_conflicts(committed_snapshots(p) \cup {candidate}) # {}
    \/ detect_block_conflicts(committed_snapshots(p) \cup {candidate}) # {}

\* The departures of a set of trips from a platform.
Departures(snapshots, platform) ==
  UNION {{s.stops[i].exit : i \in {k \in DOMAIN s.stops : s.stops[k].node_id = platform}} :
           s \in snapshots}

\* Mutated form: whether the last trip leaves in time is not asked.
_check_passenger_wait_none(snapshots, interval) == {pl \in PLATFORMS : interval = 0}

\* The platforms at which two departures that follow one another are further apart
\* than the interval.
_check_passenger_wait(snapshots, interval) ==
  {pl \in PLATFORMS :
     LET times == Departures(snapshots, pl)
     IN  \E t1, t2 \in times : /\ t2 - t1 > interval
                               /\ ~\E t \in times : t1 < t /\ t < t2}
-----------------------------------------------------------------------------
(* Steps *)

GenInit == Init /\ plan = [p \in Proc |-> None]

\* The answer ends the transaction; without a commit nothing of the plan is left.
GenRefuse(p, status) == Refuse(p, status) /\ plan' = [plan EXCEPT ![p] = None]

BeginGenerate(p) ==
  /\ pc[p] = "idle"
  /\ \E r \in Generations :
       /\ begun + KeysFor(r) <= MaxRequests
       /\ req' = [req EXCEPT ![p] = r]
       /\ begun' = begun + KeysFor(r)
  /\ ticket' = [ticket EXCEPT ![p] = begun + 1]
  /\ reply' = [reply EXCEPT ![p] = 0]
  /\ Goto(p, "gen_config")
  /\ UNCHANGED <<tables, lock, wiped, reads, plan>>

ReadConfig(p) ==
  /\ pc[p] = "gen_config"
  /\ block_traversal' = [block_traversal EXCEPT ![p] = block_configs]
  /\ Goto(p, "gen_vehicles")
  /\ UNCHANGED <<tables, lock, wiped, request, loaded, dep_battery, reply, plan>>

\* SELECT of the vehicles, in whatever order the database returns them.
ReadVehicles(p) ==
  /\ pc[p] = "gen_vehicles"
  /\ \/ ~(req[p].vehicle_ids \subseteq vehicles) /\ GenRefuse(p, 404)
     \/ /\ req[p].vehicle_ids \subseteq vehicles
        /\ \E order \in SetToSeqs(req[p].vehicle_ids) :
             plan' = [plan EXCEPT ![p] =
               [vehicles |-> order, slot |-> FirstSlot(req[p], 0), last_yard_idle_since |-> None,
                battery_at_idle_start |-> None, rows |-> None, existing |-> {},
                created |-> << >>, events |-> {}]]
        /\ Goto(p, "gen_services")
        /\ UNCHANGED <<tables, lock, wiped, request, reads, reply>>

ReadServices(p) ==
  /\ pc[p] = "gen_services"
  /\ plan' = [plan EXCEPT ![p].rows = SelectServices]
  /\ Goto(p, "gen_stops")
  /\ UNCHANGED <<tables, lock, wiped, request, reads, reply>>

ReadStops(p) ==
  /\ pc[p] = "gen_stops"
  /\ plan' = [plan EXCEPT ![p].rows = None,
                          ![p].existing = build_snapshots(SelectStops(plan[p].rows),
                                                          block_traversal[p])]
  /\ Goto(p, "gen_slot")
  /\ UNCHANGED <<tables, lock, wiped, request, reads, reply>>

\* No further trip of this vehicle ends in time.
NextVehicle(p) ==
  /\ pc[p] = "gen_slot" /\ plan[p].vehicles # << >> /\ ~Fits(p)
  /\ LET rest == Tail(plan[p].vehicles)
     IN  plan' = [plan EXCEPT
           ![p].vehicles = rest, ![p].last_yard_idle_since = None,
           ![p].slot = FirstSlot(req[p], Cardinality(req[p].vehicle_ids) - Len(rest))]
  /\ UNCHANGED vars

\* battery_at the moment the vehicle came to stand in the yard.
ReadIdleBattery(p) ==
  /\ pc[p] = "gen_slot" /\ plan[p].vehicles # << >> /\ Fits(p)
  /\ plan' = [plan EXCEPT ![p].battery_at_idle_start =
       IF IdleAtYard(p) THEN battery_at(Ledger(p), Current(p), plan[p].last_yard_idle_since)
       ELSE None]
  /\ Goto(p, "gen_battery")
  /\ UNCHANGED <<tables, lock, wiped, request, reads, reply>>

\* Mutated form: a slot that is rejected is tried again.
AfterRejectionSame(p) == plan[p]

\* The next slot of the vehicle.
AfterRejection(p) == [plan[p] EXCEPT !.slot = @ + req[p].interval]

\* battery_before the slot, and the checks.
CheckSlot(p) ==
  /\ pc[p] = "gen_battery"
  /\ \E battery \in {battery_before(Ledger(p), Current(p), plan[p].slot) + charge_delta(p)} :
       IF Rejected(p, battery)
         THEN /\ plan' = [plan EXCEPT ![p] = AfterRejection(p)]
              /\ Goto(p, "gen_slot")
              /\ UNCHANGED dep_battery
         ELSE /\ dep_battery' = [dep_battery EXCEPT ![p] = battery]
              /\ Goto(p, "gen_insert")
              /\ UNCHANGED plan
  /\ UNCHANGED <<tables, lock, wiped, request, loaded, block_traversal, reply>>

\* The ledger rows of the trip.  The charge is dated a microsecond before the slot; a
\* second stands for it, as everything else happens on whole minutes or later.
TripEvents(p) ==
  LET key == NextKey(p)
  IN  {emit_service_consume(key, Current(p), key, TripEnd(p),
                            service_consume_delta(Tuples(p)))}
        \cup (IF charge_delta(p) > 0
                THEN {emit_yard_charge(key, Current(p), plan[p].slot - 1, charge_delta(p))}
                ELSE {})

\* The flushes of the trip: they wait for a handler that has the vehicle's row FOR
\* UPDATE, and fail (500) if the vehicle was deleted since.
InsertTrip(p) ==
  LET v == Current(p)
  IN  /\ pc[p] = "gen_insert"
      /\ VehicleRowFree(v)
      /\ \/ v \notin vehicles /\ GenRefuse(p, 500)
         \/ /\ v \in vehicles
            /\ plan' = [plan EXCEPT
                 ![p].created = Append(@, CandidateTrip(p, NextKey(p), dep_battery[p])),
                 ![p].events = @ \cup TripEvents(p),
                 ![p].last_yard_idle_since =
                   IF DEFAULT_ROUND_TRIP[Len(DEFAULT_ROUND_TRIP)] = YARD THEN TripEnd(p) ELSE None,
                 ![p].slot = @ + req[p].interval]
            /\ dep_battery' = [dep_battery EXCEPT ![p] = None]
            /\ Goto(p, "gen_slot")
            /\ UNCHANGED <<tables, lock, wiped, request, loaded, block_traversal, reply>>

\* The rows of services and service_stops a created trip amounts to.
TripRow(trip) ==
  [vehicle_id |-> trip.vehicle_id, departure_battery |-> trip.departure_battery,
   stops |-> StopRows(trip.service_id, _stored_rows(trip.stops))]

\* All slots are tried: the passenger wait is checked, then the router commits.
FinishGenerate(p) ==
  /\ pc[p] = "gen_slot" /\ plan[p].vehicles = << >>
  /\ \/ /\ _check_passenger_wait(committed_snapshots(p), req[p].interval) # {}
        /\ GenRefuse(p, 422)
     \/ /\ _check_passenger_wait(committed_snapshots(p), req[p].interval) = {}
        /\ services' = [s \in ServiceId |->
             IF \E t \in Range(plan[p].created) : t.service_id = s
               THEN TripRow(plan[p].created[s - ticket[p] + 1]) ELSE services[s]]
        /\ events' = Ledger(p)
        /\ Answer(p, 201)
        /\ plan' = [plan EXCEPT ![p] = None]
        /\ UNCHANGED <<vehicles, block_configs>>

GenStep(p) ==
  \/ ReadConfig(p) \/ ReadVehicles(p) \/ ReadServices(p) \/ ReadStops(p) \/ NextVehicle(p)
  \/ ReadIdleBattery(p) \/ CheckSlot(p) \/ InsertTrip(p) \/ FinishGenerate(p)

\* A generator has inserted a trip of the vehicle and not committed.
VehicleRowShared(v, p) ==
  \E q \in Proc \ {p} : plan[q] # None /\ \E t \in Range(plan[q].created) : t.vehicle_id = v

\* A statement of another handler; one that wants a vehicle's row FOR UPDATE waits for
\* those who share it.
HandlerStep(p) ==
  /\ pc[p] = "lock" => ~VehicleRowShared(TargetVehicle(p), p)
  /\ pc[p] = "remove" => ~VehicleRowShared(req[p].vehicle_id, p)
  /\ Step(p)
  /\ UNCHANGED plan

GenNext ==
  \/ \E p \in Proc : BeginGenerate(p) \/ GenStep(p) \/ HandlerStep(p)
                      \/ (Begin(p) /\ UNCHANGED plan)
  \/ Served /\ UNCHANGED plan

GenSpec == GenInit /\ [][GenNext]_gvars
-----------------------------------------------------------------------------
(* Properties *)

\* A schedule is committed with trips in it.
Commits(p) == pc[p] = "gen_slot" /\ plan[p].created # << >> /\ reply'[p] = 201

\* With nobody else at work, the whole timetable is free of interlocking and vehicle
\* conflicts when a schedule is committed, trips entered by hand included
\* (DESIGN.md 7.3: checked before every insertion).
GeneratedDayIsConflictFree ==
  [][\A p \in Proc : Commits(p) =>
       \A snapshots \in {StoredSnapshots'} :
         detect_block_conflicts(snapshots) \cup detect_vehicle_conflicts(snapshots) = {}]_gvars

\* And passengers wait at no platform longer than the interval between two departures
\* of the stored timetable (README: the multi-vehicle offsets keep the wait within it).
PassengersWaitAtMostTheInterval ==
  [][\A p \in Proc : Commits(p) =>
       \A pl \in PLATFORMS :
         \A times \in {Departures(StoredSnapshots', pl)} :
           \A t \in times : (\E u \in times : u > t) =>
             \E u \in times : t < u /\ u - t <= req[p].interval]_gvars

\* The departure battery stored with a service, written by hand or generated, is what
\* the ledger says when it commits of the instant before the service starts, but for
\* the hundredth of a percent to which the ledger rounds a charge.
StoredBatteryIsLedgerLevel ==
  [][\A s \in ServiceId :
       services'[s] # None /\ (services[s] = None \/ services[s].stops # services'[s].stops) =>
         LET error == services'[s].departure_battery
                        - LedgerLevelBefore(services[s].vehicle_id, Window(s).enter)'
         IN  error * 200 <= PERCENT /\ error * 200 >= -PERCENT]_gvars

InLoop(p) == pc[p] \in {"gen_slot", "gen_battery", "gen_insert"}

StatementsLeft(p) ==
  CASE pc[p] = "gen_slot" -> 3 [] pc[p] = "gen_battery" -> 2 [] pc[p] = "gen_insert" -> 1

\* The loop over vehicles and slots ends, whatever is rejected on the way: its every
\* step leaves fewer vehicles, or a later slot (which never passes the end by more
\* than the interval), or fewer statements for the same slot.
EveryScheduleEnds ==
  [][\A p \in Proc : InLoop(p) /\ InLoop(p)' /\ <<pc[p], plan[p]>>' # <<pc[p], plan[p]>> =>
       /\ plan'[p].slot < req[p].end_time + req[p].interval
       /\ \/ Len(plan'[p].vehicles) < Len(plan[p].vehicles)
          \/ /\ plan'[p].vehicles = plan[p].vehicles
             /\ \/ plan'[p].slot > plan[p].slot
                \/ plan'[p].slot = plan[p].slot /\ StatementsLeft(p)' < StatementsLeft(p)]_gvars

\* The level of every vehicle after each event of its ledger.
LevelsUpToMax ==
  \A v \in vehicles : \A e \in EventsOf(events, v) :
    battery_at(events, v, e.occurred_at) <= BATTERY_MAX

\* Charging stops at BATTERY_MAX (DESIGN.md 4.3): a schedule committed to a ledger
\* without charges and within the limit leaves it within the limit, trips entered by
\* hand between its own included.
ChargeIsCapped ==
  [][\A p \in Proc :
       Commits(p) /\ LevelsUpToMax /\ (\A e \in events : e.event_type # "YARD_CHARGE")
         => LevelsUpToMax']_gvars
=============================================================================
