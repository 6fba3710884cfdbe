------------------------------- MODULE Battery -------------------------------
(***************************************************************************)
(* app/logic/battery.py: the battery ledger.  The ledger is a set of events*)
(* [id, vehicle_id, service_id, event_type, occurred_at, delta]; a battery *)
(* level is never stored, it is the sum of the deltas that count.  Levels  *)
(* are in the unit of Topology, 1/1200 of a percent.                       *)
(***************************************************************************)
EXTENDS StopTimes, FiniteSetsExt

\* Mutated form: the column has no digits after the point.
HundredthsWhole(level) == (level \div PERCENT) * PERCENT

\* A level in the column delta, Numeric(5, 2): rounded to hundredths of a percent,
\* halves away from zero.
Hundredths(level) ==
  LET unit      == PERCENT \div 100
      Nearest(x) == ((x + unit \div 2) \div unit) * unit
  IN  IF level < 0 THEN -Nearest(-level) ELSE Nearest(level)

Event(id, vehicle_id, service_id, event_type, occurred_at, delta) ==
  [id |-> id, vehicle_id |-> vehicle_id, service_id |-> service_id,
   event_type |-> event_type, occurred_at |-> occurred_at, delta |-> Hundredths(delta)]

_sum(events) == MapThenSumSet(LAMBDA e : e.delta, events)

EventsOf(events, vehicle_id) == {e \in events : e.vehicle_id = vehicle_id}

\* Everything in the ledger, whenever it occurs.
current_battery(events, vehicle_id) == _sum(EventsOf(events, vehicle_id))

battery_at(events, vehicle_id, at) ==
  _sum({e \in EventsOf(events, vehicle_id) : e.occurred_at <= at})

\* Strictly before: a trip that ends when the next one starts has not cost it yet.
battery_before(events, vehicle_id, at) ==
  _sum({e \in EventsOf(events, vehicle_id) : e.occurred_at < at})

\* Everything but what services consume: positions subtract their blocks themselves.
non_service_battery(events, vehicle_id) ==
  _sum({e \in EventsOf(events, vehicle_id) : e.event_type # "SERVICE_CONSUME"})

emit_baseline(vehicle_id, level) ==
  Event(0, vehicle_id, None, "BASELINE", BATTERY_BASELINE_EPOCH, level)

\* The event that moves a level read earlier to new_level.
emit_manual_adjust(id, vehicle_id, current, new_level, occurred_at) ==
  Event(id, vehicle_id, None, "MANUAL_ADJUST", occurred_at, new_level - current)

service_consume_delta(stops) ==
  -(BATTERY_COST_PER_BLOCK * Cardinality({i \in DOMAIN stops : is_block(stops[i].node_id)}))

emit_service_consume(id, vehicle_id, service_id, occurred_at, delta) ==
  Event(id, vehicle_id, service_id, "SERVICE_CONSUME", occurred_at, delta)

\* Time spent idle at the yard.  It belongs to no service.
emit_yard_charge(id, vehicle_id, occurred_at, delta) ==
  Event(id, vehicle_id, None, "YARD_CHARGE", occurred_at, delta)
=============================================================================
