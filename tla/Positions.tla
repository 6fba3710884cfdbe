------------------------------ MODULE Positions ------------------------------
(***************************************************************************)
(* app/logic/positions.py: where each vehicle is shown, and at what battery*)
(* level, at an instant.  GET /topology/positions and the GraphQL field    *)
(* positions both answer with it.                                          *)
(*                                                                         *)
(* The services come from a SELECT without ORDER BY, and the first of a    *)
(* vehicle's services decides where several could: an answer is therefore  *)
(* a set, of what the vehicle may be shown as in one order or another.     *)
(* The fraction of a block's cost is rounded down to the unit of Topology. *)
(***************************************************************************)
EXTENDS ConflictDetector, StopTimes, FiniteSetsExt

PositionMode == {"simulation", "strict"}

_node_status(node) ==
  IF is_yard(node) THEN "at_yard"
  ELSE IF is_platform(node) THEN "at_platform" ELSE "traversing_block"

\* Mutated form: a block costs the part of it that is still ahead.
CostAtAhead(stop, at, mode) ==
  IF ~is_block(stop.node_id) THEN 0
  ELSE IF at >= stop.exit THEN BATTERY_COST_PER_BLOCK
  ELSE IF mode = "strict" \/ at < stop.enter THEN 0
  ELSE (BATTERY_COST_PER_BLOCK * (stop.exit - at)) \div (stop.exit - stop.enter)

\* Mutated form: the block that is left at this very moment is not counted yet.
CostAtLater(stop, at, mode) ==
  IF ~is_block(stop.node_id) THEN 0
  ELSE IF at > stop.exit THEN BATTERY_COST_PER_BLOCK
  ELSE IF mode = "strict" \/ at < stop.enter THEN 0
  ELSE (BATTERY_COST_PER_BLOCK * (at - stop.enter)) \div (stop.exit - stop.enter)

\* What a stop has cost by an instant: a block that is left all of it, the block the
\* vehicle is in nothing or the fraction of time spent in it.
CostAt(stop, at, mode) ==
  IF ~is_block(stop.node_id) THEN 0
  ELSE IF at >= stop.exit THEN BATTERY_COST_PER_BLOCK
  ELSE IF mode = "strict" \/ at < stop.enter THEN 0
  ELSE (BATTERY_COST_PER_BLOCK * (at - stop.enter)) \div (stop.exit - stop.enter)

_battery_cost_at(snapshots, at, mode) ==
  MapThenSumSet(LAMBDA s : MapThenSumSet(LAMBDA i : CostAt(s.stops[i], at, mode), DOMAIN s.stops),
                snapshots)

\* Mutated form: a stop is covered until and including the moment it is left.
CoversClosed(stop, at) == stop.enter <= at /\ at <= stop.exit

Covers(stop, at) == stop.enter <= at /\ at < stop.exit

\* The first stop of a service that covers the instant, if there is one.
_find_active(snap, at) ==
  LET covering == {i \in DOMAIN snap.stops : Covers(snap.stops[i], at)}
      Hit(i) == [service_id |-> snap.service_id, node_id |-> snap.stops[i].node_id,
                 next_node |-> IF i < Len(snap.stops) THEN snap.stops[i + 1].node_id ELSE None]
  IN  IF covering = {} THEN {} ELSE {Hit(Min(covering))}

\* The first stop of a service left at the latest time any stop was left; the yard
\* if none was.
_last_known_node(snapshots, at) ==
  LET Left(s) == {i \in DOMAIN s.stops : s.stops[i].exit <= at}
      exits   == UNION {{s.stops[i].exit : i \in Left(s)} : s \in snapshots}
      Last(s) == {i \in Left(s) : s.stops[i].exit = Max(exits)}
  IN  IF exits = {} THEN {YARD}
      ELSE {s.stops[Min(Last(s))].node_id : s \in {r \in snapshots : Last(r) # {}}}

\* What each vehicle with a base battery level may be shown as.
compute_positions_at(at, vehicles_base_battery, snapshots, mode) ==
  [v \in DOMAIN vehicles_base_battery |->
     LET snaps   == {s \in snapshots : s.vehicle_id = v}
         active  == UNION {_find_active(s, at) : s \in snaps}
         battery == Max({0, vehicles_base_battery[v] - _battery_cost_at(snaps, at, mode)})
         Shown(status, node, next_node, service_id) ==
           [status |-> status, current_node |-> node, next_node |-> next_node,
            service_id |-> service_id, battery_level |-> battery]
     IN  IF active # {}
           THEN {Shown(_node_status(a.node_id), a.node_id, a.next_node, a.service_id) : a \in active}
           ELSE {Shown("idle", node, None, None) : node \in _last_known_node(snaps, at)}]
=============================================================================
