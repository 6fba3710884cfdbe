------------------------- MODULE MCConflictDetector -------------------------
(***************************************************************************)
(* Adds services one by one to a timetable and compares what the detectors *)
(* report with definitions that know nothing of sorting or early exits:    *)
(* who stands where at each instant, and whether a vehicle can drive its   *)
(* services in some order at all.  Then it asks what Positions shows of    *)
(* the timetable to a client that polls it.                                *)
(***************************************************************************)
EXTENDS Positions, SequencesExt

CONSTANTS MaxServices, Vehicles, Starts

ASSUME TimetableBoundsAssumption ==
  /\ MaxServices \in Nat /\ IsFiniteSet(Vehicles)
  /\ IsFiniteSet(Starts) /\ Starts \subseteq Nat

VARIABLE snapshots

\* A trip template: the path, how long the vehicle stays on each node, and the level
\* it departs with: one falls below the threshold on its way to the yard, one behind it.
Templates ==
  { [path |-> <<"Y", "B1", "P1A">>,               spans |-> <<0, 2, 0>>, battery |-> 80 * PERCENT],
    [path |-> <<"P1A", "B1", "Y">>,               spans |-> <<1, 2, 0>>, battery |-> 30 * PERCENT],
    [path |-> <<"Y", "B2", "P1B">>,               spans |-> <<0, 1, 0>>, battery |-> 79 * PERCENT],
    [path |-> <<"P2B", "B12", "B13", "P1A">>,     spans |-> <<0, 1, 1, 0>>, battery |-> 31 * PERCENT],
    [path |-> <<"P1A", "B3">>,                    spans |-> <<0, 2>>, battery |-> 30 * PERCENT],
    [path |-> <<"P1A", "B1", "Y", "B1", "P1A">>,  spans |-> <<0, 1, 0, 1, 0>>, battery |-> 31 * PERCENT] }

Trip(template, start) ==
  LET left[i \in 0 .. Len(template.path)] ==
        IF i = 0 THEN start ELSE left[i - 1] + template.spans[i]
  IN  [i \in DOMAIN template.path |->
         [node_id |-> template.path[i], enter |-> left[i - 1], exit |-> left[i]]]

TimetableInit == snapshots = {}

AddService(vehicle, template, start) ==
  /\ Cardinality(snapshots) < MaxServices
  /\ snapshots' = snapshots \cup
       {[service_id |-> Cardinality(snapshots) + 1, vehicle_id |-> vehicle,
         stops |-> Trip(template, start), departure_battery |-> template.battery]}

TimetableNext ==
  \E vehicle \in Vehicles, template \in Templates, start \in Starts :
    AddService(vehicle, template, start)
-----------------------------------------------------------------------------
Horizon == 0 .. Max(Starts \cup {0}) + 10

\* The blocks a service occupies at an instant, from entering until leaving.
OccupiedAt(s, t) ==
  {s.stops[i].node_id : i \in {k \in DOMAIN s.stops :
     is_block(s.stops[k].node_id) /\ s.stops[k].enter <= t /\ t < s.stops[k].exit}}

MayNotMeet(b, c) == b = c \/ \E g \in INTERLOCKING_GROUPS : {b, c} \subseteq g

\* The blocks two services hold at the same instant although they must not.
ClashingBlocks(s, t) ==
  UNION { {b \in OccupiedAt(s, i) : \E c \in OccupiedAt(t, i) : MayNotMeet(b, c)}
            \cup {c \in OccupiedAt(t, i) : \E b \in OccupiedAt(s, i) : MayNotMeet(b, c)}
          : i \in Horizon }

\* detect_block_conflicts, with its sort and its early exit, reports exactly the
\* pairs of services that at some instant hold one block or two blocks of one
\* group, once each, with exactly the blocks involved (DESIGN.md section 7.2).
BlockConflictsAreSharedOccupancy ==
  detect_block_conflicts(snapshots) =
    {Conflict("interlocking", {p[1].service_id, p[2].service_id}, ClashingBlocks(p[1], p[2])) :
       p \in {q \in snapshots \X snapshots :
                q[1].service_id < q[2].service_id /\ ClashingBlocks(q[1], q[2]) # {}}}

\* An order in which a vehicle can drive the services: each ends before the next
\* begins, at the node where the next begins.
Drivable(order) ==
  \A i \in 1 .. Len(order) - 1 :
    /\ _snap_window(order[i]).exit <= _snap_window(order[i + 1]).enter
    /\ LastNode(order[i]) = FirstNode(order[i + 1])

\* detect_vehicle_conflicts is silent about a vehicle exactly when its services can
\* be driven one after the other without being in two places or jumping.
VehicleConflictsAreUndrivable ==
  (detect_vehicle_conflicts(snapshots) = {}) <=>
    \A v \in Vehicles :
      \E order \in SetToSeqs({s \in snapshots : s.vehicle_id = v}) : Drivable(order)

\* A low battery is reported exactly when the part of the trip after its last visit
\* to the yard ends below the threshold (DESIGN.md section 7.2: the index matters,
\* a yard passed earlier is no rescue), an insufficient charge exactly below 80.
LowBatteryIsTheLastLeg ==
  \A s \in snapshots :
    LET yards  == {i \in DOMAIN s.stops : s.stops[i].node_id = YARD}
        leg    == {i \in DOMAIN s.stops : \A y \in yards : i > y}
        driven == {i \in leg : is_block(s.stops[i].node_id)}
        final  == s.departure_battery - PERCENT * BlocksUpTo(s.stops, Len(s.stops))
    IN  detect_battery_conflicts(s) =
          {Conflict("low_battery", {s.service_id}, {}) : x \in
             IF driven # {} /\ final < 30 * PERCENT THEN {1} ELSE {}}
          \cup {Conflict("insufficient_charge", {s.service_id}, {}) : x \in
             IF s.departure_battery < 80 * PERCENT THEN {1} ELSE {}}
-----------------------------------------------------------------------------
Shown(t, mode) == compute_positions_at(t, [v \in Vehicles |-> BATTERY_MAX], snapshots, mode)

\* When the detectors report no vehicle conflict and no interlocking, a client that
\* polls the positions never sees a vehicle in two places, in whatever order the
\* services are returned, nor two vehicles on blocks that may not meet (DESIGN.md 7.2
\* and positions.py: intervals are half-open in both).
SilentDetectorShowsNoClash ==
  detect_vehicle_conflicts(snapshots) \cup detect_block_conflicts(snapshots) = {} =>
    \A t \in Horizon : \A shown \in {Shown(t, "strict")} :
      /\ \A v \in Vehicles : Cardinality(shown[v]) = 1
      /\ \A v, w \in Vehicles : \A p \in shown[v], q \in shown[w] :
           (v # w /\ {p.status, q.status} = {"traversing_block"}) =>
             ~MayNotMeet(p.current_node, q.current_node)

\* The level interpolated for display and the level of the step function differ by
\* less than one block's cost at every instant, unless the vehicle is in two places
\* (README.md: each is off by less than one unit).
ModesDifferByLessThanABlock ==
  \A v \in Vehicles : OverlapPairs({s \in snapshots : s.vehicle_id = v}) = {} =>
    \A t \in Horizon : \A p \in Shown(t, "strict")[v], q \in Shown(t, "simulation")[v] :
      p.battery_level - q.battery_level \in 0 .. BATTERY_COST_PER_BLOCK - 1
=============================================================================
