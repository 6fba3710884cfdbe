-------------------------- MODULE ConflictDetector --------------------------
(***************************************************************************)
(* app/logic/conflict_detector.py: the conflicts of a set of services.     *)
(*                                                                         *)
(* A snapshot is a record [service_id, vehicle_id, stops, departure_battery*)
(* ] whose stops are a sequence of [node_id, enter, exit].  The detectors  *)
(* take a set of snapshots with distinct service_ids.  The code takes a    *)
(* list and sorts it by entry time; where two are equal it keeps the order *)
(* of the list, which comes from a SELECT without ORDER BY, with the       *)
(* candidate last.  Here ties go by service id.  The order of a tie        *)
(* changes no block conflict: intervals entered at one instant overlap     *)
(* whichever comes first.  Of services that start together it can change   *)
(* which discontinuity is named beside their overlap, and when one of them *)
(* takes no time, which neighbour follows it.                              *)
(***************************************************************************)
EXTENDS Topology, Sequences

Conflict(type, ids, locations) ==
  [conflict_type |-> type, service_ids |-> ids, locations |-> locations]

\* Half-open intervals: touching is not overlapping.
_intervals_overlap(a, b) == a.enter < b.exit /\ b.enter < a.exit
-----------------------------------------------------------------------------
(* Blocks and interlocking groups *)

BlockIntervals(snapshots) ==
  UNION { {[service_id |-> s.service_id, index |-> i, node_id |-> s.stops[i].node_id,
            enter |-> s.stops[i].enter, exit |-> s.stops[i].exit] :
              i \in {k \in DOMAIN s.stops : is_block(s.stops[k].node_id)}}
          : s \in snapshots }

\* The order of the sorted list of intervals, ties by service.
SortedBefore(a, b) ==
  \/ a.enter < b.enter
  \/ a.enter = b.enter /\ a.service_id < b.service_id
  \/ a.enter = b.enter /\ a.service_id = b.service_id /\ a.index < b.index

\* Mutated form: the inner loop compares neighbours only.
ScannedNeighbours(intervals, a, b) ==
  /\ SortedBefore(a, b)
  /\ \A c \in intervals : SortedBefore(a, c) => c = b \/ SortedBefore(b, c)

\* The inner loop of a reaches b: it breaks at the first interval entered when or
\* after a is left.
Scanned(intervals, a, b) ==
  /\ SortedBefore(a, b)
  /\ \A c \in intervals :
       SortedBefore(a, c) /\ (c = b \/ SortedBefore(c, b)) => c.enter < a.exit

\* The blocks on which two intervals clash: the same block, or two blocks of one
\* interlocking group.
InvolvedBlocks(a, b) ==
  IF a.node_id = b.node_id \/ b.node_id \in interlocking_group_for(a.node_id)
    THEN {a.node_id, b.node_id} ELSE {}

\* Two intervals of different services, found by the scan and found to overlap.
Clash(intervals, a, b) ==
  /\ Scanned(intervals, a, b)
  /\ a.service_id # b.service_id
  /\ _intervals_overlap(a, b)

\* One conflict per pair of services that clash, with every block involved.
detect_block_conflicts(snapshots) ==
  LET intervals == BlockIntervals(snapshots)
      clashes   == {p \in intervals \X intervals :
                      Clash(intervals, p[1], p[2]) /\ InvolvedBlocks(p[1], p[2]) # {}}
      Ids(p)    == {p[1].service_id, p[2].service_id}
      Locations(ids) == UNION {InvolvedBlocks(p[1], p[2]) : p \in {q \in clashes : Ids(q) = ids}}
  IN  {Conflict("interlocking", Ids(p), Locations(Ids(p))) : p \in clashes}
-----------------------------------------------------------------------------
(* Battery *)

BlocksUpTo(stops, i) == Cardinality({k \in 1 .. i : is_block(stops[k].node_id)})

\* Mutated form: the comparison is turned round, so that only a yard passed earlier
\* rescues.
_yard_reachable_after_passed(stops, current_index) ==
  \E k \in DOMAIN stops : k < current_index /\ is_yard(stops[k].node_id)

_yard_reachable_after(stops, current_index) ==
  \E k \in DOMAIN stops : k > current_index /\ is_yard(stops[k].node_id)

detect_battery_conflicts(snap) ==
  LET Level(i) == snap.departure_battery - BATTERY_COST_PER_BLOCK * BlocksUpTo(snap.stops, i)
      lowWithoutRescue ==
        \E i \in DOMAIN snap.stops :
          /\ is_block(snap.stops[i].node_id)
          /\ Level(i) < BATTERY_THRESHOLD
          /\ ~_yard_reachable_after(snap.stops, i)
      Only(condition, type) ==
        IF condition THEN {Conflict(type, {snap.service_id}, {})} ELSE {}
  IN  Only(snap.departure_battery < BATTERY_MIN_DEPARTURE, "insufficient_charge")
        \cup Only(lowWithoutRescue, "low_battery")
-----------------------------------------------------------------------------
(* One vehicle, several services *)

_snap_window(snap) ==
  [enter |-> snap.stops[1].enter, exit |-> snap.stops[Len(snap.stops)].exit]

FirstNode(snap) == snap.stops[1].node_id
LastNode(snap) == snap.stops[Len(snap.stops)].node_id

\* The order of a vehicle's services: by start, ties by service.
StartsBefore(a, b) ==
  \/ _snap_window(a).enter < _snap_window(b).enter
  \/ _snap_window(a).enter = _snap_window(b).enter /\ a.service_id < b.service_id

OverlapPairs(snapshots) ==
  {p \in snapshots \X snapshots :
     /\ p[1].service_id # p[2].service_id
     /\ p[1].vehicle_id = p[2].vehicle_id
     /\ _intervals_overlap(_snap_window(p[1]), _snap_window(p[2]))}

\* Mutated form: every earlier service must end where a later one starts.
SuccessivePairsAll(snapshots) ==
  {p \in snapshots \X snapshots :
     p[1].vehicle_id = p[2].vehicle_id /\ StartsBefore(p[1], p[2])}

\* The services that follow one another in a vehicle's day.
SuccessivePairs(snapshots) ==
  {p \in snapshots \X snapshots :
     /\ p[1].vehicle_id = p[2].vehicle_id
     /\ StartsBefore(p[1], p[2])
     /\ \A c \in snapshots : c.vehicle_id = p[1].vehicle_id =>
          ~(StartsBefore(p[1], c) /\ StartsBefore(c, p[2]))}

\* Services without stops have no window and are left out.
detect_vehicle_conflicts(snapshots) ==
  LET timed    == {s \in snapshots : s.stops # << >>}
      overlaps == OverlapPairs(timed)
      gaps     == {p \in SuccessivePairs(timed) :
                     /\ ~_intervals_overlap(_snap_window(p[1]), _snap_window(p[2]))
                     /\ LastNode(p[1]) # FirstNode(p[2])}
      Ids(p)   == {p[1].service_id, p[2].service_id}
  IN  {Conflict("vehicle_overlap", Ids(p), {}) : p \in overlaps}
        \cup {Conflict("vehicle_discontinuity", Ids(p), {}) : p \in gaps}

detect_all_conflicts(snapshots) ==
  detect_block_conflicts(snapshots) \cup detect_vehicle_conflicts(snapshots)
    \cup UNION {detect_battery_conflicts(s) : s \in snapshots}
=============================================================================
