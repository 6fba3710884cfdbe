----------------------------- MODULE StopTimes -----------------------------
(***************************************************************************)
(* From the stops of a service to the instants its vehicle enters and      *)
(* leaves every node.  Three pieces of code do it: the write path expands  *)
(* the payload it was sent (routers/services.py), every reader expands the *)
(* stored rows (logic/snapshots.py), and the generator times a path it     *)
(* made up itself (logic/schedule_generator.py).                           *)
(*                                                                         *)
(* A stop is a record [sequence, node_id, arrival_time, departure_time].   *)
(* Times are seconds; None is a missing time.                              *)
(***************************************************************************)
EXTENDS Topology, Sequences

CONSTANT None

StopOf(sequence, node_id, arrival_time, departure_time) ==
  [sequence |-> sequence, node_id |-> node_id,
   arrival_time |-> arrival_time, departure_time |-> departure_time]

NodesOf(stops) == [i \in DOMAIN stops |-> stops[i].node_id]

\* Mutated form: a stop may leave its times out.
_timing_errors_optional(stops) ==
  {i \in DOMAIN stops :
     LET stop == stops[i]
     IN  \/ /\ stop.node_id \in PLATFORMS \cup {YARD}
            /\ None \notin {stop.arrival_time, stop.departure_time}
            /\ stop.departure_time < stop.arrival_time
         \/ /\ stop.node_id \in BLOCKS
            /\ {stop.arrival_time, stop.departure_time} # {None}}

\* What _timing_errors reports, by index: a stop needs both times, in order; a
\* block must carry none.
_timing_errors(stops) ==
  {i \in DOMAIN stops :
     LET stop == stops[i]
         missing == None \in {stop.arrival_time, stop.departure_time}
     IN  \/ /\ stop.node_id \in PLATFORMS \cup {YARD}
            /\ missing \/ stop.departure_time < stop.arrival_time
         \/ /\ stop.node_id \in BLOCKS
            /\ {stop.arrival_time, stop.departure_time} # {None}}

\* block_traversal.get(node, 60)
TraversalSeconds(block, block_traversal) ==
  IF block \in DOMAIN block_traversal THEN block_traversal[block] ELSE 60

\* Python's "a or b" on optional times.
OrElse(time, other) == IF time = None THEN other ELSE time

(***************************************************************************)
(* Two loops expand stops, each in a file of its own.  What they keep from *)
(* one stop to the next is the same: the instants so far, and when the     *)
(* vehicle has left the last of them.                                      *)
(***************************************************************************)
Start == [tuples |-> << >>, current |-> None]

\* The node is entered and left, unless one of the instants is unknown: then the stop
\* is skipped.
Visit(before, node, enter, exit) ==
  IF None \in {enter, exit} THEN before
  ELSE [tuples  |-> Append(before.tuples, [node_id |-> node, enter |-> enter, exit |-> exit]),
        current |-> exit]

\* When a block entered now is left.
BlockExit(current, block, block_traversal) ==
  IF current = None THEN None ELSE current + TraversalSeconds(block, block_traversal)

\* A round per stop.  (Taking the loop's state from a singleton makes TLC compute it
\* once per round, also in the next state, where it does not keep the value of a LET.)
Walk(stops, Round(_, _)) ==
  LET walked[i \in 0 .. Len(stops)] ==
        IF i = 0 THEN Start
        ELSE CHOOSE after \in {Round(before, stops[i]) : before \in {walked[i - 1]}} : TRUE
  IN  walked[Len(stops)]

\* Mutated form: a node that is no block is a stop, whatever it is.
WriteRoundElse(before, stop, block_traversal) ==
  IF stop.node_id \in BLOCKS
    THEN Visit(before, stop.node_id, before.current,
               BlockExit(before.current, stop.node_id, block_traversal))
    ELSE LET enter == OrElse(stop.arrival_time, before.current)
         IN  Visit(before, stop.node_id, enter, OrElse(stop.departure_time, enter))

\* A round of the write path: platforms and the yard have times of their own, blocks
\* take theirs from the configuration, and any other node is passed over.
WriteRound(before, stop, block_traversal) ==
  IF stop.node_id \in PLATFORMS \/ stop.node_id = YARD
    THEN LET enter == OrElse(stop.arrival_time, before.current)
         IN  Visit(before, stop.node_id, enter, OrElse(stop.departure_time, enter))
  ELSE IF stop.node_id \in BLOCKS
    THEN Visit(before, stop.node_id, before.current,
               BlockExit(before.current, stop.node_id, block_traversal))
  ELSE before

\* services.py, _compute_stop_tuples.
_compute_stop_tuples(stops, block_traversal) ==
  Walk(stops, LAMBDA before, stop : WriteRound(before, stop, block_traversal)).tuples

\* A round of the readers: everything that is not a block counts as a stop.
SnapshotRound(before, stop, block_traversal) ==
  IF ~is_block(stop.node_id)
    THEN LET enter == OrElse(stop.arrival_time, before.current)
         IN  Visit(before, stop.node_id, enter, OrElse(stop.departure_time, enter))
    ELSE Visit(before, stop.node_id, before.current,
               BlockExit(before.current, stop.node_id, block_traversal))

\* snapshots.py, build_snapshot.
SnapshotStops(stops, block_traversal) ==
  Walk(stops, LAMBDA before, stop : SnapshotRound(before, stop, block_traversal)).tuples

\* schedule_generator.py, _compute_stops.
_compute_stops(path, departure, block_traversal, dwell_seconds) ==
  LET Span(node) == IF is_block(node) THEN TraversalSeconds(node, block_traversal)
                    ELSE IF is_platform(node) THEN dwell_seconds ELSE 0
      left[i \in 0 .. Len(path)] ==
        IF i = 0 THEN departure ELSE left[i - 1] + Span(path[i])
  IN  [i \in DOMAIN path |->
         [node_id |-> path[i], enter |-> left[i - 1], exit |-> left[i]]]

\* Mutated form: the departure time is left to the default.
_stored_rows_no_departure(tuples) ==
  [i \in DOMAIN tuples |->
     IF is_block(tuples[i].node_id) THEN StopOf(i - 1, tuples[i].node_id, None, None)
     ELSE StopOf(i - 1, tuples[i].node_id, tuples[i].enter, None)]

\* The rows the generator stores for a trip: blocks without times.
_stored_rows(tuples) ==
  [i \in DOMAIN tuples |->
     IF is_block(tuples[i].node_id) THEN StopOf(i - 1, tuples[i].node_id, None, None)
     ELSE StopOf(i - 1, tuples[i].node_id, tuples[i].enter, tuples[i].exit)]

_service_start(stop_tuples) == stop_tuples[1].enter

_service_end(stop_tuples) == stop_tuples[Len(stop_tuples)].exit
=============================================================================
