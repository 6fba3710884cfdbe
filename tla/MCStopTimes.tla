---------------------------- MODULE MCStopTimes ----------------------------
(***************************************************************************)
(* Builds payloads stop by stop, with and without times on every node, and *)
(* compares what the three expansions of StopTimes make of them.  A block  *)
(* whose configuration row is missing takes the default of 60 seconds.     *)
(* A payload may name one node that is not on the track.                   *)
(***************************************************************************)
EXTENDS StopTimes, PathValidator

CONSTANTS MaxStops,   \* longest payload
          Nodes,      \* the nodes payloads are made of
          Instants,   \* times a payload may give
          Configured, \* the block configurations considered: sets of blocks
          Dwells      \* dwell times the generator is asked for

ASSUME PayloadBoundsAssumption ==
  /\ MaxStops \in Nat /\ Nodes \subseteq STRING /\ Instants \subseteq Nat
  /\ Configured \subseteq SUBSET BLOCKS /\ Dwells \subseteq Nat
  /\ None \notin Nat

VARIABLES
  stops,           \* the payload so far
  known,           \* its stops at nodes of the track
  block_traversal  \* the block configuration, None until it is chosen

payload == <<stops, known, block_traversal>>

Validated == validate_path(NodesOf(stops)) = {} /\ _timing_errors(stops) = {}

PayloadInit == stops = << >> /\ known = << >> /\ block_traversal = None

Configure ==
  /\ block_traversal = None
  /\ block_traversal' \in {[b \in C |-> 30] : C \in Configured}
  /\ UNCHANGED <<stops, known>>

AddStop(node, arrival, departure) ==
  LET stop == StopOf(Len(stops), node, arrival, departure)
  IN  /\ block_traversal # None
      /\ Len(stops) < MaxStops
      /\ Len(known) < 2 \/ validate_path(NodesOf(known)) = {}
      /\ node \in ALL_NODES \/ (Len(known) = Len(stops) /\ arrival = departure)
      /\ stops' = Append(stops, stop)
      /\ known' = IF node \in ALL_NODES THEN Append(known, stop) ELSE known
      /\ UNCHANGED block_traversal

PayloadNext ==
  \/ Configure
  \/ \E node \in Nodes, arrival, departure \in Instants \cup {None} :
       AddStop(node, arrival, departure)
-----------------------------------------------------------------------------
Tuples == _compute_stop_tuples(stops, block_traversal)

\* Rule A4 of DESIGN.md: once validate_path and _timing_errors accept a payload, no
\* node of it is silently dropped on the way to conflict detection, a block is
\* entered the instant the node before it is left, and no node is left early.
ValidatedPayloadKeepsEveryNode ==
  Validated =>
    /\ NodesOf(Tuples) = NodesOf(stops)
    /\ \A i \in DOMAIN Tuples :
         /\ Tuples[i].enter <= Tuples[i].exit
         /\ is_block(Tuples[i].node_id) => Tuples[i].enter = Tuples[i - 1].exit

\* The interval the write path checks and books is the one every reader derives
\* from the stored rows, whatever times the payload gives or leaves out, up to what
\* the two loops make of a node that is not on the track: the write path sees the
\* payload as if it were not there (snapshots.py: "both see the same view of a
\* service").  With validate_path in front, no such node is ever stored.
ExpandersAgree ==
  /\ Tuples = SnapshotStops(known, block_traversal)
  /\ Validated => Tuples = SnapshotStops(stops, block_traversal)

\* What the generator checks for conflicts is what readers later rebuild from the
\* rows it stores for the trip: the block times it leaves out are derived again.
GeneratedTripReadsBack ==
  \A dwell \in Dwells :
    LET trip == _compute_stops(NodesOf(stops), 90, block_traversal, dwell)
    IN  validate_path(NodesOf(stops)) = {} =>
          SnapshotStops(_stored_rows(trip), block_traversal) = trip
=============================================================================
