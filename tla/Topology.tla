------------------------------ MODULE Topology ------------------------------
(***************************************************************************)
(* The fixed track of app/topology.py: a directed graph of one yard, six   *)
(* platforms and fourteen blocks, the interlocking groups of blocks that   *)
(* at most one vehicle may occupy, and the battery constants.              *)
(* Everything here is a constant of the program, so it is a constant       *)
(* definition and not a CONSTANT.                                          *)
(***************************************************************************)
EXTENDS Integers, FiniteSets

YARD == "Y"

PLATFORMS == {"P1A", "P1B", "P2A", "P2B", "P3A", "P3B"}

BLOCKS == {"B1", "B2", "B3", "B4", "B5", "B6", "B7",
           "B8", "B9", "B10", "B11", "B12", "B13", "B14"}

ALL_NODES == PLATFORMS \cup BLOCKS \cup {YARD}

\* The nodes directly reachable from each node.
ADJACENCY ==
  [n \in ALL_NODES |->
     CASE n = "Y"   -> {"B1", "B2"}   [] n = "B1"  -> {"P1A", "Y"}
       [] n = "B2"  -> {"P1B", "Y"}   [] n = "P1A" -> {"B3", "B1"}
       [] n = "P1B" -> {"B4", "B2"}   [] n \in {"B3", "B4"} -> {"B5"}
       [] n = "B5"  -> {"P2A"}        [] n = "P2A" -> {"B6"}
       [] n = "B6"  -> {"B7", "B8"}   [] n = "B7"  -> {"P3A"}
       [] n = "B8"  -> {"P3B"}        [] n = "P3A" -> {"B10"}
       [] n = "P3B" -> {"B9"}         [] n \in {"B9", "B10"} -> {"B11"}
       [] n = "B11" -> {"P2B"}        [] n = "P2B" -> {"B12"}
       [] n = "B12" -> {"B13", "B14"} [] n = "B13" -> {"P1A"}
       [] n = "B14" -> {"P1B"}]

\* Mutated form: B1 and B2 lead away from the yard only.
NextNodesOutbound(node) ==
  IF node \in {"B1", "B2"} THEN ADJACENCY[node] \ {YARD}
  ELSE IF node \in ALL_NODES THEN ADJACENCY[node] ELSE {}

\* ADJACENCY.get(node, []): a node outside the topology leads nowhere.
NextNodes(node) == IF node \in ALL_NODES THEN ADJACENCY[node] ELSE {}

INTERLOCKING_GROUPS ==
  {{"B1", "B2"}, {"B3", "B4", "B13", "B14"}, {"B7", "B8", "B9", "B10"}}

is_block(node) == node \in BLOCKS

is_platform(node) == node \in PLATFORMS

is_yard(node) == node = YARD

\* The group of a block, the empty set standing for None.
interlocking_group_for(block) == UNION {g \in INTERLOCKING_GROUPS : block \in g}

\* Blocks a vehicle can leave towards a node it can be entered from.
BIDIRECTIONAL_BLOCKS ==
  {b \in BLOCKS : \E src \in ALL_NODES : b \in ADJACENCY[src] /\ src \in ADJACENCY[b]}

\* Levels are whole numbers of 1/1200 of a percent, the unit in which both a second
\* of charging (1/12 percent) and a hundredth of a percent are whole.
PERCENT == 1200

BATTERY_INITIAL        == 80 * PERCENT
BATTERY_MAX            == 100 * PERCENT
BATTERY_COST_PER_BLOCK == 1 * PERCENT
BATTERY_THRESHOLD      == 30 * PERCENT
BATTERY_MIN_DEPARTURE  == 80 * PERCENT

\* Per second at the yard.
BATTERY_CHARGE_RATE == PERCENT \div 12

\* BATTERY_BASELINE_EPOCH: an instant before every service.
BATTERY_BASELINE_EPOCH == -1
=============================================================================
