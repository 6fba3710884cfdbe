--------------------------- MODULE PathValidator ---------------------------
(***************************************************************************)
(* app/logic/path_validator.py: the rules a path of node ids must satisfy  *)
(* before a service is stored.  A path is a sequence of node ids; an error *)
(* is a record naming the broken rule and what breaks it, where the code   *)
(* words a message.                                                        *)
(***************************************************************************)
EXTENDS Topology, Sequences

UnknownNodes(nodes) == {i \in DOMAIN nodes : nodes[i] \notin ALL_NODES}

\* Mutated form: the loop over the hops ends one short.
BadHopsShort(nodes) ==
  {i \in 1 .. Len(nodes) - 2 : nodes[i + 1] \notin NextNodes(nodes[i])}

\* The hops along which the track does not lead.
BadHops(nodes) ==
  {i \in 1 .. Len(nodes) - 1 : nodes[i + 1] \notin NextNodes(nodes[i])}

BadStart(nodes) == {i \in {1} : nodes[i] # YARD /\ nodes[i] \notin PLATFORMS}

\* The set of errors of a path: empty means the path is accepted.  Length and
\* unknown nodes are reported alone, the other two rules together.
validate_path(nodes) ==
  IF Len(nodes) < 2 THEN {[rule |-> "length", at |-> 0]}
  ELSE IF UnknownNodes(nodes) # {}
    THEN {[rule |-> "unknown", at |-> i] : i \in UnknownNodes(nodes)}
    ELSE {[rule |-> "start", at |-> i] : i \in BadStart(nodes)}
           \cup {[rule |-> "hop", at |-> i] : i \in BadHops(nodes)}

\* Mutated form: the search stops at the neighbours.
reachable_from_one_hop(start, targets) == targets \subseteq {start} \cup NextNodes(start)

\* Breadth-first search, one layer per step; the graph has fewer layers than nodes.
reachable_from(start, targets) ==
  LET visited[layer \in 0 .. Cardinality(ALL_NODES)] ==
        IF layer = 0 THEN {start}
        ELSE LET seen == visited[layer - 1]
             IN  seen \cup UNION {NextNodes(n) : n \in seen}
  IN  targets \subseteq visited[Cardinality(ALL_NODES)]
=============================================================================
