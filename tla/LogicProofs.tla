----------------------------- MODULE LogicProofs -----------------------------
(***************************************************************************)
(* The pure functions of app/logic on inputs of any size: paths and        *)
(* payloads of any length, timetables of any number of services.           *)
(***************************************************************************)
EXTENDS MCLogic, StopTimesProofs, FiniteSetTheorems

(* Paths *)

LEMMA TrackIsFinite == IsFiniteSet(ALL_NODES)
<1>1. ASSUME NEW a, NEW b, NEW c, NEW d PROVE IsFiniteSet({a, b, c, d})
  <2>1. IsFiniteSet({a} \cup {b} \cup {c} \cup {d})
    <3>1. IsFiniteSet({a})
      BY FS_Singleton
    <3>2. IsFiniteSet({a} \cup {b})
      BY <3>1, FS_AddElement
    <3>3. IsFiniteSet({a} \cup {b} \cup {c})
      BY <3>2, FS_AddElement
    <3> QED BY <3>3, FS_AddElement
  <2>2. {a, b, c, d} = {a} \cup {b} \cup {c} \cup {d}
    OBVIOUS
  <2> QED BY <2>1, <2>2
<1>2. ASSUME NEW a, NEW b, NEW c, NEW d, NEW e PROVE IsFiniteSet({a, b, c, d, e})
  <2>1. IsFiniteSet({a, b, c, d} \cup {e})
    BY <1>1, FS_AddElement
  <2>2. {a, b, c, d, e} = {a, b, c, d} \cup {e}
    OBVIOUS
  <2> QED BY <2>1, <2>2
<1>3. /\ PLATFORMS = {"P1A", "P1B", "P2A", "P2B", "P3A"} \cup {"P3B"}
      /\ BLOCKS = {"B1", "B2", "B3", "B4", "B5"} \cup {"B6", "B7", "B8", "B9", "B10"}
                    \cup {"B11", "B12", "B13", "B14"}
  BY DEF PLATFORMS, BLOCKS
<1>4. IsFiniteSet(PLATFORMS)
  BY <1>2, <1>3, FS_AddElement
<1>5. IsFiniteSet(BLOCKS)
  BY <1>1, <1>2, <1>3, FS_Union
<1> QED BY <1>4, <1>5, FS_Union, FS_Singleton DEF ALL_NODES

\* From a node of the track the edges lead to nodes of the track.
LEMMA EdgesStayOnTrack == \A n : NextNodes(n) \subseteq ALL_NODES
  BY DEF NextNodes, ADJACENCY, ALL_NODES, PLATFORMS, BLOCKS, YARD

\* The layers of the breadth-first search.
Layer(seen) == seen \cup UNION {NextNodes(n) : n \in seen}

\* The search is where its layers lead, one per node of the track.
LEMMA SearchWalks ==
  ASSUME NEW start, NEW N \in Nat, N = Cardinality(ALL_NODES)
  PROVE  \E visited :
           /\ visited[0] = {start}
           /\ \A k \in 1 .. N : visited[k] = Layer(visited[k - 1])
           /\ \A targets : reachable_from(start, targets) <=> targets \subseteq visited[N]
<1> DEFINE Walks(w, n) == w = [k \in 0 .. n |-> IF k = 0 THEN {start} ELSE Layer(w[k - 1])]
           T == {n \in Nat : \E w : Walks(w, n)}
<1>1. 0 \in T
  <2>1. Walks([k \in 0 .. 0 |-> {start}], 0)
    OBVIOUS
  <2> QED BY <2>1
<1>2. ASSUME NEW n \in Nat, n \in T PROVE n + 1 \in T
  <2>1. PICK w : Walks(w, n)
    BY <1>2
  <2> DEFINE v == [k \in 0 .. n + 1 |-> IF k <= n THEN w[k] ELSE Layer(w[n])]
  <2>2. ASSUME NEW k \in 0 .. n + 1 PROVE v[k] = IF k = 0 THEN {start} ELSE Layer(v[k - 1])
    <3>1. CASE k = 0
      BY <2>1, <3>1
    <3>2. CASE k \in 1 .. n
      <4>1. k # 0 /\ k <= n /\ k - 1 <= n /\ k - 1 \in 0 .. n + 1 /\ k \in 0 .. n
        BY <3>2
      <4>2. v[k] = w[k] /\ v[k - 1] = w[k - 1]
        BY <4>1
      <4> HIDE DEF v
      <4> QED BY <2>1, <4>1, <4>2
    <3>3. CASE k = n + 1
      <4>1. k # 0 /\ k - 1 = n /\ n \in 0 .. n + 1 /\ ~(k <= n)
        BY <3>3
      <4>2. v[k] = Layer(w[n]) /\ v[n] = w[n]
        BY <4>1
      <4> HIDE DEF v
      <4> QED BY <4>1, <4>2
    <3>4. k = 0 \/ k \in 1 .. n \/ k = n + 1
      OBVIOUS
    <3> HIDE DEF v
    <3> QED BY <3>1, <3>2, <3>3, <3>4
  <2>3. Walks(v, n + 1)
    BY <2>2
  <2> HIDE DEF v
  <2>4. \E u : Walks(u, n + 1)
    BY <2>3
  <2> HIDE DEF Walks
  <2> QED BY <2>4
<1>3. N \in T
  <2> HIDE DEF T
  <2>1. 0 .. N \subseteq T
    BY <1>1, <1>2, InductionUpTo
  <2> QED BY <2>1
<1> DEFINE visited == CHOOSE w : w = [k \in 0 .. N |-> IF k = 0 THEN {start} ELSE Layer(w[k - 1])]
<1>4. visited = [k \in 0 .. N |-> IF k = 0 THEN {start} ELSE Layer(visited[k - 1])]
  <2>1. PICK w : Walks(w, N)
    BY <1>3
  <2> QED BY <2>1
<1>5. ASSUME NEW targets PROVE reachable_from(start, targets) <=> targets \subseteq visited[N]
  BY DEF reachable_from, Layer
<1>6. /\ visited[0] = {start}
      /\ \A k \in 1 .. N : visited[k] = Layer(visited[k - 1])
  <2> HIDE DEF visited, T, Walks
  <2>1. visited[0] = {start}
    BY <1>4
  <2>2. ASSUME NEW k \in 1 .. N PROVE visited[k] = Layer(visited[k - 1])
    <3>1. k \in 0 .. N /\ k # 0
      OBVIOUS
    <3> QED BY <1>4, <3>1
  <2> QED BY <2>1, <2>2
<1> HIDE DEF visited
<1> QED BY <1>5, <1>6

\* The search has visited, by its last layer, a set of nodes that no edge leaves: each
\* layer before that adds a node, and there are no more layers than nodes.
LEMMA SearchIsComplete ==
  ASSUME NEW start \in ALL_NODES
  PROVE  \E found \in SUBSET ALL_NODES :
           /\ start \in found
           /\ \A n \in found : NextNodes(n) \subseteq found
           /\ \A targets : reachable_from(start, targets) <=> targets \subseteq found
<1> DEFINE N == Cardinality(ALL_NODES)
           Closed(S) == \A n \in S : NextNodes(n) \subseteq S
<1>1. N \in Nat
  BY TrackIsFinite, FS_CardinalityType
<1>2. PICK visited :
        /\ visited[0] = {start}
        /\ \A k \in 1 .. N : visited[k] = Layer(visited[k - 1])
        /\ \A targets : reachable_from(start, targets) <=> targets \subseteq visited[N]
  BY <1>1, SearchWalks
<1> HIDE DEF N
<1> DEFINE P(k) == /\ visited[k] \subseteq ALL_NODES /\ start \in visited[k]
                   /\ Closed(visited[k]) \/ Cardinality(visited[k]) >= k + 1
           T == {k \in Nat : P(k)}
<1>3. 0 \in T
  <2>1. Cardinality({start}) = 1
    BY FS_Singleton
  <2>2. Cardinality(visited[0]) >= 0 + 1 /\ visited[0] \subseteq ALL_NODES /\ start \in visited[0]
    BY <1>2, <2>1
  <2> QED BY <2>2
<1>4. ASSUME NEW k \in 0 .. N - 1, k \in T PROVE k + 1 \in T
  <2>1. P(k) /\ k \in Nat /\ k + 1 \in Nat
    BY <1>1, <1>4
  <2>2. visited[k + 1] = Layer(visited[k])
    <3>1. k + 1 \in 1 .. N /\ (k + 1) - 1 = k
      BY <1>1
    <3> HIDE DEF T, P
    <3> QED BY <1>2, <3>1
  <2>3. visited[k + 1] \subseteq ALL_NODES /\ visited[k] \subseteq visited[k + 1]
    BY <2>1, <2>2, EdgesStayOnTrack DEF Layer
  <2>4. CASE Closed(visited[k])
    <3>1. visited[k + 1] = visited[k]
      BY <2>2, <2>4 DEF Layer
    <3> QED BY <2>1, <2>4, <3>1
  <2>5. CASE ~Closed(visited[k])
    <3>1. visited[k + 1] # visited[k]
      BY <2>2, <2>5 DEF Layer
    <3>2. IsFiniteSet(visited[k + 1])
      BY <2>3, TrackIsFinite, FS_Subset
    <3>3. /\ Cardinality(visited[k]) \in Nat /\ Cardinality(visited[k + 1]) \in Nat
          /\ Cardinality(visited[k]) <= Cardinality(visited[k + 1])
          /\ Cardinality(visited[k]) # Cardinality(visited[k + 1])
      BY <2>3, <3>1, <3>2, FS_Subset, FS_CardinalityType
    <3>4. Cardinality(visited[k]) >= k + 1
      BY <2>1, <2>5
    <3>5. Cardinality(visited[k + 1]) >= (k + 1) + 1
      BY <2>1, <3>3, <3>4
    <3> HIDE DEF Closed
    <3> QED BY <2>1, <2>3, <3>5
  <2> QED BY <2>4, <2>5
<1>5. N \in T
  <2> HIDE DEF T
  <2>1. 0 .. N \subseteq T
    BY <1>1, <1>3, <1>4, InductionUpTo
  <2> QED BY <1>1, <2>1
<1>6. Cardinality(visited[N]) <= N /\ Cardinality(visited[N]) \in Nat
  BY <1>5, TrackIsFinite, FS_Subset, FS_CardinalityType DEF N
<1>7. Closed(visited[N])
  BY <1>1, <1>5, <1>6
<1> QED BY <1>2, <1>5, <1>7

\* What validate_path asks of a path.
LEMMA AcceptedPath ==
  ASSUME NEW nodes, Len(nodes) \in Nat, DOMAIN nodes = 1 .. Len(nodes),
         Len(nodes) >= 2, validate_path(nodes) = {}
  PROVE  /\ \A i \in DOMAIN nodes : nodes[i] \in ALL_NODES
         /\ nodes[1] \in PLATFORMS \cup {YARD}
         /\ \A i \in 1 .. Len(nodes) - 1 : nodes[i + 1] \in NextNodes(nodes[i])
<1>1. UnknownNodes(nodes) = {}
  BY DEF validate_path
<1>2. BadStart(nodes) = {} /\ BadHops(nodes) = {}
  BY <1>1 DEF validate_path
<1> QED BY <1>1, <1>2 DEF UnknownNodes, BadStart, BadHops

PathTyped == path \in Seq(ALL_NODES \cup {Unknown})

LEMMA PathInductive ==
  /\ LogicInit => PathTyped
  /\ PathTyped /\ [LogicNext]_logic => PathTyped'
<1>1. LogicInit => PathTyped
  BY DEF LogicInit, PathInit, PathTyped
<1>2. ASSUME PathTyped, [LogicNext]_logic PROVE PathTyped'
  <2>1. ASSUME NEW node \in ALL_NODES \cup {Unknown}, Extend(node) PROVE PathTyped'
    <3> DEFINE Known == ALL_NODES \cup {Unknown}
    <3>1. path \in Seq(Known) /\ node \in Known /\ path' = Append(path, node)
      BY <1>2, <2>1 DEF Extend, PathTyped
    <3> HIDE DEF Known
    <3>2. path' \in Seq(Known)
      BY <3>1
    <3> QED BY <3>2 DEF Known, PathTyped
  <2>2. CASE UNCHANGED path
    BY <1>2, <2>2 DEF PathTyped
  <2> QED BY <1>2, <2>1, <2>2 DEF LogicNext, GrowPath, GrowPayload, GrowTimetable, PathNext, logic
<1> QED BY <1>1, <1>2

\* The nodes of an accepted path of any length are reachable from its first: the
\* search finds every node a vehicle could have walked to.
THEOREM SearchFindsEveryWalk == LogicSpec => []WalkedIsReachable
<1>1. PathTyped => WalkedIsReachable
  <2> SUFFICES ASSUME PathTyped, Accepted PROVE reachable_from(path[1], Range(path))
    BY DEF WalkedIsReachable
  <2>1. /\ Len(path) \in Nat /\ DOMAIN path = 1 .. Len(path) /\ Len(path) >= 2
        /\ validate_path(path) = {}
    BY DEF PathTyped, Accepted
  <2>2. /\ \A i \in DOMAIN path : path[i] \in ALL_NODES
        /\ \A i \in 1 .. Len(path) - 1 : path[i + 1] \in NextNodes(path[i])
    BY <2>1, AcceptedPath
  <2>3. PICK found \in SUBSET ALL_NODES :
          /\ path[1] \in found
          /\ \A n \in found : NextNodes(n) \subseteq found
          /\ \A targets : reachable_from(path[1], targets) <=> targets \subseteq found
    BY <2>1, <2>2, SearchIsComplete
  <2> DEFINE M == Len(path) - 1
             T == {k \in Nat : path[k + 1] \in found}
  <2>4. 0 \in T /\ M \in Nat
    BY <2>1, <2>3
  <2>5. ASSUME NEW k \in 0 .. M - 1, k \in T PROVE k + 1 \in T
    <3>1. k + 1 \in 1 .. Len(path) - 1 /\ path[k + 1] \in found
      BY <2>1, <2>5
    <3>2. path[(k + 1) + 1] \in NextNodes(path[k + 1])
      BY <2>2, <3>1
    <3> QED BY <2>3, <3>1, <3>2
  <2>6. 0 .. M \subseteq T
    <3> HIDE DEF T, M
    <3> QED BY <2>4, <2>5, InductionUpTo
  <2>7. ASSUME NEW i \in DOMAIN path PROVE path[i] \in found
    <3>1. i - 1 \in 0 .. M /\ (i - 1) + 1 = i
      BY <2>1
    <3>2. i - 1 \in T
      BY <2>6, <3>1
    <3> QED BY <3>1, <3>2
  <2> QED BY <2>3, <2>7 DEF Range
<1> QED BY <1>1, PathInductive, PTL DEF LogicSpec

\* From every node of the track a vehicle can get to every platform and to the yard.
LEMMA TrackIsConnected ==
  ASSUME NEW found \in SUBSET ALL_NODES, found # {},
         \A n \in found : NextNodes(n) \subseteq found
  PROVE  Stops \subseteq found
<1>1. \A n \in found : ADJACENCY[n] \subseteq found
  BY DEF NextNodes
<1>2. /\ "Y" \in found => {"B1", "B2"} \subseteq found
      /\ "B1" \in found => {"P1A", "Y"} \subseteq found
      /\ "B2" \in found => {"P1B", "Y"} \subseteq found
      /\ "P1A" \in found => {"B1", "B3"} \subseteq found
      /\ "P1B" \in found => {"B2", "B4"} \subseteq found
      /\ "B3" \in found \/ "B4" \in found => "B5" \in found
  BY <1>1 DEF ADJACENCY, ALL_NODES, PLATFORMS, BLOCKS, YARD
<1>3. /\ "B5" \in found => "P2A" \in found
      /\ "P2A" \in found => "B6" \in found
      /\ "B6" \in found => {"B7", "B8"} \subseteq found
      /\ "B7" \in found => "P3A" \in found
      /\ "B8" \in found => "P3B" \in found
      /\ "P3A" \in found => "B10" \in found
      /\ "P3B" \in found => "B9" \in found
  BY <1>1 DEF ADJACENCY, ALL_NODES, PLATFORMS, BLOCKS, YARD
<1>4. /\ "B9" \in found \/ "B10" \in found => "B11" \in found
      /\ "B11" \in found => "P2B" \in found
      /\ "P2B" \in found => "B12" \in found
      /\ "B12" \in found => {"B13", "B14"} \subseteq found
      /\ "B13" \in found => "P1A" \in found
      /\ "B14" \in found => "P1B" \in found
  BY <1>1 DEF ADJACENCY, ALL_NODES, PLATFORMS, BLOCKS, YARD
<1>5. \E n \in found : n \in {"Y", "P1A", "P1B", "P2A", "P2B", "P3A", "P3B"} \cup BLOCKS
  BY DEF ALL_NODES, PLATFORMS, YARD
<1> QED BY <1>2, <1>3, <1>4, <1>5 DEF Stops, PLATFORMS, BLOCKS, YARD

\* No accepted path, of any length, strands its vehicle.
THEOREM NobodyIsStranded == LogicSpec => []NoDeadEnd
<1>1. PathTyped => NoDeadEnd
  <2> SUFFICES ASSUME PathTyped, Accepted PROVE reachable_from(path[Len(path)], Stops)
    BY DEF NoDeadEnd
  <2>1. path[Len(path)] \in ALL_NODES
    BY AcceptedPath DEF PathTyped, Accepted
  <2> QED BY <2>1, SearchIsComplete, TrackIsConnected
<1> QED BY <1>1, PathInductive, PTL DEF LogicSpec
-----------------------------------------------------------------------------
(* Payloads *)

StopRecord ==
  [sequence : Nat, node_id : Nodes,
   arrival_time : Instants \cup {None}, departure_time : Instants \cup {None}]

\* The payload and the block configuration so far.
PayloadTyped ==
  /\ stops \in Seq(StopRecord) /\ known \in Seq(StopRecord)
  /\ stops # << >> => block_traversal # None
  /\ block_traversal # None => \E C \in Configured : block_traversal = [b \in C |-> 30]

\* So far the write path's loop has come as far with the payload as the readers' loop
\* with its stops on the track, which is all of it unless a node is not on the track.
KnownFollowed ==
  /\ Expansion(TRUE, stops, block_traversal) = Expansion(FALSE, known, block_traversal)
  /\ (\A i \in DOMAIN stops : stops[i].node_id \in ALL_NODES) => known = stops

LEMMA PayloadInductive ==
  /\ LogicInit => PayloadTyped
  /\ PayloadTyped /\ [LogicNext]_logic => PayloadTyped'
<1>1. LogicInit => PayloadTyped
  BY DEF LogicInit, PayloadInit, PayloadTyped
<1>2. ASSUME PayloadTyped, [LogicNext]_logic PROVE PayloadTyped'
  <2>1. CASE PayloadNext
    <3>1. CASE Configure
      BY <1>2, <3>1 DEF Configure, PayloadTyped
    <3>2. ASSUME NEW node \in Nodes, NEW arrival \in Instants \cup {None},
                 NEW departure \in Instants \cup {None}, AddStop(node, arrival, departure)
          PROVE  PayloadTyped'
      <4> DEFINE new == StopOf(Len(stops), node, arrival, departure)
      <4>1. new \in StopRecord
        <5>1. Len(stops) \in Nat
          BY <1>2 DEF PayloadTyped
        <5> QED BY <5>1 DEF StopOf, StopRecord
      <4>2. /\ stops' = Append(stops, new) /\ known' \in {known, Append(known, new)}
            /\ block_traversal' = block_traversal /\ block_traversal # None
        BY <3>2 DEF AddStop
      <4> HIDE DEF new
      <4> QED BY <1>2, <4>1, <4>2 DEF PayloadTyped
    <3> QED BY <2>1, <3>1, <3>2 DEF PayloadNext
  <2>2. CASE UNCHANGED payload
    BY <1>2, <2>2 DEF payload, PayloadTyped
  <2> QED BY <1>2, <2>1, <2>2 DEF LogicNext, GrowPath, GrowPayload, GrowTimetable, logic
<1> QED BY <1>1, <1>2

LEMMA KnownInductive ==
  /\ LogicInit => KnownFollowed
  /\ PayloadTyped /\ KnownFollowed /\ [LogicNext]_logic => KnownFollowed'
<1>1. ASSUME LogicInit PROVE KnownFollowed
  <2>1. Len(stops) = 0 /\ known = stops
    BY <1>1 DEF LogicInit, PayloadInit
  <2> QED BY <2>1, ExpansionOfNothing DEF KnownFollowed
<1>2. ASSUME PayloadTyped, KnownFollowed, [LogicNext]_logic PROVE KnownFollowed'
  <2>1. CASE Configure
    <3>1. /\ stops = << >> /\ known = << >> /\ stops' = stops /\ known' = known
      BY <1>2, <2>1 DEF Configure, PayloadTyped, KnownFollowed
    <3>2. Len(stops') = 0 /\ Len(known') = 0 /\ known' = stops'
      BY <3>1
    <3> QED BY <3>2, ExpansionOfNothing DEF KnownFollowed
  <2>2. ASSUME NEW node \in Nodes, NEW arrival \in Instants \cup {None},
               NEW departure \in Instants \cup {None}, AddStop(node, arrival, departure)
        PROVE  KnownFollowed'
    <3>1. PICK stop : stop = StopOf(Len(stops), node, arrival, departure)
      OBVIOUS
    <3>2. /\ stops' = Append(stops, stop) /\ block_traversal' = block_traversal
          /\ known' = IF node \in ALL_NODES THEN Append(known, stop) ELSE known
      BY <2>2, <3>1 DEF AddStop
    <3>3. /\ stop \in StopRecord /\ stop.node_id = node
          /\ stops \in Seq(StopRecord) /\ known \in Seq(StopRecord)
      <4>1. Len(stops) \in Nat
        BY <1>2 DEF PayloadTyped
      <4> QED BY <1>2, <3>1, <4>1 DEF StopOf, StopRecord, PayloadTyped
    <3>4. PICK written, read : /\ written = Expansion(TRUE, stops, block_traversal)
                               /\ read = Expansion(FALSE, known, block_traversal)
      OBVIOUS
    <3>5. written = read
      BY <1>2, <3>4 DEF KnownFollowed
    <3>6. Expansion(TRUE, stops, block_traversal)' = RoundOf(TRUE, written, stop, block_traversal)
      BY <3>2, <3>3, <3>4, ExpansionGrows
    <3>7. CASE node \in ALL_NODES
      <4>1. Expansion(FALSE, known, block_traversal)' = RoundOf(FALSE, read, stop, block_traversal)
        BY <3>2, <3>3, <3>4, <3>7, ExpansionGrows
      <4>2. RoundOf(TRUE, written, stop, block_traversal) = RoundOf(FALSE, written, stop, block_traversal)
        BY <3>3, <3>7, RoundsAgree
      <4>3. ASSUME \A i \in DOMAIN stops' : stops'[i].node_id \in ALL_NODES PROVE known' = stops'
        <5>1. \A i \in DOMAIN stops : i \in DOMAIN stops' /\ stops'[i] = stops[i]
          BY <3>2, <3>3
        <5>2. known = stops
          BY <1>2, <4>3, <5>1 DEF KnownFollowed
        <5> QED BY <3>2, <3>7, <5>2
      <4> QED BY <3>5, <3>6, <4>1, <4>2, <4>3 DEF KnownFollowed
    <3>8. CASE node \notin ALL_NODES
      <4>1. RoundOf(TRUE, written, stop, block_traversal) = written
        BY <3>3, <3>8, PassedOver
      <4>2. Expansion(FALSE, known, block_traversal)' = read
        BY <3>2, <3>4, <3>8
      <4>3. \E i \in DOMAIN stops' : stops'[i].node_id \notin ALL_NODES
        <5>1. Len(stops) + 1 \in DOMAIN stops' /\ stops'[Len(stops) + 1] = stop
          BY <3>2, <3>3
        <5> QED BY <3>3, <3>8, <5>1
      <4> QED BY <3>5, <3>6, <4>1, <4>2, <4>3 DEF KnownFollowed
    <3> QED BY <3>7, <3>8
  <2>3. CASE UNCHANGED payload
    BY <1>2, <2>3 DEF payload, KnownFollowed
  <2> QED BY <1>2, <2>1, <2>2, <2>3
          DEF LogicNext, GrowPath, GrowPayload, GrowTimetable, PayloadNext, logic
<1> QED BY <1>1, <1>2

\* What the typing gives the expansion.
LEMMA PayloadExpands ==
  ASSUME PayloadTyped
  PROVE  /\ TimesTyped(stops)
         /\ stops # << >> => \A node : TraversalSeconds(node, block_traversal) \in Nat
<1>1. /\ Len(stops) \in Nat /\ DOMAIN stops = 1 .. Len(stops)
      /\ \A i \in DOMAIN stops : stops[i] \in StopRecord
  BY DEF PayloadTyped
<1>2. TimesTyped(stops)
  BY <1>1, PayloadBoundsAssumption DEF TimesTyped, StopRecord
<1>3. ASSUME stops # << >>, NEW node PROVE TraversalSeconds(node, block_traversal) \in Nat
  <2>1. PICK C \in Configured : block_traversal = [b \in C |-> 30]
    BY <1>3 DEF PayloadTyped
  <2> QED BY <2>1 DEF TraversalSeconds
<1> QED BY <1>2, <1>3

\* The nodes of an accepted payload are on the track, and the two loops agree on it.
LEMMA AcceptedAgree ==
  ASSUME PayloadTyped, Validated
  PROVE  /\ Accepts(stops) /\ TimesTyped(stops)
         /\ \A i \in DOMAIN stops : stops[i].node_id \in ALL_NODES
         /\ Tuples = SnapshotStops(stops, block_traversal)
<1>1. Accepts(stops) /\ TimesTyped(stops)
  BY PayloadExpands DEF Validated, Accepts
<1>2. \A i \in DOMAIN stops : stops[i].node_id \in ALL_NODES
  BY <1>1, AcceptedStops
<1>3. Len(stops) \in Nat /\ DOMAIN stops = 1 .. Len(stops)
  BY <1>1 DEF TimesTyped
<1> QED BY <1>1, <1>2, <1>3, SameExpansion DEF Tuples

\* The write path expands a payload of any length, whatever times it gives or leaves
\* out, to the instants every reader derives from its stops on the track; and to those
\* of all its stops, once the payload is accepted.
THEOREM WritersAndReadersAgree == LogicSpec => []ExpandersAgree
<1>1. ASSUME PayloadTyped, KnownFollowed PROVE ExpandersAgree
  <2>1. Tuples = SnapshotStops(known, block_traversal)
    BY <1>1, ExpansionTuples DEF KnownFollowed, Tuples
  <2> QED BY <1>1, <2>1, AcceptedAgree DEF ExpandersAgree
<1> QED BY <1>1, PayloadInductive, KnownInductive, PTL DEF LogicSpec

\* Of a payload of any length that the write path accepts no node is lost, and the
\* vehicle runs through it without a gap.
THEOREM NoNodeIsLost == LogicSpec => []ValidatedPayloadKeepsEveryNode
<1>1. PayloadTyped => ValidatedPayloadKeepsEveryNode
  <2> SUFFICES ASSUME PayloadTyped, Validated
               PROVE  /\ NodesOf(Tuples) = NodesOf(stops)
                      /\ \A i \in DOMAIN Tuples :
                           /\ Tuples[i].enter <= Tuples[i].exit
                           /\ is_block(Tuples[i].node_id) => Tuples[i].enter = Tuples[i - 1].exit
    BY DEF ValidatedPayloadKeepsEveryNode
  <2>1. Accepts(stops) /\ TimesTyped(stops)
    BY PayloadExpands DEF Validated, Accepts
  <2>2. Len(stops) >= 2 /\ stops # << >>
    BY <2>1, AcceptedStops
  <2>3. PICK tuples : tuples = SnapshotStops(stops, block_traversal)
    OBVIOUS
  <2>4. RunsThrough(stops, block_traversal, tuples, Len(stops))
    BY <2>1, <2>2, <2>3, PayloadExpands, AcceptedRunsThrough, PayloadBoundsAssumption
  <2>5. Tuples = tuples
    BY <2>3, AcceptedAgree
  <2> DEFINE Expanded == [node_id : {stops[i].node_id : i \in DOMAIN stops}, enter : Nat, exit : Nat]
  <2>6. tuples \in Seq(Expanded) /\ Len(tuples) = Len(stops)
    BY <2>4 DEF RunsThrough
  <2>7. DOMAIN tuples = 1 .. Len(stops) /\ DOMAIN stops = 1 .. Len(stops)
        /\ \A i \in DOMAIN tuples : tuples[i].enter \in Nat /\ tuples[i].exit \in Nat
    <3>1. DOMAIN tuples = 1 .. Len(stops) /\ \A i \in DOMAIN tuples : tuples[i] \in Expanded
      <4> HIDE DEF Expanded
      <4> QED BY <2>6
    <3> QED BY <2>1, <3>1 DEF TimesTyped
  <2>8. NodesOf(tuples) = NodesOf(stops)
    BY <2>4, <2>7 DEF RunsThrough, NodesOf
  <2>9. ASSUME NEW i \in DOMAIN tuples
        PROVE  /\ tuples[i].enter <= tuples[i].exit
               /\ is_block(tuples[i].node_id) => tuples[i].enter = tuples[i - 1].exit
    <3>1. /\ tuples[i].node_id = stops[i].node_id
          /\ is_block(stops[i].node_id) =>
               /\ tuples[i].enter = tuples[i - 1].exit
               /\ tuples[i].exit = tuples[i].enter + TraversalSeconds(stops[i].node_id, block_traversal)
          /\ ~is_block(stops[i].node_id) => tuples[i].enter <= tuples[i].exit
      BY <2>4, <2>7 DEF RunsThrough
    <3>2. TraversalSeconds(stops[i].node_id, block_traversal) \in Nat
      BY <2>2, PayloadExpands
    <3> QED BY <2>7, <3>1, <3>2
  <2> QED BY <2>5, <2>8, <2>9
<1> QED BY <1>1, PayloadInductive, PTL DEF LogicSpec

\* The trips the generator checks are the trips readers rebuild from the rows it stores,
\* for a path of any length.
THEOREM TripsReadBack == LogicSpec => []GeneratedTripReadsBack
<1>1. PayloadTyped => GeneratedTripReadsBack
  <2> SUFFICES ASSUME PayloadTyped, NEW dwell \in Dwells, validate_path(NodesOf(stops)) = {},
                      NEW trip, trip = _compute_stops(NodesOf(stops), 90, block_traversal, dwell)
               PROVE  SnapshotStops(_stored_rows(trip), block_traversal) = trip
    BY DEF GeneratedTripReadsBack
  <2>1. PICK path_ : path_ = NodesOf(stops)
    OBVIOUS
  <2>2. /\ Len(stops) \in Nat /\ DOMAIN path_ = 1 .. Len(stops) /\ Len(path_) = Len(stops)
        /\ DOMAIN stops = 1 .. Len(stops) /\ path_ = [i \in 1 .. Len(path_) |-> path_[i]]
    BY <2>1 DEF NodesOf, PayloadTyped
  <2>3. stops # << >>
    <3> SUFFICES ASSUME Len(path_) = 0 PROVE FALSE
      BY <2>2
    <3>1. validate_path(path_) = {[rule |-> "length", at |-> 0]}
      BY DEF validate_path
    <3> QED BY <2>1, <3>1
  <2>4. \A node : TraversalSeconds(node, block_traversal) \in Nat
    BY <2>3, PayloadExpands
  <2>5. PICK rows : rows = _stored_rows(trip)
    OBVIOUS
  <2>6. /\ TimesTyped(rows) /\ Accepts(rows) /\ Len(rows) = Len(stops)
        /\ RunsThrough(rows, block_traversal, trip, Len(stops))
    <3>1. /\ Len(path_) \in Nat /\ validate_path(path_) = {} /\ 90 \in Nat /\ dwell \in Nat
          /\ trip = _compute_stops(path_, 90, block_traversal, dwell)
          /\ None \notin Nat
      BY <2>1, <2>2, PayloadBoundsAssumption
    <3>2. PICK traversal : traversal = block_traversal
      OBVIOUS
    <3> QED BY <2>2, <2>4, <2>5, <3>1, <3>2, TripRunsThroughItsRows
  <2>7. RunsThrough(rows, block_traversal, SnapshotStops(rows, block_traversal), Len(stops))
    BY <2>4, <2>6, AcceptedRunsThrough, PayloadBoundsAssumption
  <2> QED BY <2>2, <2>5, <2>6, <2>7, RunsThroughOnce
<1> QED BY <1>1, PayloadInductive, PTL DEF LogicSpec
-----------------------------------------------------------------------------
(* Timetables *)

\* A snapshot as the detectors take it: no time is missing, and no block is left the
\* instant it is entered.
SnapshotTyped(snap) ==
  /\ snap.service_id \in Nat
  /\ Len(snap.stops) \in Nat /\ DOMAIN snap.stops = 1 .. Len(snap.stops)
  /\ snap.departure_battery \in Int
  /\ \A i \in DOMAIN snap.stops :
       /\ snap.stops[i].enter \in Horizon /\ snap.stops[i].exit \in Nat
       /\ is_block(snap.stops[i].node_id) => snap.stops[i].enter < snap.stops[i].exit

\* A vehicle runs a service from its first stop to its last without a gap.
Runs(snap) ==
  /\ Len(snap.stops) \in Nat /\ Len(snap.stops) >= 2 /\ is_block(snap.stops[2].node_id)
  /\ \A i \in DOMAIN snap.stops :
       /\ snap.stops[i].node_id \in ALL_NODES
       /\ snap.stops[i].enter <= snap.stops[i].exit
       /\ i > 1 => snap.stops[i].enter = snap.stops[i - 1].exit

\* More of a path holds no fewer blocks.
LEMMA BlocksAddUp ==
  ASSUME NEW stops_, NEW i \in Nat, NEW j \in Nat, i <= j
  PROVE  /\ BlocksUpTo(stops_, i) \in Nat /\ BlocksUpTo(stops_, j) \in Nat
         /\ BlocksUpTo(stops_, i) <= BlocksUpTo(stops_, j)
         /\ (\A k \in i + 1 .. j : ~is_block(stops_[k].node_id))
              => BlocksUpTo(stops_, i) = BlocksUpTo(stops_, j)
<1> DEFINE Upto(n) == {k \in 1 .. n : is_block(stops_[k].node_id)}
<1>1. IsFiniteSet(1 .. i) /\ IsFiniteSet(1 .. j)
  BY FS_Interval
<1>2. Upto(i) \subseteq Upto(j) /\ Upto(i) \subseteq 1 .. i /\ Upto(j) \subseteq 1 .. j
  OBVIOUS
<1>3. (\A k \in i + 1 .. j : ~is_block(stops_[k].node_id)) => Upto(i) = Upto(j)
  OBVIOUS
<1>4. BlocksUpTo(stops_, i) = Cardinality(Upto(i)) /\ BlocksUpTo(stops_, j) = Cardinality(Upto(j))
  BY DEF BlocksUpTo
<1> HIDE DEF Upto
<1>5. IsFiniteSet(Upto(i)) /\ IsFiniteSet(Upto(j))
  BY <1>1, <1>2, FS_Subset
<1>6. Cardinality(Upto(i)) <= Cardinality(Upto(j))
  BY <1>2, <1>5, FS_Subset
<1> QED BY <1>3, <1>4, <1>5, <1>6, FS_CardinalityType

\* The battery falls below the threshold with no yard ahead.
LowWithoutRescue(snap) ==
  \E i \in DOMAIN snap.stops :
    /\ is_block(snap.stops[i].node_id)
    /\ snap.departure_battery - BATTERY_COST_PER_BLOCK * BlocksUpTo(snap.stops, i) < BATTERY_THRESHOLD
    /\ ~_yard_reachable_after(snap.stops, i)

\* The blocks driven after the last visit to the yard, and the level they end at.
DrivenLast(snap) ==
  {i \in DOMAIN snap.stops :
     /\ is_block(snap.stops[i].node_id)
     /\ \A y \in DOMAIN snap.stops : snap.stops[y].node_id = YARD => i > y}

FinalLevel(snap) ==
  snap.departure_battery - PERCENT * BlocksUpTo(snap.stops, Len(snap.stops))

\* It does so exactly if it ends the last leg too low, whatever the path.
LEMMA LastLegDecides ==
  ASSUME NEW snap, SnapshotTyped(snap)
  PROVE  LowWithoutRescue(snap) <=> DrivenLast(snap) # {} /\ FinalLevel(snap) < 30 * PERCENT
<1> DEFINE N == Len(snap.stops)
           driven == DrivenLast(snap)
           Level(i) == snap.departure_battery - 1200 * BlocksUpTo(snap.stops, i)
<1>1. /\ BATTERY_COST_PER_BLOCK = 1200 /\ PERCENT = 1200 /\ BATTERY_THRESHOLD = 30 * PERCENT
      /\ N \in Nat /\ DOMAIN snap.stops = 1 .. N /\ snap.departure_battery \in Int
      /\ FinalLevel(snap) = Level(N)
  BY DEF FinalLevel, BATTERY_COST_PER_BLOCK, PERCENT, BATTERY_THRESHOLD, SnapshotTyped
<1>2. ASSUME NEW i \in 1 .. N PROVE Level(N) <= Level(i) /\ Level(N) \in Int /\ Level(i) \in Int
  <2>1. /\ BlocksUpTo(snap.stops, i) \in Nat /\ BlocksUpTo(snap.stops, N) \in Nat
        /\ BlocksUpTo(snap.stops, i) <= BlocksUpTo(snap.stops, N)
    BY <1>1, BlocksAddUp
  <2> QED BY <1>1, <2>1
<1>3. \A i \in 1 .. N : is_block(snap.stops[i].node_id) => snap.stops[i].node_id # YARD
  BY DEF is_block, BLOCKS, YARD
<1>4. ASSUME NEW i \in 1 .. N, is_block(snap.stops[i].node_id), Level(i) < 30 * 1200,
             ~_yard_reachable_after(snap.stops, i)
      PROVE  driven # {} /\ Level(N) < 30 * 1200
  <2>1. i \in driven
    <3> SUFFICES ASSUME NEW y \in 1 .. N, snap.stops[y].node_id = YARD PROVE i > y
      BY <1>1, <1>4 DEF DrivenLast
    <3>1. ~(y > i)
      BY <1>1, <1>4 DEF _yard_reachable_after, is_yard
    <3> QED BY <1>3, <1>4, <3>1
  <2>2. Level(N) <= Level(i) /\ Level(N) \in Int /\ Level(i) \in Int
    BY <1>2
  <2> HIDE DEF Level
  <2> QED BY <1>4, <2>1, <2>2
<1>5. ASSUME driven # {}, Level(N) < 30 * 1200
      PROVE  \E i \in 1 .. N : /\ is_block(snap.stops[i].node_id) /\ Level(i) < 30 * 1200
                               /\ ~_yard_reachable_after(snap.stops, i)
  <2>1. driven \in SUBSET (0 .. N)
    BY <1>1 DEF DrivenLast
  <2>2. PICK i \in driven : \A k \in driven : k <= i
    <3>1. N \in Nat
      BY <1>1
    <3> HIDE DEF driven, Level, N
    <3> QED BY <1>5, <2>1, <3>1, GreatestElement
  <2>3. i \in 1 .. N /\ is_block(snap.stops[i].node_id)
        /\ \A y \in 1 .. N : snap.stops[y].node_id = YARD => i > y
    <3>1. i \in DrivenLast(snap) /\ DOMAIN snap.stops = 1 .. N
      BY <1>1
    <3> HIDE DEF driven, Level, N
    <3> QED BY <3>1 DEF DrivenLast
  <2>4. ASSUME NEW k \in i + 1 .. N PROVE ~is_block(snap.stops[k].node_id)
    <3> SUFFICES ASSUME is_block(snap.stops[k].node_id) PROVE FALSE
      OBVIOUS
    <3>1. k \in 1 .. N /\ k > i
      BY <1>1, <2>3
    <3>2. \A y \in 1 .. N : snap.stops[y].node_id = YARD => k > y
      BY <1>1, <2>3, <3>1
    <3>3. k \in driven
      BY <1>1, <3>1, <3>2 DEF DrivenLast
    <3> QED BY <2>2, <2>3, <3>1, <3>3
  <2>5. BlocksUpTo(snap.stops, i) = BlocksUpTo(snap.stops, N)
    <3>1. i \in Nat /\ i <= N /\ \A k \in i + 1 .. N : ~is_block(snap.stops[k].node_id)
      BY <1>1, <2>3, <2>4
    <3>2. N \in Nat
      BY <1>1
    <3> HIDE DEF N
    <3>3. PICK path_ : path_ = snap.stops
      OBVIOUS
    <3>4. BlocksUpTo(path_, i) = BlocksUpTo(path_, N)
      BY <3>1, <3>2, <3>3, BlocksAddUp
    <3> QED BY <3>3, <3>4
  <2>6. ~_yard_reachable_after(snap.stops, i)
    BY <1>1, <2>3 DEF _yard_reachable_after, is_yard
  <2> QED BY <1>5, <2>3, <2>5, <2>6
<1> HIDE DEF Level
<1>6. \A i \in 1 .. N :
        snap.departure_battery - BATTERY_COST_PER_BLOCK * BlocksUpTo(snap.stops, i) = Level(i)
  BY <1>1 DEF Level
<1>7. LowWithoutRescue(snap) <=>
        \E i \in 1 .. N : /\ is_block(snap.stops[i].node_id) /\ Level(i) < 30 * 1200
                          /\ ~_yard_reachable_after(snap.stops, i)
  BY <1>1, <1>6 DEF LowWithoutRescue
<1> HIDE DEF N
<1> QED BY <1>1, <1>4, <1>5, <1>7

LEMMA LowBatteryOf ==
  ASSUME NEW snap, SnapshotTyped(snap)
  PROVE  detect_battery_conflicts(snap) =
           {Conflict("low_battery", {snap.service_id}, {}) : x \in
              IF DrivenLast(snap) # {} /\ FinalLevel(snap) < 30 * PERCENT THEN {1} ELSE {}}
           \cup {Conflict("insufficient_charge", {snap.service_id}, {}) : x \in
              IF snap.departure_battery < 80 * PERCENT THEN {1} ELSE {}}
<1>1. LowWithoutRescue(snap) <=> DrivenLast(snap) # {} /\ FinalLevel(snap) < 30 * PERCENT
  BY LastLegDecides
<1>2. detect_battery_conflicts(snap) =
        (IF snap.departure_battery < BATTERY_MIN_DEPARTURE
           THEN {Conflict("insufficient_charge", {snap.service_id}, {})} ELSE {})
          \cup (IF LowWithoutRescue(snap) THEN {Conflict("low_battery", {snap.service_id}, {})} ELSE {})
  BY DEF detect_battery_conflicts, LowWithoutRescue
<1>3. BATTERY_MIN_DEPARTURE = 80 * PERCENT
  BY DEF BATTERY_MIN_DEPARTURE
<1> QED BY <1>1, <1>2, <1>3

\* The instants of a timetable have an end.
LEMMA FiniteIsBounded ==
  ASSUME NEW S \in SUBSET Nat, IsFiniteSet(S)
  PROVE  \E N \in Nat : S \subseteq 0 .. N
<1> DEFINE n == Cardinality(S)
<1>1. n \in Nat
  BY FS_CardinalityType
<1>2. PICK f : f \in Bijection(1 .. n, S)
  BY FS_CardinalityType DEF ExistsBijection
<1> HIDE DEF n
<1>3. f \in [1 .. n -> S] /\ \A s \in S : \E j \in 1 .. n : f[j] = s
  BY <1>2 DEF Bijection, Surjection
<1> DEFINE T == {k \in Nat : \E N \in Nat : \A j \in 1 .. k : j \in 1 .. n => f[j] <= N}
<1>4. 0 \in T
  OBVIOUS
<1>5. ASSUME NEW k \in 0 .. n - 1, k \in T PROVE k + 1 \in T
  <2>1. PICK N \in Nat : \A j \in 1 .. k : j \in 1 .. n => f[j] <= N
    BY <1>5
  <2>2. k + 1 \in 1 .. n /\ f[k + 1] \in Nat
    <3>1. k + 1 \in 1 .. n
      BY <1>1
    <3>2. f[k + 1] \in S
      BY <1>3, <3>1
    <3> QED BY <3>1, <3>2
  <2>3. PICK M \in Nat : M >= N /\ M >= f[k + 1]
    <3>1. CASE N >= f[k + 1]
      BY <2>2, <3>1
    <3>2. CASE ~(N >= f[k + 1])
      BY <2>2, <3>2
    <3> QED BY <3>1, <3>2
  <2>4. ASSUME NEW j \in 1 .. k + 1, j \in 1 .. n PROVE f[j] <= M
    <3>1. f[j] \in Nat
      BY <1>3, <2>4
    <3>2. CASE j \in 1 .. k
      BY <2>1, <2>3, <2>4, <3>1, <3>2
    <3>3. CASE j = k + 1
      BY <2>3, <3>3
    <3> QED BY <3>2, <3>3
  <2> QED BY <2>4
<1>6. n \in T
  <2> HIDE DEF T
  <2>1. 0 .. n \subseteq T
    BY <1>1, <1>4, <1>5, InductionUpTo
  <2> QED BY <1>1, <2>1
<1>7. PICK N \in Nat : \A j \in 1 .. n : f[j] <= N
  BY <1>6
<1> HIDE DEF T
<1>8. ASSUME NEW s \in S PROVE s \in 0 .. N
  BY <1>3, <1>7
<1> QED BY <1>8

\* The horizon reaches ten instants past every start.
LEMMA HorizonReaches ==
  /\ Horizon \subseteq Nat
  /\ \A start \in Starts, d \in 0 .. 10 : start + d \in Horizon
<1> DEFINE S == Starts \cup {0}
<1>1. S \in SUBSET Nat /\ IsFiniteSet(S) /\ S # {}
  BY TimetableBoundsAssumption, FS_AddElement
<1>2. PICK N \in Nat : S \subseteq 0 .. N
  BY <1>1, FiniteIsBounded
<1>3. \E m \in S : \A s \in S : m >= s
  BY <1>1, <1>2, GreatestElement
<1>4. Max(S) \in S /\ \A s \in S : Max(S) >= s
  <2> HIDE DEF S
  <2> QED BY <1>3 DEF Max
<1>5. Horizon = 0 .. Max(S) + 10
  BY DEF Horizon
<1>6. \A s \in S : s \in Nat
  BY <1>1
<1> DEFINE m == Max(S)
<1>7. m \in Nat /\ \A s \in Starts : m >= s /\ s \in Nat
  BY <1>4, <1>6
<1> HIDE DEF m
<1>8. Horizon = 0 .. m + 10
  BY <1>5 DEF m
<1> QED BY <1>7, <1>8

LEMMA TemplatesFit ==
  ASSUME NEW template \in Templates
  PROVE  /\ Len(template.path) \in 2 .. 5 /\ DOMAIN template.path = 1 .. Len(template.path)
         /\ template.battery \in Int /\ is_block(template.path[2])
         /\ \A i \in 1 .. Len(template.path) :
              /\ template.path[i] \in ALL_NODES
              /\ template.spans[i] \in 0 .. 2
              /\ is_block(template.path[i]) => template.spans[i] > 0
<1> USE DEF is_block, ALL_NODES, BLOCKS, PLATFORMS, YARD, PERCENT
<1>1. CASE template = [path |-> <<"Y", "B1", "P1A">>, spans |-> <<0, 2, 0>>, battery |-> 80 * PERCENT]
  BY <1>1
<1>2. CASE template = [path |-> <<"P1A", "B1", "Y">>, spans |-> <<1, 2, 0>>, battery |-> 79 * PERCENT]
  BY <1>2
<1>3. CASE template = [path |-> <<"Y", "B2", "P1B">>, spans |-> <<0, 1, 0>>, battery |-> 80 * PERCENT]
  BY <1>3
<1>4. CASE template = [path |-> <<"P2B", "B12", "B13", "P1A">>, spans |-> <<0, 1, 1, 0>>,
                       battery |-> 31 * PERCENT]
  BY <1>4
<1>5. CASE template = [path |-> <<"P1A", "B3">>, spans |-> <<0, 2>>, battery |-> 30 * PERCENT]
  BY <1>5
<1>6. CASE template = [path |-> <<"P1A", "B1", "Y", "B1", "P1A">>, spans |-> <<0, 1, 0, 1, 0>>,
                       battery |-> 31 * PERCENT]
  BY <1>6
<1> QED BY <1>1, <1>2, <1>3, <1>4, <1>5, <1>6 DEF Templates

\* A trip of a template lies within the horizon.
LEMMA TripsFit ==
  ASSUME NEW template \in Templates, NEW start \in Starts, NEW trip, trip = Trip(template, start)
  PROVE  /\ Len(trip) \in Nat /\ DOMAIN trip = 1 .. Len(trip)
         /\ Len(trip) >= 2 /\ is_block(trip[2].node_id)
         /\ \A i \in DOMAIN trip :
              /\ trip[i].node_id \in ALL_NODES
              /\ trip[i].enter <= trip[i].exit
              /\ i > 1 => trip[i].enter = trip[i - 1].exit
              /\ trip[i].enter \in Horizon /\ trip[i].exit \in Nat
              /\ is_block(trip[i].node_id) => trip[i].enter < trip[i].exit
<1> DEFINE N == Len(template.path)
           left == CHOOSE w : w = [i \in 0 .. N |-> IF i = 0 THEN start ELSE w[i - 1] + template.spans[i]]
<1>1. N \in 2 .. 5 /\ DOMAIN template.path = 1 .. N
  BY TemplatesFit
<1>2. left = [i \in 0 .. N |-> IF i = 0 THEN start ELSE left[i - 1] + template.spans[i]]
  <2>1. PICK n \in Nat : n = N
    BY <1>1
  <2>2. PICK w : Sums(w, n, start, template.spans)
    BY SumsExist
  <2>3. w = [i \in 0 .. N |-> IF i = 0 THEN start ELSE w[i - 1] + template.spans[i]]
    BY <2>1, <2>2 DEF Sums
  <2> QED BY <2>3
<1>3. trip = [i \in DOMAIN template.path |->
                [node_id |-> template.path[i], enter |-> left[i - 1], exit |-> left[i]]]
  BY DEF Trip
<1> HIDE DEF left, N
<1>4. left[0] = start /\ \A i \in 1 .. N : left[i] = left[i - 1] + template.spans[i]
  BY <1>1, <1>2
<1>5. \A i \in 1 .. N : template.spans[i] \in 0 .. 2 /\ (is_block(template.path[i]) => template.spans[i] > 0)
  BY TemplatesFit DEF N
<1>6. start \in Nat
  BY TimetableBoundsAssumption
<1> DEFINE T == {k \in Nat : left[k] \in start .. start + 2 * k}
<1>7. \A k \in 0 .. N : left[k] \in start .. start + 2 * k
  <2>1. 0 \in T
    BY <1>4, <1>6
  <2>2. ASSUME NEW k \in 0 .. N - 1, k \in T PROVE k + 1 \in T
    <3>1. k + 1 \in 1 .. N /\ (k + 1) - 1 = k /\ k + 1 \in Nat
      BY <1>1
    <3>2. left[k + 1] = left[k] + template.spans[k + 1] /\ template.spans[k + 1] \in 0 .. 2
      BY <1>4, <1>5, <3>1
    <3> QED BY <1>6, <2>2, <3>1, <3>2
  <2> HIDE DEF T
  <2>3. N \in Nat
    BY <1>1
  <2>4. 0 .. N \subseteq T
    BY <2>1, <2>2, <2>3, InductionUpTo
  <2> QED BY <2>4 DEF T
<1> HIDE DEF T
<1>8. ASSUME NEW i \in 1 .. N
      PROVE  /\ left[i - 1] \in Horizon /\ left[i] \in Nat /\ left[i - 1] <= left[i]
             /\ is_block(template.path[i]) => left[i - 1] < left[i]
  <2>1. i - 1 \in 0 .. N /\ i - 1 <= 4 /\ i \in 0 .. N /\ i <= 5
    BY <1>1
  <2>2. left[i - 1] \in start .. start + 2 * (i - 1) /\ left[i] \in start .. start + 2 * i
    BY <1>7, <2>1
  <2>3. left[i - 1] - start \in 0 .. 10 /\ left[i - 1] = start + (left[i - 1] - start)
    BY <1>6, <2>1, <2>2
  <2>4. left[i - 1] \in Horizon
    BY <2>3, HorizonReaches
  <2> QED BY <1>4, <1>5, <1>6, <2>2, <2>4
<1>9. /\ DOMAIN trip = 1 .. N /\ Len(trip) = N
      /\ \A i \in 1 .. N : /\ trip[i].node_id = template.path[i] /\ trip[i].enter = left[i - 1]
                           /\ trip[i].exit = left[i]
  BY <1>1, <1>3
<1>10. \A i \in 1 .. N : i > 1 => trip[i].enter = trip[i - 1].exit
  BY <1>1, <1>9
<1>11. is_block(template.path[2]) /\ \A i \in 1 .. N : template.path[i] \in ALL_NODES
  BY TemplatesFit DEF N
<1>12. Len(trip) >= 2 /\ is_block(trip[2].node_id)
  BY <1>1, <1>9, <1>11
<1> QED BY <1>1, <1>8, <1>9, <1>10, <1>11, <1>12

\* The services added so far, numbered in the order they were added.
TimetableTyped ==
  /\ IsFiniteSet(snapshots)
  /\ \A s \in snapshots :
       /\ SnapshotTyped(s) /\ Runs(s)
       /\ s.service_id \in 1 .. Cardinality(snapshots) /\ s.vehicle_id \in Vehicles
  /\ \A s, t \in snapshots : s.service_id = t.service_id => s = t

LEMMA TimetableInductive ==
  /\ LogicInit => TimetableTyped
  /\ TimetableTyped /\ [LogicNext]_logic => TimetableTyped'
<1>1. LogicInit => TimetableTyped
  BY FS_EmptySet DEF LogicInit, TimetableInit, TimetableTyped
<1>2. ASSUME TimetableTyped, [LogicNext]_logic PROVE TimetableTyped'
  <2>1. ASSUME NEW vehicle \in Vehicles, NEW template \in Templates, NEW start \in Starts,
               AddService(vehicle, template, start)
        PROVE  TimetableTyped'
    <3>1. PICK trip : trip = Trip(template, start)
      OBVIOUS
    <3>2. PICK n : n = Cardinality(snapshots)
      OBVIOUS
    <3>3. n \in Nat
      BY <1>2, <3>2, FS_CardinalityType DEF TimetableTyped
    <3>4. PICK new : new = [service_id |-> n + 1, vehicle_id |-> vehicle, stops |-> trip,
                            departure_battery |-> template.battery]
      OBVIOUS
    <3>5. SnapshotTyped(new) /\ Runs(new)
      BY <3>1, <3>3, <3>4, TripsFit, TemplatesFit DEF SnapshotTyped, Runs
    <3>6. snapshots' = snapshots \cup {new}
      BY <2>1, <3>1, <3>2, <3>4 DEF AddService
    <3>7. new \notin snapshots
      BY <1>2, <3>2, <3>3, <3>4 DEF TimetableTyped
    <3>8. IsFiniteSet(snapshots') /\ Cardinality(snapshots') = n + 1
      BY <1>2, <3>2, <3>6, <3>7, FS_AddElement DEF TimetableTyped
    <3>9. ASSUME NEW s \in snapshots'
          PROVE  /\ SnapshotTyped(s) /\ Runs(s)
                 /\ s.service_id \in 1 .. n + 1 /\ s.vehicle_id \in Vehicles
      BY <1>2, <3>2, <3>3, <3>4, <3>5, <3>6 DEF TimetableTyped
    <3>10. ASSUME NEW s \in snapshots', NEW t \in snapshots', s.service_id = t.service_id PROVE s = t
      <4>1. \A u \in snapshots : u.service_id # new.service_id
        BY <1>2, <3>2, <3>3, <3>4 DEF TimetableTyped
      <4> QED BY <1>2, <3>6, <3>10, <4>1 DEF TimetableTyped
    <3> QED BY <3>8, <3>9, <3>10 DEF TimetableTyped
  <2>2. CASE UNCHANGED snapshots
    BY <1>2, <2>2 DEF TimetableTyped
  <2> QED BY <1>2, <2>1, <2>2 DEF LogicNext, GrowPath, GrowPayload, GrowTimetable, TimetableNext, logic
<1> QED BY <1>1, <1>2

\* In a timetable of any number of services the detector reports a low battery exactly
\* for those that end their last leg below the threshold.
THEOREM LowBatteryIsLastLeg == LogicSpec => []LowBatteryIsTheLastLeg
<1>1. TimetableTyped => LowBatteryIsTheLastLeg
  <2> SUFFICES ASSUME TimetableTyped, NEW s \in snapshots,
                      NEW yards, yards = {i \in DOMAIN s.stops : s.stops[i].node_id = YARD},
                      NEW leg, leg = {i \in DOMAIN s.stops : \A y \in yards : i > y},
                      NEW driven, driven = {i \in leg : is_block(s.stops[i].node_id)},
                      NEW final, final = s.departure_battery - PERCENT * BlocksUpTo(s.stops, Len(s.stops))
               PROVE  detect_battery_conflicts(s) =
                        {Conflict("low_battery", {s.service_id}, {}) : x \in
                           IF driven # {} /\ final < 30 * PERCENT THEN {1} ELSE {}}
                        \cup {Conflict("insufficient_charge", {s.service_id}, {}) : x \in
                           IF s.departure_battery < 80 * PERCENT THEN {1} ELSE {}}
    BY Zenon DEF LowBatteryIsTheLastLeg
  <2>1. driven = DrivenLast(s) /\ final = FinalLevel(s)
    BY DEF DrivenLast, FinalLevel
  <2>2. SnapshotTyped(s)
    BY DEF TimetableTyped
  <2> QED BY <2>1, <2>2, LowBatteryOf
<1> QED BY <1>1, TimetableInductive, PTL DEF LogicSpec
-----------------------------------------------------------------------------
(* The scan over the sorted block intervals *)

\* A timetable as the detectors take it: services of different ids.
Distinct(snaps) ==
  /\ \A s \in snaps : SnapshotTyped(s)
  /\ \A s, t \in snaps : s.service_id = t.service_id => s = t

\* An interval is a service's stay on one block of its path.
LEMMA IntervalsOf ==
  ASSUME NEW snaps, Distinct(snaps)
  PROVE  /\ \A a \in BlockIntervals(snaps) :
              /\ a.service_id \in Nat /\ a.index \in Nat /\ a.enter \in Nat /\ a.exit \in Nat
              /\ a.enter \in Horizon /\ a.enter < a.exit
              /\ \E s \in snaps : \E k \in DOMAIN s.stops :
                   /\ is_block(s.stops[k].node_id)
                   /\ a = [service_id |-> s.service_id, index |-> k, node_id |-> s.stops[k].node_id,
                           enter |-> s.stops[k].enter, exit |-> s.stops[k].exit]
         /\ \A s \in snaps : \A k \in DOMAIN s.stops : is_block(s.stops[k].node_id) =>
              [service_id |-> s.service_id, index |-> k, node_id |-> s.stops[k].node_id,
               enter |-> s.stops[k].enter, exit |-> s.stops[k].exit] \in BlockIntervals(snaps)
<1> DEFINE Interval(s, k) == [service_id |-> s.service_id, index |-> k,
                              node_id |-> s.stops[k].node_id,
                              enter |-> s.stops[k].enter, exit |-> s.stops[k].exit]
<1>1. BlockIntervals(snaps) =
        UNION {{Interval(s, i) : i \in {k \in DOMAIN s.stops : is_block(s.stops[k].node_id)}}
               : s \in snaps}
  BY DEF BlockIntervals
<1>2. ASSUME NEW a \in BlockIntervals(snaps)
      PROVE  \E s \in snaps : \E k \in DOMAIN s.stops :
               is_block(s.stops[k].node_id) /\ a = Interval(s, k)
  <2> HIDE DEF Interval
  <2> QED BY <1>1
<1>3. ASSUME NEW s \in snaps, NEW k \in DOMAIN s.stops, is_block(s.stops[k].node_id)
      PROVE  Interval(s, k) \in BlockIntervals(snaps)
  <2> HIDE DEF Interval
  <2> QED BY <1>1, <1>3
<1>4. ASSUME NEW a \in BlockIntervals(snaps)
      PROVE  /\ a.service_id \in Nat /\ a.index \in Nat /\ a.enter \in Nat /\ a.exit \in Nat
             /\ a.enter \in Horizon /\ a.enter < a.exit
  <2>0. PICK s \in snaps : \E k \in DOMAIN s.stops : is_block(s.stops[k].node_id) /\ a = Interval(s, k)
    BY <1>2
  <2>1. PICK k \in DOMAIN s.stops : is_block(s.stops[k].node_id) /\ a = Interval(s, k)
    BY <2>0
  <2>2. /\ a.service_id = s.service_id /\ a.index = k
        /\ a.enter = s.stops[k].enter /\ a.exit = s.stops[k].exit
    BY <2>1
  <2>3. SnapshotTyped(s)
    BY DEF Distinct
  <2>4. /\ s.service_id \in Nat /\ k \in Nat
        /\ s.stops[k].enter \in Horizon /\ s.stops[k].exit \in Nat
        /\ s.stops[k].enter < s.stops[k].exit
    BY <2>1, <2>3 DEF SnapshotTyped
  <2>5. s.stops[k].enter \in Nat
    BY <2>4, HorizonReaches
  <2> HIDE DEF Interval
  <2> QED BY <2>2, <2>4, <2>5
<1> QED BY <1>2, <1>3, <1>4

\* The scan with its early exit finds two intervals of different services exactly if
\* they overlap.
LEMMA ScanFindsOverlaps ==
  ASSUME NEW snaps, Distinct(snaps), NEW I, I = BlockIntervals(snaps), NEW a \in I, NEW b \in I
  PROVE  Clash(I, a, b) \/ Clash(I, b, a)
           <=> a.service_id # b.service_id /\ _intervals_overlap(a, b)
<1>1. \A c \in I : c.service_id \in Nat /\ c.index \in Nat /\ c.enter \in Nat /\ c.exit \in Nat
  BY IntervalsOf
<1>2. ASSUME NEW x \in I, NEW y \in I, SortedBefore(x, y), _intervals_overlap(x, y)
      PROVE  Scanned(I, x, y)
  <2> SUFFICES ASSUME NEW c \in I, c = y \/ SortedBefore(c, y) PROVE c.enter < x.exit
    BY <1>2 DEF Scanned
  <2>1. c.enter <= y.enter
    BY <1>1 DEF SortedBefore
  <2>2. y.enter < x.exit
    BY <1>2 DEF _intervals_overlap
  <2> QED BY <1>1, <2>1, <2>2
<1>3. a.service_id # b.service_id => SortedBefore(a, b) \/ SortedBefore(b, a)
  BY <1>1 DEF SortedBefore
<1>4. _intervals_overlap(a, b) <=> _intervals_overlap(b, a)
  BY DEF _intervals_overlap
<1> QED BY <1>2, <1>3, <1>4 DEF Clash

\* The blocks two intervals involve do not depend on which is found first.
LEMMA InvolvedEitherWay ==
  ASSUME NEW a, NEW b
  PROVE  /\ InvolvedBlocks(a, b) = InvolvedBlocks(b, a)
         /\ InvolvedBlocks(a, b) =
              IF MayNotMeet(a.node_id, b.node_id) THEN {a.node_id, b.node_id} ELSE {}
<1>1. \A x, y : y \in interlocking_group_for(x) <=> \E g \in INTERLOCKING_GROUPS : {x, y} \subseteq g
  BY DEF interlocking_group_for
<1>2. \A x, y : x = y \/ y \in interlocking_group_for(x) <=> MayNotMeet(x, y)
  BY <1>1 DEF MayNotMeet
<1>3. \A x, y : MayNotMeet(x, y) <=> MayNotMeet(y, x)
  BY DEF MayNotMeet
<1> QED BY <1>2, <1>3 DEF InvolvedBlocks

\* What two services hold at an instant.
LEMMA OccupiedByIntervals ==
  ASSUME NEW snaps, Distinct(snaps), NEW s \in snaps, NEW t
  PROVE  OccupiedAt(s, t) =
           {a.node_id : a \in {x \in BlockIntervals(snaps) :
              x.service_id = s.service_id /\ x.enter <= t /\ t < x.exit}}
<1> DEFINE I == BlockIntervals(snaps)
<1>1. ASSUME NEW n \in OccupiedAt(s, t)
      PROVE  \E a \in I : /\ a.node_id = n /\ a.service_id = s.service_id
                          /\ a.enter <= t /\ t < a.exit
  <2>1. PICK k \in DOMAIN s.stops : /\ is_block(s.stops[k].node_id) /\ n = s.stops[k].node_id
                                    /\ s.stops[k].enter <= t /\ t < s.stops[k].exit
    BY DEF OccupiedAt
  <2>2. PICK a : a = [service_id |-> s.service_id, index |-> k, node_id |-> s.stops[k].node_id,
                      enter |-> s.stops[k].enter, exit |-> s.stops[k].exit]
    OBVIOUS
  <2>3. a \in I
    BY <2>1, <2>2, IntervalsOf
  <2> QED BY <2>1, <2>2, <2>3
<1>2. ASSUME NEW a \in I, a.service_id = s.service_id, a.enter <= t, t < a.exit
      PROVE  a.node_id \in OccupiedAt(s, t)
  <2>0. PICK r \in snaps : \E k \in DOMAIN r.stops :
          /\ is_block(r.stops[k].node_id)
          /\ a = [service_id |-> r.service_id, index |-> k, node_id |-> r.stops[k].node_id,
                  enter |-> r.stops[k].enter, exit |-> r.stops[k].exit]
    BY IntervalsOf
  <2>1. PICK k \in DOMAIN r.stops :
          /\ is_block(r.stops[k].node_id)
          /\ a = [service_id |-> r.service_id, index |-> k, node_id |-> r.stops[k].node_id,
                  enter |-> r.stops[k].enter, exit |-> r.stops[k].exit]
    BY <2>0
  <2>2. r = s
    BY <1>2, <2>1 DEF Distinct
  <2> QED BY <1>2, <2>1, <2>2 DEF OccupiedAt
<1> HIDE DEF I
<1>3. OccupiedAt(s, t) = {a.node_id : a \in {x \in I :
              x.service_id = s.service_id /\ x.enter <= t /\ t < x.exit}}
  BY <1>1, <1>2
<1> QED BY <1>3 DEF I

\* Two services clash on a block exactly if intervals of theirs overlap and involve it.
LEMMA ClashesAreOverlaps ==
  ASSUME NEW snaps, Distinct(snaps), NEW I, I = BlockIntervals(snaps),
         NEW s \in snaps, NEW t \in snaps, NEW n
  PROVE  n \in ClashingBlocks(s, t) <=>
           \E a, b \in I : /\ a.service_id = s.service_id /\ b.service_id = t.service_id
                           /\ _intervals_overlap(a, b) /\ n \in InvolvedBlocks(a, b)
<1>1. \A c \in I : /\ c.enter \in Nat /\ c.exit \in Nat /\ c.enter \in Horizon /\ c.enter < c.exit
  BY IntervalsOf
<1>2. n \in ClashingBlocks(s, t) <=>
        \E i \in Horizon : \E x \in OccupiedAt(s, i), y \in OccupiedAt(t, i) :
          MayNotMeet(x, y) /\ n \in {x, y}
  <2>1. n \in ClashingBlocks(s, t) <=>
          \E i \in Horizon :
            \/ n \in OccupiedAt(s, i) /\ \E c \in OccupiedAt(t, i) : MayNotMeet(n, c)
            \/ n \in OccupiedAt(t, i) /\ \E b \in OccupiedAt(s, i) : MayNotMeet(b, n)
    BY DEF ClashingBlocks
  <2> QED BY <2>1
<1>3. \A r \in snaps : \A i : OccupiedAt(r, i) =
        {a.node_id : a \in {x \in I : x.service_id = r.service_id /\ x.enter <= i /\ i < x.exit}}
  BY OccupiedByIntervals
<1>4. ASSUME NEW i \in Horizon, NEW x \in OccupiedAt(s, i), NEW y \in OccupiedAt(t, i),
             MayNotMeet(x, y), n \in {x, y}
      PROVE  \E a, b \in I : /\ a.service_id = s.service_id /\ b.service_id = t.service_id
                             /\ _intervals_overlap(a, b) /\ n \in InvolvedBlocks(a, b)
  <2>1. PICK a \in I : a.node_id = x /\ a.service_id = s.service_id /\ a.enter <= i /\ i < a.exit
    BY <1>3
  <2>2. PICK b \in I : b.node_id = y /\ b.service_id = t.service_id /\ b.enter <= i /\ i < b.exit
    BY <1>3
  <2>3. i \in Nat
    BY HorizonReaches
  <2>4. _intervals_overlap(a, b)
    BY <1>1, <2>1, <2>2, <2>3 DEF _intervals_overlap
  <2>5. n \in InvolvedBlocks(a, b)
    BY <1>4, <2>1, <2>2, InvolvedEitherWay
  <2> QED BY <2>1, <2>2, <2>4, <2>5
<1>5. ASSUME NEW a \in I, NEW b \in I, a.service_id = s.service_id, b.service_id = t.service_id,
             _intervals_overlap(a, b), n \in InvolvedBlocks(a, b)
      PROVE  \E i \in Horizon : \E x \in OccupiedAt(s, i), y \in OccupiedAt(t, i) :
               MayNotMeet(x, y) /\ n \in {x, y}
  <2>1. PICK i \in Horizon : a.enter <= i /\ i < a.exit /\ b.enter <= i /\ i < b.exit
    <3>1. CASE a.enter <= b.enter
      BY <1>1, <1>5, <3>1 DEF _intervals_overlap
    <3>2. CASE ~(a.enter <= b.enter)
      BY <1>1, <1>5, <3>2 DEF _intervals_overlap
    <3> QED BY <3>1, <3>2
  <2>2. a.node_id \in OccupiedAt(s, i) /\ b.node_id \in OccupiedAt(t, i)
    BY <1>3, <1>5, <2>1
  <2>3. MayNotMeet(a.node_id, b.node_id) /\ n \in {a.node_id, b.node_id}
    BY <1>5, InvolvedEitherWay
  <2> QED BY <2>2, <2>3
<1> QED BY <1>2, <1>4, <1>5

\* The detector reports the pairs of services that hold blocks at one instant that may
\* not be held together, each pair once and with exactly those blocks.
LEMMA BlockConflictsOf ==
  ASSUME NEW snaps, Distinct(snaps)
  PROVE  detect_block_conflicts(snaps) =
           {Conflict("interlocking", {p[1].service_id, p[2].service_id}, ClashingBlocks(p[1], p[2])) :
              p \in {q \in snaps \X snaps :
                       q[1].service_id < q[2].service_id /\ ClashingBlocks(q[1], q[2]) # {}}}
<1> DEFINE I == BlockIntervals(snaps)
           clashes == {p \in I \X I : Clash(I, p[1], p[2]) /\ InvolvedBlocks(p[1], p[2]) # {}}
           Ids(p) == {p[1].service_id, p[2].service_id}
           Locations(ids) == UNION {InvolvedBlocks(p[1], p[2]) : p \in {q \in clashes : Ids(q) = ids}}
           pairs == {q \in snaps \X snaps :
                       q[1].service_id < q[2].service_id /\ ClashingBlocks(q[1], q[2]) # {}}
<1>1. detect_block_conflicts(snaps) = {Conflict("interlocking", Ids(p), Locations(Ids(p))) : p \in clashes}
  BY Zenon DEF detect_block_conflicts
<1>2. \A s \in snaps : s.service_id \in Nat
  BY DEF Distinct, SnapshotTyped
<1>3. \A a \in I : \E s \in snaps : a.service_id = s.service_id
  BY IntervalsOf
<1>4. ASSUME NEW a \in I, NEW b \in I
      PROVE  Clash(I, a, b) \/ Clash(I, b, a)
               <=> a.service_id # b.service_id /\ _intervals_overlap(a, b)
  BY ScanFindsOverlaps
<1>5. ASSUME NEW s \in snaps, NEW t \in snaps, NEW n
      PROVE  n \in ClashingBlocks(s, t) <=>
               \E a, b \in I : /\ a.service_id = s.service_id /\ b.service_id = t.service_id
                               /\ _intervals_overlap(a, b) /\ n \in InvolvedBlocks(a, b)
  BY ClashesAreOverlaps
<1>6. \A a, b : InvolvedBlocks(a, b) = InvolvedBlocks(b, a)
  BY InvolvedEitherWay
<1> HIDE DEF I
<1>7. ASSUME NEW s \in snaps, NEW t \in snaps, s.service_id < t.service_id,
             NEW n
      PROVE  n \in ClashingBlocks(s, t) <=>
               \E p \in clashes : Ids(p) = {s.service_id, t.service_id} /\ n \in InvolvedBlocks(p[1], p[2])
  <2>1. s.service_id # t.service_id
    BY <1>2, <1>7
  <2>2. ASSUME NEW a \in I, NEW b \in I, a.service_id = s.service_id, b.service_id = t.service_id,
               _intervals_overlap(a, b), n \in InvolvedBlocks(a, b)
        PROVE  \E p \in clashes :
                 Ids(p) = {s.service_id, t.service_id} /\ n \in InvolvedBlocks(p[1], p[2])
    <3>1. Clash(I, a, b) \/ Clash(I, b, a)
      BY <1>4, <2>1, <2>2
    <3>2. CASE Clash(I, a, b)
      <4>1. <<a, b>> \in clashes /\ Ids(<<a, b>>) = {s.service_id, t.service_id}
        BY <2>2, <3>2
      <4> QED BY <2>2, <4>1
    <3>3. CASE Clash(I, b, a)
      <4>1. <<b, a>> \in clashes /\ Ids(<<b, a>>) = {s.service_id, t.service_id}
        BY <1>6, <2>2, <3>3
      <4> QED BY <1>6, <2>2, <4>1
    <3> QED BY <3>1, <3>2, <3>3
  <2>3. ASSUME NEW p \in clashes, Ids(p) = {s.service_id, t.service_id}, n \in InvolvedBlocks(p[1], p[2])
        PROVE  \E a, b \in I : /\ a.service_id = s.service_id /\ b.service_id = t.service_id
                               /\ _intervals_overlap(a, b) /\ n \in InvolvedBlocks(a, b)
    <3>1. /\ p[1] \in I /\ p[2] \in I /\ Clash(I, p[1], p[2])
          /\ p[1].service_id # p[2].service_id /\ _intervals_overlap(p[1], p[2])
      BY <1>4
    <3>2. _intervals_overlap(p[2], p[1])
      BY <3>1 DEF _intervals_overlap
    <3>3. \/ p[1].service_id = s.service_id /\ p[2].service_id = t.service_id
          \/ p[2].service_id = s.service_id /\ p[1].service_id = t.service_id
      BY <2>3, <3>1
    <3> HIDE DEF clashes, Ids
    <3> QED BY <1>6, <2>3, <3>1, <3>2, <3>3
  <2> HIDE DEF clashes, Ids
  <2> QED BY <1>5, <2>2, <2>3
<1>8. ASSUME NEW s \in snaps, NEW t \in snaps, s.service_id < t.service_id
      PROVE  ClashingBlocks(s, t) = Locations({s.service_id, t.service_id})
  <2>1. ASSUME NEW n
        PROVE  n \in Locations({s.service_id, t.service_id}) <=>
                 \E p \in clashes : Ids(p) = {s.service_id, t.service_id} /\ n \in InvolvedBlocks(p[1], p[2])
    <3> HIDE DEF clashes, Ids
    <3> QED BY DEF Locations
  <2> HIDE DEF clashes, Ids, Locations
  <2> QED BY <1>7, <1>8, <2>1
<1>9. ASSUME NEW p \in clashes
      PROVE  \E q \in pairs : /\ Ids(p) = Ids(q) /\ Locations(Ids(p)) = ClashingBlocks(q[1], q[2])
  <2>1. /\ p[1] \in I /\ p[2] \in I /\ p[1].service_id # p[2].service_id
        /\ InvolvedBlocks(p[1], p[2]) # {}
    BY <1>4
  <2>2. PICK s \in snaps, t \in snaps : Ids(p) = {s.service_id, t.service_id} /\ s.service_id < t.service_id
    <3>1. PICK x \in snaps, y \in snaps : p[1].service_id = x.service_id /\ p[2].service_id = y.service_id
      BY <1>3, <2>1
    <3>2. CASE x.service_id < y.service_id
      BY <3>1, <3>2
    <3>3. CASE y.service_id < x.service_id
      BY <3>1, <3>3
    <3> QED BY <1>2, <2>1, <3>1, <3>2, <3>3
  <2>3. ClashingBlocks(s, t) # {}
    <3> HIDE DEF clashes, Ids, Locations
    <3> QED BY <1>7, <2>1, <2>2
  <2>4. <<s, t>> \in pairs /\ Ids(<<s, t>>) = Ids(p)
    BY <2>2, <2>3
  <2>5. Locations(Ids(p)) = ClashingBlocks(s, t)
    <3> HIDE DEF clashes, Ids, Locations
    <3> QED BY <1>8, <2>2
  <2> HIDE DEF clashes, Ids, Locations, pairs
  <2> QED BY <2>4, <2>5
<1>10. ASSUME NEW q \in pairs
       PROVE  \E p \in clashes : /\ Ids(p) = Ids(q) /\ Locations(Ids(p)) = ClashingBlocks(q[1], q[2])
  <2>1. q[1] \in snaps /\ q[2] \in snaps /\ q[1].service_id < q[2].service_id
        /\ \E n : n \in ClashingBlocks(q[1], q[2])
    OBVIOUS
  <2>2. PICK p \in clashes : Ids(p) = Ids(q)
    <3> HIDE DEF clashes, Locations, pairs
    <3> QED BY <1>7, <2>1
  <2>3. Locations(Ids(q)) = ClashingBlocks(q[1], q[2])
    BY <1>8, <2>1
  <2> HIDE DEF clashes, Ids, Locations, pairs
  <2> QED BY <2>2, <2>3
<1>11. {Conflict("interlocking", Ids(p), Locations(Ids(p))) : p \in clashes}
         = {Conflict("interlocking", Ids(q), ClashingBlocks(q[1], q[2])) : q \in pairs}
  <2> HIDE DEF clashes, Ids, Locations, pairs
  <2> QED BY <1>9, <1>10
<1> QED BY <1>1, <1>11, Zenon

\* In a timetable of any number of services, the scan with its early exit misses no
\* clash and invents none.
THEOREM ScanIsExact == LogicSpec => []BlockConflictsAreSharedOccupancy
<1>1. TimetableTyped => Distinct(snapshots)
  BY DEF TimetableTyped, Distinct
<1>2. TimetableTyped => BlockConflictsAreSharedOccupancy
  BY <1>1, BlockConflictsOf DEF BlockConflictsAreSharedOccupancy
<1> QED BY <1>2, TimetableInductive, PTL DEF LogicSpec
-----------------------------------------------------------------------------
(* What is shown of a timetable without conflicts *)

LEMMA RunsGoForward ==
  ASSUME NEW snap, SnapshotTyped(snap), Runs(snap)
  PROVE  Forward(snap)
<1>1. /\ Len(snap.stops) \in Nat /\ Len(snap.stops) >= 2 /\ is_block(snap.stops[2].node_id)
      /\ DOMAIN snap.stops = 1 .. Len(snap.stops)
  BY DEF SnapshotTyped, Runs
<1>2. \A i \in DOMAIN snap.stops :
        /\ snap.stops[i].enter \in Nat /\ snap.stops[i].exit \in Nat
        /\ snap.stops[i].enter <= snap.stops[i].exit
        /\ i > 1 => snap.stops[i].enter = snap.stops[i - 1].exit
        /\ is_block(snap.stops[i].node_id) => snap.stops[i].enter < snap.stops[i].exit
  BY HorizonReaches DEF SnapshotTyped, Runs
<1>3. 1 \in DOMAIN snap.stops /\ 2 \in DOMAIN snap.stops /\ 2 > 1 /\ 2 - 1 = 1
  BY <1>1
<1>4. snap.stops[2].enter = snap.stops[1].exit /\ snap.stops[2].enter < snap.stops[2].exit
  BY <1>1, <1>2, <1>3
<1>5. \A i \in DOMAIN snap.stops : i > 1 => snap.stops[i - 1].exit <= snap.stops[i].enter
  BY <1>1, <1>2
<1> QED BY <1>1, <1>2, <1>4, <1>5 DEF Forward

\* Services of one vehicle that the detector finds nothing wrong with follow one
\* another.
LEMMA QuietWindows ==
  ASSUME NEW snaps, Distinct(snaps), \A s \in snaps : Runs(s),
         detect_vehicle_conflicts(snaps) = {},
         NEW a \in snaps, NEW b \in snaps, a # b, a.vehicle_id = b.vehicle_id
  PROVE  \/ _snap_window(a).exit <= _snap_window(b).enter
         \/ _snap_window(b).exit <= _snap_window(a).enter
<1>1. OverlapPairs({s \in snaps : s.stops # << >>}) = {}
  <2>1. {Conflict("vehicle_overlap", {p[1].service_id, p[2].service_id}, {}) :
           p \in OverlapPairs({s \in snaps : s.stops # << >>})} = {}
    BY Zenon DEF detect_vehicle_conflicts
  <2> QED BY <2>1
<1>2. a.stops # << >> /\ b.stops # << >>
  BY DEF Runs
<1>3. a.service_id # b.service_id
  BY DEF Distinct
<1>4. ~_intervals_overlap(_snap_window(a), _snap_window(b))
  <2>1. <<a, b>> \notin OverlapPairs({s \in snaps : s.stops # << >>})
    BY <1>1
  <2> QED BY <1>2, <1>3, <2>1 DEF OverlapPairs
<1>5. Forward(a) /\ Forward(b)
  BY RunsGoForward DEF Distinct
<1> QED BY <1>4, <1>5, WindowHolds DEF _intervals_overlap

\* A vehicle without vehicle conflicts is shown as one thing, and where it is shown
\* traversing a block it occupies that block.
LEMMA ShownOnce ==
  ASSUME TimetableTyped, detect_vehicle_conflicts(snapshots) = {},
         NEW t \in Nat, NEW v \in Vehicles
  PROVE  \E x : /\ Shown(t, "strict")[v] = {x}
                /\ x.status = "traversing_block" =>
                     \E s \in snapshots : s.vehicle_id = v /\ x.current_node \in OccupiedAt(s, t)
<1>1. /\ \A s \in snapshots : SnapshotTyped(s) /\ Runs(s) /\ Forward(s)
      /\ Distinct(snapshots)
  BY RunsGoForward DEF TimetableTyped, Distinct
<1>2. OneAfterAnother({s \in snapshots : s.vehicle_id = v})
  BY <1>1, QuietWindows DEF OneAfterAnother
<1>3. PICK base : base = [w \in Vehicles |-> BATTERY_MAX]
  OBVIOUS
<1>4. ShownAsOne(v, t, base, snapshots, "strict")
  <2>1. v \in DOMAIN base
    BY <1>3
  <2> QED BY <1>2, <2>1, ShownInOnePlace
<1>5. ASSUME NEW s \in snapshots, NEW k \in DOMAIN s.stops, Covers(s.stops[k], t),
             _node_status(s.stops[k].node_id) = "traversing_block"
      PROVE  s.stops[k].node_id \in OccupiedAt(s, t)
  <2>1. is_block(s.stops[k].node_id)
    BY <1>1, <1>5 DEF Runs, _node_status, is_yard, is_platform, is_block, ALL_NODES
  <2> QED BY <1>5, <2>1 DEF OccupiedAt, Covers
<1> QED BY <1>3, <1>4, <1>5 DEF Shown, ShownAsOne

\* To whoever polls the positions, a timetable in which the detectors find nothing shows
\* every vehicle in one place, and no two vehicles on blocks that may not meet.
THEOREM SilentMeansSafeToSee == LogicSpec => []SilentDetectorShowsNoClash
<1>1. TimetableTyped => SilentDetectorShowsNoClash
  <2> SUFFICES ASSUME TimetableTyped,
                      detect_vehicle_conflicts(snapshots) \cup detect_block_conflicts(snapshots) = {},
                      NEW t \in Horizon, NEW shown, shown = Shown(t, "strict")
               PROVE  /\ \A v \in Vehicles : Cardinality(shown[v]) = 1
                      /\ \A v, w \in Vehicles : \A p \in shown[v], q \in shown[w] :
                           (v # w /\ {p.status, q.status} = {"traversing_block"}) =>
                             ~MayNotMeet(p.current_node, q.current_node)
    BY DEF SilentDetectorShowsNoClash
  <2>1. detect_vehicle_conflicts(snapshots) = {} /\ detect_block_conflicts(snapshots) = {}
    OBVIOUS
  <2>2. t \in Nat
    BY HorizonReaches
  <2>3. ASSUME NEW v \in Vehicles
        PROVE  \E x : /\ shown[v] = {x}
                      /\ x.status = "traversing_block" =>
                           \E s \in snapshots :
                             s.vehicle_id = v /\ x.current_node \in OccupiedAt(s, t)
    BY <2>1, <2>2, ShownOnce
  <2>4. ASSUME NEW v \in Vehicles PROVE Cardinality(shown[v]) = 1
    <3>1. PICK x : shown[v] = {x}
      BY <2>3
    <3> QED BY <3>1, FS_Singleton
  <2>5. ASSUME NEW s \in snapshots, NEW r \in snapshots, s.vehicle_id # r.vehicle_id,
               NEW b \in OccupiedAt(s, t), NEW c \in OccupiedAt(r, t)
        PROVE  ~MayNotMeet(b, c)
    <3> DEFINE pairs == {q \in snapshots \X snapshots :
                           q[1].service_id < q[2].service_id /\ ClashingBlocks(q[1], q[2]) # {}}
    <3>1. Distinct(snapshots)
      BY DEF TimetableTyped, Distinct
    <3>2. pairs = {}
      <4>1. {Conflict("interlocking", {p[1].service_id, p[2].service_id}, ClashingBlocks(p[1], p[2])) :
               p \in pairs} = {}
        BY <2>1, <3>1, BlockConflictsOf
      <4> HIDE DEF pairs
      <4> QED BY <4>1
    <3>3. /\ s.service_id \in Nat /\ r.service_id \in Nat /\ s.service_id # r.service_id
      BY <2>5, <3>1 DEF Distinct, SnapshotTyped
    <3>4. ASSUME MayNotMeet(b, c) PROVE ClashingBlocks(s, r) # {} /\ ClashingBlocks(r, s) # {}
      <4>1. MayNotMeet(c, b)
        BY <3>4 DEF MayNotMeet
      <4>2. b \in ClashingBlocks(s, r) /\ c \in ClashingBlocks(r, s)
        BY <3>4, <4>1 DEF ClashingBlocks
      <4> QED BY <4>2
    <3>5. /\ s.service_id < r.service_id => <<s, r>> \notin pairs
          /\ r.service_id < s.service_id => <<r, s>> \notin pairs
      BY <3>2
    <3> QED BY <3>3, <3>4, <3>5
  <2>6. ASSUME NEW v \in Vehicles, NEW w \in Vehicles, NEW p \in shown[v], NEW q \in shown[w],
               v # w, {p.status, q.status} = {"traversing_block"}
        PROVE  ~MayNotMeet(p.current_node, q.current_node)
    <3>1. p.status = "traversing_block" /\ q.status = "traversing_block"
      BY <2>6
    <3>2. PICK s \in snapshots : s.vehicle_id = v /\ p.current_node \in OccupiedAt(s, t)
      BY <2>3, <3>1
    <3>3. PICK r \in snapshots : r.vehicle_id = w /\ q.current_node \in OccupiedAt(r, t)
      BY <2>3, <3>1
    <3> QED BY <2>5, <2>6, <3>2, <3>3
  <2> QED BY <2>4, <2>6
<1> QED BY <1>1, TimetableInductive, PTL DEF LogicSpec

\* In a timetable of any number of services the two levels of a vehicle that is never in
\* two places differ by less than a block: of all its services only the one under way
\* costs differently in the two modes.
THEOREM ModesStayClose == LogicSpec => []ModesDifferByLessThanABlock
<1>1. TimetableTyped => ModesDifferByLessThanABlock
  <2> SUFFICES ASSUME TimetableTyped, NEW v \in Vehicles,
                      NEW snaps, snaps = {s \in snapshots : s.vehicle_id = v},
                      OverlapPairs(snaps) = {}, NEW t \in Horizon,
                      NEW p \in Shown(t, "strict")[v], NEW q \in Shown(t, "simulation")[v]
               PROVE  p.battery_level - q.battery_level \in 0 .. BATTERY_COST_PER_BLOCK - 1
    BY DEF ModesDifferByLessThanABlock
  <2>1. /\ \A s \in snaps : SnapshotTyped(s) /\ Runs(s) /\ Forward(s)
        /\ Distinct(snaps)
    BY RunsGoForward DEF TimetableTyped, Distinct
  <2>2. IsFiniteSet(snaps) /\ t \in Nat
    BY FS_Subset, HorizonReaches DEF TimetableTyped
  <2>3. ASSUME NEW a \in snaps, NEW b \in snaps, a # b
        PROVE  \/ _snap_window(a).exit <= _snap_window(b).enter
               \/ _snap_window(b).exit <= _snap_window(a).enter
    <3>1. a.service_id # b.service_id /\ a.vehicle_id = b.vehicle_id
      BY <2>1, <2>3 DEF Distinct
    <3>2. ~_intervals_overlap(_snap_window(a), _snap_window(b))
      <4>1. <<a, b>> \notin OverlapPairs(snaps)
        OBVIOUS
      <4> QED BY <3>1, <4>1 DEF OverlapPairs
    <3> QED BY <2>1, <3>2, WindowHolds DEF _intervals_overlap
  <2>4. OneAfterAnother(snaps)
    BY <2>1, <2>3 DEF OneAfterAnother
  <2>5. PICK cost :
          /\ \A mode \in PositionMode : cost[mode] = _battery_cost_at(snaps, t, mode) /\ cost[mode] \in Int
          /\ cost["simulation"] - cost["strict"] \in 0 .. BATTERY_COST_PER_BLOCK - 1
    <3>1. PICK cost : cost = [mode \in PositionMode |-> _battery_cost_at(snaps, t, mode)]
      OBVIOUS
    <3>2. cost["simulation"] = _battery_cost_at(snaps, t, "simulation") /\ cost["strict"] = _battery_cost_at(snaps, t, "strict")
      BY <3>1 DEF PositionMode
    <3> QED BY <2>1, <2>2, <2>4, <3>1, <3>2, ModesOfDay DEF PositionMode
  <2>6. ASSUME NEW mode, NEW x \in Shown(t, mode)[v]
        PROVE  x.battery_level = Max({0, BATTERY_MAX - _battery_cost_at(snaps, t, mode)})
    <3>1. PICK base : base = [w \in Vehicles |-> BATTERY_MAX]
      OBVIOUS
    <3>2. x \in compute_positions_at(t, base, snapshots, mode)[v] /\ v \in DOMAIN base /\ base[v] = BATTERY_MAX
      BY <2>6, <3>1 DEF Shown
    <3> QED BY <3>2 DEF compute_positions_at
  <2>7. /\ p.battery_level = Max({0, BATTERY_MAX - cost["strict"]})
        /\ q.battery_level = Max({0, BATTERY_MAX - cost["simulation"]})
    BY <2>5, <2>6 DEF PositionMode
  <2>8. BATTERY_COST_PER_BLOCK = 1200 /\ BATTERY_MAX \in Int
    BY DEF BATTERY_COST_PER_BLOCK, BATTERY_MAX, PERCENT
  <2>9. PICK a \in Int, b \in Int : a = BATTERY_MAX - cost["strict"] /\ b = BATTERY_MAX - cost["simulation"]
    BY <2>5, <2>8 DEF PositionMode
  <2>10. Max({0, a}) = (IF a > 0 THEN a ELSE 0) /\ Max({0, b}) = (IF b > 0 THEN b ELSE 0)
    BY PositiveMax
  <2>11. p.battery_level = (IF a > 0 THEN a ELSE 0) /\ q.battery_level = (IF b > 0 THEN b ELSE 0)
    BY <2>7, <2>9, <2>10
  <2>12. a - b \in 0 .. 1199
    <3>1. cost["strict"] \in Int /\ cost["simulation"] \in Int
      BY <2>5 DEF PositionMode
    <3>2. a - b = cost["simulation"] - cost["strict"]
      BY <2>8, <2>9, <3>1
    <3> QED BY <2>5, <2>8, <3>1, <3>2
  <2>13. (IF a > 0 THEN a ELSE 0) - (IF b > 0 THEN b ELSE 0) \in 0 .. 1199
    BY <2>12
  <2> QED BY <2>8, <2>11, <2>13
<1> QED BY <1>1, TimetableInductive, PTL DEF LogicSpec
-----------------------------------------------------------------------------
(* Orders in which a vehicle can drive its services *)

\* Every service of a set comes once, in the order of the starts.
Sorted(order, n, S) ==
  /\ order \in [1 .. n -> S]
  /\ \A s \in S : \E i \in 1 .. n : order[i] = s
  /\ \A i, j \in 1 .. n : i < j => StartsBefore(order[i], order[j])

\* Some service of a set starts first.
LEMMA FirstStarts ==
  ASSUME NEW snaps, Distinct(snaps), \A s \in snaps : Runs(s), NEW S \in SUBSET snaps, S # {}
  PROVE  \E s \in S : \A r \in S \ {s} : StartsBefore(s, r)
<1> DEFINE From(s) == _snap_window(s).enter
           earliest == {From(s) : s \in S}
<1>1. \A s \in S : From(s) \in Nat /\ s.service_id \in Nat
  BY RunsGoForward, WindowHolds DEF Distinct, SnapshotTyped
<1>2. earliest \subseteq Nat /\ earliest # {}
  BY <1>1
<1>3. PICK m \in earliest : \A e \in earliest : m <= e
  <2> HIDE DEF earliest
  <2> QED BY <1>2, LeastElement
<1> DEFINE ids == {s.service_id : s \in {r \in S : From(r) = m}}
<1>4. ids \subseteq Nat /\ ids # {}
  BY <1>1, <1>3
<1>5. PICK k \in ids : \A i \in ids : k <= i
  <2> HIDE DEF ids
  <2> QED BY <1>4, LeastElement
<1>6. PICK s \in S : From(s) = m /\ s.service_id = k
  OBVIOUS
<1>7. ASSUME NEW r \in S \ {s} PROVE StartsBefore(s, r)
  <2>1. s.service_id # r.service_id /\ From(s) <= From(r)
    BY <1>3, <1>6 DEF Distinct
  <2>2. From(r) = m => k <= r.service_id
    BY <1>5
  <2>3. From(s) \in Nat /\ From(r) \in Nat /\ s.service_id \in Nat /\ r.service_id \in Nat
    BY <1>1
  <2> QED BY <1>6, <2>1, <2>2, <2>3 DEF StartsBefore
<1> QED BY <1>7

\* So a finite set of services can be put in that order.
LEMMA OrderByStart ==
  ASSUME NEW snaps, Distinct(snaps), \A s \in snaps : Runs(s),
         NEW S \in SUBSET snaps, IsFiniteSet(S)
  PROVE  \E order : Sorted(order, Cardinality(S), S)
<1> DEFINE T == {n \in Nat : \A R \in SUBSET snaps :
                   IsFiniteSet(R) /\ Cardinality(R) = n => \E order : Sorted(order, n, R)}
<1>1. 0 \in T
  <2> SUFFICES ASSUME NEW R \in SUBSET snaps, IsFiniteSet(R), Cardinality(R) = 0
               PROVE  \E order : Sorted(order, 0, R)
    OBVIOUS
  <2>1. R = {}
    BY FS_EmptySet
  <2>2. Sorted([i \in 1 .. 0 |-> 0], 0, R)
    BY <2>1 DEF Sorted
  <2> QED BY <2>2
<1>2. ASSUME NEW n \in Nat, n \in T PROVE n + 1 \in T
  <2> SUFFICES ASSUME NEW R \in SUBSET snaps, IsFiniteSet(R), Cardinality(R) = n + 1
               PROVE  \E order : Sorted(order, n + 1, R)
    OBVIOUS
  <2>1. R # {}
    BY FS_EmptySet
  <2>2. PICK s \in R : \A r \in R \ {s} : StartsBefore(s, r)
    BY <2>1, FirstStarts
  <2>3. IsFiniteSet(R \ {s}) /\ Cardinality(R \ {s}) = n
    <3>1. IsFiniteSet(R \ {s}) /\ Cardinality(R \ {s}) = Cardinality(R) - 1
      BY FS_RemoveElement
    <3> QED BY <3>1
  <2>4. PICK later : Sorted(later, n, R \ {s})
    BY <1>2, <2>3
  <2> DEFINE order == [i \in 1 .. n + 1 |-> IF i = 1 THEN s ELSE later[i - 1]]
  <2>5. /\ order[1] = s
        /\ \A i \in 2 .. n + 1 : /\ i - 1 \in 1 .. n /\ order[i] = later[i - 1]
                                /\ order[i] \in R \ {s}
    BY <2>4 DEF Sorted
  <2>6. \A i \in 1 .. n : i + 1 \in 2 .. n + 1 /\ (i + 1) - 1 = i
    OBVIOUS
  <2>7. \A i \in 1 .. n + 1 : i = 1 \/ i \in 2 .. n + 1
    OBVIOUS
  <2>8. order \in [1 .. n + 1 -> R]
    <3>1. \A i \in 1 .. n + 1 : order[i] \in R
      BY <2>5, <2>7
    <3> QED BY <3>1
  <2> HIDE DEF order
  <2>9. ASSUME NEW r \in R PROVE \E i \in 1 .. n + 1 : order[i] = r
    <3>1. CASE r = s
      BY <2>5, <3>1
    <3>2. CASE r # s
      <4>1. PICK i \in 1 .. n : later[i] = r
        BY <2>4, <3>2 DEF Sorted
      <4>2. order[i + 1] = r /\ i + 1 \in 1 .. n + 1
        BY <2>5, <2>6, <4>1
      <4> QED BY <4>2
    <3> QED BY <3>1, <3>2
  <2>10. ASSUME NEW i \in 1 .. n + 1, NEW j \in 1 .. n + 1, i < j
         PROVE  StartsBefore(order[i], order[j])
    <3>1. j \in 2 .. n + 1
      BY <2>10
    <3>2. CASE i = 1
      BY <2>2, <2>5, <3>1, <3>2
    <3>3. CASE i \in 2 .. n + 1
      <4>1. i - 1 < j - 1
        BY <2>10
      <4> QED BY <2>4, <2>5, <3>1, <3>3, <4>1 DEF Sorted
    <3> QED BY <2>7, <3>2, <3>3
  <2> QED BY <2>8, <2>9, <2>10 DEF Sorted
<1> HIDE DEF T
<1>3. PICK n \in Nat : n = Cardinality(S)
  BY FS_CardinalityType
<1>4. 0 .. n \subseteq T
  BY <1>1, <1>2, InductionUpTo
<1>5. n \in T
  BY <1>4
<1> QED BY <1>3, <1>5 DEF T

\* In an order a vehicle can drive, a later service starts when an earlier one has ended.
LEMMA DrivenInOrder ==
  ASSUME NEW S, \A s \in S : SnapshotTyped(s) /\ Runs(s),
         NEW n \in Nat, NEW order \in [1 .. n -> S], Drivable(order),
         NEW i \in 1 .. n, NEW j \in 1 .. n, i < j
  PROVE  /\ _snap_window(order[i]).exit <= _snap_window(order[j]).enter
         /\ j = i + 1 => LastNode(order[i]) = FirstNode(order[j])
<1> DEFINE From(k) == _snap_window(order[k]).enter
           To(k)   == _snap_window(order[k]).exit
<1>1. \A k \in 1 .. n : From(k) \in Nat /\ To(k) \in Nat /\ From(k) < To(k)
  BY RunsGoForward, WindowHolds
<1>2. \A k \in 1 .. n - 1 : To(k) <= From(k + 1) /\ LastNode(order[k]) = FirstNode(order[k + 1])
  <2>1. Len(order) = n
    OBVIOUS
  <2> QED BY <2>1 DEF Drivable
<1> HIDE DEF From, To
<1> DEFINE T == {d \in Nat : i + 1 + d <= n => To(i) <= From(i + 1 + d)}
<1>3. 0 \in T
  <2>1. i \in 1 .. n - 1
    OBVIOUS
  <2> QED BY <1>2, <2>1
<1>4. ASSUME NEW d \in Nat, d \in T PROVE d + 1 \in T
  <2> SUFFICES ASSUME i + 1 + (d + 1) <= n PROVE To(i) <= From(i + 1 + (d + 1))
    OBVIOUS
  <2>1. PICK k \in 1 .. n - 1 : k = i + 1 + d
    OBVIOUS
  <2>2. k \in 1 .. n /\ k + 1 \in 1 .. n /\ k + 1 = i + 1 + (d + 1) /\ i + 1 + d <= n
    BY <2>1
  <2>3. To(i) <= From(k)
    BY <1>4, <2>1, <2>2
  <2>4. From(k) < To(k) /\ To(k) <= From(k + 1)
    BY <1>1, <1>2, <2>2
  <2>5. To(i) <= From(k + 1)
    BY <1>1, <2>2, <2>3, <2>4
  <2> QED BY <2>2, <2>5
<1> HIDE DEF T
<1>5. 0 .. n \subseteq T
  BY <1>3, <1>4, InductionUpTo
<1>6. j - (i + 1) \in 0 .. n /\ i + 1 + (j - (i + 1)) = j
  OBVIOUS
<1>7. To(i) <= From(j)
  <2>1. j - (i + 1) \in T
    BY <1>5, <1>6
  <2>2. i + 1 + (j - (i + 1)) <= n
    BY <1>6
  <2> QED BY <1>6, <2>1, <2>2 DEF T
<1>8. j = i + 1 => LastNode(order[i]) = FirstNode(order[j])
  BY <1>2
<1> QED BY <1>7, <1>8 DEF From, To
\* What the detector says of successive services that do not overlap.
Gaps(timed) ==
  {p \in SuccessivePairs(timed) :
     /\ ~_intervals_overlap(_snap_window(p[1]), _snap_window(p[2]))
     /\ LastNode(p[1]) # FirstNode(p[2])}

LEMMA VehicleConflictsOf ==
  ASSUME NEW snaps, \A s \in snaps : Runs(s)
  PROVE  detect_vehicle_conflicts(snaps) = {} <=> OverlapPairs(snaps) = {} /\ Gaps(snaps) = {}
<1>1. {s \in snaps : s.stops # << >>} = snaps
  BY DEF Runs
<1>2. detect_vehicle_conflicts(snaps) =
        {Conflict("vehicle_overlap", {p[1].service_id, p[2].service_id}, {}) :
           p \in OverlapPairs({s \in snaps : s.stops # << >>})}
        \cup {Conflict("vehicle_discontinuity", {p[1].service_id, p[2].service_id}, {}) :
           p \in Gaps({s \in snaps : s.stops # << >>})}
  BY Zenon DEF detect_vehicle_conflicts, Gaps
<1> QED BY <1>1, <1>2

\* Services of one vehicle in which nothing is found can be driven in the order of their
\* starts.
LEMMA QuietDayIsDrivable ==
  ASSUME NEW snaps, Distinct(snaps), \A s \in snaps : Runs(s),
         detect_vehicle_conflicts(snaps) = {},
         NEW v, NEW S, S = {s \in snaps : s.vehicle_id = v}, IsFiniteSet(S)
  PROVE  \E order \in SetToSeqs(S) : Drivable(order)
<1>1. PICK n \in Nat : n = Cardinality(S)
  BY FS_CardinalityType
<1>2. PICK order : Sorted(order, n, S)
  BY <1>1, OrderByStart
<1>3. /\ order \in [1 .. n -> S] /\ Len(order) = n
      /\ \A i \in 1 .. n : order[i] \in snaps /\ order[i].vehicle_id = v
  BY <1>2 DEF Sorted
<1>4. \A i \in 1 .. n : /\ _snap_window(order[i]).enter \in Nat /\ _snap_window(order[i]).exit \in Nat
                        /\ _snap_window(order[i]).enter < _snap_window(order[i]).exit
                        /\ order[i].service_id \in Nat
  BY <1>3, RunsGoForward, WindowHolds DEF Distinct, SnapshotTyped
<1>5. ASSUME NEW i \in 1 .. n, NEW j \in 1 .. n, i # j PROVE order[i] # order[j]
  <2>1. StartsBefore(order[i], order[j]) \/ StartsBefore(order[j], order[i])
    BY <1>2, <1>5 DEF Sorted
  <2> QED BY <1>4, <2>1 DEF StartsBefore
<1>6. order \in SetToSeqs(S)
  BY <1>1, <1>3, <1>5 DEF SetToSeqs
<1>7. ASSUME NEW i \in 1 .. n - 1
      PROVE  /\ _snap_window(order[i]).exit <= _snap_window(order[i + 1]).enter
             /\ LastNode(order[i]) = FirstNode(order[i + 1])
  <2>1. i \in 1 .. n /\ i + 1 \in 1 .. n /\ i < i + 1 /\ i # i + 1
    OBVIOUS
  <2>2. PICK a \in snaps, b \in snaps : a = order[i] /\ b = order[i + 1]
    BY <1>3, <2>1
  <2>3. a # b /\ a.vehicle_id = v /\ b.vehicle_id = v /\ StartsBefore(a, b)
    BY <1>2, <1>3, <1>5, <2>1, <2>2 DEF Sorted
  <2>4. ASSUME NEW c \in snaps, c.vehicle_id = v PROVE ~(StartsBefore(a, c) /\ StartsBefore(c, b))
    <3>1. PICK k \in 1 .. n : order[k] = c
      BY <1>2, <2>4 DEF Sorted
    <3>2. k <= i \/ i + 1 <= k
      OBVIOUS
    <3>3. CASE k <= i
      <4>1. k = i \/ StartsBefore(c, a)
        BY <1>2, <2>1, <2>2, <3>1, <3>3 DEF Sorted
      <4> QED BY <1>4, <2>1, <2>2, <3>1, <4>1 DEF StartsBefore
    <3>4. CASE i + 1 <= k
      <4>1. k = i + 1 \/ StartsBefore(b, c)
        BY <1>2, <2>1, <2>2, <3>1, <3>4 DEF Sorted
      <4> QED BY <1>4, <2>1, <2>2, <3>1, <4>1 DEF StartsBefore
    <3> QED BY <3>2, <3>3, <3>4
  <2>5. \/ _snap_window(a).exit <= _snap_window(b).enter
        \/ _snap_window(b).exit <= _snap_window(a).enter
    BY <2>3, QuietWindows
  <2>6. _snap_window(a).exit <= _snap_window(b).enter
    BY <1>4, <2>1, <2>2, <2>3, <2>5 DEF StartsBefore
  <2>7. <<a, b>> \in SuccessivePairs(snaps)
    BY <2>3, <2>4 DEF SuccessivePairs
  <2>8. ~_intervals_overlap(_snap_window(a), _snap_window(b))
    BY <1>4, <2>1, <2>2, <2>6 DEF _intervals_overlap
  <2>9. <<a, b>> \notin Gaps(snaps)
    BY VehicleConflictsOf
  <2> QED BY <2>2, <2>6, <2>7, <2>8, <2>9 DEF Gaps
<1>8. Drivable(order)
  BY <1>3, <1>7 DEF Drivable
<1> QED BY <1>6, <1>8

\* Where every vehicle can drive its services in some order, nothing is found.
LEMMA DrivableDayIsQuiet ==
  ASSUME NEW snaps, Distinct(snaps), \A s \in snaps : Runs(s), IsFiniteSet(snaps),
         \A s \in snaps :
           \E order \in SetToSeqs({r \in snaps : r.vehicle_id = s.vehicle_id}) : Drivable(order)
  PROVE  detect_vehicle_conflicts(snaps) = {}
<1>1. ASSUME NEW a \in snaps, NEW b \in snaps, a # b, a.vehicle_id = b.vehicle_id,
             _snap_window(a).enter <= _snap_window(b).enter
      PROVE  /\ ~_intervals_overlap(_snap_window(a), _snap_window(b))
             /\ <<a, b>> \in SuccessivePairs(snaps) => LastNode(a) = FirstNode(b)
  <2>1. PICK S : S = {r \in snaps : r.vehicle_id = a.vehicle_id}
    OBVIOUS
  <2>2. a \in S /\ b \in S /\ S \subseteq snaps /\ IsFiniteSet(S)
    BY <1>1, <2>1, FS_Subset
  <2>3. PICK n \in Nat : n = Cardinality(S)
    BY <2>2, FS_CardinalityType
  <2>4. PICK order \in SetToSeqs(S) : Drivable(order)
    BY <2>1
  <2>5. order \in [1 .. n -> S] /\ \A i, j \in 1 .. n : i # j => order[i] # order[j]
    BY <2>3, <2>4 DEF SetToSeqs
  <2>6. ASSUME NEW s \in S PROVE \E i \in 1 .. n : order[i] = s
    <3> SUFFICES ASSUME \A i \in 1 .. n : order[i] # s PROVE FALSE
      OBVIOUS
    <3>1. order \in [1 .. n -> S \ {s}]
      BY <2>5
    <3>2. IsFiniteSet(S \ {s}) /\ Cardinality(S \ {s}) = Cardinality(S) - 1
      BY <2>2, FS_RemoveElement
    <3>3. IsFiniteSet(1 .. n) /\ Cardinality(1 .. n) = n
      BY FS_Interval
    <3>4. Cardinality(S \ {s}) < Cardinality(1 .. n)
      BY <2>3, <3>2, <3>3
    <3>5. \E x, y \in 1 .. n : x # y /\ order[x] = order[y]
      BY <3>1, <3>2, <3>3, <3>4, FS_PigeonHole
    <3> QED BY <2>5, <3>5
  <2>7. PICK i \in 1 .. n, j \in 1 .. n : order[i] = a /\ order[j] = b
    BY <2>2, <2>6
  <2>8. ASSUME NEW x \in 1 .. n, NEW y \in 1 .. n, x < y
        PROVE  /\ _snap_window(order[x]).enter < _snap_window(order[x]).exit
               /\ _snap_window(order[x]).exit <= _snap_window(order[y]).enter
               /\ _snap_window(order[x]).enter \in Nat /\ _snap_window(order[x]).exit \in Nat
               /\ _snap_window(order[y]).enter \in Nat /\ _snap_window(order[y]).exit \in Nat
               /\ y = x + 1 => LastNode(order[x]) = FirstNode(order[y])
    <3>1. \A s \in S : SnapshotTyped(s) /\ Runs(s) /\ Forward(s)
      BY <2>2, RunsGoForward DEF Distinct
    <3> QED BY <2>4, <2>5, <2>8, <3>1, WindowHolds, DrivenInOrder
  <2>9. i < j
    <3>1. i # j
      BY <1>1, <2>7
    <3>2. ~(j < i)
      BY <1>1, <2>7, <2>8
    <3> QED BY <3>1, <3>2
  <2>10. ~_intervals_overlap(_snap_window(a), _snap_window(b))
    BY <2>7, <2>8, <2>9 DEF _intervals_overlap
  <2>11. ASSUME <<a, b>> \in SuccessivePairs(snaps) PROVE LastNode(a) = FirstNode(b)
    <3>1. \A c \in snaps : c.vehicle_id = a.vehicle_id => ~(StartsBefore(a, c) /\ StartsBefore(c, b))
      BY <2>11 DEF SuccessivePairs
    <3>2. CASE j = i + 1
      BY <2>7, <2>8, <2>9, <3>2
    <3>3. CASE j # i + 1
      <4>1. i + 1 \in 1 .. n /\ i < i + 1 /\ i + 1 < j
        BY <2>9, <3>3
      <4>2. PICK c \in S : c = order[i + 1]
        BY <2>5, <4>1
      <4>3. StartsBefore(a, c)
        BY <2>7, <2>8, <4>1, <4>2 DEF StartsBefore
      <4>4. StartsBefore(c, b)
        BY <2>7, <2>8, <4>1, <4>2 DEF StartsBefore
      <4> QED BY <2>1, <3>1, <4>3, <4>4
    <3> QED BY <3>2, <3>3
  <2> QED BY <2>10, <2>11
<1>2. \A s \in snaps : _snap_window(s).enter \in Nat /\ s.service_id \in Nat
  BY RunsGoForward, WindowHolds DEF Distinct, SnapshotTyped
<1>3. OverlapPairs(snaps) = {}
  <2> SUFFICES ASSUME NEW p \in OverlapPairs(snaps) PROVE FALSE
    OBVIOUS
  <2>1. PICK a \in snaps, b \in snaps :
          /\ a.service_id # b.service_id /\ a.vehicle_id = b.vehicle_id
          /\ _intervals_overlap(_snap_window(a), _snap_window(b))
    BY DEF OverlapPairs
  <2>2. _intervals_overlap(_snap_window(b), _snap_window(a))
    BY <2>1 DEF _intervals_overlap
  <2>3. a # b
    BY <2>1
  <2>4. CASE _snap_window(a).enter <= _snap_window(b).enter
    BY <1>1, <2>1, <2>3, <2>4
  <2>5. CASE _snap_window(b).enter <= _snap_window(a).enter
    BY <1>1, <2>1, <2>2, <2>3, <2>5
  <2> QED BY <1>2, <2>4, <2>5
<1>4. Gaps(snaps) = {}
  <2> SUFFICES ASSUME NEW p \in Gaps(snaps) PROVE FALSE
    OBVIOUS
  <2>1. PICK a \in snaps, b \in snaps : /\ p = <<a, b>> /\ p \in SuccessivePairs(snaps)
                                       /\ LastNode(a) # FirstNode(b)
    BY DEF Gaps, SuccessivePairs
  <2>2. a.vehicle_id = b.vehicle_id /\ StartsBefore(a, b)
    BY <2>1 DEF SuccessivePairs
  <2>3. a # b /\ _snap_window(a).enter <= _snap_window(b).enter
    BY <1>2, <2>2 DEF StartsBefore
  <2>4. LastNode(a) = FirstNode(b)
    BY <1>1, <2>1, <2>2, <2>3
  <2> QED BY <2>1, <2>4
<1> QED BY <1>3, <1>4, VehicleConflictsOf

\* In a timetable of any number of services the detector is silent exactly if every
\* vehicle can drive its services one after the other.
THEOREM SilentIsDrivable == LogicSpec => []VehicleConflictsAreUndrivable
<1>1. TimetableTyped => VehicleConflictsAreUndrivable
  <2> SUFFICES ASSUME TimetableTyped PROVE VehicleConflictsAreUndrivable
    OBVIOUS
  <2>1. Distinct(snapshots) /\ IsFiniteSet(snapshots) /\ \A s \in snapshots : Runs(s)
    BY DEF TimetableTyped, Distinct
  <2>2. ASSUME detect_vehicle_conflicts(snapshots) = {}, NEW v \in Vehicles
        PROVE  \E order \in SetToSeqs({s \in snapshots : s.vehicle_id = v}) : Drivable(order)
    <3>1. PICK S : S = {s \in snapshots : s.vehicle_id = v}
      OBVIOUS
    <3>2. IsFiniteSet(S)
      BY <2>1, <3>1, FS_Subset
    <3> QED BY <2>1, <2>2, <3>1, <3>2, QuietDayIsDrivable
  <2>3. ASSUME \A v \in Vehicles :
                 \E order \in SetToSeqs({s \in snapshots : s.vehicle_id = v}) : Drivable(order)
        PROVE  detect_vehicle_conflicts(snapshots) = {}
    <3>1. \A s \in snapshots : s.vehicle_id \in Vehicles
      BY DEF TimetableTyped
    <3> QED BY <2>1, <2>3, <3>1, DrivableDayIsQuiet
  <2> QED BY <2>2, <2>3 DEF VehicleConflictsAreUndrivable
<1> QED BY <1>1, TimetableInductive, PTL DEF LogicSpec
-----------------------------------------------------------------------------
(* The track, segment by segment *)

LEMMA TwoWayBlocks == "B1" \in BIDIRECTIONAL_BLOCKS /\ "B2" \in BIDIRECTIONAL_BLOCKS
BY DEF BIDIRECTIONAL_BLOCKS, ADJACENCY, ALL_NODES, PLATFORMS, BLOCKS, YARD

\* Along a segment every step is an edge of the graph.
LEMMA SegmentsAreEdges ==
  ASSUME NEW s \in Segments
  PROVE  /\ s \in Seq(ALL_NODES) /\ Len(s) \in 3 .. 4 /\ s[1] \in Stops
         /\ \A k \in 1 .. Len(s) : s[k] \in ALL_NODES
         /\ \A k \in 1 .. Len(s) - 1 : s[k + 1] \in NextNodes(s[k])
         /\ s[2] \in BIDIRECTIONAL_BLOCKS => s[1] \in NextNodes(s[2])
<1>1. ASSUME NEW a \in ALL_NODES, NEW b \in ALL_NODES, NEW c \in ALL_NODES, s = <<a, b, c>>,
             a \in Stops, b \in NextNodes(a), c \in NextNodes(b),
             b \in BIDIRECTIONAL_BLOCKS => a \in NextNodes(b)
      PROVE  /\ s \in Seq(ALL_NODES) /\ Len(s) \in 3 .. 4 /\ s[1] \in Stops
             /\ \A k \in 1 .. Len(s) : s[k] \in ALL_NODES
             /\ \A k \in 1 .. Len(s) - 1 : s[k + 1] \in NextNodes(s[k])
             /\ s[2] \in BIDIRECTIONAL_BLOCKS => s[1] \in NextNodes(s[2])
  BY <1>1
<1>2. ASSUME NEW a \in ALL_NODES, NEW b \in ALL_NODES, NEW c \in ALL_NODES, NEW d \in ALL_NODES,
             s = <<a, b, c, d>>,
             a \in Stops, b \in NextNodes(a), c \in NextNodes(b), d \in NextNodes(c),
             b \in BIDIRECTIONAL_BLOCKS => a \in NextNodes(b)
      PROVE  /\ s \in Seq(ALL_NODES) /\ Len(s) \in 3 .. 4 /\ s[1] \in Stops
             /\ \A k \in 1 .. Len(s) : s[k] \in ALL_NODES
             /\ \A k \in 1 .. Len(s) - 1 : s[k + 1] \in NextNodes(s[k])
             /\ s[2] \in BIDIRECTIONAL_BLOCKS => s[1] \in NextNodes(s[2])
  BY <1>2
<1>3. ASSUME NEW b \in BIDIRECTIONAL_BLOCKS PROVE b \in {"B1", "B2"}
  <2>1. PICK src \in ALL_NODES : b \in NextNodes(src) /\ src \in NextNodes(b) /\ b \in BLOCKS
    BY DEF BIDIRECTIONAL_BLOCKS, NextNodes, ALL_NODES
  <2> QED BY <2>1, EdgesOfTrack DEF BLOCKS
<1>4. /\ \A n \in {"Y", "P1A", "P1B", "P2A", "P2B", "P3A", "P3B"} : n \in Stops /\ n \in ALL_NODES
      /\ \A n \in BLOCKS : n \in ALL_NODES
  BY DEF Stops, PLATFORMS, YARD, ALL_NODES
<1>5. s \in {<<"Y", "B1", "P1A">>, <<"P1A", "B1", "Y">>, <<"Y", "B2", "P1B">>, <<"P1B", "B2", "Y">>} =>
        \E a, b, c \in ALL_NODES :
          /\ s = <<a, b, c>> /\ a \in Stops /\ b \in NextNodes(a) /\ c \in NextNodes(b)
          /\ b \in BIDIRECTIONAL_BLOCKS => a \in NextNodes(b)
  BY <1>4, EdgesOfTrack DEF BLOCKS
<1>6. s \notin {<<"Y", "B1", "P1A">>, <<"P1A", "B1", "Y">>, <<"Y", "B2", "P1B">>, <<"P1B", "B2", "Y">>} =>
        \E a, b, c, d \in ALL_NODES :
          /\ s = <<a, b, c, d>> /\ a \in Stops
          /\ b \in NextNodes(a) /\ c \in NextNodes(b) /\ d \in NextNodes(c)
          /\ b \in BIDIRECTIONAL_BLOCKS => a \in NextNodes(b)
  BY <1>3, <1>4, EdgesOfTrack DEF Segments, BLOCKS
<1> QED BY <1>1, <1>2, <1>5, <1>6

\* From a stop on the edges lead along a segment, or back over a two-way block.
LEMMA EdgesRunAlongSegments ==
  ASSUME NEW a \in Stops
  PROVE  /\ \E s \in Segments : s[1] = a
         /\ \A x \in NextNodes(a) :
              /\ x \notin Stops /\ \E s \in Segments : s[1] = a /\ s[2] = x
              /\ \A y \in NextNodes(x) :
                   \/ y \in Stops /\ <<a, x, y>> \in Segments
                   \/ y \in Stops /\ y = a /\ x \in BIDIRECTIONAL_BLOCKS
                   \/ /\ y \notin Stops
                      /\ \E s \in Segments : Len(s) = 4 /\ s[1] = a /\ s[2] = x /\ s[3] = y
                      /\ \A z \in NextNodes(y) : z \in Stops /\ <<a, x, y, z>> \in Segments
<1> USE EdgesOfTrack, TwoWayBlocks DEF Stops, PLATFORMS, YARD, Segments
<1>1. CASE a = "Y"
  BY <1>1
<1>2. CASE a = "P1A"
  BY <1>2
<1>3. CASE a = "P1B"
  BY <1>3
<1>4. CASE a = "P2A"
  BY <1>4
<1>5. CASE a = "P2B"
  BY <1>5
<1>6. CASE a = "P3A"
  BY <1>6
<1>7. CASE a = "P3B"
  BY <1>7
<1> QED BY <1>1, <1>2, <1>3, <1>4, <1>5, <1>6, <1>7
\* The stops ahead of a position of a path, and the position up to which its piece of
\* the path reaches.
Later(p, i) == {j \in i + 1 .. Len(p) : p[j] \in Stops}

EndOf(p, i) ==
  IF Later(p, i) = {} THEN Len(p)
  ELSE CHOOSE j \in Later(p, i) : \A k \in Later(p, i) : j <= k

LEMMA PiecesOf ==
  ASSUME NEW p
  PROVE  RunsAlongSegments(p) <=>
           /\ p[1] \in Stops
           /\ \A i \in DOMAIN p : p[i] \in Stops =>
                \E s \in Segments :
                  \/ /\ IsPrefix(SubSeq(p, i, EndOf(p, i)), s)
                     /\ Later(p, i) # {} => SubSeq(p, i, EndOf(p, i)) = s
                  \/ /\ SubSeq(p, i, EndOf(p, i)) = <<s[1], s[2], s[1]>>
                     /\ s[2] \in BIDIRECTIONAL_BLOCKS
BY Zenon DEF RunsAlongSegments, EndOf, Later

LEMMA EndsAtStop ==
  ASSUME NEW p, Len(p) \in Nat, NEW i \in 1 .. Len(p)
  PROVE  /\ Later(p, i) = {} => EndOf(p, i) = Len(p)
         /\ Later(p, i) # {} => EndOf(p, i) \in Later(p, i)
         /\ \A e \in Later(p, i) : (\A j \in i + 1 .. e - 1 : p[j] \notin Stops) => EndOf(p, i) = e
<1> DEFINE later == Later(p, i)
<1>1. /\ later \subseteq Nat
      /\ \A j : j \in later <=> j \in i + 1 .. Len(p) /\ p[j] \in Stops
  BY DEF Later
<1>2. EndOf(p, i) = IF later = {} THEN Len(p) ELSE CHOOSE j \in later : \A k \in later : j <= k
  BY Zenon DEF EndOf
<1> HIDE DEF later
<1>3. ASSUME later # {} PROVE EndOf(p, i) \in later /\ \A k \in later : EndOf(p, i) <= k
  <2>1. \E j \in later : \A k \in later : j <= k
    BY <1>1, <1>3, LeastElement
  <2> QED BY <1>2, <1>3, <2>1
<1>4. ASSUME NEW e \in later, \A j \in i + 1 .. e - 1 : p[j] \notin Stops PROVE EndOf(p, i) = e
  <2>1. EndOf(p, i) \in later /\ EndOf(p, i) <= e
    BY <1>3
  <2>2. PICK n : n = EndOf(p, i)
    OBVIOUS
  <2>3. n \in i + 1 .. Len(p) /\ p[n] \in Stops /\ n <= e /\ e \in i + 1 .. Len(p)
    BY <1>1, <2>1, <2>2
  <2>4. n \notin i + 1 .. e - 1
    BY <1>4, <2>3
  <2> QED BY <2>2, <2>3, <2>4
<1> QED BY <1>2, <1>3, <1>4 DEF later

\* Sequences that agree as far as the first reaches.
LEMMA PrefixBy ==
  ASSUME NEW K, NEW s \in Seq(K), NEW t \in Seq(K), Len(s) <= Len(t),
         \A k \in 1 .. Len(s) : s[k] = t[k]
  PROVE  IsPrefix(s, t) /\ (Len(s) = Len(t) => s = t)
<1>1. PICK n \in Nat : n = Len(s)
  OBVIOUS
<1>2. PICK u, w : u = SubSeq(s, 1, n) /\ w = SubSeq(t, 1, n)
  OBVIOUS
<1>3. /\ u \in Seq(K) /\ Len(u) = n /\ \A k \in 1 .. n : u[k] = s[k]
      /\ w \in Seq(K) /\ Len(w) = n /\ \A k \in 1 .. n : w[k] = t[k]
  BY <1>1, <1>2
<1>4. u = w
  BY <1>1, <1>3
<1>5. Len(s) = Len(t) => s = t
  BY <1>1
<1> QED BY <1>1, <1>2, <1>4, <1>5 DEF IsPrefix

\* A piece of a path.
LEMMA PieceOf ==
  ASSUME NEW K, NEW p \in Seq(K), NEW i \in 1 .. Len(p), NEW e \in i .. Len(p)
  PROVE  /\ SubSeq(p, i, e) \in Seq(K) /\ Len(SubSeq(p, i, e)) = e - i + 1
         /\ \A k \in 1 .. e - i + 1 : SubSeq(p, i, e)[k] = p[i + k - 1]
OBVIOUS

LEMMA FirstOfPiece ==
  ASSUME NEW K, NEW p \in Seq(K), NEW i \in 1 .. Len(p), NEW e \in i .. Len(p),
         NEW piece, piece = SubSeq(p, i, e)
  PROVE  /\ piece \in Seq(K) /\ Len(piece) = e - i + 1 /\ piece[1] = p[i]
         /\ e >= i + 1 => piece[2] = p[i + 1]
         /\ e >= i + 2 => piece[3] = p[i + 2]
         /\ e >= i + 3 => piece[4] = p[i + 3]
<1>1. /\ piece \in Seq(K) /\ Len(piece) = e - i + 1
      /\ \A k \in 1 .. e - i + 1 : piece[k] = p[i + k - 1]
  BY PieceOf
<1>2. ASSUME NEW k \in 1 .. 4, e >= i + k - 1 PROVE piece[k] = p[i + k - 1]
  <2>1. k \in 1 .. e - i + 1
    BY <1>2
  <2> QED BY <1>1, <2>1
<1>3. i + 1 - 1 = i /\ i + 2 - 1 = i + 1 /\ i + 3 - 1 = i + 2 /\ i + 4 - 1 = i + 3 /\ e >= i
  OBVIOUS
<1>4. piece[1] = p[i]
  BY <1>2, <1>3
<1>5. e >= i + 1 => piece[2] = p[i + 1]
  BY <1>2, <1>3
<1>6. e >= i + 2 => piece[3] = p[i + 2]
  BY <1>2, <1>3
<1>7. e >= i + 3 => piece[4] = p[i + 3]
  BY <1>2, <1>3
<1> QED BY <1>1, <1>4, <1>5, <1>6, <1>7

\* The beginning of a segment, node by node.
LEMMA BeginsSegment ==
  ASSUME NEW s \in Segments, NEW piece \in Seq(ALL_NODES), Len(piece) \in 1 .. 3,
         piece[1] = s[1], Len(piece) >= 2 => piece[2] = s[2], Len(piece) >= 3 => piece[3] = s[3]
  PROVE  IsPrefix(piece, s)
<1>1. s \in Seq(ALL_NODES) /\ Len(s) \in 3 .. 4
  BY SegmentsAreEdges
<1>2. Len(piece) <= Len(s)
  BY <1>1
<1>3. ASSUME NEW k \in 1 .. Len(piece) PROVE piece[k] = s[k]
  <2>1. PICK n \in 1 .. 3 : n = Len(piece)
    OBVIOUS
  <2>2. k \in 1 .. n
    BY <2>1
  <2>3. (k = 1) \/ (k = 2 /\ n >= 2) \/ (k = 3 /\ n >= 3)
    BY <2>2
  <2> QED BY <2>1, <2>3
<1> QED BY <1>1, <1>2, <1>3, PrefixBy
\* A path of edges from stop to stop follows the segments.
LEMMA EdgesMakePieces ==
  ASSUME NEW p \in Seq(ALL_NODES), NEW i \in 1 .. Len(p), p[i] \in Stops,
         \A j \in 1 .. Len(p) - 1 : p[j + 1] \in NextNodes(p[j])
  PROVE  \E s \in Segments :
           \/ /\ IsPrefix(SubSeq(p, i, EndOf(p, i)), s)
              /\ Later(p, i) # {} => SubSeq(p, i, EndOf(p, i)) = s
           \/ /\ SubSeq(p, i, EndOf(p, i)) = <<s[1], s[2], s[1]>>
              /\ s[2] \in BIDIRECTIONAL_BLOCKS
<1>1. PICK N \in Nat : N = Len(p)
  OBVIOUS
<1>2. PICK a \in Stops : a = p[i]
  OBVIOUS
<1>3. PICK piece : piece = SubSeq(p, i, EndOf(p, i))
  OBVIOUS
<1>4. ASSUME NEW e \in i .. N, EndOf(p, i) = e
      PROVE  /\ piece \in Seq(ALL_NODES) /\ Len(piece) = e - i + 1 /\ piece[1] = p[i]
             /\ e >= i + 1 => piece[2] = p[i + 1]
             /\ e >= i + 2 => piece[3] = p[i + 2]
             /\ e >= i + 3 => piece[4] = p[i + 3]
  <2>1. e \in i .. Len(p) /\ piece = SubSeq(p, i, e)
    BY <1>1, <1>3, <1>4
  <2> QED BY <2>1, FirstOfPiece
<1>5. ASSUME NEW k \in Nat, i + k <= N, EndOf(p, i) = i + k
      PROVE  /\ piece \in Seq(ALL_NODES) /\ Len(piece) = k + 1 /\ piece[1] = p[i]
             /\ k >= 1 => piece[2] = p[i + 1]
             /\ k >= 2 => piece[3] = p[i + 2]
             /\ k >= 3 => piece[4] = p[i + 3]
  <2>1. PICK e \in i .. N : e = i + k
    BY <1>5
  <2>2. /\ piece \in Seq(ALL_NODES) /\ Len(piece) = e - i + 1 /\ piece[1] = p[i]
        /\ e >= i + 1 => piece[2] = p[i + 1]
        /\ e >= i + 2 => piece[3] = p[i + 2]
        /\ e >= i + 3 => piece[4] = p[i + 3]
    <3>1. EndOf(p, i) = e
      BY <1>5, <2>1
    <3> QED BY <1>4, <3>1
  <2>3. e - i + 1 = k + 1 /\ (k >= 1 => e >= i + 1) /\ (k >= 2 => e >= i + 2) /\ (k >= 3 => e >= i + 3)
    BY <2>1
  <2> QED BY <2>2, <2>3
<1>6. \A j \in Later(p, i) : j \in i + 1 .. N /\ p[j] \in Stops
  BY <1>1 DEF Later
<1>7. CASE i = N
  <2>1. Later(p, i) = {}
    BY <1>6, <1>7
  <2>2. EndOf(p, i) = N
    BY <1>1, <2>1, EndsAtStop
  <2>3. PICK s \in Segments : s[1] = a
    BY EdgesRunAlongSegments
  <2>4. piece \in Seq(ALL_NODES) /\ Len(piece) = 1 /\ piece[1] = p[i]
    <3>1. N \in i .. N /\ N - i + 1 = 1
      BY <1>1, <1>7
    <3> QED BY <1>4, <2>2, <3>1
  <2>5. IsPrefix(piece, s)
    BY <1>2, <2>3, <2>4, BeginsSegment
  <2> QED BY <1>3, <2>1, <2>5
<1>8. CASE i < N
  <2>1. i + 1 \in 1 .. N /\ i \in 1 .. N - 1
    BY <1>1, <1>8
  <2>2. PICK x \in NextNodes(a) : x = p[i + 1]
    BY <1>1, <1>2, <2>1
  <2>3. x \notin Stops
    BY EdgesRunAlongSegments
  <2>4. CASE i + 1 = N
    <3>1. Later(p, i) = {}
      BY <1>6, <2>2, <2>3, <2>4
    <3>2. EndOf(p, i) = N
      BY <1>1, <3>1, EndsAtStop
    <3>3. PICK s \in Segments : s[1] = a /\ s[2] = x
      BY EdgesRunAlongSegments
    <3>4. piece \in Seq(ALL_NODES) /\ Len(piece) = 2 /\ piece[1] = p[i] /\ piece[2] = p[i + 1]
      <4>1. PICK k \in Nat : k = 1
        OBVIOUS
      <4>2. i + k <= N /\ EndOf(p, i) = i + k
        BY <1>1, <2>4, <3>2, <4>1
      <4>3. /\ piece \in Seq(ALL_NODES) /\ Len(piece) = k + 1 /\ piece[1] = p[i]
            /\ k >= 1 => piece[2] = p[i + 1]
            /\ k >= 2 => piece[3] = p[i + 2]
            /\ k >= 3 => piece[4] = p[i + 3]
        BY <1>5, <4>2
      <4> QED BY <4>1, <4>3
    <3>5. IsPrefix(piece, s)
      BY <1>2, <2>2, <3>3, <3>4, BeginsSegment
    <3> QED BY <1>3, <3>1, <3>5
  <2>5. CASE i + 2 <= N
    <3>1. i + 2 \in 1 .. N /\ i + 1 \in 1 .. N - 1 /\ (i + 1) + 1 = i + 2
      BY <1>1, <2>5
    <3>2. PICK y \in NextNodes(x) : y = p[i + 2]
      BY <1>1, <2>2, <3>1
    <3>3. CASE y \in Stops
      <4>1. i + 2 \in Later(p, i)
        BY <1>1, <3>1, <3>2, <3>3 DEF Later
      <4>2. \A j \in i + 1 .. (i + 2) - 1 : p[j] \notin Stops
        BY <2>2, <2>3
      <4>3. EndOf(p, i) = i + 2
        BY <1>1, <4>1, <4>2, EndsAtStop
      <4>4. Len(piece) = 3 /\ piece[1] = p[i] /\ piece[2] = p[i + 1] /\ piece[3] = p[i + 2]
            /\ piece \in Seq(ALL_NODES)
        <5>1. PICK k \in Nat : k = 2
          OBVIOUS
        <5>2. i + k <= N /\ EndOf(p, i) = i + k
          BY <1>1, <3>1, <4>3, <5>1
        <5>3. /\ piece \in Seq(ALL_NODES) /\ Len(piece) = k + 1 /\ piece[1] = p[i]
              /\ k >= 1 => piece[2] = p[i + 1]
              /\ k >= 2 => piece[3] = p[i + 2]
              /\ k >= 3 => piece[4] = p[i + 3]
          BY <1>5, <5>2
        <5> QED BY <5>1, <5>3
      <4>5. piece = <<a, x, y>>
        BY <1>2, <2>2, <3>2, <4>4
      <4>6. CASE <<a, x, y>> \in Segments
        <5>1. IsPrefix(piece, piece)
          BY <4>4, PrefixBy
        <5> QED BY <1>3, <4>5, <4>6, <5>1
      <4>7. CASE y = a /\ x \in BIDIRECTIONAL_BLOCKS
        <5>1. PICK s \in Segments : s[1] = a /\ s[2] = x
          BY EdgesRunAlongSegments
        <5>2. piece = <<s[1], s[2], s[1]>>
          BY <4>5, <4>7, <5>1
        <5> QED BY <1>3, <4>7, <5>1, <5>2
      <4>8. \/ y \in Stops /\ <<a, x, y>> \in Segments
            \/ y \in Stops /\ y = a /\ x \in BIDIRECTIONAL_BLOCKS
            \/ y \notin Stops
        BY EdgesRunAlongSegments
      <4> QED BY <3>3, <4>6, <4>7, <4>8
    <3>4. CASE y \notin Stops
      <4>1. PICK s \in Segments : Len(s) = 4 /\ s[1] = a /\ s[2] = x /\ s[3] = y
        <5>1. \/ y \in Stops /\ <<a, x, y>> \in Segments
              \/ y \in Stops /\ y = a /\ x \in BIDIRECTIONAL_BLOCKS
              \/ /\ y \notin Stops
                 /\ \E s \in Segments : Len(s) = 4 /\ s[1] = a /\ s[2] = x /\ s[3] = y
                 /\ \A z \in NextNodes(y) : z \in Stops /\ <<a, x, y, z>> \in Segments
          BY Zenon, EdgesRunAlongSegments
        <5> QED BY <3>4, <5>1
      <4>2. \A z \in NextNodes(y) : z \in Stops /\ <<a, x, y, z>> \in Segments
        BY <3>4, EdgesRunAlongSegments
      <4>3. CASE i + 2 = N
        <5>1. Later(p, i) = {}
          BY <1>6, <2>2, <2>3, <3>2, <3>4, <4>3
        <5>2. EndOf(p, i) = N
          BY <1>1, <5>1, EndsAtStop
        <5>3. Len(piece) = 3 /\ piece[1] = p[i] /\ piece[2] = p[i + 1] /\ piece[3] = p[i + 2]
              /\ piece \in Seq(ALL_NODES)
          <6>1. PICK k \in Nat : k = 2
            OBVIOUS
          <6>2. i + k <= N /\ EndOf(p, i) = i + k
            BY <1>1, <4>3, <5>2, <6>1
          <6>3. /\ piece \in Seq(ALL_NODES) /\ Len(piece) = k + 1 /\ piece[1] = p[i]
                /\ k >= 1 => piece[2] = p[i + 1]
                /\ k >= 2 => piece[3] = p[i + 2]
                /\ k >= 3 => piece[4] = p[i + 3]
            BY <1>5, <6>2
          <6> QED BY <6>1, <6>3
        <5>4. piece[1] = s[1] /\ piece[2] = s[2] /\ piece[3] = s[3]
          BY <1>2, <2>2, <3>2, <4>1, <5>3
        <5>5. IsPrefix(piece, s)
          BY <5>3, <5>4, BeginsSegment
        <5> QED BY <1>3, <5>1, <5>5
      <4>4. CASE i + 3 <= N
        <5>1. i + 3 \in 1 .. N /\ i + 2 \in 1 .. N - 1 /\ (i + 2) + 1 = i + 3
          BY <1>1, <4>4
        <5>2. PICK z \in NextNodes(y) : z = p[i + 3]
          BY <1>1, <3>2, <5>1
        <5>3. i + 3 \in Later(p, i)
          <6>1. i + 3 \in i + 1 .. Len(p)
            BY <1>1, <5>1
          <6>2. p[i + 3] \in Stops
            BY <4>2, <5>2
          <6> QED BY <6>1, <6>2 DEF Later
        <5>4. \A j \in i + 1 .. (i + 3) - 1 : p[j] \notin Stops
          BY <2>2, <2>3, <3>2, <3>4
        <5>5. EndOf(p, i) = i + 3
          BY <1>1, <5>3, <5>4, EndsAtStop
        <5>6. Len(piece) = 4 /\ piece[1] = p[i] /\ piece[2] = p[i + 1] /\ piece[3] = p[i + 2]
              /\ piece[4] = p[i + 3] /\ piece \in Seq(ALL_NODES)
          <6>1. PICK k \in Nat : k = 3
            OBVIOUS
          <6>2. i + k <= N /\ EndOf(p, i) = i + k
            BY <1>1, <5>1, <5>5, <6>1
          <6>3. /\ piece \in Seq(ALL_NODES) /\ Len(piece) = k + 1 /\ piece[1] = p[i]
                /\ k >= 1 => piece[2] = p[i + 1]
                /\ k >= 2 => piece[3] = p[i + 2]
                /\ k >= 3 => piece[4] = p[i + 3]
            BY <1>5, <6>2
          <6> QED BY <6>1, <6>3
        <5>7. piece = <<a, x, y, z>>
          BY <1>2, <2>2, <3>2, <5>2, <5>6
        <5>8. IsPrefix(piece, piece)
          BY <5>6, PrefixBy
        <5> QED BY <1>3, <4>2, <5>7, <5>8
      <4> QED BY <1>1, <2>5, <4>3, <4>4
    <3> QED BY <3>3, <3>4
  <2> QED BY <1>1, <1>8, <2>4, <2>5
<1> QED BY <1>1, <1>7, <1>8

\* A path that follows the segments follows edges.
LEMMA PiecesMakeEdges ==
  ASSUME NEW K, NEW p \in Seq(K), RunsAlongSegments(p), NEW j \in 1 .. Len(p) - 1
  PROVE  p[j] \in ALL_NODES /\ p[j + 1] \in ALL_NODES /\ p[j + 1] \in NextNodes(p[j])
<1>1. PICK N \in Nat : N = Len(p)
  OBVIOUS
<1>2. j \in 1 .. N /\ j + 1 \in 1 .. N
  BY <1>1
<1> DEFINE passed == {k \in 1 .. j : p[k] \in Stops}
<1>3. PICK i \in passed : \A k \in passed : k <= i
  <2>1. passed \in SUBSET (0 .. j) /\ 1 \in passed /\ j \in Nat
    BY <1>2, PiecesOf
  <2> HIDE DEF passed
  <2> QED BY <2>1, GreatestElement
<1>4. i \in 1 .. N /\ i <= j /\ p[i] \in Stops /\ \A k \in i + 1 .. j : p[k] \notin Stops
  <2>1. i \in 1 .. j /\ p[i] \in Stops
    OBVIOUS
  <2>2. \A k \in i + 1 .. j : k \in 1 .. j /\ ~(k <= i)
    BY <2>1
  <2>3. \A k \in i + 1 .. j : p[k] \notin Stops
    BY <1>3, <2>2
  <2> QED BY <1>2, <2>1, <2>3
<1> HIDE DEF passed
<1>5. PICK e \in j + 1 .. N : e = EndOf(p, i)
  <2>1. CASE Later(p, i) = {}
    BY <1>1, <1>2, <1>4, <2>1, EndsAtStop
  <2>2. CASE Later(p, i) # {}
    <3>1. EndOf(p, i) \in Later(p, i)
      BY <1>1, <1>4, <2>2, EndsAtStop
    <3>2. PICK e : e = EndOf(p, i)
      OBVIOUS
    <3>3. e \in i + 1 .. N /\ p[e] \in Stops
      BY <1>1, <3>1, <3>2 DEF Later
    <3>4. e \notin i + 1 .. j
      BY <1>4, <3>3
    <3> QED BY <1>2, <1>4, <3>2, <3>3, <3>4
  <2> QED BY <2>1, <2>2
<1>6. PICK piece : piece = SubSeq(p, i, e)
  OBVIOUS
<1>7. /\ piece \in Seq(K) /\ Len(piece) = e - i + 1
      /\ \A k \in 1 .. e - i + 1 : piece[k] = p[i + k - 1]
  <2>1. i \in 1 .. Len(p) /\ e \in i .. Len(p)
    BY <1>1, <1>4, <1>5
  <2> QED BY <1>6, <2>1, PieceOf
<1>8. PICK k \in Nat : k = j - i + 1
  BY <1>2, <1>4
<1>9. /\ k \in 1 .. Len(piece) - 1 /\ piece[k] = p[j] /\ piece[k + 1] = p[j + 1]
  <2>1. k \in 1 .. e - i /\ k + 1 \in 1 .. e - i + 1 /\ i + k - 1 = j /\ i + (k + 1) - 1 = j + 1
    BY <1>2, <1>4, <1>5, <1>8
  <2>2. piece[k] = p[i + k - 1] /\ piece[k + 1] = p[i + (k + 1) - 1]
    BY <1>7, <2>1
  <2>3. k \in 1 .. Len(piece) - 1
    <3>1. Len(piece) - 1 = e - i
      BY <1>2, <1>4, <1>5, <1>7
    <3> QED BY <2>1, <3>1
  <2> QED BY <2>1, <2>2, <2>3
<1>10. PICK s \in Segments :
         IsPrefix(piece, s) \/ (piece = <<s[1], s[2], s[1]>> /\ s[2] \in BIDIRECTIONAL_BLOCKS)
  <2>1. i \in DOMAIN p
    BY <1>1, <1>4
  <2>2. PICK s \in Segments :
          \/ /\ IsPrefix(SubSeq(p, i, EndOf(p, i)), s)
             /\ Later(p, i) # {} => SubSeq(p, i, EndOf(p, i)) = s
          \/ /\ SubSeq(p, i, EndOf(p, i)) = <<s[1], s[2], s[1]>>
             /\ s[2] \in BIDIRECTIONAL_BLOCKS
    BY Zenon, <1>4, <2>1, PiecesOf
  <2> QED BY Zenon, <1>5, <1>6, <2>2
<1>11. /\ s \in Seq(ALL_NODES) /\ Len(s) \in 3 .. 4 /\ \A n \in 1 .. Len(s) : s[n] \in ALL_NODES
       /\ \A n \in 1 .. Len(s) - 1 : s[n + 1] \in NextNodes(s[n])
       /\ s[2] \in BIDIRECTIONAL_BLOCKS => s[1] \in NextNodes(s[2])
  BY SegmentsAreEdges
<1>12. CASE IsPrefix(piece, s)
  <2>1. PICK n \in Nat : n = Len(piece)
    BY <1>7
  <2>2. n <= Len(s) /\ SubSeq(piece, 1, n) = SubSeq(s, 1, n)
    BY <1>12, <2>1 DEF IsPrefix
  <2>4. \A m \in 1 .. n : SubSeq(piece, 1, n)[m] = piece[m] /\ SubSeq(s, 1, n)[m] = s[m]
    BY <1>7, <1>11, <2>1, <2>2
  <2>5. piece[k] = s[k] /\ piece[k + 1] = s[k + 1] /\ k \in 1 .. Len(s) - 1
    BY <1>9, <1>11, <2>1, <2>2, <2>4
  <2> QED BY <1>9, <1>11, <2>5
<1>13. CASE piece = <<s[1], s[2], s[1]>> /\ s[2] \in BIDIRECTIONAL_BLOCKS
  <2>1. Len(piece) = 3 /\ piece[1] = s[1] /\ piece[2] = s[2] /\ piece[3] = s[1]
    BY <1>13
  <2>2. s[1] \in ALL_NODES /\ s[2] \in ALL_NODES /\ s[2] \in NextNodes(s[1]) /\ s[1] \in NextNodes(s[2])
    BY <1>11, <1>13
  <2>3. k = 1 \/ k = 2
    BY <1>9, <2>1
  <2> QED BY <1>9, <2>1, <2>2, <2>3
<1> QED BY <1>10, <1>12, <1>13

\* The rules accept exactly the paths along the segments of the track, of any length.
THEOREM RulesAreTheTrack == LogicSpec => []AcceptsExactlyTheTrack
<1>1. PathTyped => AcceptsExactlyTheTrack
  <2> SUFFICES ASSUME PathTyped, Len(path) >= 2 PROVE Accepted <=> RunsAlongSegments(path)
    BY DEF AcceptsExactlyTheTrack
  <2>1. PICK p : p = path
    OBVIOUS
  <2>2. PICK N \in Nat : N = Len(p)
    BY <2>1 DEF PathTyped
  <2>3. p \in Seq(ALL_NODES \cup {Unknown}) /\ DOMAIN p = 1 .. N /\ N >= 2
    BY <2>1, <2>2 DEF PathTyped
  <2>4. ASSUME validate_path(p) = {} PROVE RunsAlongSegments(p)
    <3>1. /\ \A i \in 1 .. N : p[i] \in ALL_NODES
          /\ p[1] \in Stops
          /\ \A i \in 1 .. N - 1 : p[i + 1] \in NextNodes(p[i])
      BY <2>2, <2>3, <2>4, AcceptedPath DEF Stops
    <3>2. p \in Seq(ALL_NODES)
      BY <2>2, <2>3, <3>1
    <3>3. ASSUME NEW i \in 1 .. N, p[i] \in Stops
          PROVE  \E s \in Segments :
                   \/ /\ IsPrefix(SubSeq(p, i, EndOf(p, i)), s)
                      /\ Later(p, i) # {} => SubSeq(p, i, EndOf(p, i)) = s
                   \/ /\ SubSeq(p, i, EndOf(p, i)) = <<s[1], s[2], s[1]>>
                      /\ s[2] \in BIDIRECTIONAL_BLOCKS
      BY <2>2, <3>1, <3>2, <3>3, EdgesMakePieces
    <3> QED BY <2>3, <3>1, <3>3, PiecesOf
  <2>5. ASSUME RunsAlongSegments(p) PROVE validate_path(p) = {}
    <3>1. \A j \in 1 .. N - 1 :
            p[j] \in ALL_NODES /\ p[j + 1] \in ALL_NODES /\ p[j + 1] \in NextNodes(p[j])
      BY <2>2, <2>3, <2>5, PiecesMakeEdges
    <3>2. p[1] \in Stops
      BY <2>5, PiecesOf
    <3>3. UnknownNodes(p) = {}
      <4>1. ASSUME NEW i \in 1 .. N PROVE p[i] \in ALL_NODES
        <5>1. i \in 1 .. N - 1 \/ (i - 1 \in 1 .. N - 1 /\ (i - 1) + 1 = i)
          BY <2>3
        <5> QED BY <3>1, <5>1
      <4> QED BY <2>3, <4>1 DEF UnknownNodes
    <3>4. BadStart(p) = {} /\ BadHops(p) = {}
      BY <2>2, <3>1, <3>2 DEF BadStart, BadHops, Stops
    <3> QED BY <2>2, <2>3, <3>3, <3>4 DEF validate_path
  <2> QED BY <2>1, <2>2, <2>3, <2>4, <2>5 DEF Accepted
<1> QED BY <1>1, PathInductive, PTL DEF LogicSpec
=============================================================================
