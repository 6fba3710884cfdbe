--------------------------- MODULE StopTimesProofs ---------------------------
(***************************************************************************)
(* What the expansion of stops into instants returns, for payloads of any  *)
(* length: its loop is a recursion over the stops, and what it returns is  *)
(* proved by induction over them.  Then what the other proofs need of sums *)
(* over finite sets and of the positions: that a vehicle whose services    *)
(* follow one another is shown in one place, and what they have cost it.   *)
(***************************************************************************)
EXTENDS Positions, Battery, PathValidator, FiniteSetTheorems, TLAPS

(***************************************************************************)
(* Induction.  A property is given as the set of numbers that have it: the *)
(* provers instantiate a set where they could not instantiate an operator. *)
(***************************************************************************)

\* Every non-empty set of natural numbers has a least element.
LEMMA LeastElement ==
  ASSUME NEW S, S \subseteq Nat, S # {}
  PROVE  \E n \in S : \A m \in S : n <= m
<1>1. PICK n \in S : \A m \in S : ~(<<m, n>> \in OpToRel(<, Nat))
  BY NatLessThanWellFounded, WFMin
<1>2. ASSUME NEW m \in S PROVE n <= m
  <2>1. m \in Nat /\ n \in Nat
    OBVIOUS
  <2>2. ~(<<m, n>> \in OpToRel(<, Nat))
    BY <1>1
  <2>3. ~(m < n)
    BY <2>1, <2>2 DEF OpToRel
  <2> QED BY <2>1, <2>3
<1> QED BY <1>2

\* A set with 0 and with the successor of each of its numbers below a bound has them all.
LEMMA InductionUpTo ==
  ASSUME NEW N \in Nat, NEW T, 0 \in T, \A k \in 0 .. N - 1 : k \in T => k + 1 \in T
  PROVE  0 .. N \subseteq T
<1> DEFINE S == {k \in 0 .. N : k \notin T}
<1> SUFFICES ASSUME S # {} PROVE FALSE
  OBVIOUS
<1>1. PICK n \in S : \A m \in S : n <= m
  <2>1. S \subseteq Nat
    OBVIOUS
  <2> HIDE DEF S
  <2> QED BY <2>1, LeastElement
<1>2. n # 0 /\ n \in 1 .. N /\ n - 1 \in 0 .. N - 1
  OBVIOUS
<1>3. n - 1 \in T
  BY <1>1, <1>2
<1>4. (n - 1) + 1 \in T
  BY <1>2, <1>3
<1> QED BY <1>2, <1>4
-----------------------------------------------------------------------------
(* The loop *)

\* A round of the write path or of the readers.
RoundOf(writing, before, stop, block_traversal) ==
  IF writing THEN WriteRound(before, stop, block_traversal)
  ELSE SnapshotRound(before, stop, block_traversal)

\* Where the write path's loop and the readers' loop end.
Expansion(writing, stops, block_traversal) ==
  IF writing
    THEN Walk(stops, LAMBDA before, stop : WriteRound(before, stop, block_traversal))
    ELSE Walk(stops, LAMBDA before, stop : SnapshotRound(before, stop, block_traversal))

LEMMA ExpansionTuples ==
  ASSUME NEW stops, NEW block_traversal
  PROVE  /\ _compute_stop_tuples(stops, block_traversal) = Expansion(TRUE, stops, block_traversal).tuples
         /\ SnapshotStops(stops, block_traversal) = Expansion(FALSE, stops, block_traversal).tuples
BY Zenon DEF Expansion, _compute_stop_tuples, SnapshotStops

\* w holds the states of either loop, one per stop.
Rounds(w, N, writing, stops, block_traversal) ==
  w = [i \in 0 .. N |->
         IF i = 0 THEN Start ELSE RoundOf(writing, w[i - 1], stops[i], block_traversal)]

LEMMA WalkExists ==
  ASSUME NEW stops, NEW N \in Nat, NEW writing, NEW block_traversal
  PROVE  \E w : Rounds(w, N, writing, stops, block_traversal)
<1> DEFINE R(before, i) == RoundOf(writing, before, stops[i], block_traversal)
           Walks(w, n) == w = [i \in 0 .. n |-> IF i = 0 THEN Start ELSE R(w[i - 1], i)]
           T == {n \in Nat : \E w : Walks(w, n)}
<1>1. 0 \in T
  <2>1. Walks([i \in 0 .. 0 |-> Start], 0)
    OBVIOUS
  <2> QED BY <2>1
<1>2. ASSUME NEW n \in Nat, n \in T PROVE n + 1 \in T
  <2>1. PICK w : Walks(w, n)
    BY <1>2
  <2> DEFINE v == [i \in 0 .. n + 1 |-> IF i <= n THEN w[i] ELSE R(w[n], n + 1)]
  <2> HIDE DEF R
  <2>2. ASSUME NEW i \in 0 .. n + 1 PROVE v[i] = IF i = 0 THEN Start ELSE R(v[i - 1], i)
    <3>1. CASE i = 0
      BY <2>1, <3>1
    <3>2. CASE i \in 1 .. n
      BY <2>1, <3>2
    <3>3. CASE i = n + 1
      BY <2>1, <3>3
    <3> QED BY <3>1, <3>2, <3>3
  <2>3. Walks(v, n + 1)
    BY <2>2
  <2> HIDE DEF v
  <2>4. \E u : Walks(u, n + 1)
    BY <2>3
  <2> HIDE DEF Walks
  <2> QED BY <2>4
<1>3. N \in T
  <2> HIDE DEF T
  <2>1. 0 .. N \subseteq T
    BY <1>1, <1>2, InductionUpTo
  <2> QED BY <2>1
<1>4. PICK w : Walks(w, N)
  BY <1>3
<1>5. Rounds(w, N, writing, stops, block_traversal)
  BY <1>4 DEF Rounds
<1> QED BY <1>5

\* Either loop ends where its rounds lead.
LEMMA ExpansionWalks ==
  ASSUME NEW stops, NEW writing \in BOOLEAN, NEW block_traversal, Len(stops) \in Nat
  PROVE  \E walked :
           /\ walked[0] = Start
           /\ \A i \in 1 .. Len(stops) :
                walked[i] = RoundOf(writing, walked[i - 1], stops[i], block_traversal)
           /\ Expansion(writing, stops, block_traversal) = walked[Len(stops)]
<1> DEFINE N == Len(stops)
           R(before, i) == RoundOf(writing, before, stops[i], block_traversal)
           body(w, i) == IF i = 0 THEN Start
                         ELSE CHOOSE after \in {R(before, i) : before \in {w[i - 1]}} : TRUE
           walked == CHOOSE w : w = [i \in 0 .. N |-> body(w, i)]
<1>1. \A w, i : body(w, i) = IF i = 0 THEN Start ELSE R(w[i - 1], i)
  <2> HIDE DEF R
  <2> QED OBVIOUS
<1>2. \E w : w = [i \in 0 .. N |-> body(w, i)]
  <2>1. PICK n \in Nat : n = N
    OBVIOUS
  <2>2. PICK w : Rounds(w, n, writing, stops, block_traversal)
    BY WalkExists
  <2>3. w = [i \in 0 .. N |-> IF i = 0 THEN Start ELSE R(w[i - 1], i)]
    BY <2>1, <2>2 DEF Rounds
  <2> HIDE DEF body, R
  <2>4. w = [i \in 0 .. N |-> body(w, i)]
    BY <1>1, <2>3
  <2> QED BY <2>4
<1>3. walked = [i \in 0 .. N |-> body(walked, i)]
  <2> HIDE DEF body
  <2> QED BY <1>2
<1>4. Expansion(writing, stops, block_traversal) = walked[N]
  <2>1. CASE writing = TRUE
    BY <2>1 DEF Expansion, Walk, RoundOf
  <2>2. CASE writing = FALSE
    BY <2>2 DEF Expansion, Walk, RoundOf
  <2> QED BY <2>1, <2>2
<1>5. /\ walked[0] = Start
      /\ \A i \in 1 .. N : walked[i] = R(walked[i - 1], i)
  <2> HIDE DEF walked, body, R
  <2> QED BY <1>1, <1>3
<1> HIDE DEF walked
<1> QED BY <1>4, <1>5

\* Of nothing either loop makes nothing, and one more stop is one more round.
LEMMA ExpansionGrows ==
  ASSUME NEW S, NEW stops \in Seq(S), NEW stop \in S, NEW writing \in BOOLEAN, NEW block_traversal
  PROVE  Expansion(writing, Append(stops, stop), block_traversal) =
           RoundOf(writing, Expansion(writing, stops, block_traversal), stop, block_traversal)
<1> DEFINE N == Len(stops)
           grown == Append(stops, stop)
<1>1. /\ N \in Nat /\ Len(grown) = N + 1 /\ grown[N + 1] = stop
      /\ \A i \in 1 .. N : grown[i] = stops[i]
  OBVIOUS
<1>2. PICK v : /\ v[0] = Start
               /\ \A i \in 1 .. N : v[i] = RoundOf(writing, v[i - 1], stops[i], block_traversal)
               /\ Expansion(writing, stops, block_traversal) = v[N]
  BY ExpansionWalks
<1>3. PICK w : /\ w[0] = Start
               /\ \A i \in 1 .. N + 1 : w[i] = RoundOf(writing, w[i - 1], grown[i], block_traversal)
               /\ Expansion(writing, grown, block_traversal) = w[N + 1]
  <2> HIDE DEF grown, N
  <2>1. Len(grown) \in Nat
    BY <1>1
  <2> QED BY <1>1, <2>1, ExpansionWalks
<1> HIDE DEF grown, N
<1> DEFINE T == {k \in Nat : v[k] = w[k]}
<1>4. 0 \in T
  BY <1>2, <1>3
<1>5. ASSUME NEW k \in 0 .. N - 1, k \in T PROVE k + 1 \in T
  <2>1. k + 1 \in 1 .. N /\ k + 1 \in 1 .. N + 1 /\ (k + 1) - 1 = k /\ k + 1 \in Nat
    BY <1>1
  <2>2. v[k + 1] = RoundOf(writing, v[k], stops[k + 1], block_traversal)
    BY <1>2, <2>1
  <2>3. w[k + 1] = RoundOf(writing, w[k], grown[k + 1], block_traversal)
    BY <1>3, <2>1
  <2> QED BY <1>1, <1>5, <2>1, <2>2, <2>3
<1>6. v[N] = w[N]
  <2> HIDE DEF T
  <2>1. 0 .. N \subseteq T
    BY <1>1, <1>4, <1>5, InductionUpTo
  <2>2. N \in T
    BY <1>1, <2>1
  <2> QED BY <2>2 DEF T
<1>7. w[N + 1] = RoundOf(writing, w[N], stop, block_traversal)
  <2>1. N + 1 \in 1 .. N + 1 /\ (N + 1) - 1 = N
    BY <1>1
  <2> QED BY <1>1, <1>3, <2>1
<1> QED BY <1>2, <1>3, <1>6, <1>7 DEF grown

LEMMA ExpansionOfNothing ==
  ASSUME NEW stops, Len(stops) = 0, NEW writing \in BOOLEAN, NEW block_traversal
  PROVE  Expansion(writing, stops, block_traversal) = Start
BY ExpansionWalks

\* At a node of the track a round of either loop does the same.
LEMMA RoundsAgree ==
  ASSUME NEW before, NEW stop, NEW block_traversal, stop.node_id \in ALL_NODES
  PROVE  RoundOf(TRUE, before, stop, block_traversal) = RoundOf(FALSE, before, stop, block_traversal)
<1>1. CASE ~is_block(stop.node_id)
  <2>1. stop.node_id \in PLATFORMS \/ stop.node_id = YARD
    BY <1>1 DEF ALL_NODES, is_block
  <2>2. WriteRound(before, stop, block_traversal) = SnapshotRound(before, stop, block_traversal)
    BY <1>1, <2>1, Zenon DEF WriteRound, SnapshotRound
  <2> QED BY <2>2 DEF RoundOf
<1>2. CASE is_block(stop.node_id)
  <2>1. stop.node_id \in BLOCKS /\ stop.node_id \notin PLATFORMS /\ stop.node_id # YARD
    BY <1>2 DEF is_block, BLOCKS, PLATFORMS, YARD
  <2>2. WriteRound(before, stop, block_traversal) = SnapshotRound(before, stop, block_traversal)
    BY <1>2, <2>1, Zenon DEF WriteRound, SnapshotRound
  <2> QED BY <2>2 DEF RoundOf
<1> QED BY <1>1, <1>2

\* Any other node the write path passes over.
LEMMA PassedOver ==
  ASSUME NEW before, NEW stop, NEW block_traversal, stop.node_id \notin ALL_NODES
  PROVE  RoundOf(TRUE, before, stop, block_traversal) = before
<1>1. WriteRound(before, stop, block_traversal) = before
  BY Zenon DEF WriteRound, ALL_NODES
<1> QED BY <1>1 DEF RoundOf
-----------------------------------------------------------------------------
(* Payloads that are accepted *)

\* What the request schemas let through of a payload, as far as times go.
TimesTyped(stops) ==
  /\ Len(stops) \in Nat /\ DOMAIN stops = 1 .. Len(stops)
  /\ \A i \in DOMAIN stops : {stops[i].arrival_time, stops[i].departure_time} \subseteq Nat \cup {None}

Accepts(stops) == validate_path(NodesOf(stops)) = {} /\ _timing_errors(stops) = {}

Tuple(stop, enter, exit) == [node_id |-> stop.node_id, enter |-> enter, exit |-> exit]

\* The vehicle is on every node of the payload in turn: on a stop for as long as it
\* says, on a block from the instant it leaves the node before for as long as the block
\* takes.
RunsThrough(stops, traversal, tuples, n) ==
  /\ tuples \in Seq([node_id : {stops[i].node_id : i \in DOMAIN stops}, enter : Nat, exit : Nat])
  /\ Len(tuples) = n
  /\ \A i \in 1 .. n :
       /\ tuples[i].node_id = stops[i].node_id
       /\ is_block(stops[i].node_id) =>
            /\ i > 1 /\ tuples[i].enter = tuples[i - 1].exit
            /\ tuples[i].exit = tuples[i].enter + TraversalSeconds(stops[i].node_id, traversal)
       /\ ~is_block(stops[i].node_id) =>
            /\ tuples[i].enter = stops[i].arrival_time
            /\ tuples[i].exit = stops[i].departure_time
            /\ tuples[i].enter <= tuples[i].exit

\* An accepted payload starts at the yard or a platform and names known nodes only; its
\* stops, and no block, have both times, in order.
LEMMA AcceptedStops ==
  ASSUME NEW stops, TimesTyped(stops), Accepts(stops)
  PROVE  /\ Len(stops) >= 2
         /\ ~is_block(stops[1].node_id)
         /\ \A i \in DOMAIN stops :
              /\ stops[i].node_id \in ALL_NODES
              /\ ~is_block(stops[i].node_id) =>
                   /\ stops[i].arrival_time # None /\ stops[i].departure_time # None
                   /\ stops[i].arrival_time \in Nat /\ stops[i].departure_time \in Nat
                   /\ stops[i].arrival_time <= stops[i].departure_time
              /\ is_block(stops[i].node_id) => stops[i].arrival_time = None
<1>1. /\ DOMAIN NodesOf(stops) = 1 .. Len(stops) /\ Len(NodesOf(stops)) = Len(stops)
      /\ \A i \in DOMAIN stops : NodesOf(stops)[i] = stops[i].node_id
  BY DEF NodesOf, TimesTyped
<1>2. Len(stops) >= 2
  <2> SUFFICES ASSUME Len(NodesOf(stops)) < 2 PROVE FALSE
    BY <1>1 DEF TimesTyped
  <2>1. validate_path(NodesOf(stops)) = {[rule |-> "length", at |-> 0]}
    BY DEF validate_path
  <2>2. validate_path(NodesOf(stops)) = {}
    BY DEF Accepts
  <2> QED BY <2>1, <2>2
<1>3. UnknownNodes(NodesOf(stops)) = {}
  BY <1>1, <1>2 DEF Accepts, validate_path
<1>4. BadStart(NodesOf(stops)) = {}
  BY <1>1, <1>2, <1>3 DEF Accepts, validate_path
<1>5. 1 \in DOMAIN stops /\ ~is_block(stops[1].node_id)
  BY <1>1, <1>2, <1>4 DEF BadStart, is_block, YARD, PLATFORMS, BLOCKS, TimesTyped
<1>6. \A i \in DOMAIN stops : stops[i].node_id \in ALL_NODES
  BY <1>1, <1>3 DEF UnknownNodes, TimesTyped
<1>7. ASSUME NEW i \in DOMAIN stops
      PROVE  /\ ~is_block(stops[i].node_id) =>
                  /\ stops[i].arrival_time # None /\ stops[i].departure_time # None
                  /\ ~(stops[i].departure_time < stops[i].arrival_time)
             /\ is_block(stops[i].node_id) => stops[i].arrival_time = None
  <2>1. i \notin _timing_errors(stops)
    BY DEF Accepts
  <2>2. ~is_block(stops[i].node_id) => stops[i].node_id \in PLATFORMS \cup {YARD}
    BY <1>6 DEF ALL_NODES, is_block
  <2> QED BY <2>1, <2>2 DEF _timing_errors, is_block
<1> QED BY <1>2, <1>5, <1>6, <1>7 DEF TimesTyped

\* One more round runs through one more stop.
LEMMA RoundRunsOn ==
  ASSUME NEW stops, TimesTyped(stops), Accepts(stops), None \notin Nat,
         NEW traversal, \A i \in DOMAIN stops : TraversalSeconds(stops[i].node_id, traversal) \in Nat,
         NEW k \in 0 .. Len(stops) - 1, NEW before,
         RunsThrough(stops, traversal, before.tuples, k),
         before.current = IF k = 0 THEN None ELSE before.tuples[k].exit,
         NEW after, after = SnapshotRound(before, stops[k + 1], traversal)
  PROVE  /\ RunsThrough(stops, traversal, after.tuples, k + 1)
         /\ after.current = after.tuples[k + 1].exit
<1> DEFINE i == k + 1
           Node == {stops[j].node_id : j \in DOMAIN stops}
<1>1. /\ k \in Nat /\ i \in Nat /\ i - 1 = k /\ i \in DOMAIN stops /\ DOMAIN stops = 1 .. Len(stops)
      /\ stops[i].node_id \in Node
  BY DEF TimesTyped
<1>2. PICK stop : stop = stops[i]
  OBVIOUS
<1>3. PICK ts : ts = before.tuples
  OBVIOUS
<1>4. /\ ts \in Seq([node_id : Node, enter : Nat, exit : Nat]) /\ Len(ts) = k
      /\ k # 0 => ts[k].exit \in Nat
  <2> DEFINE Tuples == [node_id : Node, enter : Nat, exit : Nat]
  <2>1. ts \in Seq(Tuples) /\ Len(ts) = k
    BY <1>3 DEF RunsThrough
  <2>2. k # 0 => ts[k] \in Tuples
    <3> HIDE DEF Tuples
    <3> QED BY <1>1, <2>1
  <2> QED BY <2>1, <2>2
<1>5. is_block(stop.node_id) => k # 0 /\ before.current = ts[k].exit
  <2>1. ~is_block(stops[1].node_id)
    BY AcceptedStops
  <2>2. ASSUME k = 0 PROVE ~is_block(stop.node_id)
    <3>1. i = 1
      BY <2>2
    <3> QED BY <1>2, <2>1, <3>1
  <2> HIDE DEF Node
  <2> QED BY <1>3, <2>2
<1>6. ~is_block(stop.node_id) =>
        /\ stop.arrival_time # None /\ stop.departure_time # None
        /\ stop.arrival_time \in Nat /\ stop.departure_time \in Nat
        /\ stop.arrival_time <= stop.departure_time
  BY <1>1, <1>2, AcceptedStops
<1>7. PICK enter : enter = IF is_block(stop.node_id) THEN before.current ELSE stop.arrival_time
  OBVIOUS
<1>8. PICK exit : exit = IF is_block(stop.node_id)
                           THEN enter + TraversalSeconds(stop.node_id, traversal)
                           ELSE stop.departure_time
  OBVIOUS
<1>9. enter \in Nat /\ exit \in Nat
  <2>1. CASE is_block(stop.node_id)
    <3>1. enter \in Nat
      BY <1>4, <1>5, <1>7, <2>1
    <3>2. TraversalSeconds(stop.node_id, traversal) \in Nat
      BY <1>1, <1>2
    <3> QED BY <1>8, <2>1, <3>1, <3>2
  <2>2. CASE ~is_block(stop.node_id)
    BY <1>6, <1>7, <1>8, <2>2
  <2> QED BY <2>1, <2>2
<1>10. after = [tuples |-> Append(ts, Tuple(stop, enter, exit)), current |-> exit]
  <2>1. is_block(stop.node_id) => before.current # None
    BY <1>7, <1>9
  <2> HIDE DEF Node
  <2> QED BY <1>1, <1>2, <1>3, <1>6, <1>7, <1>8, <1>9, <2>1 DEF SnapshotRound, Visit, BlockExit, OrElse, Tuple
<1>11. PICK us : us = Append(ts, Tuple(stop, enter, exit))
  OBVIOUS
<1>12. Tuple(stop, enter, exit) \in [node_id : Node, enter : Nat, exit : Nat]
  BY <1>1, <1>2, <1>9 DEF Tuple
<1>13. /\ us \in Seq([node_id : Node, enter : Nat, exit : Nat]) /\ Len(us) = i
       /\ us[i] = Tuple(stop, enter, exit) /\ \A j \in 1 .. k : us[j] = ts[j]
  <2> DEFINE Tuples == [node_id : Node, enter : Nat, exit : Nat]
  <2> HIDE DEF Tuples
  <2>1. ts \in Seq(Tuples) /\ Len(ts) = k /\ Tuple(stop, enter, exit) \in Tuples
    BY <1>4, <1>12 DEF Tuples
  <2>2. /\ us \in Seq(Tuples) /\ Len(us) = i
        /\ us[i] = Tuple(stop, enter, exit) /\ \A j \in 1 .. k : us[j] = ts[j]
    BY <1>1, <1>11, <2>1
  <2> QED BY <2>2 DEF Tuples
<1>14. ASSUME NEW j \in 1 .. k
       PROVE  /\ us[j].node_id = stops[j].node_id
              /\ is_block(stops[j].node_id) =>
                   /\ j > 1 /\ us[j].enter = us[j - 1].exit
                   /\ us[j].exit = us[j].enter + TraversalSeconds(stops[j].node_id, traversal)
              /\ ~is_block(stops[j].node_id) =>
                   /\ us[j].enter = stops[j].arrival_time
                   /\ us[j].exit = stops[j].departure_time
                   /\ us[j].enter <= us[j].exit
  <2>1. us[j] = ts[j] /\ (j > 1 => us[j - 1] = ts[j - 1])
    <3>1. j > 1 => j - 1 \in 1 .. k
      BY <1>1
    <3> HIDE DEF Node
    <3> QED BY <1>13, <3>1
  <2> QED BY <1>1, <1>3, <2>1 DEF RunsThrough
<1>15. /\ us[i].node_id = stops[i].node_id
       /\ is_block(stops[i].node_id) =>
            /\ i > 1 /\ us[i].enter = us[i - 1].exit
            /\ us[i].exit = us[i].enter + TraversalSeconds(stops[i].node_id, traversal)
       /\ ~is_block(stops[i].node_id) =>
            /\ us[i].enter = stops[i].arrival_time
            /\ us[i].exit = stops[i].departure_time
            /\ us[i].enter <= us[i].exit
  <2>1. us[i].node_id = stop.node_id /\ us[i].enter = enter /\ us[i].exit = exit
    BY <1>13 DEF Tuple
  <2>2. k # 0 => us[k] = ts[k]
    <3>1. k # 0 => k \in 1 .. k
      BY <1>1
    <3> HIDE DEF Node
    <3> QED BY <1>13, <3>1
  <2> HIDE DEF Node
  <2> QED BY <1>1, <1>2, <1>5, <1>6, <1>7, <1>8, <2>1, <2>2
<1>16. \A j \in 1 .. i : j \in 1 .. k \/ j = i
  BY <1>1
<1>17. RunsThrough(stops, traversal, us, i)
  BY <1>13, <1>14, <1>15, <1>16 DEF RunsThrough
<1>18. after.tuples = us /\ after.current = exit /\ us[i].exit = exit
  <2>1. us[i].exit = exit
    BY <1>13 DEF Tuple
  <2> HIDE DEF Node
  <2> QED BY <1>10, <1>11, <2>1
<1> QED BY <1>17, <1>18

\* No node of an accepted payload is lost on the way to the detectors, and the payload
\* runs through all of them.
LEMMA AcceptedRunsThrough ==
  ASSUME NEW stops, TimesTyped(stops), Accepts(stops), None \notin Nat,
         NEW traversal, \A i \in DOMAIN stops : TraversalSeconds(stops[i].node_id, traversal) \in Nat
  PROVE  RunsThrough(stops, traversal, SnapshotStops(stops, traversal), Len(stops))
<1> DEFINE N == Len(stops)
<1>1. N \in Nat /\ N >= 2
  BY AcceptedStops DEF TimesTyped
<1>2. PICK walked :
        /\ walked[0] = Start
        /\ \A i \in 1 .. N : walked[i] = RoundOf(FALSE, walked[i - 1], stops[i], traversal)
        /\ Expansion(FALSE, stops, traversal) = walked[N]
  BY <1>1, ExpansionWalks
<1>3. SnapshotStops(stops, traversal) = walked[N].tuples
  BY <1>2, ExpansionTuples
<1> DEFINE P(k) == /\ RunsThrough(stops, traversal, walked[k].tuples, k)
                   /\ walked[k].current = IF k = 0 THEN None ELSE walked[k].tuples[k].exit
           T == {k \in Nat : P(k)}
<1>4. 0 \in T
  <2>1. walked[0].tuples = << >> /\ walked[0].current = None
    BY <1>2 DEF Start
  <2>2. RunsThrough(stops, traversal, << >>, 0)
    BY DEF RunsThrough
  <2> QED BY <2>1, <2>2
<1>5. ASSUME NEW k \in 0 .. N - 1, k \in T PROVE k + 1 \in T
  <2>1. P(k) /\ k + 1 \in Nat /\ k + 1 # 0 /\ k + 1 \in 1 .. N /\ (k + 1) - 1 = k
    BY <1>1, <1>5
  <2>2. walked[k + 1] = SnapshotRound(walked[k], stops[k + 1], traversal)
    <3> HIDE DEF P, T, N
    <3> QED BY <1>2, <2>1 DEF RoundOf
  <2>3. PICK before, after : before = walked[k] /\ after = walked[k + 1]
    OBVIOUS
  <2>4. /\ RunsThrough(stops, traversal, before.tuples, k)
        /\ before.current = IF k = 0 THEN None ELSE before.tuples[k].exit
        /\ after = SnapshotRound(before, stops[k + 1], traversal)
    <3> HIDE DEF T, N
    <3> QED BY <2>1, <2>2, <2>3
  <2>5. /\ RunsThrough(stops, traversal, after.tuples, k + 1)
        /\ after.current = after.tuples[k + 1].exit
    BY <2>4, RoundRunsOn
  <2>6. P(k + 1)
    <3> HIDE DEF T, N
    <3> QED BY <2>1, <2>3, <2>5
  <2> QED BY <2>1, <2>6
<1>6. N \in T
  <2> HIDE DEF T
  <2>1. 0 .. N \subseteq T
    BY <1>1, <1>4, <1>5, InductionUpTo
  <2> QED BY <1>1, <2>1
<1> QED BY <1>3, <1>6

\* The write path and the readers expand the stops of a known path alike.
LEMMA SameExpansion ==
  ASSUME NEW stops, NEW traversal, Len(stops) \in Nat, DOMAIN stops = 1 .. Len(stops),
         \A i \in DOMAIN stops : stops[i].node_id \in ALL_NODES
  PROVE  _compute_stop_tuples(stops, traversal) = SnapshotStops(stops, traversal)
<1> DEFINE N == Len(stops)
<1>1. PICK v : /\ v[0] = Start
               /\ \A i \in 1 .. N : v[i] = RoundOf(TRUE, v[i - 1], stops[i], traversal)
               /\ Expansion(TRUE, stops, traversal) = v[N]
  BY ExpansionWalks
<1>2. PICK w : /\ w[0] = Start
               /\ \A i \in 1 .. N : w[i] = RoundOf(FALSE, w[i - 1], stops[i], traversal)
               /\ Expansion(FALSE, stops, traversal) = w[N]
  BY ExpansionWalks
<1> HIDE DEF N
<1> DEFINE T == {k \in Nat : v[k] = w[k]}
<1>3. 0 \in T
  BY <1>1, <1>2
<1>4. ASSUME NEW k \in 0 .. N - 1, k \in T PROVE k + 1 \in T
  <2>1. k + 1 \in 1 .. N /\ (k + 1) - 1 = k /\ k + 1 \in Nat /\ k + 1 \in DOMAIN stops
    BY DEF N
  <2>2. v[k + 1] = RoundOf(TRUE, v[k], stops[k + 1], traversal)
    BY <1>1, <2>1
  <2>3. w[k + 1] = RoundOf(FALSE, w[k], stops[k + 1], traversal)
    BY <1>2, <2>1
  <2>4. RoundOf(TRUE, v[k], stops[k + 1], traversal) = RoundOf(FALSE, v[k], stops[k + 1], traversal)
    <3>1. PICK before, stop : before = v[k] /\ stop = stops[k + 1]
      OBVIOUS
    <3>2. stop.node_id \in ALL_NODES
      BY <2>1, <3>1
    <3>3. RoundOf(TRUE, before, stop, traversal) = RoundOf(FALSE, before, stop, traversal)
      BY <3>2, RoundsAgree
    <3> HIDE DEF T
    <3> QED BY <3>1, <3>3
  <2> QED BY <1>4, <2>1, <2>2, <2>3, <2>4
<1>5. v[N] = w[N]
  <2> HIDE DEF T
  <2>1. N \in Nat /\ 0 .. N \subseteq T
    BY <1>3, <1>4, InductionUpTo DEF N
  <2>2. N \in T
    BY <2>1
  <2> QED BY <2>2 DEF T
<1> QED BY <1>1, <1>2, <1>5, ExpansionTuples
-----------------------------------------------------------------------------
(* Trips of the generator *)

\* How long the generator's vehicle stays on a node.
SpanOn(node, traversal, dwell) ==
  IF is_block(node) THEN TraversalSeconds(node, traversal)
  ELSE IF is_platform(node) THEN dwell ELSE 0

\* left adds up N spans from first on.
Sums(left, N, first, span) ==
  left = [i \in 0 .. N |-> IF i = 0 THEN first ELSE left[i - 1] + span[i]]

\* Such sums exist, for any number of spans.
LEMMA SumsExist ==
  ASSUME NEW N \in Nat, NEW first, NEW span
  PROVE  \E left : Sums(left, N, first, span)
<1> DEFINE Add(before, i) == before + span[i]
           Walks(w, n) == w = [i \in 0 .. n |-> IF i = 0 THEN first ELSE Add(w[i - 1], i)]
           T == {n \in Nat : \E w : Walks(w, n)}
<1>1. 0 \in T
  <2>1. Walks([i \in 0 .. 0 |-> first], 0)
    OBVIOUS
  <2> QED BY <2>1
<1>2. ASSUME NEW n \in Nat, n \in T PROVE n + 1 \in T
  <2>1. PICK w : Walks(w, n)
    BY <1>2
  <2> DEFINE v == [i \in 0 .. n + 1 |-> IF i <= n THEN w[i] ELSE Add(w[n], n + 1)]
  <2> HIDE DEF Add
  <2>2. ASSUME NEW i \in 0 .. n + 1 PROVE v[i] = IF i = 0 THEN first ELSE Add(v[i - 1], i)
    <3>1. CASE i = 0
      BY <2>1, <3>1
    <3>2. CASE i \in 1 .. n
      BY <2>1, <3>2
    <3>3. CASE i = n + 1
      BY <2>1, <3>3
    <3> QED BY <3>1, <3>2, <3>3
  <2>3. Walks(v, n + 1)
    BY <2>2
  <2> HIDE DEF v
  <2>4. \E u : Walks(u, n + 1)
    BY <2>3
  <2> HIDE DEF Walks
  <2> QED BY <2>4
<1>3. N \in T
  <2> HIDE DEF T
  <2>1. 0 .. N \subseteq T
    BY <1>1, <1>2, InductionUpTo
  <2> QED BY <2>1
<1> QED BY <1>3 DEF Sums

\* The instants at which the generator's vehicle leaves one node for the next add up
\* the spans.
LEMMA TripWalks ==
  ASSUME NEW path, Len(path) \in Nat, NEW departure, NEW traversal, NEW dwell
  PROVE  \E left :
           /\ left[0] = departure
           /\ \A i \in 1 .. Len(path) : left[i] = left[i - 1] + SpanOn(path[i], traversal, dwell)
           /\ _compute_stops(path, departure, traversal, dwell) =
                [i \in DOMAIN path |->
                   [node_id |-> path[i], enter |-> left[i - 1], exit |-> left[i]]]
<1> DEFINE N == Len(path)
           Span(i) == SpanOn(path[i], traversal, dwell)
           left == CHOOSE w : w = [i \in 0 .. N |-> IF i = 0 THEN departure ELSE w[i - 1] + Span(i)]
<1>1. left = [i \in 0 .. N |-> IF i = 0 THEN departure ELSE left[i - 1] + Span(i)]
  <2> HIDE DEF Span
  <2>1. PICK span : span = [i \in 1 .. N |-> Span(i)]
    OBVIOUS
  <2>2. PICK n \in Nat : n = N
    OBVIOUS
  <2>3. PICK w : Sums(w, n, departure, span)
    BY SumsExist
  <2>4. w = [i \in 0 .. n |-> IF i = 0 THEN departure ELSE w[i - 1] + span[i]]
    BY <2>3 DEF Sums
  <2>5. ASSUME NEW i \in 0 .. n
        PROVE  (IF i = 0 THEN departure ELSE w[i - 1] + span[i])
                 = (IF i = 0 THEN departure ELSE w[i - 1] + Span(i))
    BY <2>1, <2>2
  <2>6. w = [i \in 0 .. n |-> IF i = 0 THEN departure ELSE w[i - 1] + Span(i)]
    BY <2>4, <2>5
  <2> QED BY <2>2, <2>6
<1>2. _compute_stops(path, departure, traversal, dwell) =
        [i \in DOMAIN path |-> [node_id |-> path[i], enter |-> left[i - 1], exit |-> left[i]]]
  BY DEF _compute_stops, SpanOn
<1>3. left[0] = departure /\ \A i \in 1 .. N : left[i] = left[i - 1] + Span(i)
  <2> HIDE DEF left, Span
  <2> QED BY <1>1
<1> HIDE DEF left
<1> QED BY <1>2, <1>3

\* A trip departs when it is told to, and does not end before that.
LEMMA TripIsForward ==
  ASSUME NEW path, Len(path) \in Nat \ {0}, DOMAIN path = 1 .. Len(path),
         NEW departure \in Nat, NEW dwell \in Nat,
         NEW traversal, \A i \in DOMAIN path : TraversalSeconds(path[i], traversal) \in Nat,
         NEW trip, trip = _compute_stops(path, departure, traversal, dwell)
  PROVE  /\ Len(trip) = Len(path) /\ DOMAIN trip = 1 .. Len(path)
         /\ _service_start(trip) = departure
         /\ _service_end(trip) \in Nat /\ departure <= _service_end(trip)
<1> PICK N \in Nat : N = Len(path)
  OBVIOUS
<1>1. PICK left :
        /\ left[0] = departure
        /\ \A i \in 1 .. N : left[i] = left[i - 1] + SpanOn(path[i], traversal, dwell)
        /\ trip = [i \in DOMAIN path |->
                     [node_id |-> path[i], enter |-> left[i - 1], exit |-> left[i]]]
  BY TripWalks, SMTT(30)
<1>2. ASSUME NEW i \in 1 .. N PROVE SpanOn(path[i], traversal, dwell) \in Nat
  BY DEF SpanOn
<1> DEFINE T == {k \in Nat : left[k] \in Nat /\ departure <= left[k]}
<1>3. N \in T
  <2>1. 0 \in T
    BY <1>1
  <2>2. ASSUME NEW k \in 0 .. N - 1, k \in T PROVE k + 1 \in T
    <3>1. k + 1 \in 1 .. N /\ (k + 1) - 1 = k /\ k + 1 \in Nat
      OBVIOUS
    <3>2. left[k + 1] = left[k] + SpanOn(path[k + 1], traversal, dwell)
      BY <1>1, <3>1
    <3> QED BY <1>2, <2>2, <3>1, <3>2
  <2> HIDE DEF T
  <2>3. 0 .. N \subseteq T
    BY <2>1, <2>2, InductionUpTo
  <2> QED BY <2>3
<1>4. /\ DOMAIN trip = 1 .. N /\ Len(trip) = N /\ 1 \in 1 .. N /\ N \in 1 .. N
      /\ trip[1].enter = left[0] /\ trip[N].exit = left[N]
  <2>1. 1 \in 1 .. N /\ N \in 1 .. N /\ 1 - 1 = 0
    OBVIOUS
  <2> QED BY <1>1, <2>1
<1> QED BY <1>1, <1>3, <1>4 DEF _service_start, _service_end

\* A payload leaves no choice of when its vehicle is where.
LEMMA RunsThroughOnce ==
  ASSUME NEW stops, NEW traversal, NEW n \in Nat, NEW a, NEW b,
         RunsThrough(stops, traversal, a, n), RunsThrough(stops, traversal, b, n)
  PROVE  a = b
<1> DEFINE Node == {stops[i].node_id : i \in DOMAIN stops}
           Expanded == [node_id : Node, enter : Nat, exit : Nat]
           T == {k \in Nat : \A j \in 1 .. k : a[j] = b[j]}
<1>1. a \in Seq(Expanded) /\ b \in Seq(Expanded) /\ Len(a) = n /\ Len(b) = n
  BY DEF RunsThrough
<1>2. \A j \in 1 .. n : a[j] \in Expanded /\ b[j] \in Expanded
  <2> HIDE DEF Expanded
  <2> QED BY <1>1
<1>3. 0 \in T
  OBVIOUS
<1>4. ASSUME NEW k \in 0 .. n - 1, k \in T PROVE k + 1 \in T
  <2> DEFINE i == k + 1
  <2>1. i \in 1 .. n /\ k \in Nat /\ i - 1 = k
    OBVIOUS
  <2>2. a[i].node_id = b[i].node_id /\ a[i].enter = b[i].enter /\ a[i].exit = b[i].exit
    <3>1. CASE is_block(stops[i].node_id)
      <4>1. i > 1 /\ a[i].enter = a[k].exit /\ b[i].enter = b[k].exit
        BY <2>1, <3>1 DEF RunsThrough
      <4>2. a[k] = b[k]
        BY <1>4, <2>1, <4>1
      <4> HIDE DEF i
      <4> QED BY <2>1, <3>1, <4>1, <4>2 DEF RunsThrough
    <3>2. CASE ~is_block(stops[i].node_id)
      BY <2>1, <3>2 DEF RunsThrough
    <3> QED BY <3>1, <3>2
  <2>3. a[i] \in Expanded /\ b[i] \in Expanded
    BY <1>2, <2>1
  <2> HIDE DEF Node
  <2>4. a[i] = b[i]
    <3>1. \A e \in Expanded, f \in Expanded :
            e.node_id = f.node_id /\ e.enter = f.enter /\ e.exit = f.exit => e = f
      OBVIOUS
    <3> HIDE DEF Expanded, i
    <3> QED BY <2>2, <2>3, <3>1
  <2>5. \A j \in 1 .. i : j \in 1 .. k \/ j = i
    OBVIOUS
  <2> QED BY <1>4, <2>4, <2>5
<1>5. n \in T
  <2> HIDE DEF T
  <2>1. 0 .. n \subseteq T
    BY <1>3, <1>4, InductionUpTo
  <2> QED BY <2>1
<1> HIDE DEF Expanded
<1> QED BY <1>1, <1>5

\* The rows the generator stores for a trip are a payload like any accepted one, and
\* the trip runs through it.
LEMMA TripRunsThroughItsRows ==
  ASSUME NEW path, Len(path) \in Nat, path = [i \in 1 .. Len(path) |-> path[i]],
         validate_path(path) = {},
         NEW departure \in Nat, NEW dwell \in Nat, None \notin Nat,
         NEW traversal, \A i \in DOMAIN path : TraversalSeconds(path[i], traversal) \in Nat,
         NEW trip, trip = _compute_stops(path, departure, traversal, dwell),
         NEW rows, rows = _stored_rows(trip)
  PROVE  /\ TimesTyped(rows) /\ Accepts(rows) /\ Len(rows) = Len(path)
         /\ \A i \in DOMAIN rows : rows[i].node_id = path[i]
         /\ RunsThrough(rows, traversal, trip, Len(path))
<1> DEFINE N == Len(path)
<1>1. PICK left :
        /\ left[0] = departure
        /\ \A i \in 1 .. N : left[i] = left[i - 1] + SpanOn(path[i], traversal, dwell)
        /\ trip = [i \in DOMAIN path |->
                     [node_id |-> path[i], enter |-> left[i - 1], exit |-> left[i]]]
  BY TripWalks, SMTT(30)
<1>2. ASSUME NEW i \in 1 .. N PROVE SpanOn(path[i], traversal, dwell) \in Nat
  <2>1. i \in DOMAIN path
    OBVIOUS
  <2>2. TraversalSeconds(path[i], traversal) \in Nat
    BY <2>1
  <2> QED BY <2>2 DEF SpanOn
<1> DEFINE T == {k \in Nat : left[k] \in Nat}
<1>3. \A k \in 0 .. N : left[k] \in Nat
  <2>1. 0 \in T
    BY <1>1
  <2>2. ASSUME NEW k \in 0 .. N - 1, k \in T PROVE k + 1 \in T
    <3>1. k + 1 \in 1 .. N /\ (k + 1) - 1 = k /\ k + 1 \in Nat
      OBVIOUS
    <3>2. left[k + 1] = left[k] + SpanOn(path[k + 1], traversal, dwell)
      BY <1>1, <3>1
    <3> QED BY <1>2, <2>2, <3>1, <3>2
  <2> HIDE DEF T
  <2>3. 0 .. N \subseteq T
    BY <2>1, <2>2, InductionUpTo
  <2> QED BY <2>3 DEF T
<1> HIDE DEF T
<1>4. /\ DOMAIN trip = 1 .. N /\ Len(trip) = N
      /\ \A i \in 1 .. N : /\ trip[i].node_id = path[i] /\ trip[i].enter = left[i - 1]
                           /\ trip[i].exit = left[i]
  BY <1>1
<1>5. /\ DOMAIN rows = 1 .. N /\ Len(rows) = N
      /\ \A i \in 1 .. N :
           rows[i] = IF is_block(path[i]) THEN StopOf(i - 1, path[i], None, None)
                     ELSE StopOf(i - 1, path[i], left[i - 1], left[i])
  BY <1>4 DEF _stored_rows
<1>6. \A i \in 1 .. N :
        /\ rows[i].node_id = path[i]
        /\ is_block(path[i]) => rows[i].arrival_time = None /\ rows[i].departure_time = None
        /\ ~is_block(path[i]) => rows[i].arrival_time = left[i - 1] /\ rows[i].departure_time = left[i]
  BY <1>5 DEF StopOf
<1>7. \A i \in 1 .. N : /\ i - 1 \in 0 .. N /\ i \in 0 .. N
                        /\ left[i - 1] \in Nat /\ left[i] \in Nat
                        /\ left[i] = left[i - 1] + SpanOn(path[i], traversal, dwell)
                        /\ left[i - 1] <= left[i]
  BY <1>1, <1>2, <1>3
<1>8. TimesTyped(rows)
  BY <1>5, <1>6, <1>7 DEF TimesTyped
<1>9. NodesOf(rows) = path
  <2> HIDE DEF N
  <2> QED BY <1>5, <1>6 DEF NodesOf, N
<1>10. _timing_errors(rows) = {}
  <2> SUFFICES ASSUME NEW i \in 1 .. N PROVE i \notin _timing_errors(rows)
    BY <1>5 DEF _timing_errors
  <2>1. is_block(path[i]) => path[i] \notin PLATFORMS \cup {YARD}
    BY DEF is_block, BLOCKS, PLATFORMS, YARD
  <2> QED BY <1>6, <1>7, <2>1 DEF _timing_errors, is_block
<1>11. Accepts(rows)
  BY <1>9, <1>10 DEF Accepts
<1>12. ~is_block(path[1]) /\ N >= 2
  BY <1>5, <1>6, <1>8, <1>11, AcceptedStops
<1>13. RunsThrough(rows, traversal, trip, N)
  <2> DEFINE Node == {rows[i].node_id : i \in DOMAIN rows}
             Expanded == [node_id : Node, enter : Nat, exit : Nat]
  <2>1. trip \in Seq(Expanded)
    <3>1. ASSUME NEW i \in 1 .. N PROVE trip[i] \in Expanded
      <4>1. trip[i] = [node_id |-> path[i], enter |-> left[i - 1], exit |-> left[i]]
        BY <1>1
      <4>2. path[i] \in Node
        BY <1>5, <1>6
      <4> HIDE DEF Node
      <4> QED BY <1>7, <4>1, <4>2
    <3>2. trip = [i \in 1 .. N |-> trip[i]]
      BY <1>1
    <3> HIDE DEF Expanded
    <3> QED BY <3>1, <3>2
  <2>2. ASSUME NEW i \in 1 .. N, is_block(path[i])
        PROVE  /\ i > 1 /\ trip[i].enter = trip[i - 1].exit
               /\ trip[i].exit = trip[i].enter + TraversalSeconds(path[i], traversal)
    <3>1. i > 1 /\ i - 1 \in 1 .. N
      BY <1>12, <2>2
    <3> QED BY <1>4, <1>7, <2>2, <3>1 DEF SpanOn
  <2>3. ASSUME NEW i \in 1 .. N, ~is_block(path[i])
        PROVE  /\ trip[i].enter = rows[i].arrival_time /\ trip[i].exit = rows[i].departure_time
               /\ trip[i].enter <= trip[i].exit
    BY <1>4, <1>6, <1>7, <2>3
  <2> QED BY <1>4, <1>6, <2>1, <2>2, <2>3 DEF RunsThrough
<1> QED BY <1>5, <1>6, <1>8, <1>11, <1>13
-----------------------------------------------------------------------------
(* The track *)

LEMMA EdgesOfTrack ==
  /\ NextNodes("Y") = {"B1", "B2"} /\ NextNodes("P1A") = {"B3", "B1"}
  /\ NextNodes("P1B") = {"B4", "B2"} /\ NextNodes("P2A") = {"B6"} /\ NextNodes("P2B") = {"B12"}
  /\ NextNodes("P3A") = {"B10"} /\ NextNodes("P3B") = {"B9"}
  /\ NextNodes("B1") = {"P1A", "Y"} /\ NextNodes("B2") = {"P1B", "Y"}
  /\ NextNodes("B3") = {"B5"} /\ NextNodes("B4") = {"B5"} /\ NextNodes("B5") = {"P2A"}
  /\ NextNodes("B6") = {"B7", "B8"} /\ NextNodes("B7") = {"P3A"} /\ NextNodes("B8") = {"P3B"}
  /\ NextNodes("B9") = {"B11"} /\ NextNodes("B10") = {"B11"} /\ NextNodes("B11") = {"P2B"}
  /\ NextNodes("B12") = {"B13", "B14"} /\ NextNodes("B13") = {"P1A"} /\ NextNodes("B14") = {"P1B"}
BY DEF NextNodes, ADJACENCY, ALL_NODES, PLATFORMS, BLOCKS, YARD
-----------------------------------------------------------------------------
(***************************************************************************)
(* Sums.  MapThenSumSet takes an operator; the lemmas take the weights as a*)
(* function instead.  The sums over all subsets of a set are a function,   *)
(* the one by which MapThenSumSet is defined, and it does not matter in    *)
(* which order elements are taken out.                                     *)
(***************************************************************************)

\* The recursion of MapThenSumSet, over the subsets of S.
SubsetSums(sums, weight, S) ==
  sums = [s \in SUBSET S |->
            IF s = {} THEN 0
            ELSE weight[CHOOSE x \in s : TRUE] + sums[s \ {CHOOSE x \in s : TRUE}]]

\* The sum over a set is that of an element and that of the others.
AddsUp(sums, weight, S) ==
  /\ sums \in [SUBSET S -> Int] /\ sums[{}] = 0
  /\ \A R \in SUBSET S : \A x \in R : sums[R] = weight[x] + sums[R \ {x}]

\* Induction over the subsets of a finite set, by their number of elements.
LEMMA SubsetInduction ==
  ASSUME NEW S, IsFiniteSet(S), NEW Holds, {} \in Holds,
         \A R \in SUBSET S : R # {} /\ (\A x \in R : R \ {x} \in Holds) => R \in Holds
  PROVE  SUBSET S \subseteq Holds
<1> DEFINE T == {n \in Nat : \A R \in SUBSET S : Cardinality(R) = n => R \in Holds}
<1>1. \A R \in SUBSET S : IsFiniteSet(R) /\ Cardinality(R) \in Nat
  BY FS_Subset, FS_CardinalityType
<1>2. 0 \in T
  BY <1>1, FS_EmptySet
<1>3. ASSUME NEW n \in Nat, n \in T PROVE n + 1 \in T
  <2> SUFFICES ASSUME NEW R \in SUBSET S, Cardinality(R) = n + 1 PROVE R \in Holds
    OBVIOUS
  <2>1. R # {}
    BY <1>1, FS_EmptySet
  <2>2. ASSUME NEW x \in R PROVE R \ {x} \in Holds
    <3>1. Cardinality(R \ {x}) = Cardinality(R) - 1
      BY <1>1, FS_RemoveElement
    <3>2. Cardinality(R \ {x}) = n /\ R \ {x} \in SUBSET S
      BY <3>1
    <3> QED BY <1>3, <3>2
  <2> QED BY <2>1, <2>2
<1>4. ASSUME NEW R \in SUBSET S PROVE R \in Holds
  <2>1. PICK n \in Nat : n = Cardinality(R)
    BY <1>1
  <2>2. 0 .. n \subseteq T
    <3> HIDE DEF T
    <3> QED BY <1>2, <1>3, InductionUpTo
  <2>3. n \in T
    BY <2>2
  <2> QED BY <2>1, <2>3
<1> QED BY <1>4

LEMMA SumsOfSubsetsExist ==
  ASSUME NEW S, IsFiniteSet(S), NEW weight
  PROVE  \E sums : SubsetSums(sums, weight, S)
<1> DEFINE Taken(s) == CHOOSE x \in s : TRUE
           UpTo(n) == {R \in SUBSET S : Cardinality(R) <= n}
           Works(f, n) == f = [R \in UpTo(n) |-> IF R = {} THEN 0
                                                 ELSE weight[Taken(R)] + f[R \ {Taken(R)}]]
           T == {n \in Nat : \E f : Works(f, n)}
<1>1. \A R \in SUBSET S : /\ IsFiniteSet(R) /\ Cardinality(R) \in Nat
                          /\ Cardinality(R) <= Cardinality(S)
                          /\ Cardinality(R) = 0 <=> R = {}
                          /\ R # {} => Taken(R) \in R
  BY FS_Subset, FS_CardinalityType, FS_EmptySet
<1>2. 0 \in T
  <2>1. Works([R \in UpTo(0) |-> 0], 0)
    <3>1. \A R \in UpTo(0) : R = {}
      BY <1>1
    <3> QED BY <3>1
  <2> QED BY <2>1
<1>3. ASSUME NEW n \in Nat, n \in T PROVE n + 1 \in T
  <2>1. PICK f : Works(f, n)
    BY <1>3
  <2> DEFINE Value(R) == IF R = {} THEN 0 ELSE weight[Taken(R)] + f[R \ {Taken(R)}]
             g == [R \in UpTo(n + 1) |-> Value(R)]
  <2>2. ASSUME NEW R \in UpTo(n + 1), R # {} PROVE f[R \ {Taken(R)}] = g[R \ {Taken(R)}]
    <3> PICK x \in R : x = Taken(R)
      BY <1>1, <2>2
    <3>1. Cardinality(R \ {x}) = Cardinality(R) - 1
      BY <1>1, FS_RemoveElement
    <3>2. R \ {x} \in UpTo(n) /\ R \ {x} \in UpTo(n + 1)
      BY <1>1, <3>1
    <3>3. f[R \ {x}] = Value(R \ {x})
      BY <2>1, <3>2
    <3> QED BY <3>2, <3>3
  <2>3. Works(g, n + 1)
    <3>1. \A R \in UpTo(n + 1) : Value(R) = IF R = {} THEN 0 ELSE weight[Taken(R)] + g[R \ {Taken(R)}]
      <4> HIDE DEF g, UpTo, Taken
      <4> QED BY <2>2
    <3> HIDE DEF UpTo, Value
    <3> QED BY <3>1
  <2> HIDE DEF g, Works
  <2> QED BY <2>3
<1>4. PICK f : Works(f, Cardinality(S))
  <2>1. PICK n \in Nat : n = Cardinality(S)
    BY <1>1
  <2>2. n \in T
    <3> HIDE DEF T
    <3>1. 0 .. n \subseteq T
      BY <1>2, <1>3, InductionUpTo
    <3> QED BY <3>1
  <2> QED BY <2>1, <2>2
<1>5. UpTo(Cardinality(S)) = SUBSET S
  BY <1>1
<1>6. SubsetSums(f, weight, S)
  <2> HIDE DEF UpTo
  <2> QED BY <1>4, <1>5 DEF SubsetSums
<1> QED BY <1>6

LEMMA SumsOfSubsetsUnique ==
  ASSUME NEW S, IsFiniteSet(S), NEW weight, NEW f, SubsetSums(f, weight, S), NEW g, SubsetSums(g, weight, S)
  PROVE  f = g
<1> DEFINE Holds == {R \in SUBSET S : f[R] = g[R]}
<1>1. {} \in Holds
  BY DEF SubsetSums
<1>2. ASSUME NEW R \in SUBSET S, R # {}, \A x \in R : R \ {x} \in Holds PROVE R \in Holds
  <2> PICK x \in R : x = CHOOSE y \in R : TRUE
    BY <1>2
  <2>1. f[R] = weight[x] + f[R \ {x}] /\ g[R] = weight[x] + g[R \ {x}]
    BY <1>2 DEF SubsetSums
  <2> QED BY <1>2, <2>1
<1>3. SUBSET S \subseteq Holds
  <2> HIDE DEF Holds
  <2> QED BY <1>1, <1>2, SubsetInduction
<1> QED BY <1>3 DEF SubsetSums

\* In whichever order the elements are taken out.
LEMMA SumsAddUp ==
  ASSUME NEW S, IsFiniteSet(S), NEW weight, \A x \in S : weight[x] \in Int,
         NEW f, SubsetSums(f, weight, S)
  PROVE  AddsUp(f, weight, S)
<1> DEFINE Ints == {R \in SUBSET S : f[R] \in Int}
           Holds == {R \in SUBSET S : \A x \in R : f[R] = weight[x] + f[R \ {x}]}
<1>1. ASSUME NEW R \in SUBSET S, R # {}
      PROVE  \E c \in R : f[R] = weight[c] + f[R \ {c}]
  <2> PICK c \in R : c = CHOOSE y \in R : TRUE
    BY <1>1
  <2> QED BY <1>1 DEF SubsetSums
<1>2. \A R \in SUBSET S : f[R] \in Int
  <2>1. {} \in Ints
    BY DEF SubsetSums
  <2>2. ASSUME NEW R \in SUBSET S, R # {}, \A x \in R : R \ {x} \in Ints PROVE R \in Ints
    <3>1. PICK c \in R : f[R] = weight[c] + f[R \ {c}]
      BY <1>1, <2>2
    <3>2. weight[c] \in Int /\ f[R \ {c}] \in Int
      BY <2>2
    <3> QED BY <3>1, <3>2
  <2>3. SUBSET S \subseteq Ints
    <3> HIDE DEF Ints
    <3> QED BY <2>1, <2>2, SubsetInduction
  <2> QED BY <2>3
<1>3. {} \in Holds
  OBVIOUS
<1>4. ASSUME NEW R \in SUBSET S, R # {}, \A x \in R : R \ {x} \in Holds PROVE R \in Holds
  <2>1. PICK c \in R : f[R] = weight[c] + f[R \ {c}]
    BY <1>1, <1>4
  <2>2. ASSUME NEW x \in R, x # c PROVE f[R] = weight[x] + f[R \ {x}]
    <3>1. x \in R \ {c} /\ c \in R \ {x} /\ (R \ {c}) \ {x} = (R \ {x}) \ {c}
      BY <2>2
    <3>2. PICK others : others = (R \ {c}) \ {x}
      OBVIOUS
    <3>3. f[R \ {c}] = weight[x] + f[others] /\ f[R \ {x}] = weight[c] + f[others]
      BY <1>4, <3>1, <3>2
    <3>4. f[others] \in Int /\ weight[x] \in Int /\ weight[c] \in Int
      BY <1>2, <3>2
    <3> QED BY <2>1, <3>3, <3>4
  <2> QED BY <2>1, <2>2
<1>5. SUBSET S \subseteq Holds
  <2> HIDE DEF Holds
  <2> QED BY <1>3, <1>4, SubsetInduction
<1>6. DOMAIN f = SUBSET S /\ f[{}] = 0 /\ f = [R \in SUBSET S |-> f[R]]
  BY DEF SubsetSums
<1> QED BY <1>2, <1>5, <1>6 DEF AddsUp

\* What MapThenSumSet gives for the weights.
Total(weight, S) == (CHOOSE sums : SubsetSums(sums, weight, S))[S]

LEMMA TotalOfParts ==
  ASSUME NEW S, IsFiniteSet(S), NEW weight, \A x \in S : weight[x] \in Int
  PROVE  \E sums : AddsUp(sums, weight, S) /\ \A R \in SUBSET S : Total(weight, R) = sums[R]
<1>1. PICK sums : SubsetSums(sums, weight, S)
  BY SumsOfSubsetsExist
<1>2. ASSUME NEW R \in SUBSET S PROVE Total(weight, R) = sums[R]
  <2> PICK part : part = [T \in SUBSET R |-> sums[T]]
    OBVIOUS
  <2>1. SubsetSums(part, weight, R)
    <3>1. ASSUME NEW T \in SUBSET R, T # {}
          PROVE  sums[T] = weight[CHOOSE x \in T : TRUE] + part[T \ {CHOOSE x \in T : TRUE}]
      <4> PICK c \in T : c = CHOOSE x \in T : TRUE
        BY <3>1
      <4>1. T \in SUBSET S /\ T \ {c} \in SUBSET R
        OBVIOUS
      <4>2. sums[T] = weight[c] + sums[T \ {c}]
        BY <1>1, <3>1, <4>1 DEF SubsetSums
      <4> QED BY <4>1, <4>2
    <3>2. sums[{}] = 0
      BY <1>1 DEF SubsetSums
    <3> QED BY <3>1, <3>2 DEF SubsetSums
  <2>2. IsFiniteSet(R)
    BY FS_Subset
  <2>3. \A f : SubsetSums(f, weight, R) => f = part
    BY <2>1, <2>2, SumsOfSubsetsUnique
  <2>4. (CHOOSE f : SubsetSums(f, weight, R)) = part
    BY <2>1, <2>3
  <2> QED BY <2>4 DEF Total
<1>3. AddsUp(sums, weight, S)
  BY <1>1, SumsAddUp
<1> QED BY <1>2, <1>3

\* Sums of the same weights are the same.
LEMMA SameWeights ==
  ASSUME NEW S, NEW w, NEW f, AddsUp(f, w, S), NEW T, NEW u, NEW g, AddsUp(g, u, T),
         NEW A, IsFiniteSet(A), A \subseteq S, A \subseteq T, \A x \in A : w[x] = u[x]
  PROVE  f[A] = g[A]
<1> DEFINE Holds == {R \in SUBSET A : f[R] = g[R]}
<1>1. {} \in Holds
  BY DEF AddsUp
<1>2. ASSUME NEW R \in SUBSET A, R # {}, \A x \in R : R \ {x} \in Holds PROVE R \in Holds
  <2> PICK x \in R : TRUE
    BY <1>2
  <2>1. f[R] = w[x] + f[R \ {x}] /\ g[R] = u[x] + g[R \ {x}]
    BY DEF AddsUp
  <2> QED BY <1>2, <2>1
<1>3. SUBSET A \subseteq Holds
  <2> HIDE DEF Holds
  <2> QED BY <1>1, <1>2, SubsetInduction
<1> QED BY <1>3

\* The sum over two sets without a common element.
LEMMA SumOfUnion ==
  ASSUME NEW S, NEW w, NEW f, AddsUp(f, w, S), \A x \in S : w[x] \in Int,
         NEW A \in SUBSET S, NEW B \in SUBSET S, IsFiniteSet(B), A \cap B = {}
  PROVE  f[A \cup B] = f[A] + f[B]
<1> DEFINE Holds == {R \in SUBSET B : f[A \cup R] = f[A] + f[R]}
<1>0. \A R \in SUBSET S : f[R] \in Int
  BY DEF AddsUp
<1>1. {} \in Holds
  <2>1. A \cup {} = A /\ f[{}] = 0
    BY DEF AddsUp
  <2> QED BY <1>0, <2>1
<1>2. ASSUME NEW R \in SUBSET B, R # {}, \A x \in R : R \ {x} \in Holds PROVE R \in Holds
  <2> PICK x \in R : TRUE
    BY <1>2
  <2>1. (A \cup R) \ {x} = A \cup (R \ {x}) /\ A \cup R \in SUBSET S /\ R \in SUBSET S
    OBVIOUS
  <2> PICK C, D : C = A \cup R /\ D = R \ {x}
    OBVIOUS
  <2>2. f[C] = w[x] + f[A \cup D] /\ f[R] = w[x] + f[D]
    <3>1. C \in SUBSET S /\ R \in SUBSET S /\ x \in C /\ C \ {x} = A \cup D
      BY <2>1
    <3>2. f[C] = w[x] + f[C \ {x}] /\ f[R] = w[x] + f[R \ {x}]
      BY <3>1 DEF AddsUp
    <3> QED BY <3>1, <3>2
  <2>3. f[A \cup D] = f[A] + f[D]
    BY <1>2
  <2>4. f[A] \in Int /\ f[D] \in Int /\ w[x] \in Int
    BY <1>0
  <2>5. f[C] = f[A] + f[R]
    BY <2>2, <2>3, <2>4
  <2> QED BY <2>5
<1>3. SUBSET B \subseteq Holds
  <2> HIDE DEF Holds
  <2> QED BY <1>1, <1>2, SubsetInduction
<1> QED BY <1>3

\* The sum over the images of the elements.
LEMMA SumOfImages ==
  ASSUME NEW S, NEW w, NEW f, AddsUp(f, w, S), NEW T, NEW u, NEW g, AddsUp(g, u, T),
         NEW A \in SUBSET S, IsFiniteSet(A), NEW h, \A x \in A : h[x] \in T,
         \A x, y \in A : h[x] = h[y] => x = y, \A x \in A : w[x] = u[h[x]]
  PROVE  f[A] = g[{h[x] : x \in A}]
<1> DEFINE Image(R) == {h[x] : x \in R}
           Holds == {R \in SUBSET A : f[R] = g[Image(R)]}
<1>1. {} \in Holds
  <2>1. Image({}) = {}
    OBVIOUS
  <2> QED BY <2>1 DEF AddsUp
<1>2. ASSUME NEW R \in SUBSET A, R # {}, \A x \in R : R \ {x} \in Holds PROVE R \in Holds
  <2> PICK x \in R : TRUE
    BY <1>2
  <2>1. Image(R) \ {h[x]} = Image(R \ {x}) /\ Image(R) \in SUBSET T /\ h[x] \in Image(R)
    OBVIOUS
  <2> HIDE DEF Image
  <2>2. f[R] = w[x] + f[R \ {x}] /\ g[Image(R)] = u[h[x]] + g[Image(R \ {x})]
    <3> PICK B : B = Image(R)
      OBVIOUS
    <3>1. B \in SUBSET T /\ h[x] \in B /\ B \ {h[x]} = Image(R \ {x}) /\ R \in SUBSET S
      BY <2>1
    <3>2. f[R] = w[x] + f[R \ {x}] /\ g[B] = u[h[x]] + g[B \ {h[x]}]
      BY <3>1 DEF AddsUp
    <3> QED BY <3>1, <3>2
  <2> QED BY <1>2, <2>2
<1>3. SUBSET A \subseteq Holds
  <2> HIDE DEF Holds
  <2> QED BY <1>1, <1>2, SubsetInduction
<1> QED BY <1>3

\* The sum of equal weights.
LEMMA SumOfEqualWeights ==
  ASSUME NEW S, NEW w, NEW f, AddsUp(f, w, S), NEW c \in Int,
         NEW A \in SUBSET S, IsFiniteSet(A), \A x \in A : w[x] = c
  PROVE  f[A] = c * Cardinality(A)
<1> DEFINE Holds == {R \in SUBSET A : f[R] = c * Cardinality(R)}
<1>1. {} \in Holds
  BY FS_EmptySet DEF AddsUp
<1>2. ASSUME NEW R \in SUBSET A, R # {}, \A x \in R : R \ {x} \in Holds PROVE R \in Holds
  <2> PICK x \in R : TRUE
    BY <1>2
  <2>1. f[R] = c + f[R \ {x}]
    BY DEF AddsUp
  <2>2. IsFiniteSet(R) /\ Cardinality(R) \in Nat /\ Cardinality(R \ {x}) = Cardinality(R) - 1
    BY FS_Subset, FS_RemoveElement, FS_CardinalityType
  <2> PICK n \in Int : n = Cardinality(R)
    BY <2>2
  <2>3. f[R] = c + c * (n - 1)
    BY <1>2, <2>1, <2>2
  <2>4. c + c * (n - 1) = c * n
    OBVIOUS
  <2> QED BY <2>3, <2>4
<1>3. SUBSET A \subseteq Holds
  <2> HIDE DEF Holds
  <2> QED BY <1>1, <1>2, SubsetInduction
<1> QED BY <1>3

\* Two sums whose weights differ for one element only.
LEMMA SumsApart ==
  ASSUME NEW S, NEW w, NEW f, AddsUp(f, w, S), NEW u, NEW g, AddsUp(g, u, S), IsFiniteSet(S),
         \A x \in S : w[x] \in Int /\ u[x] \in Int,
         NEW c \in S, \A x \in S \ {c} : w[x] = u[x]
  PROVE  f[S] - g[S] = w[c] - u[c] /\ f[S] \in Int /\ g[S] \in Int
<1> PICK R : R = S \ {c}
  OBVIOUS
<1>1. IsFiniteSet(R) /\ R \subseteq S /\ \A x \in R : w[x] = u[x]
  BY FS_Subset
<1>2. f[R] = g[R]
  BY <1>1, SameWeights
<1>3. f[S] = w[c] + f[R] /\ g[S] = u[c] + g[R]
  BY DEF AddsUp
<1>4. f[S] \in Int /\ g[S] \in Int /\ f[R] \in Int /\ w[c] \in Int /\ u[c] \in Int
  BY DEF AddsUp
<1> QED BY <1>2, <1>3, <1>4

\* The sum of the weights with the other sign.
LEMMA SumOfNegatives ==
  ASSUME NEW S, NEW w, NEW f, AddsUp(f, w, S), NEW T, NEW u, NEW g, AddsUp(g, u, T),
         NEW A, IsFiniteSet(A), A \subseteq S, A \subseteq T, \A x \in A : w[x] \in Int /\ u[x] = -w[x]
  PROVE  g[A] = -f[A]
<1> DEFINE Holds == {R \in SUBSET A : g[R] = -f[R]}
<1>1. {} \in Holds
  BY DEF AddsUp
<1>2. ASSUME NEW R \in SUBSET A, R # {}, \A x \in R : R \ {x} \in Holds PROVE R \in Holds
  <2> PICK x \in R : TRUE
    BY <1>2
  <2>1. f[R] = w[x] + f[R \ {x}] /\ g[R] = u[x] + g[R \ {x}] /\ f[R \ {x}] \in Int /\ w[x] \in Int
    BY DEF AddsUp
  <2> QED BY <1>2, <2>1
<1>3. SUBSET A \subseteq Holds
  <2> HIDE DEF Holds
  <2> QED BY <1>1, <1>2, SubsetInduction
<1> QED BY <1>3

\* The same elements counted twice, once as a set and what it leaves of the other, once
\* the other way round.
LEMMA SumOfBoth ==
  ASSUME NEW S, IsFiniteSet(S), NEW w, NEW f, AddsUp(f, w, S), \A x \in S : w[x] \in Int,
         NEW A \in SUBSET S, NEW R \in SUBSET S
  PROVE  f[A] + f[R \ A] = f[R] + f[A \ R]
<1>1. PICK P, Q : P = R \ A /\ Q = A \ R
  OBVIOUS
<1>2. /\ P \in SUBSET S /\ Q \in SUBSET S /\ IsFiniteSet(P) /\ IsFiniteSet(Q)
      /\ A \cap P = {} /\ R \cap Q = {} /\ A \cup P = R \cup Q
  BY <1>1, FS_Subset
<1>3. f[A \cup P] = f[A] + f[P]
  BY <1>2, SumOfUnion
<1>4. f[R \cup Q] = f[R] + f[Q]
  BY <1>2, SumOfUnion
<1> QED BY <1>1, <1>2, <1>3, <1>4
\* The sum of a set of ledger events is the sum of their deltas as weights.
LEMMA LedgerSum ==
  ASSUME NEW E, IsFiniteSet(E), NEW weight, weight = [e \in E |-> e.delta]
  PROVE  \A R \in SUBSET E : _sum(R) = Total(weight, R)
<1> SUFFICES ASSUME NEW R \in SUBSET E PROVE _sum(R) = Total(weight, R)
  OBVIOUS
<1>1. \A s \in SUBSET R : s # {} => weight[CHOOSE x \in s : TRUE] = (CHOOSE x \in s : TRUE).delta
  OBVIOUS
<1>2. \A f : SubsetSums(f, weight, R) <=>
               f = [s \in SUBSET R |->
                      IF s = {} THEN 0
                      ELSE (CHOOSE x \in s : TRUE).delta + f[s \ {CHOOSE x \in s : TRUE}]]
  BY <1>1 DEF SubsetSums
<1>3. IsFiniteSet(R)
  BY FS_Subset
<1>4. PICK g : SubsetSums(g, weight, R) /\ \A f : SubsetSums(f, weight, R) => f = g
  BY <1>3, SumsOfSubsetsExist, SumsOfSubsetsUnique
<1>5. (CHOOSE f : SubsetSums(f, weight, R)) = g
  BY <1>4
<1>6. (CHOOSE f : f = [s \in SUBSET R |->
                      IF s = {} THEN 0
                      ELSE (CHOOSE x \in s : TRUE).delta + f[s \ {CHOOSE x \in s : TRUE}]]) = g
  BY <1>2, <1>4
<1> QED BY <1>5, <1>6 DEF Total, _sum, MapThenSumSet, MapThenFoldSet

\* So the sums over the parts of a finite ledger are a function that adds up.
LEMMA LedgerAddsUp ==
  ASSUME NEW E, IsFiniteSet(E), \A e \in E : e.delta \in Int,
         NEW weight, weight = [e \in E |-> e.delta]
  PROVE  \E sums : AddsUp(sums, weight, E) /\ \A R \in SUBSET E : _sum(R) = sums[R]
<1>1. \A e \in E : weight[e] \in Int
  OBVIOUS
<1>2. PICK sums : AddsUp(sums, weight, E) /\ \A R \in SUBSET E : Total(weight, R) = sums[R]
  BY <1>1, TotalOfParts
<1>3. \A R \in SUBSET E : _sum(R) = Total(weight, R)
  BY LedgerSum
<1> QED BY <1>2, <1>3

LEMMA SumOfOneEvent ==
  ASSUME NEW e, e.delta \in Int
  PROVE  _sum({e}) = e.delta
<1>E. PICK E : E = {e}
  OBVIOUS
<1>w. PICK w : w = [x \in E |-> x.delta]
  OBVIOUS
<1>1. IsFiniteSet(E) /\ \A x \in E : x.delta \in Int
  BY <1>E, FS_Singleton
<1>2. PICK sums : AddsUp(sums, w, E) /\ \A R \in SUBSET E : _sum(R) = sums[R]
  BY <1>1, <1>w, LedgerAddsUp
<1>3. E \in SUBSET E /\ e \in E /\ E \ {e} = {} /\ w[e] = e.delta
  BY <1>E, <1>w
<1>4. sums[E] = w[e] + sums[E \ {e}] /\ sums[{}] = 0
  BY <1>2, <1>3 DEF AddsUp
<1>5. sums[E] = e.delta
  <2>1. sums[E \ {e}] = 0
    BY <1>3, <1>4
  <2>2. sums[E] = e.delta + 0
    BY <1>3, <1>4, <2>1
  <2> QED BY <2>2
<1> QED BY <1>E, <1>2, <1>3, <1>5

\* The sum of two ledgers without a common event.
LEMMA SumOfParts ==
  ASSUME NEW A, NEW B, IsFiniteSet(A), IsFiniteSet(B), A \cap B = {},
         \A e \in A \cup B : e.delta \in Int
  PROVE  _sum(A \cup B) = _sum(A) + _sum(B) /\ _sum(A) \in Int /\ _sum(B) \in Int
<1>E. PICK E : E = A \cup B
  OBVIOUS
<1>w. PICK w : w = [e \in E |-> e.delta]
  OBVIOUS
<1>1. IsFiniteSet(E) /\ \A e \in E : e.delta \in Int /\ w[e] \in Int
  BY <1>E, <1>w, FS_Union
<1>2. PICK f : AddsUp(f, w, E) /\ \A R \in SUBSET E : _sum(R) = f[R]
  BY <1>1, <1>w, LedgerAddsUp
<1>3. A \in SUBSET E /\ B \in SUBSET E
  BY <1>E
<1>4. f[A \cup B] = f[A] + f[B]
  BY <1>1, <1>2, <1>3, SumOfUnion
<1>5. f[A] \in Int /\ f[B] \in Int
  BY <1>2, <1>3 DEF AddsUp
<1> QED BY <1>2, <1>3, <1>4, <1>5

LEMMA SumWithEvent ==
  ASSUME NEW A, IsFiniteSet(A), \A e \in A : e.delta \in Int, NEW x, x \notin A, x.delta \in Int
  PROVE  _sum(A \cup {x}) = _sum(A) + x.delta /\ _sum(A) \in Int
<1>1. IsFiniteSet({x}) /\ A \cap {x} = {}
  BY FS_Singleton
<1>2. _sum(A \cup {x}) = _sum(A) + _sum({x}) /\ _sum(A) \in Int
  BY <1>1, SumOfParts
<1> QED BY <1>2, SumOfOneEvent

\* Events none of which adds anything add nothing together.
LEMMA SumNotPositive ==
  ASSUME NEW A, IsFiniteSet(A), \A e \in A : e.delta \in Int /\ e.delta <= 0
  PROVE  _sum(A) \in Int /\ _sum(A) <= 0
<1>w. PICK w : w = [e \in A |-> e.delta]
  OBVIOUS
<1>1. PICK f : AddsUp(f, w, A) /\ \A R \in SUBSET A : _sum(R) = f[R]
  BY <1>w, LedgerAddsUp
<1> DEFINE Holds == {R \in SUBSET A : f[R] <= 0}
<1>2. {} \in Holds
  BY <1>1 DEF AddsUp
<1>3. ASSUME NEW R \in SUBSET A, R # {}, \A x \in R : R \ {x} \in Holds PROVE R \in Holds
  <2> PICK x \in R : TRUE
    BY <1>3
  <2>1. f[R] = w[x] + f[R \ {x}] /\ f[R \ {x}] \in Int /\ w[x] \in Int /\ w[x] <= 0
    BY <1>1, <1>w DEF AddsUp
  <2>2. f[R \ {x}] <= 0
    BY <1>3
  <2> QED BY <2>1, <2>2
<1>4. SUBSET A \subseteq Holds
  <2> HIDE DEF Holds
  <2> QED BY <1>2, <1>3, SubsetInduction
<1>5. A \in SUBSET A /\ f[A] \in Int
  BY <1>1 DEF AddsUp
<1> QED BY <1>1, <1>4, <1>5

\* What the column delta stores is in hundredths of a percent, and so are its sums.
InHundredths(level) == \E n \in Int : level = n * 12

LEMMA SumInHundredths ==
  ASSUME NEW A, IsFiniteSet(A), \A e \in A : InHundredths(e.delta)
  PROVE  InHundredths(_sum(A)) /\ _sum(A) \in Int
<1>w. PICK w : w = [e \in A |-> e.delta]
  OBVIOUS
<1>0. \A e \in A : e.delta \in Int
  BY DEF InHundredths
<1>1. PICK f : AddsUp(f, w, A) /\ \A R \in SUBSET A : _sum(R) = f[R]
  BY <1>0, <1>w, LedgerAddsUp
<1> DEFINE Holds == {R \in SUBSET A : InHundredths(f[R])}
<1>2. {} \in Holds
  <2>1. f[{}] = 0 * 12
    BY <1>1 DEF AddsUp
  <2> QED BY <2>1 DEF InHundredths
<1>3. ASSUME NEW R \in SUBSET A, R # {}, \A x \in R : R \ {x} \in Holds PROVE R \in Holds
  <2> PICK x \in R : TRUE
    BY <1>3
  <2>1. f[R] = w[x] + f[R \ {x}] /\ w[x] = x.delta
    BY <1>1, <1>w DEF AddsUp
  <2>2. PICK m \in Int : f[R \ {x}] = m * 12
    BY <1>3 DEF InHundredths
  <2>3. PICK n \in Int : x.delta = n * 12
    BY DEF InHundredths
  <2>4. f[R] = (n + m) * 12
    BY <2>1, <2>2, <2>3
  <2>5. InHundredths(f[R])
    BY <2>4 DEF InHundredths
  <2> QED BY <2>5
<1>4. SUBSET A \subseteq Holds
  <2> HIDE DEF Holds
  <2> QED BY <1>2, <1>3, SubsetInduction
<1>5. A \in SUBSET A /\ f[A] \in Int
  BY <1>1 DEF AddsUp
<1> QED BY <1>1, <1>4, <1>5
-----------------------------------------------------------------------------
(* Where a vehicle is shown *)

\* Every non-empty set of numbers up to a bound has a greatest element.
LEMMA GreatestElement ==
  ASSUME NEW N \in Nat, NEW S \in SUBSET (0 .. N), S # {}
  PROVE  \E n \in S : \A m \in S : m <= n
<1> DEFINE Below == {k \in 0 .. N : N - k \in S}
<1>1. Below \subseteq Nat /\ Below # {}
  <2>1. PICK s \in S : TRUE
    OBVIOUS
  <2>2. N - s \in 0 .. N /\ N - (N - s) = s
    OBVIOUS
  <2> QED BY <2>2
<1>2. PICK k \in Below : \A j \in Below : k <= j
  <2> HIDE DEF Below
  <2> QED BY <1>1, LeastElement
<1>3. ASSUME NEW m \in S PROVE m <= N - k
  <2>1. N - m \in 0 .. N /\ N - (N - m) = m
    OBVIOUS
  <2>2. k <= N - m
    BY <1>2, <2>1
  <2> QED BY <2>1, <2>2
<1> QED BY <1>3

\* A service whose stops are entered and left one after the other, the second at the
\* instant the first is left and not left at once.
Forward(snap) ==
  /\ Len(snap.stops) \in Nat /\ Len(snap.stops) >= 2
  /\ DOMAIN snap.stops = 1 .. Len(snap.stops)
  /\ snap.stops[2].enter = snap.stops[1].exit
  /\ snap.stops[2].enter < snap.stops[2].exit
  /\ \A i \in DOMAIN snap.stops :
       /\ snap.stops[i].enter \in Nat /\ snap.stops[i].exit \in Nat
       /\ snap.stops[i].enter <= snap.stops[i].exit
       /\ i > 1 => snap.stops[i - 1].exit <= snap.stops[i].enter

\* No stop is entered or left before an earlier one.
LEMMA RunsForward ==
  ASSUME NEW snap, Forward(snap),
         NEW i \in DOMAIN snap.stops, NEW j \in DOMAIN snap.stops, i <= j
  PROVE  /\ snap.stops[i].exit <= snap.stops[j].exit
         /\ snap.stops[i].enter <= snap.stops[j].enter
         /\ i < j => snap.stops[i].exit <= snap.stops[j].enter
<1>1. PICK stops : stops = snap.stops
  OBVIOUS
<1>2. PICK N \in Nat : N = Len(stops)
  BY <1>1 DEF Forward
<1>3. /\ DOMAIN stops = 1 .. N /\ i \in 1 .. N /\ j \in 1 .. N
      /\ \A k \in 1 .. N :
           /\ stops[k].enter \in Nat /\ stops[k].exit \in Nat
           /\ stops[k].enter <= stops[k].exit
           /\ k > 1 => stops[k - 1].exit <= stops[k].enter
  BY <1>1, <1>2 DEF Forward
<1> DEFINE T == {d \in Nat : i + d <= N => stops[i].exit <= stops[i + d].exit}
<1>4. 0 \in T
  BY <1>3
<1>5. ASSUME NEW d \in 0 .. N - 1, d \in T PROVE d + 1 \in T
  <2>1. SUFFICES ASSUME i + (d + 1) <= N PROVE stops[i].exit <= stops[i + (d + 1)].exit
    OBVIOUS
  <2>2. PICK k \in 1 .. N : k = i + d
    BY <1>3, <2>1
  <2>3. k + 1 \in 1 .. N /\ k + 1 > 1 /\ (k + 1) - 1 = k /\ k + 1 = i + (d + 1)
    BY <1>3, <2>1, <2>2
  <2>4. stops[i].exit <= stops[k].exit
    BY <1>5, <2>2
  <2>5. stops[k].exit <= stops[k + 1].exit
    BY <1>3, <2>3
  <2> QED BY <1>3, <2>2, <2>3, <2>4, <2>5
<1> HIDE DEF T
<1>6. 0 .. N \subseteq T
  BY <1>4, <1>5, InductionUpTo
<1>7. ASSUME NEW k \in 1 .. N, i <= k PROVE stops[i].exit <= stops[k].exit
  <2>1. k - i \in 0 .. N /\ i + (k - i) = k
    BY <1>3, <1>7
  <2>2. k - i \in T
    BY <1>6, <2>1
  <2> QED BY <2>1, <2>2 DEF T
<1>8. i < j => stops[i].exit <= stops[j].enter
  <2> SUFFICES ASSUME i < j PROVE stops[i].exit <= stops[j].enter
    OBVIOUS
  <2>1. j - 1 \in 1 .. N /\ i <= j - 1 /\ j > 1
    BY <1>3
  <2> QED BY <1>3, <1>7, <2>1
<1>9. i < j \/ i = j
  BY <1>3
<1> QED BY <1>1, <1>3, <1>7, <1>8, <1>9

\* A service takes some time, and its stops lie within its window.
LEMMA WindowHolds ==
  ASSUME NEW snap, Forward(snap)
  PROVE  /\ _snap_window(snap).enter \in Nat /\ _snap_window(snap).exit \in Nat
         /\ _snap_window(snap).enter < _snap_window(snap).exit
         /\ \A i \in DOMAIN snap.stops :
              /\ _snap_window(snap).enter <= snap.stops[i].enter
              /\ snap.stops[i].exit <= _snap_window(snap).exit
<1>1. PICK N \in Nat : N = Len(snap.stops)
  BY DEF Forward
<1>2. /\ 1 \in DOMAIN snap.stops /\ 2 \in DOMAIN snap.stops /\ N \in DOMAIN snap.stops
      /\ DOMAIN snap.stops = 1 .. N
  BY <1>1 DEF Forward
<1>3. \A i \in DOMAIN snap.stops : snap.stops[i].enter \in Nat /\ snap.stops[i].exit \in Nat
  BY DEF Forward
<1>4. /\ _snap_window(snap).enter = snap.stops[1].enter
      /\ _snap_window(snap).exit = snap.stops[N].exit
  BY <1>1 DEF _snap_window
<1>5. ASSUME NEW i \in DOMAIN snap.stops
      PROVE  /\ snap.stops[1].enter <= snap.stops[i].enter
             /\ snap.stops[i].exit <= snap.stops[N].exit
  <2>1. 1 <= i /\ i <= N
    BY <1>2
  <2> QED BY <1>2, <2>1, RunsForward
<1>6. snap.stops[2].enter < snap.stops[2].exit
  BY DEF Forward
<1>7. snap.stops[1].enter < snap.stops[N].exit
  BY <1>2, <1>3, <1>5, <1>6
<1> QED BY <1>2, <1>3, <1>4, <1>5, <1>7

\* The stop by which a service is found under way.
LEMMA ActiveStop ==
  ASSUME NEW snap, DOMAIN snap.stops \subseteq Nat, NEW t
  PROVE  \/ _find_active(snap, t) = {} /\ \A k \in DOMAIN snap.stops : ~Covers(snap.stops[k], t)
         \/ \E k \in DOMAIN snap.stops : \E hit :
              /\ Covers(snap.stops[k], t)
              /\ _find_active(snap, t) = {hit} /\ hit.node_id = snap.stops[k].node_id
<1> DEFINE covering == {i \in DOMAIN snap.stops : Covers(snap.stops[i], t)}
           Hit(i) == [service_id |-> snap.service_id, node_id |-> snap.stops[i].node_id,
                      next_node |-> IF i < Len(snap.stops) THEN snap.stops[i + 1].node_id ELSE None]
<1>1. _find_active(snap, t) = IF covering = {} THEN {} ELSE {Hit(Min(covering))}
  BY Zenon DEF _find_active
<1>2. ASSUME covering # {} PROVE Min(covering) \in covering
  <2>1. covering \subseteq Nat
    OBVIOUS
  <2> HIDE DEF covering
  <2>2. \E n \in covering : \A m \in covering : n <= m
    BY <1>2, <2>1, LeastElement
  <2> QED BY <2>2 DEF Min
<1>3. CASE covering = {}
  BY <1>1, <1>3
<1>4. CASE covering # {}
  <2>1. PICK k : k = Min(covering)
    OBVIOUS
  <2>2. k \in DOMAIN snap.stops /\ Covers(snap.stops[k], t)
    BY <1>2, <1>4, <2>1
  <2>3. _find_active(snap, t) = {Hit(k)}
    <3> HIDE DEF covering, Hit
    <3> QED BY <1>1, <1>4, <2>1
  <2>4. Hit(k).node_id = snap.stops[k].node_id
    OBVIOUS
  <2> HIDE DEF covering, Hit
  <2> QED BY <2>2, <2>3, <2>4
<1> QED BY <1>3, <1>4

\* Services that run one after another, but for those without a stop.
OneAfterAnother(snaps) ==
  /\ \A s \in snaps : s.stops = << >> \/ Forward(s)
  /\ \A s, r \in snaps : s # r /\ << >> \notin {s.stops, r.stops} =>
       \/ _snap_window(s).exit <= _snap_window(r).enter
       \/ _snap_window(r).exit <= _snap_window(s).enter

LEMMA ServiceWithStops ==
  ASSUME NEW snaps, OneAfterAnother(snaps), NEW s \in snaps
  PROVE  /\ DOMAIN s.stops \subseteq Nat
         /\ \A i \in DOMAIN s.stops : s.stops # << >> /\ Forward(s)
<1>1. CASE s.stops = << >>
  BY <1>1
<1>2. CASE Forward(s)
  <2>1. Len(s.stops) \in Nat /\ DOMAIN s.stops = 1 .. Len(s.stops) /\ Len(s.stops) # 0
    BY <1>2 DEF Forward
  <2>2. s.stops # << >>
    <3> SUFFICES ASSUME s.stops = << >> PROVE FALSE
      OBVIOUS
    <3>1. Len(s.stops) = 0
      OBVIOUS
    <3> QED BY <2>1, <3>1
  <2>3. DOMAIN s.stops \subseteq Nat
    BY <2>1
  <2> QED BY <1>2, <2>2, <2>3
<1> QED BY <1>1, <1>2 DEF OneAfterAnother

\* At most one of them is under way.
LEMMA OneUnderWay ==
  ASSUME NEW snaps, OneAfterAnother(snaps), NEW t \in Nat,
         NEW s \in snaps, NEW i \in DOMAIN s.stops, Covers(s.stops[i], t),
         NEW r \in snaps, NEW j \in DOMAIN r.stops, Covers(r.stops[j], t)
  PROVE  s = r
<1>1. Forward(s) /\ s.stops # << >> /\ Forward(r) /\ r.stops # << >>
  BY ServiceWithStops
<1>2. /\ s.stops[i].enter \in Nat /\ s.stops[i].exit \in Nat
      /\ r.stops[j].enter \in Nat /\ r.stops[j].exit \in Nat
  BY <1>1 DEF Forward
<1>3. /\ _snap_window(s).enter \in Nat /\ _snap_window(s).exit \in Nat
      /\ _snap_window(r).enter \in Nat /\ _snap_window(r).exit \in Nat
  BY <1>1, WindowHolds
<1>4. /\ _snap_window(s).enter <= s.stops[i].enter /\ s.stops[i].exit <= _snap_window(s).exit
      /\ _snap_window(r).enter <= r.stops[j].enter /\ r.stops[j].exit <= _snap_window(r).exit
  BY <1>1, WindowHolds
<1>5. /\ _snap_window(s).enter <= t /\ t < _snap_window(s).exit
      /\ _snap_window(r).enter <= t /\ t < _snap_window(r).exit
  BY <1>2, <1>3, <1>4 DEF Covers
<1> QED BY <1>1, <1>3, <1>5 DEF OneAfterAnother

\* If none is, no two of them were left last: of two that follow one another the later
\* has been left at its first stop, and then it is at its second or has been left later.
LEMMA OneLeftLast ==
  ASSUME NEW snaps, OneAfterAnother(snaps), NEW t \in Nat,
         \A s \in snaps : \A k \in DOMAIN s.stops : ~Covers(s.stops[k], t),
         NEW m \in Nat, m <= t,
         \A s \in snaps : \A k \in DOMAIN s.stops : s.stops[k].exit <= t => s.stops[k].exit <= m,
         NEW s \in snaps, NEW i \in DOMAIN s.stops, s.stops[i].exit = m,
         NEW r \in snaps, NEW j \in DOMAIN r.stops, r.stops[j].exit = m
  PROVE  s = r
<1>1. ASSUME NEW a \in snaps, NEW x \in DOMAIN a.stops, a.stops[x].exit = m,
             NEW b \in snaps, NEW y \in DOMAIN b.stops, b.stops[y].exit = m,
             _snap_window(a).exit <= _snap_window(b).enter
      PROVE  FALSE
  <2>1. Forward(a) /\ Forward(b)
    BY <1>1, ServiceWithStops
  <2>2. 1 \in DOMAIN b.stops /\ 2 \in DOMAIN b.stops
    BY <2>1 DEF Forward
  <2>3. PICK enter1 \in Nat, exit1 \in Nat, enter2 \in Nat, exit2 \in Nat :
          /\ enter1 = b.stops[1].enter /\ exit1 = b.stops[1].exit
          /\ enter2 = b.stops[2].enter /\ exit2 = b.stops[2].exit
          /\ enter1 <= exit1 /\ exit1 = enter2 /\ enter2 < exit2
    BY <2>1, <2>2 DEF Forward
  <2>4. m <= enter1
    <3>1. _snap_window(a).exit \in Nat /\ m <= _snap_window(a).exit
      BY <1>1, <2>1, WindowHolds
    <3>2. _snap_window(b).enter = enter1
      BY <2>3 DEF _snap_window
    <3> QED BY <1>1, <2>3, <3>1, <3>2
  <2>5. exit1 <= m
    <3>1. 1 <= y /\ y \in DOMAIN b.stops
      BY <1>1, <2>1 DEF Forward
    <3>2. b.stops[1].exit <= b.stops[y].exit
      BY <2>1, <2>2, <3>1, RunsForward
    <3> QED BY <1>1, <2>3, <3>2
  <2>6. enter2 = m
    BY <2>3, <2>4, <2>5
  <2>7. CASE t < exit2
    <3>1. Covers(b.stops[2], t)
      BY <2>3, <2>6, <2>7 DEF Covers
    <3> QED BY <1>1, <2>2, <3>1
  <2>8. CASE exit2 <= t
    <3>1. exit2 <= m
      BY <1>1, <2>2, <2>3, <2>8
    <3> QED BY <2>3, <2>6, <3>1
  <2> QED BY <2>3, <2>7, <2>8
<1>2. s.stops # << >> /\ r.stops # << >>
  BY ServiceWithStops
<1> QED BY <1>1, <1>2 DEF OneAfterAnother

\* Then there is one node that was left last.
LEMMA OneLastKnown ==
  ASSUME NEW snaps, OneAfterAnother(snaps), NEW t \in Nat,
         \A s \in snaps : \A k \in DOMAIN s.stops : ~Covers(s.stops[k], t)
  PROVE  \E node : _last_known_node(snaps, t) = {node}
<1> DEFINE Left(s) == {i \in DOMAIN s.stops : s.stops[i].exit <= t}
           exits   == UNION {{s.stops[i].exit : i \in Left(s)} : s \in snaps}
           LastOf(s) == {i \in Left(s) : s.stops[i].exit = Max(exits)}
           NodeOf(s) == s.stops[Min(LastOf(s))].node_id
<1>1. _last_known_node(snaps, t) =
        IF exits = {} THEN {YARD} ELSE {NodeOf(s) : s \in {r \in snaps : LastOf(r) # {}}}
  BY Zenon DEF _last_known_node
<1>2. ASSUME NEW s \in snaps, NEW k \in DOMAIN s.stops PROVE s.stops[k].exit \in Nat
  BY ServiceWithStops DEF Forward
<1>3. CASE exits = {}
  <2> HIDE DEF exits, NodeOf, LastOf
  <2> QED BY <1>1, <1>3
<1>4. CASE exits # {}
  <2>1. \A e : e \in exits <=> \E s \in snaps : \E k \in DOMAIN s.stops :
                                 s.stops[k].exit <= t /\ e = s.stops[k].exit
    OBVIOUS
  <2>2. exits \subseteq 0 .. t
    <3> HIDE DEF exits
    <3> QED BY <1>2, <2>1
  <2>3. Max(exits) \in exits /\ \A e \in exits : Max(exits) >= e
    <3>1. \E m \in exits : \A e \in exits : m >= e
      <4> HIDE DEF exits
      <4> QED BY <1>4, <2>2, GreatestElement
    <3> HIDE DEF exits
    <3> QED BY <3>1 DEF Max
  <2>4. PICK m \in Nat : m = Max(exits) /\ m <= t
    <3>1. PICK m : m = Max(exits)
      OBVIOUS
    <3> HIDE DEF exits
    <3>2. m \in 0 .. t
      BY <2>2, <2>3, <3>1
    <3> QED BY <3>1, <3>2
  <2>5. \A s \in snaps : \A k \in DOMAIN s.stops : s.stops[k].exit <= t => s.stops[k].exit <= m
    <3> HIDE DEF exits
    <3> QED BY <2>1, <2>2, <2>3, <2>4
  <2>6. \A s \in snaps : LastOf(s) # {} <=> \E k \in DOMAIN s.stops : s.stops[k].exit = m
    <3>1. \A s : LastOf(s) = {i \in DOMAIN s.stops : s.stops[i].exit <= t /\ s.stops[i].exit = m}
      <4> HIDE DEF exits
      <4> QED BY <2>4
    <3> HIDE DEF exits, LastOf
    <3> QED BY <2>4, <3>1
  <2>7. PICK s \in snaps : LastOf(s) # {}
    <3> HIDE DEF exits, LastOf
    <3> QED BY <2>1, <2>3, <2>4, <2>6
  <2>8. ASSUME NEW r \in snaps, LastOf(r) # {} PROVE r = s
    <3>1. /\ \E k \in DOMAIN r.stops : r.stops[k].exit = m
          /\ \E k \in DOMAIN s.stops : s.stops[k].exit = m
      <4> HIDE DEF exits, LastOf
      <4> QED BY <2>6, <2>7, <2>8
    <3> QED BY <2>4, <2>5, <3>1, OneLeftLast
  <2> HIDE DEF exits, NodeOf, LastOf
  <2>9. {r \in snaps : LastOf(r) # {}} = {s}
    BY <2>7, <2>8
  <2>10. _last_known_node(snaps, t) = {NodeOf(s)}
    BY <1>1, <1>4, <2>9
  <2> QED BY <2>10
<1> QED BY <1>3, <1>4

\* A vehicle is shown as one thing: at the stop it is at, or idle.
ShownAsOne(v, t, base, all, mode) ==
  \E x : /\ compute_positions_at(t, base, all, mode)[v] = {x}
         /\ \/ x.status = "idle"
            \/ \E s \in all : \E k \in DOMAIN s.stops :
                 /\ s.vehicle_id = v /\ Covers(s.stops[k], t)
                 /\ x.current_node = s.stops[k].node_id
                 /\ x.status = _node_status(s.stops[k].node_id)

\* So is a vehicle whose services run one after another.
LEMMA ShownInOnePlace ==
  ASSUME NEW all, NEW base, NEW v \in DOMAIN base, NEW t \in Nat, NEW mode,
         NEW snaps, snaps = {s \in all : s.vehicle_id = v}, OneAfterAnother(snaps)
  PROVE  ShownAsOne(v, t, base, all, mode)
<1> DEFINE active  == UNION {_find_active(s, t) : s \in snaps}
           battery == Max({0, base[v] - _battery_cost_at(snaps, t, mode)})
           As(status, node, next_node, service_id) ==
             [status |-> status, current_node |-> node, next_node |-> next_node,
              service_id |-> service_id, battery_level |-> battery]
<1>1. compute_positions_at(t, base, all, mode)[v] =
        IF active # {}
          THEN {As(_node_status(a.node_id), a.node_id, a.next_node, a.service_id) : a \in active}
          ELSE {As("idle", node, None, None) : node \in _last_known_node(snaps, t)}
  BY Zenon DEF compute_positions_at
<1>2. OneAfterAnother(snaps) /\ \A s \in snaps : s \in all /\ s.vehicle_id = v
  OBVIOUS
<1> HIDE DEF battery
<1>3. CASE \E s \in snaps : \E k \in DOMAIN s.stops : Covers(s.stops[k], t)
  <2>1. PICK s \in snaps : \E k \in DOMAIN s.stops : Covers(s.stops[k], t)
    BY <1>3
  <2>2. DOMAIN s.stops \subseteq Nat
    BY <1>2, <2>1, ServiceWithStops
  <2>3. PICK k \in DOMAIN s.stops : \E hit :
          Covers(s.stops[k], t) /\ _find_active(s, t) = {hit} /\ hit.node_id = s.stops[k].node_id
    BY <2>1, <2>2, ActiveStop
  <2>4. PICK hit : Covers(s.stops[k], t) /\ _find_active(s, t) = {hit} /\ hit.node_id = s.stops[k].node_id
    BY <2>3
  <2>5. ASSUME NEW r \in snaps, r # s PROVE _find_active(r, t) = {}
    <3>1. DOMAIN r.stops \subseteq Nat
      BY <1>2, ServiceWithStops
    <3> QED BY <1>2, <2>4, <2>5, <3>1, ActiveStop, OneUnderWay
  <2>6. active = {hit}
    BY <2>4, <2>5
  <2>7. PICK x : x = As(_node_status(hit.node_id), hit.node_id, hit.next_node, hit.service_id)
    OBVIOUS
  <2>8. compute_positions_at(t, base, all, mode)[v] = {x}
    <3> HIDE DEF active, As
    <3> QED BY <1>1, <2>6, <2>7
  <2>9. x.current_node = s.stops[k].node_id /\ x.status = _node_status(s.stops[k].node_id)
    BY <2>4, <2>7
  <2> QED BY <1>2, <2>4, <2>8, <2>9 DEF ShownAsOne
<1>4. CASE \A s \in snaps : \A k \in DOMAIN s.stops : ~Covers(s.stops[k], t)
  <2>1. active = {}
    <3>1. ASSUME NEW s \in snaps PROVE _find_active(s, t) = {}
      <4>1. DOMAIN s.stops \subseteq Nat
        BY <1>2, ServiceWithStops
      <4> QED BY <1>4, <4>1, ActiveStop
    <3> QED BY <3>1
  <2>2. PICK node : _last_known_node(snaps, t) = {node}
    BY <1>2, <1>4, OneLastKnown
  <2>3. PICK x : x = As("idle", node, None, None)
    OBVIOUS
  <2>4. compute_positions_at(t, base, all, mode)[v] = {x}
    <3> HIDE DEF active, As
    <3> QED BY <1>1, <2>1, <2>2, <2>3
  <2>5. x.status = "idle"
    BY <2>3
  <2> QED BY <2>4, <2>5 DEF ShownAsOne
<1> QED BY <1>3, <1>4
-----------------------------------------------------------------------------
(* What a vehicle's services have cost by an instant *)

\* The part of a block's cost for the part of its time that is over.
LEMMA Fraction ==
  ASSUME NEW n \in Nat, NEW d \in Nat, n < d
  PROVE  (BATTERY_COST_PER_BLOCK * n) \div d \in 0 .. BATTERY_COST_PER_BLOCK - 1
<1>1. BATTERY_COST_PER_BLOCK = 1200
  BY DEF BATTERY_COST_PER_BLOCK, PERCENT
<1>2. PICK a \in Nat : a = 1200 * n
  OBVIOUS
<1>3. PICK q \in Int : q = a \div d
  BY <1>2
<1>4. d * q <= a /\ a < d * q + d
  BY <1>3
<1>5. q >= 0
  <2> SUFFICES ASSUME q <= -1 PROVE FALSE
    OBVIOUS
  <2>1. d * q <= -d
    OBVIOUS
  <2> QED BY <1>4, <2>1
<1>6. q < 1200
  <2> SUFFICES ASSUME q >= 1200 PROVE FALSE
    OBVIOUS
  <2>1. d * q >= d * 1200
    OBVIOUS
  <2> QED BY <1>2, <1>4, <2>1
<1> QED BY <1>1, <1>2, <1>3, <1>5, <1>6

\* What one service has cost by an instant.
TripCost(s, at, mode) == MapThenSumSet(LAMBDA i : CostAt(s.stops[i], at, mode), DOMAIN s.stops)

\* The cost of a service, and of several, is such a sum.
LEMMA TripCostIsTotal ==
  ASSUME NEW s, IsFiniteSet(DOMAIN s.stops), NEW at, NEW mode,
         NEW weight, weight = [i \in DOMAIN s.stops |-> CostAt(s.stops[i], at, mode)]
  PROVE  TripCost(s, at, mode) = Total(weight, DOMAIN s.stops)
<1> DEFINE Cost(i) == CostAt(s.stops[i], at, mode)
<1>1. \A T \in SUBSET DOMAIN s.stops : T # {} => weight[CHOOSE x \in T : TRUE] = Cost(CHOOSE x \in T : TRUE)
  OBVIOUS
<1>2. \A f : SubsetSums(f, weight, DOMAIN s.stops) <=>
               f = [T \in SUBSET DOMAIN s.stops |->
                      IF T = {} THEN 0
                      ELSE Cost(CHOOSE x \in T : TRUE) + f[T \ {CHOOSE x \in T : TRUE}]]
  <2> HIDE DEF Cost
  <2> QED BY <1>1 DEF SubsetSums
<1>3. PICK g : SubsetSums(g, weight, DOMAIN s.stops) /\ \A f : SubsetSums(f, weight, DOMAIN s.stops) => f = g
  BY SumsOfSubsetsExist, SumsOfSubsetsUnique
<1>4. (CHOOSE f : SubsetSums(f, weight, DOMAIN s.stops)) = g
  BY <1>3
<1>5. (CHOOSE f : f = [T \in SUBSET DOMAIN s.stops |->
                      IF T = {} THEN 0
                      ELSE Cost(CHOOSE x \in T : TRUE) + f[T \ {CHOOSE x \in T : TRUE}]]) = g
  <2> HIDE DEF Cost
  <2> QED BY <1>2, <1>3
<1>6. TripCost(s, at, mode) =
        (CHOOSE f : f = [T \in SUBSET DOMAIN s.stops |->
                      IF T = {} THEN 0
                      ELSE Cost(CHOOSE x \in T : TRUE) + f[T \ {CHOOSE x \in T : TRUE}]])[DOMAIN s.stops]
  BY DEF TripCost, MapThenSumSet, MapThenFoldSet
<1> HIDE DEF Cost
<1> QED BY <1>4, <1>5, <1>6 DEF Total

LEMMA CostIsTotal ==
  ASSUME NEW snaps, IsFiniteSet(snaps), NEW at, NEW mode,
         NEW weight, weight = [s \in snaps |-> TripCost(s, at, mode)]
  PROVE  _battery_cost_at(snaps, at, mode) = Total(weight, snaps)
<1>1. \A T \in SUBSET snaps : T # {} =>
        weight[CHOOSE x \in T : TRUE] = TripCost((CHOOSE x \in T : TRUE), at, mode)
  OBVIOUS
<1>2. \A f : SubsetSums(f, weight, snaps) <=>
               f = [T \in SUBSET snaps |->
                      IF T = {} THEN 0
                      ELSE TripCost((CHOOSE x \in T : TRUE), at, mode)
                             + f[T \ {CHOOSE x \in T : TRUE}]]
  BY <1>1 DEF SubsetSums
<1>3. PICK g : SubsetSums(g, weight, snaps) /\ \A f : SubsetSums(f, weight, snaps) => f = g
  BY SumsOfSubsetsExist, SumsOfSubsetsUnique
<1>4. (CHOOSE f : SubsetSums(f, weight, snaps)) = g
  BY <1>3
<1>5. (CHOOSE f : f = [T \in SUBSET snaps |->
                      IF T = {} THEN 0
                      ELSE TripCost((CHOOSE x \in T : TRUE), at, mode)
                             + f[T \ {CHOOSE x \in T : TRUE}]]) = g
  BY <1>2, <1>3
<1>6. _battery_cost_at(snaps, at, mode) = MapThenSumSet(LAMBDA s : TripCost(s, at, mode), snaps)
  BY DEF _battery_cost_at, TripCost
<1> QED BY <1>4, <1>5, <1>6 DEF Total, MapThenSumSet, MapThenFoldSet

\* What a service has cost in the two modes differs by less than a block, and not at
\* all unless it is under way.
LEMMA ModesOfTrip ==
  ASSUME NEW s, Forward(s), NEW t \in Nat
  PROVE  /\ TripCost(s, t, "strict") \in Int /\ TripCost(s, t, "simulation") \in Int
         /\ TripCost(s, t, "simulation") - TripCost(s, t, "strict") \in 0 .. BATTERY_COST_PER_BLOCK - 1
         /\ (\A i \in DOMAIN s.stops : ~Covers(s.stops[i], t)) =>
              TripCost(s, t, "simulation") = TripCost(s, t, "strict")
<1> PICK S : S = DOMAIN s.stops
  OBVIOUS
<1>w. PICK w : w = [i \in S |-> CostAt(s.stops[i], t, "simulation")]
  OBVIOUS
<1>u. PICK u : u = [i \in S |-> CostAt(s.stops[i], t, "strict")]
  OBVIOUS
<1>1. IsFiniteSet(S) /\ 1 \in S /\ BATTERY_COST_PER_BLOCK \in Nat \ {0}
  BY FS_Interval DEF Forward, BATTERY_COST_PER_BLOCK, PERCENT
<1>2. ASSUME NEW i \in S
      PROVE  /\ w[i] \in Int /\ u[i] \in Int
             /\ w[i] - u[i] \in 0 .. BATTERY_COST_PER_BLOCK - 1
             /\ ~Covers(s.stops[i], t) => w[i] = u[i]
  <2>1. PICK enter \in Nat, exit \in Nat : enter = s.stops[i].enter /\ exit = s.stops[i].exit
    BY DEF Forward
  <2>2. CASE ~is_block(s.stops[i].node_id) \/ t >= exit \/ t < enter
    BY <1>1, <1>w, <1>u, <2>1, <2>2 DEF CostAt
  <2>3. CASE is_block(s.stops[i].node_id) /\ t < exit /\ enter <= t
    <3>1. (BATTERY_COST_PER_BLOCK * (t - enter)) \div (exit - enter) \in 0 .. BATTERY_COST_PER_BLOCK - 1
      <4>1. t - enter \in Nat /\ exit - enter \in Nat /\ t - enter < exit - enter
        BY <2>3
      <4> QED BY <4>1, Fraction
    <3>2. w[i] = (BATTERY_COST_PER_BLOCK * (t - enter)) \div (exit - enter) /\ u[i] = 0
      BY <1>w, <1>u, <2>1, <2>3 DEF CostAt
    <3>3. Covers(s.stops[i], t)
      BY <2>1, <2>3 DEF Covers
    <3> QED BY <1>1, <3>1, <3>2, <3>3
  <2> QED BY <2>1, <2>2, <2>3
<1>7. \A i \in S : w[i] \in Int
  BY <1>2
<1>8. \A i \in S : u[i] \in Int
  BY <1>2
<1>a. PICK f : AddsUp(f, w, S) /\ \A R \in SUBSET S : Total(w, R) = f[R]
  BY <1>1, <1>7, TotalOfParts
<1>b. PICK g : AddsUp(g, u, S) /\ \A R \in SUBSET S : Total(u, R) = g[R]
  BY <1>1, <1>8, TotalOfParts
<1>3. Total(w, S) = f[S] /\ Total(u, S) = g[S]
  BY <1>a, <1>b
<1>4. TripCost(s, t, "simulation") = f[S] /\ TripCost(s, t, "strict") = g[S]
  BY <1>1, <1>w, <1>u, <1>3, TripCostIsTotal
<1>5. PICK c \in S : \A i \in S \ {c} : ~Covers(s.stops[i], t)
  <2>1. ASSUME NEW i \in S, NEW j \in S, i # j, Covers(s.stops[i], t), Covers(s.stops[j], t)
        PROVE  i < j => FALSE
    <3> SUFFICES ASSUME i < j PROVE FALSE
      OBVIOUS
    <3>1. /\ s.stops[i].exit <= s.stops[j].enter
          /\ s.stops[i].exit \in Nat /\ s.stops[j].enter \in Nat
      <4>1. i \in DOMAIN s.stops /\ j \in DOMAIN s.stops
        OBVIOUS
      <4>2. /\ i \in Nat /\ j \in Nat
            /\ s.stops[i].exit \in Nat /\ s.stops[j].enter \in Nat
        BY <4>1 DEF Forward
      <4> QED BY <4>1, <4>2, RunsForward
    <3> QED BY <2>1, <3>1 DEF Covers
  <2>2. S \subseteq Nat
    BY DEF Forward
  <2> QED BY <1>1, <2>1, <2>2
<1>6. f[S] - g[S] = w[c] - u[c] /\ f[S] \in Int /\ g[S] \in Int
  <2>1. \A i \in S \ {c} : w[i] = u[i]
    BY <1>2, <1>5
  <2>2. AddsUp(f, w, S) /\ AddsUp(g, u, S)
    BY <1>a, <1>b
  <2>3. IsFiniteSet(S) /\ \A i \in S : w[i] \in Int /\ u[i] \in Int
    BY <1>1, <1>7, <1>8
  <2>4. c \in S
    BY <1>5
  <2> QED BY <2>1, <2>2, <2>3, <2>4, SumsApart
<1>9. /\ f[S] - g[S] \in 0 .. BATTERY_COST_PER_BLOCK - 1
      /\ ~Covers(s.stops[c], t) => f[S] = g[S]
  <2>1. c \in S
    BY <1>5
  <2>2. /\ w[c] - u[c] \in 0 .. BATTERY_COST_PER_BLOCK - 1
        /\ w[c] \in Int /\ u[c] \in Int
        /\ ~Covers(s.stops[c], t) => w[c] = u[c]
    BY <1>2, <2>1
  <2> QED BY <1>6, <2>2
<1>10. c \in DOMAIN s.stops
  BY <1>5
<1> QED BY <1>4, <1>6, <1>9, <1>10

\* The level shown is never below zero.
LEMMA PositiveMax ==
  ASSUME NEW a \in Int
  PROVE  Max({0, a}) = IF a > 0 THEN a ELSE 0
<1>1. PICK m \in {0, a} : m = IF a > 0 THEN a ELSE 0
  OBVIOUS
<1>2. \A y \in {0, a} : m >= y
  BY <1>1
<1>3. \A x \in {0, a} : (\A y \in {0, a} : x >= y) => x = m
  BY <1>2
<1>4. Max({0, a}) = m
  BY <1>1, <1>2, <1>3 DEF Max
<1> QED BY <1>1, <1>4

\* For services one after another the modes are apart by what the one under way costs
\* in them.
LEMMA ModesOfDay ==
  ASSUME NEW snaps, IsFiniteSet(snaps), OneAfterAnother(snaps), \A s \in snaps : Forward(s),
         NEW t \in Nat
  PROVE  /\ _battery_cost_at(snaps, t, "simulation") \in Int
         /\ _battery_cost_at(snaps, t, "strict") \in Int
         /\ _battery_cost_at(snaps, t, "simulation") - _battery_cost_at(snaps, t, "strict")
              \in 0 .. BATTERY_COST_PER_BLOCK - 1
<1>w. PICK w : w = [s \in snaps |-> TripCost(s, t, "simulation")]
  OBVIOUS
<1>u. PICK u : u = [s \in snaps |-> TripCost(s, t, "strict")]
  OBVIOUS
<1>1. ASSUME NEW s \in snaps
      PROVE  /\ w[s] \in Int /\ u[s] \in Int
             /\ w[s] - u[s] \in 0 .. BATTERY_COST_PER_BLOCK - 1
             /\ (\A i \in DOMAIN s.stops : ~Covers(s.stops[i], t)) => w[s] = u[s]
  <2>1. w[s] = TripCost(s, t, "simulation") /\ u[s] = TripCost(s, t, "strict")
    BY <1>w, <1>u
  <2> QED BY <2>1, ModesOfTrip
<1>2. \A s \in snaps : w[s] \in Int
  BY <1>1
<1>3. \A s \in snaps : u[s] \in Int
  BY <1>1
<1>4. PICK f : AddsUp(f, w, snaps) /\ \A R \in SUBSET snaps : Total(w, R) = f[R]
  BY <1>2, TotalOfParts
<1>5. PICK g : AddsUp(g, u, snaps) /\ \A R \in SUBSET snaps : Total(u, R) = g[R]
  BY <1>3, TotalOfParts
<1>6. /\ _battery_cost_at(snaps, t, "simulation") = f[snaps]
      /\ _battery_cost_at(snaps, t, "strict") = g[snaps]
  <2>1. _battery_cost_at(snaps, t, "simulation") = Total(w, snaps)
    BY <1>w, CostIsTotal
  <2>2. _battery_cost_at(snaps, t, "strict") = Total(u, snaps)
    BY <1>u, CostIsTotal
  <2> QED BY <1>4, <1>5, <2>1, <2>2
<1>7. f[snaps] \in Int /\ g[snaps] \in Int
  BY <1>4, <1>5 DEF AddsUp
<1>8. BATTERY_COST_PER_BLOCK = 1200
  BY DEF BATTERY_COST_PER_BLOCK, PERCENT
<1>9. CASE \E c \in snaps : \E i \in DOMAIN c.stops : Covers(c.stops[i], t)
  <2>1. PICK c \in snaps : \E i \in DOMAIN c.stops : Covers(c.stops[i], t)
    BY <1>9
  <2>2. \A s \in snaps \ {c} : \A i \in DOMAIN s.stops : ~Covers(s.stops[i], t)
    BY <2>1, OneUnderWay
  <2>3. \A s \in snaps \ {c} : w[s] = u[s]
    BY <1>1, <2>2
  <2>4. \A s \in snaps : w[s] \in Int /\ u[s] \in Int
    BY <1>2, <1>3
  <2>5. AddsUp(f, w, snaps) /\ AddsUp(g, u, snaps) /\ IsFiniteSet(snaps) /\ c \in snaps
    BY <1>4, <1>5, <2>1
  <2>6. f[snaps] - g[snaps] = w[c] - u[c]
    BY <2>3, <2>4, <2>5, SumsApart
  <2>7. w[c] - u[c] \in 0 .. BATTERY_COST_PER_BLOCK - 1
    BY <1>1, <2>1
  <2> QED BY <1>6, <1>7, <2>6, <2>7
<1>10. CASE \A c \in snaps : \A i \in DOMAIN c.stops : ~Covers(c.stops[i], t)
  <2>1. \A s \in snaps : w[s] = u[s]
    BY <1>1, <1>10
  <2>2. AddsUp(f, w, snaps) /\ AddsUp(g, u, snaps) /\ IsFiniteSet(snaps)
    BY <1>4, <1>5
  <2>3. f[snaps] = g[snaps]
    BY <2>1, <2>2, SameWeights
  <2> QED BY <1>6, <1>7, <1>8, <2>3
<1> QED BY <1>9, <1>10
=============================================================================
