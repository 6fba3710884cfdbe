-------------------------- MODULE MCPathValidator --------------------------
(***************************************************************************)
(* Grows a path node by node, any node next (known or not), as long as the *)
(* path so far is accepted, and compares validate_path and reachable_from  *)
(* with the track as DESIGN.md section 4.1 lists it, segment by segment.   *)
(***************************************************************************)
EXTENDS PathValidator, SequencesExt

CONSTANTS MaxLen,  \* longest path built
          Unknown  \* a node id outside the topology

ASSUME MaxLenAssumption == MaxLen \in Nat \ {0, 1}

VARIABLE path

Accepted == Len(path) >= 2 /\ validate_path(path) = {}

PathInit == path = << >>

Extend(node) ==
  /\ Len(path) < MaxLen
  /\ Len(path) < 2 \/ Accepted
  /\ path' = Append(path, node)

PathNext == \E node \in ALL_NODES \cup {Unknown} : Extend(node)
-----------------------------------------------------------------------------
\* The segments of DESIGN.md section 4.1, the two-way ones in both directions.
Segments ==
  { <<"Y", "B1", "P1A">>, <<"P1A", "B1", "Y">>,
    <<"Y", "B2", "P1B">>, <<"P1B", "B2", "Y">>,
    <<"P1A", "B3", "B5", "P2A">>,   <<"P1B", "B4", "B5", "P2A">>,
    <<"P2A", "B6", "B7", "P3A">>,   <<"P2A", "B6", "B8", "P3B">>,
    <<"P3A", "B10", "B11", "P2B">>, <<"P3B", "B9", "B11", "P2B">>,
    <<"P2B", "B12", "B14", "P1B">>, <<"P2B", "B12", "B13", "P1A">> }

Stops == PLATFORMS \cup {YARD}

\* From one stop to the next the path runs along a segment; after its last stop
\* it is the beginning of one.  A vehicle that enters a two-way block from the yard
\* or a platform may turn back on it: Y B1 Y is a path of the graph.
RunsAlongSegments(p) ==
  /\ p[1] \in Stops
  /\ \A i \in DOMAIN p : p[i] \in Stops =>
       LET later == {j \in i + 1 .. Len(p) : p[j] \in Stops}
           end   == IF later = {} THEN Len(p) ELSE CHOOSE j \in later : \A k \in later : j <= k
           piece == SubSeq(p, i, end)
       IN  \E s \in Segments :
             \/ IsPrefix(piece, s) /\ (later # {} => piece = s)
             \/ piece = <<s[1], s[2], s[1]>> /\ s[2] \in BIDIRECTIONAL_BLOCKS

\* validate_path accepts exactly the paths of at least two nodes that follow the
\* segments of DESIGN.md section 4.1 from a stop on.
AcceptsExactlyTheTrack ==
  Len(path) >= 2 => (Accepted <=> RunsAlongSegments(path))

\* From wherever an accepted path ends, also in the middle of a block, the vehicle
\* can still get to every platform and to the yard: no accepted service strands it.
NoDeadEnd == Accepted => reachable_from(path[Len(path)], Stops)

\* What an accepted path has visited is reachable from its first node, as
\* reachable_from (the breadth-first search) must find too.
WalkedIsReachable == Accepted => reachable_from(path[1], Range(path))
=============================================================================
