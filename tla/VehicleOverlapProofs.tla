------------------------ MODULE VehicleOverlapProofs ------------------------
(***************************************************************************)
(* The row lock of services.py keeps its promise, for any number of        *)
(* handlers, vehicles and services: no vehicle gets two services at the    *)
(* same time, nothing changes in the services of a vehicle while its row   *)
(* is held, and the handlers implement the book of trips of                *)
(* VehicleTimeline.                                                        *)
(***************************************************************************)
EXTENDS ServiceWritesProofs

\* What the promise needs of the requests: no service changes its vehicle, no block
\* its traversal time, and every payload numbers its stops from 0.
OrdinaryRequests ==
  /\ NumberedFromZero
  /\ \A r \in Requests : r.op # "block" /\ (r.op = "update" => r.vehicle_id = None)

\* When the vehicle is out on a payload.
Span(stops) ==
  LET tuples == SnapshotStops(stops, InitialTraversal)
  IN  [enter |-> tuples[1].enter, exit |-> tuples[Len(tuples)].exit]

\* Nobody has changed a block.
TraversalFixed ==
  /\ block_configs = InitialTraversal
  /\ \A p \in Proc : HoldsRow(p) /\ pc[p] # "traversal" => block_traversal[p] = InitialTraversal

\* From its lock to its commit a handler holds the row of the vehicle it writes for.
RowHeld == \A p \in Proc : HoldsRow(p) => lock[TargetVehicle(p)] = p

\* A row does not change its vehicle under a handler that has loaded it.
LoadedVehicleKept ==
  \A p \in Proc : RowLoaded(p) /\ req[p].service_id \in Live =>
    services[req[p].service_id].vehicle_id = loaded[p].vehicle_id

\* What a handler has checked is still true when it commits.
CheckStillTrue ==
  \A p \in Proc : pc[p] = "commit" /\ req[p].stops # None =>
    \A t \in Timed :
      /\ t # Written(p)
      /\ services[t].vehicle_id = TargetVehicle(p)
      /\ SnapshotStops(req[p].stops, InitialTraversal) # << >>
      => ~_intervals_overlap(Span(req[p].stops), Window(t))

OverlapInv ==
  /\ RowsInv /\ TraversalFixed /\ RowHeld /\ LoadedVehicleKept
  /\ CheckStillTrue /\ NoVehicleOverlap
-----------------------------------------------------------------------------
(* Payloads, rows and windows *)

\* A payload that is not answered with 422 names known nodes only.
LEMMA PayloadNodes ==
  ASSUME NEW stops, SchemaAccepts(stops), ~PayloadErrors(stops)
  PROVE  \A i \in DOMAIN stops : stops[i].node_id \in ALL_NODES
<1>1. validate_path(NodesOf(stops)) = {}
  BY DEF SchemaAccepts, PayloadErrors
<1>2. UnknownNodes(NodesOf(stops)) = {}
  BY <1>1 DEF validate_path
<1> QED BY <1>2 DEF UnknownNodes, NodesOf

\* The window of what a handler checks is the span of its payload.
LEMMA CandidateWindow ==
  ASSUME NEW p, block_traversal[p] = InitialTraversal, SchemaAccepts(req[p].stops),
         ~PayloadErrors(req[p].stops)
  PROVE  /\ Candidate(p).stops = SnapshotStops(req[p].stops, InitialTraversal)
         /\ _snap_window(Candidate(p)) = Span(req[p].stops)
<1>1. PICK stops : stops = req[p].stops
  OBVIOUS
<1>2. SchemaAccepts(stops) /\ ~PayloadErrors(stops)
  BY <1>1
<1>3. /\ Len(stops) \in Nat /\ DOMAIN stops = 1 .. Len(stops) /\ stops # None
      /\ \A i \in DOMAIN stops : stops[i].node_id \in ALL_NODES
  <2>1. Len(stops) \in Nat /\ DOMAIN stops = 1 .. Len(stops) /\ stops # None
    BY <1>2 DEF SchemaAccepts
  <2> QED BY <1>2, <2>1, PayloadNodes
<1>4. _compute_stop_tuples(stops, InitialTraversal) = SnapshotStops(stops, InitialTraversal)
  BY <1>3, SameExpansion
<1>5. StopTuples(p) = SnapshotStops(req[p].stops, InitialTraversal)
  BY <1>1, <1>3, <1>4 DEF StopTuples, StopsForCheck
<1> QED BY <1>5 DEF Candidate, _snap_window, Span

\* No conflict found: the candidate overlaps none of its siblings.
LEMMA CheckFindsOverlaps ==
  ASSUME NEW p, WriteConflicts(p) = {}, NEW t \in Siblings(p),
         Candidate(p).stops # << >>,
         SnapshotStops(StopsIn(services[t]), block_configs) # << >>
  PROVE  ~_intervals_overlap(_snap_window(Candidate(p)), Window(t))
<1> DEFINE sibling == SnapshotOf(t, services[t], block_configs)
           snapshots == {SnapshotOf(s, services[s], block_configs) : s \in Siblings(p)}
                          \cup {Candidate(p)}
           timed == {s \in snapshots : s.stops # << >>}
           clash == Conflict("vehicle_overlap", {Written(p), t}, {})
<1> SUFFICES ASSUME _intervals_overlap(_snap_window(Candidate(p)), Window(t)) PROVE FALSE
  OBVIOUS
<1>1. sibling \in timed /\ Candidate(p) \in timed
  BY DEF SnapshotOf
<1>2. /\ Candidate(p).service_id = Written(p) /\ sibling.service_id = t
      /\ Candidate(p).service_id # sibling.service_id
      /\ Candidate(p).vehicle_id = sibling.vehicle_id
  BY DEF Candidate, SnapshotOf, Siblings
<1>3. <<Candidate(p), sibling>> \in OverlapPairs(timed)
  BY <1>1, <1>2 DEF OverlapPairs, Window
<1>4. clash \in detect_vehicle_conflicts(snapshots)
  <2>1. clash \in {Conflict("vehicle_overlap", {pair[1].service_id, pair[2].service_id}, {}) :
                      pair \in OverlapPairs(timed)}
    <3> DEFINE both == <<Candidate(p), sibling>>
    <3>1. clash = Conflict("vehicle_overlap", {both[1].service_id, both[2].service_id}, {})
      BY <1>2
    <3> HIDE DEF both, timed, clash
    <3> QED BY <1>3, <3>1 DEF both
  <2>2. {Conflict("vehicle_overlap", {pair[1].service_id, pair[2].service_id}, {}) :
           pair \in OverlapPairs(timed)} \subseteq detect_vehicle_conflicts(snapshots)
    BY Zenon DEF detect_vehicle_conflicts
  <2> QED BY <2>1, <2>2
<1>5. clash \in detect_all_conflicts(snapshots)
  BY <1>4 DEF detect_all_conflicts
<1>6. clash.conflict_type \in WRITE_TIME_CONFLICTS
  BY DEF Conflict, WRITE_TIME_CONFLICTS
<1> QED BY <1>5, <1>6 DEF WriteConflicts
-----------------------------------------------------------------------------
(* The invariant *)

\* With no service stored and nobody at work there is nothing to keep.
LEMMA OverlapInit == Init => OverlapInv
<1> SUFFICES ASSUME Init PROVE OverlapInv
  OBVIOUS
<1>1. Live = {}
  BY DEF Init, Live
<1>2. \A p \in Proc : pc[p] = "idle" /\ loaded[p] = None
  BY DEF Init
<1>3. TraversalFixed
  BY <1>2 DEF Init, TraversalFixed, HoldsRow
<1> QED
  BY <1>1, <1>2, <1>3, RowsInit
     DEF OverlapInv, RowHeld, LoadedVehicleKept, CheckStillTrue, NoVehicleOverlap, HoldsRow,
         RowLoaded, Timed

\* Services stay as they are, but for their battery level, or go: what the invariant
\* says of the timetable still holds.
LEMMA TimetableKept ==
  ASSUME TypeInv, TypeInv', UNCHANGED block_configs,
         \A s \in ServiceId : services'[s] # None =>
           /\ services[s] # None
           /\ services'[s].vehicle_id = services[s].vehicle_id
           /\ services'[s].stops = services[s].stops
  PROVE  /\ Live' \subseteq Live /\ Timed' \subseteq Timed
         /\ \A s \in Live' : Window(s)' = Window(s)
         /\ NoVehicleOverlap => NoVehicleOverlap'
<1>1. Live' \subseteq Live
  BY DEF Live
<1>2. \A s \in Live' : StopsIn(services'[s]) = StopsIn(services[s])
  BY DEF Live, StopsIn
<1>3. Timed' \subseteq Timed
  BY <1>1, <1>2 DEF Timed
<1>4. \A s \in Live' : Window(s)' = Window(s)
  BY <1>2 DEF Window, SnapshotOf, _snap_window
<1>5. NoVehicleOverlap => NoVehicleOverlap'
  BY <1>3, <1>4 DEF NoVehicleOverlap, Timed, Live
<1> QED BY <1>1, <1>3, <1>4, <1>5

\* A transaction that ends lets go of its own rows only.
LEMMA RowsReleased ==
  ASSUME OverlapInv, NEW p \in Proc, EndTransaction(p), OthersWait(p),
         pc'[p] \in {"idle", "reload"}, UNCHANGED block_configs
  PROVE  TraversalFixed' /\ RowHeld'
<1> USE DEF OverlapInv, RowsInv, TypeInv, TypeOK, HoldsRow
<1>1. TraversalFixed'
  BY DEF TraversalFixed, OthersWait
<1>2. RowHeld'
  <2> SUFFICES ASSUME NEW q \in Proc, HoldsRow(q)'
               PROVE  lock'[TargetVehicle(q)'] = q
    BY DEF RowHeld
  <2>1. q # p
    OBVIOUS
  <2>2. lock[TargetVehicle(q)] = q
    BY <2>1 DEF RowHeld, OthersWait
  <2>3. TargetVehicle(q) \in Vehicle
    BY <2>1, WriterTyped DEF Phases, OthersWait
  <2> QED BY <2>1, <2>2, <2>3, OthersTargets DEF EndTransaction, LocksWithout
<1> QED BY <1>1, <1>2

\* A transaction ends without a stop written: a refusal, a deletion, or an update that
\* leaves vehicle and stops alone.
LEMMA EndStep ==
  ASSUME OverlapInv, RowsInv', NEW p \in Proc, EndTransaction(p), OthersWait(p),
         UNCHANGED <<begun, block_configs>>,
         \/ pc'[p] = "idle"
         \/ pc'[p] = "reload" /\ pc[p] = "commit" /\ UNCHANGED <<loaded, req, ticket>>,
         \A s \in ServiceId : services'[s] # None =>
           /\ services[s] # None
           /\ services'[s].vehicle_id = services[s].vehicle_id
           /\ services'[s].stops = services[s].stops
  PROVE  OverlapInv'
<1> USE DEF OverlapInv, RowsInv
<1>1. /\ Live' \subseteq Live
      /\ \A s \in Live' : /\ services'[s].vehicle_id = services[s].vehicle_id
                          /\ services'[s].stops = services[s].stops
  BY DEF Live
<1>2. \A q \in Proc : RowLoaded(q)' =>
        RowLoaded(q) /\ loaded'[q] = loaded[q] /\ req'[q] = req[q]
  BY DEF OthersWait, RowLoaded
<1>3. LoadedVehicleKept'
  BY <1>1, <1>2 DEF LoadedVehicleKept
<1>4. CheckStillTrue'
  BY <1>1, TimetableKept, OthersTargets DEF CheckStillTrue, OthersWait, Timed
<1> QED BY <1>3, <1>4, RowsReleased, TimetableKept

\* The end of a request that changes no service, or takes one away.
LEMMA AnswerStep ==
  ASSUME OverlapInv, RowsInv', NEW p \in Proc, NEW status, Answer(p, status),
         UNCHANGED block_configs,
         \A s \in ServiceId : services'[s] \in {services[s], None}
  PROVE  OverlapInv'
BY AnswerWaits, EndStep DEF OverlapInv, RowsInv

\* The timetable and the blocks stay as they are, and with them windows and overlaps.
LEMMA SameTimetable ==
  ASSUME UNCHANGED <<services, block_configs>>
  PROVE  /\ Live' = Live /\ Timed' = Timed /\ \A s : Window(s)' = Window(s)
         /\ NoVehicleOverlap => NoVehicleOverlap'
<1>1. Live' = Live /\ Timed' = Timed /\ \A s : Window(s)' = Window(s)
  BY DEF Live, Timed, Window
<1> QED BY <1>1 DEF NoVehicleOverlap

\* What CheckSiblings finds for a payload.
PayloadIsFree(p) ==
  \A t \in Timed :
    /\ t # Written(p)
    /\ services[t].vehicle_id = TargetVehicle(p)
    /\ SnapshotStops(req[p].stops, InitialTraversal) # << >>
    => ~_intervals_overlap(Span(req[p].stops), Window(t))

\* A handler goes on to its next statement, having written nothing and taken no row.
LEMMA MoveStep ==
  ASSUME OverlapInv, RowsInv', NEW p \in Proc, NEW label, label \notin {"idle", "load"},
         pc[p] \notin {"load", "load_stops"}, label # "load_stops", Goto(p, label),
         pc[p] # "idle",
         UNCHANGED <<services, block_configs, lock, request, loaded>>,
         \A q \in Proc \ {p} : block_traversal'[q] = block_traversal[q],
         HoldsRow(p)' => HoldsRow(p) /\ block_traversal'[p] = InitialTraversal,
         label = "commit" /\ req[p].stops # None => PayloadIsFree(p)
  PROVE  OverlapInv'
<1> USE DEF OverlapInv, RowsInv, TypeInv, TypeOK, Goto, HoldsRow, request
<1>1. \A q \in Proc :
        TargetVehicle(q)' = TargetVehicle(q) /\ Written(q)' = Written(q)
  BY DEF TargetVehicle, Written, Creating
<1>2. pc'[p] = label /\ \A q \in Proc \ {p} : pc'[q] = pc[q]
  OBVIOUS
<1>3. TraversalFixed'
  BY <1>2 DEF TraversalFixed
<1>4. RowHeld'
  BY <1>1, <1>2 DEF RowHeld
<1>5. LoadedVehicleKept'
  BY <1>2, SameTimetable DEF LoadedVehicleKept, RowLoaded
<1>6. CheckStillTrue'
  <2> SUFFICES ASSUME NEW q \in Proc, (pc[q] = "commit" /\ req[q].stops # None)'
               PROVE  PayloadIsFree(q)'
    BY DEF CheckStillTrue, PayloadIsFree
  <2>1. PayloadIsFree(q)
    BY <1>2 DEF CheckStillTrue, PayloadIsFree
  <2> QED BY <1>1, <2>1, SameTimetable DEF PayloadIsFree
<1> QED BY <1>3, <1>4, <1>5, <1>6, SameTimetable

\* A request arrives.
LEMMA BeginStep ==
  ASSUME OverlapInv, RowsInv', NEW p \in Proc, Begin(p)
  PROVE  OverlapInv'
<1> USE DEF OverlapInv, RowsInv, TypeInv, TypeOK, Begin, Goto, HoldsRow, tables, reads
<1> PICK r \in Requests : req' = [req EXCEPT ![p] = r] /\ Goto(p, FirstStatement(r.op))
  OBVIOUS
<1>1. /\ pc'[p] \notin {"idle", "traversal", "wipe", "wipe_wait", "battery", "siblings", "commit"}
      /\ ~RowLoaded(p)' /\ loaded' = loaded
  BY RequestTyped DEF FirstStatement, RowLoaded
<1>2. \A q \in Proc \ {p} :
        /\ pc'[q] = pc[q] /\ req'[q] = req[q]
        /\ block_traversal'[q] = block_traversal[q]
        /\ TargetVehicle(q)' = TargetVehicle(q) /\ Written(q)' = Written(q)
        /\ RowLoaded(q)' = RowLoaded(q)
  BY DEF TargetVehicle, Written, Creating, RowLoaded
<1>3. TraversalFixed'
  BY <1>1, <1>2 DEF TraversalFixed
<1>4. RowHeld'
  BY <1>1, <1>2 DEF RowHeld
<1>5. LoadedVehicleKept'
  BY <1>1, <1>2, SameTimetable DEF LoadedVehicleKept
<1>6. CheckStillTrue'
  BY <1>1, <1>2, SameTimetable DEF CheckStillTrue
<1> QED BY <1>3, <1>4, <1>5, <1>6, SameTimetable

\* A handler loads the service it is about to change or delete.
LEMMA LoadStep ==
  ASSUME OverlapInv, RowsInv', NEW p \in Proc, LoadService(p),
         services[req[p].service_id] # None
  PROVE  OverlapInv'
<1> USE DEF OverlapInv, RowsInv, HoldsRow
<1>1. /\ pc[p] = "load" /\ pc'[p] \in {"delete", "load_stops"}
      /\ loaded'[p].vehicle_id = services[req[p].service_id].vehicle_id
      /\ OthersWait(p) /\ UNCHANGED <<services, block_configs, lock, request>>
  <2>1. IsRow(services[req[p].service_id])
    BY RequestTyped DEF LoadService, TypeInv, TypeOK, Phases, Live
  <2>2. PICK row : /\ row = [services[req[p].service_id] EXCEPT !.stops = << >>]
                   /\ row.vehicle_id = services[req[p].service_id].vehicle_id
    <3>1. [services[req[p].service_id] EXCEPT !.stops = << >>].vehicle_id
            = services[req[p].service_id].vehicle_id
      BY <2>1 DEF IsRow
    <3> QED BY <3>1
  <2>3. PICK label : label = IF req[p].op = "delete" THEN "delete" ELSE "load_stops"
    OBVIOUS
  <2>4. /\ pc[p] = "load" /\ loaded' = [loaded EXCEPT ![p] = row] /\ Goto(p, label)
        /\ UNCHANGED <<services, block_configs, lock, request, block_traversal>>
    BY <2>2, <2>3 DEF LoadService, tables
  <2> QED BY <2>2, <2>3, <2>4 DEF Goto, OthersWait, TypeInv, TypeOK, request
<1>2. TraversalFixed'
  BY <1>1 DEF TraversalFixed, OthersWait, tables
<1>3. RowHeld'
  BY <1>1, OthersTargets DEF RowHeld, OthersWait
<1>4. LoadedVehicleKept'
  BY <1>1, SameTimetable DEF LoadedVehicleKept, RowLoaded, OthersWait, request
<1>5. CheckStillTrue'
  BY <1>1, SameTimetable, OthersTargets DEF CheckStillTrue, OthersWait, request
<1> QED BY <1>1, <1>2, <1>3, <1>4, <1>5, SameTimetable

\* It loads the stops: the vehicle of the row stays as loaded.
LEMMA LoadStopsStep ==
  ASSUME OverlapInv, RowsInv', NEW p \in Proc, LoadStops(p)
  PROVE  OverlapInv'
<1> USE DEF OverlapInv, RowsInv, HoldsRow
<1>1. /\ pc[p] = "load_stops" /\ pc'[p] = "lock" /\ loaded'[p].vehicle_id = loaded[p].vehicle_id
      /\ OthersWait(p) /\ UNCHANGED <<services, block_configs, lock, request>>
  <2>1. IsRow(loaded[p])
    BY DEF LoadStops, TypeInv, Phases
  <2>2. [loaded[p] EXCEPT !.stops = StoredStops(req[p].service_id)].vehicle_id = loaded[p].vehicle_id
    BY <2>1 DEF IsRow
  <2> QED BY <2>2 DEF LoadStops, Goto, OthersWait, TypeInv, TypeOK, request, tables
<1>2. TraversalFixed'
  BY <1>1 DEF TraversalFixed, OthersWait
<1>3. RowHeld'
  BY <1>1, OthersTargets DEF RowHeld, OthersWait
<1>4. LoadedVehicleKept'
  BY <1>1, SameTimetable DEF LoadedVehicleKept, RowLoaded, OthersWait, request
<1>5. CheckStillTrue'
  BY <1>1, SameTimetable, OthersTargets DEF CheckStillTrue, OthersWait, request
<1> QED BY <1>1, <1>2, <1>3, <1>4, <1>5, SameTimetable

\* A handler takes the row of its vehicle, which was free.
LEMMA LockStep ==
  ASSUME OverlapInv, RowsInv', NEW p \in Proc, pc[p] = "lock",
         VehicleRowFree(TargetVehicle(p)),
         lock' = [lock EXCEPT ![TargetVehicle(p)] = p], Goto(p, "traversal"),
         UNCHANGED <<tables, request, reads>>
  PROVE  OverlapInv'
<1> USE DEF OverlapInv, RowsInv, HoldsRow
<1>1. /\ pc'[p] = "traversal" /\ OthersWait(p)
      /\ UNCHANGED <<services, block_configs, req, ticket, begun, loaded, block_traversal>>
  BY DEF Goto, OthersWait, TypeInv, TypeOK, request, reads, tables
<1>2. \A q \in Proc : TargetVehicle(q)' = TargetVehicle(q) /\ Written(q)' = Written(q)
  BY <1>1 DEF TargetVehicle, Written, Creating
<1>3. TraversalFixed'
  BY <1>1 DEF TraversalFixed, OthersWait
<1>4. RowHeld'
  <2>1. TargetVehicle(p) \in Vehicle
    BY WriterTyped DEF TypeInv, Phases
  <2> QED BY <1>1, <1>2, <2>1, ParametersAssumption
          DEF RowHeld, OthersWait, VehicleRowFree, TypeInv, TypeOK
<1>5. LoadedVehicleKept'
  BY <1>1, SameTimetable DEF LoadedVehicleKept, RowLoaded, OthersWait
<1>6. CheckStillTrue'
  BY <1>1, <1>2, SameTimetable DEF CheckStillTrue, OthersWait
<1> QED BY <1>1, <1>3, <1>4, <1>5, <1>6, SameTimetable

\* A handler commits the stops of its payload: to a new service, or in place of the
\* stops of one that keeps its vehicle.
LEMMA CommitStep ==
  ASSUME OverlapInv, RowsInv', NEW p \in Proc, pc[p] = "commit", req[p].stops # None,
         NEW s, s = Written(p), NEW row, row.vehicle_id = TargetVehicle(p),
         row.stops = StopRows(ticket[p], req[p].stops),
         services' = [services EXCEPT ![s] = row],
         \/ Creating(p)
         \/ /\ services[s] # None /\ RowLoaded(p)
            /\ s = req[p].service_id /\ TargetVehicle(p) = loaded[p].vehicle_id,
         EndTransaction(p), Goto(p, "reload"),
         UNCHANGED <<block_configs, request, reads>>
  PROVE  OverlapInv'
<1> USE DEF OverlapInv, RowsInv, HoldsRow
<1>1. /\ pc'[p] = "reload" /\ OthersWait(p)
      /\ UNCHANGED <<block_configs, req, ticket, begun, loaded, block_traversal>>
  BY DEF Goto, OthersWait, TypeInv, TypeOK, request, reads
<1>2. /\ \A q \in Proc : /\ TargetVehicle(q)' = TargetVehicle(q) /\ Written(q)' = Written(q)
                         /\ Creating(q)' = Creating(q)
      /\ TargetVehicle(p) \in Vehicle /\ s \in ServiceId
  BY <1>1, WriterTyped DEF TargetVehicle, Written, Creating, TypeInv, Phases
<1>3. /\ services'[s] = row /\ \A t \in ServiceId \ {s} : services'[t] = services[t]
      /\ Live' \subseteq Live \cup {s}
  BY <1>2 DEF TypeInv, TypeOK, Live
\* The payload, written and read back.
<1>4. StopsIn(row) = req[p].stops
  BY RequestStops, StopsReadBack DEF TypeInv, Phases
<1>5. \A t \in Live' \ {s} : StopsIn(services'[t]) = StopsIn(services[t]) /\ Window(t)' = Window(t)
  BY <1>1, <1>3 DEF Live, Window
<1>6. Timed' \ {s} \subseteq Timed
  BY <1>1, <1>3 DEF Timed, Live
\* A service whose vehicle another handler holds is not the one written.
<1>7. /\ lock[TargetVehicle(p)] = p
      /\ \A q \in Proc \ {p} : HoldsRow(q) => TargetVehicle(q) # TargetVehicle(p)
  BY DEF RowHeld
<1>8. TraversalFixed' /\ RowHeld'
  BY <1>1, RowsReleased
<1>9. LoadedVehicleKept'
  <2> SUFFICES ASSUME NEW q \in Proc, RowLoaded(q), req[q].service_id \in Live'
               PROVE  services'[req[q].service_id].vehicle_id = loaded[q].vehicle_id
    BY <1>1 DEF LoadedVehicleKept, RowLoaded, OthersWait
  <2>1. CASE req[q].service_id # s
    BY <1>3, <2>1 DEF LoadedVehicleKept, Live
  <2>2. CASE req[q].service_id = s
    <3>1. ~Creating(p)
      BY <2>2 DEF KeysUnique, Written, Unwritten
    <3>2. s \in Live
      BY <1>2, <3>1 DEF Live
    <3>3. services[s].vehicle_id = loaded[q].vehicle_id /\ services[s].vehicle_id = loaded[p].vehicle_id
      BY <2>2, <3>1, <3>2 DEF LoadedVehicleKept
    <3> QED BY <1>3, <2>2, <3>1, <3>3
  <2> QED BY <2>1, <2>2
<1>10. CheckStillTrue'
  <2> SUFFICES ASSUME NEW q \in Proc, pc'[q] = "commit", req'[q].stops # None, NEW t \in Timed',
                      t # Written(q)', services'[t].vehicle_id = TargetVehicle(q)',
                      SnapshotStops(req'[q].stops, InitialTraversal) # << >>
               PROVE  ~_intervals_overlap(Span(req'[q].stops), Window(t)')
    BY DEF CheckStillTrue
  <2>1. q # p /\ pc[q] = "commit"
    BY <1>1 DEF OthersWait
  <2>2. t # s
    BY <1>2, <1>3, <1>7, <2>1
  <2>3. t \in Timed /\ services'[t] = services[t] /\ Window(t)' = Window(t)
    BY <1>3, <1>5, <1>6, <2>2 DEF Timed, Live
  <2> QED BY <1>1, <1>2, <2>1, <2>3 DEF CheckStillTrue
<1>11. NoVehicleOverlap'
  <2>1. ASSUME s \in Timed', NEW t \in Timed', t # s,
               services'[t].vehicle_id = services'[s].vehicle_id
        PROVE  ~_intervals_overlap(Window(s)', Window(t)')
    <3>1. block_configs = InitialTraversal /\ block_configs' = InitialTraversal
      BY <1>1 DEF TraversalFixed
    <3>2. Window(s)' = Span(req[p].stops)
      BY <1>3, <1>4, <3>1 DEF Window, _snap_window, SnapshotOf, Span
    <3>3. SnapshotStops(req[p].stops, InitialTraversal) # << >>
      BY <1>3, <1>4, <2>1, <3>1 DEF Timed
    <3>4. t \in Timed /\ services'[t] = services[t] /\ Window(t)' = Window(t)
      BY <1>3, <1>5, <1>6, <2>1 DEF Timed, Live
    <3> QED BY <1>3, <2>1, <3>2, <3>3, <3>4 DEF CheckStillTrue
  <2>2. ASSUME NEW t \in Timed' \ {s}, NEW u \in Timed' \ {s}, t # u,
               services'[t].vehicle_id = services'[u].vehicle_id
        PROVE  ~_intervals_overlap(Window(t)', Window(u)')
    <3>1. /\ t \in Timed /\ services'[t] = services[t] /\ Window(t)' = Window(t)
          /\ u \in Timed /\ services'[u] = services[u] /\ Window(u)' = Window(u)
      BY <1>3, <1>5, <1>6 DEF Timed, Live
    <3> QED BY <2>2, <3>1 DEF NoVehicleOverlap
  <2> QED BY <2>1, <2>2 DEF NoVehicleOverlap, _intervals_overlap
<1> QED BY <1>8, <1>9, <1>10, <1>11

\* A request answered without a write.
LEMMA RefuseStep ==
  ASSUME OverlapInv, RowsInv', NEW p \in Proc, NEW status, Refuse(p, status)
  PROVE  OverlapInv'
BY AnswerStep DEF Refuse, tables

\* A payload that passes the check is free.
LEMMA CheckedPayloadIsFree ==
  ASSUME OverlapInv, NEW p \in Proc, pc[p] = "siblings", WriteConflicts(p) = {},
         req[p].stops # None
  PROVE  PayloadIsFree(p)
<1> SUFFICES ASSUME NEW t \in Timed, t # Written(p), services[t].vehicle_id = TargetVehicle(p),
                    SnapshotStops(req[p].stops, InitialTraversal) # << >>
             PROVE  ~_intervals_overlap(Span(req[p].stops), Window(t))
  BY DEF PayloadIsFree
<1>1. /\ block_traversal[p] = InitialTraversal /\ ~PayloadErrors(req[p].stops)
      /\ SchemaAccepts(req[p].stops)
  BY RequestStops
     DEF OverlapInv, RowsInv, TraversalFixed, PayloadsChecked, HoldsRow, TypeInv, Phases
<1>2. t \in Siblings(p) /\ SnapshotStops(StopsIn(services[t]), block_configs) # << >>
  BY DEF Siblings, Timed
<1> QED BY <1>1, <1>2, CandidateWindow, CheckFindsOverlaps

\* Every step keeps the invariant.
LEMMA OverlapStep ==
  ASSUME OrdinaryRequests, OverlapInv, [Next]_vars
  PROVE  OverlapInv'
<1>t. TypeInv /\ RowsInv /\ RowsInv' /\ NumberedFromZero
  BY RowsStep DEF OverlapInv, RowsInv, OrdinaryRequests
<1>1. ASSUME NEW p \in Proc, Begin(p) PROVE OverlapInv'
  BY <1>t, <1>1, BeginStep
<1>2. ASSUME NEW p \in Proc, LoadService(p) PROVE OverlapInv'
  BY <1>t, <1>2, LoadStep, RefuseStep DEF LoadService
<1>21. ASSUME NEW p \in Proc, LoadStops(p) PROVE OverlapInv'
  BY <1>t, <1>21, LoadStopsStep
<1>3. ASSUME NEW p \in Proc, LockVehicle(p) PROVE OverlapInv'
  <2>1. CASE \E status \in Statuses : Refuse(p, status)
    BY <1>t, <2>1, RefuseStep
  <2>2. CASE ~\E status \in Statuses : Refuse(p, status)
    BY <1>t, <1>3, <2>2, LockStep DEF LockVehicle, Statuses, tables, request, reads
  <2> QED BY <2>1, <2>2
<1>4. ASSUME NEW p \in Proc, ReadTraversal(p) PROVE OverlapInv'
  <2> DEFINE label == IF Creating(p) THEN "battery" ELSE IF Rechecked(p) THEN "wipe" ELSE "commit"
  <2>1. /\ Goto(p, label) /\ UNCHANGED <<services, block_configs, lock, request, loaded>>
        /\ pc[p] = "traversal" /\ label \notin {"idle", "load", "load_stops"}
    BY <1>4 DEF ReadTraversal, tables
  <2>2. /\ \A q \in Proc \ {p} : block_traversal'[q] = block_traversal[q]
        /\ block_traversal'[p] = InitialTraversal
    BY <1>t, <1>4 DEF ReadTraversal, TypeInv, TypeOK, OverlapInv, TraversalFixed
  <2>3. label = "commit" => req[p].stops = None
    BY DEF Rechecked
  <2> HIDE DEF label
  <2> QED BY <1>t, <2>1, <2>2, <2>3, MoveStep DEF HoldsRow
<1>5. ASSUME NEW p \in Proc, WipeConsume(p) PROVE OverlapInv'
  BY <1>t, <1>5, MoveStep
     DEF WipeConsume, HoldsRow, Goto, TypeInv, TypeOK, OverlapInv, TraversalFixed,
         tables, reads
<1>6. ASSUME NEW p \in Proc, ResumeWipe(p) PROVE OverlapInv'
  BY <1>t, <1>6, MoveStep
     DEF ResumeWipe, HoldsRow, OverlapInv, TraversalFixed, tables, reads
<1>7. ASSUME NEW p \in Proc, ReadBattery(p) PROVE OverlapInv'
  BY <1>t, <1>7, RefuseStep, MoveStep
     DEF ReadBattery, HoldsRow, OverlapInv, TraversalFixed, tables
<1>8. ASSUME NEW p \in Proc, CheckSiblings(p) PROVE OverlapInv'
  <2>1. CASE Refuse(p, 409)
    BY <1>t, <2>1, RefuseStep
  <2>2. CASE ~Refuse(p, 409)
    <3>1. req[p].stops # None => PayloadIsFree(p)
      BY <1>8, <2>2, CheckedPayloadIsFree DEF CheckSiblings
    <3> QED
      BY <1>t, <1>8, <2>2, <3>1, MoveStep
         DEF CheckSiblings, HoldsRow, OverlapInv, TraversalFixed, tables, reads
  <2> QED BY <2>1, <2>2
<1>9. ASSUME NEW p \in Proc, CommitCreate(p) PROVE OverlapInv'
  <2>1. req[p].stops # None
    BY <1>t, <1>9, RequestStops DEF CommitCreate, Creating, TypeInv, Phases
  <2>2. TargetVehicle(p) = req[p].vehicle_id /\ Written(p) = ticket[p]
    BY <1>t, <1>9, RequestTyped, ParametersAssumption
       DEF CommitCreate, Creating, TypeInv, Phases, TargetVehicle, Written
  <2> QED BY <1>t, <1>9, <2>1, <2>2, CommitStep DEF CommitCreate
<1>10. ASSUME NEW p \in Proc, CommitUpdate(p) PROVE OverlapInv'
  <2> DEFINE s == req[p].service_id
             row == services[s]
  <2>1. CASE Refuse(p, 500)
    BY <1>t, <2>1, RefuseStep
  <2>2. CASE ~Refuse(p, 500)
    <3> DEFINE written == UpdatedRow(p)
    <3>1. /\ row # None /\ pc[p] = "commit" /\ req[p].op = "update" /\ ~Creating(p)
          /\ s \in ServiceId /\ Written(p) = s /\ RowLoaded(p)
          /\ services' = [services EXCEPT ![s] = written]
          /\ written.stops = IF req[p].stops # None THEN StopRows(ticket[p], req[p].stops)
                             ELSE row.stops
          /\ EndTransaction(p) /\ Goto(p, "reload")
          /\ UNCHANGED <<block_configs, request, reads>>
      BY <1>t, <1>10, <2>2, UpdateCommits DEF HasStops
    <3>2. /\ ~Reassigning(p) /\ TargetVehicle(p) = loaded[p].vehicle_id
          /\ row.vehicle_id = loaded[p].vehicle_id
      BY <1>t, <3>1
         DEF OrdinaryRequests, Reassigning, TypeInv, Phases, Live, TargetVehicle,
             OverlapInv, LoadedVehicleKept
    <3>3. written.vehicle_id = row.vehicle_id
      BY <3>2 DEF UpdatedRow
    <3> HIDE DEF written
    <3>4. CASE req[p].stops # None
      BY <1>t, <3>1, <3>2, <3>3, <3>4, CommitStep
    <3>5. CASE req[p].stops = None
      <4>1. OthersWait(p) /\ pc'[p] = "reload" /\ UNCHANGED <<loaded, req, ticket, begun>>
        BY <1>t, <3>1 DEF OthersWait, Goto, TypeInv, TypeOK, request, reads
      <4>2. \A t \in ServiceId : services'[t] # None =>
              /\ services[t] # None
              /\ services'[t].vehicle_id = services[t].vehicle_id
              /\ services'[t].stops = services[t].stops
        BY <1>t, <3>1, <3>3, <3>5 DEF TypeInv, TypeOK
      <4> QED BY <1>t, <3>1, <4>1, <4>2, EndStep
    <3> QED BY <3>4, <3>5
  <2> QED BY <2>1, <2>2
<1>11. ASSUME NEW p \in Proc, ReloadService(p) PROVE OverlapInv'
  BY <1>t, <1>11, RefuseStep DEF ReloadService
<1>12. ASSUME NEW p \in Proc, DeleteServiceRow(p) PROVE OverlapInv'
  <2>1. CASE Refuse(p, 204)
    BY <1>t, <2>1, RefuseStep
  <2>2. CASE ~Refuse(p, 204)
    BY <1>t, <1>12, <2>2, MoveStep DEF DeleteServiceRow, HoldsRow, Goto, TypeInv, TypeOK,
       tables, reads
  <2> QED BY <2>1, <2>2
<1>13. ASSUME NEW p \in Proc, CascadeAndCommit(p) PROVE OverlapInv'
  BY <1>t, <1>13, AnswerStep DEF CascadeAndCommit, TypeInv, TypeOK
<1>14. ASSUME NEW p \in Proc, DeadlockAbort(p) PROVE OverlapInv'
  BY <1>t, <1>14, RefuseStep DEF DeadlockAbort
<1>15. ASSUME NEW p \in Proc, ReadLevel(p) PROVE OverlapInv'
  <2>1. CASE Refuse(p, 404)
    BY <1>t, <2>1, RefuseStep
  <2>2. CASE ~Refuse(p, 404)
    BY <1>t, <1>15, <2>2, MoveStep DEF ReadLevel, HoldsRow, Goto, TypeInv, TypeOK, tables
  <2> QED BY <2>1, <2>2
<1>16. ASSUME NEW p \in Proc, AdjustLevel(p) PROVE OverlapInv'
  BY <1>t, <1>16, AnswerStep, RefuseStep DEF AdjustLevel
<1>17. ASSUME NEW p \in Proc, CountServices(p) PROVE OverlapInv'
  <2>1. CASE \E status \in Statuses : Refuse(p, status)
    BY <1>t, <2>1, RefuseStep
  <2>2. CASE ~\E status \in Statuses : Refuse(p, status)
    <3>1. /\ pc[p] = "count" /\ Goto(p, "remove")
          /\ UNCHANGED <<services, block_configs, lock, request, reads>>
      BY <1>17, <2>2 DEF CountServices, Statuses, tables
    <3> QED
      BY <1>t, <3>1, MoveStep DEF HoldsRow, Goto, TypeInv, TypeOK, reads
  <2> QED BY <2>1, <2>2
<1>18. ASSUME NEW p \in Proc, RemoveVehicle(p) PROVE OverlapInv'
  BY <1>t, <1>18, AnswerStep, RefuseStep DEF RemoveVehicle
<1>19. ASSUME NEW p \in Proc, UpdateBlock(p) PROVE OverlapInv'
  BY <1>t, <1>19 DEF UpdateBlock, OrdinaryRequests, TypeInv, Phases
<1>20. CASE UNCHANGED vars
  <2>1. UNCHANGED <<services, block_configs, lock, pc, req, ticket, begun, loaded, block_traversal>>
    BY <1>20 DEF vars, tables, request, reads
  <2> QED
    BY <1>t, <2>1, SameTimetable
       DEF OverlapInv, TraversalFixed, RowHeld, LoadedVehicleKept, CheckStillTrue, HoldsRow,
           RowLoaded, TargetVehicle, Written, Creating
<1> QED
  BY <1>1, <1>2, <1>3, <1>4, <1>5, <1>6, <1>7, <1>8, <1>9, <1>10, <1>11, <1>12, <1>13,
     <1>14, <1>15, <1>16, <1>17, <1>18, <1>19, <1>20, <1>21 DEF Next, Step, Served

\* As long as no request reassigns a service, changes a block or numbers its stops from
\* elsewhere than 0, no vehicle is ever in two places: the row lock, the check under it
\* and the unique sequence numbers suffice, however many handlers run side by side.
THEOREM VehiclesNeverOverlap ==
  ASSUME OrdinaryRequests
  PROVE  Spec => []NoVehicleOverlap
<1>1. OverlapInv /\ [Next]_vars => OverlapInv'
  BY OverlapStep
<1>2. OverlapInv => NoVehicleOverlap
  BY DEF OverlapInv
<1> QED BY <1>1, <1>2, OverlapInit, PTL DEF Spec
-----------------------------------------------------------------------------
(***************************************************************************)
(* The lock, and the book of trips.  Both need the invariant of            *)
(* VehicleOverlapProofs, hence ordinary requests.                          *)
(***************************************************************************)

\* A handler commits the row of a service of the vehicle whose row it has locked.
Writes(p, s) ==
  /\ lock[TargetVehicle(p)] = p /\ EndTransaction(p) /\ TargetVehicle(p) \in Vehicle
  /\ services'[s].vehicle_id = TargetVehicle(p)
  /\ \A t \in ServiceId \ {s} : services'[t] = services[t]

\* What a step does to the table of services.
ServiceStep ==
  \/ services' = services
  \/ \E p \in Proc, s \in ServiceId : Writes(p, s)
  \/ \E s \in ServiceId : services' = [services EXCEPT ![s] = None]

LEMMA CreateWrites ==
  ASSUME OverlapInv, NEW p \in Proc, CommitCreate(p)
  PROVE  \E s \in ServiceId : Writes(p, s)
<1> USE DEF OverlapInv, RowsInv, TypeInv, TypeOK, CommitCreate
<1>1. ticket[p] \in ServiceId /\ req[p].vehicle_id \in Vehicle
  BY RequestTyped DEF Phases, Creating, ServiceId
<1>2. req[p].vehicle_id = TargetVehicle(p)
  BY <1>1, ParametersAssumption DEF TargetVehicle
<1>3. lock[TargetVehicle(p)] = p
  BY DEF RowHeld, HoldsRow
<1> QED BY <1>1, <1>2, <1>3 DEF Writes

LEMMA UpdateWrites ==
  ASSUME OrdinaryRequests, OverlapInv, NEW p \in Proc, CommitUpdate(p), ~Refuse(p, 500)
  PROVE  \E s \in ServiceId : Writes(p, s)
<1> DEFINE s == req[p].service_id
<1> USE DEF OverlapInv, RowsInv, TypeInv, TypeOK
<1>1. /\ services[s] # None /\ pc[p] = "commit" /\ req[p].op = "update"
      /\ services' = [services EXCEPT ![s] = UpdatedRow(p)] /\ EndTransaction(p)
  BY DEF CommitUpdate
<1>2. /\ req[p].vehicle_id = None /\ ~Reassigning(p) /\ s \in Live /\ s \in ServiceId
      /\ TargetVehicle(p) = services[s].vehicle_id
  BY <1>1, RequestTyped
     DEF OrdinaryRequests, Reassigning, Phases, Live, TargetVehicle, LoadedVehicleKept, RowLoaded
<1>3. UpdatedRow(p).vehicle_id = TargetVehicle(p)
  BY <1>2 DEF UpdatedRow
<1>4. lock[TargetVehicle(p)] = p /\ TargetVehicle(p) \in Vehicle
  BY <1>1, <1>2 DEF RowHeld, HoldsRow, IsRow
<1> QED BY <1>1, <1>2, <1>3, <1>4 DEF Writes

LEMMA ServiceSteps ==
  ASSUME OrdinaryRequests, OverlapInv, [Next]_vars
  PROVE  ServiceStep
<1>1. ASSUME NEW p \in Proc, Begin(p) \/ Step(p) PROVE ServiceStep
  <2>1. CASE CommitCreate(p)
    BY <2>1, CreateWrites DEF ServiceStep
  <2>2. CASE CommitUpdate(p)
    BY <2>2, UpdateWrites DEF ServiceStep, Refuse, tables
  <2>3. CASE CascadeAndCommit(p)
    <3>1. req[p].service_id \in ServiceId
      BY <2>3, RequestTyped DEF CascadeAndCommit, OverlapInv, RowsInv, TypeInv, Phases
    <3> QED BY <2>3, <3>1 DEF CascadeAndCommit, ServiceStep
  <2>4. CASE \/ Begin(p) \/ LoadService(p) \/ LoadStops(p) \/ LockVehicle(p)
             \/ ReadTraversal(p) \/ WipeConsume(p) \/ ResumeWipe(p) \/ ReadBattery(p)
             \/ CheckSiblings(p)
    BY <2>4 DEF Begin, LoadService, LoadStops, LockVehicle, ReadTraversal, WipeConsume,
                ResumeWipe, ReadBattery, CheckSiblings, Refuse, tables, ServiceStep
  <2>5. CASE \/ ReloadService(p) \/ DeleteServiceRow(p) \/ DeadlockAbort(p) \/ ReadLevel(p)
             \/ AdjustLevel(p) \/ CountServices(p) \/ RemoveVehicle(p) \/ UpdateBlock(p)
    BY <2>5 DEF ReloadService, DeleteServiceRow, DeadlockAbort, ReadLevel, AdjustLevel,
                CountServices, RemoveVehicle, UpdateBlock, Refuse, tables, ServiceStep
  <2> QED BY <1>1, <2>1, <2>2, <2>3, <2>4, <2>5 DEF Step
<1>2. CASE UNCHANGED vars
  BY <1>2 DEF vars, tables, ServiceStep
<1> QED BY <1>1, <1>2 DEF Next, Served

\* What a handler has read of a vehicle's timetable under the lock stays true until it
\* lets go of it.
THEOREM LockFreezes ==
  ASSUME OrdinaryRequests
  PROVE  Spec => LockFreezesTimetable
<1> DEFINE Frozen(v, s) ==
      (/\ lock[v] # None /\ lock'[v] = lock[v]
       /\ services'[s] # None /\ services'[s].vehicle_id = v)
      => services'[s] = services[s]
<1>1. OverlapInv /\ [Next]_vars => \A v \in Vehicle, s \in ServiceId : Frozen(v, s)
  <2> SUFFICES ASSUME OverlapInv, [Next]_vars, NEW v \in Vehicle, NEW s \in ServiceId
               PROVE  Frozen(v, s)
    OBVIOUS
  <2>1. CASE services' = services
    BY <2>1
  <2>2. ASSUME NEW p \in Proc, NEW t \in ServiceId, Writes(p, t) PROVE Frozen(v, s)
    <3>1. lock'[TargetVehicle(p)] = None /\ lock[TargetVehicle(p)] # None
      BY <2>2, ParametersAssumption DEF Writes, EndTransaction, LocksWithout
    <3>2. services'[t].vehicle_id = TargetVehicle(p) /\ (s # t => services'[s] = services[s])
      BY <2>2 DEF Writes
    <3> QED BY <3>1, <3>2
  <2>3. ASSUME NEW t \in ServiceId, services' = [services EXCEPT ![t] = None] PROVE Frozen(v, s)
    BY <2>3 DEF OverlapInv, RowsInv, TypeInv, TypeOK
  <2> QED BY <2>1, <2>2, <2>3, ServiceSteps DEF ServiceStep
<1>2. OverlapInv /\ [Next]_vars => OverlapInv'
  BY OverlapStep
<1> QED BY <1>1, <1>2, OverlapInit, PTL DEF Spec, LockFreezesTimetable
-----------------------------------------------------------------------------
(* The refinement *)

TripOf(s) ==
  [service |-> s, vehicle |-> services[s].vehicle_id,
   enter |-> Window(s).enter, exit |-> Window(s).exit]

\* A step that changes at most one service of the table books, changes or cancels one
\* trip, or none: what it books is free, as the timetable has no overlap afterwards.
LEMMA OneServiceIsOneTrip ==
  ASSUME OverlapInv, OverlapInv', Timed' = Live', NEW s \in ServiceId,
         \A t \in ServiceId \ {s} : services'[t] = services[t]
  PROVE  [Timeline!Next]_Trips
<1>1. block_configs' = block_configs
  BY DEF OverlapInv, TraversalFixed
<1>2. \A t \in ServiceId \ {s} : (t \in Live' <=> t \in Live) /\ TripOf(t)' = TripOf(t)
  BY <1>1 DEF Live, TripOf, Window
<1>3. Live \subseteq ServiceId /\ Live' \subseteq ServiceId
  BY DEF Live
<1>4. Trips = {TripOf(t) : t \in Live} /\ Trips' = {TripOf(t)' : t \in Live'}
  BY DEF Trips, TripOf
<1>5. \A t : TripOf(t).service = t /\ TripOf(t)'.service = t
  BY DEF TripOf
<1>6. s \in Live' => \A t \in Live' \ {s} : ~Timeline!Meet(TripOf(s)', TripOf(t)')
  BY DEF OverlapInv, NoVehicleOverlap, Timeline!Meet, TripOf, _intervals_overlap
<1> DEFINE others == {TripOf(t) : t \in Live \ {s}}
<1>7. Trips \ {TripOf(s)} = others
  BY <1>4, <1>5
<1>8. /\ s \in Live => Trips = others \cup {TripOf(s)}
      /\ s \notin Live => Trips = others
  BY <1>4
<1>9. /\ s \in Live' => Trips' = others \cup {TripOf(s)'}
      /\ s \notin Live' => Trips' = others
  BY <1>2, <1>3, <1>4
<1>10. s \in Live' => Timeline!Free(TripOf(s)', others)
  BY <1>2, <1>3, <1>6 DEF Timeline!Free
<1>11. \A t \in others : t.service # s
  BY <1>5
<1> HIDE DEF others
<1>12. CASE s \in Live /\ s \in Live'
  BY <1>5, <1>7, <1>8, <1>9, <1>10, <1>12 DEF Timeline!Next, Timeline!Rebook
<1>13. CASE s \in Live /\ s \notin Live'
  BY <1>7, <1>8, <1>9, <1>13 DEF Timeline!Next, Timeline!Cancel
<1>14. CASE s \notin Live /\ s \in Live'
  BY <1>5, <1>8, <1>9, <1>10, <1>11, <1>14 DEF Timeline!Next, Timeline!Book
<1>15. CASE s \notin Live /\ s \notin Live'
  BY <1>8, <1>9, <1>15
<1> QED BY <1>12, <1>13, <1>14, <1>15

\* The concurrent handlers with their locks are a book of trips that is kept by one
\* clerk, as long as requests are ordinary.
THEOREM HandlersKeepTheBook ==
  ASSUME OrdinaryRequests
  PROVE  Spec => ImplementsTimeline
<1>1. Init => Timeline!Init
  BY DEF Init, Timeline!Init, Trips, Live
<1>2. OverlapInv => Timed = Live
  BY RowsTimed DEF OverlapInv
<1>3. OverlapInv /\ OverlapInv' /\ (Timed = Live)' /\ [Next]_vars => [Timeline!Next]_Trips
  <2> SUFFICES ASSUME OverlapInv, OverlapInv', Timed' = Live', [Next]_vars
               PROVE  [Timeline!Next]_Trips
    OBVIOUS
  <2>1. CASE services' = services
    <3>1. block_configs' = block_configs
      BY DEF OverlapInv, TraversalFixed
    <3> QED BY <2>1, <3>1 DEF Trips, Live, Window
  <2>2. ASSUME NEW p \in Proc, NEW s \in ServiceId, Writes(p, s) PROVE [Timeline!Next]_Trips
    BY <2>2, OneServiceIsOneTrip DEF Writes
  <2>3. ASSUME NEW s \in ServiceId, services' = [services EXCEPT ![s] = None]
        PROVE  [Timeline!Next]_Trips
    BY <2>3, OneServiceIsOneTrip DEF OverlapInv, RowsInv, TypeInv, TypeOK
  <2> QED BY <2>1, <2>2, <2>3, ServiceSteps DEF ServiceStep
<1>4. OverlapInv /\ [Next]_vars => OverlapInv'
  BY OverlapStep
<1> QED BY <1>1, <1>2, <1>3, <1>4, OverlapInit, PTL DEF Spec, ImplementsTimeline, Timeline!Spec
=============================================================================
