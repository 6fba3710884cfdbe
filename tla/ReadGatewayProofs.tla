-------------------------- MODULE ReadGatewayProofs --------------------------
(***************************************************************************)
(* The session of a request is used by one task at a time, whatever the    *)
(* request asks for and whatever the other handlers write meanwhile.  And  *)
(* although rows, stops and block times are read at three moments, no      *)
(* reader is shown an overlap, or the services of a vehicle out of order.  *)
(***************************************************************************)
EXTENDS ReadGateway, VehicleOverlapProofs, FiniteSetTheorems

GatewayTypeOK ==
  /\ query \in Seq(Fields)
  /\ at \in [DOMAIN query -> Nat]
  /\ DOMAIN read = DOMAIN query
  /\ calls \subseteq Task

\* The lock is held by the one field that has begun and is not answered.
LockHeld ==
  /\ db_lock \in DOMAIN query \cup {None}
  /\ \A i \in DOMAIN query : Running(i) <=> db_lock = i

\* A field that uses the session has the lock, and does not wait for the loader.
FieldsUseSession ==
  \A i \in calls \ {Loader} : Running(i) /\ Statement(i) # "load_levels"

\* The loader works for a field that waits for it.
LoaderServes ==
  /\ Loader \in calls => pending # {}
  /\ pending # {} => \E i \in DOMAIN query :
       /\ Running(i) /\ Statement(i) = "load_levels"
       /\ pending \subseteq read[i].vehicles
  /\ pending \cap DOMAIN loader = {}

GatewayInv == GatewayTypeOK /\ LockHeld /\ FieldsUseSession /\ LoaderServes

\* Every field has a statement to begin with.
LEMMA FieldHasStatements ==
  ASSUME NEW field \in Fields
  PROVE  Len(Statements(field)) \in Nat \ {0}
<1>1. CASE field \in {"vehicles", "list_vehicles"}
  <2>1. \E s : Statements(field) = <<"vehicles", s>>
    BY <1>1 DEF Statements
  <2> QED BY <2>1
<1>2. CASE field \in {"services", "schedule"}
  <2>1. Statements(field) = <<"services", "stops">>
    BY <1>2 DEF Statements
  <2> QED BY <2>1
<1>3. CASE field = "conflicts"
  <2>1. Statements(field) = <<"services", "stops", "traversal">>
    BY <1>3 DEF Statements
  <2> QED BY <2>1
<1>4. CASE field \in {"blocks", "topology"}
  <2>1. Statements(field) = <<"traversal">>
    BY <1>4 DEF Statements
  <2> QED BY <2>1
<1>5. CASE field = "positions"
  <2>1. Statements(field) = <<"vehicles", "base", "services", "stops", "traversal">>
    BY <1>5 DEF Statements
  <2> QED BY <2>1
<1> QED BY <1>1, <1>2, <1>3, <1>4, <1>5 DEF Fields

\* Fields are numbered, so that none is the loader and none is None.
LEMMA FieldNumbers ==
  ASSUME query \in Seq(Fields), NEW i \in DOMAIN query
  PROVE  i \in Nat \ {0} /\ i # Loader /\ i # None /\ query[i] \in Fields /\ TakesLock(i)
BY ParametersAssumption DEF Loader, TakesLock

LEMMA GatewayStarts == GatewayInit => GatewayInv
<1> SUFFICES ASSUME GatewayInit PROVE GatewayInv
  OBVIOUS
<1>1. query \in Seq(Fields)
  BY GatewayAssumption DEF GatewayInit
<1>2. \A i \in DOMAIN query : i # None
  BY <1>1, FieldNumbers
<1> QED
  BY <1>1, <1>2 DEF GatewayInit, GatewayInv, GatewayTypeOK, LockHeld, FieldsUseSession,
                    LoaderServes, Running, Task

\* A field goes on only while nothing is left to the loader.
LEMMA GoOnKeeps ==
  ASSUME GatewayInv, NEW i \in DOMAIN query, Running(i), pending = {}, NEW got, GoOn(i, got),
         query' = query, calls' = calls \ {i}, pending' = pending, loader' = loader
  PROVE  GatewayInv'
<1>1. GatewayTypeOK'
  BY DEF GatewayInv, GatewayTypeOK, GoOn, Task
<1>2. db_lock = i
  BY DEF GatewayInv, LockHeld
<1>3. \A j \in DOMAIN query : j # None /\ Len(Statements(query[j])) \in Nat \ {0}
  BY FieldNumbers, FieldHasStatements DEF GatewayInv, GatewayTypeOK
<1>4. at'[i] = at[i] + 1 /\ at[i] \in Nat /\ \A j \in DOMAIN query \ {i} : at'[j] = at[j]
  BY DEF GoOn, GatewayInv, GatewayTypeOK
<1>5. \A j \in DOMAIN query \ {i} : ~Running(j) /\ ~Running(j)'
  BY <1>2, <1>4 DEF GatewayInv, LockHeld, Running, Answered
<1>6. Running(i)' <=> at[i] < Len(Statements(query[i]))
  BY <1>3, <1>4 DEF Running, Answered
<1>7. LockHeld'
  <2>1. db_lock' = IF at[i] < Len(Statements(query[i])) THEN i ELSE None
    BY <1>2 DEF GoOn
  <2> QED BY <1>3, <1>5, <1>6, <2>1 DEF LockHeld
<1>8. FieldsUseSession'
  BY <1>5 DEF FieldsUseSession, GatewayInv, GatewayTypeOK, Task
<1>9. LoaderServes'
  BY DEF GatewayInv, LoaderServes
<1> QED BY <1>1, <1>7, <1>8, <1>9 DEF GatewayInv

\* While the field that has the lock is at another statement, the loader has nothing
\* to do.
LEMMA LoaderIdle ==
  ASSUME GatewayInv, NEW i \in DOMAIN query, Running(i), Statement(i) # "load_levels"
  PROVE  pending = {} /\ Loader \notin calls
BY DEF GatewayInv, LockHeld, LoaderServes

LEMMA GatewayStepKeeps == GatewayInv /\ GatewayStep => GatewayInv'
<1> SUFFICES ASSUME GatewayInv, GatewayStep PROVE GatewayInv'
  OBVIOUS
<1>1. ASSUME NEW i \in DOMAIN query, StartField(i) PROVE GatewayInv'
  <2>1. /\ i \in Nat \ {0} /\ i # None /\ query[i] \in Fields /\ TakesLock(i)
        /\ Len(Statements(query[i])) \in Nat \ {0}
    BY FieldNumbers, FieldHasStatements DEF GatewayInv, GatewayTypeOK
  <2>2. /\ db_lock = None /\ db_lock' = i /\ at' = [at EXCEPT ![i] = 1]
        /\ UNCHANGED <<query, calls, read, pending, loader>>
    BY <1>1, <2>1 DEF StartField
  <2>3. \A j \in DOMAIN query : ~Running(j)
    BY <2>2, FieldNumbers DEF GatewayInv, GatewayTypeOK, LockHeld
  <2>4. GatewayTypeOK'
    BY <2>2 DEF GatewayInv, GatewayTypeOK, Task
  <2>5. Running(i)' /\ \A j \in DOMAIN query \ {i} : ~Running(j)'
    BY <2>1, <2>2, <2>3 DEF Running, Answered, GatewayInv, GatewayTypeOK
  <2>6. LockHeld'
    BY <2>2, <2>5 DEF LockHeld
  <2>7. calls = {} /\ pending = {}
    BY <2>3 DEF GatewayInv, GatewayTypeOK, FieldsUseSession, LoaderServes, Task
  <2> QED BY <2>2, <2>4, <2>6, <2>7 DEF GatewayInv, FieldsUseSession, LoaderServes
<1>2. ASSUME NEW i \in DOMAIN query, Call(i) PROVE GatewayInv'
  <2>1. Running(i) /\ Statement(i) # "load_levels" /\ calls' = calls \cup {i}
    BY <1>2 DEF Call
  <2>2. UNCHANGED <<query, db_lock, at, read, pending, loader>>
    BY <1>2 DEF Call
  <2>3. Loader \notin calls' /\ pending = {}
    BY <2>1, LoaderIdle, FieldNumbers DEF GatewayInv, GatewayTypeOK
  <2>4. GatewayTypeOK'
    BY <2>1, <2>2 DEF GatewayInv, GatewayTypeOK, Task
  <2>5. \A j \in DOMAIN query : /\ Running(j)' = Running(j)
                                /\ Statement(j)' = Statement(j)
    BY <2>2 DEF Running, Answered, Statement
  <2> QED
    BY <2>1, <2>2, <2>3, <2>4, <2>5
    DEF GatewayInv, GatewayTypeOK, LockHeld, FieldsUseSession, LoaderServes, Task
<1>3. ASSUME NEW i \in DOMAIN query, Return(i) PROVE GatewayInv'
  <2>1. i # Loader /\ i \in calls
    BY <1>3, FieldNumbers DEF Return, GatewayInv, GatewayTypeOK
  <2>2. Running(i) /\ Statement(i) # "load_levels"
    BY <2>1 DEF GatewayInv, FieldsUseSession
  <2>3. pending = {} /\ Loader \notin calls
    BY <2>2, LoaderIdle
  <2>4. calls' = calls \ {i} /\ query' = query /\ pending' = pending /\ loader' = loader
    BY <1>3 DEF Return
  <2>5. CASE \E got \in {Returned(i)} : GoOn(i, got)
    BY <2>2, <2>3, <2>4, <2>5, GoOnKeeps
  <2>6. CASE read' = [read EXCEPT ![i] = Returned(i)] /\ UNCHANGED <<db_lock, at, answers>>
    <3>1. GatewayTypeOK'
      BY <2>4, <2>6 DEF GatewayInv, GatewayTypeOK, Task
    <3>2. \A j \in DOMAIN query : /\ Running(j)' = Running(j)
                                  /\ Statement(j)' = Statement(j)
      BY <2>4, <2>6 DEF Running, Answered, Statement
    <3> QED
      BY <2>3, <2>4, <2>6, <3>1, <3>2
      DEF GatewayInv, GatewayTypeOK, LockHeld, FieldsUseSession, LoaderServes, Task
  <2> QED BY <1>3, <2>5, <2>6 DEF Return
<1>4. ASSUME NEW i \in DOMAIN query, LoadMany(i) PROVE GatewayInv'
  <2>1. /\ Running(i) /\ Statement(i) = "load_levels"
        /\ pending' = pending \cup (read[i].vehicles \ DOMAIN loader)
        /\ ~(read[i].vehicles \ DOMAIN loader \subseteq pending)
        /\ UNCHANGED <<query, db_lock, at, calls, read, loader>>
    BY <1>4 DEF LoadMany
  <2>2. pending \subseteq read[i].vehicles
    BY <2>1 DEF GatewayInv, LockHeld, LoaderServes
  <2>3. \A j \in DOMAIN query : /\ Running(j)' = Running(j)
                                /\ Statement(j)' = Statement(j)
    BY <2>1 DEF Running, Answered, Statement
  <2>4. LoaderServes'
    BY <2>1, <2>2, <2>3 DEF GatewayInv, LoaderServes
  <2> QED
    BY <2>1, <2>3, <2>4
    DEF GatewayInv, GatewayTypeOK, LockHeld, FieldsUseSession, Task
<1>5. CASE LoaderCall
  <2>1. /\ pending # {} /\ calls' = calls \cup {Loader}
        /\ UNCHANGED <<query, db_lock, at, read, pending, loader>>
    BY <1>5 DEF LoaderCall
  <2>2. \A j \in DOMAIN query : /\ Running(j)' = Running(j)
                                /\ Statement(j)' = Statement(j)
    BY <2>1 DEF Running, Answered, Statement
  <2> QED
    BY <2>1, <2>2
    DEF GatewayInv, GatewayTypeOK, LockHeld, FieldsUseSession, LoaderServes, Task
<1>6. CASE LoaderReturn
  <2>1. PICK v : /\ pending' = pending \ {v}
                 /\ DOMAIN loader' = DOMAIN loader \cup {v}
    BY <1>6 DEF LoaderReturn, WithLevel
  <2>2. /\ calls' = calls \ {Loader}
        /\ UNCHANGED <<query, db_lock, at, read>>
    BY <1>6 DEF LoaderReturn
  <2>3. \A j \in DOMAIN query : /\ Running(j)' = Running(j)
                                /\ Statement(j)' = Statement(j)
    BY <2>2 DEF Running, Answered, Statement
  <2>4. LoaderServes'
    BY <2>1, <2>2, <2>3 DEF GatewayInv, LoaderServes
  <2> QED
    BY <2>2, <2>3, <2>4
    DEF GatewayInv, GatewayTypeOK, LockHeld, FieldsUseSession, Task
<1>7. ASSUME NEW i \in DOMAIN query, LevelsLoaded(i) PROVE GatewayInv'
  <2>1. /\ Running(i) /\ Statement(i) = "load_levels"
        /\ read[i].vehicles \subseteq DOMAIN loader
        /\ \E got : GoOn(i, got)
        /\ query' = query /\ calls' = calls /\ pending' = pending /\ loader' = loader
    BY <1>7 DEF LevelsLoaded
  <2>2. pending = {}
    BY <2>1 DEF GatewayInv, LockHeld, LoaderServes
  <2>3. i \notin calls
    BY <2>1, FieldNumbers DEF GatewayInv, GatewayTypeOK, FieldsUseSession
  <2> QED BY <2>1, <2>2, <2>3, GoOnKeeps
<1> QED BY <1>1, <1>2, <1>3, <1>4, <1>5, <1>6, <1>7 DEF GatewayStep

LEMMA GatewayInvariant == ReadSpec => []GatewayInv
<1>1. GatewayInv /\ UNCHANGED gateway => GatewayInv'
  BY DEF gateway, GatewayInv, GatewayTypeOK, LockHeld, FieldsUseSession, LoaderServes, Running,
         Answered, Statement, Task
<1>2. GatewayInv /\ [ReadNext]_<<vars, gateway>> => GatewayInv'
  BY <1>1, GatewayStepKeeps DEF ReadNext
<1> QED BY <1>2, GatewayStarts, PTL DEF ReadSpec, ReadInit

\* router.py shares one session among the fields of a request, which is safe: a
\* statement is under way for one task at most, although the loader takes no lock.
THEOREM OneTaskUsesTheSession == ReadSpec => []SessionUsedByOne
<1>1. GatewayInv => SessionUsedByOne
  <2> SUFFICES ASSUME GatewayInv PROVE \E task : calls \subseteq {task}
    <3>1. ASSUME NEW task, calls \subseteq {task} PROVE Cardinality(calls) \in {0, 1}
      <4>1. calls = {} \/ calls = {task}
        BY <3>1
      <4> QED BY <4>1, FS_EmptySet, FS_Singleton
    <3> QED BY <3>1 DEF SessionUsedByOne
  <2>1. CASE Loader \in calls
    BY <2>1 DEF GatewayInv, LockHeld, FieldsUseSession, LoaderServes, GatewayTypeOK, Task
  <2>2. CASE Loader \notin calls
    BY <2>2 DEF GatewayInv, LockHeld, FieldsUseSession, GatewayTypeOK, Task
  <2> QED BY <2>1, <2>2
<1> QED BY <1>1, GatewayInvariant, PTL
-----------------------------------------------------------------------------
(***************************************************************************)
(* What readers see.  A field reads the services, then their stops, then   *)
(* the traversal times, and the handlers write in between: what it ends up *)
(* with need never have been stored.  It is free of overlaps nonetheless,  *)
(* because the stops of all services are one statement, and because until  *)
(* then no service changes its vehicle and no id is given away twice.      *)
(***************************************************************************)

\* What the request handlers do not check: that a payload arrives at a stop when it has
\* left the node in front, or later.
AscendingRequests ==
  \A r \in Requests :
    r.op \in {"create", "update"} /\ r.stops # None /\ ~PayloadErrors(r.stops) =>
      LET tuples == SnapshotStops(r.stops, InitialTraversal)
      IN  \A i \in 2 .. Len(tuples) : tuples[i - 1].exit <= tuples[i].enter

\* The fields that answer with the timetable.
TimetableFields == {"schedule", "conflicts", "positions"}

\* Where they read the services: the stops are read next, then the traversal times.
RowsAt(field) == IF field = "positions" THEN 3 ELSE 1

\* Rows without their stops yet: whatever has been written since, no service has been
\* moved to another vehicle, and no id has gone to a new service.
RowsSelected(rows) ==
  /\ DOMAIN rows \subseteq ServiceId
  /\ \A s \in DOMAIN rows :
       /\ s <= begun
       /\ DOMAIN rows[s] = {"vehicle_id", "stops", "departure_battery"}
       /\ services[s] # None => services[s].vehicle_id = rows[s].vehicle_id
       /\ \A p \in Proc : Unwritten(p) /\ Creating(p) => ticket[p] # s

\* The stops of a request that is not answered with 422.
AcceptedPayload(stops) ==
  \E r \in Requests :
    /\ r.op \in {"create", "update"} /\ r.stops # None /\ ~PayloadErrors(r.stops)
    /\ stops = r.stops

\* Rows with stops, perhaps never stored together, and still free of overlaps.
RowsConsistent(rows) ==
  /\ DOMAIN rows \subseteq ServiceId
  /\ \A s \in DOMAIN rows : rows[s].stops = << >> \/ AcceptedPayload(StopsIn(rows[s]))
  /\ \A s, t \in DOMAIN rows :
       /\ s # t /\ rows[s].vehicle_id = rows[t].vehicle_id
       /\ << >> \notin {rows[s].stops, rows[t].stops}
       => ~_intervals_overlap(Span(StopsIn(rows[s])), Span(StopsIn(rows[t])))

\* The services of rows as the detectors and the positions take them.
Snapshot(rows, s) == SnapshotOf(s, rows[s], InitialTraversal)

\* A row without stops has no window.
LEMMA NoStopsNoTuples ==
  ASSUME NEW row, row.stops = << >>, NEW traversal
  PROVE  SnapshotStops(StopsIn(row), traversal) = << >>
<1>1. PICK stops : stops = StopsIn(row) /\ Len(stops) = 0
  BY DEF StopsIn
<1>2. SnapshotStops(stops, traversal) = Start.tuples
  BY <1>1, ExpansionOfNothing, ExpansionTuples
<1> QED BY <1>1, <1>2 DEF Start

\* An accepted payload runs forward: it starts at a stop, goes on through a block, which
\* takes time, and arrives nowhere before it has left the node in front.
LEMMA PayloadsRunForward ==
  ASSUME AscendingRequests, NEW row, AcceptedPayload(StopsIn(row)), NEW s
  PROVE  /\ Forward(SnapshotOf(s, row, InitialTraversal))
         /\ Len(SnapshotStops(StopsIn(row), InitialTraversal)) = Len(StopsIn(row))
<1>1. PICK r \in Requests :
        /\ r.op \in {"create", "update"} /\ r.stops # None /\ ~PayloadErrors(r.stops)
        /\ StopsIn(row) = r.stops
  BY DEF AcceptedPayload
<1>2. PICK stops, tuples : stops = StopsIn(row) /\ tuples = SnapshotStops(stops, InitialTraversal)
  OBVIOUS
<1>3. SchemaAccepts(stops) /\ Accepts(stops) /\ TimesTyped(stops)
  BY <1>1, <1>2, RequestStops, SchemaTyped DEF PayloadErrors, Accepts
<1>4. /\ Len(stops) \in Nat /\ Len(stops) >= 2 /\ DOMAIN stops = 1 .. Len(stops)
      /\ ~is_block(stops[1].node_id)
      /\ \A i \in DOMAIN stops : stops[i].node_id \in ALL_NODES
  BY <1>3, AcceptedStops, ParametersAssumption DEF TimesTyped
<1>5. RunsThrough(stops, InitialTraversal, tuples, Len(stops))
  BY <1>2, <1>3, PayloadRuns, ParametersAssumption
<1>6. /\ Len(tuples) = Len(stops) /\ DOMAIN tuples = 1 .. Len(stops)
      /\ \A i \in 1 .. Len(stops) : tuples[i].enter \in Nat /\ tuples[i].exit \in Nat
  <2> DEFINE Tuples == [node_id : {stops[i].node_id : i \in DOMAIN stops}, enter : Nat, exit : Nat]
  <2>1. tuples \in Seq(Tuples) /\ Len(tuples) = Len(stops)
    BY <1>5 DEF RunsThrough
  <2>2. DOMAIN tuples = 1 .. Len(stops) /\ \A i \in 1 .. Len(stops) : tuples[i] \in Tuples
    <3> HIDE DEF Tuples
    <3> QED BY <2>1
  <2> QED BY <2>1, <2>2
<1>7. \A i \in 1 .. Len(stops) : tuples[i].enter <= tuples[i].exit
  <2> SUFFICES ASSUME NEW i \in 1 .. Len(stops) PROVE tuples[i].enter <= tuples[i].exit
    OBVIOUS
  <2>1. CASE is_block(stops[i].node_id)
    <3>1. TraversalSeconds(stops[i].node_id, InitialTraversal) \in Nat
      BY ParametersAssumption DEF TraversalSeconds
    <3>2. tuples[i].exit = tuples[i].enter + TraversalSeconds(stops[i].node_id, InitialTraversal)
      BY <1>5, <2>1 DEF RunsThrough
    <3> QED BY <1>6, <3>1, <3>2
  <2>2. CASE ~is_block(stops[i].node_id)
    BY <1>5, <2>2 DEF RunsThrough
  <2> QED BY <2>1, <2>2
<1>8. is_block(stops[2].node_id)
  <2>1. /\ Len(NodesOf(stops)) = Len(stops) /\ UnknownNodes(NodesOf(stops)) = {}
        /\ NodesOf(stops)[1] = stops[1].node_id /\ NodesOf(stops)[2] = stops[2].node_id
    BY <1>4 DEF NodesOf, UnknownNodes
  <2>2. BadHops(NodesOf(stops)) = {}
    BY <1>3, <1>4, <2>1 DEF Accepts, validate_path
  <2>3. stops[2].node_id \in NextNodes(stops[1].node_id)
    BY <1>4, <2>1, <2>2 DEF BadHops
  <2>4. stops[1].node_id \in {"Y", "P1A", "P1B", "P2A", "P2B", "P3A", "P3B"}
    BY <1>4 DEF is_block, ALL_NODES, PLATFORMS, YARD
  <2> QED BY <2>3, <2>4, EdgesOfTrack DEF is_block, BLOCKS
<1>9. tuples[2].enter = tuples[1].exit /\ tuples[2].enter < tuples[2].exit
  <2>1. 2 \in 1 .. Len(stops) /\ 2 - 1 = 1
    BY <1>4
  <2>2. /\ tuples[2].enter = tuples[1].exit
        /\ tuples[2].exit = tuples[2].enter + TraversalSeconds(stops[2].node_id, InitialTraversal)
    BY <1>5, <1>8, <2>1 DEF RunsThrough
  <2>3. TraversalSeconds(stops[2].node_id, InitialTraversal) \in Nat \ {0}
    BY ParametersAssumption DEF TraversalSeconds
  <2> QED BY <1>6, <2>1, <2>2, <2>3
<1>10. \A i \in 1 .. Len(stops) : i > 1 => tuples[i - 1].exit <= tuples[i].enter
  BY <1>1, <1>2, <1>4, <1>6 DEF AscendingRequests
<1>11. SnapshotOf(s, row, InitialTraversal).stops = tuples
  BY <1>2 DEF SnapshotOf
<1> QED BY <1>2, <1>4, <1>6, <1>7, <1>9, <1>10, <1>11 DEF Forward

\* So the services of a vehicle run one after another in what was read.
LEMMA ConsistentRowsFollow ==
  ASSUME AscendingRequests, NEW rows, RowsConsistent(rows),
         NEW snaps, snaps = build_snapshots(rows, InitialTraversal), NEW v
  PROVE  OneAfterAnother({s \in snaps : s.vehicle_id = v})
<1>1. ASSUME NEW s \in DOMAIN rows, Snapshot(rows, s).stops # << >>
      PROVE  /\ Forward(Snapshot(rows, s)) /\ rows[s].stops # << >>
             /\ _snap_window(Snapshot(rows, s)) = Span(StopsIn(rows[s]))
  <2>1. rows[s].stops # << >>
    BY <1>1, NoStopsNoTuples DEF Snapshot, SnapshotOf
  <2>2. AcceptedPayload(StopsIn(rows[s]))
    BY <2>1 DEF RowsConsistent
  <2> QED BY <2>1, <2>2, PayloadsRunForward DEF Snapshot, SnapshotOf, _snap_window, Span
<1>2. ASSUME NEW s \in DOMAIN rows, NEW t \in DOMAIN rows, s # t,
             Snapshot(rows, s).stops # << >>, Snapshot(rows, t).stops # << >>,
             rows[s].vehicle_id = rows[t].vehicle_id
      PROVE  \/ _snap_window(Snapshot(rows, s)).exit <= _snap_window(Snapshot(rows, t)).enter
             \/ _snap_window(Snapshot(rows, t)).exit <= _snap_window(Snapshot(rows, s)).enter
  <2>1. ~_intervals_overlap(_snap_window(Snapshot(rows, s)), _snap_window(Snapshot(rows, t)))
    BY <1>1, <1>2 DEF RowsConsistent
  <2>2. Forward(Snapshot(rows, s)) /\ Forward(Snapshot(rows, t))
    BY <1>1, <1>2
  <2> QED BY <2>1, <2>2, WindowHolds DEF _intervals_overlap
<1>3. snaps = {Snapshot(rows, s) : s \in DOMAIN rows}
  BY DEF build_snapshots, Snapshot
<1>4. \A s \in DOMAIN rows : Snapshot(rows, s).vehicle_id = rows[s].vehicle_id
  BY DEF Snapshot, SnapshotOf
<1> QED BY <1>1, <1>2, <1>3, <1>4 DEF OneAfterAnother

\* GET /schedule/conflicts has no overlap to report.
LEMMA ConsistentConflicts ==
  ASSUME AscendingRequests, NEW rows, RowsConsistent(rows),
         NEW c \in detect_all_conflicts(build_snapshots(rows, InitialTraversal))
  PROVE  c.conflict_type # "vehicle_overlap"
<1> PICK snaps : snaps = build_snapshots(rows, InitialTraversal)
  OBVIOUS
<1>1. OverlapPairs({s \in snaps : s.stops # << >>}) = {}
  <2> SUFFICES ASSUME NEW a \in snaps, NEW b \in snaps, a.stops # << >>, b.stops # << >>,
                      a.service_id # b.service_id, a.vehicle_id = b.vehicle_id,
                      _intervals_overlap(_snap_window(a), _snap_window(b))
               PROVE  FALSE
    BY DEF OverlapPairs
  <2> PICK snaps_ : snaps_ = {s \in snaps : s.vehicle_id = a.vehicle_id}
    OBVIOUS
  <2>1. OneAfterAnother(snaps_) /\ a \in snaps_ /\ b \in snaps_
    BY ConsistentRowsFollow
  <2>2. /\ Forward(a) /\ Forward(b)
        /\ \/ _snap_window(a).exit <= _snap_window(b).enter
           \/ _snap_window(b).exit <= _snap_window(a).enter
    BY <2>1 DEF OneAfterAnother
  <2> QED BY <2>2, WindowHolds DEF _intervals_overlap
<1>2. CASE c \in detect_vehicle_conflicts(snaps)
  <2> DEFINE timed == {s \in snaps : s.stops # << >>}
             gaps  == {p \in SuccessivePairs(timed) :
                         /\ ~_intervals_overlap(_snap_window(p[1]), _snap_window(p[2]))
                         /\ LastNode(p[1]) # FirstNode(p[2])}
             Of(type, p) == Conflict(type, {p[1].service_id, p[2].service_id}, {})
  <2>1. detect_vehicle_conflicts(snaps) =
          {Of("vehicle_overlap", p) : p \in OverlapPairs(timed)}
            \cup {Of("vehicle_discontinuity", p) : p \in gaps}
    BY Zenon DEF detect_vehicle_conflicts
  <2>2. \A p : Of("vehicle_discontinuity", p).conflict_type # "vehicle_overlap"
    BY DEF Conflict
  <2> HIDE DEF gaps, Of
  <2> QED BY <1>1, <1>2, <2>1, <2>2
<1>3. CASE c \in detect_block_conflicts(snaps)
  BY <1>3 DEF detect_block_conflicts, Conflict
<1>4. ASSUME NEW s, c \in detect_battery_conflicts(s) PROVE c.conflict_type # "vehicle_overlap"
  BY <1>4 DEF detect_battery_conflicts, Conflict
<1> QED BY <1>2, <1>3, <1>4 DEF detect_all_conflicts

\* The positions show every vehicle as one thing.
LEMMA ConsistentPositions ==
  ASSUME AscendingRequests, NEW rows, RowsConsistent(rows), NEW base, NEW v \in DOMAIN base,
         NEW t \in Nat, NEW mode
  PROVE  Cardinality(compute_positions_at(t, base, build_snapshots(rows, InitialTraversal), mode)[v]) = 1
<1>1. PICK all, snaps : /\ all = build_snapshots(rows, InitialTraversal)
                        /\ snaps = {s \in all : s.vehicle_id = v}
  OBVIOUS
<1>2. OneAfterAnother(snaps)
  BY <1>1, ConsistentRowsFollow
<1>3. ShownAsOne(v, t, base, all, mode)
  BY <1>1, <1>2, ShownInOnePlace
<1> QED BY <1>1, <1>3, FS_Singleton DEF ShownAsOne
-----------------------------------------------------------------------------
(* What the handlers change under a reader *)

\* A row belongs to the vehicle it belonged to before, or has just been created.
LEMMA VehiclesKept ==
  ASSUME OrdinaryRequests, OverlapInv, [Next]_vars, NEW s \in ServiceId, services'[s] # None
  PROVE  \/ services[s] # None /\ services'[s].vehicle_id = services[s].vehicle_id
         \/ \E p \in Proc : Unwritten(p) /\ Creating(p) /\ ticket[p] = s
<1> USE DEF OverlapInv, RowsInv, TypeInv, TypeOK
<1>1. ASSUME NEW p \in Proc, CommitCreate(p)
      PROVE  s = ticket[p] \/ services'[s] = services[s]
  BY <1>1 DEF CommitCreate
<1>2. ASSUME NEW p \in Proc, CommitUpdate(p), ~Refuse(p, 500)
      PROVE  services[s] # None /\ services'[s].vehicle_id = services[s].vehicle_id
  <2> DEFINE u == req[p].service_id
  <2>1. /\ services[u] # None /\ u \in ServiceId /\ req[p].op = "update"
        /\ services' = [services EXCEPT ![u] = UpdatedRow(p)]
    BY <1>2, UpdateCommits DEF OrdinaryRequests
  <2>2. ~Reassigning(p)
    BY <1>2, <2>1 DEF OrdinaryRequests, Reassigning, Phases, CommitUpdate
  <2>3. UpdatedRow(p).vehicle_id = services[u].vehicle_id
    BY <2>2 DEF UpdatedRow
  <2> QED BY <2>1, <2>3
<1>3. ASSUME NEW p \in Proc, CascadeAndCommit(p) PROVE services'[s] = services[s]
  BY <1>3 DEF CascadeAndCommit
<1>4. ASSUME NEW p \in Proc, Begin(p) \/ Step(p), ~CommitCreate(p), ~CascadeAndCommit(p),
             CommitUpdate(p) => Refuse(p, 500)
      PROVE  services' = services
  <2>1. CASE \/ Begin(p) \/ LoadService(p) \/ LoadStops(p) \/ LockVehicle(p)
             \/ ReadTraversal(p) \/ WipeConsume(p) \/ ResumeWipe(p) \/ ReadBattery(p)
             \/ CheckSiblings(p)
    BY <2>1 DEF Begin, LoadService, LoadStops, LockVehicle, ReadTraversal, WipeConsume,
                ResumeWipe, ReadBattery, CheckSiblings, Refuse, tables
  <2>2. CASE \/ ReloadService(p) \/ DeleteServiceRow(p) \/ DeadlockAbort(p) \/ ReadLevel(p)
             \/ AdjustLevel(p) \/ CountServices(p) \/ RemoveVehicle(p) \/ UpdateBlock(p)
    BY <2>2 DEF ReloadService, DeleteServiceRow, DeadlockAbort, ReadLevel, AdjustLevel,
                CountServices, RemoveVehicle, UpdateBlock, Refuse, tables
  <2> QED BY <1>4, <2>1, <2>2 DEF Step, Refuse, tables
<1>5. ASSUME NEW p \in Proc, CommitCreate(p) PROVE Unwritten(p) /\ Creating(p)
  BY <1>5 DEF CommitCreate, Unwritten
<1>6. ASSUME UNCHANGED vars PROVE services' = services
  BY <1>6 DEF vars, tables
<1> QED BY <1>1, <1>2, <1>3, <1>4, <1>5, <1>6 DEF Next, Served

\* A handler about to create a service has had its number before, or gets a new one.
LEMMA CreatorsKept ==
  ASSUME TypeInv, [Next]_vars
  PROVE  /\ begun <= begun'
         /\ \A q \in Proc : Unwritten(q)' /\ Creating(q)' =>
              \/ Unwritten(q) /\ Creating(q) /\ ticket'[q] = ticket[q]
              \/ ticket'[q] = begun + 1
<1> DEFINE Kept(q) == Unwritten(q)' /\ Creating(q)' =>
             \/ Unwritten(q) /\ Creating(q) /\ ticket'[q] = ticket[q]
             \/ ticket'[q] = begun + 1
<1>1. begun \in Nat
  BY ParametersAssumption DEF TypeInv, TypeOK
<1>2. ASSUME NEW p \in Proc, Begin(p) PROVE begun <= begun' /\ \A q \in Proc : Kept(q)
  BY <1>1, <1>2 DEF Begin, Unwritten, Creating, Goto, TypeInv, TypeOK
<1>3. ASSUME NEW p \in Proc, NEW status, Answer(p, status)
      PROVE  begun <= begun' /\ \A q \in Proc : Kept(q)
  BY <1>1, <1>3, AnswerWaits, OthersTargets DEF OthersWait, Unwritten
<1>4. ASSUME NEW p \in Proc, NEW label, Goto(p, label), UNCHANGED request, pc[p] \notin {"idle", "reload"}
      PROVE  begun <= begun' /\ \A q \in Proc : Kept(q)
  BY <1>1, <1>4 DEF Goto, request, Unwritten, Creating, TypeInv, TypeOK
<1>5. ASSUME NEW p \in Proc, Step(p)
      PROVE  \/ \E status : Answer(p, status)
             \/ \E label : Goto(p, label) /\ UNCHANGED request /\ pc[p] \notin {"idle", "reload"}
  <2>1. CASE LoadService(p) \/ LoadStops(p) \/ LockVehicle(p) \/ ReadTraversal(p) \/ WipeConsume(p)
    BY <2>1 DEF LoadService, LoadStops, LockVehicle, ReadTraversal, WipeConsume, Refuse
  <2>2. CASE ResumeWipe(p) \/ ReadBattery(p) \/ CheckSiblings(p) \/ CommitCreate(p)
    BY <2>2 DEF ResumeWipe, ReadBattery, CheckSiblings, CommitCreate, Refuse
  <2>3. CASE CommitUpdate(p) \/ ReloadService(p) \/ DeleteServiceRow(p) \/ CascadeAndCommit(p)
    BY <2>3 DEF CommitUpdate, ReloadService, DeleteServiceRow, CascadeAndCommit, Refuse
  <2>4. CASE DeadlockAbort(p) \/ ReadLevel(p) \/ AdjustLevel(p) \/ CountServices(p)
    BY <2>4 DEF DeadlockAbort, ReadLevel, AdjustLevel, CountServices, Refuse
  <2>5. CASE RemoveVehicle(p) \/ UpdateBlock(p)
    BY <2>5 DEF RemoveVehicle, UpdateBlock, Refuse
  <2> QED BY <1>5, <2>1, <2>2, <2>3, <2>4, <2>5 DEF Step
<1>6. ASSUME UNCHANGED vars PROVE begun <= begun' /\ \A q \in Proc : Kept(q)
  BY <1>1, <1>6 DEF vars, request, Unwritten, Creating
<1> HIDE DEF Kept
<1>7. begun <= begun' /\ \A q \in Proc : Kept(q)
  BY <1>2, <1>3, <1>4, <1>5, <1>6 DEF Next, Served
<1> QED BY <1>7 DEF Kept

\* What is selected stays true of the rows, whatever is written.
LEMMA SelectedKept ==
  ASSUME OrdinaryRequests, OverlapInv, [Next]_vars, NEW rows, RowsSelected(rows)
  PROVE  RowsSelected(rows)'
<1>1. TypeInv /\ begun \in Nat
  BY ParametersAssumption DEF OverlapInv, RowsInv, TypeInv, TypeOK
<1> SUFFICES ASSUME NEW s \in DOMAIN rows
             PROVE  /\ s <= begun'
                    /\ services'[s] # None => services'[s].vehicle_id = rows[s].vehicle_id
                    /\ \A p \in Proc : Unwritten(p)' /\ Creating(p)' => ticket'[p] # s
  BY DEF RowsSelected
<1>2. /\ s \in ServiceId /\ s \in Nat /\ s <= begun
      /\ services[s] # None => services[s].vehicle_id = rows[s].vehicle_id
      /\ \A p \in Proc : Unwritten(p) /\ Creating(p) => ticket[p] # s
  BY DEF RowsSelected, ServiceId
<1>3. s <= begun'
  <2>1. begun' \in Nat
    BY <1>1, TypeStep, ParametersAssumption DEF TypeInv, TypeOK
  <2> QED BY <1>1, <1>2, <2>1, CreatorsKept
<1>4. services'[s] # None => services'[s].vehicle_id = rows[s].vehicle_id
  BY <1>2, VehiclesKept
<1>5. \A p \in Proc : Unwritten(p)' /\ Creating(p)' => ticket'[p] # s
  BY <1>1, <1>2, CreatorsKept
<1> QED BY <1>3, <1>4, <1>5

LEMMA ServicesSelected == OverlapInv => RowsSelected(SelectServices)
<1> SUFFICES ASSUME OverlapInv, NEW s \in Live
             PROVE  /\ s <= begun
                    /\ DOMAIN services[s] = {"vehicle_id", "stops", "departure_battery"}
                    /\ \A p \in Proc : Unwritten(p) /\ Creating(p) => ticket[p] # s
  BY DEF SelectServices, RowsSelected, Live
<1> QED BY DEF OverlapInv, RowsInv, TypeInv, TypeOK, IsRow, KeysUnique, Live

\* The stops, read in one statement, make rows of them that are free of overlaps.
LEMMA StopsConsistent ==
  ASSUME OverlapInv, NEW rows, RowsSelected(rows)
  PROVE  RowsConsistent(SelectStops(rows))
<1> PICK got : got = SelectStops(rows)
  OBVIOUS
<1>1. /\ DOMAIN got = DOMAIN rows /\ DOMAIN got \subseteq ServiceId
      /\ \A s \in DOMAIN got :
           /\ got[s].vehicle_id = rows[s].vehicle_id
           /\ got[s].stops = IF services[s] = None THEN << >> ELSE services[s].stops
           /\ services[s] # None => services[s].vehicle_id = rows[s].vehicle_id
  BY DEF SelectStops, StoredStops, RowsSelected
<1>2. ASSUME NEW s \in DOMAIN got, got[s].stops # << >>
      PROVE  /\ s \in Timed /\ services[s].vehicle_id = got[s].vehicle_id
             /\ StopsIn(got[s]) = StopsIn(services[s])
             /\ AcceptedPayload(StopsIn(got[s]))
             /\ Window(s) = Span(StopsIn(got[s]))
  <2>1. s \in Live /\ got[s].stops = services[s].stops /\ services[s].vehicle_id = got[s].vehicle_id
    BY <1>1, <1>2 DEF Live
  <2>2. StopsIn(got[s]) = StopsIn(services[s])
    BY <2>1 DEF StopsIn
  <2>3. AcceptedPayload(StopsIn(services[s]))
    <3>1. PICK b \in 1 .. begun, r \in Requests :
            /\ r.op \in {"create", "update"} /\ r.stops # None /\ ~PayloadErrors(r.stops)
            /\ services[s].stops = StopRows(b, r.stops)
      BY <2>1 DEF OverlapInv, RowsInv, RowsWhole, Whole
    <3>2. StopsIn(services[s]) = r.stops
      BY <3>1, RequestStops, StopsReadBack
    <3> QED BY <3>1, <3>2 DEF AcceptedPayload
  <2>4. s \in Timed
    BY <2>1, RowsTimed DEF OverlapInv
  <2>5. Window(s) = Span(StopsIn(services[s]))
    BY DEF OverlapInv, TraversalFixed, Window, SnapshotOf, _snap_window, Span
  <2> QED BY <2>1, <2>2, <2>3, <2>4, <2>5
<1>3. ASSUME NEW s \in DOMAIN got, NEW t \in DOMAIN got, s # t,
             got[s].vehicle_id = got[t].vehicle_id, got[s].stops # << >>, got[t].stops # << >>
      PROVE  ~_intervals_overlap(Span(StopsIn(got[s])), Span(StopsIn(got[t])))
  <2>1. ~_intervals_overlap(Window(s), Window(t))
    BY <1>2, <1>3 DEF OverlapInv, NoVehicleOverlap
  <2> QED BY <1>2, <1>3, <2>1
<1> QED BY <1>1, <1>2, <1>3 DEF RowsConsistent
-----------------------------------------------------------------------------
(* The list of GET /schedule *)

Ahead(rows, s) == {r \in DOMAIN rows : ListedBefore(rows, r, s)}

\* Every row is in the list once, at the place that its departure and its id give it.
LEMMA ListInOrder ==
  ASSUME NEW rows, DOMAIN rows \subseteq ServiceId,
         \A s \in DOMAIN rows : first_departure(rows[s]) \in Int,
         NEW m \in DOMAIN get_schedule(rows), NEW n \in DOMAIN get_schedule(rows), m < n
  PROVE  /\ get_schedule(rows)[m] \in DOMAIN rows /\ get_schedule(rows)[n] \in DOMAIN rows
         /\ ListedBefore(rows, get_schedule(rows)[m], get_schedule(rows)[n])
<1> PICK S : S = DOMAIN rows
  OBVIOUS
<1> DEFINE Rank(s) == Cardinality(Ahead(rows, s))
           N == Cardinality(S)
<1>1. S \subseteq Nat /\ IsFiniteSet(S) /\ N \in Nat
  <2>1. ServiceId \subseteq Nat /\ IsFiniteSet(ServiceId)
    BY FS_Interval, ParametersAssumption DEF ServiceId
  <2>2. S \subseteq Nat /\ IsFiniteSet(S)
    BY <2>1, FS_Subset
  <2> QED BY <2>2, FS_CardinalityType
<1>2. \A r, s, t \in S : /\ ~ListedBefore(rows, s, s)
                         /\ ListedBefore(rows, r, s) /\ ListedBefore(rows, s, t)
                              => ListedBefore(rows, r, t)
                         /\ r # s => ListedBefore(rows, r, s) \/ ListedBefore(rows, s, r)
  BY <1>1 DEF ListedBefore
<1>3. ASSUME NEW s \in S
      PROVE  /\ IsFiniteSet(Ahead(rows, s)) /\ Rank(s) \in 0 .. N - 1
  <2>1. Ahead(rows, s) \in SUBSET S /\ s \notin Ahead(rows, s)
    BY <1>2 DEF Ahead
  <2>2. IsFiniteSet(Ahead(rows, s)) /\ Rank(s) <= N /\ (N = Rank(s) => S = Ahead(rows, s))
    BY <1>1, <2>1, FS_Subset
  <2>3. Rank(s) \in Nat
    BY <2>2, FS_CardinalityType
  <2> QED BY <1>1, <2>1, <2>2, <2>3
<1>4. ASSUME NEW r \in S, NEW s \in S, ListedBefore(rows, r, s) PROVE Rank(r) < Rank(s)
  <2>1. Ahead(rows, r) \in SUBSET Ahead(rows, s) /\ r \in Ahead(rows, s) \ Ahead(rows, r)
    BY <1>2, <1>4 DEF Ahead
  <2>2. Rank(r) <= Rank(s) /\ (Rank(s) = Rank(r) => Ahead(rows, s) = Ahead(rows, r))
    BY <1>3, <2>1, FS_Subset
  <2> QED BY <1>1, <1>3, <2>1, <2>2
<1>5. \A r, s \in S : r # s => Rank(r) # Rank(s)
  <2> SUFFICES ASSUME NEW r \in S, NEW s \in S, r # s PROVE Rank(r) # Rank(s)
    OBVIOUS
  <2>1. Rank(r) \in Int /\ Rank(s) \in Int
    BY <1>1, <1>3
  <2> HIDE DEF Rank
  <2> QED BY <1>2, <1>4, <2>1
<1>6. ASSUME NEW k \in 0 .. N - 1 PROVE \E s \in S : Rank(s) = k
  <2> SUFFICES ASSUME \A s \in S : Rank(s) # k PROVE FALSE
    OBVIOUS
  <2> DEFINE T == (0 .. N - 1) \ {k}
             rank == [s \in S |-> Rank(s)]
  <2>1. IsFiniteSet(T) /\ Cardinality(T) < Cardinality(S)
    <3>1. IsFiniteSet(0 .. N - 1) /\ Cardinality(0 .. N - 1) = N
      BY <1>1, FS_Interval
    <3>2. IsFiniteSet(T) /\ Cardinality(T) = N - 1
      BY <3>1, FS_RemoveElement
    <3> QED BY <1>1, <3>2
  <2>2. rank \in [S -> T]
    BY <1>3
  <2>3. \E r, s \in S : r # s /\ rank[r] = rank[s]
    <3> HIDE DEF T, rank
    <3> QED BY <1>1, <2>1, <2>2, FS_PigeonHole
  <2> HIDE DEF Rank
  <2> QED BY <1>5, <2>3
<1>7. ASSUME NEW k \in 1 .. N
      PROVE  get_schedule(rows)[k] \in S /\ Rank(get_schedule(rows)[k]) = k - 1
  <2>1. get_schedule(rows)[k] = CHOOSE s \in S : Rank(s) = k - 1
    BY <1>7 DEF get_schedule, Ahead
  <2>2. \E s \in S : Rank(s) = k - 1
    BY <1>1, <1>6
  <2> HIDE DEF Rank
  <2> QED BY <2>1, <2>2
<1>8. m \in 1 .. N /\ n \in 1 .. N
  BY DEF get_schedule
<1>9. PICK a, b : a = get_schedule(rows)[m] /\ b = get_schedule(rows)[n]
  OBVIOUS
<1>10. a \in S /\ b \in S /\ Rank(a) = m - 1 /\ Rank(b) = n - 1
  BY <1>7, <1>8, <1>9
<1>11. ~ListedBefore(rows, b, a) /\ a # b
  <2> HIDE DEF Rank
  <2> QED BY <1>1, <1>4, <1>8, <1>10
<1> QED BY <1>2, <1>9, <1>10, <1>11

\* A service departs first where it leaves its first stop.
LEMMA FirstDeparture ==
  ASSUME NEW row, row.stops = << >> \/ AcceptedPayload(StopsIn(row))
  PROVE  /\ first_departure(row) \in Int
         /\ row.stops # << >> =>
              first_departure(row) = SnapshotStops(StopsIn(row), InitialTraversal)[1].exit
<1> DEFINE departing == {i \in DOMAIN row.stops : row.stops[i].stop.departure_time # None}
<1>1. CASE row.stops = << >>
  BY <1>1 DEF first_departure, FAR_PAST
<1>2. CASE AcceptedPayload(StopsIn(row))
  <2>1. PICK r \in Requests :
          /\ r.op \in {"create", "update"} /\ r.stops # None /\ ~PayloadErrors(r.stops)
          /\ StopsIn(row) = r.stops
    BY <1>2 DEF AcceptedPayload
  <2>2. PICK stops, tuples : stops = StopsIn(row) /\ tuples = SnapshotStops(stops, InitialTraversal)
    OBVIOUS
  <2>3. SchemaAccepts(stops) /\ Accepts(stops) /\ TimesTyped(stops)
    BY <2>1, <2>2, RequestStops, SchemaTyped DEF PayloadErrors, Accepts
  <2>4. /\ 1 \in DOMAIN stops /\ DOMAIN stops \subseteq Nat \ {0} /\ ~is_block(stops[1].node_id)
        /\ stops[1].departure_time # None /\ stops[1].departure_time \in Nat
        /\ Len(stops) \in Nat /\ 1 \in 1 .. Len(stops)
    BY <2>3, AcceptedStops DEF TimesTyped
  <2>5. tuples[1].exit = stops[1].departure_time
    <3>1. RunsThrough(stops, InitialTraversal, tuples, Len(stops))
      BY <2>2, <2>3, PayloadRuns, ParametersAssumption
    <3> QED BY <2>4, <3>1 DEF RunsThrough
  <2>6. DOMAIN row.stops = DOMAIN stops /\ \A i \in DOMAIN stops : row.stops[i].stop = stops[i]
    BY <2>2 DEF StopsIn
  <2>7. 1 \in departing /\ departing \subseteq Nat \ {0}
    BY <2>4, <2>6
  <2>8. Min(departing) = 1
    <3> HIDE DEF departing
    <3>1. \A y \in departing : 1 <= y
      BY <2>7
    <3>2. \A x \in departing : (\A y \in departing : x <= y) => x = 1
      BY <2>7
    <3> QED BY <2>7, <3>1, <3>2 DEF Min
  <2>9. first_departure(row) = row.stops[1].stop.departure_time
    <3>1. first_departure(row) = IF departing = {} THEN FAR_PAST
                                 ELSE row.stops[Min(departing)].stop.departure_time
      BY DEF first_departure
    <3> HIDE DEF departing
    <3> QED BY <2>7, <2>8, <3>1
  <2> QED BY <2>2, <2>4, <2>5, <2>6, <2>9
<1> QED BY <1>1, <1>2

\* It leaves it before another service of the vehicle does that starts later, because it
\* is over by then.
LEMMA ListedAsDriven ==
  ASSUME AscendingRequests, NEW rows, RowsConsistent(rows),
         NEW r \in DOMAIN rows, NEW s \in DOMAIN rows, ListedBefore(rows, r, s),
         rows[r].vehicle_id = rows[s].vehicle_id,
         Snapshot(rows, r).stops # << >>, Snapshot(rows, s).stops # << >>
  PROVE  StartsBefore(Snapshot(rows, r), Snapshot(rows, s))
<1>1. ASSUME NEW u \in DOMAIN rows, Snapshot(rows, u).stops # << >>
      PROVE  /\ rows[u].stops # << >> /\ Forward(Snapshot(rows, u))
             /\ _snap_window(Snapshot(rows, u)) = Span(StopsIn(rows[u]))
             /\ first_departure(rows[u]) = Snapshot(rows, u).stops[1].exit
  <2>1. rows[u].stops # << >>
    BY <1>1, NoStopsNoTuples DEF Snapshot, SnapshotOf
  <2>2. AcceptedPayload(StopsIn(rows[u]))
    BY <2>1 DEF RowsConsistent
  <2>3. Forward(Snapshot(rows, u))
    BY <2>2, PayloadsRunForward DEF Snapshot
  <2> QED BY <2>1, <2>2, <2>3, FirstDeparture DEF Snapshot, SnapshotOf, _snap_window, Span
<1>2. PICK a, b : a = Snapshot(rows, r) /\ b = Snapshot(rows, s)
  OBVIOUS
<1>3. Forward(a) /\ Forward(b)
  BY <1>1, <1>2
<1>4. r # s
  <2>1. first_departure(rows[r]) \in Int /\ r \in Nat
    BY FirstDeparture, ParametersAssumption DEF RowsConsistent, ServiceId
  <2> QED BY <2>1 DEF ListedBefore
<1>5. ~_intervals_overlap(_snap_window(a), _snap_window(b))
  BY <1>1, <1>2, <1>4 DEF RowsConsistent
<1>6. a.stops[1].exit <= b.stops[1].exit
  <2>1. a.stops[1].exit \in Nat /\ b.stops[1].exit \in Nat
    BY <1>3 DEF Forward
  <2>2. \/ a.stops[1].exit < b.stops[1].exit
        \/ a.stops[1].exit = b.stops[1].exit
    BY <1>1, <1>2 DEF ListedBefore
  <2> QED BY <2>1, <2>2
<1>7. ASSUME NEW c, Forward(c)
      PROVE  /\ _snap_window(c).enter \in Nat /\ _snap_window(c).exit \in Nat
             /\ c.stops[1].exit \in Nat
             /\ _snap_window(c).enter <= c.stops[1].exit
             /\ c.stops[1].exit < _snap_window(c).exit
  <2>1. 1 \in DOMAIN c.stops /\ 2 \in DOMAIN c.stops
    BY <1>7 DEF Forward
  <2>2. /\ c.stops[1].enter \in Nat /\ c.stops[1].exit \in Nat
        /\ c.stops[2].enter \in Nat /\ c.stops[2].exit \in Nat
        /\ c.stops[1].enter <= c.stops[1].exit
        /\ c.stops[1].exit < c.stops[2].exit
    BY <1>7, <2>1 DEF Forward
  <2>3. /\ _snap_window(c).enter \in Nat /\ _snap_window(c).exit \in Nat
        /\ _snap_window(c).enter <= c.stops[1].enter
        /\ c.stops[2].exit <= _snap_window(c).exit
    BY <1>7, <2>1, WindowHolds
  <2> QED BY <2>2, <2>3
<1>8. _snap_window(a).exit <= _snap_window(b).enter
  <2>1. /\ _snap_window(a).enter \in Nat /\ _snap_window(a).exit \in Nat
        /\ _snap_window(b).enter \in Nat /\ _snap_window(b).exit \in Nat
        /\ a.stops[1].exit \in Nat /\ b.stops[1].exit \in Nat
        /\ b.stops[1].exit < _snap_window(b).exit
        /\ _snap_window(a).enter <= a.stops[1].exit
    BY <1>3, <1>7
  <2>2. ~(_snap_window(b).exit <= _snap_window(a).enter)
    BY <1>6, <2>1
  <2> QED BY <1>5, <2>1, <2>2 DEF _intervals_overlap
<1>9. _snap_window(a).enter < _snap_window(b).enter
  <2>1. /\ _snap_window(a).enter \in Nat /\ _snap_window(a).exit \in Nat
        /\ _snap_window(b).enter \in Nat
        /\ _snap_window(a).enter < _snap_window(a).exit
    BY <1>3, WindowHolds
  <2> QED BY <1>8, <2>1
<1> QED BY <1>2, <1>9 DEF StartsBefore
-----------------------------------------------------------------------------
(* What the fields answer *)

\* What NoReaderSeesAnOverlap and ScheduleInRunningOrder say of one answer.
Sound(field, answer) ==
  /\ field = "conflicts" => \A c \in answer : c.conflict_type # "vehicle_overlap"
  /\ field = "positions" => \A v \in DOMAIN answer : Cardinality(answer[v]) = 1
  /\ field = "schedule" =>
       LET rows  == answer.rows
           order == answer.order
           snap  == [n \in DOMAIN order |-> SnapshotOf(order[n], rows[order[n]], InitialTraversal)]
       IN  \A m, n \in DOMAIN order :
             (/\ m < n /\ snap[m].vehicle_id = snap[n].vehicle_id
              /\ << >> \notin {snap[m].stops, snap[n].stops})
             => StartsBefore(snap[m], snap[n])

LEMMA ConsistentSchedule ==
  ASSUME AscendingRequests, NEW got, RowsConsistent(got.rows)
  PROVE  Sound("schedule", schedule(got))
<1> PICK rows, order : rows = got.rows /\ order = get_schedule(rows)
  OBVIOUS
<1>1. schedule(got).rows = rows /\ schedule(got).order = order
  BY DEF schedule
<1>2. ASSUME NEW m \in DOMAIN order, NEW n \in DOMAIN order, m < n,
             Snapshot(rows, order[m]).vehicle_id = Snapshot(rows, order[n]).vehicle_id,
             Snapshot(rows, order[m]).stops # << >>, Snapshot(rows, order[n]).stops # << >>
      PROVE  StartsBefore(Snapshot(rows, order[m]), Snapshot(rows, order[n]))
  <2>1. \A s \in DOMAIN rows : first_departure(rows[s]) \in Int
    BY FirstDeparture DEF RowsConsistent
  <2>2. /\ order[m] \in DOMAIN rows /\ order[n] \in DOMAIN rows
        /\ ListedBefore(rows, order[m], order[n])
    BY <1>2, <2>1, ListInOrder DEF RowsConsistent
  <2>3. rows[order[m]].vehicle_id = rows[order[n]].vehicle_id
    BY <1>2 DEF Snapshot, SnapshotOf
  <2> QED BY <1>2, <2>2, <2>3, ListedAsDriven
<1> QED BY <1>1, <1>2 DEF Sound, Snapshot

\* A field that ends up with consistent rows, and with the traversal times that the
\* handlers checked with, answers what can be driven.
LEMMA ConsistentAnswers ==
  ASSUME AscendingRequests, NEW field, NEW got,
         field \in TimetableFields => RowsConsistent(got.rows),
         field \in {"conflicts", "positions"} => got.traversal = InitialTraversal
  PROVE  Sound(field, AnswerOf(field, got))
<1>1. CASE field = "schedule"
  <2>1. AnswerOf(field, got) = schedule(got)
    BY <1>1 DEF AnswerOf
  <2> QED BY <1>1, <2>1, ConsistentSchedule DEF TimetableFields
<1>2. CASE field = "conflicts"
  <2>1. AnswerOf(field, got) = conflicts(got)
    BY <1>2 DEF AnswerOf
  <2>2. conflicts(got) = detect_all_conflicts(build_snapshots(got.rows, InitialTraversal))
    BY <1>2 DEF conflicts
  <2>3. \A c \in conflicts(got) : c.conflict_type # "vehicle_overlap"
    BY <1>2, <2>2, ConsistentConflicts DEF TimetableFields
  <2> QED BY <1>2, <2>1, <2>3 DEF Sound
<1>3. CASE field = "positions"
  <2>1. AnswerOf(field, got) = positions(got)
    BY <1>3 DEF AnswerOf
  <2>2. positions(got) = compute_positions_at(At, got.levels,
                           build_snapshots(got.rows, InitialTraversal), "strict")
    BY <1>3 DEF positions
  <2>3. DOMAIN positions(got) = DOMAIN got.levels
    BY DEF positions, compute_positions_at
  <2>4. \A v \in DOMAIN got.levels : Cardinality(positions(got)[v]) = 1
    BY <1>3, <2>2, ConsistentPositions, GatewayAssumption DEF TimetableFields
  <2> QED BY <1>3, <2>1, <2>3, <2>4 DEF Sound
<1> QED BY <1>1, <1>2, <1>3 DEF Sound

Parts == {"vehicles", "levels", "rows", "traversal"}

ReadTyped ==
  /\ DOMAIN answers = DOMAIN query
  /\ \A i \in DOMAIN query : DOMAIN read[i] = Parts

\* What a field knows of the timetable, between its statements.
FieldKnows(i) ==
  query[i] \in TimetableFields /\ Running(i) =>
    /\ at[i] = RowsAt(query[i]) + 1 => RowsSelected(read[i].rows)
    /\ at[i] = RowsAt(query[i]) + 2 => RowsConsistent(read[i].rows)

FieldsKnow == \A i \in DOMAIN query : FieldKnows(i)

AnswersSound == \A i \in DOMAIN query : Answered(i) => Sound(query[i], answers[i])

ReadersKnow == ReadTyped /\ FieldsKnow /\ AnswersSound

\* What a field gets from the statement it is at, for the timetable.
Gets(i, got) ==
  /\ DOMAIN got = Parts
  /\ query[i] \in TimetableFields =>
       /\ at[i] = RowsAt(query[i]) => RowsSelected(got.rows)
       /\ at[i] = RowsAt(query[i]) + 1 => RowsConsistent(got.rows)
       /\ at[i] = RowsAt(query[i]) + 2 =>
            RowsConsistent(got.rows) /\ got.traversal = InitialTraversal

\* The statements that a timetable is read with.
LEMMA TimetableStatements ==
  ASSUME NEW field \in TimetableFields
  PROVE  /\ RowsAt(field) \in Nat \ {0}
         /\ Len(Statements(field)) = IF field = "schedule" THEN RowsAt(field) + 1
                                     ELSE RowsAt(field) + 2
         /\ Statements(field)[RowsAt(field)] = "services"
         /\ Statements(field)[RowsAt(field) + 1] = "stops"
         /\ field # "schedule" => Statements(field)[RowsAt(field) + 2] = "traversal"
         /\ \A k \in 1 .. RowsAt(field) - 1 : Statements(field)[k] \in {"vehicles", "base"}
<1>1. CASE field = "schedule"
  <2>1. Statements(field) = <<"services", "stops">>
    BY <1>1 DEF Statements
  <2> QED BY <1>1, <2>1 DEF RowsAt
<1>2. CASE field = "conflicts"
  <2>1. Statements(field) = <<"services", "stops", "traversal">>
    BY <1>2 DEF Statements
  <2> QED BY <1>2, <2>1 DEF RowsAt
<1>3. CASE field = "positions"
  <2>1. Statements(field) = <<"vehicles", "base", "services", "stops", "traversal">>
    BY <1>3 DEF Statements
  <2> QED BY <1>3, <2>1 DEF RowsAt
<1> QED BY <1>1, <1>2, <1>3 DEF TimetableFields

\* No field runs any other statement.
LEMMA StatementsKnown ==
  ASSUME NEW field \in Fields, NEW k \in 1 .. Len(Statements(field))
  PROVE  Statements(field)[k] \in {"vehicles", "load_levels", "levels", "base", "services",
                                   "stops", "traversal"}
<1>1. CASE field = "vehicles"
  <2>1. Statements(field) = <<"vehicles", "load_levels">>
    BY <1>1 DEF Statements
  <2> QED BY <2>1
<1>2. CASE field = "list_vehicles"
  <2>1. Statements(field) = <<"vehicles", "levels">>
    BY <1>2 DEF Statements
  <2> QED BY <2>1
<1>3. CASE field = "services"
  <2>1. Statements(field) = <<"services", "stops">>
    BY <1>3 DEF Statements
  <2> QED BY <2>1
<1>4. CASE field \in {"blocks", "topology"}
  <2>1. Statements(field) = <<"traversal">>
    BY <1>4 DEF Statements
  <2> QED BY <2>1
<1>5. CASE field \in TimetableFields
  BY <1>5, TimetableStatements DEF TimetableFields, RowsAt
<1> QED BY <1>1, <1>2, <1>3, <1>4, <1>5 DEF Fields, TimetableFields

\* A statement returns what is committed then, which is free of overlaps.
LEMMA StatementGets ==
  ASSUME OverlapInv, GatewayInv, ReadersKnow, NEW i \in DOMAIN query, Running(i),
         Statement(i) # "load_levels"
  PROVE  Gets(i, Returned(i))
<1> PICK got, field : got = Returned(i) /\ field = query[i]
  OBVIOUS
<1>1. DOMAIN read[i] = Parts
  BY DEF ReadersKnow, ReadTyped
<1>2. /\ field \in Fields /\ Len(Statements(field)) \in Nat
      /\ at[i] \in 1 .. Len(Statements(field))
  <2>1. field \in Fields /\ at[i] \in Nat
    BY DEF GatewayInv, GatewayTypeOK
  <2> QED BY <2>1, FieldHasStatements DEF Running, Answered
<1>3. /\ DOMAIN got = Parts
      /\ Statement(i) = "services" => got.rows = SelectServices
      /\ Statement(i) = "stops" => got.rows = SelectStops(read[i].rows)
      /\ Statement(i) = "traversal" => got.rows = read[i].rows /\ got.traversal = block_configs
  <2>1. CASE Statement(i) = "services"
    <3>1. got = [read[i] EXCEPT !.rows = SelectServices]
      BY <2>1 DEF Returned
    <3> QED BY <1>1, <2>1, <3>1 DEF Parts
  <2>2. CASE Statement(i) = "stops"
    <3>1. got = [read[i] EXCEPT !.rows = SelectStops(read[i].rows)]
      BY <2>2 DEF Returned, StopsRead
    <3> QED BY <1>1, <2>2, <3>1 DEF Parts
  <2>3. CASE Statement(i) = "traversal"
    <3>1. got = [read[i] EXCEPT !.traversal = block_configs]
      BY <2>3 DEF Returned
    <3> QED BY <1>1, <2>3, <3>1 DEF Parts
  <2>4. CASE Statement(i) = "vehicles"
    <3>1. got = [read[i] EXCEPT !.vehicles = vehicles]
      BY <2>4 DEF Returned
    <3> QED BY <1>1, <2>4, <3>1
  <2>5. CASE Statement(i) \in {"base", "levels"}
    <3>1. got = read[i] \/ \E levels : got = [read[i] EXCEPT !.levels = levels]
      BY <2>5 DEF Returned
    <3> QED BY <1>1, <2>5, <3>1
  <2> QED BY <1>2, <2>1, <2>2, <2>3, <2>4, <2>5, StatementsKnown DEF Statement
<1>4. ASSUME field \in TimetableFields
      PROVE  /\ at[i] = RowsAt(field) => RowsSelected(got.rows)
             /\ at[i] = RowsAt(field) + 1 => RowsConsistent(got.rows)
             /\ at[i] = RowsAt(field) + 2 => RowsConsistent(got.rows) /\ got.traversal = InitialTraversal
  <2>1. CASE at[i] = RowsAt(field)
    <3>1. Statement(i) = "services" /\ at[i] # RowsAt(field) + 1 /\ at[i] # RowsAt(field) + 2
      BY <1>4, <2>1, TimetableStatements DEF Statement
    <3> QED BY <1>3, <3>1, ServicesSelected
  <2>2. CASE at[i] = RowsAt(field) + 1
    <3>1. Statement(i) = "stops" /\ at[i] # RowsAt(field) /\ at[i] # RowsAt(field) + 2
      BY <1>4, <2>2, TimetableStatements DEF Statement
    <3>2. RowsSelected(read[i].rows)
      BY <1>4, <2>2 DEF ReadersKnow, FieldsKnow, FieldKnows
    <3> QED BY <1>3, <3>1, <3>2, StopsConsistent
  <2>3. CASE at[i] = RowsAt(field) + 2
    <3>1. Statement(i) = "traversal" /\ at[i] # RowsAt(field) /\ at[i] # RowsAt(field) + 1
      BY <1>2, <1>4, <2>3, TimetableStatements DEF Statement
    <3>2. RowsConsistent(read[i].rows)
      BY <1>4, <2>3 DEF ReadersKnow, FieldsKnow, FieldKnows
    <3> QED BY <1>3, <3>1, <3>2 DEF OverlapInv, TraversalFixed
  <2> QED BY <2>1, <2>2, <2>3
<1> QED BY <1>3, <1>4 DEF Gets

\* While nothing is written, what was selected stays selected.
LEMMA SelectedSame ==
  ASSUME UNCHANGED vars, NEW rows
  PROVE  RowsSelected(rows)' <=> RowsSelected(rows)
BY DEF vars, tables, request, RowsSelected, Unwritten, Creating

\* A field that goes on with what it got answers, or knows what it needs.
LEMMA GoOnSound ==
  ASSUME AscendingRequests, GatewayInv, ReadersKnow, NEW i \in DOMAIN query, Running(i),
         NEW got, Gets(i, got), GoOn(i, got), UNCHANGED vars, query' = query
  PROVE  ReadersKnow'
<1> PICK field, k, N : field = query[i] /\ k = at[i] /\ N = Len(Statements(field))
  OBVIOUS
<1>1. /\ field \in Fields /\ N \in Nat \ {0} /\ k \in 1 .. N
      /\ DOMAIN at = DOMAIN query /\ DOMAIN read = DOMAIN query
  <2>1. /\ field \in Fields /\ k \in Nat
        /\ DOMAIN at = DOMAIN query /\ DOMAIN read = DOMAIN query
    BY DEF GatewayInv, GatewayTypeOK
  <2> QED BY <2>1, FieldHasStatements DEF Running, Answered
<1>2. /\ at'[i] = k + 1
      /\ \A j \in DOMAIN query \ {i} : at'[j] = at[j]
  BY <1>1 DEF GoOn
<1>3. /\ k < N => read'[i] = got /\ answers' = answers
      /\ ~(k < N) => /\ read'[i] = NothingRead
                     /\ answers'[i] = AnswerOf(field, got)
                     /\ DOMAIN answers' = DOMAIN answers
                     /\ \A j \in DOMAIN query \ {i} : answers'[j] = answers[j]
      /\ \A j \in DOMAIN query \ {i} : read'[j] = read[j]
  BY <1>1 DEF GoOn, ReadersKnow, ReadTyped
<1>4. ReadTyped'
  BY <1>3 DEF ReadersKnow, ReadTyped, Gets, NothingRead, Parts
<1>5. ASSUME NEW j \in DOMAIN query \ {i} PROVE FieldKnows(j)' /\ (Answered(j)' <=> Answered(j))
  <2>1. query'[j] = query[j] /\ at'[j] = at[j] /\ read'[j] = read[j]
    BY <1>2, <1>3
  <2>2. FieldKnows(j)
    BY DEF ReadersKnow, FieldsKnow
  <2> QED BY <2>1, <2>2, SelectedSame DEF FieldKnows, Running, Answered
<1>6. FieldKnows(i)'
  <2> SUFFICES ASSUME field \in TimetableFields, k + 1 <= N
               PROVE  /\ k + 1 = RowsAt(field) + 1 => RowsSelected(read[i].rows)'
                      /\ k + 1 = RowsAt(field) + 2 => RowsConsistent(read[i].rows)'
    BY <1>1, <1>2 DEF FieldKnows, Running, Answered, RowsAt
  <2>1. read'[i] = got /\ RowsAt(field) \in Nat
    BY <1>1, <1>3, TimetableStatements
  <2>2. k = RowsAt(field) => RowsSelected(got.rows)'
    BY SelectedSame DEF Gets
  <2>3. k = RowsAt(field) + 1 => RowsConsistent(got.rows)
    BY DEF Gets
  <2>4. k + 1 = RowsAt(field) + 1 => RowsSelected(read[i].rows)'
    BY <1>1, <2>1, <2>2 DEF RowsSelected
  <2>5. k + 1 = RowsAt(field) + 2 => RowsConsistent(read[i].rows)'
    BY <1>1, <2>1, <2>3 DEF RowsConsistent
  <2> QED BY <2>4, <2>5
<1>7. Answered(i)' => Sound(field, answers'[i])
  <2> SUFFICES ASSUME k = N PROVE Sound(field, AnswerOf(field, got))
    BY <1>1, <1>2, <1>3 DEF Answered
  <2>1. CASE field \in TimetableFields
    <3>1. k = IF field = "schedule" THEN RowsAt(field) + 1 ELSE RowsAt(field) + 2
      BY <2>1, TimetableStatements
    <3> QED BY <2>1, <3>1, ConsistentAnswers DEF Gets
  <2>2. CASE field \notin TimetableFields
    BY <2>2 DEF Sound, TimetableFields
  <2> QED BY <2>1, <2>2
<1>8. AnswersSound'
  <2>1. ASSUME NEW j \in DOMAIN query \ {i}, Answered(j)' PROVE Sound(query[j], answers'[j])
    BY <1>3, <1>5, <2>1 DEF ReadersKnow, AnswersSound
  <2> QED BY <1>7, <2>1 DEF AnswersSound
<1> QED BY <1>4, <1>5, <1>6, <1>8 DEF ReadersKnow, FieldsKnow

ReadersInv == OverlapInv /\ GatewayInv /\ ReadersKnow

LEMMA ReadersStart == ASSUME OrdinaryRequests, ReadInit PROVE ReadersInv
<1>1. OverlapInv /\ GatewayInv
  BY OverlapInit, GatewayStarts DEF ReadInit
<1>2. \A i \in DOMAIN query : at[i] = 0 /\ ~Running(i) /\ ~Answered(i)
  <2>1. \A i \in DOMAIN query : at[i] = 0 /\ Len(Statements(query[i])) \in Nat \ {0}
    BY <1>1, FieldHasStatements DEF ReadInit, GatewayInit, GatewayInv, GatewayTypeOK
  <2> QED BY <2>1 DEF Running, Answered
<1>3. ReadTyped
  BY DEF ReadInit, GatewayInit, ReadTyped, NothingRead, Parts
<1> QED BY <1>1, <1>2, <1>3 DEF ReadersInv, ReadersKnow, FieldsKnow, FieldKnows, AnswersSound

\* The handlers write between the statements of a request.
LEMMA WritersKeepReaders ==
  ASSUME OrdinaryRequests, ReadersInv, [Next]_vars, UNCHANGED gateway
  PROVE  ReadersInv'
<1>1. OverlapInv'
  BY OverlapStep DEF ReadersInv
<1>2. GatewayInv'
  BY DEF ReadersInv, gateway, GatewayInv, GatewayTypeOK, LockHeld, FieldsUseSession,
         LoaderServes, Running, Answered, Statement, Task
<1>3. \A i \in DOMAIN query : FieldKnows(i)'
  <2> SUFFICES ASSUME NEW i \in DOMAIN query, query[i] \in TimetableFields, Running(i)
               PROVE  /\ at[i] = RowsAt(query[i]) + 1 => RowsSelected(read[i].rows)'
                      /\ at[i] = RowsAt(query[i]) + 2 => RowsConsistent(read[i].rows)'
    BY DEF FieldKnows, gateway, Running, Answered, RowsAt
  <2> PICK rows : rows = read[i].rows
    OBVIOUS
  <2>1. FieldKnows(i)
    BY DEF ReadersInv, ReadersKnow, FieldsKnow
  <2>2. ASSUME at[i] = RowsAt(query[i]) + 1 PROVE RowsSelected(rows)'
    BY <2>1, <2>2, SelectedKept DEF FieldKnows, ReadersInv
  <2>3. ASSUME at[i] = RowsAt(query[i]) + 2 PROVE RowsConsistent(rows)
    BY <2>1, <2>3 DEF FieldKnows
  <2>4. read' = read
    BY DEF gateway
  <2> QED BY <2>2, <2>3, <2>4 DEF RowsSelected, RowsConsistent
<1>4. ReadTyped' /\ AnswersSound'
  BY DEF ReadersInv, ReadersKnow, ReadTyped, AnswersSound, gateway, Answered
<1> QED BY <1>1, <1>2, <1>3, <1>4 DEF ReadersInv, ReadersKnow, FieldsKnow, gateway

\* A step that takes nobody to another statement, and reads nothing of the timetable.
LEMMA NothingNewRead ==
  ASSUME ReadersKnow, UNCHANGED vars, query' = query, answers' = answers,
         \A i \in DOMAIN query :
           \/ at'[i] = at[i] /\ read'[i] = read[i]
           \/ /\ at'[i] = at[i] /\ DOMAIN read'[i] = Parts
              /\ query[i] \in TimetableFields => at[i] < RowsAt(query[i])
           \/ at[i] = 0 /\ at'[i] = 1 /\ read'[i] = read[i],
         \A i \in DOMAIN query : Len(Statements(query[i])) \in Nat \ {0} /\ at[i] \in Nat
  PROVE  ReadersKnow'
<1>1. ReadTyped'
  BY DEF ReadersKnow, ReadTyped
<1>2. ASSUME NEW i \in DOMAIN query PROVE FieldKnows(i)' /\ (Answered(i)' => Answered(i))
  <2> SUFFICES /\ Running(i)' /\ query[i] \in TimetableFields =>
                    /\ at'[i] = RowsAt(query[i]) + 1 => RowsSelected(read[i].rows)'
                    /\ at'[i] = RowsAt(query[i]) + 2 => RowsConsistent(read[i].rows)'
               /\ Answered(i)' => Answered(i)
    BY DEF FieldKnows, RowsAt
  <2>1. FieldKnows(i) /\ RowsAt(query[i]) \in Nat \ {0}
    BY DEF ReadersKnow, FieldsKnow, RowsAt
  <2>2. CASE at'[i] = at[i] /\ read'[i] = read[i]
    <3>1. (Running(i)' <=> Running(i)) /\ (Answered(i)' <=> Answered(i))
      BY <2>2 DEF Running, Answered
    <3>2. PICK rows : rows = read[i].rows
      OBVIOUS
    <3>3. /\ RowsSelected(rows) => RowsSelected(read[i].rows)'
          /\ RowsConsistent(rows) => RowsConsistent(read[i].rows)'
      <4>1. read'[i].rows = rows
        BY <2>2, <3>2
      <4>2. RowsSelected(rows) => RowsSelected(rows)'
        BY SelectedSame
      <4>3. RowsSelected(rows)' => RowsSelected(read[i].rows)'
        BY <4>1 DEF RowsSelected
      <4>4. RowsConsistent(rows) => RowsConsistent(read[i].rows)'
        BY <4>1 DEF RowsConsistent
      <4> QED BY <4>2, <4>3, <4>4
    <3> QED BY <2>1, <2>2, <3>1, <3>2, <3>3 DEF FieldKnows
  <2>3. CASE /\ at'[i] = at[i]
             /\ query[i] \in TimetableFields => at[i] < RowsAt(query[i])
    BY <2>1, <2>3 DEF Answered
  <2>4. CASE at[i] = 0 /\ at'[i] = 1
    BY <2>1, <2>4 DEF Answered
  <2> QED BY <2>2, <2>3, <2>4
<1> QED BY <1>1, <1>2 DEF ReadersKnow, FieldsKnow, AnswersSound

\* The vehicles and their levels come before the timetable.
LEMMA TimetableStatement ==
  ASSUME GatewayInv, NEW i \in DOMAIN query, Running(i), query[i] \in TimetableFields
  PROVE  Statement(i) \in IF at[i] < RowsAt(query[i]) THEN {"vehicles", "base"}
                          ELSE {"services", "stops", "traversal"}
<1> PICK field, k, n : field = query[i] /\ k = at[i] /\ n = RowsAt(field)
  OBVIOUS
<1>1. k \in Nat \ {0} /\ k <= Len(Statements(field))
  BY FieldHasStatements DEF GatewayInv, GatewayTypeOK, Running, Answered
<1>2. n \in Nat /\ k <= IF field = "schedule" THEN n + 1 ELSE n + 2
  BY <1>1, TimetableStatements
<1>3. CASE k < n
  <2>1. k \in 1 .. n - 1
    BY <1>1, <1>2, <1>3
  <2> QED BY <1>3, <2>1, TimetableStatements DEF Statement
<1>4. CASE k \in {n, n + 1}
  BY <1>2, <1>4, TimetableStatements DEF Statement
<1>5. CASE k = n + 2
  <2>1. field # "schedule"
    BY <1>2, <1>5
  <2> QED BY <1>2, <1>5, <2>1, TimetableStatements DEF Statement
<1>6. k < n \/ k \in {n, n + 1} \/ k = n + 2
  BY <1>1, <1>2
<1> QED BY <1>3, <1>4, <1>5, <1>6

LEMMA ReadersStep ==
  ASSUME OrdinaryRequests, AscendingRequests, ReadersInv, GatewayStep, UNCHANGED vars
  PROVE  ReadersInv'
<1>1. OverlapInv'
  BY OverlapStep DEF ReadersInv
<1>2. GatewayInv'
  BY GatewayStepKeeps DEF ReadersInv
<1>3. \A i \in DOMAIN query : Len(Statements(query[i])) \in Nat \ {0} /\ at[i] \in Nat
  BY FieldHasStatements DEF ReadersInv, GatewayInv, GatewayTypeOK
<1>4. DOMAIN at = DOMAIN query /\ DOMAIN read = DOMAIN query /\ ReadersKnow /\ GatewayInv
  BY DEF ReadersInv, GatewayInv, GatewayTypeOK
<1>5. ASSUME NEW i \in DOMAIN query, StartField(i) PROVE ReadersKnow'
  <2>1. /\ at[i] = 0 /\ at'[i] = 1 /\ \A j \in DOMAIN query \ {i} : at'[j] = at[j]
        /\ UNCHANGED <<query, read, answers>>
    BY <1>4, <1>5 DEF StartField
  <2> QED BY <1>3, <1>4, <2>1, NothingNewRead
<1>6. ASSUME NEW i \in DOMAIN query, Call(i) \/ LoadMany(i) PROVE ReadersKnow'
  <2>1. UNCHANGED <<query, at, read, answers>>
    BY <1>6 DEF Call, LoadMany
  <2> QED BY <1>3, <1>4, <2>1, NothingNewRead
<1>7. CASE LoaderCall \/ LoaderReturn
  <2>1. UNCHANGED <<query, at, read, answers>>
    BY <1>7 DEF LoaderCall, LoaderReturn
  <2>2. ReadersKnow'
    BY <1>3, <1>4, <2>1, NothingNewRead
  <2> QED BY <1>1, <1>2, <2>2 DEF ReadersInv
<1>8. ASSUME NEW i \in DOMAIN query, Return(i) PROVE ReadersKnow'
  <2>1. i \in calls \ {Loader} /\ query' = query
    BY <1>4, <1>8, FieldNumbers DEF Return, GatewayInv, GatewayTypeOK
  <2>2. Running(i) /\ Statement(i) # "load_levels"
    BY <1>4, <2>1 DEF GatewayInv, FieldsUseSession
  <2>3. Gets(i, Returned(i))
    BY <1>4, <2>2, StatementGets DEF ReadersInv
  <2>4. CASE GoOn(i, Returned(i))
    <3> PICK got : got = Returned(i)
      OBVIOUS
    <3> QED BY <1>4, <2>1, <2>2, <2>3, <2>4, GoOnSound
  <2>5. CASE /\ Statement(i) \in {"base", "levels"} /\ UNCHANGED <<at, answers>>
             /\ read' = [read EXCEPT ![i] = Returned(i)]
    <3>1. read'[i] = Returned(i) /\ \A j \in DOMAIN query \ {i} : read'[j] = read[j]
      BY <1>4, <2>5
    <3>2. query[i] \in TimetableFields => at[i] < RowsAt(query[i])
      BY <1>4, <2>2, <2>5, TimetableStatement
    <3> QED BY <1>3, <1>4, <2>1, <2>3, <2>5, <3>1, <3>2, NothingNewRead DEF Gets
  <2> QED BY <1>8, <2>4, <2>5 DEF Return
<1>9. ASSUME NEW i \in DOMAIN query, LevelsLoaded(i) PROVE ReadersKnow'
  <2>1. /\ Running(i) /\ Statement(i) = "load_levels" /\ query' = query
        /\ \E levels : GoOn(i, [read[i] EXCEPT !.levels = levels])
    BY <1>9 DEF LevelsLoaded
  <2> PICK levels : GoOn(i, [read[i] EXCEPT !.levels = levels])
    BY <2>1
  <2> PICK got : got = [read[i] EXCEPT !.levels = levels]
    OBVIOUS
  <2>2. query[i] \notin TimetableFields
    BY <1>4, <2>1, TimetableStatement
  <2>3. Gets(i, got)
    BY <1>4, <2>2 DEF Gets, ReadersKnow, ReadTyped
  <2> QED BY <1>4, <2>1, <2>3, GoOnSound
<1> QED BY <1>1, <1>2, <1>5, <1>6, <1>7, <1>8, <1>9 DEF GatewayStep, ReadersInv

LEMMA ReadersInvariant ==
  ASSUME OrdinaryRequests, AscendingRequests
  PROVE  ReadSpec => []ReadersInv
<1>1. ReadInit => ReadersInv
  BY ReadersStart
<1>2. ReadersInv /\ [ReadNext]_<<vars, gateway>> => ReadersInv'
  <2> SUFFICES ASSUME ReadersInv, [ReadNext]_<<vars, gateway>> PROVE ReadersInv'
    OBVIOUS
  <2>1. CASE GatewayStep /\ UNCHANGED vars
    BY <2>1, ReadersStep
  <2>2. CASE [Next]_vars /\ UNCHANGED gateway
    BY <2>2, WritersKeepReaders
  <2> QED BY <2>1, <2>2 DEF ReadNext
<1> QED BY <1>1, <1>2, PTL DEF ReadSpec

\* router.py and routers/schedule.py: GET /schedule/conflicts and the fields conflicts
\* and positions read the timetable in several statements, between which the handlers
\* commit; what they answer shows no vehicle in two places all the same.
THEOREM ReadersSeeNoOverlap ==
  ASSUME OrdinaryRequests, AscendingRequests
  PROVE  ReadSpec => []NoReaderSeesAnOverlap
<1>1. ReadersInv => NoReaderSeesAnOverlap
  BY DEF ReadersInv, ReadersKnow, AnswersSound, Sound, NoReaderSeesAnOverlap
<1> QED BY <1>1, ReadersInvariant, PTL

\* schedule.py, get_schedule: the list sorted by first departure has the services of a
\* vehicle in the order it drives them, whenever its parts were read.
THEOREM ScheduleIsInRunningOrder ==
  ASSUME OrdinaryRequests, AscendingRequests
  PROVE  ReadSpec => []ScheduleInRunningOrder
<1>1. ReadersInv => ScheduleInRunningOrder
  BY DEF ReadersInv, ReadersKnow, AnswersSound, Sound, ScheduleInRunningOrder
<1> QED BY <1>1, ReadersInvariant, PTL
=============================================================================
