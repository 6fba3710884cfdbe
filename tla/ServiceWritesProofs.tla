------------------------- MODULE ServiceWritesProofs -------------------------
(***************************************************************************)
(* What holds of the write path for any number of handlers, vehicles and   *)
(* requests.  Whatever is requested, the state stays well typed and        *)
(* references hold.  As long as payloads number their stops from 0, every  *)
(* stored path is one that was validated, whole.  What fails with a 500    *)
(* fails because of another handler.                                       *)
(***************************************************************************)
EXTENDS TimetableReads, StopTimesProofs

(***************************************************************************)
(* Types.  TypeOK alone is not inductive: a step uses its request and the  *)
(* row it loaded, which are only there at certain labels.                  *)
(***************************************************************************)
Statuses == {0, 200, 201, 204, 404, 409, 422, 500}

\* At each label, the kind of request served and what has been read for it.
Phases ==
  \A p \in Proc :
    /\ pc[p] # "idle" => req[p] \in Requests /\ ticket[p] \in 1 .. begun
    /\ pc[p] \in {"lock", "traversal", "battery", "siblings", "commit", "reload"} =>
         req[p].op \in {"create", "update"}
    /\ pc[p] \in {"load_stops", "wipe", "wipe_wait"} => req[p].op = "update"
    /\ pc[p] = "load" => req[p].op \in {"update", "delete"}
    /\ pc[p] \in {"delete", "cascade"} => req[p].op = "delete"
    /\ pc[p] \in {"read_level", "adjust"} => req[p].op = "adjust"
    /\ pc[p] \in {"count", "remove"} => req[p].op = "remove"
    /\ pc[p] = "block" => req[p].op = "block"
    /\ pc[p] \notin {"idle", "load"} /\ req[p].op = "update" => IsRow(loaded[p])

TypeInv == TypeOK /\ Phases

\* The fields of a request have the types its schema gives them.
LEMMA RequestTyped ==
  ASSUME NEW r \in Requests
  PROVE  /\ r.op \in {"create", "update", "delete", "adjust", "remove", "block"}
         /\ r.op \in {"create", "adjust", "remove"} => r.vehicle_id \in Vehicle
         /\ r.op = "update" => r.vehicle_id \in Vehicle \cup {None}
         /\ r.op \in {"update", "delete"} => r.service_id \in ServiceId
         /\ r.op = "block" => r.block \in BLOCKS /\ r.seconds \in Nat \ {0}
BY RequestsAssumption

\* A handler at work has a request, of the kind its label belongs to, and the vehicle
\* it writes for and the service it writes exist as ids.
LEMMA WriterTyped ==
  ASSUME TypeInv, NEW p \in Proc, pc[p] # "idle",
         req[p].op = "create" \/ (req[p].op = "update" /\ pc[p] # "load")
  PROVE  TargetVehicle(p) \in Vehicle /\ Written(p) \in ServiceId
BY RequestTyped, ParametersAssumption
   DEF TypeInv, TypeOK, Phases, TargetVehicle, Written, Creating, ServiceId, IsRow

\* The initial state is well typed.
LEMMA TypeInit == Init => TypeInv
<1> SUFFICES ASSUME Init PROVE TypeInv
  OBVIOUS
<1>1. TypeOK
  BY ParametersAssumption DEF Init, TypeOK, Live, Labels, emit_baseline, Event
<1>2. Phases
  BY DEF Init, Phases
<1> QED BY <1>1, <1>2 DEF TypeInv

\* The end of a request leaves its handler well typed, if the tables are.
LEMMA AnswerTyped ==
  ASSUME TypeInv, NEW p \in Proc, NEW status \in Statuses, Answer(p, status),
         vehicles' \subseteq Vehicle,
         DOMAIN services' = ServiceId,
         \A s \in ServiceId : services'[s] # None => IsRow(services'[s]),
         \A e \in events' : e.vehicle_id \in Vehicle /\ e.service_id \in ServiceId \cup {None},
         block_configs' \in [BLOCKS -> Nat \ {0}]
  PROVE  TypeInv'
<1> USE ParametersAssumption DEF TypeInv, TypeOK, Answer, EndTransaction, Goto
<1>1. TypeOK'
  BY DEF Live, LocksWithout, Labels, Statuses
<1>2. Phases'
  BY DEF Phases, Labels
<1> QED BY <1>1, <1>2

\* A request answered without a write leaves everything well typed.
LEMMA RefuseTyped ==
  ASSUME TypeInv, NEW p \in Proc, NEW status \in Statuses, Refuse(p, status)
  PROVE  TypeInv'
BY AnswerTyped DEF Refuse, tables, TypeInv, TypeOK, Live

\* The commit of a create or an update leaves everything well typed: it writes rows
\* of its own vehicle and service.
LEMMA CommitTyped ==
  ASSUME TypeInv, NEW p \in Proc, pc[p] = "commit", EndTransaction(p), Goto(p, "reload"),
         UNCHANGED <<vehicles, block_configs, request, reads, reply>>,
         NEW s \in ServiceId, NEW row, IsRow(row),
         services' = [services EXCEPT ![s] = row],
         events' \subseteq events \cup {NewConsumeEvent(p)}
  PROVE  TypeInv'
<1>1. NewConsumeEvent(p).vehicle_id \in Vehicle /\ NewConsumeEvent(p).service_id \in ServiceId
  BY WriterTyped DEF TypeInv, Phases, NewConsumeEvent, emit_service_consume, Event
<1>2. TypeOK'
  BY <1>1, ParametersAssumption
     DEF TypeInv, TypeOK, EndTransaction, LocksWithout, Goto, request, reads, Labels, Live
<1>3. Phases'
  BY DEF TypeInv, TypeOK, Phases, Goto, request, reads, Labels
<1> QED BY <1>2, <1>3 DEF TypeInv

\* Every step keeps the state well typed.
LEMMA TypeStep == TypeInv /\ [Next]_vars => TypeInv'
<1> SUFFICES ASSUME TypeInv, [Next]_vars PROVE TypeInv'
  OBVIOUS
<1> USE ParametersAssumption DEF Statuses
<1>1. ASSUME NEW p \in Proc, Begin(p) PROVE TypeInv'
  <2> PICK r \in Requests : req' = [req EXCEPT ![p] = r] /\ Goto(p, FirstStatement(r.op))
    BY <1>1 DEF Begin
  <2>1. TypeOK'
    BY <1>1, RequestTyped
       DEF TypeInv, TypeOK, Begin, Goto, FirstStatement, tables, reads, Labels, Live
  <2>2. Phases'
    BY <1>1, RequestTyped DEF TypeInv, TypeOK, Phases, Begin, Goto, FirstStatement, reads
  <2> QED BY <2>1, <2>2 DEF TypeInv
<1>2. ASSUME NEW p \in Proc, LoadService(p) PROVE TypeInv'
  <2>1. CASE services[req[p].service_id] = None
    BY <1>2, <2>1, RefuseTyped DEF LoadService
  <2>2. CASE services[req[p].service_id] # None
    <3>0. PICK row : loaded' = [loaded EXCEPT ![p] = row] /\ IsRow(row)
      <4>1. IsRow(services[req[p].service_id])
        BY <1>2, <2>2, RequestTyped DEF TypeInv, TypeOK, Phases, LoadService, Live
      <4>2. IsRow([services[req[p].service_id] EXCEPT !.stops = << >>])
        BY <4>1 DEF IsRow
      <4> QED BY <1>2, <2>2, <4>2 DEF LoadService
    <3>1. TypeOK'
      <4>1. PICK label \in Labels : Goto(p, label)
        BY <1>2, <2>2 DEF LoadService, Labels
      <4>2. UNCHANGED <<tables, lock, wiped, request, block_traversal, dep_battery, reply>>
        BY <1>2, <2>2 DEF LoadService
      <4> QED BY <3>0, <4>1, <4>2 DEF TypeInv, TypeOK, Goto, tables, request, Live
    <3>2. Phases'
      BY <1>2, <2>2, <3>0 DEF TypeInv, TypeOK, Phases, LoadService, Goto, request
    <3> QED BY <3>1, <3>2 DEF TypeInv
  <2> QED BY <2>1, <2>2
<1>21. ASSUME NEW p \in Proc, LoadStops(p) PROVE TypeInv'
  <2>0. PICK row : loaded' = [loaded EXCEPT ![p] = row] /\ IsRow(row)
    <3>1. PICK stops : loaded' = [loaded EXCEPT ![p] = [loaded[p] EXCEPT !.stops = stops]]
      BY <1>21 DEF LoadStops
    <3>2. IsRow(loaded[p])
      BY <1>21 DEF LoadStops, TypeInv, Phases
    <3>3. IsRow([loaded[p] EXCEPT !.stops = stops])
      BY <3>2 DEF IsRow
    <3> QED BY <3>1, <3>3
  <2>1. TypeOK'
    BY <1>21, <2>0 DEF TypeInv, TypeOK, LoadStops, Goto, tables, request, Labels, Live
  <2>2. Phases'
    BY <1>21, <2>0 DEF TypeInv, TypeOK, Phases, LoadStops, Goto, request
  <2> QED BY <2>1, <2>2 DEF TypeInv
<1>3. ASSUME NEW p \in Proc, LockVehicle(p) PROVE TypeInv'
  <2>1. CASE \E status \in Statuses : Refuse(p, status)
    BY <2>1, RefuseTyped
  <2>2. CASE /\ lock' = [lock EXCEPT ![TargetVehicle(p)] = p] /\ Goto(p, "traversal")
             /\ UNCHANGED <<tables, wiped, request, reads, reply>>
    <3>1. TypeOK'
      BY <1>3, <2>2 DEF TypeInv, TypeOK, LockVehicle, Goto, tables, request, reads, Labels, Live
    <3>2. Phases'
      BY <1>3, <2>2 DEF TypeInv, TypeOK, Phases, LockVehicle, Goto, request, reads
    <3> QED BY <3>1, <3>2 DEF TypeInv
  <2> QED BY <1>3, <2>1, <2>2 DEF LockVehicle
<1>4. ASSUME NEW p \in Proc, ReadTraversal(p) PROVE TypeInv'
  <2>1. TypeOK'
    BY <1>4 DEF TypeInv, TypeOK, ReadTraversal, Goto, tables, request, Labels, Live
  <2>2. Phases'
    BY <1>4 DEF TypeInv, TypeOK, Phases, ReadTraversal, Creating, Goto, request
  <2> QED BY <2>1, <2>2 DEF TypeInv
<1>5. ASSUME NEW p \in Proc, WipeConsume(p) PROVE TypeInv'
  <2>1. TypeOK'
    BY <1>5, RequestTyped
       DEF TypeInv, TypeOK, Phases, WipeConsume, EventsToWipe, ConsumeEvents, Goto, tables,
           request, reads, Labels, Live
  <2>2. Phases'
    BY <1>5 DEF TypeInv, TypeOK, Phases, WipeConsume, Goto, request, reads
  <2> QED BY <2>1, <2>2 DEF TypeInv
<1>6. ASSUME NEW p \in Proc, ResumeWipe(p) PROVE TypeInv'
  <2>1. TypeOK'
    BY <1>6 DEF TypeInv, TypeOK, ResumeWipe, Goto, tables, request, reads, Labels, Live
  <2>2. Phases'
    BY <1>6 DEF TypeInv, TypeOK, Phases, ResumeWipe, Goto, request, reads
  <2> QED BY <2>1, <2>2 DEF TypeInv
<1>7. ASSUME NEW p \in Proc, ReadBattery(p) PROVE TypeInv'
  <2>1. CASE Refuse(p, 500)
    BY <2>1, RefuseTyped
  <2>2. CASE ~Refuse(p, 500)
    <3>0. PICK level :
            /\ dep_battery' = [dep_battery EXCEPT ![p] = level]
            /\ pc[p] = "battery" /\ Goto(p, "siblings")
            /\ UNCHANGED <<tables, lock, wiped, request, loaded, block_traversal, reply>>
      BY <1>7, <2>2 DEF ReadBattery
    <3>1. TypeOK'
      BY <3>0 DEF TypeInv, TypeOK, Goto, tables, request, Labels, Live
    <3>2. Phases'
      BY <3>0 DEF TypeInv, TypeOK, Phases, Goto, request
    <3> QED BY <3>1, <3>2 DEF TypeInv
  <2> QED BY <2>1, <2>2
<1>8. ASSUME NEW p \in Proc, CheckSiblings(p) PROVE TypeInv'
  <2>1. CASE Refuse(p, 409)
    BY <2>1, RefuseTyped
  <2>2. CASE Goto(p, "commit") /\ UNCHANGED <<tables, lock, wiped, request, reads, reply>>
    BY <1>8, <2>2
       DEF TypeInv, TypeOK, Phases, CheckSiblings, Goto, tables, request, reads, Labels, Live
  <2> QED BY <1>8, <2>1, <2>2 DEF CheckSiblings
<1>9. ASSUME NEW p \in Proc, CommitCreate(p) PROVE TypeInv'
  <2>1. ticket[p] \in ServiceId /\ req[p].vehicle_id \in Vehicle
    BY <1>9, RequestTyped DEF TypeInv, TypeOK, Phases, CommitCreate, Creating, ServiceId
  <2> QED BY <1>9, <2>1, CommitTyped DEF CommitCreate, IsRow
<1>10. ASSUME NEW p \in Proc, CommitUpdate(p) PROVE TypeInv'
  <2> DEFINE s == req[p].service_id
  <2>1. CASE Refuse(p, 500)
    BY <2>1, RefuseTyped
  <2>2. CASE ~Refuse(p, 500)
    <3>1. TargetVehicle(p) \in Vehicle /\ s \in ServiceId
      BY <1>10, WriterTyped, RequestTyped DEF CommitUpdate, TypeInv, Phases
    <3>2. IsRow(UpdatedRow(p))
      BY <1>10, <2>2, <3>1 DEF CommitUpdate, UpdatedRow, IsRow, TypeInv, TypeOK, Live
    <3> QED BY <1>10, <2>2, <3>1, <3>2, CommitTyped DEF CommitUpdate
  <2> QED BY <2>1, <2>2
<1>11. ASSUME NEW p \in Proc, ReloadService(p) PROVE TypeInv'
  BY <1>11, RefuseTyped DEF ReloadService
<1>12. ASSUME NEW p \in Proc, DeleteServiceRow(p) PROVE TypeInv'
  <2>1. CASE Refuse(p, 204)
    BY <2>1, RefuseTyped
  <2>2. CASE Goto(p, "cascade") /\ UNCHANGED <<tables, lock, wiped, request, reads, reply>>
    BY <1>12, <2>2
       DEF TypeInv, TypeOK, Phases, DeleteServiceRow, Goto, tables, request, reads, Labels, Live
  <2> QED BY <1>12, <2>1, <2>2 DEF DeleteServiceRow
<1>13. ASSUME NEW p \in Proc, CascadeAndCommit(p) PROVE TypeInv'
  BY <1>13, AnswerTyped DEF CascadeAndCommit, TypeInv, TypeOK, Live
<1>14. ASSUME NEW p \in Proc, DeadlockAbort(p) PROVE TypeInv'
  BY <1>14, RefuseTyped DEF DeadlockAbort
<1>15. ASSUME NEW p \in Proc, ReadLevel(p) PROVE TypeInv'
  <2>1. CASE Refuse(p, 404)
    BY <2>1, RefuseTyped
  <2>2. CASE ~Refuse(p, 404)
    <3> PICK level : dep_battery' = [dep_battery EXCEPT ![p] = level]
      BY <1>15, <2>2 DEF ReadLevel
    <3>1. TypeOK'
      BY <1>15, <2>2 DEF TypeInv, TypeOK, ReadLevel, Goto, tables, request, Labels, Live
    <3>2. Phases'
      BY <1>15, <2>2 DEF TypeInv, TypeOK, Phases, ReadLevel, Goto, request
    <3> QED BY <3>1, <3>2 DEF TypeInv
  <2> QED BY <2>1, <2>2
<1>16. ASSUME NEW p \in Proc, AdjustLevel(p) PROVE TypeInv'
  <2>1. CASE Refuse(p, 409)
    BY <2>1, RefuseTyped
  <2>2. CASE ~Refuse(p, 409)
    BY <1>16, <2>2, AnswerTyped
       DEF AdjustLevel, emit_manual_adjust, Event, TypeInv, TypeOK, Live
  <2> QED BY <2>1, <2>2
<1>17. ASSUME NEW p \in Proc, CountServices(p) PROVE TypeInv'
  <2>1. CASE \E status \in Statuses : Refuse(p, status)
    BY <2>1, RefuseTyped
  <2>2. CASE Goto(p, "remove") /\ UNCHANGED <<tables, lock, wiped, request, reads, reply>>
    BY <1>17, <2>2
       DEF TypeInv, TypeOK, Phases, CountServices, Goto, tables, request, reads, Labels, Live
  <2> QED BY <1>17, <2>1, <2>2 DEF CountServices
<1>18. ASSUME NEW p \in Proc, RemoveVehicle(p) PROVE TypeInv'
  <2>1. CASE \E status \in Statuses : Refuse(p, status)
    BY <2>1, RefuseTyped
  <2>2. CASE ~\E status \in Statuses : Refuse(p, status)
    BY <1>18, <2>2, AnswerTyped DEF RemoveVehicle, TypeInv, TypeOK, Live
  <2> QED BY <2>1, <2>2
<1>19. ASSUME NEW p \in Proc, UpdateBlock(p) PROVE TypeInv'
  BY <1>19, AnswerTyped, RequestTyped DEF UpdateBlock, TypeInv, TypeOK, Phases, Live
<1>20. CASE UNCHANGED vars
  BY <1>20 DEF vars, tables, request, reads, TypeInv, TypeOK, Phases, Live
<1> QED
  BY <1>1, <1>2, <1>3, <1>4, <1>5, <1>6, <1>7, <1>8, <1>9, <1>10, <1>11, <1>12, <1>13,
     <1>14, <1>15, <1>16, <1>17, <1>18, <1>19, <1>20, <1>21 DEF Next, Step, Served

\* The tables and the handlers' variables keep their types, whatever is requested.
THEOREM TypeCorrect == Spec => []TypeOK
<1>1. TypeInv => TypeOK
  BY DEF TypeInv
<1> QED BY <1>1, TypeInit, TypeStep, PTL DEF Spec
-----------------------------------------------------------------------------
(***************************************************************************)
(* Stop rows.  That every stored path is a valid one rests on what the     *)
(* table of stops looks like at every moment: its rows come from one       *)
(* payload each, and a handler knows the payload of the row it has loaded  *)
(* by the key of its first stop.                                           *)
(***************************************************************************)

\* Every payload numbers its stops from 0, as the generator and the payloads of tests/
\* do.  The schema does not ask for it; without it two updates can interleave their
\* stops (run renumber).
NumberedFromZero ==
  \A r \in Requests : r.op \in {"create", "update"} /\ r.stops # None => r.stops[1].sequence = 0

\* A row of the table services is something else than no row.
RowsAreRows ==
  \A vehicle_id, stops, departure_battery :
    [vehicle_id |-> vehicle_id, stops |-> stops, departure_battery |-> departure_battery] # None

\* A handler that holds a vehicle's row.
HoldsRow(p) ==
  pc[p] \in {"traversal", "wipe", "wipe_wait", "battery", "siblings", "commit"}

\* A handler that has loaded the row of the service it changes or deletes.
RowLoaded(p) == pc[p] \notin {"idle", "load"} /\ req[p].op \in {"update", "delete"}

\* One that has loaded stops with it.
HasStops(p) == RowLoaded(p) /\ loaded[p].stops # << >>

\* A handler with a number under which nothing has been written.
Unwritten(p) == pc[p] \notin {"idle", "reload"}

\* A row whose stops are one accepted payload, inserted by one request.
Whole(row) ==
  \E b \in 1 .. begun, r \in Requests :
    /\ r.op \in {"create", "update"} /\ r.stops # None /\ ~PayloadErrors(r.stops)
    /\ row.stops = StopRows(b, r.stops)

Batch(row) == row.stops[1].batch

\* From its lock to its commit a handler has a valid payload.
PayloadsChecked == \A p \in Proc : HoldsRow(p) => ~PayloadErrors(req[p].stops)

\* The numbers of requests are the keys of what they insert: each is used once.
KeysUnique ==
  /\ \A p, q \in Proc : p # q /\ pc[p] # "idle" /\ pc[q] # "idle" => ticket[p] # ticket[q]
  /\ \A s \in Live : s <= begun
  /\ \A p \in Proc : RowLoaded(p) => req[p].service_id <= begun
  /\ \A p \in Proc : Unwritten(p) =>
       /\ \A s \in Live : Batch(services[s]) # ticket[p]
       /\ \A q \in Proc : HasStops(q) => Batch(loaded[q]) # ticket[p]
       /\ Creating(p) => services[ticket[p]] = None
       /\ Creating(p) => \A q \in Proc : RowLoaded(q) => req[q].service_id # ticket[p]

\* The rows, stored or loaded, come from one payload each.
RowsWhole ==
  /\ \A s \in Live : Whole(services[s])
  /\ \A p \in Proc : HasStops(p) => Whole(loaded[p])

\* The stops of a row change under a handler that has loaded it in one way only: they
\* are replaced by another request's.
LoadedStopsAged ==
  \A p \in Proc : HasStops(p) /\ req[p].service_id \in Live =>
    LET row == services[req[p].service_id]
    IN  Batch(row) = Batch(loaded[p]) => row.stops = loaded[p].stops

\* An update that found no stops came after the service was deleted, which is for good.
GoneForGood ==
  \A p \in Proc : RowLoaded(p) /\ req[p].op = "update" /\ pc[p] # "load_stops" =>
    loaded[p].stops # << >> \/ services[req[p].service_id] = None

RowsInv ==
  TypeInv /\ PayloadsChecked /\ KeysUnique /\ RowsWhole /\ LoadedStopsAged /\ GoneForGood

\* The payload of a create or an update passes its schema.
LEMMA RequestStops ==
  ASSUME NEW r \in Requests, r.op \in {"create", "update"}
  PROVE  /\ r.stops # None => SchemaAccepts(r.stops)
         /\ r.op = "create" => r.stops # None
BY RequestsAssumption DEF SchemaAccepts

\* What one request inserted is read back as it was sent.
LEMMA StopsReadBack ==
  ASSUME NEW stops, SchemaAccepts(stops), NEW b, NEW row, row.stops = StopRows(b, stops)
  PROVE  StopsIn(row) = stops /\ Batch(row) = b /\ 1 \in DOMAIN stops /\ row.stops # << >>
<1>1. /\ stops = [i \in 1 .. Len(stops) |-> stops[i]]
      /\ DOMAIN stops = 1 .. Len(stops) /\ Len(stops) \in Nat /\ Len(stops) >= 2
  BY DEF SchemaAccepts
<1>2. row.stops # << >>
  <2>1. 1 \in DOMAIN row.stops
    BY <1>1 DEF StopRows
  <2> QED BY <2>1
<1> QED BY <1>1, <1>2 DEF StopsIn, StopRows, Batch

\* What every other handler has, while one takes a step.
OthersWait(p) ==
  \A q \in Proc \ {p} :
    /\ pc'[q] = pc[q] /\ req'[q] = req[q] /\ ticket'[q] = ticket[q]
    /\ loaded'[q] = loaded[q] /\ block_traversal'[q] = block_traversal[q]

\* What another handler writes, and for which vehicle, does not change under it.
LEMMA OthersTargets ==
  ASSUME NEW p \in Proc, OthersWait(p), NEW q \in Proc \ {p}
  PROVE  /\ TargetVehicle(q)' = TargetVehicle(q) /\ Written(q)' = Written(q)
         /\ Creating(q)' = Creating(q)
BY DEF OthersWait, TargetVehicle, Written, Creating

\* A request that ends leaves the other handlers alone.
LEMMA AnswerWaits ==
  ASSUME TypeInv, NEW p \in Proc, NEW status, Answer(p, status)
  PROVE  /\ OthersWait(p) /\ pc'[p] = "idle" /\ loaded'[p] = None
         /\ reply'[p] = status /\ EndTransaction(p) /\ UNCHANGED begun
         /\ \A q \in Proc \ {p} : reply'[q] = reply[q] /\ dep_battery'[q] = dep_battery[q]
BY DEF Answer, Goto, OthersWait, TypeInv, TypeOK

\* With no service stored and nobody at work there is nothing to keep.
LEMMA RowsInit == Init => RowsInv
<1> SUFFICES ASSUME Init PROVE RowsInv
  OBVIOUS
<1>1. Live = {} /\ \A p \in Proc : pc[p] = "idle" /\ loaded[p] = None
  BY DEF Init, Live
<1> QED
  BY <1>1, TypeInit
     DEF RowsInv, PayloadsChecked, KeysUnique, RowsWhole, LoadedStopsAged, GoneForGood,
         HoldsRow, Unwritten, RowLoaded, HasStops

\* A transaction ends without a stop written: a refusal, a deletion, or an update that
\* leaves the stops alone.
LEMMA RowsEndStep ==
  ASSUME RowsInv, TypeInv', NEW p \in Proc, OthersWait(p), UNCHANGED begun,
         \/ pc'[p] = "idle"
         \/ pc'[p] = "reload" /\ pc[p] = "commit" /\ UNCHANGED <<loaded, req, ticket>>,
         \A s \in ServiceId : services'[s] # None =>
           services[s] # None /\ services'[s].stops = services[s].stops
  PROVE  RowsInv'
<1> USE DEF RowsInv, Unwritten
<1>1. /\ Live' \subseteq Live
      /\ \A s \in Live' : services'[s].stops = services[s].stops
      /\ \A s \in ServiceId : services[s] = None => services'[s] = None
  BY DEF Live
<1>2. \A q \in Proc : RowLoaded(q)' =>
        /\ RowLoaded(q) /\ loaded'[q] = loaded[q] /\ req'[q] = req[q]
        /\ pc'[q] = "load_stops" <=> pc[q] = "load_stops"
  BY DEF OthersWait, RowLoaded
<1>0. \A q \in Proc : HasStops(q)' => HasStops(q) /\ loaded'[q] = loaded[q] /\ req'[q] = req[q]
  BY <1>2 DEF HasStops
<1>3. KeysUnique'
  <2>1. \A q \in Proc : pc'[q] # "idle" => pc[q] # "idle" /\ ticket'[q] = ticket[q]
    BY DEF OthersWait
  <2>2. ASSUME NEW q \in Proc, Unwritten(q)'
        PROVE  /\ Unwritten(q) /\ ticket'[q] = ticket[q] /\ ticket[q] \in ServiceId
               /\ Creating(q)' = Creating(q)
    <3>1. q # p
      BY <2>2
    <3>2. Unwritten(q) /\ ticket'[q] = ticket[q] /\ Creating(q)' = Creating(q)
      BY <2>2, <3>1, OthersTargets DEF OthersWait
    <3>3. ticket[q] \in ServiceId
      BY <3>2, ParametersAssumption DEF TypeInv, TypeOK, Phases, ServiceId
    <3> QED BY <3>2, <3>3
  <2> QED BY <1>0, <1>1, <1>2, <2>1, <2>2 DEF KeysUnique, Batch
<1>4. RowsWhole'
  BY <1>0, <1>1 DEF RowsWhole, Whole
<1>5. LoadedStopsAged'
  <2> SUFFICES ASSUME NEW q \in Proc, HasStops(q)', req'[q].service_id \in Live'
               PROVE  Batch(services'[req'[q].service_id]) = Batch(loaded'[q]) =>
                        services'[req'[q].service_id].stops = loaded'[q].stops
    BY DEF LoadedStopsAged, Batch
  <2>1. HasStops(q) /\ loaded'[q] = loaded[q] /\ req'[q] = req[q]
    BY <1>0
  <2>2. req[q].service_id \in Live /\ services'[req[q].service_id].stops = services[req[q].service_id].stops
    BY <1>1, <2>1
  <2> QED BY <2>1, <2>2 DEF LoadedStopsAged, Batch
<1>6. PayloadsChecked'
  BY DEF PayloadsChecked, HoldsRow, OthersWait
<1>7. GoneForGood'
  <2> SUFFICES ASSUME NEW q \in Proc, RowLoaded(q)', req'[q].op = "update",
                      pc'[q] # "load_stops", loaded'[q].stops = << >>
               PROVE  services'[req'[q].service_id] = None
    BY DEF GoneForGood
  <2>1. RowLoaded(q) /\ loaded'[q] = loaded[q] /\ req'[q] = req[q] /\ pc[q] # "load_stops"
    BY <1>2
  <2>2. req[q] \in Requests /\ services[req[q].service_id] = None
    BY <2>1 DEF GoneForGood, RowLoaded, TypeInv, Phases
  <2> QED BY <1>1, <2>1, <2>2, RequestTyped
<1> QED BY <1>3, <1>4, <1>5, <1>6, <1>7

\* The end of a request that changes no service, or takes one away.
LEMMA RowsAnswerStep ==
  ASSUME RowsInv, TypeInv', NEW p \in Proc, NEW status, Answer(p, status),
         \A s \in ServiceId : services'[s] \in {services[s], None}
  PROVE  RowsInv'
BY AnswerWaits, RowsEndStep DEF RowsInv

\* A request answered without a write.
LEMMA RowsRefuseStep ==
  ASSUME RowsInv, TypeInv', NEW p \in Proc, NEW status, Refuse(p, status)
  PROVE  RowsInv'
BY RowsAnswerStep DEF Refuse, tables

\* A handler goes on to its next statement, having written nothing.
LEMMA RowsMoveStep ==
  ASSUME RowsInv, TypeInv', NEW p \in Proc, NEW label, label \notin {"idle", "load"},
         Unwritten(p), pc[p] \notin {"load", "load_stops"}, label # "load_stops", Goto(p, label),
         UNCHANGED <<services, request, loaded>>,
         HoldsRow(p)' => HoldsRow(p) \/ ~PayloadErrors(req[p].stops)
  PROVE  RowsInv'
<1> USE DEF RowsInv, TypeInv, TypeOK, Goto, HoldsRow, Unwritten, request
<1>1. /\ pc'[p] = label /\ \A q \in Proc \ {p} : pc'[q] = pc[q]
      /\ \A q \in Proc : /\ Creating(q)' = Creating(q)
                        /\ RowLoaded(q)' = RowLoaded(q) /\ HasStops(q)' = HasStops(q)
      /\ Live' = Live
  BY DEF Creating, Live, RowLoaded, HasStops
<1>2. PayloadsChecked'
  BY <1>1 DEF PayloadsChecked
<1>3. KeysUnique'
  BY <1>1 DEF KeysUnique
<1>4. RowsWhole'
  <2>1. \A row : Whole(row) => Whole(row)'
    BY DEF Whole
  <2> QED BY <1>1, <2>1 DEF RowsWhole
<1>5. LoadedStopsAged'
  BY <1>1 DEF LoadedStopsAged
<1>6. GoneForGood'
  BY <1>1 DEF GoneForGood
<1> QED BY <1>2, <1>3, <1>4, <1>5, <1>6

\* A request arrives: its number is new.
LEMMA RowsBeginStep ==
  ASSUME RowsInv, TypeInv', NEW p \in Proc, Begin(p)
  PROVE  RowsInv'
<1> USE DEF RowsInv, TypeInv, TypeOK, Begin, Goto, HoldsRow, Unwritten, tables, reads
<1> PICK r \in Requests : req' = [req EXCEPT ![p] = r] /\ Goto(p, FirstStatement(r.op))
  OBVIOUS
<1>1. /\ pc'[p] \notin {"idle", "traversal", "wipe", "wipe_wait", "battery", "siblings", "commit"}
      /\ ~RowLoaded(p)' /\ ~HasStops(p)' /\ ticket'[p] = begun + 1 /\ loaded' = loaded
  BY RequestTyped DEF FirstStatement, RowLoaded, HasStops
<1>2. \A q \in Proc \ {p} :
        /\ pc'[q] = pc[q] /\ req'[q] = req[q] /\ ticket'[q] = ticket[q]
        /\ Creating(q)' = Creating(q)
        /\ RowLoaded(q)' = RowLoaded(q) /\ HasStops(q)' = HasStops(q)
  BY DEF Creating, RowLoaded, HasStops
<1>3. Live' = Live
  BY DEF Live
<1>4. PayloadsChecked'
  BY <1>1, <1>2 DEF PayloadsChecked
<1>5. KeysUnique'
  <2>1. \A s \in Live : Batch(services[s]) <= begun
    BY RequestStops, StopsReadBack DEF RowsWhole, Whole
  <2>2. \A q \in Proc : HasStops(q) => Batch(loaded[q]) <= begun
    BY RequestStops, StopsReadBack DEF RowsWhole, Whole
  <2>3. begun + 1 \in ServiceId /\ begun \in Nat
    BY ParametersAssumption DEF ServiceId
  <2>4. \A q \in Proc : pc[q] # "idle" => ticket[q] <= begun /\ ticket[q] \in Nat
    BY <2>3 DEF Phases
  <2>5. \A q, q2 \in Proc : q # q2 /\ pc'[q] # "idle" /\ pc'[q2] # "idle" => ticket'[q] # ticket'[q2]
    BY <1>1, <1>2, <2>3, <2>4 DEF KeysUnique
  <2>6. \A s \in Live' : s <= begun'
    BY <1>3, <2>3 DEF KeysUnique, Live, ServiceId
  <2>7. \A q \in Proc : RowLoaded(q)' => req'[q].service_id \in Nat /\ req'[q].service_id <= begun'
    BY <1>1, <1>2, <2>3, RequestTyped DEF KeysUnique, ServiceId, Phases, RowLoaded
  <2>8. ASSUME NEW q \in Proc, Unwritten(q)'
        PROVE  /\ \A s \in Live' : Batch(services'[s]) # ticket'[q]
               /\ \A o \in Proc : HasStops(o)' => Batch(loaded'[o]) # ticket'[q]
               /\ Creating(q)' => services'[ticket'[q]] = None
               /\ Creating(q)' => \A o \in Proc : RowLoaded(o)' => req'[o].service_id # ticket'[q]
    <3>0. /\ services' = services /\ Live' = Live
          /\ \A o \in Proc : HasStops(o)' => HasStops(o) /\ loaded'[o] = loaded[o]
          /\ \A o \in Proc : RowLoaded(o)' => RowLoaded(o) /\ req'[o] = req[o]
      BY <1>1, <1>2, <1>3
    <3>1. CASE q = p
      <4>1. /\ ticket'[q] = begun + 1
            /\ \A s \in Live : s <= begun /\ s \in Nat
            /\ \A o \in Proc : RowLoaded(o) => req[o].service_id \in Nat /\ req[o].service_id <= begun
        BY <1>1, <1>3, <2>3, <2>6, <2>7, <3>0, <3>1, RequestTyped
           DEF KeysUnique, Live, ServiceId, RowLoaded, Phases
      <4>2. services[begun + 1] = None
        <5>1. begun + 1 \notin Live
          BY <2>3, <4>1
        <5> QED BY <2>3, <5>1 DEF Live
      <4> QED BY <2>1, <2>2, <2>3, <3>0, <4>1, <4>2
    <3>2. CASE q # p
      BY <1>2, <2>8, <3>0, <3>2 DEF KeysUnique
    <3> QED BY <3>1, <3>2
  <2> QED BY <2>5, <2>6, <2>7, <2>8 DEF KeysUnique
<1>6. RowsWhole'
  <2>1. ASSUME NEW row, Whole(row) PROVE Whole(row)'
    <3>1. begun' = begun + 1 /\ begun \in Nat
      BY ParametersAssumption
    <3>2. 1 .. begun \subseteq 1 .. begun'
      BY <3>1
    <3> QED BY <2>1, <3>2 DEF Whole
  <2>2. services' = services /\ loaded' = loaded
    OBVIOUS
  <2> QED BY <1>1, <1>2, <2>1, <2>2 DEF RowsWhole, Live
<1>7. LoadedStopsAged'
  BY <1>1, <1>2, <1>3 DEF LoadedStopsAged
<1>8. GoneForGood'
  BY <1>1, <1>2 DEF GoneForGood
<1> QED BY <1>4, <1>5, <1>6, <1>7, <1>8

\* A handler loads the row of the service it is about to change or delete.
LEMMA RowsLoadStep ==
  ASSUME RowsInv, TypeInv', NEW p \in Proc, LoadService(p),
         services[req[p].service_id] # None
  PROVE  RowsInv'
<1> USE DEF RowsInv, HoldsRow, Unwritten
<1>1. /\ pc[p] = "load" /\ pc'[p] = IF req[p].op = "delete" THEN "delete" ELSE "load_stops"
      /\ OthersWait(p) /\ UNCHANGED <<services, req, ticket, begun>> /\ Live' = Live
      /\ loaded'[p].stops = << >>
  <2>1. IsRow(services[req[p].service_id])
    BY RequestTyped DEF LoadService, TypeInv, TypeOK, Phases, Live
  <2>2. PICK row : row = [services[req[p].service_id] EXCEPT !.stops = << >>] /\ row.stops = << >>
    <3>1. [services[req[p].service_id] EXCEPT !.stops = << >>].stops = << >>
      BY <2>1 DEF IsRow
    <3> QED BY <3>1
  <2>3. PICK label : label = IF req[p].op = "delete" THEN "delete" ELSE "load_stops"
    OBVIOUS
  <2>4. /\ pc[p] = "load" /\ loaded' = [loaded EXCEPT ![p] = row] /\ Goto(p, label)
        /\ UNCHANGED <<services, req, ticket, begun, block_traversal>>
    BY <2>2, <2>3 DEF LoadService, request, tables
  <2> QED BY <2>2, <2>3, <2>4 DEF Goto, OthersWait, TypeInv, TypeOK, Live
<1>2. req[p].op \in {"update", "delete"} /\ req[p].service_id \in Live
  BY <1>1, RequestTyped DEF TypeInv, TypeOK, Phases, Live
<1>3. /\ ~HasStops(p)' /\ \A q \in Proc \ {p} : RowLoaded(q)' = RowLoaded(q) /\ HasStops(q)' = HasStops(q)
      /\ \A q \in Proc : Creating(q)' = Creating(q) /\ Unwritten(q)' = Unwritten(q)
  BY <1>1 DEF Creating, RowLoaded, HasStops, OthersWait
<1>4. PayloadsChecked'
  BY <1>1 DEF PayloadsChecked, OthersWait
<1>5. KeysUnique'
  <2>1. req[p].service_id <= begun /\ \A q \in Proc : Unwritten(q) /\ Creating(q) => req[p].service_id # ticket[q]
    BY <1>2 DEF KeysUnique, Live
  <2> QED BY <1>1, <1>3, <2>1 DEF KeysUnique, OthersWait
<1>6. RowsWhole'
  BY <1>1, <1>3 DEF RowsWhole, Whole, OthersWait
<1>7. LoadedStopsAged'
  BY <1>1, <1>3 DEF LoadedStopsAged, OthersWait
<1>8. GoneForGood'
  BY <1>1, <1>2, <1>3 DEF GoneForGood, OthersWait
<1> QED BY <1>4, <1>5, <1>6, <1>7, <1>8

\* It loads the stops, which are those of the row as it is by now.
LEMMA RowsLoadStopsStep ==
  ASSUME RowsInv, TypeInv', NEW p \in Proc, LoadStops(p)
  PROVE  RowsInv'
<1> DEFINE s == req[p].service_id
<1> USE DEF RowsInv, HoldsRow, Unwritten
<1>1. /\ pc[p] = "load_stops" /\ pc'[p] = "lock" /\ OthersWait(p)
      /\ UNCHANGED <<services, req, ticket, begun>> /\ Live' = Live
      /\ loaded'[p].stops = StoredStops(s) /\ req[p].op = "update" /\ s \in ServiceId
  <2>1. IsRow(loaded[p]) /\ req[p].op = "update" /\ s \in ServiceId
    BY RequestTyped DEF LoadStops, TypeInv, TypeOK, Phases
  <2>2. [loaded[p] EXCEPT !.stops = StoredStops(s)].stops = StoredStops(s)
    BY <2>1 DEF IsRow
  <2> QED BY <2>1, <2>2 DEF LoadStops, Goto, OthersWait, TypeInv, TypeOK, request, tables, Live
<1>2. /\ \A q \in Proc : RowLoaded(q)' = RowLoaded(q) /\ Creating(q)' = Creating(q)
      /\ \A q \in Proc : Unwritten(q)' = Unwritten(q)
      /\ \A q \in Proc \ {p} : HasStops(q)' = HasStops(q)
  BY <1>1 DEF Creating, RowLoaded, HasStops, OthersWait
<1>3. HasStops(p)' => s \in Live /\ loaded'[p].stops = services[s].stops
  BY <1>1 DEF HasStops, StoredStops, Live
<1>4. s \in Live => services[s].stops # << >>
  BY RequestStops, StopsReadBack DEF RowsWhole, Whole
<1> HIDE DEF s
<1>5. PayloadsChecked'
  BY <1>1 DEF PayloadsChecked, OthersWait
<1>6. KeysUnique'
  BY <1>1, <1>2, <1>3 DEF KeysUnique, OthersWait, Batch
<1>7. RowsWhole'
  BY <1>1, <1>2, <1>3 DEF RowsWhole, Whole, OthersWait
<1>8. LoadedStopsAged'
  <2>1. HasStops(p)' => services'[req'[p].service_id].stops = loaded'[p].stops
    BY <1>1, <1>3 DEF s
  <2> QED BY <1>1, <1>2, <2>1 DEF LoadedStopsAged, OthersWait
<1>9. GoneForGood'
  <2>1. loaded'[p].stops = << >> => services'[req'[p].service_id] = None
    BY <1>1, <1>4 DEF s, StoredStops, Live
  <2> QED BY <1>1, <1>2, <2>1 DEF GoneForGood, OthersWait
<1> QED BY <1>5, <1>6, <1>7, <1>8, <1>9

\* A handler commits the stops of its payload: to a new service, or in place of the
\* stops of one that exists.
LEMMA RowsCommitStep ==
  ASSUME RowsInv, TypeInv', NEW p \in Proc, pc[p] = "commit", req[p].stops # None,
         NEW row, row.stops = StopRows(ticket[p], req[p].stops),
         services' = [services EXCEPT ![Written(p)] = row],
         Creating(p) \/ services[Written(p)] # None,
         Goto(p, "reload"), UNCHANGED <<request, reads>>
  PROVE  RowsInv'
<1> DEFINE s == Written(p)
<1> USE DEF RowsInv, HoldsRow, Unwritten
<1>1. /\ pc'[p] = "reload" /\ OthersWait(p)
      /\ UNCHANGED <<req, ticket, begun, loaded>>
      /\ \A q \in Proc : /\ Creating(q)' = Creating(q)
                        /\ RowLoaded(q)' = RowLoaded(q) /\ HasStops(q)' = HasStops(q)
  BY DEF Goto, OthersWait, TypeInv, TypeOK, request, reads, Creating, RowLoaded, HasStops
<1>2. s \in ServiceId
  BY WriterTyped DEF TypeInv, Phases
<1>3. /\ services'[s] = row /\ \A t \in ServiceId \ {s} : services'[t] = services[t]
      /\ Live' \subseteq Live \cup {s}
  BY <1>2 DEF TypeInv, TypeOK, Live
<1>4. /\ req[p] \in Requests /\ req[p].op \in {"create", "update"}
      /\ SchemaAccepts(req[p].stops) /\ ~PayloadErrors(req[p].stops)
      /\ ticket[p] \in 1 .. begun
      /\ Batch(row) = ticket[p]
  BY RequestStops, StopsReadBack DEF TypeInv, Phases, PayloadsChecked
<1>5. PayloadsChecked'
  BY <1>1 DEF PayloadsChecked, OthersWait
<1>6. KeysUnique'
  <2>1. s <= begun
    BY <1>2, <1>4 DEF KeysUnique, Written, Creating, Live
  <2>2. ASSUME NEW q \in Proc, Unwritten(q)'
        PROVE  Unwritten(q) /\ q # p /\ ticket[q] # ticket[p] /\ ticket[q] \in ServiceId
               /\ (Creating(q) => ticket[q] # s)
    <3>1. Unwritten(q) /\ q # p /\ ticket[q] # ticket[p]
      BY <1>1, <2>2 DEF OthersWait, KeysUnique
    <3>2. ticket[q] \in ServiceId
      BY <3>1, ParametersAssumption DEF TypeInv, TypeOK, Phases, ServiceId
    <3>3. Creating(q) => ticket[q] # s
      BY <3>1 DEF KeysUnique, Written, Creating
    <3> QED BY <3>1, <3>2, <3>3
  <2>3. \A q, q2 \in Proc : q # q2 /\ pc'[q] # "idle" /\ pc'[q2] # "idle" => ticket'[q] # ticket'[q2]
    BY <1>1 DEF KeysUnique, OthersWait
  <2>4. \A t \in Live' : t <= begun'
    BY <1>1, <1>3, <2>1 DEF KeysUnique
  <2>5. \A q \in Proc : RowLoaded(q)' => req'[q].service_id <= begun'
    BY <1>1 DEF KeysUnique
  <2>6. ASSUME NEW q \in Proc, Unwritten(q)'
        PROVE  /\ \A t \in Live' : Batch(services'[t]) # ticket'[q]
               /\ \A o \in Proc : HasStops(o)' => Batch(loaded'[o]) # ticket'[q]
               /\ Creating(q)' => services'[ticket'[q]] = None
               /\ Creating(q)' => \A o \in Proc : RowLoaded(o)' => req'[o].service_id # ticket'[q]
    <3> HIDE DEF s
    <3> QED BY <1>1, <1>3, <1>4, <2>2, <2>6 DEF KeysUnique, Live
  <2> QED BY <2>3, <2>4, <2>5, <2>6 DEF KeysUnique
<1>7. RowsWhole'
  <2>1. Whole(row)'
    BY <1>1, <1>4 DEF Whole
  <2> QED BY <1>1, <1>3, <2>1 DEF RowsWhole, Whole, Live
<1>8. LoadedStopsAged'
  <2> SUFFICES ASSUME NEW q \in Proc, HasStops(q), req[q].service_id \in Live',
                      Batch(services'[req[q].service_id]) = Batch(loaded[q])
               PROVE  services'[req[q].service_id].stops = loaded[q].stops
    BY <1>1 DEF LoadedStopsAged
  <2>1. Batch(loaded[q]) # ticket[p]
    BY DEF KeysUnique
  <2>2. req[q].service_id # s
    BY <1>3, <1>4, <2>1
  <2> QED BY <1>3, <2>2 DEF LoadedStopsAged, Live
<1>9. GoneForGood'
  <2> SUFFICES ASSUME NEW q \in Proc, RowLoaded(q), req[q].op = "update",
                      pc'[q] # "load_stops", loaded[q].stops = << >>
               PROVE  services'[req[q].service_id] = None
    BY <1>1 DEF GoneForGood
  <2>1. services[req[q].service_id] = None /\ req[q].service_id \in ServiceId
    <3>1. pc[q] # "load_stops" /\ req[q] \in Requests
      BY <1>1 DEF OthersWait, RowLoaded, TypeInv, Phases
    <3> QED BY <3>1, RequestTyped DEF GoneForGood
  <2>2. req[q].service_id # s
    BY <2>1 DEF KeysUnique, Written
  <2> QED BY <1>3, <2>1, <2>2
<1> QED BY <1>5, <1>6, <1>7, <1>8, <1>9

\* An update replaces all stops of its service or fails: a row that another update has
\* inserted since it loaded the service has the sequence of one of its own.  So the row
\* it replaces is the one it loaded.
LEMMA UpdateReplacesStops ==
  ASSUME NumberedFromZero, RowsInv, NEW p \in Proc, pc[p] = "commit",
         req[p].op = "update", req[p].stops # None, ~SequenceClash(p),
         services[req[p].service_id] # None
  PROVE  /\ StopsAfterUpdate(p) = StopRows(ticket[p], req[p].stops)
         /\ Batch(services[req[p].service_id]) = Batch(loaded[p])
<1> DEFINE row == services[req[p].service_id]
<1> USE DEF RowsInv
<1>1. req[p] \in Requests /\ HasStops(p) /\ req[p].service_id \in Live
  BY RequestTyped DEF TypeInv, Phases, Live, HasStops, RowLoaded, GoneForGood
<1>2. PICK b \in 1 .. begun, r \in Requests :
        /\ r.op \in {"create", "update"} /\ r.stops # None /\ row.stops = StopRows(b, r.stops)
  BY <1>1 DEF RowsWhole, Whole
<1>3. PICK b2 \in 1 .. begun, r2 \in Requests :
        /\ r2.op \in {"create", "update"} /\ r2.stops # None
        /\ loaded[p].stops = StopRows(b2, r2.stops)
  BY <1>1 DEF RowsWhole, Whole
<1>4. Batch(row) = b /\ Batch(loaded[p]) = b2 /\ 1 \in DOMAIN r.stops /\ 1 \in DOMAIN req[p].stops
  <2>1. 1 \in DOMAIN r.stops /\ Batch(row) = b /\ Batch(loaded[p]) = b2
    BY <1>2, <1>3, RequestStops, StopsReadBack
  <2>2. 1 \in DOMAIN req[p].stops
    BY <1>1, RequestStops DEF SchemaAccepts
  <2> QED BY <2>1, <2>2
<1>5. CASE b = b2
  <2>1. RowsKept(p) = {}
    BY <1>1, <1>4, <1>5 DEF RowsKept, LoadedStopsAged
  <2> QED BY <1>4, <1>5, <2>1 DEF StopsAfterUpdate
<1>6. CASE b # b2
  <2>1. row.stops[1] \in Range(row.stops) /\ row.stops[1] = [batch |-> b, stop |-> r.stops[1]]
    BY <1>2, <1>4 DEF Range, StopRows
  <2>2. \A x \in Range(loaded[p].stops) : x.batch = b2
    BY <1>3 DEF Range, StopRows
  <2>3. row.stops[1] \in RowsKept(p)
    BY <1>6, <2>1, <2>2 DEF RowsKept
  <2>4. row.stops[1].stop.sequence = req[p].stops[1].sequence
    BY <1>1, <1>2, <2>1 DEF NumberedFromZero
  <2> QED BY <1>4, <2>3, <2>4 DEF SequenceClash
<1> QED BY <1>5, <1>6

\* What an update that succeeds does to the tables of services.
LEMMA UpdateCommits ==
  ASSUME NumberedFromZero, RowsInv, NEW p \in Proc, CommitUpdate(p), ~Refuse(p, 500)
  PROVE  /\ pc[p] = "commit" /\ req[p].op = "update" /\ ~Creating(p)
         /\ req[p].service_id \in ServiceId /\ Written(p) = req[p].service_id
         /\ services[req[p].service_id] # None /\ HasStops(p)
         /\ services' = [services EXCEPT ![req[p].service_id] = UpdatedRow(p)]
         /\ UpdatedRow(p).stops = IF req[p].stops # None THEN StopRows(ticket[p], req[p].stops)
                                  ELSE services[req[p].service_id].stops
         /\ events' = (events \ wiped[p]) \cup (IF Rechecked(p) THEN {NewConsumeEvent(p)} ELSE {})
         /\ EndTransaction(p) /\ Goto(p, "reload")
         /\ UNCHANGED <<vehicles, block_configs, request, reads, reply>>
<1>1. /\ pc[p] = "commit" /\ req[p].op = "update" /\ ~SequenceClash(p)
      /\ services[req[p].service_id] # None
      /\ services' = [services EXCEPT ![req[p].service_id] = UpdatedRow(p)]
      /\ events' = (events \ wiped[p]) \cup (IF Rechecked(p) THEN {NewConsumeEvent(p)} ELSE {})
      /\ EndTransaction(p) /\ Goto(p, "reload")
      /\ UNCHANGED <<vehicles, block_configs, request, reads, reply>>
  BY DEF CommitUpdate
<1>2. /\ ~Creating(p) /\ Written(p) = req[p].service_id
      /\ req[p].service_id \in ServiceId /\ HasStops(p)
  BY <1>1, RequestTyped
     DEF Creating, Written, RowsInv, TypeInv, Phases, HasStops, RowLoaded, GoneForGood
<1>3. UpdatedRow(p).stops = StopsAfterUpdate(p)
  BY DEF UpdatedRow
<1>4. StopsAfterUpdate(p) = IF req[p].stops # None THEN StopRows(ticket[p], req[p].stops)
                            ELSE services[req[p].service_id].stops
  <2>1. CASE req[p].stops # None
    BY <1>1, <2>1, UpdateReplacesStops
  <2>2. CASE req[p].stops = None
    BY <2>2 DEF StopsAfterUpdate
  <2> QED BY <2>1, <2>2
<1> QED BY <1>1, <1>2, <1>3, <1>4

\* Every step keeps the rows whole.
LEMMA RowsStep ==
  ASSUME NumberedFromZero, RowsInv, [Next]_vars
  PROVE  RowsInv'
<1>t. TypeInv /\ TypeInv'
  BY TypeStep DEF RowsInv
<1>1. ASSUME NEW p \in Proc, Begin(p) PROVE RowsInv'
  BY <1>t, <1>1, RowsBeginStep
<1>2. ASSUME NEW p \in Proc, LoadService(p) PROVE RowsInv'
  BY <1>t, <1>2, RowsLoadStep, RowsRefuseStep DEF LoadService
<1>21. ASSUME NEW p \in Proc, LoadStops(p) PROVE RowsInv'
  BY <1>t, <1>21, RowsLoadStopsStep
<1>3. ASSUME NEW p \in Proc, LockVehicle(p) PROVE RowsInv'
  <2>1. CASE \E status \in Statuses : Refuse(p, status)
    BY <1>t, <2>1, RowsRefuseStep
  <2>2. CASE ~\E status \in Statuses : Refuse(p, status)
    <3>1. /\ pc[p] = "lock" /\ ~PayloadErrors(req[p].stops) /\ Goto(p, "traversal")
          /\ UNCHANGED <<services, request, loaded>>
      BY <1>3, <2>2 DEF LockVehicle, Statuses, tables, reads
    <3> QED BY <1>t, <3>1, RowsMoveStep DEF Unwritten
  <2> QED BY <2>1, <2>2
<1>4. ASSUME NEW p \in Proc, ReadTraversal(p) PROVE RowsInv'
  <2> DEFINE label == IF Creating(p) THEN "battery" ELSE IF Rechecked(p) THEN "wipe" ELSE "commit"
  <2>1. /\ Goto(p, label) /\ UNCHANGED <<services, request, loaded>>
        /\ pc[p] = "traversal" /\ label \notin {"idle", "load", "load_stops"}
    BY <1>4 DEF ReadTraversal, tables
  <2> HIDE DEF label
  <2> QED BY <1>t, <2>1, RowsMoveStep DEF Unwritten, HoldsRow
<1>5. ASSUME NEW p \in Proc, WipeConsume(p) PROVE RowsInv'
  <2> DEFINE label == IF EventsToWipe(p) \cap WipedByOthers(p) = {} THEN "battery" ELSE "wipe_wait"
  <2>1. /\ Goto(p, label) /\ UNCHANGED <<services, request, loaded>>
        /\ pc[p] = "wipe" /\ label \notin {"idle", "load", "load_stops"}
    BY <1>5 DEF WipeConsume, tables, reads
  <2> HIDE DEF label
  <2> QED BY <1>t, <2>1, RowsMoveStep DEF Unwritten, HoldsRow
<1>6. ASSUME NEW p \in Proc, ResumeWipe(p) PROVE RowsInv'
  BY <1>t, <1>6, RowsMoveStep DEF ResumeWipe, Unwritten, HoldsRow, tables, reads
<1>7. ASSUME NEW p \in Proc, ReadBattery(p) PROVE RowsInv'
  BY <1>t, <1>7, RowsRefuseStep, RowsMoveStep DEF ReadBattery, Unwritten, HoldsRow, tables
<1>8. ASSUME NEW p \in Proc, CheckSiblings(p) PROVE RowsInv'
  BY <1>t, <1>8, RowsRefuseStep, RowsMoveStep DEF CheckSiblings, Unwritten, HoldsRow, tables, reads
<1>9. ASSUME NEW p \in Proc, CommitCreate(p) PROVE RowsInv'
  <2>1. req[p].stops # None /\ Written(p) = ticket[p]
    BY <1>t, <1>9, RequestStops DEF CommitCreate, Creating, Written, TypeInv, Phases
  <2> QED BY <1>t, <1>9, <2>1, RowsCommitStep DEF CommitCreate
<1>10. ASSUME NEW p \in Proc, CommitUpdate(p) PROVE RowsInv'
  <2> DEFINE s == req[p].service_id
             row == UpdatedRow(p)
  <2>1. CASE Refuse(p, 500)
    BY <1>t, <2>1, RowsRefuseStep
  <2>2. CASE ~Refuse(p, 500)
    <3>1. /\ pc[p] = "commit" /\ s \in ServiceId /\ Written(p) = s
          /\ services[s] # None /\ services' = [services EXCEPT ![s] = row]
          /\ row.stops = IF req[p].stops # None THEN StopRows(ticket[p], req[p].stops)
                         ELSE services[s].stops
          /\ Goto(p, "reload") /\ UNCHANGED <<request, reads>>
      BY <1>10, <2>2, UpdateCommits
    <3> HIDE DEF row
    <3>2. CASE req[p].stops # None
      BY <1>t, <3>1, <3>2, RowsCommitStep
    <3>3. CASE req[p].stops = None
      <4>1. OthersWait(p) /\ pc'[p] = "reload" /\ UNCHANGED <<loaded, req, ticket, begun>>
        BY <1>t, <3>1 DEF OthersWait, Goto, TypeInv, TypeOK, request, reads
      <4>2. \A t \in ServiceId : services'[t] # None =>
              services[t] # None /\ services'[t].stops = services[t].stops
        BY <1>t, <3>1, <3>3 DEF TypeInv, TypeOK
      <4> QED BY <1>t, <3>1, <4>1, <4>2, RowsEndStep
    <3> QED BY <3>2, <3>3
  <2> QED BY <2>1, <2>2
<1>11. ASSUME NEW p \in Proc, ReloadService(p) PROVE RowsInv'
  BY <1>t, <1>11, RowsRefuseStep DEF ReloadService
<1>12. ASSUME NEW p \in Proc, DeleteServiceRow(p) PROVE RowsInv'
  <2>1. CASE Refuse(p, 204)
    BY <1>t, <2>1, RowsRefuseStep
  <2>2. CASE ~Refuse(p, 204)
    BY <1>t, <1>12, <2>2, RowsMoveStep
       DEF DeleteServiceRow, Unwritten, HoldsRow, Goto, TypeInv, TypeOK, tables, reads
  <2> QED BY <2>1, <2>2
<1>13. ASSUME NEW p \in Proc, CascadeAndCommit(p) PROVE RowsInv'
  BY <1>t, <1>13, RowsAnswerStep DEF CascadeAndCommit, TypeInv, TypeOK
<1>14. ASSUME NEW p \in Proc, DeadlockAbort(p) PROVE RowsInv'
  BY <1>t, <1>14, RowsRefuseStep DEF DeadlockAbort
<1>15. ASSUME NEW p \in Proc, ReadLevel(p) PROVE RowsInv'
  <2>1. CASE Refuse(p, 404)
    BY <1>t, <2>1, RowsRefuseStep
  <2>2. CASE ~Refuse(p, 404)
    BY <1>t, <1>15, <2>2, RowsMoveStep
       DEF ReadLevel, Unwritten, HoldsRow, Goto, TypeInv, TypeOK, tables
  <2> QED BY <2>1, <2>2
<1>16. ASSUME NEW p \in Proc, AdjustLevel(p) PROVE RowsInv'
  BY <1>t, <1>16, RowsAnswerStep, RowsRefuseStep DEF AdjustLevel
<1>17. ASSUME NEW p \in Proc, CountServices(p) PROVE RowsInv'
  <2>1. CASE \E status \in Statuses : Refuse(p, status)
    BY <1>t, <2>1, RowsRefuseStep
  <2>2. CASE ~\E status \in Statuses : Refuse(p, status)
    <3>1. /\ pc[p] = "count" /\ Goto(p, "remove") /\ UNCHANGED <<services, request, loaded>>
      BY <1>17, <2>2 DEF CountServices, Statuses, tables, reads
    <3> QED BY <1>t, <3>1, RowsMoveStep DEF Unwritten, HoldsRow, Goto, TypeInv, TypeOK
  <2> QED BY <2>1, <2>2
<1>18. ASSUME NEW p \in Proc, RemoveVehicle(p) PROVE RowsInv'
  BY <1>t, <1>18, RowsAnswerStep, RowsRefuseStep DEF RemoveVehicle
<1>19. ASSUME NEW p \in Proc, UpdateBlock(p) PROVE RowsInv'
  BY <1>t, <1>19, RowsAnswerStep DEF UpdateBlock
<1>20. CASE UNCHANGED vars
  <2>1. UNCHANGED <<services, pc, req, ticket, begun, loaded>>
    BY <1>20 DEF vars, tables, request, reads
  <2> QED
    BY <1>t, <2>1
       DEF RowsInv, PayloadsChecked, KeysUnique, RowsWhole, Whole, LoadedStopsAged, GoneForGood,
           HoldsRow, Unwritten, RowLoaded, HasStops, Creating, Live
<1> QED
  BY <1>1, <1>2, <1>3, <1>4, <1>5, <1>6, <1>7, <1>8, <1>9, <1>10, <1>11, <1>12, <1>13,
     <1>14, <1>15, <1>16, <1>17, <1>18, <1>19, <1>20, <1>21 DEF Next, Step, Served

\* A whole row reads back as one accepted payload.
LEMMA WholePath ==
  ASSUME NEW row, Whole(row)
  PROVE  SchemaAccepts(StopsIn(row)) /\ Accepts(StopsIn(row))
<1> PICK b \in 1 .. begun, r \in Requests :
      /\ r.op \in {"create", "update"} /\ r.stops # None /\ ~PayloadErrors(r.stops)
      /\ row.stops = StopRows(b, r.stops)
  BY DEF Whole
<1> QED BY RequestStops, StopsReadBack DEF PayloadErrors, Accepts

\* The times of a payload that passes its schema are numbers or missing.
LEMMA SchemaTyped ==
  ASSUME NEW stops, SchemaAccepts(stops)
  PROVE  TimesTyped(stops)
<1> DEFINE Stop == [sequence : Nat, node_id : STRING,
                    arrival_time : Nat \cup {None}, departure_time : Nat \cup {None}]
<1>1. stops \in Seq(Stop)
  BY DEF SchemaAccepts
<1>2. /\ Len(stops) \in Nat /\ DOMAIN stops = 1 .. Len(stops)
      /\ \A i \in DOMAIN stops : stops[i] \in Stop
  <2> HIDE DEF Stop
  <2> QED BY <1>1
<1> QED BY <1>2 DEF TimesTyped

\* However long it is, an accepted payload runs through all its nodes, with the
\* traversal times of any configuration.
LEMMA PayloadRuns ==
  ASSUME NEW stops, SchemaAccepts(stops), Accepts(stops),
         NEW traversal \in [BLOCKS -> Nat \ {0}]
  PROVE  RunsThrough(stops, traversal, SnapshotStops(stops, traversal), Len(stops))
<1>1. \A i \in DOMAIN stops : TraversalSeconds(stops[i].node_id, traversal) \in Nat
  BY DEF TraversalSeconds
<1> QED BY <1>1, SchemaTyped, AcceptedRunsThrough, ParametersAssumption

\* Every stored service has a window: no accepted payload is without a known time.
LEMMA RowsTimed ==
  ASSUME RowsInv
  PROVE  Timed = Live
<1> SUFFICES ASSUME NEW s \in Live
             PROVE  SnapshotStops(StopsIn(services[s]), block_configs) # << >>
  BY DEF Timed
<1>1. SchemaAccepts(StopsIn(services[s])) /\ Accepts(StopsIn(services[s]))
  BY WholePath DEF RowsInv, RowsWhole
<1>2. PICK stops : stops = StopsIn(services[s])
  OBVIOUS
<1>3. Len(SnapshotStops(stops, block_configs)) = Len(stops) /\ Len(stops) >= 2
  BY <1>1, <1>2, PayloadRuns DEF RowsInv, TypeInv, TypeOK, RunsThrough, SchemaAccepts
<1> QED BY <1>2, <1>3

\* As long as payloads number their stops from 0, every stored path is one that
\* validate_path and _timing_errors accept, whatever else is requested and however many
\* updates of one service run side by side: the keys of the deleted stops and the unique
\* sequences leave an update no way to mix its stops with another's.
THEOREM StoredPathsStayValid ==
  ASSUME NumberedFromZero
  PROVE  Spec => []StoredPathsAreValid
<1>1. RowsInv /\ [Next]_vars => RowsInv'
  BY RowsStep
<1>2. RowsInv => StoredPathsAreValid
  BY WholePath DEF RowsInv, RowsWhole, StoredPathsAreValid, Accepts
<1> QED BY <1>1, <1>2, RowsInit, PTL DEF Spec
-----------------------------------------------------------------------------
(***************************************************************************)
(* One handler.  Every 500 of the write path needs somebody else: a        *)
(* service or a sequence that changed between load and commit, a vehicle   *)
(* that got a service after the count, a circle of waiting transactions.   *)
(***************************************************************************)

OneHandler == \A p, q \in Proc : p = q

\* The labels at which an update has loaded its row and not committed.
Updating == {"lock", "traversal", "wipe", "wipe_wait", "battery", "siblings", "commit"}

\* What a lone handler has read is still there.
ReadsHold ==
  /\ DOMAIN pc = Proc /\ DOMAIN req = Proc /\ DOMAIN loaded = Proc /\ DOMAIN reply = Proc
  /\ DOMAIN block_traversal = Proc
  /\ \A p \in Proc :
       /\ pc[p] = "load_stops" =>
            /\ services[req[p].service_id] # None
            /\ loaded[p] = [services[req[p].service_id] EXCEPT !.stops = << >>]
       /\ pc[p] \in Updating /\ req[p].op = "update" =>
            loaded[p] # None /\ services[req[p].service_id] = loaded[p]
       /\ pc[p] \in Updating \ {"lock", "traversal"} => block_traversal[p] = block_configs
       /\ pc[p] = "remove" => ~HasServices(req[p].vehicle_id)
       /\ reply[p] # 500

\* What it meets in the tables: rows with the columns of a service, whose stops have times.
IsRecord(row) ==
  row = [vehicle_id |-> row.vehicle_id, stops |-> row.stops,
         departure_battery |-> row.departure_battery]

MeetsRows(p) ==
  /\ pc[p] = "load_stops" => IsRecord(services[req[p].service_id])
  /\ pc[p] = "battery" => StopTuples(p) # << >>

\* A lone handler answers no request with 500.
LEMMA AloneStep ==
  ASSUME OneHandler, ReadsHold, NEW p \in Proc, MeetsRows(p), Begin(p) \/ Step(p)
  PROVE  ReadsHold'
<1> USE DEF ReadsHold, Updating
<1>a. ASSUME NEW status, status # 500, Answer(p, status)
      PROVE  ReadsHold'
  BY <1>a DEF OneHandler, Answer, Goto
<1>r. ASSUME NEW status, status # 500, Refuse(p, status)
      PROVE  ReadsHold'
  BY <1>a, <1>r DEF Refuse
<1>m. ASSUME NEW label, Goto(p, label), UNCHANGED <<services, block_configs, req, loaded, reply>>,
             label \in Updating => pc[p] \in Updating, label \notin {"load_stops", "remove"},
             \/ label \notin Updating \ {"lock", "traversal"} /\ DOMAIN block_traversal' = Proc
             \/ pc[p] \notin {"lock", "traversal"} /\ UNCHANGED block_traversal
             \/ block_traversal' = [block_traversal EXCEPT ![p] = block_configs]
      PROVE  ReadsHold'
  BY <1>m DEF OneHandler, Goto
<1>1. CASE Begin(p)
  <2>1. PICK r \in Requests : req' = [req EXCEPT ![p] = r] /\ Goto(p, FirstStatement(r.op))
    BY <1>1 DEF Begin
  <2>2. /\ FirstStatement(r.op) \in {"load", "lock", "read_level", "count", "block"}
        /\ FirstStatement(r.op) \in Updating => r.op # "update"
    BY RequestTyped DEF FirstStatement
  <2>3. pc'[p] = FirstStatement(r.op) /\ req'[p] = r /\ reply'[p] = 0
    BY <1>1, <2>1 DEF Begin, Goto
  <2> QED BY <1>1, <2>1, <2>2, <2>3 DEF Begin, Goto, OneHandler, tables, reads
<1>2. CASE LoadService(p)
  <2>1. CASE services[req[p].service_id] # None
    <3>1. /\ loaded'[p] = [services[req[p].service_id] EXCEPT !.stops = << >>]
          /\ pc'[p] \in {"delete", "load_stops"} /\ UNCHANGED <<services, req, reply, block_traversal>>
          /\ DOMAIN loaded' = Proc /\ DOMAIN pc' = Proc
      BY <1>2, <2>1 DEF LoadService, Goto, tables, request
    <3> QED BY <2>1, <3>1 DEF OneHandler
  <2> QED BY <1>2, <1>r, <2>1 DEF LoadService
<1>20. CASE LoadStops(p)
  <2>1. PICK s, row : s = req[p].service_id /\ row = services[s]
    OBVIOUS
  <2>2. row # None /\ loaded[p] = [row EXCEPT !.stops = << >>] /\ IsRecord(row)
    BY <1>20, <2>1 DEF LoadStops, MeetsRows
  <2>3. [[row EXCEPT !.stops = << >>] EXCEPT !.stops = row.stops] = row
    BY <2>2 DEF IsRecord
  <2>4. loaded'[p] = row
    BY <1>20, <2>1, <2>2, <2>3 DEF LoadStops, StoredStops
  <2>5. /\ pc'[p] = "lock" /\ UNCHANGED <<services, req, reply, block_traversal>>
        /\ DOMAIN loaded' = Proc /\ DOMAIN pc' = Proc
    BY <1>20 DEF LoadStops, Goto, tables, request
  <2> QED BY <2>1, <2>2, <2>4, <2>5 DEF OneHandler
<1>3. CASE LockVehicle(p)
  <2>1. CASE pc[p] = "lock" /\ Goto(p, "traversal") /\ UNCHANGED <<tables, wiped, request, reads, reply>>
    BY <1>m, <2>1 DEF tables, request, reads
  <2> QED BY <1>3, <1>r, <2>1 DEF LockVehicle
<1>4. CASE ReadTraversal(p)
  <2> DEFINE label == IF Creating(p) THEN "battery" ELSE IF Rechecked(p) THEN "wipe" ELSE "commit"
  <2>1. Goto(p, label) /\ pc[p] = "traversal" /\ label \notin {"load_stops", "remove"}
    BY <1>4 DEF ReadTraversal
  <2> HIDE DEF label
  <2> QED BY <1>4, <1>m, <2>1 DEF ReadTraversal, tables, request
<1>5. CASE WipeConsume(p)
  <2> DEFINE label == IF EventsToWipe(p) \cap WipedByOthers(p) = {} THEN "battery" ELSE "wipe_wait"
  <2>1. Goto(p, label) /\ pc[p] = "wipe" /\ label \notin {"load_stops", "remove"}
    BY <1>5 DEF WipeConsume
  <2> HIDE DEF label
  <2> QED BY <1>5, <1>m, <2>1 DEF WipeConsume, tables, request, reads
<1>6. CASE ResumeWipe(p)
  BY <1>6, <1>m DEF ResumeWipe, tables, request, reads
<1>7. CASE ReadBattery(p)
  BY <1>7, <1>m DEF ReadBattery, MeetsRows, tables, request
<1>8. CASE CheckSiblings(p)
  BY <1>8, <1>m, <1>r DEF CheckSiblings, tables, request, reads
<1>9. CASE CommitCreate(p)
  BY <1>9 DEF CommitCreate, Goto, OneHandler, request, reads
<1>10. CASE CommitUpdate(p)
  <2> DEFINE s == req[p].service_id
  <2>1. services[s] # None /\ services[s] = loaded[p]
    BY <1>10 DEF CommitUpdate
  <2>2. ~SequenceClash(p)
    BY <2>1 DEF SequenceClash, RowsKept
  <2> QED BY <1>10, <2>1, <2>2 DEF CommitUpdate, Goto, OneHandler, request, reads
<1>11. CASE ReloadService(p)
  BY <1>11, <1>r DEF ReloadService
<1>12. CASE DeleteServiceRow(p)
  <2>1. CASE pc[p] = "delete" /\ Goto(p, "cascade") /\ UNCHANGED <<tables, lock, wiped, request, reads, reply>>
    BY <1>m, <2>1 DEF tables, request, reads
  <2> QED BY <1>12, <1>r, <2>1 DEF DeleteServiceRow
<1>13. CASE CascadeAndCommit(p)
  BY <1>13, <1>a DEF CascadeAndCommit
<1>14. CASE DeadlockAbort(p)
  BY <1>14 DEF DeadlockAbort, WaitsInCircle, OneHandler
<1>15. CASE ReadLevel(p)
  BY <1>15, <1>m, <1>r DEF ReadLevel, tables, request
<1>16. CASE AdjustLevel(p)
  BY <1>16, <1>a, <1>r DEF AdjustLevel
<1>17. CASE CountServices(p)
  <2> DEFINE v == req[p].vehicle_id
  <2>1. CASE /\ ~HasServices(v) /\ Goto(p, "remove")
             /\ UNCHANGED <<tables, lock, wiped, request, reads, reply>>
    <3>1. /\ pc'[p] = "remove" /\ ~HasServices(req[p].vehicle_id)' /\ UNCHANGED <<reply, block_traversal>>
          /\ DOMAIN loaded' = Proc /\ DOMAIN pc' = Proc /\ DOMAIN req' = Proc
      BY <2>1 DEF Goto, tables, request, reads, HasServices, Live
    <3> QED BY <3>1 DEF OneHandler
  <2> QED BY <1>17, <1>r, <2>1 DEF CountServices
<1>18. CASE RemoveVehicle(p)
  BY <1>18, <1>a, <1>r DEF RemoveVehicle, StillReferenced
<1>19. CASE UpdateBlock(p)
  <2>1. Answer(p, 200) /\ 200 # 500
    BY <1>19 DEF UpdateBlock
  <2> QED BY <1>a, <2>1
<1> QED
  BY <1>1, <1>2, <1>3, <1>4, <1>5, <1>6, <1>7, <1>8, <1>9, <1>10, <1>11, <1>12, <1>13,
     <1>14, <1>15, <1>16, <1>17, <1>18, <1>19, <1>20 DEF Step
-----------------------------------------------------------------------------
(***************************************************************************)
(* References.  A vehicle that a handler writes for was there when its row *)
(* was locked, and whoever deletes a vehicle waits for the lock.           *)
(***************************************************************************)
VehiclesHeld ==
  \A p \in Proc : HoldsRow(p) => lock[TargetVehicle(p)] = p /\ TargetVehicle(p) \in vehicles

ReferencesInv == TypeInv /\ VehiclesHeld /\ ReferencesHold

LEMMA ReferencesInit == Init => ReferencesInv
<1> SUFFICES ASSUME Init PROVE ReferencesInv
  OBVIOUS
<1> QED
  BY TypeInit DEF Init, ReferencesInv, VehiclesHeld, HoldsRow, ReferencesHold, Live,
                  emit_baseline, Event

\* A step of one handler leaves the others their rows and the vehicles of those.
LEMMA HeldKept ==
  ASSUME ReferencesInv, NEW p \in Proc, OthersWait(p),
         \A v \in Vehicle : lock[v] \notin {p, None} => lock'[v] = lock[v],
         \A v \in vehicles : lock[v] # None => v \in vehicles',
         HoldsRow(p)' => lock'[TargetVehicle(p)'] = p /\ TargetVehicle(p)' \in vehicles'
  PROVE  VehiclesHeld'
<1> SUFFICES ASSUME NEW q \in Proc, HoldsRow(q)'
             PROVE  lock'[TargetVehicle(q)'] = q /\ TargetVehicle(q)' \in vehicles'
  BY DEF VehiclesHeld
<1>1. CASE q = p
  BY <1>1
<1>2. CASE q # p
  <2>1. HoldsRow(q) /\ TargetVehicle(q)' = TargetVehicle(q)
    BY <1>2, OthersTargets DEF OthersWait, HoldsRow
  <2>2. lock[TargetVehicle(q)] = q /\ TargetVehicle(q) \in vehicles
    BY <2>1 DEF ReferencesInv, VehiclesHeld
  <2>3. TargetVehicle(q) \in Vehicle /\ q # None
    BY <2>2, ParametersAssumption DEF ReferencesInv, TypeInv, TypeOK
  <2> QED BY <1>2, <2>1, <2>2, <2>3
<1> QED BY <1>1, <1>2

\* The end of a transaction that leaves the referenced vehicles alone.
LEMMA EndHolds ==
  ASSUME ReferencesInv, NEW p \in Proc, OthersWait(p), EndTransaction(p), ~HoldsRow(p)',
         \A v \in vehicles : lock[v] # None => v \in vehicles'
  PROVE  VehiclesHeld'
BY HeldKept DEF EndTransaction, LocksWithout

\* A handler that ends its request.
LEMMA AnswerEnds ==
  ASSUME TypeInv, NEW p \in Proc, NEW status, Answer(p, status)
  PROVE  OthersWait(p) /\ EndTransaction(p) /\ ~HoldsRow(p)'
BY AnswerWaits DEF HoldsRow

\* Nothing refers to anything new.
LEMMA SameReferences ==
  ASSUME ReferencesHold, vehicles' = vehicles, events' \subseteq events,
         \A s \in Live' : s \in Live /\ services'[s].vehicle_id = services[s].vehicle_id
  PROVE  ReferencesHold'
BY DEF ReferencesHold

LEMMA RefuseRefers ==
  ASSUME ReferencesInv, NEW p \in Proc, NEW status, Refuse(p, status)
  PROVE  VehiclesHeld' /\ ReferencesHold'
<1>1. vehicles' = vehicles /\ services' = services /\ events' = events
  BY DEF Refuse, tables
<1> QED
  BY <1>1, AnswerEnds, EndHolds, SameReferences DEF Refuse, ReferencesInv, Live

\* A handler that goes on to its next statement and writes nothing.
LEMMA MoveRefers ==
  ASSUME ReferencesInv, NEW p \in Proc, NEW label, Goto(p, label),
         UNCHANGED <<vehicles, services, events, lock, req, ticket>>,
         \A q \in Proc \ {p} : loaded'[q] = loaded[q] /\ block_traversal'[q] = block_traversal[q],
         HoldsRow(p)' => HoldsRow(p) /\ loaded'[p] = loaded[p]
  PROVE  VehiclesHeld' /\ ReferencesHold'
<1>1. OthersWait(p)
  BY DEF OthersWait, Goto, ReferencesInv, TypeInv, TypeOK
<1>2. HoldsRow(p)' => TargetVehicle(p)' = TargetVehicle(p)
  BY DEF TargetVehicle
<1>3. VehiclesHeld'
  BY <1>1, <1>2, HeldKept DEF ReferencesInv, VehiclesHeld
<1> QED BY <1>3, SameReferences DEF ReferencesInv, Live

\* A commit writes for the vehicle it has locked.
LEMMA CommitRefers ==
  ASSUME ReferencesInv, NEW p \in Proc, pc[p] = "commit", EndTransaction(p), Goto(p, "reload"),
         UNCHANGED <<vehicles, request, reads>>,
         NEW s \in ServiceId, NEW row,
         row.vehicle_id = TargetVehicle(p) \/ (s \in Live /\ row.vehicle_id = services[s].vehicle_id),
         services' = [services EXCEPT ![s] = row],
         events' \subseteq events \cup {NewConsumeEvent(p)}
  PROVE  VehiclesHeld' /\ ReferencesHold'
<1>1. OthersWait(p) /\ ~HoldsRow(p)'
  BY DEF OthersWait, Goto, HoldsRow, request, reads, ReferencesInv, TypeInv, TypeOK
<1>2. VehiclesHeld'
  BY <1>1, EndHolds
<1>3. TargetVehicle(p) \in vehicles
  BY DEF ReferencesInv, VehiclesHeld, HoldsRow
<1>4. NewConsumeEvent(p).vehicle_id = TargetVehicle(p)
  BY DEF NewConsumeEvent, emit_service_consume, Event
<1>5. \A t \in Live' : services'[t].vehicle_id \in vehicles
  BY <1>3 DEF ReferencesInv, ReferencesHold, Live, TypeInv, TypeOK
<1> QED BY <1>2, <1>3, <1>4, <1>5 DEF ReferencesInv, ReferencesHold

LEMMA ReferencesStep == ReferencesInv /\ [Next]_vars => ReferencesInv'
<1> SUFFICES ASSUME ReferencesInv, [Next]_vars PROVE VehiclesHeld' /\ ReferencesHold'
  BY TypeStep DEF ReferencesInv
<1>t. TypeInv
  BY DEF ReferencesInv
<1>1. ASSUME NEW p \in Proc, Begin(p) PROVE VehiclesHeld' /\ ReferencesHold'
  <2>1. PICK r \in Requests : req' = [req EXCEPT ![p] = r] /\ Goto(p, FirstStatement(r.op))
    BY <1>1 DEF Begin
  <2>2. ~HoldsRow(p)' /\ OthersWait(p)
    BY <1>1, <1>t, <2>1, RequestTyped
       DEF Begin, FirstStatement, HoldsRow, OthersWait, Goto, reads, TypeInv, TypeOK
  <2>3. VehiclesHeld'
    BY <1>1, <2>2, HeldKept DEF Begin, tables
  <2> QED BY <1>1, <2>3, SameReferences DEF Begin, tables, ReferencesInv, Live
<1>2. ASSUME NEW p \in Proc, NEW status, Refuse(p, status) PROVE VehiclesHeld' /\ ReferencesHold'
  BY <1>2, RefuseRefers
<1>3. ASSUME NEW p \in Proc, LoadService(p) PROVE VehiclesHeld' /\ ReferencesHold'
  <2>1. CASE services[req[p].service_id] # None
    <3>1. PICK label \in {"delete", "load_stops"} : Goto(p, label)
      BY <1>3, <2>1 DEF LoadService
    <3>2. ~HoldsRow(p)'
      BY <1>t, <3>1 DEF Goto, HoldsRow, TypeInv, TypeOK
    <3>3. \A q \in Proc \ {p} : loaded'[q] = loaded[q] /\ block_traversal'[q] = block_traversal[q]
      BY <1>3, <1>t, <2>1 DEF LoadService, TypeInv, TypeOK
    <3> QED BY <1>3, <2>1, <3>1, <3>2, <3>3, MoveRefers DEF LoadService, tables, request
  <2> QED BY <1>2, <1>3, <2>1 DEF LoadService
<1>22. ASSUME NEW p \in Proc, LoadStops(p) PROVE VehiclesHeld' /\ ReferencesHold'
  <2>1. Goto(p, "lock") /\ ~HoldsRow(p)'
    BY <1>22, <1>t DEF LoadStops, Goto, HoldsRow, TypeInv, TypeOK
  <2>2. \A q \in Proc \ {p} : loaded'[q] = loaded[q] /\ block_traversal'[q] = block_traversal[q]
    BY <1>22, <1>t DEF LoadStops, TypeInv, TypeOK
  <2> QED BY <1>22, <2>1, <2>2, MoveRefers DEF LoadStops, tables, request
<1>4. ASSUME NEW p \in Proc, LockVehicle(p) PROVE VehiclesHeld' /\ ReferencesHold'
  <2> DEFINE v == TargetVehicle(p)
  <2>1. CASE /\ v \in vehicles /\ lock' = [lock EXCEPT ![v] = p] /\ Goto(p, "traversal")
             /\ UNCHANGED <<tables, wiped, request, reads, reply>>
    <3>1. OthersWait(p) /\ v' = v /\ v \in Vehicle /\ lock[v] = None
      BY <1>4, <1>t, <2>1
         DEF LockVehicle, VehicleRowFree, OthersWait, Goto, TargetVehicle, request, reads,
             TypeInv, TypeOK
    <3>2. VehiclesHeld'
      BY <1>t, <2>1, <3>1, HeldKept DEF tables, TypeInv, TypeOK
    <3> QED BY <2>1, <3>2, SameReferences DEF tables, ReferencesInv, Live
  <2> QED BY <1>2, <1>4, <2>1 DEF LockVehicle
<1>5. ASSUME NEW p \in Proc, ReadTraversal(p) PROVE VehiclesHeld' /\ ReferencesHold'
  <2>1. \A q \in Proc \ {p} : loaded'[q] = loaded[q] /\ block_traversal'[q] = block_traversal[q]
    BY <1>5, <1>t DEF ReadTraversal, TypeInv, TypeOK
  <2> QED BY <1>5, <2>1, MoveRefers DEF ReadTraversal, HoldsRow, tables, request
<1>6. ASSUME NEW p \in Proc, WipeConsume(p) PROVE VehiclesHeld' /\ ReferencesHold'
  BY <1>6, MoveRefers DEF WipeConsume, HoldsRow, tables, request, reads
<1>7. ASSUME NEW p \in Proc, ResumeWipe(p) PROVE VehiclesHeld' /\ ReferencesHold'
  BY <1>7, MoveRefers DEF ResumeWipe, HoldsRow, tables, request, reads
<1>8. ASSUME NEW p \in Proc, ReadBattery(p) PROVE VehiclesHeld' /\ ReferencesHold'
  BY <1>2, <1>8, MoveRefers DEF ReadBattery, HoldsRow, tables, request
<1>9. ASSUME NEW p \in Proc, CheckSiblings(p) PROVE VehiclesHeld' /\ ReferencesHold'
  BY <1>2, <1>9, MoveRefers DEF CheckSiblings, HoldsRow, tables, request, reads
<1>10. ASSUME NEW p \in Proc, CommitCreate(p) PROVE VehiclesHeld' /\ ReferencesHold'
  <2>1. ticket[p] \in ServiceId /\ req[p].vehicle_id \in Vehicle
    BY <1>10, <1>t, RequestTyped DEF TypeInv, TypeOK, Phases, CommitCreate, Creating, ServiceId
  <2>2. req[p].vehicle_id = TargetVehicle(p)
    BY <2>1, ParametersAssumption DEF TargetVehicle
  <2> QED BY <1>10, <2>1, <2>2, CommitRefers DEF CommitCreate
<1>11. ASSUME NEW p \in Proc, CommitUpdate(p) PROVE VehiclesHeld' /\ ReferencesHold'
  <2> DEFINE s == req[p].service_id
  <2>1. CASE ~Refuse(p, 500)
    <3>1. s \in Live /\ s \in ServiceId
      BY <1>11, <1>t, <2>1, RequestTyped DEF CommitUpdate, TypeInv, Phases, Live
    <3>2. UpdatedRow(p).vehicle_id \in {TargetVehicle(p), services[s].vehicle_id}
      BY DEF UpdatedRow
    <3> DEFINE row == UpdatedRow(p)
    <3>3. /\ row.vehicle_id = TargetVehicle(p) \/ (s \in Live /\ row.vehicle_id = services[s].vehicle_id)
          /\ services' = [services EXCEPT ![s] = row]
          /\ events' \subseteq events \cup {NewConsumeEvent(p)}
          /\ pc[p] = "commit" /\ EndTransaction(p) /\ Goto(p, "reload")
          /\ UNCHANGED <<vehicles, request, reads>>
      BY <1>11, <2>1, <3>1, <3>2 DEF CommitUpdate
    <3> HIDE DEF row
    <3> QED BY <3>1, <3>3, CommitRefers
  <2> QED BY <1>2, <2>1
<1>12. ASSUME NEW p \in Proc, ReloadService(p) PROVE VehiclesHeld' /\ ReferencesHold'
  BY <1>2, <1>12 DEF ReloadService
<1>13. ASSUME NEW p \in Proc, DeleteServiceRow(p) PROVE VehiclesHeld' /\ ReferencesHold'
  <2>1. CASE Goto(p, "cascade") /\ UNCHANGED <<tables, lock, wiped, request, reads, reply>>
    BY <1>t, <2>1, MoveRefers DEF Goto, HoldsRow, tables, request, reads, TypeInv, TypeOK
  <2> QED BY <1>2, <1>13, <2>1 DEF DeleteServiceRow
<1>14. ASSUME NEW p \in Proc, CascadeAndCommit(p) PROVE VehiclesHeld' /\ ReferencesHold'
  <2>1. VehiclesHeld'
    BY <1>14, <1>t, AnswerEnds, EndHolds DEF CascadeAndCommit
  <2>2. \A s \in Live' : s \in Live /\ services'[s] = services[s]
    BY <1>14, <1>t DEF CascadeAndCommit, Live, TypeInv, TypeOK
  <2> QED BY <1>14, <2>1, <2>2, SameReferences DEF CascadeAndCommit, ReferencesInv
<1>15. ASSUME NEW p \in Proc, DeadlockAbort(p) PROVE VehiclesHeld' /\ ReferencesHold'
  BY <1>2, <1>15 DEF DeadlockAbort
<1>16. ASSUME NEW p \in Proc, ReadLevel(p) PROVE VehiclesHeld' /\ ReferencesHold'
  <2>1. CASE Goto(p, "adjust") /\ UNCHANGED <<tables, lock, wiped, request, loaded, block_traversal, reply>>
    BY <1>t, <2>1, MoveRefers DEF Goto, HoldsRow, tables, request, TypeInv, TypeOK
  <2> QED BY <1>2, <1>16, <2>1 DEF ReadLevel
<1>17. ASSUME NEW p \in Proc, AdjustLevel(p) PROVE VehiclesHeld' /\ ReferencesHold'
  <2>1. CASE ~Refuse(p, 409)
    <3>1. VehiclesHeld'
      BY <1>17, <1>t, <2>1, AnswerEnds, EndHolds DEF AdjustLevel
    <3> QED
      BY <1>17, <2>1, <3>1
         DEF AdjustLevel, ReferencesInv, ReferencesHold, Live, emit_manual_adjust, Event
  <2> QED BY <1>2, <2>1
<1>18. ASSUME NEW p \in Proc, CountServices(p) PROVE VehiclesHeld' /\ ReferencesHold'
  <2>1. CASE Goto(p, "remove") /\ UNCHANGED <<tables, lock, wiped, request, reads, reply>>
    BY <1>t, <2>1, MoveRefers DEF Goto, HoldsRow, tables, request, reads, TypeInv, TypeOK
  <2> QED BY <1>2, <1>18, <2>1 DEF CountServices
<1>19. ASSUME NEW p \in Proc, RemoveVehicle(p) PROVE VehiclesHeld' /\ ReferencesHold'
  <2> DEFINE v == req[p].vehicle_id
  <2>1. CASE ~(Refuse(p, 204) \/ Refuse(p, 500))
    <3>1. /\ VehicleRowFree(v) /\ ~HasServices(v) /\ Answer(p, 204)
          /\ vehicles' = vehicles \ {v} /\ services' = services
          /\ events' = {e \in events : e.vehicle_id # v}
      BY <1>19, <2>1 DEF RemoveVehicle, StillReferenced
    <3>2. VehiclesHeld'
      BY <1>t, <3>1, AnswerEnds, EndHolds DEF VehicleRowFree
    <3> QED BY <3>1, <3>2 DEF ReferencesInv, ReferencesHold, HasServices, Live
  <2> QED BY <1>2, <2>1
<1>20. ASSUME NEW p \in Proc, UpdateBlock(p) PROVE VehiclesHeld' /\ ReferencesHold'
  <2>1. VehiclesHeld'
    BY <1>20, <1>t, AnswerEnds, EndHolds DEF UpdateBlock
  <2> QED BY <1>20, <2>1, SameReferences DEF UpdateBlock, ReferencesInv, Live
<1>21. CASE UNCHANGED vars
  BY <1>21 DEF vars, tables, request, reads, ReferencesInv, VehiclesHeld, ReferencesHold,
               HoldsRow, TargetVehicle, Live
<1> QED
  BY <1>1, <1>3, <1>4, <1>5, <1>6, <1>7, <1>8, <1>9, <1>10, <1>11, <1>12, <1>13, <1>14,
     <1>15, <1>16, <1>17, <1>18, <1>19, <1>20, <1>21, <1>22 DEF Next, Step, Served

\* Whatever is requested, services and ledger rows refer to vehicles that exist:
\* the lock that a write takes and a deletion waits for suffices, together with the
\* foreign key of services.
THEOREM ReferencesAlwaysHold == Spec => []ReferencesHold
<1>1. ReferencesInv => ReferencesHold
  BY DEF ReferencesInv
<1> QED BY <1>1, ReferencesInit, ReferencesStep, PTL DEF Spec
=============================================================================
