--------------------------- MODULE TimetableProofs ---------------------------
(***************************************************************************)
(* What the commits of concurrent handlers leave behind, for any number of *)
(* handlers, vehicles and services.  With ordinary requests the ledger     *)
(* tells of every stored service, once and rightly.  If moreover nothing   *)
(* is deleted, every vehicle's day stays connected, and the battery level  *)
(* stored with a service is the one the ledger gives when it is stored.    *)
(* Last, the level a vehicle is shown at is the level of its ledger.       *)
(***************************************************************************)
EXTENDS VehicleOverlapProofs, FiniteSetTheorems

(* The ledger *)

\* From its DELETE to its commit, an update that replaces stops has locked the consume
\* events of its service, all of them, and nobody else locks a ledger row.
Rewriting(p) ==
  pc[p] \in {"battery", "siblings", "commit"} /\ req[p].op = "update" /\ req[p].stops # None

WipesOwnEvents(p) ==
  /\ pc[p] # "wipe_wait"
  /\ pc[p] = "wipe" => req[p].stops # None
  /\ wiped[p] = IF Rewriting(p) THEN ConsumeEvents(req[p].service_id) ELSE {}

ServiceEvents == {e \in events : e.service_id # None}

LedgerInv ==
  /\ OverlapInv /\ LedgerMatchesTimetable
  /\ \A p \in Proc : WipesOwnEvents(p)
  /\ \A e \in ServiceEvents : e.event_type = "SERVICE_CONSUME"

\* Whole percents are stored exactly.
LEMMA PercentsStored ==
  ASSUME NEW n \in Nat
  PROVE  Hundredths(-(BATTERY_COST_PER_BLOCK * n)) = -(BATTERY_COST_PER_BLOCK * n)
<1>1. BATTERY_COST_PER_BLOCK = 1200 /\ PERCENT \div 100 = 12 /\ 12 \div 2 = 6
  BY DEF BATTERY_COST_PER_BLOCK, PERCENT
<1>2. (1200 * n + 6) \div 12 = 100 * n
  OBVIOUS
<1> QED BY <1>1, <1>2 DEF Hundredths

\* What a service consumes follows from its stored stops as well as from its expansion,
\* and the ledger's column keeps it exactly.
LEMMA ConsumeDelta ==
  ASSUME NEW stops, TimesTyped(stops), Accepts(stops),
         NEW traversal \in [BLOCKS -> Nat \ {0}]
  PROVE  /\ service_consume_delta(SnapshotStops(stops, traversal)) = service_consume_delta(stops)
         /\ Hundredths(service_consume_delta(stops)) = service_consume_delta(stops)
<1> DEFINE blocks == {i \in DOMAIN stops : is_block(stops[i].node_id)}
<1>1. PICK tuples : tuples = SnapshotStops(stops, traversal)
  OBVIOUS
<1>2. /\ DOMAIN tuples = 1 .. Len(stops) /\ DOMAIN stops = 1 .. Len(stops) /\ Len(stops) \in Nat
      /\ \A i \in DOMAIN stops : tuples[i].node_id = stops[i].node_id
  <2> DEFINE Tuples == [node_id : {stops[i].node_id : i \in DOMAIN stops}, enter : Nat, exit : Nat]
  <2>1. RunsThrough(stops, traversal, tuples, Len(stops))
    <3>1. \A i \in DOMAIN stops : TraversalSeconds(stops[i].node_id, traversal) \in Nat
      BY DEF TraversalSeconds
    <3> QED BY <1>1, <3>1, AcceptedRunsThrough, ParametersAssumption
  <2>2. DOMAIN stops = 1 .. Len(stops) /\ Len(stops) \in Nat
    BY DEF TimesTyped
  <2>3. tuples \in Seq(Tuples) /\ Len(tuples) = Len(stops)
    BY <2>1 DEF RunsThrough
  <2> HIDE DEF Tuples
  <2>4. DOMAIN tuples = 1 .. Len(stops)
    BY <2>3
  <2> QED BY <2>1, <2>2, <2>4 DEF RunsThrough
<1>3. {i \in DOMAIN tuples : is_block(tuples[i].node_id)} = blocks
  BY <1>2
<1>4. Cardinality(blocks) \in Nat
  <2>1. IsFiniteSet(DOMAIN stops)
    BY <1>2, FS_Interval
  <2>2. IsFiniteSet(blocks)
    BY <2>1, FS_Subset
  <2> QED BY <2>2, FS_CardinalityType
<1> HIDE DEF blocks
<1>5. service_consume_delta(stops) = -(BATTERY_COST_PER_BLOCK * Cardinality(blocks))
  BY DEF service_consume_delta, blocks
<1>6. service_consume_delta(tuples) = -(BATTERY_COST_PER_BLOCK * Cardinality(blocks))
  BY <1>3 DEF service_consume_delta
<1> QED BY <1>1, <1>4, <1>5, <1>6, PercentsStored

\* The event a handler is about to write is the one of its payload.
LEMMA NewEventMatches ==
  ASSUME OverlapInv, NEW p \in Proc, pc[p] = "commit", req[p].stops # None
  PROVE  LET e == NewConsumeEvent(p)
         IN  /\ e.service_id = Written(p) /\ e.event_type = "SERVICE_CONSUME"
             /\ e.vehicle_id = TargetVehicle(p)
             /\ e.occurred_at = Span(req[p].stops).exit
             /\ e.delta = service_consume_delta(req[p].stops)
<1> USE DEF OverlapInv, RowsInv
<1>1. /\ SchemaAccepts(req[p].stops) /\ ~PayloadErrors(req[p].stops)
      /\ block_traversal[p] = InitialTraversal
  BY RequestStops DEF TypeInv, Phases, PayloadsChecked, HoldsRow, TraversalFixed
<1>2. Accepts(req[p].stops)
  BY <1>1 DEF PayloadErrors, Accepts
<1>3. StopTuples(p) = SnapshotStops(req[p].stops, InitialTraversal)
  BY <1>1, CandidateWindow DEF Candidate
<1>4. PICK tuples : tuples = StopTuples(p)
  OBVIOUS
<1>5. /\ service_consume_delta(tuples) = service_consume_delta(req[p].stops)
      /\ Hundredths(service_consume_delta(tuples)) = service_consume_delta(req[p].stops)
  BY <1>1, <1>2, <1>3, <1>4, SchemaTyped, ConsumeDelta, ParametersAssumption
<1>6. _service_end(tuples) = Span(req[p].stops).exit
  BY <1>3, <1>4 DEF _service_end, Span
<1> QED BY <1>4, <1>5, <1>6 DEF NewConsumeEvent, emit_service_consume, Event

\* Two handlers do not rewrite one service.
LEMMA OneWriter ==
  ASSUME OrdinaryRequests, OverlapInv, NEW p \in Proc, NEW q \in Proc,
         HoldsRow(p), HoldsRow(q), req[p].op = "update", req[q].op = "update",
         req[p].service_id = req[q].service_id, req[p].service_id \in Live
  PROVE  p = q
<1> USE DEF OverlapInv, RowsInv
<1>1. /\ RowLoaded(p) /\ TargetVehicle(p) = loaded[p].vehicle_id
      /\ RowLoaded(q) /\ TargetVehicle(q) = loaded[q].vehicle_id
  BY DEF OrdinaryRequests, TargetVehicle, TypeInv, Phases, HoldsRow, RowLoaded
<1> QED BY <1>1 DEF LoadedVehicleKept, RowHeld

LEMMA LedgerInit == Init => LedgerInv
<1> SUFFICES ASSUME Init PROVE LedgerInv
  OBVIOUS
<1>1. Live = {} /\ \A e \in events : e.service_id = None
  BY DEF Init, Live, emit_baseline, Event
<1>2. \A p \in Proc : WipesOwnEvents(p)
  BY DEF Init, WipesOwnEvents, Rewriting
<1> QED BY <1>1, <1>2, OverlapInit DEF LedgerInv, LedgerMatchesTimetable, ServiceEvents

\* The consume events of services, from those of all of them.
LEMMA SameConsumeEvents ==
  ASSUME ServiceEvents' = ServiceEvents
  PROVE  \A s \in ServiceId : ConsumeEvents(s)' = ConsumeEvents(s)
BY ParametersAssumption DEF ServiceEvents, ConsumeEvents, ServiceId

\* A step that writes no consume event and no stop.
LEMMA LedgerMoveStep ==
  ASSUME LedgerInv, OverlapInv', NEW p \in Proc, OthersWait(p),
         \A q \in Proc \ {p} : wiped'[q] = wiped[q],
         ServiceEvents' = ServiceEvents, UNCHANGED block_configs,
         \A s \in ServiceId : /\ services'[s] = None <=> services[s] = None
                              /\ services[s] # None =>
                                   /\ services'[s].vehicle_id = services[s].vehicle_id
                                   /\ services'[s].stops = services[s].stops,
         WipesOwnEvents(p)'
  PROVE  LedgerInv'
<1> USE DEF LedgerInv, OverlapInv, RowsInv
<1>1. Live' = Live /\ Live \subseteq ServiceId
  BY DEF Live
<1>2. \A s \in Live : StopsIn(services'[s]) = StopsIn(services[s]) /\ Window(s)' = Window(s)
  BY DEF Live, StopsIn, Window, SnapshotOf, _snap_window
<1>3. LedgerMatchesTimetable'
  <2>1. \A e \in events' : e.service_id # None => e.service_id \in Live'
    BY <1>1 DEF LedgerMatchesTimetable, ServiceEvents
  <2>2. ASSUME NEW s \in Live'
        PROVE  \E e \in events' :
                 /\ ConsumeEvents(s)' = {e}
                 /\ e.vehicle_id = services'[s].vehicle_id
                 /\ e.occurred_at = Window(s)'.exit
                 /\ e.delta = service_consume_delta(StopsIn(services'[s]))
    <3>1. PICK e \in events :
            /\ ConsumeEvents(s) = {e} /\ e.vehicle_id = services[s].vehicle_id
            /\ e.occurred_at = Window(s).exit
            /\ e.delta = service_consume_delta(StopsIn(services[s]))
      BY <1>1 DEF LedgerMatchesTimetable
    <3>2. ConsumeEvents(s)' = {e}
      BY <1>1, <3>1, SameConsumeEvents
    <3>3. e \in events'
      BY <3>2 DEF ConsumeEvents
    <3> QED BY <1>1, <1>2, <3>1, <3>2, <3>3 DEF Live
  <2> QED BY <2>1, <2>2 DEF LedgerMatchesTimetable
<1>4. ASSUME NEW q \in Proc \ {p} PROVE WipesOwnEvents(q)'
  <2>1. Rewriting(q)' = Rewriting(q) /\ WipesOwnEvents(q)
    BY DEF Rewriting, OthersWait
  <2>2. Rewriting(q) => req[q].service_id \in ServiceId
    BY RequestTyped DEF Rewriting, TypeInv, Phases
  <2> QED BY <2>1, <2>2, SameConsumeEvents DEF WipesOwnEvents, OthersWait
<1>5. \A e \in ServiceEvents' : e.event_type = "SERVICE_CONSUME"
  OBVIOUS
<1> QED BY <1>3, <1>4, <1>5

\* The end of a request that writes no consume event and no stop.
LEMMA LedgerAnswerStep ==
  ASSUME LedgerInv, OverlapInv', NEW p \in Proc, NEW status, Answer(p, status),
         services' = services, UNCHANGED block_configs, ServiceEvents' = ServiceEvents
  PROVE  LedgerInv'
<1>1. /\ OthersWait(p) /\ \A q \in Proc \ {p} : wiped'[q] = wiped[q]
      /\ pc'[p] = "idle" /\ wiped'[p] = {}
  BY AnswerWaits DEF LedgerInv, OverlapInv, RowsInv, TypeInv, TypeOK, EndTransaction
<1>2. WipesOwnEvents(p)'
  BY <1>1 DEF WipesOwnEvents, Rewriting
<1> QED BY <1>1, <1>2, LedgerMoveStep

LEMMA LedgerRefuseStep ==
  ASSUME LedgerInv, OverlapInv', NEW p \in Proc, NEW status, Refuse(p, status)
  PROVE  LedgerInv'
BY LedgerAnswerStep DEF Refuse, tables, ServiceEvents

\* A handler goes on to its next statement.
LEMMA LedgerGotoStep ==
  ASSUME LedgerInv, OverlapInv', NEW p \in Proc, NEW label, Goto(p, label),
         UNCHANGED <<services, block_configs, events, request>>,
         \A q \in Proc \ {p} : /\ wiped'[q] = wiped[q] /\ loaded'[q] = loaded[q]
                               /\ block_traversal'[q] = block_traversal[q],
         WipesOwnEvents(p)'
  PROVE  LedgerInv'
<1>1. OthersWait(p)
  BY DEF OthersWait, Goto, LedgerInv, OverlapInv, RowsInv, TypeInv, TypeOK, request
<1> QED BY <1>1, LedgerMoveStep DEF ServiceEvents

\* A handler commits the stops of its payload and their consume event, in place of the
\* event of the stops that were there.
LEMMA LedgerCommitStep ==
  ASSUME OrdinaryRequests, LedgerInv, OverlapInv', NEW p \in Proc, pc[p] = "commit",
         req[p].stops # None, NEW s, s = Written(p),
         NEW row, row # None, row.vehicle_id = TargetVehicle(p),
         row.stops = StopRows(ticket[p], req[p].stops),
         services' = [services EXCEPT ![s] = row],
         events' = (events \ wiped[p]) \cup {NewConsumeEvent(p)},
         \/ req[p].op = "create"
         \/ req[p].op = "update" /\ services[s] # None /\ s = req[p].service_id,
         EndTransaction(p), Goto(p, "reload"), UNCHANGED <<block_configs, request, reads>>
  PROVE  LedgerInv'
<1> USE DEF LedgerInv, OverlapInv, RowsInv
<1> DEFINE new == NewConsumeEvent(p)
<1>1. /\ pc'[p] = "reload" /\ OthersWait(p) /\ wiped'[p] = {}
      /\ \A q \in Proc \ {p} : wiped'[q] = wiped[q]
      /\ s \in ServiceId
  BY WriterTyped DEF Goto, OthersWait, EndTransaction, TypeInv, TypeOK, Phases, request, reads
<1>2. /\ services'[s] = row /\ \A t \in ServiceId \ {s} : services'[t] = services[t]
      /\ Live' = Live \cup {s} /\ Live \subseteq ServiceId
  BY <1>1 DEF TypeInv, TypeOK, Live
\* The payload, written and read back.
<1>3. StopsIn(row) = req[p].stops
  BY RequestStops, StopsReadBack DEF TypeInv, Phases
<1>4. /\ block_configs = InitialTraversal /\ block_configs' = InitialTraversal
      /\ \A t \in Live' \ {s} : t \in Live /\ services'[t] = services[t] /\ Window(t)' = Window(t)
  BY <1>1, <1>2 DEF TraversalFixed, Window
<1>5. Window(s)'.exit = Span(req[p].stops).exit
  BY <1>2, <1>3, <1>4 DEF Window, _snap_window, SnapshotOf, Span
<1>6. /\ new.service_id = s /\ new.event_type = "SERVICE_CONSUME"
      /\ new.vehicle_id = TargetVehicle(p)
      /\ new.occurred_at = Span(req[p].stops).exit
      /\ new.delta = service_consume_delta(req[p].stops)
  BY NewEventMatches
<1>7. wiped[p] = ConsumeEvents(s)
  <2>1. CASE req[p].op = "create"
    <3>1. wiped[p] = {}
      BY <2>1 DEF WipesOwnEvents, Rewriting
    <3>2. services[s] = None
      BY <1>1, <2>1 DEF KeysUnique, Unwritten, Creating, Written
    <3>3. ConsumeEvents(s) = {}
      BY <1>1, <3>2, ParametersAssumption DEF LedgerMatchesTimetable, ConsumeEvents, Live, ServiceId
    <3> QED BY <3>1, <3>3
  <2>2. CASE req[p].op = "update"
    BY <2>2 DEF WipesOwnEvents, Rewriting
  <2> QED BY <2>1, <2>2
<1> HIDE DEF new
<1>8. /\ ConsumeEvents(s)' = {new}
      /\ \A t \in ServiceId \ {s} : ConsumeEvents(t)' = ConsumeEvents(t)
  BY <1>6, <1>7 DEF ConsumeEvents, new
<1>9. LedgerMatchesTimetable'
  <2>1. ASSUME NEW e \in events', e.service_id # None PROVE e.service_id \in Live'
    BY <1>2, <1>6, <2>1 DEF LedgerMatchesTimetable, new
  <2>2. ASSUME NEW t \in Live'
        PROVE  \E e \in events' :
                 /\ ConsumeEvents(t)' = {e}
                 /\ e.vehicle_id = services'[t].vehicle_id
                 /\ e.occurred_at = Window(t)'.exit
                 /\ e.delta = service_consume_delta(StopsIn(services'[t]))
    <3>1. CASE t = s
      BY <1>2, <1>3, <1>5, <1>6, <1>8, <3>1 DEF new
    <3>2. CASE t # s
      <4>1. t \in Live /\ services'[t] = services[t] /\ Window(t)' = Window(t) /\ t \in ServiceId
        BY <1>2, <1>4, <3>2
      <4>2. PICK e \in events :
              /\ ConsumeEvents(t) = {e} /\ e.vehicle_id = services[t].vehicle_id
              /\ e.occurred_at = Window(t).exit
              /\ e.delta = service_consume_delta(StopsIn(services[t]))
        BY <4>1 DEF LedgerMatchesTimetable
      <4>3. ConsumeEvents(t)' = {e}
        BY <1>8, <3>2, <4>1, <4>2
      <4>4. e \in events'
        BY <4>3 DEF ConsumeEvents
      <4> QED BY <4>1, <4>2, <4>3, <4>4
    <3> QED BY <3>1, <3>2
  <2> QED BY <2>1, <2>2 DEF LedgerMatchesTimetable
<1>10. ASSUME NEW q \in Proc PROVE WipesOwnEvents(q)'
  <2>1. CASE q = p
    BY <1>1, <2>1 DEF WipesOwnEvents, Rewriting
  <2>2. CASE q # p
    <3>1. /\ Rewriting(q)' = Rewriting(q) /\ WipesOwnEvents(q) /\ wiped'[q] = wiped[q]
          /\ pc'[q] = pc[q] /\ req'[q] = req[q]
      BY <1>1, <2>2 DEF Rewriting, OthersWait
    <3>2. Rewriting(q) => req[q].service_id \in ServiceId \ {s}
      <4> SUFFICES ASSUME Rewriting(q) PROVE req[q].service_id \in ServiceId /\ req[q].service_id # s
        OBVIOUS
      <4>1. req[q].service_id \in ServiceId /\ RowLoaded(q) /\ HoldsRow(q)
        BY RequestTyped DEF Rewriting, TypeInv, Phases, HoldsRow, RowLoaded
      <4>2. CASE req[p].op = "create"
        BY <4>1, <4>2 DEF KeysUnique, Unwritten, Creating, Written
      <4>3. CASE req[p].op = "update"
        <5>1. s = req[p].service_id /\ s \in Live /\ HoldsRow(p)
          BY <1>1, <4>3 DEF Live, HoldsRow
        <5> QED BY <2>2, <4>1, <4>3, <5>1, OneWriter DEF Rewriting
      <4> QED BY <4>1, <4>2, <4>3
    <3> QED BY <1>8, <3>1, <3>2 DEF WipesOwnEvents
  <2> QED BY <2>1, <2>2
<1>11. \A e \in ServiceEvents' : e.event_type = "SERVICE_CONSUME"
  BY <1>6 DEF ServiceEvents, new
<1> QED BY <1>9, <1>10, <1>11

\* A service is deleted and its consume event with it.  No update of it is under way:
\* the cascade would have waited.
LEMMA LedgerCascadeStep ==
  ASSUME LedgerInv, OverlapInv', NEW p \in Proc, CascadeAndCommit(p),
         NEW s, s = req[p].service_id
  PROVE  LedgerInv'
<1> USE DEF LedgerInv, OverlapInv, RowsInv
<1>1. /\ Answer(p, 204) /\ UNCHANGED block_configs /\ s \in ServiceId
      /\ services' = [services EXCEPT ![s] = None]
      /\ events' = {e \in events : e.service_id # s}
      /\ {e \in events : e.service_id = s} \cap WipedByOthers(p) = {}
  BY RequestTyped DEF CascadeAndCommit, CascadedEvents, TypeInv, Phases
<1>2. /\ OthersWait(p) /\ \A q \in Proc \ {p} : wiped'[q] = wiped[q]
      /\ pc'[p] = "idle" /\ wiped'[p] = {}
  BY <1>1, AnswerWaits DEF TypeInv, TypeOK, EndTransaction
<1>3. /\ Live' = Live \ {s} /\ Live \subseteq ServiceId
      /\ \A t \in ServiceId \ {s} : services'[t] = services[t] /\ Window(t)' = Window(t)
  BY <1>1 DEF TypeInv, TypeOK, Live, Window
<1>4. /\ ConsumeEvents(s)' = {}
      /\ \A t \in ServiceId \ {s} : ConsumeEvents(t)' = ConsumeEvents(t)
  BY <1>1 DEF ConsumeEvents
<1>5. LedgerMatchesTimetable'
  <2>1. ASSUME NEW e \in events', e.service_id # None PROVE e.service_id \in Live'
    BY <1>1, <1>3, <2>1 DEF LedgerMatchesTimetable
  <2>2. ASSUME NEW t \in Live'
        PROVE  \E e \in events' :
                 /\ ConsumeEvents(t)' = {e}
                 /\ e.vehicle_id = services'[t].vehicle_id
                 /\ e.occurred_at = Window(t)'.exit
                 /\ e.delta = service_consume_delta(StopsIn(services'[t]))
    <3>1. t \in Live /\ t \in ServiceId \ {s}
      BY <1>3
    <3>2. PICK e \in events :
            /\ ConsumeEvents(t) = {e} /\ e.vehicle_id = services[t].vehicle_id
            /\ e.occurred_at = Window(t).exit
            /\ e.delta = service_consume_delta(StopsIn(services[t]))
      BY <3>1 DEF LedgerMatchesTimetable
    <3>3. ConsumeEvents(t)' = {e}
      BY <1>4, <3>1, <3>2
    <3>4. e \in events'
      BY <3>3 DEF ConsumeEvents
    <3> QED BY <1>3, <3>1, <3>2, <3>3, <3>4
  <2> QED BY <2>1, <2>2 DEF LedgerMatchesTimetable
<1>6. ASSUME NEW q \in Proc PROVE WipesOwnEvents(q)'
  <2>1. CASE q = p
    BY <1>2, <2>1 DEF WipesOwnEvents, Rewriting
  <2>2. CASE q # p
    <3>1. /\ Rewriting(q)' = Rewriting(q) /\ WipesOwnEvents(q) /\ wiped'[q] = wiped[q]
          /\ pc'[q] = pc[q] /\ req'[q] = req[q]
      BY <1>2, <2>2 DEF Rewriting, OthersWait
    <3>2. Rewriting(q) => req[q].service_id \in ServiceId
      BY RequestTyped DEF Rewriting, TypeInv, Phases
    <3>3. ASSUME Rewriting(q), req[q].service_id = s PROVE ConsumeEvents(s) = {}
      <4>1. Wiped(q) = ConsumeEvents(s)
        BY <3>1, <3>3 DEF Wiped, WipesOwnEvents
      <4>2. ConsumeEvents(s) \subseteq WipedByOthers(p)
        BY <2>2, <4>1 DEF WipedByOthers
      <4> QED BY <1>1, <4>2 DEF ConsumeEvents
    <3> QED BY <1>4, <3>1, <3>2, <3>3 DEF WipesOwnEvents
  <2> QED BY <2>1, <2>2
<1>7. \A e \in ServiceEvents' : e.event_type = "SERVICE_CONSUME"
  BY <1>1 DEF ServiceEvents
<1> QED BY <1>5, <1>6, <1>7

\* Every step keeps the ledger.
LEMMA LedgerStep ==
  ASSUME OrdinaryRequests, RowsAreRows, LedgerInv, [Next]_vars
  PROVE  LedgerInv'
<1>t. OverlapInv /\ OverlapInv' /\ RowsInv /\ TypeInv /\ NumberedFromZero
  BY OverlapStep DEF LedgerInv, OverlapInv, RowsInv, OrdinaryRequests
<1>d. /\ DOMAIN wiped = Proc /\ pc \in [Proc -> Labels] /\ DOMAIN loaded = Proc
      /\ \A q \in Proc : WipesOwnEvents(q)
  BY <1>t DEF TypeInv, TypeOK, LedgerInv
<1>r. ASSUME NEW p \in Proc, NEW status, Refuse(p, status) PROVE LedgerInv'
  BY <1>t, <1>r, LedgerRefuseStep
<1>m. ASSUME NEW p \in Proc, NEW label, Goto(p, label), label # "wipe_wait",
             label = "wipe" => req[p].stops # None,
             UNCHANGED <<services, block_configs, events, wiped, request>>,
             \A q \in Proc \ {p} : loaded'[q] = loaded[q] /\ block_traversal'[q] = block_traversal[q],
             Rewriting(p)' = Rewriting(p)
      PROVE  LedgerInv'
  <2>1. Rewriting(p) => req[p].service_id \in ServiceId /\ req'[p].service_id = req[p].service_id
    BY <1>t, <1>m, RequestTyped DEF Rewriting, TypeInv, Phases, request
  <2>2. WipesOwnEvents(p)'
    <3>1. pc'[p] = label /\ req' = req /\ wiped' = wiped /\ events' = events
      BY <1>d, <1>m DEF Goto, request
    <3> QED BY <1>d, <1>m, <2>1, <3>1 DEF WipesOwnEvents, ConsumeEvents
  <2> QED BY <1>t, <1>m, <2>2, LedgerGotoStep
<1>1. ASSUME NEW p \in Proc, Begin(p) PROVE LedgerInv'
  <2>1. PICK r \in Requests : req' = [req EXCEPT ![p] = r] /\ Goto(p, FirstStatement(r.op))
    BY <1>1 DEF Begin
  <2>2. pc'[p] \notin {"wipe", "wipe_wait", "battery", "siblings", "commit"} /\ wiped[p] = {}
    BY <1>1, <1>d, <2>1, RequestTyped DEF Begin, Goto, FirstStatement, WipesOwnEvents, Rewriting
  <2>3. OthersWait(p)
    BY <1>1, <1>t, <2>1 DEF Begin, Goto, OthersWait, reads, TypeInv, TypeOK
  <2>4. WipesOwnEvents(p)' /\ UNCHANGED <<services, events, block_configs, wiped>>
    BY <1>1, <2>2 DEF Begin, WipesOwnEvents, Rewriting, tables
  <2> QED BY <1>t, <2>3, <2>4, LedgerMoveStep DEF ServiceEvents
<1>2. ASSUME NEW p \in Proc, LoadService(p) PROVE LedgerInv'
  <2>1. CASE services[req[p].service_id] # None
    <3>1. PICK label \in {"delete", "load_stops"} : Goto(p, label)
      BY <1>2, <2>1 DEF LoadService
    <3>2. Rewriting(p)' = Rewriting(p)
      BY <1>2, <1>d, <3>1 DEF LoadService, Rewriting, Goto
    <3>3. /\ UNCHANGED <<services, block_configs, events, wiped, request>>
          /\ \A q \in Proc \ {p} : loaded'[q] = loaded[q] /\ block_traversal'[q] = block_traversal[q]
      BY <1>2, <1>d, <2>1 DEF LoadService, tables
    <3> QED BY <1>m, <3>1, <3>2, <3>3
  <2> QED BY <1>2, <1>r, <2>1 DEF LoadService
<1>21. ASSUME NEW p \in Proc, LoadStops(p) PROVE LedgerInv'
  <2>1. /\ pc[p] = "load_stops" /\ Goto(p, "lock")
        /\ UNCHANGED <<services, block_configs, events, wiped, request, block_traversal>>
        /\ \A q \in Proc \ {p} : loaded'[q] = loaded[q]
    BY <1>21, <1>d DEF LoadStops, tables
  <2>2. Rewriting(p)' = Rewriting(p)
    BY <1>d, <2>1 DEF Rewriting, Goto
  <2> QED BY <1>m, <2>1, <2>2
<1>3. ASSUME NEW p \in Proc, LockVehicle(p) PROVE LedgerInv'
  <2>1. CASE /\ pc[p] = "lock" /\ Goto(p, "traversal")
             /\ UNCHANGED <<tables, wiped, request, reads, reply>>
    BY <1>d, <1>m, <2>1 DEF Goto, Rewriting, tables, reads
  <2> QED BY <1>3, <1>r, <2>1 DEF LockVehicle
<1>4. ASSUME NEW p \in Proc, ReadTraversal(p) PROVE LedgerInv'
  <2> DEFINE label == IF Creating(p) THEN "battery" ELSE IF Rechecked(p) THEN "wipe" ELSE "commit"
  <2>1. /\ Goto(p, label) /\ label # "wipe_wait"
        /\ UNCHANGED <<services, block_configs, events, wiped, request>>
        /\ \A q \in Proc \ {p} : loaded'[q] = loaded[q] /\ block_traversal'[q] = block_traversal[q]
    BY <1>4, <1>t DEF ReadTraversal, tables, TypeInv, TypeOK
  <2>2. Rewriting(p)' = Rewriting(p)
    BY <1>4, <1>d DEF ReadTraversal, Goto, Rewriting, Creating, Rechecked, request
  <2>3. label = "wipe" => req[p].stops # None
    BY <1>4, <1>t DEF ReadTraversal, OrdinaryRequests, Creating, Rechecked, Reassigning, TypeInv, Phases
  <2> HIDE DEF label
  <2> QED BY <1>m, <2>1, <2>2, <2>3
<1>5. ASSUME NEW p \in Proc, WipeConsume(p) PROVE LedgerInv'
  <2> DEFINE s == req[p].service_id
  <2>1. /\ pc[p] = "wipe" /\ req[p].op = "update" /\ req[p].stops # None
        /\ s \in ServiceId /\ HoldsRow(p) /\ ConsumeEvents(s)' = ConsumeEvents(s)
    BY <1>5, <1>t, <1>d, RequestTyped
       DEF WipeConsume, WipesOwnEvents, TypeInv, Phases, HoldsRow, ConsumeEvents, tables, request
  <2>2. EventsToWipe(p) \cap WipedByOthers(p) = {}
    <3> SUFFICES ASSUME NEW q \in Proc \ {p}, NEW e \in Wiped(q), e \in ConsumeEvents(s)
                 PROVE  FALSE
      BY DEF EventsToWipe, WipedByOthers
    <3>1. Rewriting(q) /\ e \in ConsumeEvents(req[q].service_id)
      BY <1>d DEF Wiped, WipesOwnEvents
    <3>2. /\ req[q].service_id = s /\ req[q].op = "update" /\ HoldsRow(q)
          /\ e \in events /\ e.service_id = s
      BY <3>1 DEF ConsumeEvents, Rewriting, HoldsRow
    <3>3. s \in Live
      BY <2>1, <3>2, ParametersAssumption DEF LedgerInv, LedgerMatchesTimetable, ServiceId
    <3> QED BY <1>t, <2>1, <3>2, <3>3, OneWriter
  <2>3. /\ Goto(p, "battery") /\ wiped' = [wiped EXCEPT ![p] = ConsumeEvents(s)]
        /\ UNCHANGED <<services, block_configs, events, request, reads>>
    BY <1>5, <2>2 DEF WipeConsume, EventsToWipe, tables
  <2>4. WipesOwnEvents(p)'
    <3>1. /\ pc'[p] = "battery" /\ wiped'[p] = ConsumeEvents(s)' /\ req' = req
      BY <1>d, <2>1, <2>3 DEF Goto, request
    <3> QED BY <2>1, <3>1 DEF WipesOwnEvents, Rewriting
  <2> QED BY <1>t, <1>d, <2>3, <2>4, LedgerGotoStep DEF reads
<1>6. ASSUME NEW p \in Proc, ResumeWipe(p) PROVE LedgerInv'
  BY <1>6, <1>d DEF ResumeWipe, WipesOwnEvents
<1>7. ASSUME NEW p \in Proc, ReadBattery(p) PROVE LedgerInv'
  <2>1. CASE ~Refuse(p, 500)
    <3>1. /\ pc[p] = "battery" /\ Goto(p, "siblings")
          /\ UNCHANGED <<tables, wiped, request, loaded, block_traversal>>
      BY <1>7, <2>1 DEF ReadBattery
    <3>2. Rewriting(p)' = Rewriting(p)
      BY <1>d, <3>1 DEF Goto, Rewriting, request
    <3> QED BY <1>m, <3>1, <3>2 DEF tables
  <2> QED BY <1>r, <2>1
<1>8. ASSUME NEW p \in Proc, CheckSiblings(p) PROVE LedgerInv'
  <2>1. CASE /\ pc[p] = "siblings" /\ Goto(p, "commit")
             /\ UNCHANGED <<tables, lock, wiped, request, reads, reply>>
    <3>1. Rewriting(p)' = Rewriting(p)
      BY <1>d, <2>1 DEF Goto, Rewriting, request
    <3> QED BY <1>m, <2>1, <3>1 DEF tables, reads
  <2> QED BY <1>8, <1>r, <2>1 DEF CheckSiblings
<1>9. ASSUME NEW p \in Proc, CommitCreate(p) PROVE LedgerInv'
  <2> DEFINE row == [vehicle_id |-> req[p].vehicle_id, stops |-> StopRows(ticket[p], req[p].stops),
                     departure_battery |-> dep_battery[p]]
  <2>1. /\ pc[p] = "commit" /\ req[p].op = "create" /\ req[p].stops # None
        /\ Written(p) = ticket[p] /\ TargetVehicle(p) = req[p].vehicle_id /\ row # None
    BY <1>9, <1>t, RequestTyped, RequestStops, ParametersAssumption
       DEF CommitCreate, Creating, Written, TargetVehicle, TypeInv, Phases, RowsAreRows
  <2>2. /\ services' = [services EXCEPT ![Written(p)] = row]
        /\ events' = (events \ wiped[p]) \cup {NewConsumeEvent(p)}
        /\ EndTransaction(p) /\ Goto(p, "reload") /\ UNCHANGED <<block_configs, request, reads>>
    BY <1>9, <1>d, <2>1 DEF CommitCreate, WipesOwnEvents, Rewriting
  <2>3. row.vehicle_id = TargetVehicle(p) /\ row.stops = StopRows(ticket[p], req[p].stops)
    BY <2>1
  <2> HIDE DEF row
  <2> QED BY <1>t, <2>1, <2>2, <2>3, LedgerCommitStep
<1>10. ASSUME NEW p \in Proc, CommitUpdate(p) PROVE LedgerInv'
  <2> DEFINE s == req[p].service_id
             row == UpdatedRow(p)
  <2>1. CASE ~Refuse(p, 500)
    <3>1. /\ pc[p] = "commit" /\ req[p].op = "update" /\ s \in ServiceId /\ Written(p) = s
          /\ services[s] # None /\ RowLoaded(p)
          /\ services' = [services EXCEPT ![s] = row]
          /\ row.stops = IF req[p].stops # None THEN StopRows(ticket[p], req[p].stops)
                         ELSE services[s].stops
          /\ events' = (events \ wiped[p]) \cup (IF Rechecked(p) THEN {NewConsumeEvent(p)} ELSE {})
          /\ EndTransaction(p) /\ Goto(p, "reload")
          /\ UNCHANGED <<block_configs, request, reads>>
      BY <1>10, <1>t, <2>1, UpdateCommits DEF HasStops
    <3>2. /\ ~Reassigning(p) /\ TargetVehicle(p) = loaded[p].vehicle_id
          /\ services[s].vehicle_id = loaded[p].vehicle_id
      BY <1>t, <3>1
         DEF OrdinaryRequests, Reassigning, TypeInv, Phases, Live, TargetVehicle,
             OverlapInv, LoadedVehicleKept
    <3>3. row.vehicle_id = services[s].vehicle_id /\ row # None
      BY <3>2 DEF UpdatedRow, RowsAreRows
    <3> HIDE DEF row
    <3>4. CASE req[p].stops # None
      BY <1>t, <3>1, <3>2, <3>3, <3>4, LedgerCommitStep DEF Rechecked
    <3>5. CASE req[p].stops = None
      <4>1. ~Rechecked(p) /\ wiped[p] = {} /\ events' = events
        BY <1>d, <3>1, <3>2, <3>5 DEF Rechecked, WipesOwnEvents, Rewriting
      <4>2. /\ OthersWait(p) /\ wiped'[p] = {} /\ \A q \in Proc \ {p} : wiped'[q] = wiped[q]
            /\ WipesOwnEvents(p)'
        BY <1>d, <1>t, <3>1
           DEF OthersWait, Goto, EndTransaction, WipesOwnEvents, Rewriting, request, reads,
               TypeInv, TypeOK
      <4>3. \A t \in ServiceId : /\ services'[t] = None <=> services[t] = None
                                 /\ services[t] # None =>
                                      /\ services'[t].vehicle_id = services[t].vehicle_id
                                      /\ services'[t].stops = services[t].stops
        BY <1>t, <3>1, <3>3, <3>5 DEF TypeInv, TypeOK
      <4> QED BY <1>t, <3>1, <4>1, <4>2, <4>3, LedgerMoveStep DEF ServiceEvents
    <3> QED BY <3>4, <3>5
  <2> QED BY <1>r, <2>1
<1>11. ASSUME NEW p \in Proc, ReloadService(p) PROVE LedgerInv'
  BY <1>r, <1>11 DEF ReloadService
<1>12. ASSUME NEW p \in Proc, DeleteServiceRow(p) PROVE LedgerInv'
  <2>1. CASE /\ pc[p] = "delete" /\ Goto(p, "cascade")
             /\ UNCHANGED <<tables, lock, wiped, request, reads, reply>>
    <3>1. Rewriting(p)' = Rewriting(p)
      BY <1>d, <2>1 DEF Goto, Rewriting, request
    <3> QED BY <1>m, <2>1, <3>1 DEF tables, reads
  <2> QED BY <1>r, <1>12, <2>1 DEF DeleteServiceRow
<1>13. ASSUME NEW p \in Proc, CascadeAndCommit(p) PROVE LedgerInv'
  BY <1>t, <1>13, LedgerCascadeStep
<1>14. ASSUME NEW p \in Proc, DeadlockAbort(p) PROVE LedgerInv'
  BY <1>r, <1>14 DEF DeadlockAbort
<1>15. ASSUME NEW p \in Proc, ReadLevel(p) PROVE LedgerInv'
  <2>1. CASE ~Refuse(p, 404)
    <3>1. /\ pc[p] = "read_level" /\ Goto(p, "adjust")
          /\ UNCHANGED <<tables, wiped, request, loaded, block_traversal>>
      BY <1>15, <2>1 DEF ReadLevel
    <3>2. Rewriting(p)' = Rewriting(p)
      BY <1>d, <3>1 DEF Goto, Rewriting, request
    <3> QED BY <1>m, <3>1, <3>2 DEF tables
  <2> QED BY <1>r, <2>1
<1>16. ASSUME NEW p \in Proc, AdjustLevel(p) PROVE LedgerInv'
  <2>1. CASE ~Refuse(p, 409)
    <3>1. /\ Answer(p, 200) /\ UNCHANGED <<services, block_configs>>
          /\ ServiceEvents' = ServiceEvents
      BY <1>16, <2>1 DEF AdjustLevel, ServiceEvents, emit_manual_adjust, Event
    <3> QED BY <1>t, <3>1, LedgerAnswerStep
  <2> QED BY <1>r, <2>1
<1>17. ASSUME NEW p \in Proc, CountServices(p) PROVE LedgerInv'
  <2>1. CASE /\ pc[p] = "count" /\ Goto(p, "remove")
             /\ UNCHANGED <<tables, lock, wiped, request, reads, reply>>
    <3>1. Rewriting(p)' = Rewriting(p)
      BY <1>d, <2>1 DEF Goto, Rewriting, request
    <3> QED BY <1>m, <2>1, <3>1 DEF tables, reads
  <2> QED BY <1>r, <1>17, <2>1 DEF CountServices
<1>18. ASSUME NEW p \in Proc, RemoveVehicle(p) PROVE LedgerInv'
  <2> DEFINE v == req[p].vehicle_id
  <2>1. CASE ~(Refuse(p, 204) \/ Refuse(p, 500))
    <3>1. /\ ~HasServices(v) /\ Answer(p, 204) /\ UNCHANGED <<services, block_configs>>
          /\ events' = {e \in events : e.vehicle_id # v}
      BY <1>18, <2>1 DEF RemoveVehicle, StillReferenced
    <3>2. ASSUME NEW e \in events, e.service_id # None PROVE e.vehicle_id # v
      <4>1. e.service_id \in Live /\ e \in ConsumeEvents(e.service_id)
        BY <3>2 DEF LedgerInv, LedgerMatchesTimetable, ServiceEvents, ConsumeEvents
      <4>2. e.vehicle_id = services[e.service_id].vehicle_id
        BY <4>1 DEF LedgerInv, LedgerMatchesTimetable
      <4> QED BY <3>1, <4>1, <4>2 DEF HasServices
    <3>3. ServiceEvents' = ServiceEvents
      BY <3>1, <3>2 DEF ServiceEvents
    <3> QED BY <1>t, <3>1, <3>3, LedgerAnswerStep
  <2> QED BY <1>r, <2>1
<1>19. ASSUME NEW p \in Proc, UpdateBlock(p) PROVE LedgerInv'
  BY <1>t, <1>19 DEF UpdateBlock, OrdinaryRequests, TypeInv, Phases
<1>20. CASE UNCHANGED vars
  <2>1. UNCHANGED <<services, events, block_configs, wiped, pc, req>>
    BY <1>20 DEF vars, tables, request
  <2>2. ServiceEvents' = ServiceEvents /\ \A q \in Proc : WipesOwnEvents(q)'
    BY <1>d, <2>1 DEF ServiceEvents, WipesOwnEvents, Rewriting, ConsumeEvents
  <2>3. LedgerMatchesTimetable'
    BY <2>1 DEF LedgerInv, LedgerMatchesTimetable, Live, ConsumeEvents, Window
  <2> QED BY <1>t, <2>2, <2>3 DEF LedgerInv
<1> QED
  BY <1>1, <1>2, <1>3, <1>4, <1>5, <1>6, <1>7, <1>8, <1>9, <1>10, <1>11, <1>12, <1>13,
     <1>14, <1>15, <1>16, <1>17, <1>18, <1>19, <1>20, <1>21 DEF Next, Step, Served

\* As long as requests are ordinary, every stored service is in the ledger exactly once,
\* for its own vehicle, with the blocks of its stored path and at the end of its window,
\* and the ledger holds no event of a service that is gone: whichever updates, deletions
\* and removals of vehicles run side by side, and whichever of them fail.
THEOREM LedgerAlwaysMatches ==
  ASSUME OrdinaryRequests, RowsAreRows
  PROVE  Spec => []LedgerMatchesTimetable
<1>1. LedgerInv /\ [Next]_vars => LedgerInv'
  BY LedgerStep
<1>2. LedgerInv => LedgerMatchesTimetable
  BY DEF LedgerInv
<1> QED BY <1>1, <1>2, LedgerInit, PTL DEF Spec
-----------------------------------------------------------------------------
(* The steps of handlers whose services stay *)

\* Nothing is taken off the timetable again.
PlannedRequests == OrdinaryRequests /\ \A r \in Requests : r.op # "delete"

\* No service is written.
KeepsRows ==
  \A s \in ServiceId :
    /\ services'[s] = None <=> services[s] = None
    /\ services[s] # None =>
         /\ services'[s].vehicle_id = services[s].vehicle_id
         /\ services'[s].stops = services[s].stops
         /\ services'[s].departure_battery = services[s].departure_battery

\* The ledger of a vehicle whose row is locked stays as it is.
KeepsLockedLedgers ==
  \A v \in Vehicle : lock[v] # None =>
    {e \in events' : e.vehicle_id = v} = {e \in events : e.vehicle_id = v}

\* A handler comes to its commit with a payload only through a check that found nothing.
CommitsChecked(p) ==
  pc'[p] = "commit" /\ req'[p].stops # None =>
    /\ pc[p] = "siblings" /\ WriteConflicts(p) = {}
    /\ UNCHANGED <<tables, wiped, request, reads>>

\* A handler that goes on to siblings has just read the battery level.
ReadsLevel(p) ==
  pc'[p] = "siblings" =>
    /\ pc[p] = "battery"
    /\ dep_battery'[p] = battery_before(events \ wiped[p], TargetVehicle(p),
                                        _service_start(StopTuples(p)))
    /\ UNCHANGED <<tables, wiped, request, loaded, block_traversal>>

Keeps(p) ==
  /\ KeepsRows /\ KeepsLockedLedgers /\ CommitsChecked(p) /\ ReadsLevel(p)
  /\ \A q \in Proc \ {p} : wiped'[q] = wiped[q] /\ dep_battery'[q] = dep_battery[q]

WrittenRow(p) ==
  IF Creating(p)
    THEN [vehicle_id |-> req[p].vehicle_id, stops |-> StopRows(ticket[p], req[p].stops),
          departure_battery |-> dep_battery[p]]
    ELSE UpdatedRow(p)

\* A handler commits its payload.
CommitsPayload(p) ==
  /\ pc[p] = "commit" /\ req[p].stops # None /\ pc'[p] = "reload" /\ EndTransaction(p)
  /\ \/ req[p].op = "create"
     \/ req[p].op = "update" /\ services[Written(p)] # None /\ RowLoaded(p)
        /\ Written(p) = req[p].service_id /\ ~SequenceClash(p)
  /\ services' = [services EXCEPT ![Written(p)] = WrittenRow(p)]
  /\ WrittenRow(p) # None
  /\ WrittenRow(p).vehicle_id = TargetVehicle(p)
  /\ WrittenRow(p).stops = StopRows(ticket[p], req[p].stops)
  /\ events' = (events \ wiped[p]) \cup {NewConsumeEvent(p)}
  /\ UNCHANGED <<request, reads>>

\* Nothing but a commit of a payload changes what another handler relies on.
LEMMA HandlerSteps ==
  ASSUME PlannedRequests, RowsAreRows, LedgerInv, NEW p \in Proc, Begin(p) \/ Step(p)
  PROVE  OthersWait(p) /\ (Keeps(p) \/ CommitsPayload(p))
<1>t. OrdinaryRequests /\ OverlapInv /\ RowsInv /\ TypeInv /\ NumberedFromZero
  BY DEF PlannedRequests, LedgerInv, OverlapInv, RowsInv, OrdinaryRequests
<1>d. /\ DOMAIN wiped = Proc /\ pc \in [Proc -> Labels] /\ DOMAIN loaded = Proc
      /\ DOMAIN dep_battery = Proc /\ WipesOwnEvents(p)
  BY <1>t DEF TypeInv, TypeOK, LedgerInv
<1>s. services' = services => KeepsRows
  BY DEF KeepsRows
<1>e. events' = events => KeepsLockedLedgers
  BY DEF KeepsLockedLedgers
<1>a. ASSUME NEW status, Answer(p, status), services' = services, KeepsLockedLedgers
      PROVE  OthersWait(p) /\ Keeps(p)
  BY <1>a, <1>d, <1>s, <1>t, AnswerWaits
     DEF Keeps, CommitsChecked, ReadsLevel, EndTransaction
<1>r. ASSUME NEW status, Refuse(p, status) PROVE OthersWait(p) /\ Keeps(p)
  BY <1>a, <1>e, <1>r DEF Refuse, tables
<1>m. ASSUME NEW label, Goto(p, label), UNCHANGED <<services, events, request>>,
             \A q \in Proc \ {p} : /\ wiped'[q] = wiped[q] /\ loaded'[q] = loaded[q]
                                   /\ block_traversal'[q] = block_traversal[q]
                                   /\ dep_battery'[q] = dep_battery[q],
             label = "commit" => CommitsChecked(p),
             label = "siblings" => ReadsLevel(p)
      PROVE  OthersWait(p) /\ Keeps(p)
  <2>1. pc'[p] = label /\ OthersWait(p)
    BY <1>d, <1>m, <1>t DEF Goto, OthersWait, TypeInv, TypeOK, request
  <2> QED BY <1>e, <1>m, <1>s, <2>1 DEF Keeps, CommitsChecked, ReadsLevel, request
<1>1. CASE Begin(p)
  <2>1. PICK r \in Requests : req' = [req EXCEPT ![p] = r] /\ Goto(p, FirstStatement(r.op))
    BY <1>1 DEF Begin
  <2>2. OthersWait(p) /\ pc'[p] \notin {"siblings", "commit"}
    BY <1>1, <1>t, <2>1, RequestTyped DEF Begin, Goto, FirstStatement, OthersWait, reads, TypeInv, TypeOK
  <2> QED
    BY <1>1, <1>e, <1>s, <1>t, <2>2
       DEF Begin, Keeps, CommitsChecked, ReadsLevel, tables, reads
<1>2. CASE LoadService(p)
  <2>1. CASE services[req[p].service_id] # None
    <3>1. PICK label \in {"delete", "load_stops"} : Goto(p, label)
      BY <1>2, <2>1 DEF LoadService
    <3> QED BY <1>2, <1>d, <1>m, <2>1, <3>1 DEF LoadService, tables, request
  <2> QED BY <1>2, <1>r, <2>1 DEF LoadService
<1>21. CASE LoadStops(p)
  <2>1. /\ Goto(p, "lock")
        /\ UNCHANGED <<services, events, wiped, request, block_traversal, dep_battery>>
        /\ \A q \in Proc \ {p} : loaded'[q] = loaded[q]
    BY <1>21, <1>d DEF LoadStops, tables
  <2> QED BY <1>m, <2>1
<1>3. CASE LockVehicle(p)
  <2>1. CASE Goto(p, "traversal") /\ UNCHANGED <<tables, wiped, request, reads, reply>>
    BY <1>m, <2>1 DEF tables, reads
  <2> QED BY <1>3, <1>r, <2>1 DEF LockVehicle
<1>4. CASE ReadTraversal(p)
  <2> DEFINE label == IF Creating(p) THEN "battery" ELSE IF Rechecked(p) THEN "wipe" ELSE "commit"
  <2>1. label # "siblings" /\ (label = "commit" => req[p].stops = None)
    BY DEF Rechecked
  <2>2. /\ Goto(p, label) /\ UNCHANGED <<services, events, request>>
        /\ \A q \in Proc \ {p} : /\ wiped'[q] = wiped[q] /\ loaded'[q] = loaded[q]
                                 /\ block_traversal'[q] = block_traversal[q]
                                 /\ dep_battery'[q] = dep_battery[q]
    BY <1>4, <1>t DEF ReadTraversal, tables, TypeInv, TypeOK
  <2> HIDE DEF label
  <2> QED BY <1>m, <2>1, <2>2 DEF CommitsChecked, request
<1>5. CASE WipeConsume(p)
  <2> DEFINE label == IF EventsToWipe(p) \cap WipedByOthers(p) = {} THEN "battery" ELSE "wipe_wait"
  <2>1. /\ Goto(p, label) /\ UNCHANGED <<services, events, request>>
        /\ label \notin {"siblings", "commit"}
        /\ \A q \in Proc \ {p} : /\ wiped'[q] = wiped[q] /\ loaded'[q] = loaded[q]
                                 /\ block_traversal'[q] = block_traversal[q]
                                 /\ dep_battery'[q] = dep_battery[q]
    BY <1>5, <1>d DEF WipeConsume, tables, reads
  <2> HIDE DEF label
  <2> QED BY <1>m, <2>1
<1>6. CASE ResumeWipe(p)
  BY <1>6, <1>d DEF ResumeWipe, WipesOwnEvents
<1>7. CASE ReadBattery(p)
  <2>1. CASE ~Refuse(p, 500)
    <3>1. ReadsLevel(p)
      BY <1>7, <1>d, <2>1 DEF ReadBattery, ReadsLevel
    <3>2. /\ Goto(p, "siblings") /\ UNCHANGED <<tables, wiped, request, loaded, block_traversal>>
          /\ \A q \in Proc \ {p} : dep_battery'[q] = dep_battery[q]
      BY <1>7, <1>d, <2>1 DEF ReadBattery
    <3> QED BY <1>m, <3>1, <3>2 DEF tables
  <2> QED BY <1>r, <2>1
<1>8. CASE CheckSiblings(p)
  <2>1. CASE ~Refuse(p, 409)
    <3>1. CommitsChecked(p)
      BY <1>8, <2>1 DEF CheckSiblings, CommitsChecked
    <3>2. Goto(p, "commit") /\ UNCHANGED <<tables, wiped, request, reads>>
      BY <1>8, <2>1 DEF CheckSiblings
    <3> QED BY <1>m, <3>1, <3>2 DEF tables, reads
  <2> QED BY <1>r, <2>1
<1>9. CASE CommitCreate(p)
  <2>1. /\ pc[p] = "commit" /\ req[p].op = "create" /\ req[p].stops # None /\ Creating(p)
        /\ Written(p) = ticket[p] /\ TargetVehicle(p) = req[p].vehicle_id
        /\ WrittenRow(p) # None
    BY <1>9, <1>t, RequestTyped, RequestStops, ParametersAssumption
       DEF CommitCreate, Creating, Written, TargetVehicle, TypeInv, Phases, RowsAreRows, WrittenRow
  <2>2. /\ services' = [services EXCEPT ![Written(p)] = WrittenRow(p)]
        /\ WrittenRow(p).vehicle_id = TargetVehicle(p)
        /\ WrittenRow(p).stops = StopRows(ticket[p], req[p].stops)
    BY <1>9, <2>1 DEF CommitCreate, WrittenRow
  <2>3. events' = (events \ wiped[p]) \cup {NewConsumeEvent(p)}
    BY <1>9, <1>d, <2>1 DEF CommitCreate, WipesOwnEvents, Rewriting
  <2>4. EndTransaction(p) /\ pc'[p] = "reload" /\ OthersWait(p) /\ UNCHANGED <<request, reads>>
    BY <1>9, <1>d, <1>t DEF CommitCreate, Goto, OthersWait, request, reads, TypeInv, TypeOK
  <2> QED BY <2>1, <2>2, <2>3, <2>4 DEF CommitsPayload
<1>10. CASE CommitUpdate(p)
  <2>1. CASE ~Refuse(p, 500)
    <3> DEFINE s == req[p].service_id
               row == UpdatedRow(p)
    <3>1. /\ pc[p] = "commit" /\ req[p].op = "update" /\ s \in ServiceId /\ Written(p) = s
          /\ services[s] # None /\ RowLoaded(p) /\ ~Creating(p)
          /\ services' = [services EXCEPT ![s] = row]
          /\ row.stops = IF req[p].stops # None THEN StopRows(ticket[p], req[p].stops)
                         ELSE services[s].stops
          /\ events' = (events \ wiped[p]) \cup (IF Rechecked(p) THEN {NewConsumeEvent(p)} ELSE {})
          /\ EndTransaction(p) /\ Goto(p, "reload")
          /\ UNCHANGED <<block_configs, request, reads>>
      BY <1>10, <1>t, <2>1, UpdateCommits DEF HasStops
    <3>2. /\ ~Reassigning(p) /\ TargetVehicle(p) = loaded[p].vehicle_id
          /\ services[s].vehicle_id = loaded[p].vehicle_id /\ ~SequenceClash(p)
      BY <1>10, <1>t, <2>1, <3>1
         DEF CommitUpdate, OrdinaryRequests, Reassigning, TypeInv, Phases, Live, TargetVehicle,
             OverlapInv, LoadedVehicleKept
    <3>3. /\ row.vehicle_id = services[s].vehicle_id /\ row # None
          /\ req[p].stops = None => row.departure_battery = services[s].departure_battery
      BY <3>2 DEF UpdatedRow, RowsAreRows, Rechecked
    <3>4. OthersWait(p) /\ pc'[p] = "reload" /\ \A q \in Proc \ {p} : wiped'[q] = wiped[q]
      BY <1>d, <1>t, <3>1 DEF Goto, OthersWait, EndTransaction, request, reads, TypeInv, TypeOK
    <3>5. row = WrittenRow(p)
      BY <3>1 DEF WrittenRow
    <3> HIDE DEF row
    <3>6. CASE req[p].stops # None
      BY <3>1, <3>2, <3>3, <3>4, <3>5, <3>6 DEF CommitsPayload, Rechecked
    <3>7. CASE req[p].stops = None
      <4>1. events' = events
        BY <1>d, <3>1, <3>2, <3>7 DEF Rechecked, WipesOwnEvents, Rewriting
      <4>2. KeepsRows
        BY <1>t, <3>1, <3>3, <3>7 DEF KeepsRows, TypeInv, TypeOK
      <4> QED BY <1>e, <3>1, <3>4, <4>1, <4>2 DEF Keeps, CommitsChecked, ReadsLevel, request, reads
    <3> QED BY <3>6, <3>7
  <2> QED BY <1>r, <2>1
<1>11. CASE ReloadService(p) \/ DeadlockAbort(p)
  BY <1>11, <1>r DEF ReloadService, DeadlockAbort
<1>12. CASE DeleteServiceRow(p) \/ CascadeAndCommit(p)
  BY <1>12, <1>t DEF DeleteServiceRow, CascadeAndCommit, PlannedRequests, TypeInv, Phases
<1>13. CASE ReadLevel(p)
  <2>1. CASE ~Refuse(p, 404)
    BY <1>13, <1>d, <1>m, <2>1 DEF ReadLevel, tables
  <2> QED BY <1>r, <2>1
<1>14. CASE AdjustLevel(p)
  <2>1. CASE ~Refuse(p, 409)
    <3> DEFINE new == emit_manual_adjust(ticket[p], req[p].vehicle_id, dep_battery[p],
                                         req[p].level, Now)
    <3>1. /\ Answer(p, 200) /\ services' = services /\ lock[req[p].vehicle_id] = None
          /\ events' = events \cup {new}
      BY <1>14, <2>1 DEF AdjustLevel, VehicleRowFree
    <3>2. new.vehicle_id = req[p].vehicle_id
      BY DEF emit_manual_adjust, Event
    <3> HIDE DEF new
    <3> QED BY <1>a, <3>1, <3>2 DEF KeepsLockedLedgers
  <2> QED BY <1>r, <2>1
<1>15. CASE CountServices(p)
  <2>1. CASE Goto(p, "remove") /\ UNCHANGED <<tables, lock, wiped, request, reads, reply>>
    BY <1>m, <2>1 DEF tables, reads
  <2> QED BY <1>15, <1>r, <2>1 DEF CountServices
<1>16. CASE RemoveVehicle(p)
  <2>1. CASE ~(Refuse(p, 204) \/ Refuse(p, 500))
    BY <1>16, <1>a, <2>1 DEF RemoveVehicle, VehicleRowFree, KeepsLockedLedgers
  <2> QED BY <1>r, <2>1
<1>17. CASE UpdateBlock(p)
  BY <1>17, <1>t DEF UpdateBlock, OrdinaryRequests, TypeInv, Phases
<1> QED
  BY <1>1, <1>2, <1>3, <1>4, <1>5, <1>6, <1>7, <1>8, <1>9, <1>10, <1>11, <1>12, <1>13,
     <1>14, <1>15, <1>16, <1>17, <1>21 DEF Step
-----------------------------------------------------------------------------
(* A vehicle's day *)

\* What the detector looks at of a service.
TripOn(s, stops) == [service_id |-> s, stops |-> SnapshotStops(stops, InitialTraversal)]

OnVehicle(v, s) == {t \in Live : services[t].vehicle_id = v /\ t # s}

\* The trips of a vehicle but one.
DayWithout(v, s) == {TripOn(t, StopsIn(services[t])) : t \in OnVehicle(v, s)}

\* Every trip starts where the one before it has ended.
Connected(day) ==
  \A a, b \in day :
    /\ a.service_id # b.service_id
    /\ StartsBefore(a, b) /\ (\A c \in day : ~(StartsBefore(a, c) /\ StartsBefore(c, b)))
    => LastNode(a) = FirstNode(b)

Day(v) == DayWithout(v, 0)

\* The vehicle's day as a handler is about to leave it.
PlannedDay(p) ==
  DayWithout(TargetVehicle(p), Written(p)) \cup {TripOn(Written(p), req[p].stops)}

PlanConnected(p) == pc[p] = "commit" /\ req[p].stops # None => Connected(PlannedDay(p))

DaysInv ==
  /\ LedgerInv
  /\ \A v \in Vehicle : Connected(Day(v))
  /\ \A p \in Proc : PlanConnected(p)

\* Where the detector finds nothing, a service starts where the one before has ended.
LEMMA QuietDetector ==
  ASSUME NEW snapshots, detect_vehicle_conflicts(snapshots) = {},
         NEW a \in snapshots, NEW b \in snapshots, a.stops # << >>, b.stops # << >>,
         a.service_id # b.service_id, a.vehicle_id = b.vehicle_id, StartsBefore(a, b),
         \A c \in snapshots : c.stops # << >> /\ c.vehicle_id = a.vehicle_id =>
           ~(StartsBefore(a, c) /\ StartsBefore(c, b))
  PROVE  LastNode(a) = FirstNode(b)
<1> DEFINE timed == {s \in snapshots : s.stops # << >>}
           gaps == {pair \in SuccessivePairs(timed) :
                      /\ ~_intervals_overlap(_snap_window(pair[1]), _snap_window(pair[2]))
                      /\ LastNode(pair[1]) # FirstNode(pair[2])}
           Ids(pair) == {pair[1].service_id, pair[2].service_id}
<1>1. /\ {Conflict("vehicle_overlap", Ids(pair), {}) : pair \in OverlapPairs(timed)} = {}
      /\ {Conflict("vehicle_discontinuity", Ids(pair), {}) : pair \in gaps} = {}
  BY Zenon DEF detect_vehicle_conflicts
<1> DEFINE both == <<a, b>>
<1>2. both \in SuccessivePairs(timed)
  BY DEF SuccessivePairs
<1>3. both \notin OverlapPairs(timed) /\ both \notin gaps
  <2> HIDE DEF both, timed, gaps
  <2> QED BY <1>1
<1>4. ~_intervals_overlap(_snap_window(a), _snap_window(b))
  BY <1>3 DEF OverlapPairs
<1> QED BY <1>2, <1>3, <1>4

\* A payload that passes the check leaves its vehicle's day connected.
LEMMA CheckedPlanConnects ==
  ASSUME OrdinaryRequests, OverlapInv, NEW p \in Proc, pc[p] = "siblings",
         WriteConflicts(p) = {}, req[p].stops # None
  PROVE  Connected(PlannedDay(p))
<1> USE DEF OverlapInv, RowsInv
<1> DEFINE Snap(t) == SnapshotOf(t, services[t], block_configs)
           snapshots == {Snap(t) : t \in Siblings(p)} \cup {Candidate(p)}
           v == TargetVehicle(p)
           s == Written(p)
<1>1. detect_vehicle_conflicts(snapshots) = {}
  <2>1. detect_vehicle_conflicts(snapshots) \subseteq detect_all_conflicts(snapshots)
    BY DEF detect_all_conflicts
  <2>2. \A c \in detect_vehicle_conflicts(snapshots) : c.conflict_type \in WRITE_TIME_CONFLICTS
    <3> HIDE DEF snapshots
    <3>1. \A ids : /\ Conflict("vehicle_overlap", ids, {}).conflict_type \in WRITE_TIME_CONFLICTS
                   /\ Conflict("vehicle_discontinuity", ids, {}).conflict_type \in WRITE_TIME_CONFLICTS
      BY DEF WRITE_TIME_CONFLICTS, Conflict
    <3> QED BY <3>1, Zenon DEF detect_vehicle_conflicts
  <2> QED BY <2>1, <2>2 DEF WriteConflicts
<1>2. /\ SchemaAccepts(req[p].stops) /\ ~PayloadErrors(req[p].stops)
      /\ block_traversal[p] = InitialTraversal /\ block_configs = InitialTraversal
  BY RequestStops DEF TypeInv, Phases, PayloadsChecked, HoldsRow, TraversalFixed
<1>3. /\ Candidate(p).stops = SnapshotStops(req[p].stops, InitialTraversal)
      /\ Candidate(p).service_id = s /\ Candidate(p).vehicle_id = v
  BY <1>2, CandidateWindow DEF Candidate
<1>4. SnapshotStops(req[p].stops, InitialTraversal) # << >>
  <2>1. Accepts(req[p].stops)
    BY <1>2 DEF PayloadErrors, Accepts, SchemaAccepts
  <2>2. PICK stops : stops = req[p].stops
    OBVIOUS
  <2>3. Len(SnapshotStops(stops, InitialTraversal)) = Len(stops) /\ Len(stops) >= 2
    BY <1>2, <2>1, <2>2, PayloadRuns, ParametersAssumption DEF RunsThrough, SchemaAccepts
  <2> QED BY <2>2, <2>3
\* Trips and snapshots stand for one another.
<1>5. /\ Siblings(p) = OnVehicle(v, s)
      /\ \A t \in Siblings(p) : /\ Snap(t).service_id = t /\ Snap(t).vehicle_id = v
                                /\ Snap(t).stops = SnapshotStops(StopsIn(services[t]), InitialTraversal)
                                /\ Snap(t).stops # << >> /\ t # s
  BY <1>2, RowsTimed DEF Siblings, OnVehicle, SnapshotOf, Timed
<1> DEFINE Stands(trip, snap) ==
             /\ snap \in snapshots /\ snap.service_id = trip.service_id /\ snap.stops = trip.stops
             /\ snap.vehicle_id = v /\ snap.stops # << >>
<1>6. /\ \A trip \in PlannedDay(p) : \E snap \in snapshots : Stands(trip, snap)
      /\ \A snap \in snapshots : \E trip \in PlannedDay(p) : Stands(trip, snap)
  <2>1. Stands(TripOn(s, req[p].stops), Candidate(p))
    BY <1>3, <1>4 DEF TripOn
  <2>2. \A t \in Siblings(p) : Stands(TripOn(t, StopsIn(services[t])), Snap(t))
    BY <1>5 DEF TripOn
  <2> HIDE DEF Stands, Snap
  <2> QED BY <1>5, <2>1, <2>2 DEF PlannedDay, DayWithout
<1>7. \A a, b, c, d : Stands(a, c) /\ Stands(b, d) => (StartsBefore(a, b) <=> StartsBefore(c, d))
  BY DEF StartsBefore, _snap_window
<1> SUFFICES ASSUME NEW a \in PlannedDay(p), NEW b \in PlannedDay(p), StartsBefore(a, b),
                    \A c \in PlannedDay(p) : ~(StartsBefore(a, c) /\ StartsBefore(c, b)),
                    a.service_id # b.service_id
             PROVE  LastNode(a) = FirstNode(b)
  BY DEF Connected
<1>8. PICK x \in snapshots : Stands(a, x)
  BY <1>6
<1>9. PICK y \in snapshots : Stands(b, y)
  BY <1>6
<1> HIDE DEF snapshots
<1>10. /\ StartsBefore(x, y) /\ x.service_id # y.service_id
       /\ \A c \in snapshots : ~(StartsBefore(x, c) /\ StartsBefore(c, y))
  BY <1>6, <1>7, <1>8, <1>9
<1>11. LastNode(x) = FirstNode(y)
  BY <1>1, <1>8, <1>9, <1>10, QuietDetector
<1> QED BY <1>8, <1>9, <1>11 DEF LastNode, FirstNode

LEMMA DaysInit == Init => DaysInv
<1> SUFFICES ASSUME Init PROVE DaysInv
  OBVIOUS
<1>1. Live = {} /\ \A p \in Proc : pc[p] = "idle"
  BY DEF Init, Live
<1> QED
  BY <1>1, LedgerInit DEF DaysInv, Connected, Day, DayWithout, OnVehicle, PlanConnected

\* Days stay as they are while no service is written.
LEMMA DaysKept ==
  ASSUME KeepsRows
  PROVE  \A v, s : DayWithout(v, s)' = DayWithout(v, s)
<1>1. Live' = Live /\ Live \subseteq ServiceId
  BY DEF KeepsRows, Live
<1>2. \A t \in Live : /\ StopsIn(services'[t]) = StopsIn(services[t])
                      /\ services'[t].vehicle_id = services[t].vehicle_id
  BY <1>1 DEF KeepsRows, StopsIn, Live
<1>3. ASSUME NEW v, NEW s PROVE DayWithout(v, s)' = DayWithout(v, s)
  <2>1. OnVehicle(v, s)' = OnVehicle(v, s)
    BY <1>1, <1>2 DEF OnVehicle
  <2> QED BY <1>2, <2>1 DEF DayWithout, OnVehicle
<1> QED BY <1>3

\* A commit makes the vehicle's day the planned one, and leaves every other day alone.
LEMMA CommitMakesPlan ==
  ASSUME OrdinaryRequests, LedgerInv, NEW p \in Proc, CommitsPayload(p),
         NEW v, v = TargetVehicle(p)
  PROVE  /\ Day(v)' = PlannedDay(p)
         /\ \A w \in Vehicle \ {v} : \A t : DayWithout(w, t)' = DayWithout(w, t)
<1> USE DEF LedgerInv, OverlapInv, RowsInv
<1>1. PICK s : s = Written(p)
  OBVIOUS
<1>3. PICK row : row = WrittenRow(p)
  OBVIOUS
<1>4. PICK stops : stops = req[p].stops
  OBVIOUS
<1>5. /\ s \in ServiceId /\ v \in Vehicle /\ row # None /\ row.vehicle_id = v
      /\ services' = [services EXCEPT ![s] = row]
  BY <1>1, <1>3, WriterTyped DEF CommitsPayload, TypeInv, Phases
<1>6. /\ services'[s] = row /\ \A t \in ServiceId \ {s} : services'[t] = services[t]
      /\ Live' = Live \cup {s} /\ Live \subseteq ServiceId
  BY <1>5 DEF TypeInv, TypeOK, Live
<1>7. StopsIn(row) = stops
  BY <1>3, <1>4, RequestStops, StopsReadBack DEF CommitsPayload, TypeInv, Phases
\* Its service was on the same vehicle, if it was there.
<1>8. s \in Live => services[s].vehicle_id = v
  <2>1. CASE req[p].op = "create"
    BY <1>1, <2>1 DEF CommitsPayload, KeysUnique, Unwritten, Creating, Written, Live
  <2>2. CASE req[p].op = "update"
    BY <1>1, <2>2 DEF CommitsPayload, OrdinaryRequests, TargetVehicle, LoadedVehicleKept, TypeInv, Phases
  <2> QED BY <2>1, <2>2 DEF CommitsPayload
<1>9. Day(v)' = PlannedDay(p)
  <2>1. OnVehicle(v, 0)' = OnVehicle(v, s) \cup {s}
    BY <1>5, <1>6, ParametersAssumption DEF OnVehicle, ServiceId
  <2>2. \A t \in OnVehicle(v, s) : services'[t] = services[t]
    BY <1>6 DEF OnVehicle
  <2>3. Day(v)' = {TripOn(t, StopsIn(services'[t])) : t \in OnVehicle(v, s) \cup {s}}
    BY <2>1 DEF Day, DayWithout
  <2>4. PlannedDay(p) = {TripOn(t, StopsIn(services[t])) : t \in OnVehicle(v, s)} \cup {TripOn(s, stops)}
    BY <1>1, <1>4 DEF PlannedDay, DayWithout
  <2> QED BY <1>6, <1>7, <2>2, <2>3, <2>4
<1>10. ASSUME NEW w \in Vehicle \ {v}, NEW t PROVE DayWithout(w, t)' = DayWithout(w, t)
  <2>1. OnVehicle(w, t)' = OnVehicle(w, t)
    BY <1>5, <1>6, <1>8 DEF OnVehicle
  <2>2. \A u \in OnVehicle(w, t) : services'[u] = services[u]
    BY <1>6, <1>8 DEF OnVehicle
  <2> QED BY <2>1, <2>2 DEF DayWithout
<1> QED BY <1>9, <1>10

\* Every step keeps the vehicles' days connected.
LEMMA DaysStep ==
  ASSUME PlannedRequests, RowsAreRows, DaysInv, [Next]_vars
  PROVE  DaysInv'
<1>t. OrdinaryRequests /\ LedgerInv /\ LedgerInv' /\ OverlapInv /\ TypeInv /\ TypeInv'
  BY LedgerStep DEF PlannedRequests, DaysInv, LedgerInv, OverlapInv, RowsInv
<1>1. ASSUME NEW p \in Proc, OthersWait(p), Keeps(p) PROVE DaysInv'
  <2>1. \A v, s : DayWithout(v, s)' = DayWithout(v, s)
    BY <1>1, DaysKept DEF Keeps
  <2>2. \A v \in Vehicle : Connected(Day(v))'
    BY <2>1 DEF DaysInv, Day
  <2>3. ASSUME NEW q \in Proc PROVE PlanConnected(q)'
    <3>1. CASE q # p
      <4>1. PlannedDay(q)' = PlannedDay(q)
        BY <1>1, <2>1, <3>1, OthersTargets DEF PlannedDay, OthersWait
      <4> QED BY <1>1, <3>1, <4>1 DEF DaysInv, PlanConnected, OthersWait
    <3>2. CASE q = p
      <4> SUFFICES ASSUME pc'[p] = "commit", req'[p].stops # None PROVE Connected(PlannedDay(p))'
        BY <3>2 DEF PlanConnected
      <4>1. /\ pc[p] = "siblings" /\ WriteConflicts(p) = {} /\ req[p].stops # None
            /\ UNCHANGED <<req, ticket, loaded>>
        BY <1>1 DEF Keeps, CommitsChecked, request, reads
      <4>2. Connected(PlannedDay(p))
        BY <1>t, <4>1, CheckedPlanConnects
      <4>3. PlannedDay(p)' = PlannedDay(p)
        BY <2>1, <4>1 DEF PlannedDay, TargetVehicle, Written, Creating
      <4> QED BY <4>2, <4>3
    <3> QED BY <3>1, <3>2
  <2> QED BY <1>t, <2>2, <2>3 DEF DaysInv
<1>2. ASSUME NEW p \in Proc, OthersWait(p), CommitsPayload(p) PROVE DaysInv'
  <2>1. PICK v \in Vehicle : v = TargetVehicle(p)
    BY <1>2, <1>t, WriterTyped DEF CommitsPayload
  <2>2. /\ Day(v)' = PlannedDay(p)
        /\ \A w \in Vehicle \ {v} : \A t : DayWithout(w, t)' = DayWithout(w, t)
    BY <1>t, <1>2, <2>1, CommitMakesPlan
  <2>3. Connected(PlannedDay(p))
    BY <1>2 DEF DaysInv, PlanConnected, CommitsPayload
  <2>4. ASSUME NEW w \in Vehicle PROVE Connected(Day(w))'
    BY <2>2, <2>3 DEF DaysInv, Day
  <2>5. ASSUME NEW q \in Proc PROVE PlanConnected(q)'
    <3>1. CASE q = p
      BY <1>2, <3>1 DEF PlanConnected, CommitsPayload
    <3>2. CASE q # p
      <4> SUFFICES ASSUME pc'[q] = "commit", req'[q].stops # None PROVE Connected(PlannedDay(q))'
        BY DEF PlanConnected
      <4>1. /\ pc[q] = "commit" /\ req[q].stops # None /\ Connected(PlannedDay(q))
            /\ TargetVehicle(q)' = TargetVehicle(q) /\ Written(q)' = Written(q) /\ req' [q] = req[q]
        BY <1>2, <3>2, OthersTargets DEF OthersWait, DaysInv, PlanConnected
      <4>2. TargetVehicle(q) \in Vehicle \ {v}
        <5>1. TargetVehicle(q) \in Vehicle
          BY <1>t, <4>1, WriterTyped DEF TypeInv, Phases
        <5> QED BY <1>2, <1>t, <2>1, <3>2, <4>1, <5>1 DEF OverlapInv, RowHeld, HoldsRow, CommitsPayload
      <4>3. PlannedDay(q)' = PlannedDay(q)
        BY <2>2, <4>1, <4>2 DEF PlannedDay
      <4> QED BY <4>1, <4>3
    <3> QED BY <3>1, <3>2
  <2> QED BY <1>t, <2>4, <2>5 DEF DaysInv
<1>3. CASE UNCHANGED vars
  <2>1. UNCHANGED <<services, pc, req, ticket, loaded>>
    BY <1>3 DEF vars, tables, request, reads
  <2>2. \A v, s : DayWithout(v, s)' = DayWithout(v, s)
    BY <2>1 DEF DayWithout, OnVehicle, Live
  <2>3. \A q \in Proc : PlanConnected(q)'
    BY <2>1, <2>2 DEF DaysInv, PlanConnected, PlannedDay, TargetVehicle, Written, Creating
  <2> QED BY <1>t, <2>2, <2>3 DEF DaysInv, Day
<1> QED BY <1>t, <1>1, <1>2, <1>3, HandlerSteps DEF Next, Served

\* The instants of a payload are numbers.
LEMMA SpanTyped ==
  ASSUME NEW stops, SchemaAccepts(stops), Accepts(stops), NEW traversal \in [BLOCKS -> Nat \ {0}],
         NEW tuples, tuples = SnapshotStops(stops, traversal)
  PROVE  tuples[1].enter \in Nat /\ tuples[Len(tuples)].exit \in Nat
<1> DEFINE Tuples == [node_id : {stops[i].node_id : i \in DOMAIN stops}, enter : Nat, exit : Nat]
<1>1. RunsThrough(stops, traversal, tuples, Len(stops))
  BY PayloadRuns
<1>2. tuples \in Seq(Tuples) /\ Len(tuples) = Len(stops)
  BY <1>1 DEF RunsThrough
<1>3. Len(stops) \in Nat /\ Len(stops) >= 2
  BY DEF SchemaAccepts
<1> HIDE DEF Tuples
<1>4. tuples[1] \in Tuples /\ tuples[Len(tuples)] \in Tuples
  BY <1>2, <1>3
<1> QED BY <1>4 DEF Tuples

\* The instants of a stored service are numbers.
LEMMA WindowTyped ==
  ASSUME RowsInv, NEW s \in Live
  PROVE  Window(s).enter \in Nat /\ Window(s).exit \in Nat
<1>1. SchemaAccepts(StopsIn(services[s])) /\ Accepts(StopsIn(services[s]))
  BY WholePath DEF RowsInv, RowsWhole
<1>2. PICK tuples : tuples = SnapshotStops(StopsIn(services[s]), block_configs)
  OBVIOUS
<1>3. tuples[1].enter \in Nat /\ tuples[Len(tuples)].exit \in Nat
  BY <1>1, <1>2, SpanTyped DEF RowsInv, TypeInv, TypeOK
<1> QED BY <1>2, <1>3 DEF Window, _snap_window, SnapshotOf

\* In connected days without overlaps the detector finds nothing.
LEMMA ConnectedDaysAreQuiet ==
  ASSUME DaysInv
  PROVE  NoVehicleConflict
<1> USE DEF DaysInv, LedgerInv, OverlapInv, RowsInv
<1> DEFINE Snap(t) == SnapshotOf(t, services[t], block_configs)
           snapshots == {Snap(t) : t \in Live}
           timed == {s \in snapshots : s.stops # << >>}
           gaps == {pair \in SuccessivePairs(timed) :
                      /\ ~_intervals_overlap(_snap_window(pair[1]), _snap_window(pair[2]))
                      /\ LastNode(pair[1]) # FirstNode(pair[2])}
           Trip(t) == TripOn(t, StopsIn(services[t]))
<1>1. /\ block_configs = InitialTraversal /\ Timed = Live
      /\ \A t \in Live : /\ Window(t).enter \in Nat /\ t \in Nat
                         /\ services[t].vehicle_id \in Vehicle /\ t # 0 /\ t \in ServiceId
  BY RowsTimed, WindowTyped, ParametersAssumption
     DEF TraversalFixed, TypeInv, TypeOK, IsRow, Live, ServiceId
<1>2. \A t \in Live : /\ Snap(t).service_id = t /\ Snap(t).vehicle_id = services[t].vehicle_id
                      /\ Snap(t).stops # << >> /\ _snap_window(Snap(t)) = Window(t)
                      /\ Snap(t).stops = Trip(t).stops /\ Trip(t).service_id = t
  BY <1>1 DEF SnapshotOf, Timed, Window, TripOn
<1>3. \A t, u \in Live : StartsBefore(Trip(t), Trip(u)) <=> StartsBefore(Snap(t), Snap(u))
  BY <1>2 DEF StartsBefore, _snap_window
<1>4. OverlapPairs(timed) = {}
  <2> SUFFICES ASSUME NEW pair \in OverlapPairs(timed) PROVE FALSE
    OBVIOUS
  <2>1. PICK t \in Live, u \in Live : pair[1] = Snap(t) /\ pair[2] = Snap(u)
    BY DEF OverlapPairs
  <2> HIDE DEF Snap, timed
  <2> QED BY <1>1, <1>2, <2>1 DEF OverlapPairs, NoVehicleOverlap
<1>5. gaps = {}
  <2> SUFFICES ASSUME NEW pair \in gaps PROVE FALSE
    OBVIOUS
  <2>1. PICK t \in Live, u \in Live : pair[1] = Snap(t) /\ pair[2] = Snap(u)
    BY DEF SuccessivePairs
  <2>2. /\ services[t].vehicle_id = services[u].vehicle_id /\ StartsBefore(Snap(t), Snap(u))
        /\ LastNode(Snap(t)) # FirstNode(Snap(u))
        /\ \A w \in Live : services[w].vehicle_id = services[t].vehicle_id =>
             ~(StartsBefore(Snap(t), Snap(w)) /\ StartsBefore(Snap(w), Snap(u)))
    <3>1. \A w \in Live : Snap(w) \in timed
      BY <1>2
    <3> HIDE DEF Snap, timed
    <3> QED BY <1>2, <2>1, <3>1 DEF SuccessivePairs
  <2>3. t # u
    BY <1>1, <1>2, <2>2 DEF StartsBefore
  <2> DEFINE v == services[t].vehicle_id
  <2>4. /\ Trip(t) \in Day(v) /\ Trip(u) \in Day(v)
        /\ \A c \in Day(v) : \E w \in Live : services[w].vehicle_id = v /\ c = Trip(w)
    BY <1>1, <2>2 DEF Day, DayWithout, OnVehicle
  <2>5. Connected(Day(v)) /\ StartsBefore(Trip(t), Trip(u))
    BY <1>1, <1>3, <2>2
  <2>6. \A c \in Day(v) : ~(StartsBefore(Trip(t), c) /\ StartsBefore(c, Trip(u)))
    BY <1>3, <2>2, <2>4
  <2>7. LastNode(Trip(t)) = FirstNode(Trip(u))
    <3> HIDE DEF Trip, v
    <3> QED BY <1>2, <2>3, <2>4, <2>5, <2>6 DEF Connected
  <2> QED BY <1>2, <2>2, <2>7 DEF LastNode, FirstNode
<1>6. detect_vehicle_conflicts(snapshots) =
        {Conflict("vehicle_overlap", {pair[1].service_id, pair[2].service_id}, {}) :
           pair \in OverlapPairs(timed)}
        \cup {Conflict("vehicle_discontinuity", {pair[1].service_id, pair[2].service_id}, {}) :
                pair \in gaps}
  BY Zenon DEF detect_vehicle_conflicts
<1> HIDE DEF timed, gaps
<1> QED BY <1>4, <1>5, <1>6 DEF NoVehicleConflict

\* As long as requests are ordinary and none deletes a service, the detector never finds
\* a vehicle conflict in the timetable: no vehicle is in two places, and each of its
\* services starts where the one before has ended, whichever creations and retimings run
\* side by side.
THEOREM DaysStayConnected ==
  ASSUME PlannedRequests, RowsAreRows
  PROVE  Spec => []NoVehicleConflict
<1>1. DaysInv /\ [Next]_vars => DaysInv'
  BY DaysStep
<1>2. DaysInv => NoVehicleConflict
  BY ConnectedDaysAreQuiet
<1> QED BY <1>1, <1>2, DaysInit, PTL DEF Spec
-----------------------------------------------------------------------------
(* The battery a service starts with *)

\* No payload ends before it starts: the request handlers do not check it.
ForwardRequests ==
  \A r \in Requests :
    r.op \in {"create", "update"} /\ r.stops # None /\ ~PayloadErrors(r.stops) =>
      Span(r.stops).enter <= Span(r.stops).exit

\* The level a handler has read is what the ledger says, up to its commit.
BatteryRead(p) ==
  pc[p] \in {"siblings", "commit"} /\ req[p].stops # None =>
    dep_battery[p] =
      battery_before(events \ wiped[p], TargetVehicle(p), Span(req[p].stops).enter)

FreshInv == LedgerInv /\ \A p \in Proc : BatteryRead(p)

\* What the detector and the ledger take for the start of a payload.
LEMMA PayloadStart ==
  ASSUME OverlapInv, NEW p \in Proc, HoldsRow(p), pc[p] # "traversal", req[p].stops # None
  PROVE  _service_start(StopTuples(p)) = Span(req[p].stops).enter
<1>1. /\ SchemaAccepts(req[p].stops) /\ ~PayloadErrors(req[p].stops)
      /\ block_traversal[p] = InitialTraversal
  BY RequestStops
     DEF OverlapInv, RowsInv, TypeInv, Phases, PayloadsChecked, HoldsRow, TraversalFixed
<1>2. StopTuples(p) = SnapshotStops(req[p].stops, InitialTraversal)
  BY <1>1, CandidateWindow DEF Candidate
<1> QED BY <1>2 DEF Span, _service_start

LEMMA FreshInit == Init => FreshInv
<1> SUFFICES ASSUME Init PROVE FreshInv
  OBVIOUS
<1>1. \A p \in Proc : pc[p] = "idle"
  BY DEF Init
<1> QED BY <1>1, LedgerInit DEF FreshInv, BatteryRead

\* A step that writes no service.
LEMMA FreshKept ==
  ASSUME PlannedRequests, FreshInv, NEW p \in Proc, OthersWait(p), Keeps(p)
  PROVE  \A q \in Proc : BatteryRead(q)'
<1> USE DEF FreshInv, LedgerInv, OverlapInv, RowsInv
<1> SUFFICES ASSUME NEW q \in Proc, pc'[q] \in {"siblings", "commit"}, req'[q].stops # None
             PROVE  dep_battery'[q] = battery_before(events' \ wiped'[q], TargetVehicle(q)',
                                                     Span(req'[q].stops).enter)
  BY DEF BatteryRead, Span
<1>1. CASE q # p
  <2>1. /\ pc'[q] = pc[q] /\ req'[q] = req[q] /\ wiped'[q] = wiped[q]
        /\ dep_battery'[q] = dep_battery[q] /\ TargetVehicle(q)' = TargetVehicle(q)
    BY <1>1, OthersTargets DEF OthersWait, Keeps
  <2>2. TargetVehicle(q) \in Vehicle /\ lock[TargetVehicle(q)] # None
    BY <2>1, WriterTyped, ParametersAssumption DEF TypeInv, Phases, RowHeld, HoldsRow
  <2>3. {e \in events : e.vehicle_id = TargetVehicle(q)}
          = {e \in events' : e.vehicle_id = TargetVehicle(q)}
    BY <2>2 DEF Keeps, KeepsLockedLedgers
  <2>4. EventsOf(events \ wiped[q], TargetVehicle(q))
          = EventsOf(events' \ wiped[q], TargetVehicle(q))
    BY <2>3 DEF EventsOf
  <2> QED BY <2>1, <2>4 DEF BatteryRead, battery_before
<1>2. CASE q = p /\ pc'[p] = "siblings"
  <2>1. /\ pc[p] = "battery" /\ UNCHANGED <<tables, wiped, request, loaded>>
        /\ dep_battery'[p] = battery_before(events \ wiped[p], TargetVehicle(p),
                                            _service_start(StopTuples(p)))
    BY <1>2 DEF Keeps, ReadsLevel
  <2>2. req' = req /\ events' = events /\ TargetVehicle(p)' = TargetVehicle(p)
    BY <2>1 DEF tables, request, TargetVehicle
  <2>3. _service_start(StopTuples(p)) = Span(req[p].stops).enter
    BY <1>2, <2>1, <2>2, PayloadStart DEF HoldsRow
  <2> QED BY <1>2, <2>1, <2>2, <2>3
<1>3. CASE q = p /\ pc'[p] = "commit"
  <2>1. pc[p] = "siblings" /\ UNCHANGED <<tables, wiped, request, reads>>
    BY <1>3 DEF Keeps, CommitsChecked
  <2>2. /\ UNCHANGED <<req, events, wiped, dep_battery>>
        /\ TargetVehicle(p)' = TargetVehicle(p)
    BY <2>1 DEF tables, request, reads, TargetVehicle
  <2> QED BY <1>3, <2>1, <2>2 DEF BatteryRead
<1> QED BY <1>1, <1>2, <1>3

\* What a commit takes from the ledger and adds to it is of the vehicle it has locked.
LEMMA CommitsOwnLedger ==
  ASSUME OrdinaryRequests, LedgerInv, NEW p \in Proc, CommitsPayload(p),
         NEW v, v = TargetVehicle(p)
  PROVE  /\ \A e \in wiped[p] : e.vehicle_id = v
         /\ NewConsumeEvent(p).vehicle_id = v
         /\ \A w \in Vehicle \ {v} :
              {e \in events : e.vehicle_id = w} = {e \in events' : e.vehicle_id = w}
<1> USE DEF LedgerInv, OverlapInv, RowsInv
<1>1. ASSUME NEW e \in wiped[p] PROVE e.vehicle_id = v
  <2>1. /\ Rewriting(p) /\ e \in ConsumeEvents(req[p].service_id)
        /\ req[p].op = "update" /\ services[req[p].service_id] # None /\ RowLoaded(p)
    BY <1>1 DEF WipesOwnEvents, Rewriting, CommitsPayload
  <2>2. PICK s \in Live : s = req[p].service_id
    BY <2>1, RequestTyped DEF Live, TypeInv, Phases, CommitsPayload
  <2>3. e.vehicle_id = services[s].vehicle_id
    BY <2>1, <2>2 DEF LedgerMatchesTimetable
  <2>4. v = loaded[p].vehicle_id
    BY <2>1 DEF OrdinaryRequests, TargetVehicle, TypeInv, Phases, CommitsPayload
  <2> QED BY <2>1, <2>2, <2>3, <2>4 DEF LoadedVehicleKept
<1>2. NewConsumeEvent(p).vehicle_id = v
  BY NewEventMatches DEF CommitsPayload
<1> QED BY <1>1, <1>2 DEF CommitsPayload

\* A commit of stops leaves the levels other handlers have read as they are.
LEMMA FreshAfterCommit ==
  ASSUME OrdinaryRequests, FreshInv, NEW p \in Proc, OthersWait(p), CommitsPayload(p)
  PROVE  \A q \in Proc : BatteryRead(q)'
<1> USE DEF FreshInv, LedgerInv, OverlapInv, RowsInv
<1>1. PICK v : v = TargetVehicle(p)
  OBVIOUS
<1>2. \A q \in Proc : req'[q] = req[q] /\ dep_battery'[q] = dep_battery[q]
  BY DEF CommitsPayload, request, reads
<1> SUFFICES ASSUME NEW q \in Proc, pc'[q] \in {"siblings", "commit"}, req'[q].stops # None
             PROVE  dep_battery'[q] = battery_before(events' \ wiped'[q], TargetVehicle(q)',
                                                     Span(req'[q].stops).enter)
  BY DEF BatteryRead, Span
<1>3. q # p
  BY DEF CommitsPayload
<1>4. /\ pc'[q] = pc[q] /\ wiped'[q] = wiped[q] /\ TargetVehicle(q)' = TargetVehicle(q)
  BY <1>3, OthersTargets DEF OthersWait, CommitsPayload, EndTransaction, TypeInv, TypeOK
<1>5. TargetVehicle(q) \in Vehicle
  BY <1>4, <1>2, WriterTyped DEF TypeInv, Phases
<1>6. TargetVehicle(q) # v
  BY <1>1, <1>3, <1>4 DEF RowHeld, HoldsRow, CommitsPayload
<1>7. {e \in events : e.vehicle_id = TargetVehicle(q)}
        = {e \in events' : e.vehicle_id = TargetVehicle(q)}
  BY <1>1, <1>5, <1>6, CommitsOwnLedger
<1>8. EventsOf(events \ wiped[q], TargetVehicle(q))
        = EventsOf(events' \ wiped[q], TargetVehicle(q))
  BY <1>7 DEF EventsOf
<1> QED BY <1>2, <1>4, <1>8 DEF BatteryRead, battery_before

LEMMA FreshStep ==
  ASSUME PlannedRequests, RowsAreRows, FreshInv, [Next]_vars
  PROVE  FreshInv'
<1>1. OrdinaryRequests /\ LedgerInv /\ LedgerInv'
  BY LedgerStep DEF PlannedRequests, FreshInv
<1>2. ASSUME NEW p \in Proc, Begin(p) \/ Step(p)
      PROVE  \A q \in Proc : BatteryRead(q)'
  BY <1>1, <1>2, HandlerSteps, FreshKept, FreshAfterCommit
<1>3. CASE UNCHANGED vars
  <2>1. UNCHANGED <<events, pc, req, loaded, dep_battery, wiped>>
    BY <1>3 DEF vars, tables, request, reads
  <2>2. \A q \in Proc : BatteryRead(q)'
    BY <2>1 DEF FreshInv, BatteryRead, TargetVehicle
  <2> QED BY <1>1, <2>2 DEF FreshInv
<1> QED BY <1>1, <1>2, <1>3 DEF Next, Served, FreshInv

\* A level that a commit changes becomes the sum of the ledger it leaves, up to the start
\* of the service it writes.
LEMMA CommitStoresLevel ==
  ASSUME OrdinaryRequests, ForwardRequests, FreshInv, FreshInv', NEW p \in Proc, CommitsPayload(p),
         NEW s, s = Written(p),
         services[s] = None \/ services[s].departure_battery # services'[s].departure_battery
  PROVE  services'[s].departure_battery =
           LedgerLevelBefore(services[s].vehicle_id, Window(s).enter)'
<1> USE DEF FreshInv, LedgerInv, OverlapInv, RowsInv
<1>1. PICK v : v = TargetVehicle(p)
  OBVIOUS
<1>2. PICK row : row = WrittenRow(p)
  OBVIOUS
<1>3. PICK stops : stops = req[p].stops
  OBVIOUS
<1>4. /\ s \in ServiceId /\ services' = [services EXCEPT ![s] = row]
      /\ row.vehicle_id = v /\ row.stops = StopRows(ticket[p], stops)
  BY <1>1, <1>2, <1>3, WriterTyped DEF CommitsPayload, TypeInv, Phases
<1>5. services'[s] = row /\ block_configs' = InitialTraversal
  BY <1>4 DEF TypeInv, TypeOK, TraversalFixed
<1>6. SchemaAccepts(stops) /\ StopsIn(row) = stops /\ ~PayloadErrors(stops) /\ stops # None
  BY <1>3, <1>4, RequestStops, StopsReadBack DEF CommitsPayload, TypeInv, Phases, PayloadsChecked, HoldsRow
<1>7. Window(s)'.enter = Span(stops).enter
  BY <1>5, <1>6 DEF Window, _snap_window, SnapshotOf, Span
<1>8. row.departure_battery = dep_battery[p]
  <2>1. CASE req[p].op = "create"
    BY <1>2, <2>1 DEF WrittenRow, Creating
  <2>2. CASE req[p].op = "update"
    <3>1. /\ s = req[p].service_id /\ services[s] # None
          /\ services[s].departure_battery # row.departure_battery
      BY <1>5, <2>2 DEF CommitsPayload
    <3> QED BY <1>2, <2>2, <3>1 DEF WrittenRow, Creating, UpdatedRow
  <2> QED BY <2>1, <2>2 DEF CommitsPayload
<1>9. dep_battery[p] = battery_before(events \ wiped[p], v, Span(stops).enter)
  BY <1>1, <1>3, <1>6 DEF BatteryRead, CommitsPayload
\* The event of the service itself comes after its start.
<1>10. ~(NewConsumeEvent(p).occurred_at < Span(stops).enter)
  <2>1. NewConsumeEvent(p).occurred_at = Span(stops).exit
    BY <1>3, <1>6, NewEventMatches DEF CommitsPayload
  <2>2. Span(stops).enter <= Span(stops).exit
    BY <1>3, <1>6 DEF ForwardRequests, TypeInv, Phases, CommitsPayload
  <2>3. Span(stops).enter \in Nat /\ Span(stops).exit \in Nat
    <3>1. Accepts(stops)
      BY <1>6 DEF PayloadErrors, Accepts
    <3>2. PICK tuples : tuples = SnapshotStops(stops, InitialTraversal)
      OBVIOUS
    <3>3. tuples[1].enter \in Nat /\ tuples[Len(tuples)].exit \in Nat
      BY <1>6, <3>1, <3>2, SpanTyped, ParametersAssumption
    <3> QED BY <3>2, <3>3 DEF Span
  <2> QED BY <2>1, <2>2, <2>3
<1>11. {e \in events' : e.vehicle_id = v /\ e.occurred_at < Span(stops).enter}
         = {e \in EventsOf(events \ wiped[p], v) : e.occurred_at < Span(stops).enter}
  <2>1. events' = (events \ wiped[p]) \cup {NewConsumeEvent(p)}
    BY DEF CommitsPayload
  <2> QED BY <1>10, <2>1 DEF EventsOf
<1>12. LedgerLevelBefore(services[s].vehicle_id, Window(s).enter)'
         = _sum({e \in events' : e.vehicle_id = v /\ e.occurred_at < Span(stops).enter})
  BY <1>4, <1>5, <1>7 DEF LedgerLevelBefore
<1> QED BY <1>5, <1>8, <1>9, <1>11, <1>12 DEF battery_before

\* A departure battery that is written is the sum of the deltas before the start of its
\* service in the ledger the same commit leaves behind: between the reading and the commit
\* no other handler, and no adjustment of the level, has changed the ledger of the
\* vehicle, as long as requests are ordinary, none deletes a service, and no payload ends
\* before it starts.
THEOREM BatteryReadStaysFresh ==
  ASSUME PlannedRequests, RowsAreRows, ForwardRequests
  PROVE  Spec => BatteryWrittenIsFresh
<1> DEFINE Fresh(s) ==
             /\ services'[s] # None
             /\ services[s] = None \/ services[s].departure_battery # services'[s].departure_battery
             => services'[s].departure_battery =
                  LedgerLevelBefore(services[s].vehicle_id, Window(s).enter)'
<1>1. FreshInv /\ [Next]_vars => FreshInv'
  BY FreshStep
<1>2. FreshInv /\ FreshInv' /\ [Next]_vars => [\A s \in ServiceId : Fresh(s)]_vars
  <2> SUFFICES ASSUME FreshInv, FreshInv', NEW p \in Proc, Begin(p) \/ Step(p),
                      NEW s \in ServiceId
               PROVE  Fresh(s)
    BY DEF Next, Served
  <2>1. OrdinaryRequests /\ LedgerInv /\ DOMAIN services = ServiceId
    BY DEF PlannedRequests, FreshInv, LedgerInv, OverlapInv, RowsInv, TypeInv, TypeOK
  <2>2. CASE Keeps(p)
    BY <2>2 DEF Keeps, KeepsRows
  <2>3. CASE CommitsPayload(p) /\ s = Written(p)
    BY <2>1, <2>3, CommitStoresLevel
  <2>4. CASE CommitsPayload(p) /\ s # Written(p)
    <3>1. services'[s] = services[s]
      BY <2>1, <2>4 DEF CommitsPayload
    <3> QED BY <3>1
  <2> QED BY <2>1, <2>2, <2>3, <2>4, HandlerSteps
<1> QED BY <1>1, <1>2, FreshInit, PTL DEF Spec, BatteryWrittenIsFresh
-----------------------------------------------------------------------------
(* The level shown and the level of the ledger *)

\* The stops of a snapshot have instants.
Instants(snap) ==
  /\ Len(snap.stops) \in Nat \ {0} /\ DOMAIN snap.stops = 1 .. Len(snap.stops)
  /\ \A i \in DOMAIN snap.stops : snap.stops[i].enter \in Nat /\ snap.stops[i].exit \in Nat

\* At an instant at which no stop of a service is left and another ahead, the cost shown
\* is the one the ledger has for the service as a whole: all of it once the service is
\* over, nothing before.
LEMMA CostOverOrAhead ==
  ASSUME NEW s, Instants(s), NEW t \in Int
  PROVE  /\ (\A i \in DOMAIN s.stops : s.stops[i].exit <= t) =>
              TripCost(s, t, "strict") = -service_consume_delta(s.stops)
         /\ (\A i \in DOMAIN s.stops : ~(s.stops[i].exit <= t)) => TripCost(s, t, "strict") = 0
         /\ service_consume_delta(s.stops) \in Int
<1> PICK S : S = DOMAIN s.stops
  OBVIOUS
<1> DEFINE blocks == {i \in S : is_block(s.stops[i].node_id)}
<1>w. PICK w : w = [i \in S |-> CostAt(s.stops[i], t, "strict")]
  OBVIOUS
<1>0. 1 \in DOMAIN s.stops
  BY DEF Instants
<1>1. IsFiniteSet(S) /\ IsFiniteSet(blocks) /\ IsFiniteSet(S \ blocks) /\ BATTERY_COST_PER_BLOCK = 1200
  <2>1. IsFiniteSet(S)
    BY FS_Interval DEF Instants
  <2> QED BY <2>1, FS_Subset DEF BATTERY_COST_PER_BLOCK, PERCENT
<1>2. ASSUME NEW i \in S
      PROVE  /\ i \notin blocks => w[i] = 0
             /\ i \in blocks => w[i] = IF s.stops[i].exit <= t THEN BATTERY_COST_PER_BLOCK ELSE 0
  BY <1>w DEF CostAt, Instants
<1>3. \A i \in S : w[i] \in Int
  BY <1>1, <1>2
<1>4. PICK f : AddsUp(f, w, S) /\ \A R \in SUBSET S : Total(w, R) = f[R]
  BY <1>1, <1>3, TotalOfParts
<1>5. TripCost(s, t, "strict") = f[S]
  BY <1>1, <1>4, <1>w, TripCostIsTotal
<1>6. service_consume_delta(s.stops) = -(BATTERY_COST_PER_BLOCK * Cardinality(blocks))
  BY DEF service_consume_delta
<1>c. PICK n \in Nat : n = Cardinality(blocks)
  BY <1>1, FS_CardinalityType
<1>7. blocks \in SUBSET S /\ S \ blocks \in SUBSET S /\ blocks \cup (S \ blocks) = S
      /\ blocks \cap (S \ blocks) = {} /\ AddsUp(f, w, S)
  BY <1>4
<1> HIDE DEF blocks
<1>8. f[S] = f[blocks] + f[S \ blocks]
  <2>1. PICK rest : rest = S \ blocks
    OBVIOUS
  <2>2. rest \in SUBSET S /\ IsFiniteSet(rest) /\ blocks \cap rest = {} /\ blocks \cup rest = S
    BY <1>1, <1>7, <2>1
  <2>3. f[blocks \cup rest] = f[blocks] + f[rest]
    BY <1>3, <1>7, <2>2, SumOfUnion
  <2> QED BY <2>1, <2>2, <2>3
<1>9. f[S \ blocks] = 0
  <2>1. \A i \in S \ blocks : w[i] = 0
    BY <1>2
  <2>2. f[S \ blocks] = 0 * Cardinality(S \ blocks)
    BY <1>1, <1>7, <2>1, SumOfEqualWeights
  <2>3. Cardinality(S \ blocks) \in Nat
    BY <1>1, FS_CardinalityType
  <2> QED BY <2>2, <2>3
<1>10. CASE \A i \in DOMAIN s.stops : s.stops[i].exit <= t
  <2>1. \A i \in blocks : w[i] = BATTERY_COST_PER_BLOCK
    BY <1>2, <1>7, <1>10
  <2>2. f[blocks] = BATTERY_COST_PER_BLOCK * Cardinality(blocks)
    BY <1>1, <1>7, <2>1, SumOfEqualWeights
  <2>3. ~(\A i \in DOMAIN s.stops : ~(s.stops[i].exit <= t))
    BY <1>0, <1>10
  <2> QED BY <1>1, <1>c, <1>5, <1>6, <1>8, <1>9, <2>2, <2>3
<1>11. CASE \A i \in DOMAIN s.stops : ~(s.stops[i].exit <= t)
  <2>1. \A i \in blocks : w[i] = 0
    BY <1>2, <1>7, <1>11
  <2>2. f[blocks] = 0 * Cardinality(blocks)
    BY <1>1, <1>7, <2>1, SumOfEqualWeights
  <2>3. ~(\A i \in DOMAIN s.stops : s.stops[i].exit <= t)
    BY <1>0, <1>11
  <2> QED BY <1>1, <1>c, <1>5, <1>6, <1>8, <1>9, <2>2, <2>3
<1> QED BY <1>1, <1>c, <1>6, <1>10, <1>11

\* Every vehicle's ledger can be summed, and what consumes is a service.
EventSound(e) ==
  /\ e.delta \in Int /\ e.occurred_at \in Int
  /\ e.event_type = "SERVICE_CONSUME" => e.service_id # None

LedgerSound ==
  /\ \A v \in Vehicle : IsFiniteSet(EventsOf(events, v))
  /\ \A e \in events : EventSound(e)

\* Every stored path has instants, and is read back with the blocks it is charged for.
RowsReadBack ==
  \A s \in Live : \A snap : snap = SnapshotOf(s, services[s], block_configs) =>
    Instants(snap) /\ service_consume_delta(snap.stops) = service_consume_delta(StopsIn(services[s]))

LEMMA ShownAsLedger ==
  ASSUME LedgerMatchesTimetable, LedgerSound, RowsReadBack, vehicles \subseteq Vehicle
  PROVE  ShownLevelIsLedgerLevel
<1>0. SUFFICES ASSUME NEW snapshots, snapshots = StoredSnapshots,
                    NEW base, base = vehicles_base_battery(vehicles, events),
                    NEW v \in vehicles, NEW t \in {e.occurred_at : e \in EventsOf(events, v)},
                    \A s \in snapshots : s.vehicle_id = v => OverOrAhead(s, t),
                    NEW p \in compute_positions_at(t, base, snapshots, "strict")[v]
             PROVE  p.battery_level =
                      Max({0, battery_at(events, v, t) + _sum(
                        {e \in EventsOf(events, v) :
                           e.occurred_at > t /\ e.event_type # "SERVICE_CONSUME"})})
  BY SMTT(20) DEF ShownLevelIsLedgerLevel
<1>l. PICK later : later = {e \in EventsOf(events, v) :
                             e.occurred_at > t /\ e.event_type # "SERVICE_CONSUME"}
  OBVIOUS
<1>E. PICK E : E = EventsOf(events, v)
  OBVIOUS
<1>s. PICK snaps : snaps = {s \in snapshots : s.vehicle_id = v}
  OBVIOUS
<1>1. /\ IsFiniteSet(E) /\ t \in Int /\ E \subseteq events /\ \A e \in E : e.vehicle_id = v
      /\ \A e \in E : /\ e.delta \in Int /\ e.occurred_at \in Int
                      /\ e.event_type = "SERVICE_CONSUME" => e.service_id # None
  BY <1>0, <1>E DEF LedgerSound, EventSound, EventsOf
<1>2. snapshots = {SnapshotOf(s, services[s], block_configs) : s \in Live}
  BY <1>0 DEF StoredSnapshots, build_snapshots
<1>3. PICK h : h = [s \in snaps |-> CHOOSE e : ConsumeEvents(s.service_id) = {e}]
  OBVIOUS
<1>4. ASSUME NEW s \in snaps
      PROVE  /\ s.service_id \in Live
             /\ s = SnapshotOf(s.service_id, services[s.service_id], block_configs)
             /\ Instants(s) /\ s.vehicle_id = v
             /\ ConsumeEvents(s.service_id) = {h[s]} /\ h[s] \in E
             /\ h[s].event_type = "SERVICE_CONSUME" /\ h[s].service_id = s.service_id
             /\ h[s].occurred_at = s.stops[Len(s.stops)].exit
             /\ h[s].delta = service_consume_delta(s.stops)
  <2>1. PICK id \in Live : s = SnapshotOf(id, services[id], block_configs)
    BY <1>2, <1>s
  <2>2. s.service_id = id /\ s.vehicle_id = services[id].vehicle_id /\ s.vehicle_id = v
    BY <1>s, <2>1 DEF SnapshotOf
  <2>3. Instants(s) /\ service_consume_delta(s.stops) = service_consume_delta(StopsIn(services[id]))
    BY <2>1 DEF RowsReadBack
  <2>4. PICK e \in events :
          /\ ConsumeEvents(id) = {e} /\ e.vehicle_id = services[id].vehicle_id
          /\ e.occurred_at = Window(id).exit
          /\ e.delta = service_consume_delta(StopsIn(services[id]))
    BY DEF LedgerMatchesTimetable
  <2>5. h[s] = e
    BY <1>3, <2>2, <2>4
  <2>6. Window(id).exit = s.stops[Len(s.stops)].exit
    BY <2>1 DEF Window, _snap_window
  <2>7. e \in E /\ e.event_type = "SERVICE_CONSUME" /\ e.service_id = id
    BY <1>E, <2>2, <2>4 DEF EventsOf, ConsumeEvents
  <2> QED BY <2>1, <2>2, <2>3, <2>4, <2>5, <2>6, <2>7
<1>5. ASSUME NEW s \in snaps, NEW r \in snaps, s.service_id = r.service_id
      PROVE  s = r
  BY <1>4, <1>5
<1>6. IsFiniteSet(snaps)
  <2>1. PICK of : of = [s \in snaps |-> s.service_id]
    OBVIOUS
  <2>2. of \in [snaps -> ServiceId]
    BY <1>4, <2>1 DEF Live
  <2>4. \A s, r \in snaps : of[s] = of[r] => s = r
    BY <1>5, <2>1
  <2>5. of \in Injection(snaps, ServiceId)
    BY <2>2, <2>4 DEF Injection, IsInjective
  <2>3. IsFiniteSet(ServiceId)
    BY ParametersAssumption, FS_Interval DEF ServiceId
  <2> QED BY <2>3, <2>5, FS_Injection
<1>7. PICK Over : Over = {s \in snaps : \A i \in DOMAIN s.stops : s.stops[i].exit <= t}
  OBVIOUS
<1>8. ASSUME NEW s \in snaps, s \notin Over
      PROVE  \A i \in DOMAIN s.stops : ~(s.stops[i].exit <= t)
  <2>1. OverOrAhead(s, t)
    BY <1>0, <1>4, <1>s
  <2>2. PICK left : left = {i \in DOMAIN s.stops : s.stops[i].exit <= t}
    OBVIOUS
  <2>3. left = {} \/ left = DOMAIN s.stops
    BY <2>1, <2>2 DEF OverOrAhead
  <2> QED BY <1>7, <1>8, <2>2, <2>3
<1>9. PICK C : C = {e \in E : e.event_type = "SERVICE_CONSUME" /\ e.occurred_at <= t}
  OBVIOUS
<1>10. C = {h[s] : s \in Over}
  <2>1. ASSUME NEW s \in Over PROVE h[s] \in C
    <3>1. Len(s.stops) \in DOMAIN s.stops
      BY <1>4, <1>7 DEF Instants
    <3> QED BY <1>4, <1>7, <1>9, <3>1
  <2>2. ASSUME NEW e \in C PROVE \E s \in Over : e = h[s]
    <3>1. /\ e \in events /\ e.vehicle_id = v /\ e.event_type = "SERVICE_CONSUME"
          /\ e.service_id # None /\ e.occurred_at <= t
      BY <1>1, <1>9
    <3>2. e.service_id \in Live
      BY <3>1 DEF LedgerMatchesTimetable
    <3>3. e \in ConsumeEvents(e.service_id)
      BY <3>1 DEF ConsumeEvents
    <3>4. services[e.service_id].vehicle_id = v
      BY <3>1, <3>2, <3>3 DEF LedgerMatchesTimetable
    <3>5. PICK s : s = SnapshotOf(e.service_id, services[e.service_id], block_configs)
      OBVIOUS
    <3>6. s \in snaps /\ s.service_id = e.service_id
      BY <1>2, <1>s, <3>2, <3>4, <3>5 DEF SnapshotOf
    <3>7. h[s] = e
      BY <1>4, <3>3, <3>6
    <3>8. Len(s.stops) \in DOMAIN s.stops /\ s.stops[Len(s.stops)].exit <= t
      BY <1>4, <3>1, <3>6, <3>7 DEF Instants
    <3> QED BY <1>8, <3>6, <3>7, <3>8
  <2> QED BY <2>1, <2>2
<1>11. PICK w : w = [e \in E |-> e.delta]
  OBVIOUS
<1>12. PICK f : AddsUp(f, w, E) /\ \A R \in SUBSET E : Total(w, R) = f[R]
  <2>1. \A e \in E : w[e] \in Int
    BY <1>1, <1>11
  <2> QED BY <1>1, <2>1, TotalOfParts
<1>13. \A R \in SUBSET E : _sum(R) = f[R]
  <2>1. \A R \in SUBSET E : _sum(R) = Total(w, R)
    BY <1>1, <1>11, LedgerSum
  <2> QED BY <1>12, <2>1
<1>14. PICK c : c = [s \in snaps |-> TripCost(s, t, "strict")]
  OBVIOUS
<1>15. ASSUME NEW s \in snaps
       PROVE  /\ c[s] \in Int
              /\ s \in Over => c[s] = -h[s].delta
              /\ s \notin Over => c[s] = 0
  <2>1. Instants(s) /\ t \in Int /\ h[s].delta = service_consume_delta(s.stops)
    BY <1>1, <1>4
  <2>2. service_consume_delta(s.stops) \in Int
    BY <2>1, CostOverOrAhead
  <2>3. CASE s \in Over
    <3>1. TripCost(s, t, "strict") = -service_consume_delta(s.stops)
      BY <1>7, <2>1, <2>3, CostOverOrAhead
    <3> QED BY <1>14, <2>1, <2>2, <2>3, <3>1
  <2>4. CASE s \notin Over
    <3>1. TripCost(s, t, "strict") = 0
      BY <1>8, <2>1, <2>4, CostOverOrAhead
    <3> QED BY <1>14, <2>4, <3>1
  <2> QED BY <2>3, <2>4
<1>16. PICK g : AddsUp(g, c, snaps) /\ \A R \in SUBSET snaps : Total(c, R) = g[R]
  <2>1. \A s \in snaps : c[s] \in Int
    BY <1>15
  <2> QED BY <1>6, <2>1, TotalOfParts
<1>17. _battery_cost_at(snaps, t, "strict") = g[snaps]
  <2>1. _battery_cost_at(snaps, t, "strict") = Total(c, snaps)
    BY <1>6, <1>14, CostIsTotal
  <2> QED BY <1>16, <2>1
<1>18. g[snaps] = -f[C]
  <2>1. PICK k : k = [e \in E |-> -e.delta]
    OBVIOUS
  <2>2. PICK m : AddsUp(m, k, E)
    <3>1. \A e \in E : k[e] \in Int
      BY <1>1, <2>1
    <3> QED BY <1>1, <3>1, TotalOfParts
  <2>3. m[C] = -f[C]
    <3>1. C \subseteq E /\ IsFiniteSet(C)
      BY <1>1, <1>9, FS_Subset
    <3>2. \A e \in C : w[e] \in Int /\ k[e] = -w[e]
      BY <1>1, <1>11, <2>1, <3>1
    <3>3. AddsUp(f, w, E)
      BY <1>12
    <3> QED BY <2>2, <3>1, <3>2, <3>3, SumOfNegatives
  <2>4. g[Over] = m[C]
    <3>1. Over \in SUBSET snaps /\ IsFiniteSet(Over)
      BY <1>6, <1>7, FS_Subset
    <3>2. \A s \in Over : h[s] \in E /\ c[s] = k[h[s]]
      BY <1>4, <1>15, <2>1, <3>1
    <3>3. \A s, r \in Over : h[s] = h[r] => s = r
      BY <1>4, <1>5, <3>1
    <3>4. AddsUp(g, c, snaps)
      BY <1>16
    <3>5. g[Over] = m[{h[s] : s \in Over}]
      BY <2>2, <3>1, <3>2, <3>3, <3>4, SumOfImages
    <3> QED BY <1>10, <3>5
  <2>a. PICK Ahead : Ahead = snaps \ Over
    OBVIOUS
  <2>b. /\ Over \in SUBSET snaps /\ Ahead \in SUBSET snaps /\ IsFiniteSet(Ahead)
        /\ Over \cap Ahead = {} /\ Over \cup Ahead = snaps
    BY <1>6, <1>7, <2>a, FS_Subset
  <2>c. AddsUp(g, c, snaps) /\ \A s \in snaps : c[s] \in Int
    BY <1>15, <1>16
  <2>5. g[Ahead] = 0
    <3>1. \A s \in Ahead : c[s] = 0
      BY <1>15, <2>a
    <3>2. g[Ahead] = 0 * Cardinality(Ahead)
      BY <2>b, <2>c, <3>1, SumOfEqualWeights
    <3>3. Cardinality(Ahead) \in Nat
      BY <2>b, FS_CardinalityType
    <3> QED BY <3>2, <3>3
  <2>6. g[snaps] = g[Over] + g[Ahead]
    <3>1. g[Over \cup Ahead] = g[Over] + g[Ahead]
      BY <2>b, <2>c, SumOfUnion
    <3> QED BY <2>b, <3>1
  <2>7. f[C] \in Int
    BY <1>9, <1>12 DEF AddsUp
  <2> QED BY <2>3, <2>4, <2>5, <2>6, <2>7
<1>19. PICK B, N : /\ B = {e \in E : e.occurred_at <= t}
                   /\ N = {e \in E : e.event_type # "SERVICE_CONSUME"}
  OBVIOUS
<1>20. /\ battery_at(events, v, t) = f[B]
       /\ non_service_battery(events, v) = f[N]
       /\ _sum(later) = f[later]
  <2>1. B \in SUBSET E /\ N \in SUBSET E /\ later \in SUBSET E
    BY <1>19, <1>E, <1>l
  <2>2. battery_at(events, v, t) = _sum(B) /\ non_service_battery(events, v) = _sum(N)
    BY <1>E, <1>19 DEF battery_at, non_service_battery
  <2> QED BY <1>13, <2>1, <2>2
<1>21. f[B] + f[later] = f[N] + f[C]
  <2>1. B \in SUBSET E /\ N \in SUBSET E /\ N \ B = later /\ B \ N = C
    BY <1>1, <1>9, <1>19, <1>E, <1>l
  <2>2. f[B] + f[N \ B] = f[N] + f[B \ N]
    <3>1. AddsUp(f, w, E) /\ \A e \in E : w[e] \in Int
      BY <1>1, <1>11, <1>12
    <3> QED BY <1>1, <2>1, <3>1, SumOfBoth
  <2> QED BY <2>1, <2>2
<1>22. f[B] \in Int /\ f[N] \in Int /\ f[C] \in Int /\ f[later] \in Int
  BY <1>9, <1>12, <1>19, <1>E, <1>l DEF AddsUp
<1>23. p.battery_level = Max({0, base[v] - _battery_cost_at(snaps, t, "strict")})
  <2>1. v \in DOMAIN base
    BY <1>0 DEF vehicles_base_battery
  <2> QED BY <1>0, <1>s, <2>1 DEF compute_positions_at
<1>24. base[v] = f[N]
  BY <1>0, <1>20 DEF vehicles_base_battery
<1>25. base[v] - _battery_cost_at(snaps, t, "strict") =
         battery_at(events, v, t) + _sum(later)
  BY <1>17, <1>18, <1>20, <1>21, <1>22, <1>24
<1> QED BY <1>l, <1>23, <1>25

\* A handler about to change a level has read a number.
LevelsRead == \A p \in Proc : pc[p] = "adjust" => dep_battery[p] \in Int

SoundInv == LedgerInv /\ LedgerSound /\ LevelsRead

\* Levels are kept as numbers.
LEMMA HundredthsTyped ==
  ASSUME NEW n \in Int
  PROVE  Hundredths(n) \in Int
<1>1. PERCENT \div 100 = 12
  BY DEF PERCENT
<1>2. ASSUME NEW m \in Int PROVE ((m + 6) \div 12) * 12 \in Int
  OBVIOUS
<1> QED BY <1>1, <1>2 DEF Hundredths

LEMMA SoundInit == Init => SoundInv
<1> SUFFICES ASSUME Init PROVE SoundInv
  OBVIOUS
<1>1. \A v \in Vehicle : EventsOf(events, v) = {emit_baseline(v, BATTERY_INITIAL)}
  BY DEF Init, EventsOf, emit_baseline, Event
<1>2. \A v \in Vehicle : IsFiniteSet(EventsOf(events, v))
  BY <1>1, FS_Singleton
<1>3. Hundredths(BATTERY_INITIAL) \in Int
  BY HundredthsTyped DEF BATTERY_INITIAL, BATTERY_MAX, PERCENT
<1>4. \A e \in events : EventSound(e)
  BY <1>3 DEF Init, emit_baseline, Event, EventSound, BATTERY_BASELINE_EPOCH
<1>5. LevelsRead
  BY DEF Init, LevelsRead
<1> QED BY <1>2, <1>4, <1>5, LedgerInit DEF SoundInv, LedgerSound

\* A step that adds sound events leaves the ledger sound.
LEMMA SoundAfter ==
  ASSUME LedgerSound, NEW new, EventSound(new), events' \subseteq events \cup {new}
  PROVE  LedgerSound'
<1>1. ASSUME NEW v \in Vehicle PROVE IsFiniteSet(EventsOf(events', v))
  <2>1. IsFiniteSet(EventsOf(events, v) \cup {new})
    BY FS_AddElement DEF LedgerSound
  <2>2. EventsOf(events', v) \subseteq EventsOf(events, v) \cup {new}
    BY DEF EventsOf
  <2> QED BY <2>1, <2>2, FS_Subset
<1>2. \A e \in events' : EventSound(e)
  BY DEF LedgerSound
<1> QED BY <1>1, <1>2 DEF LedgerSound, EventSound

LEMMA SoundWithout ==
  ASSUME LedgerSound, events' \subseteq events
  PROVE  LedgerSound'
<1>1. ASSUME NEW v \in Vehicle PROVE IsFiniteSet(EventsOf(events', v))
  <2>1. IsFiniteSet(EventsOf(events, v)) /\ EventsOf(events', v) \subseteq EventsOf(events, v)
    BY DEF LedgerSound, EventsOf
  <2> QED BY <2>1, FS_Subset
<1>2. \A e \in events' : EventSound(e)
  BY DEF LedgerSound
<1> QED BY <1>1, <1>2 DEF LedgerSound, EventSound

\* The level of a vehicle is a number.
LEMMA LevelTyped ==
  ASSUME LedgerSound, NEW v \in Vehicle
  PROVE  current_battery(events, v) \in Int
<1>1. PICK E : E = EventsOf(events, v)
  OBVIOUS
<1>2. IsFiniteSet(E) /\ \A e \in E : e.delta \in Int
  BY <1>1 DEF LedgerSound, EventSound, EventsOf
<1>3. PICK w : w = [e \in E |-> e.delta]
  OBVIOUS
<1>4. PICK f : AddsUp(f, w, E) /\ \A R \in SUBSET E : Total(w, R) = f[R]
  BY <1>2, <1>3, TotalOfParts
<1>5. _sum(E) = Total(w, E)
  BY <1>2, <1>3, LedgerSum
<1>6. f[E] \in Int
  BY <1>4 DEF AddsUp
<1> QED BY <1>1, <1>4, <1>5, <1>6 DEF current_battery

\* What a commit adds to the ledger is sound.
LEMMA NewEventSound ==
  ASSUME OverlapInv, NEW p \in Proc, pc[p] = "commit", req[p].stops # None
  PROVE  EventSound(NewConsumeEvent(p))
<1> USE DEF OverlapInv, RowsInv
<1>1. PICK stops : stops = req[p].stops
  OBVIOUS
<1>2. SchemaAccepts(stops) /\ ~PayloadErrors(stops) /\ stops # None /\ Written(p) \in ServiceId
  BY <1>1, RequestStops, WriterTyped DEF TypeInv, Phases, PayloadsChecked, HoldsRow
<1>3. service_consume_delta(stops) \in Int
  <2>1. IsFiniteSet(DOMAIN stops)
    BY <1>2, FS_Interval DEF SchemaAccepts
  <2>2. PICK blocks : blocks = {i \in DOMAIN stops : is_block(stops[i].node_id)}
    OBVIOUS
  <2>3. Cardinality(blocks) \in Nat
    BY <2>1, <2>2, FS_Subset, FS_CardinalityType
  <2>4. service_consume_delta(stops) = -(BATTERY_COST_PER_BLOCK * Cardinality(blocks))
    BY <2>2 DEF service_consume_delta
  <2> QED BY <2>3, <2>4 DEF BATTERY_COST_PER_BLOCK, PERCENT
<1>4. Span(stops).exit \in Int
  <2>1. Accepts(stops)
    BY <1>2 DEF PayloadErrors, Accepts
  <2>2. PICK tuples : tuples = SnapshotStops(stops, InitialTraversal)
    OBVIOUS
  <2>3. tuples[Len(tuples)].exit \in Nat
    BY <1>2, <2>1, <2>2, SpanTyped, ParametersAssumption
  <2> QED BY <2>2, <2>3 DEF Span
<1>5. Written(p) # None
  BY <1>2, ParametersAssumption DEF ServiceId
<1> QED BY <1>1, <1>3, <1>4, <1>5, NewEventMatches DEF EventSound

\* What a step does to the ledger and to the levels handlers have read.
LEMMA LedgerSteps ==
  ASSUME OrdinaryRequests, LedgerInv, NEW p \in Proc, Begin(p) \/ Step(p)
  PROVE  /\ \/ events' \subseteq events
            \/ /\ pc[p] = "commit" /\ req[p].stops # None
               /\ events' \subseteq events \cup {NewConsumeEvent(p)}
            \/ /\ pc[p] = "adjust" /\ req[p].op = "adjust"
               /\ events' = events \cup
                    {emit_manual_adjust(ticket[p], req[p].vehicle_id, dep_battery[p],
                                        req[p].level, Now)}
         /\ \A q \in Proc \ {p} : pc'[q] = pc[q] /\ dep_battery'[q] = dep_battery[q]
         /\ pc'[p] = "adjust" =>
              \E v \in Vehicle : dep_battery'[p] = current_battery(events, v)
<1>t. OverlapInv /\ RowsInv /\ TypeInv /\ NumberedFromZero
  BY DEF LedgerInv, OverlapInv, RowsInv, OrdinaryRequests
<1>d. pc \in [Proc -> Labels] /\ DOMAIN dep_battery = Proc
  BY <1>t DEF TypeInv, TypeOK
<1> DEFINE Reads == /\ \A q \in Proc \ {p} : pc'[q] = pc[q] /\ dep_battery'[q] = dep_battery[q]
                    /\ pc'[p] = "adjust" =>
                         \E v \in Vehicle : dep_battery'[p] = current_battery(events, v)
<1>a. ASSUME NEW status, Answer(p, status) PROVE Reads
  BY <1>a, <1>d DEF Answer, Goto
<1>r. ASSUME NEW status, Refuse(p, status) PROVE Reads /\ events' = events
  BY <1>a, <1>r DEF Refuse, tables
<1>g. ASSUME NEW label, Goto(p, label), label # "adjust",
             \A q \in Proc \ {p} : dep_battery'[q] = dep_battery[q]
      PROVE  Reads
  BY <1>g, <1>d DEF Goto
<1> HIDE DEF Reads
<1>1. CASE Begin(p)
  <2>1. PICK r \in Requests : Goto(p, FirstStatement(r.op))
    BY <1>1 DEF Begin
  <2>2. FirstStatement(r.op) # "adjust"
    BY RequestTyped DEF FirstStatement
  <2> QED BY <1>1, <1>g, <2>1, <2>2 DEF Begin, Reads, tables, reads
<1>2. CASE LoadService(p)
  <2>1. CASE services[req[p].service_id] # None
    <3>1. PICK label \in {"delete", "load_stops"} : Goto(p, label)
      BY <1>2, <2>1 DEF LoadService
    <3> QED BY <1>2, <1>g, <2>1, <3>1 DEF LoadService, Reads, tables
  <2> QED BY <1>2, <1>r, <2>1 DEF LoadService, Reads
<1>20. CASE LoadStops(p)
  BY <1>20, <1>g DEF LoadStops, Reads, tables
<1>3. CASE LockVehicle(p)
  <2>1. CASE Goto(p, "traversal") /\ UNCHANGED <<tables, reads>>
    BY <1>g, <2>1 DEF Reads, tables, reads
  <2> QED BY <1>3, <1>r, <2>1 DEF LockVehicle, Reads
<1>4. CASE ReadTraversal(p)
  <2>1. PICK label \in {"battery", "wipe", "commit"} : Goto(p, label)
    BY <1>4 DEF ReadTraversal
  <2> QED BY <1>4, <1>g, <2>1 DEF ReadTraversal, Reads, tables
<1>5. CASE WipeConsume(p)
  <2>1. PICK label \in {"battery", "wipe_wait"} : Goto(p, label)
    BY <1>5 DEF WipeConsume
  <2> QED BY <1>5, <1>g, <2>1 DEF WipeConsume, Reads, tables, reads
<1>6. CASE ResumeWipe(p)
  BY <1>6, <1>g DEF ResumeWipe, Reads, tables, reads
<1>7. CASE ReadBattery(p)
  BY <1>7, <1>d, <1>g, <1>r DEF ReadBattery, Reads, tables
<1>8. CASE CheckSiblings(p)
  BY <1>8, <1>g, <1>r DEF CheckSiblings, Reads, tables, reads
<1>9. CASE CommitCreate(p)
  <2>1. req[p].stops # None
    BY <1>9, <1>t, RequestStops DEF CommitCreate, Creating, TypeInv, Phases
  <2> QED BY <1>9, <1>g, <2>1 DEF CommitCreate, Reads, reads
<1>10. CASE CommitUpdate(p)
  <2>1. CASE ~Refuse(p, 500)
    <3>1. /\ pc[p] = "commit" /\ req[p].op = "update" /\ Goto(p, "reload") /\ UNCHANGED reads
          /\ events' = (events \ wiped[p]) \cup (IF Rechecked(p) THEN {NewConsumeEvent(p)} ELSE {})
      BY <1>10, <1>t, <2>1, UpdateCommits DEF HasStops
    <3>2. Rechecked(p) => req[p].stops # None
      BY <1>t, <3>1 DEF OrdinaryRequests, Rechecked, Reassigning, TypeInv, Phases
    <3>3. Reads
      BY <1>g, <3>1 DEF reads
    <3> QED BY <3>1, <3>2, <3>3 DEF Reads
  <2> QED BY <1>r, <2>1 DEF Reads
<1>11. CASE ReloadService(p)
  BY <1>11, <1>r DEF ReloadService, Reads
<1>12. CASE DeleteServiceRow(p)
  BY <1>12, <1>g, <1>r DEF DeleteServiceRow, Reads, tables, reads
<1>13. CASE CascadeAndCommit(p)
  BY <1>13, <1>a DEF CascadeAndCommit, Reads
<1>14. CASE DeadlockAbort(p)
  BY <1>14, <1>r DEF DeadlockAbort, Reads
<1>15. CASE ReadLevel(p)
  <2>1. CASE ~Refuse(p, 404)
    <3>1. /\ pc[p] = "read_level" /\ Goto(p, "adjust") /\ UNCHANGED tables
          /\ dep_battery' = [dep_battery EXCEPT ![p] = current_battery(events, req[p].vehicle_id)]
      BY <1>15, <2>1 DEF ReadLevel
    <3>2. req[p].vehicle_id \in Vehicle
      BY <1>t, <3>1, RequestTyped DEF TypeInv, Phases
    <3> QED BY <1>d, <3>1, <3>2 DEF Goto, tables
  <2> QED BY <1>r, <2>1 DEF Reads
<1>16. CASE AdjustLevel(p)
  <2>1. CASE ~Refuse(p, 409)
    <3>1. /\ pc[p] = "adjust" /\ Answer(p, 200)
          /\ events' = events \cup {emit_manual_adjust(ticket[p], req[p].vehicle_id,
                                                      dep_battery[p], req[p].level, Now)}
      BY <1>16, <2>1 DEF AdjustLevel
    <3>2. req[p].op = "adjust"
      BY <1>t, <3>1 DEF TypeInv, Phases
    <3> QED BY <1>a, <3>1, <3>2 DEF Reads
  <2> QED BY <1>r, <2>1 DEF Reads
<1>17. CASE CountServices(p)
  BY <1>17, <1>g, <1>r DEF CountServices, Reads, tables, reads
<1>18. CASE RemoveVehicle(p)
  <2>1. CASE ~(Refuse(p, 204) \/ Refuse(p, 500))
    BY <1>18, <1>a, <2>1 DEF RemoveVehicle, Reads
  <2> QED BY <1>r, <2>1 DEF Reads
<1>19. CASE UpdateBlock(p)
  BY <1>19, <1>a DEF UpdateBlock, Reads
<1> QED
  BY <1>1, <1>2, <1>3, <1>4, <1>5, <1>6, <1>7, <1>8, <1>9, <1>10, <1>11, <1>12, <1>13,
     <1>14, <1>15, <1>16, <1>17, <1>18, <1>19, <1>20 DEF Step

LEMMA SoundStep ==
  ASSUME OrdinaryRequests, RowsAreRows, SoundInv, [Next]_vars
  PROVE  SoundInv'
<1>1. LedgerInv /\ LedgerInv' /\ OverlapInv /\ TypeInv /\ LedgerSound /\ LevelsRead
  BY LedgerStep DEF SoundInv, LedgerInv, OverlapInv, RowsInv
<1>2. ASSUME NEW p \in Proc, Begin(p) \/ Step(p) PROVE LedgerSound' /\ LevelsRead'
  <2>1. LevelsRead'
    <3>1. ASSUME NEW q \in Proc, pc'[q] = "adjust" PROVE dep_battery'[q] \in Int
      BY <1>1, <1>2, <3>1, LedgerSteps, LevelTyped DEF LevelsRead
    <3> QED BY <3>1 DEF LevelsRead
  <2>2. CASE events' \subseteq events
    BY <1>1, <2>1, <2>2, SoundWithout
  <2>3. CASE /\ pc[p] = "commit" /\ req[p].stops # None
             /\ events' \subseteq events \cup {NewConsumeEvent(p)}
    BY <1>1, <2>1, <2>3, NewEventSound, SoundAfter
  <2>4. CASE /\ pc[p] = "adjust" /\ req[p].op = "adjust"
             /\ events' = events \cup {emit_manual_adjust(ticket[p], req[p].vehicle_id,
                                                         dep_battery[p], req[p].level, Now)}
    <3>1. PICK new : new = emit_manual_adjust(ticket[p], req[p].vehicle_id, dep_battery[p],
                                              req[p].level, Now)
      OBVIOUS
    <3>2. dep_battery[p] \in Int /\ req[p].level \in Int
      <4>1. req[p] \in Requests /\ BATTERY_MAX \in Int
        BY <1>1, <2>4 DEF TypeInv, Phases, BATTERY_MAX, PERCENT
      <4> QED BY <1>1, <2>4, <4>1, RequestsAssumption DEF LevelsRead
    <3>3. Hundredths(req[p].level - dep_battery[p]) \in Int
      BY <3>2, HundredthsTyped
    <3>4. EventSound(new)
      BY <3>1, <3>3, ParametersAssumption DEF emit_manual_adjust, Event, EventSound
    <3> QED BY <1>1, <2>1, <2>4, <3>1, <3>4, SoundAfter
  <2> QED BY <1>1, <1>2, <2>2, <2>3, <2>4, LedgerSteps
<1>3. CASE UNCHANGED vars
  <2>1. events' = events /\ pc' = pc /\ dep_battery' = dep_battery
    BY <1>3 DEF vars, tables, reads
  <2> QED BY <1>1, <2>1, SoundWithout DEF LevelsRead, SoundInv
<1> QED BY <1>1, <1>2, <1>3 DEF Next, Served, SoundInv

\* What the stored rows are read back as.
LEMMA SoundRows ==
  ASSUME OverlapInv
  PROVE  RowsReadBack
<1> USE DEF OverlapInv, RowsInv
<1> SUFFICES ASSUME NEW s \in Live,
                    NEW snap, snap = SnapshotOf(s, services[s], block_configs)
             PROVE  /\ Instants(snap)
                    /\ service_consume_delta(snap.stops) = service_consume_delta(StopsIn(services[s]))
  BY DEF RowsReadBack
<1>1. PICK stops : stops = StopsIn(services[s])
  OBVIOUS
<1>2. SchemaAccepts(stops) /\ Accepts(stops) /\ block_configs \in [BLOCKS -> Nat \ {0}]
  BY <1>1, WholePath DEF RowsWhole, TypeInv, TypeOK
<1>3. PICK tuples : tuples = SnapshotStops(stops, block_configs)
  OBVIOUS
<1>4. snap.stops = tuples
  BY <1>1, <1>3 DEF SnapshotOf
<1>5. service_consume_delta(tuples) = service_consume_delta(stops)
  BY <1>2, <1>3, SchemaTyped, ConsumeDelta
<1>6. RunsThrough(stops, block_configs, tuples, Len(stops)) /\ Len(stops) \in Nat \ {0}
  <2>1. RunsThrough(stops, block_configs, tuples, Len(stops))
    BY <1>2, <1>3, PayloadRuns
  <2>2. Len(stops) \in Nat /\ Len(stops) >= 2
    BY <1>2 DEF SchemaAccepts
  <2> QED BY <2>1, <2>2
<1>7. /\ Len(tuples) \in Nat \ {0} /\ DOMAIN tuples = 1 .. Len(tuples)
      /\ \A i \in DOMAIN tuples : tuples[i].enter \in Nat /\ tuples[i].exit \in Nat
  <2> DEFINE Tuples == [node_id : {stops[i].node_id : i \in DOMAIN stops}, enter : Nat, exit : Nat]
  <2>1. tuples \in Seq(Tuples) /\ Len(tuples) = Len(stops)
    BY <1>6 DEF RunsThrough
  <2>2. \A t \in Tuples : t.enter \in Nat /\ t.exit \in Nat
    OBVIOUS
  <2> HIDE DEF Tuples
  <2> QED BY <1>6, <2>1, <2>2
<1> QED BY <1>1, <1>4, <1>5, <1>7 DEF Instants

\* The two accounts of a battery agree, for any number of vehicles, services and handlers:
\* whenever a vehicle is between services, the level the positions show, which subtracts
\* block after block of the stored paths, is the level of the ledger, which charges each
\* service as a whole, as long as requests are ordinary.  Updates, deletions, removals of
\* vehicles and adjustments of levels may run side by side.
THEOREM ShownLevelsAgree ==
  ASSUME OrdinaryRequests, RowsAreRows
  PROVE  Spec => []ShownLevelIsLedgerLevel
<1>1. SoundInv /\ [Next]_vars => SoundInv'
  BY SoundStep
<1>2. SoundInv => ShownLevelIsLedgerLevel
  BY SoundRows, ShownAsLedger
     DEF SoundInv, LedgerInv, OverlapInv, RowsInv, TypeInv, TypeOK
<1> QED BY <1>1, <1>2, SoundInit, PTL DEF Spec
=============================================================================
