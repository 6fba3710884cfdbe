----------------------- MODULE ScheduleGeneratorProofs -----------------------
(***************************************************************************)
(* The loop of generate_schedule ends, for every request, timetable and    *)
(* ledger, and whatever the other handlers do meanwhile.  A process that   *)
(* serves one request at a time answers none with an internal error, and   *)
(* the schedules it commits leave a timetable without interlocking and     *)
(* vehicle conflicts, on valid paths, in which nobody waits too long; no   *)
(* charge passes the full battery, the level stored with every trip is     *)
(* the level of the ledger committed with it, and timetable, ledger and    *)
(* display stay in agreement.                                              *)
(***************************************************************************)
EXTENDS ScheduleGenerator, TimetableProofs

LoopLabels == {"gen_slot", "gen_battery", "gen_insert"}
GenLabels  == {"gen_config", "gen_vehicles", "gen_services", "gen_stops"} \cup LoopLabels

\* The plan of a schedule: its vehicles are those of the request, and no departure is
\* later than the end of the schedule by the interval or more.
PlanOK(p) ==
  /\ {"vehicles", "slot"} \subseteq DOMAIN plan[p]
  /\ \E V : plan[p].vehicles \in Seq(V)
  /\ Len(plan[p].vehicles) <= Cardinality(req[p].vehicle_ids)
  /\ plan[p].slot \in Nat
  /\ plan[p].slot < req[p].end_time + req[p].interval

GenInv ==
  /\ DOMAIN pc = Proc /\ DOMAIN req = Proc /\ DOMAIN plan = Proc
  /\ \A p \in Proc :
       /\ pc[p] \in GenLabels => req[p] \in Generations
       /\ pc[p] \in {"gen_services", "gen_stops"} \cup LoopLabels => PlanOK(p)
       /\ pc[p] \in {"gen_battery", "gen_insert"} => plan[p].slot < req[p].end_time

\* What a step of one handler leaves to the others.
Others(p) ==
  /\ DOMAIN pc' = DOMAIN pc /\ DOMAIN req' = DOMAIN req /\ DOMAIN plan' = DOMAIN plan
  /\ \A q \in Proc \ {p} : pc'[q] = pc[q] /\ req'[q] = req[q] /\ plan'[q] = plan[q]

LEMMA GenStarts == GenInit => GenInv
BY DEF GenInit, Init, GenInv, GenLabels, LoopLabels

\* The handlers of ServiceWrites are at no statement of the generator.
LEMMA HandlersApart ==
  ASSUME GenInv, NEW p \in Proc, Begin(p) \/ Step(p)
  PROVE  /\ pc[p] \notin GenLabels /\ pc'[p] \notin GenLabels
         /\ DOMAIN pc' = DOMAIN pc /\ DOMAIN req' = DOMAIN req
         /\ \A q \in Proc \ {p} : pc'[q] = pc[q] /\ req'[q] = req[q]
<1> DEFINE Apart == /\ pc[p] \notin GenLabels /\ pc'[p] \notin GenLabels
                    /\ DOMAIN pc' = DOMAIN pc /\ DOMAIN req' = DOMAIN req
                    /\ \A q \in Proc \ {p} : pc'[q] = pc[q] /\ req'[q] = req[q]
<1> USE DEF GenInv, GenLabels, LoopLabels, Goto
<1>1. ASSUME NEW status, Answer(p, status), pc[p] \notin GenLabels PROVE Apart
  BY <1>1 DEF Answer
<1>2. ASSUME NEW label, label \notin GenLabels, Goto(p, label), pc[p] \notin GenLabels,
             UNCHANGED request
      PROVE  Apart
  BY <1>2 DEF request
<1>3. CASE Begin(p)
  <2>1. PICK r \in Requests : req' = [req EXCEPT ![p] = r] /\ Goto(p, FirstStatement(r.op))
    BY <1>3 DEF Begin
  <2>2. r.op \in {"create", "update", "delete", "adjust", "remove", "block"}
    BY RequestsAssumption
  <2>3. FirstStatement(r.op) \notin GenLabels
    BY <2>2 DEF FirstStatement
  <2> QED BY <1>3, <2>1, <2>3 DEF Begin
<1>4. CASE LoadService(p) \/ LoadStops(p) \/ LockVehicle(p) \/ ReadTraversal(p) \/ WipeConsume(p)
  BY <1>1, <1>2, <1>4 DEF LoadService, LoadStops, LockVehicle, ReadTraversal, WipeConsume, Refuse
<1>5. CASE ResumeWipe(p) \/ ReadBattery(p) \/ CheckSiblings(p) \/ CommitCreate(p)
  BY <1>1, <1>2, <1>5 DEF ResumeWipe, ReadBattery, CheckSiblings, CommitCreate, Refuse
<1>6. CASE CommitUpdate(p) \/ ReloadService(p) \/ DeleteServiceRow(p) \/ CascadeAndCommit(p)
  BY <1>1, <1>2, <1>6 DEF CommitUpdate, ReloadService, DeleteServiceRow, CascadeAndCommit, Refuse
<1>7. CASE DeadlockAbort(p)
  <2>1. pc[p] \in {"commit", "cascade"}
    BY <1>7 DEF DeadlockAbort, WaitsInCircle
  <2> QED BY <1>1, <1>7, <2>1 DEF DeadlockAbort, Refuse
<1>8. CASE ReadLevel(p) \/ AdjustLevel(p) \/ CountServices(p) \/ RemoveVehicle(p) \/ UpdateBlock(p)
  BY <1>1, <1>2, <1>8 DEF ReadLevel, AdjustLevel, CountServices, RemoveVehicle, UpdateBlock, Refuse
<1> QED BY <1>3, <1>4, <1>5, <1>6, <1>7, <1>8 DEF Step

LEMMA Monotone == \A a, b, c \in Nat : b <= c => a * b <= a * c /\ a * b \in Nat
OBVIOUS

\* The first departure of a vehicle, or of one past the last, is before the end plus
\* the interval.
LEMMA FirstSlotInTime ==
  ASSUME NEW r \in Generations, NEW k \in 0 .. Cardinality(r.vehicle_ids)
  PROVE  FirstSlot(r, k) \in Nat /\ FirstSlot(r, k) < r.end_time + r.interval
<1> DEFINE N == Cardinality(r.vehicle_ids)
           offset == per_vehicle_offset(r)
<1>1. /\ r.start_time \in Nat /\ r.end_time \in Nat /\ r.start_time < r.end_time
      /\ r.interval \in Nat \ {0} /\ offset * N = r.interval
      /\ IsFiniteSet(r.vehicle_ids) /\ r.vehicle_ids # {}
  BY GenerationsAssumption
<1>2. N \in Nat \ {0}
  BY <1>1, FS_CardinalityType, FS_EmptySet
<1>3. offset \in Nat
  BY <1>1, <1>2 DEF per_vehicle_offset
<1>4. k \in Nat /\ k <= N
  BY <1>2
<1> HIDE DEF N, offset
<1>5. offset * k \in Nat /\ offset * k <= offset * N
  BY <1>2, <1>3, <1>4, Monotone
<1> QED BY <1>1, <1>5 DEF FirstSlot, offset
-----------------------------------------------------------------------------
(* The invariant *)

\* What is left to show of a step of p: its own part of GenInv.
LEMMA OthersKeep ==
  ASSUME GenInv, NEW p \in Proc, Others(p),
         pc'[p] \in GenLabels => req'[p] \in Generations,
         pc'[p] \in {"gen_services", "gen_stops"} \cup LoopLabels => PlanOK(p)',
         pc'[p] \in {"gen_battery", "gen_insert"} => plan'[p].slot < req'[p].end_time
  PROVE  GenInv'
<1>1. \A q \in Proc \ {p} : PlanOK(q) => PlanOK(q)'
  BY DEF Others, PlanOK
<1> QED BY <1>1 DEF GenInv, Others

\* A request that is answered.
LEMMA AnsweredKeeps ==
  ASSUME GenInv, NEW p \in Proc, NEW status, Answer(p, status),
         plan' = [plan EXCEPT ![p] = None]
  PROVE  Others(p) /\ pc'[p] = "idle" /\ GenInv'
<1>1. Others(p) /\ pc'[p] = "idle"
  BY DEF Answer, Goto, Others, GenInv
<1> QED BY <1>1, OthersKeep DEF GenLabels, LoopLabels

\* A step of the loop moves plan and label of its own process only.
LEMMA LoopOthers ==
  ASSUME GenInv, NEW p \in Proc, NEW label, NEW next, pc' = [pc EXCEPT ![p] = label],
         plan' = [plan EXCEPT ![p] = next], req' = req
  PROVE  Others(p) /\ pc'[p] = label /\ plan'[p] = next
BY DEF Others, GenInv

\* A step of the loop that ends neither it nor the request.
Turn(p) ==
  /\ Others(p) /\ req' = req /\ pc'[p] \in LoopLabels /\ PlanOK(p)'
  /\ pc'[p] \in {"gen_battery", "gen_insert"} => plan'[p].slot < req[p].end_time
  /\ \/ Len(plan'[p].vehicles) < Len(plan[p].vehicles)
     \/ /\ plan'[p].vehicles = plan[p].vehicles
        /\ \/ plan'[p].slot > plan[p].slot
           \/ plan'[p].slot = plan[p].slot /\ StatementsLeft(p)' < StatementsLeft(p)

LEMMA RequestSizes ==
  ASSUME NEW r \in Generations
  PROVE  /\ Cardinality(r.vehicle_ids) \in Nat
         /\ r.end_time \in Nat /\ r.interval \in Nat \ {0}
BY GenerationsAssumption, FS_CardinalityType

\* The next vehicle.
LEMMA NextVehicleTurns ==
  ASSUME GenInv, NEW p \in Proc, NextVehicle(p)
  PROVE  Turn(p)
<1> DEFINE rest == Tail(plan[p].vehicles)
           first == FirstSlot(req[p], Cardinality(req[p].vehicle_ids) - Len(rest))
<1>1. /\ pc[p] = "gen_slot" /\ plan[p].vehicles # << >> /\ pc' = pc /\ req' = req
      /\ plan' = [plan EXCEPT ![p] = [plan[p] EXCEPT !.vehicles = rest,
                     !.last_yard_idle_since = None, !.slot = first]]
  BY DEF NextVehicle, vars, request
<1>2. PlanOK(p) /\ req[p] \in Generations
  BY <1>1 DEF GenInv, GenLabels, LoopLabels
<1>3. /\ \E V : rest \in Seq(V)
      /\ Len(rest) \in Nat /\ Len(plan[p].vehicles) = Len(rest) + 1
  BY <1>1, <1>2 DEF PlanOK
<1>4. Cardinality(req[p].vehicle_ids) - Len(rest) \in 0 .. Cardinality(req[p].vehicle_ids)
  BY <1>2, <1>3, RequestSizes DEF PlanOK
<1>5. first \in Nat /\ first < req[p].end_time + req[p].interval
  BY <1>2, <1>4, FirstSlotInTime
<1> HIDE DEF rest, first
<1>6. /\ Others(p) /\ pc'[p] = "gen_slot"
      /\ plan'[p] = [plan[p] EXCEPT !.vehicles = rest,
                       !.last_yard_idle_since = None, !.slot = first]
  BY <1>1 DEF Others, GenInv
<1>7. plan'[p].vehicles = rest /\ plan'[p].slot = first /\ DOMAIN plan'[p] = DOMAIN plan[p]
  BY <1>2, <1>6 DEF PlanOK
<1>8. Len(rest) <= Cardinality(req[p].vehicle_ids)
  BY <1>2, <1>3, RequestSizes DEF PlanOK
<1>9. PlanOK(p)'
  BY <1>1, <1>2, <1>3, <1>5, <1>7, <1>8 DEF PlanOK
<1> QED BY <1>1, <1>3, <1>6, <1>7, <1>9 DEF Turn, LoopLabels

\* The slot is put back by an interval, or kept while its own statements run; the list
\* of vehicles stays.
LEMMA SlotTurns ==
  ASSUME GenInv, NEW p \in Proc, pc[p] \in LoopLabels, Others(p), req' = req,
         pc'[p] \in LoopLabels, DOMAIN plan'[p] = DOMAIN plan[p],
         plan'[p].vehicles = plan[p].vehicles,
         \/ /\ plan'[p].slot = plan[p].slot + req[p].interval
            /\ plan[p].slot < req[p].end_time /\ pc'[p] = "gen_slot"
         \/ /\ plan'[p].slot = plan[p].slot /\ plan[p].slot < req[p].end_time
            /\ \/ pc[p] = "gen_slot" /\ pc'[p] = "gen_battery"
               \/ pc[p] = "gen_battery" /\ pc'[p] = "gen_insert"
  PROVE  Turn(p)
<1>1. PlanOK(p) /\ req[p] \in Generations
  BY DEF GenInv, GenLabels, LoopLabels
<1>2. req[p].end_time \in Nat /\ req[p].interval \in Nat \ {0} /\ plan[p].slot \in Nat
  BY <1>1, RequestSizes DEF PlanOK
<1>3. PlanOK(p)'
  BY <1>1, <1>2 DEF PlanOK
<1>4. \/ plan'[p].slot > plan[p].slot
      \/ plan'[p].slot = plan[p].slot /\ StatementsLeft(p)' < StatementsLeft(p)
  BY <1>2 DEF StatementsLeft
<1> QED BY <1>2, <1>3, <1>4 DEF Turn

\* Every statement of the loop is a turn of it or ends the request.
LEMMA LoopTurns ==
  ASSUME GenInv, NEW p \in Proc,
         ReadIdleBattery(p) \/ CheckSlot(p) \/ (InsertTrip(p) /\ ~GenRefuse(p, 500))
  PROVE  Turn(p)
<1>0. pc[p] \in LoopLabels /\ PlanOK(p)
  BY DEF ReadIdleBattery, CheckSlot, InsertTrip, LoopLabels, GenInv
<1>1. CASE ReadIdleBattery(p)
  <2>1. PICK level : /\ pc[p] = "gen_slot" /\ pc' = [pc EXCEPT ![p] = "gen_battery"] /\ req' = req
                     /\ plan' = [plan EXCEPT ![p] = [plan[p] EXCEPT !.battery_at_idle_start = level]]
    BY <1>1 DEF ReadIdleBattery, Goto, request
  <2>2. plan[p].slot < req[p].end_time
    BY <1>1 DEF ReadIdleBattery, Fits
  <2>3. /\ Others(p) /\ pc'[p] = "gen_battery"
        /\ plan'[p] = [plan[p] EXCEPT !.battery_at_idle_start = level]
    BY <2>1, LoopOthers
  <2>4. /\ DOMAIN plan'[p] = DOMAIN plan[p] /\ plan'[p].vehicles = plan[p].vehicles
        /\ plan'[p].slot = plan[p].slot
    BY <1>0, <2>3 DEF PlanOK
  <2> QED BY <1>0, <2>1, <2>2, <2>3, <2>4, SlotTurns DEF LoopLabels
<1>2. CASE CheckSlot(p)
  <2>1. /\ pc[p] = "gen_battery" /\ req' = req
        /\ \/ plan' = [plan EXCEPT ![p] = AfterRejection(p)] /\ pc' = [pc EXCEPT ![p] = "gen_slot"]
           \/ plan' = plan /\ pc' = [pc EXCEPT ![p] = "gen_insert"]
    BY <1>2 DEF CheckSlot, Goto, request
  <2>2. plan[p].slot < req[p].end_time
    BY <2>1 DEF GenInv
  <2>3. CASE plan' = [plan EXCEPT ![p] = AfterRejection(p)] /\ pc' = [pc EXCEPT ![p] = "gen_slot"]
    <3>1. Others(p) /\ pc'[p] = "gen_slot" /\ plan'[p] = AfterRejection(p)
      BY <2>1, <2>3, LoopOthers
    <3>2. /\ DOMAIN plan'[p] = DOMAIN plan[p] /\ plan'[p].vehicles = plan[p].vehicles
          /\ plan'[p].slot = plan[p].slot + req[p].interval
      BY <1>0, <3>1 DEF PlanOK, AfterRejection
    <3> QED BY <1>0, <2>1, <2>2, <3>1, <3>2, SlotTurns DEF LoopLabels
  <2>4. CASE plan' = plan /\ pc' = [pc EXCEPT ![p] = "gen_insert"]
    <3>1. Others(p) /\ pc'[p] = "gen_insert"
      BY <2>1, <2>4 DEF Others, GenInv
    <3> QED BY <1>0, <2>1, <2>2, <2>4, <3>1, SlotTurns DEF LoopLabels
  <2> QED BY <2>1, <2>3, <2>4
<1>3. CASE InsertTrip(p) /\ ~GenRefuse(p, 500)
  <2> DEFINE created == Append(plan[p].created, CandidateTrip(p, NextKey(p), dep_battery[p]))
             evts == plan[p].events \cup TripEvents(p)
             since == IF DEFAULT_ROUND_TRIP[Len(DEFAULT_ROUND_TRIP)] = YARD THEN TripEnd(p)
                      ELSE None
  <2>1. /\ pc[p] = "gen_insert" /\ pc' = [pc EXCEPT ![p] = "gen_slot"] /\ req' = req
        /\ plan' = [plan EXCEPT ![p] = [plan[p] EXCEPT !.created = created, !.events = evts,
                      !.last_yard_idle_since = since, !.slot = plan[p].slot + req[p].interval]]
    BY <1>3 DEF InsertTrip, Goto, request
  <2> HIDE DEF created, evts, since
  <2>2. plan[p].slot < req[p].end_time
    BY <2>1 DEF GenInv
  <2>3. /\ Others(p) /\ pc'[p] = "gen_slot"
        /\ plan'[p] = [plan[p] EXCEPT !.created = created, !.events = evts,
                        !.last_yard_idle_since = since, !.slot = plan[p].slot + req[p].interval]
    BY <2>1, LoopOthers
  <2>4. /\ DOMAIN plan'[p] = DOMAIN plan[p] /\ plan'[p].vehicles = plan[p].vehicles
        /\ plan'[p].slot = plan[p].slot + req[p].interval
    BY <1>0, <2>3 DEF PlanOK
  <2> QED BY <1>0, <2>1, <2>2, <2>3, <2>4, SlotTurns DEF LoopLabels
<1> QED BY <1>1, <1>2, <1>3

LEMMA TurnKeeps ==
  ASSUME GenInv, NEW p \in Proc, pc[p] \in LoopLabels, Turn(p)
  PROVE  GenInv'
<1>1. req'[p] = req[p] /\ req[p] \in Generations
  BY DEF Turn, GenInv, GenLabels
<1> QED BY <1>1, OthersKeep DEF Turn

LEMMA GenStepKeeps ==
  ASSUME GenInv, NEW p \in Proc, GenStep(p)
  PROVE  /\ GenInv' /\ Others(p)
         /\ pc[p] \in LoopLabels => Turn(p) \/ pc'[p] = "idle"
<1> USE DEF GenLabels, LoopLabels
<1>r. pc[p] \in GenLabels => req[p] \in Generations
  BY DEF GenInv
<1>1. CASE ReadConfig(p)
  <2>1. Others(p) /\ pc[p] = "gen_config" /\ pc'[p] = "gen_vehicles" /\ req' = req
    BY <1>1 DEF ReadConfig, Goto, Others, GenInv, request
  <2>2. req'[p] \in Generations
    BY <1>r, <2>1
  <2>3. GenInv'
    BY <2>1, <2>2, OthersKeep
  <2> QED BY <2>1, <2>3
<1>2. CASE ReadVehicles(p)
  <2>1. CASE GenRefuse(p, 404)
    <3>1. Answer(p, 404) /\ plan' = [plan EXCEPT ![p] = None]
      BY <2>1, Zenon DEF GenRefuse, Refuse
    <3>2. Others(p) /\ pc'[p] = "idle" /\ GenInv'
      BY <3>1, AnsweredKeeps
    <3> QED BY <3>2
  <2>2. CASE ~GenRefuse(p, 404)
    <3>1. PICK order \in SetToSeqs(req[p].vehicle_ids) :
            plan' = [plan EXCEPT ![p] =
               [vehicles |-> order, slot |-> FirstSlot(req[p], 0), last_yard_idle_since |-> None,
                battery_at_idle_start |-> None, rows |-> None, existing |-> {},
                created |-> << >>, events |-> {}]]
      BY <1>2, <2>2 DEF ReadVehicles
    <3>2. pc[p] = "gen_vehicles" /\ pc' = [pc EXCEPT ![p] = "gen_services"] /\ req' = req
      BY <1>2, <2>2 DEF ReadVehicles, Goto, request
    <3>3. Others(p) /\ pc'[p] = "gen_services" /\ req[p] \in Generations
      BY <1>r, <3>1, <3>2 DEF Others, GenInv
    <3>4. Cardinality(req[p].vehicle_ids) \in Nat
      BY <3>3, GenerationsAssumption, FS_CardinalityType
    <3>5. order \in Seq(req[p].vehicle_ids) /\ Len(order) = Cardinality(req[p].vehicle_ids)
      BY <3>4 DEF SetToSeqs
    <3>6. FirstSlot(req[p], 0) \in Nat /\ FirstSlot(req[p], 0) < req[p].end_time + req[p].interval
      BY <3>3, <3>4, FirstSlotInTime
    <3>7. plan'[p].vehicles = order /\ plan'[p].slot = FirstSlot(req[p], 0)
          /\ {"vehicles", "slot"} \subseteq DOMAIN plan'[p]
      BY <3>1 DEF GenInv
    <3>8. PlanOK(p)'
      BY <3>2, <3>4, <3>5, <3>6, <3>7 DEF PlanOK
    <3> QED BY <3>2, <3>3, <3>8, OthersKeep
  <2> QED BY <2>1, <2>2
<1>3. CASE ReadServices(p)
  <2>1. /\ pc[p] = "gen_services" /\ req' = req
        /\ pc' = [pc EXCEPT ![p] = "gen_stops"]
        /\ plan' = [plan EXCEPT ![p] = [plan[p] EXCEPT !.rows = SelectServices]]
    BY <1>3 DEF ReadServices, Goto, request
  <2>2. /\ Others(p) /\ pc'[p] = "gen_stops"
        /\ plan'[p] = [plan[p] EXCEPT !.rows = SelectServices]
    BY <2>1, LoopOthers
  <2>3. PlanOK(p)
    BY <2>1 DEF GenInv
  <2>4. PlanOK(p)'
    BY <2>1, <2>2, <2>3 DEF PlanOK
  <2> QED BY <1>r, <2>1, <2>2, <2>4, OthersKeep
<1>4. CASE ReadStops(p)
  <2>1. PICK existing :
          /\ pc[p] = "gen_stops" /\ req' = req
          /\ pc' = [pc EXCEPT ![p] = "gen_slot"]
          /\ plan' = [plan EXCEPT ![p] = [plan[p] EXCEPT !.rows = None, !.existing = existing]]
    BY <1>4 DEF ReadStops, Goto, request
  <2>2. /\ Others(p) /\ pc'[p] = "gen_slot"
        /\ plan'[p] = [plan[p] EXCEPT !.rows = None, !.existing = existing]
    BY <2>1, LoopOthers
  <2>3. PlanOK(p)
    BY <2>1 DEF GenInv
  <2>4. PlanOK(p)'
    BY <2>1, <2>2, <2>3 DEF PlanOK
  <2> QED BY <1>r, <2>1, <2>2, <2>4, OthersKeep
<1>5. CASE FinishGenerate(p)
  <2>1. PICK status : Answer(p, status) /\ plan' = [plan EXCEPT ![p] = None]
    BY <1>5, Zenon DEF FinishGenerate, GenRefuse, Refuse
  <2>2. Others(p) /\ pc'[p] = "idle" /\ GenInv'
    BY <2>1, AnsweredKeeps
  <2>3. pc[p] = "gen_slot"
    BY <1>5 DEF FinishGenerate
  <2> QED BY <2>2, <2>3
<1>6. CASE InsertTrip(p) /\ GenRefuse(p, 500)
  <2>1. Answer(p, 500) /\ plan' = [plan EXCEPT ![p] = None]
    BY <1>6, Zenon DEF GenRefuse, Refuse
  <2>2. Others(p) /\ pc'[p] = "idle" /\ GenInv'
    BY <2>1, AnsweredKeeps
  <2> QED BY <2>2
<1>7. CASE NextVehicle(p)
  BY <1>7, NextVehicleTurns, TurnKeeps DEF NextVehicle, Turn
<1>8. CASE ReadIdleBattery(p) \/ CheckSlot(p) \/ (InsertTrip(p) /\ ~GenRefuse(p, 500))
  <2>1. pc[p] \in LoopLabels
    BY <1>8 DEF ReadIdleBattery, CheckSlot, InsertTrip
  <2> QED BY <1>8, <2>1, LoopTurns, TurnKeeps DEF Turn
<1> QED BY <1>1, <1>2, <1>3, <1>4, <1>5, <1>6, <1>7, <1>8 DEF GenStep

LEMMA GenStepsKeep == GenInv /\ [GenNext]_gvars => GenInv'
<1> SUFFICES ASSUME GenInv, [GenNext]_gvars PROVE GenInv'
  OBVIOUS
<1> USE DEF GenLabels, LoopLabels
<1>1. ASSUME NEW p \in Proc, BeginGenerate(p) PROVE GenInv'
  <2>1. PICK r \in Generations : req' = [req EXCEPT ![p] = r]
    BY <1>1 DEF BeginGenerate
  <2>2. pc' = [pc EXCEPT ![p] = "gen_config"] /\ plan' = plan
    BY <1>1 DEF BeginGenerate, Goto
  <2>3. Others(p) /\ pc'[p] = "gen_config" /\ req'[p] = r
    BY <2>1, <2>2 DEF Others, GenInv
  <2> QED BY <2>3, OthersKeep
<1>2. ASSUME NEW p \in Proc, HandlerStep(p) \/ (Begin(p) /\ UNCHANGED plan) PROVE GenInv'
  <2>1. (Begin(p) \/ Step(p)) /\ plan' = plan
    BY <1>2 DEF HandlerStep
  <2>2. Others(p) /\ pc'[p] \notin GenLabels
    BY <2>1, HandlersApart DEF Others
  <2> QED BY <2>2, OthersKeep
<1>3. CASE UNCHANGED gvars \/ (Served /\ UNCHANGED plan)
  <2>1. UNCHANGED <<pc, req, plan>>
    BY <1>3 DEF gvars, vars, request, Served
  <2>2. \A p \in Proc : PlanOK(p) => PlanOK(p)'
    BY <2>1 DEF PlanOK
  <2> QED BY <2>1, <2>2 DEF GenInv
<1> QED BY <1>1, <1>2, <1>3, GenStepKeeps DEF GenNext

LEMMA GenInvariant == GenSpec => []GenInv
BY GenStarts, GenStepsKeep, PTL DEF GenSpec
-----------------------------------------------------------------------------
(* The theorem *)

\* Whatever the schedule asked for, the timetable and the ledger, and whatever the other
\* handlers commit meanwhile: no statement of the loop of generate_schedule leaves it
\* where it was, and no slot passes the end by the interval or more.
THEOREM SchedulesEnd == GenSpec => EveryScheduleEnds
<1> DEFINE Progress(p) ==
      InLoop(p) /\ InLoop(p)' /\ <<pc[p], plan[p]>>' # <<pc[p], plan[p]>> =>
       /\ plan'[p].slot < req[p].end_time + req[p].interval
       /\ \/ Len(plan'[p].vehicles) < Len(plan[p].vehicles)
          \/ /\ plan'[p].vehicles = plan[p].vehicles
             /\ \/ plan'[p].slot > plan[p].slot
                \/ plan'[p].slot = plan[p].slot /\ StatementsLeft(p)' < StatementsLeft(p)
<1>1. GenInv /\ [GenNext]_gvars => [\A p \in Proc : Progress(p)]_gvars
  <2> SUFFICES ASSUME GenInv, GenNext, NEW p \in Proc PROVE Progress(p)
    BY DEF GenInv
  <2> USE DEF GenLabels, LoopLabels, InLoop
  <2>1. ASSUME NEW q \in Proc, BeginGenerate(q) PROVE Progress(p)
    BY <2>1 DEF BeginGenerate, Goto, GenInv
  <2>2. ASSUME NEW q \in Proc, HandlerStep(q) \/ (Begin(q) /\ UNCHANGED plan) PROVE Progress(p)
    <3>1. (Begin(q) \/ Step(q)) /\ plan' = plan
      BY <2>2 DEF HandlerStep
    <3> QED BY <3>1, HandlersApart
  <2>3. ASSUME Served /\ UNCHANGED plan PROVE Progress(p)
    BY <2>3 DEF Served, vars
  <2>4. ASSUME NEW q \in Proc, GenStep(q), q # p PROVE Progress(p)
    BY <2>4, GenStepKeeps DEF Others
  <2>5. ASSUME GenStep(p) PROVE Progress(p)
    BY <2>5, GenStepKeeps DEF Turn, PlanOK
  <2> QED BY <2>1, <2>2, <2>3, <2>4, <2>5 DEF GenNext
<1> QED BY <1>1, GenInvariant, PTL DEF GenSpec, EveryScheduleEnds
-----------------------------------------------------------------------------
(***************************************************************************)
(* One process.  The generator beside nobody finds every vehicle it has    *)
(* read when it inserts the trips, and nothing else can fail.              *)
(***************************************************************************)
VehiclesRead ==
  \A p \in Proc :
    /\ pc[p] \in {"gen_services", "gen_stops"} \cup LoopLabels =>
         plan[p].vehicles \in Seq(vehicles)
    /\ pc[p] \in {"gen_battery", "gen_insert"} => plan[p].vehicles # << >>

AloneInv == GenInv /\ ReadsHold /\ VehiclesRead

\* A generator that goes on leaves what holds of a lone handler alone.
LEMMA GenMoves ==
  ASSUME OneHandler, AloneInv, NEW p \in Proc, DOMAIN pc' = Proc, pc'[p] \in GenLabels,
         UNCHANGED <<req, loaded, reply>>, DOMAIN block_traversal' = Proc
  PROVE  ReadsHold'
BY DEF OneHandler, AloneInv, ReadsHold, Updating, GenLabels, LoopLabels

LEMMA GenAnswers ==
  ASSUME OneHandler, AloneInv, NEW p \in Proc, NEW status, status # 500, Answer(p, status)
  PROVE  ReadsHold' /\ VehiclesRead'
BY DEF OneHandler, AloneInv, ReadsHold, VehiclesRead, Answer, Goto, Updating, LoopLabels

LEMMA GenStepAlone ==
  ASSUME OneHandler, AloneInv, NEW p \in Proc, GenStep(p)
  PROVE  ReadsHold' /\ VehiclesRead'
<1> USE DEF AloneInv, GenLabels, LoopLabels
<1>o. \A q \in Proc : q = p
  BY DEF OneHandler
<1>1. CASE ReadConfig(p)
  <2>1. /\ DOMAIN pc' = Proc /\ pc'[p] = "gen_vehicles" /\ UNCHANGED <<req, loaded, reply>>
        /\ DOMAIN block_traversal' = Proc
    BY <1>1 DEF ReadConfig, Goto, request, GenInv, ReadsHold
  <2> QED BY <1>o, <2>1, GenMoves DEF VehiclesRead, GenInv
<1>2. CASE ReadVehicles(p)
  <2>1. CASE GenRefuse(p, 404)
    BY <2>1, GenAnswers DEF GenRefuse, Refuse
  <2>2. CASE ~GenRefuse(p, 404)
    <3>1. PICK order \in SetToSeqs(req[p].vehicle_ids) :
            plan' = [plan EXCEPT ![p] =
               [vehicles |-> order, slot |-> FirstSlot(req[p], 0), last_yard_idle_since |-> None,
                battery_at_idle_start |-> None, rows |-> None, existing |-> {},
                created |-> << >>, events |-> {}]]
      BY <1>2, <2>2 DEF ReadVehicles
    <3>2. /\ pc[p] = "gen_vehicles" /\ pc' = [pc EXCEPT ![p] = "gen_services"]
          /\ UNCHANGED <<req, loaded, reply, vehicles, block_traversal>>
          /\ req[p].vehicle_ids \subseteq vehicles
      BY <1>2, <2>2 DEF ReadVehicles, Goto, request, reads, tables
    <3>3. Cardinality(req[p].vehicle_ids) \in Nat
      BY <3>2, RequestSizes DEF GenInv
    <3>4. order \in Seq(req[p].vehicle_ids)
      BY <3>3 DEF SetToSeqs
    <3>5. order \in Seq(vehicles)
      BY <3>2, <3>4
    <3>6. /\ plan'[p].vehicles = order /\ pc'[p] = "gen_services" /\ DOMAIN pc' = Proc
          /\ DOMAIN block_traversal' = Proc
      BY <3>1, <3>2 DEF GenInv, ReadsHold
    <3> QED BY <1>o, <3>2, <3>5, <3>6, GenMoves DEF VehiclesRead
  <2> QED BY <2>1, <2>2
<1>3. CASE ReadServices(p) \/ ReadStops(p) \/ NextVehicle(p) \/ ReadIdleBattery(p) \/ CheckSlot(p)
  <2>1. /\ DOMAIN pc' = Proc /\ pc'[p] \in GenLabels \ {"gen_config", "gen_vehicles"}
        /\ UNCHANGED <<req, loaded, reply, vehicles>> /\ DOMAIN block_traversal' = Proc
    BY <1>3 DEF ReadServices, ReadStops, NextVehicle, ReadIdleBattery, CheckSlot, Goto,
                vars, request, reads, tables, GenInv, ReadsHold
  <2>2. /\ pc[p] \in {"gen_services", "gen_stops"} \cup LoopLabels
        /\ plan[p].vehicles \in Seq(vehicles) /\ "vehicles" \in DOMAIN plan[p]
    BY <1>3 DEF ReadServices, ReadStops, NextVehicle, ReadIdleBattery, CheckSlot, VehiclesRead,
                GenInv, PlanOK
  <2>3. /\ plan'[p].vehicles \in Seq(vehicles)
        /\ pc'[p] \in {"gen_battery", "gen_insert"} => plan'[p].vehicles # << >>
    <3>1. CASE NextVehicle(p)
      <4> DEFINE rest == Tail(plan[p].vehicles)
                 first == FirstSlot(req[p], Cardinality(req[p].vehicle_ids) - Len(rest))
      <4>1. /\ plan[p].vehicles # << >> /\ pc[p] = "gen_slot" /\ pc' = pc
            /\ plan' = [plan EXCEPT ![p] = [plan[p] EXCEPT !.vehicles = rest,
                           !.last_yard_idle_since = None, !.slot = first]]
        BY <3>1 DEF NextVehicle, vars
      <4>2. rest \in Seq(vehicles)
        BY <2>2, <4>1
      <4> HIDE DEF rest, first
      <4>3. plan'[p] = [plan[p] EXCEPT !.vehicles = rest, !.last_yard_idle_since = None, !.slot = first]
        BY <4>1 DEF GenInv
      <4>4. plan'[p].vehicles = rest
        BY <2>2, <4>3
      <4> QED BY <4>1, <4>2, <4>4
    <3>2. CASE ~NextVehicle(p)
      <4>1. /\ plan'[p].vehicles = plan[p].vehicles
            /\ pc'[p] \in {"gen_battery", "gen_insert"} => plan[p].vehicles # << >>
        <5>1. CASE ReadServices(p)
          BY <2>2, <5>1 DEF ReadServices, Goto, GenInv
        <5>2. CASE ReadStops(p)
          BY <2>2, <5>2 DEF ReadStops, Goto, GenInv
        <5>3. CASE ReadIdleBattery(p)
          BY <2>2, <5>3 DEF ReadIdleBattery, Goto, GenInv
        <5>4. CASE CheckSlot(p)
          BY <2>2, <5>4 DEF CheckSlot, AfterRejection, Goto, GenInv, VehiclesRead
        <5> QED BY <1>3, <3>2, <5>1, <5>2, <5>3, <5>4
      <4> QED BY <2>2, <4>1
    <3> QED BY <3>1, <3>2
  <2> QED BY <1>o, <2>1, <2>3, GenMoves DEF VehiclesRead
<1>4. CASE InsertTrip(p)
  <2>1. Current(p) \in vehicles /\ plan[p].vehicles \in Seq(vehicles)
    <3>1. plan[p].vehicles \in Seq(vehicles) /\ plan[p].vehicles # << >>
      BY <1>4 DEF InsertTrip, VehiclesRead
    <3> QED BY <3>1 DEF Current
  <2> DEFINE created == Append(plan[p].created, CandidateTrip(p, NextKey(p), dep_battery[p]))
             evts == plan[p].events \cup TripEvents(p)
             since == IF DEFAULT_ROUND_TRIP[Len(DEFAULT_ROUND_TRIP)] = YARD THEN TripEnd(p)
                      ELSE None
  <2>2. /\ pc[p] = "gen_insert" /\ pc' = [pc EXCEPT ![p] = "gen_slot"]
        /\ UNCHANGED <<req, loaded, reply, vehicles>>
        /\ plan' = [plan EXCEPT ![p] = [plan[p] EXCEPT !.created = created, !.events = evts,
                      !.last_yard_idle_since = since, !.slot = plan[p].slot + req[p].interval]]
    BY <1>4, <2>1 DEF InsertTrip, Goto, request, tables
  <2>5. DOMAIN block_traversal' = Proc
    BY <1>4, <2>1 DEF InsertTrip, ReadsHold, reads
  <2> HIDE DEF created, evts, since
  <2>3. plan'[p] = [plan[p] EXCEPT !.created = created, !.events = evts,
                      !.last_yard_idle_since = since, !.slot = plan[p].slot + req[p].interval]
    BY <2>2 DEF GenInv
  <2>4. plan'[p].vehicles = plan[p].vehicles /\ DOMAIN pc' = Proc /\ pc'[p] = "gen_slot"
    BY <2>2, <2>3 DEF GenInv, PlanOK
  <2> QED BY <1>o, <2>1, <2>2, <2>4, <2>5, GenMoves DEF VehiclesRead, GenInv
<1>5. CASE FinishGenerate(p)
  BY <1>5, GenAnswers DEF FinishGenerate, GenRefuse, Refuse
<1> QED BY <1>1, <1>2, <1>3, <1>4, <1>5 DEF GenStep

LEMMA AloneStarts == GenInit => AloneInv
<1> SUFFICES ASSUME GenInit PROVE AloneInv
  OBVIOUS
<1>1. ReadsHold /\ VehiclesRead
  BY DEF GenInit, Init, ReadsHold, VehiclesRead, Updating, LoopLabels
<1> QED BY <1>1, GenStarts DEF AloneInv

LEMMA AloneKeeps ==
  ASSUME OneHandler, AloneInv, \A p \in Proc : MeetsRows(p), [GenNext]_gvars
  PROVE  AloneInv'
<1> SUFFICES ReadsHold' /\ VehiclesRead'
  BY GenStepsKeep DEF AloneInv
<1>1. ASSUME NEW p \in Proc, BeginGenerate(p) PROVE ReadsHold' /\ VehiclesRead'
  <2>1. PICK r \in Generations : req' = [req EXCEPT ![p] = r]
    BY <1>1 DEF BeginGenerate
  <2> QED
    BY <1>1, <2>1
       DEF BeginGenerate, Goto, AloneInv, GenInv, OneHandler, ReadsHold, VehiclesRead,
           Updating, LoopLabels, tables, reads
<1>2. ASSUME NEW p \in Proc, HandlerStep(p) \/ (Begin(p) /\ UNCHANGED plan)
      PROVE  ReadsHold' /\ VehiclesRead'
  <2>1. Begin(p) \/ Step(p)
    BY <1>2 DEF HandlerStep
  <2> QED BY <2>1, AloneStep, HandlersApart DEF AloneInv, VehiclesRead, OneHandler, GenLabels, LoopLabels
<1>3. CASE UNCHANGED gvars \/ (Served /\ UNCHANGED plan)
  <2>1. UNCHANGED <<pc, req, loaded, reply, services, vehicles, plan, block_traversal, block_configs>>
    BY <1>3 DEF gvars, vars, tables, request, reads, Served
  <2> QED BY <2>1 DEF AloneInv, ReadsHold, VehiclesRead, HasServices, Live
<1> QED BY <1>1, <1>2, <1>3, GenStepAlone DEF GenNext
-----------------------------------------------------------------------------
(***************************************************************************)
(* The generated day.  A trip is checked at the end of the list and stored *)
(* under the next key: the detectors see the same order either way.        *)
(***************************************************************************)
Quiet(snapshots) ==
  detect_block_conflicts(snapshots) = {} /\ detect_vehicle_conflicts(snapshots) = {}

Interval(s, i) ==
  [service_id |-> s.service_id, index |-> i, node_id |-> s.stops[i].node_id,
   enter |-> s.stops[i].enter, exit |-> s.stops[i].exit]

LEMMA IntervalsOf ==
  ASSUME NEW S, NEW x
  PROVE  x \in BlockIntervals(S) <=>
           \E s \in S : \E i \in DOMAIN s.stops : is_block(s.stops[i].node_id) /\ x = Interval(s, i)
<1> DEFINE Of(s) == {Interval(s, i) : i \in {k \in DOMAIN s.stops : is_block(s.stops[k].node_id)}}
<1>1. BlockIntervals(S) = UNION {Of(s) : s \in S}
  BY DEF BlockIntervals, Interval
<1>2. \A s : x \in Of(s) <=> \E i \in DOMAIN s.stops : is_block(s.stops[i].node_id) /\ x = Interval(s, i)
  OBVIOUS
<1> HIDE DEF Of
<1>3. x \in UNION {Of(s) : s \in S} <=> \E s \in S : x \in Of(s)
  OBVIOUS
<1> QED BY <1>1, <1>2, <1>3

LEMMA NoClash ==
  ASSUME NEW S
  PROVE  detect_block_conflicts(S) = {} <=>
           \A a, b \in BlockIntervals(S) :
             Clash(BlockIntervals(S), a, b) => InvolvedBlocks(a, b) = {}
<1> DEFINE intervals == BlockIntervals(S)
           clashes == {p \in intervals \X intervals :
                         Clash(intervals, p[1], p[2]) /\ InvolvedBlocks(p[1], p[2]) # {}}
           Ids(p) == {p[1].service_id, p[2].service_id}
           Locations(ids) == UNION {InvolvedBlocks(p[1], p[2]) : p \in {q \in clashes : Ids(q) = ids}}
<1>1. detect_block_conflicts(S) = {} <=> clashes = {}
  <2>1. detect_block_conflicts(S) = {Conflict("interlocking", Ids(p), Locations(Ids(p))) : p \in clashes}
    BY DEF detect_block_conflicts
  <2> HIDE DEF clashes, Ids, Locations
  <2> QED BY <2>1
<1>2. clashes = {} <=> \A a, b \in intervals : Clash(intervals, a, b) => InvolvedBlocks(a, b) = {}
  <2> HIDE DEF intervals
  <2>1. ASSUME clashes = {}, NEW a \in intervals, NEW b \in intervals, Clash(intervals, a, b)
        PROVE  InvolvedBlocks(a, b) = {}
    <3>1. <<a, b>> \in intervals \X intervals /\ <<a, b>>[1] = a /\ <<a, b>>[2] = b
      OBVIOUS
    <3> QED BY <2>1, <3>1
  <2>2. ASSUME \A a, b \in intervals : Clash(intervals, a, b) => InvolvedBlocks(a, b) = {},
               NEW p \in clashes
        PROVE  FALSE
    <3>1. p[1] \in intervals /\ p[2] \in intervals
      OBVIOUS
    <3> QED BY <2>2, <3>1
  <2> QED BY <2>1, <2>2
<1> QED BY <1>1, <1>2

WithStops(S) == {s \in S : s.stops # << >>}

Gap(S, a, b) ==
  /\ a.vehicle_id = b.vehicle_id /\ StartsBefore(a, b)
  /\ \A c \in S : c.vehicle_id = a.vehicle_id => ~(StartsBefore(a, c) /\ StartsBefore(c, b))
  /\ ~_intervals_overlap(_snap_window(a), _snap_window(b)) /\ LastNode(a) # FirstNode(b)

Overlap(a, b) ==
  /\ a.service_id # b.service_id /\ a.vehicle_id = b.vehicle_id
  /\ _intervals_overlap(_snap_window(a), _snap_window(b))

LEMMA NoVehicleClash ==
  ASSUME NEW S
  PROVE  detect_vehicle_conflicts(S) = {} <=>
           \A a, b \in WithStops(S) : ~Overlap(a, b) /\ ~Gap(WithStops(S), a, b)
<1> DEFINE timed == WithStops(S)
           gaps == {p \in SuccessivePairs(timed) :
                     /\ ~_intervals_overlap(_snap_window(p[1]), _snap_window(p[2]))
                     /\ LastNode(p[1]) # FirstNode(p[2])}
<1>1. detect_vehicle_conflicts(S) = {} <=> OverlapPairs(timed) = {} /\ gaps = {}
  BY Zenon DEF detect_vehicle_conflicts, WithStops
<1> HIDE DEF timed
<1>2. ASSUME NEW a \in timed, NEW b \in timed
      PROVE  /\ <<a, b>> \in OverlapPairs(timed) <=> Overlap(a, b)
             /\ <<a, b>> \in gaps <=> Gap(timed, a, b)
  <2>1. <<a, b>> \in timed \X timed /\ <<a, b>>[1] = a /\ <<a, b>>[2] = b
    OBVIOUS
  <2> QED BY <2>1 DEF OverlapPairs, SuccessivePairs, Overlap, Gap
<1>3. \A p \in OverlapPairs(timed) \cup gaps :
        p[1] \in timed /\ p[2] \in timed /\ p = <<p[1], p[2]>>
  BY DEF OverlapPairs, SuccessivePairs
<1> HIDE DEF gaps
<1>4. OverlapPairs(timed) = {} /\ gaps = {}
        <=> \A a, b \in timed : ~Overlap(a, b) /\ ~Gap(timed, a, b)
  <2>1. ASSUME OverlapPairs(timed) = {}, gaps = {}, NEW a \in timed, NEW b \in timed
        PROVE  ~Overlap(a, b) /\ ~Gap(timed, a, b)
    BY <1>2, <2>1
  <2>2. ASSUME \A a, b \in timed : ~Overlap(a, b) /\ ~Gap(timed, a, b),
               NEW p \in OverlapPairs(timed) \cup gaps
        PROVE  FALSE
    <3>1. p[1] \in timed /\ p[2] \in timed /\ p = <<p[1], p[2]>>
      BY <1>3
    <3>2. <<p[1], p[2]>> \in OverlapPairs(timed) \/ <<p[1], p[2]>> \in gaps
      BY <3>1
    <3> QED BY <1>2, <2>2, <3>1, <3>2
  <2> QED BY <2>1, <2>2
<1> QED BY <1>1, <1>4 DEF timed

\* Two services that differ in their ids alone, each greater than all others.
Renames(S, c, d) ==
  /\ c = [service_id |-> c.service_id, vehicle_id |-> d.vehicle_id, stops |-> d.stops,
          departure_battery |-> d.departure_battery]
  /\ c.service_id \in Nat /\ d.service_id \in Nat
  /\ \A s \in S : s.service_id \in Nat /\ s.service_id < c.service_id /\ s.service_id < d.service_id

LEMMA BlocksRenamed ==
  ASSUME NEW S, NEW c, NEW d, Renames(S, c, d), detect_block_conflicts(S \cup {d}) = {}
  PROVE  detect_block_conflicts(S \cup {c}) = {}
<1> DEFINE A == BlockIntervals(S \cup {d})
           B == BlockIntervals(S \cup {c})
           n == c.service_id
           m == d.service_id
           Old(x) == [service_id |-> IF x.service_id = n THEN m ELSE x.service_id,
                      index |-> x.index, node_id |-> x.node_id, enter |-> x.enter, exit |-> x.exit]
           New(x) == [service_id |-> IF x.service_id = m THEN n ELSE x.service_id,
                      index |-> x.index, node_id |-> x.node_id, enter |-> x.enter, exit |-> x.exit]
<1>1. n \in Nat /\ m \in Nat /\ c.stops = d.stops
      /\ \A s \in S : s.service_id \in Nat /\ s.service_id < n /\ s.service_id < m
  BY DEF Renames
<1>2. ASSUME NEW x \in B
      PROVE  /\ Old(x) \in A
             /\ x.service_id \in Nat /\ (x.service_id = n \/ (x.service_id < n /\ x.service_id < m))
  <2>1. PICK s \in S \cup {c} : \E i \in DOMAIN s.stops : is_block(s.stops[i].node_id) /\ x = Interval(s, i)
    BY IntervalsOf
  <2>2. PICK i \in DOMAIN s.stops : is_block(s.stops[i].node_id) /\ x = Interval(s, i)
    BY <2>1
  <2>3. CASE s = c
    <3>1. Old(x) = Interval(d, i)
      BY <1>1, <2>2, <2>3 DEF Interval
    <3>2. Interval(d, i) \in A
      BY <1>1, <2>2, <2>3, IntervalsOf
    <3> QED BY <1>1, <2>2, <2>3, <3>1, <3>2 DEF Interval
  <2>4. CASE s \in S
    <3>1. Old(x) = x /\ x.service_id = s.service_id
      BY <1>1, <2>2, <2>4 DEF Interval
    <3>2. x \in A
      BY <2>2, <2>4, IntervalsOf
    <3> QED BY <1>1, <2>4, <3>1, <3>2
  <2> QED BY <2>3, <2>4
<1>3. ASSUME NEW x \in A
      PROVE  New(x) \in B /\ Old(New(x)) = x
  <2>1. PICK s \in S \cup {d} : \E i \in DOMAIN s.stops : is_block(s.stops[i].node_id) /\ x = Interval(s, i)
    BY IntervalsOf
  <2>2. PICK i \in DOMAIN s.stops : is_block(s.stops[i].node_id) /\ x = Interval(s, i)
    BY <2>1
  <2>3. CASE s = d
    <3>1. New(x) = Interval(c, i) /\ Old(New(x)) = x
      BY <1>1, <2>2, <2>3 DEF Interval
    <3>2. Interval(c, i) \in B
      BY <1>1, <2>2, <2>3, IntervalsOf
    <3> QED BY <3>1, <3>2
  <2>4. CASE s \in S
    <3>1. New(x) = x /\ Old(x) = x
      BY <1>1, <2>2, <2>4 DEF Interval
    <3>2. x \in B
      BY <2>2, <2>4, IntervalsOf
    <3> QED BY <3>1, <3>2
  <2> QED BY <2>3, <2>4
<1> HIDE DEF A, B, n, m
<1>4. \A x, y \in B : /\ SortedBefore(Old(x), Old(y)) <=> SortedBefore(x, y)
                      /\ Old(x).service_id = Old(y).service_id <=> x.service_id = y.service_id
  <2> SUFFICES ASSUME NEW x \in B, NEW y \in B
               PROVE  /\ SortedBefore(Old(x), Old(y)) <=> SortedBefore(x, y)
                      /\ Old(x).service_id = Old(y).service_id <=> x.service_id = y.service_id
    OBVIOUS
  <2>1. /\ Old(x).service_id < Old(y).service_id <=> x.service_id < y.service_id
        /\ Old(x).service_id = Old(y).service_id <=> x.service_id = y.service_id
    <3>1. PICK a, b : a = x.service_id /\ b = y.service_id
      OBVIOUS
    <3>2. /\ n \in Nat /\ m \in Nat /\ a \in Nat /\ b \in Nat
          /\ a = n \/ (a < n /\ a < m)
          /\ b = n \/ (b < n /\ b < m)
      BY <1>1, <1>2, <3>1
    <3>3. Old(x).service_id = (IF a = n THEN m ELSE a) /\ Old(y).service_id = (IF b = n THEN m ELSE b)
      BY <3>1
    <3> QED BY <3>1, <3>2, <3>3
  <2> QED BY <2>1 DEF SortedBefore
<1>5. ASSUME NEW x \in B, NEW y \in B, Clash(B, x, y), InvolvedBlocks(x, y) # {} PROVE FALSE
  <2>1. Old(x) \in A /\ Old(y) \in A
    BY <1>2
  <2>2. ASSUME NEW z \in A, SortedBefore(Old(x), z), z = Old(y) \/ SortedBefore(z, Old(y))
        PROVE  z.enter < Old(x).exit
    <3>1. PICK w \in B : Old(w) = z
      BY <1>3
    <3>2. SortedBefore(x, w) /\ (z = Old(y) \/ SortedBefore(w, y))
      BY <1>4, <2>2, <3>1
    <3>3. CASE SortedBefore(w, y)
      BY <1>5, <3>1, <3>2, <3>3 DEF Clash, Scanned
    <3>4. CASE z = Old(y)
      <4>1. SortedBefore(x, y)
        BY <1>4, <2>2, <3>4
      <4>2. y.enter < x.exit
        BY <1>5, <4>1 DEF Clash, Scanned
      <4> QED BY <3>4, <4>2
    <3> QED BY <3>2, <3>3, <3>4
  <2>3. Scanned(A, Old(x), Old(y))
    BY <1>4, <1>5, <2>2 DEF Scanned, Clash
  <2>4. Clash(A, Old(x), Old(y)) /\ InvolvedBlocks(Old(x), Old(y)) # {}
    BY <1>4, <1>5, <2>3 DEF Clash, _intervals_overlap, InvolvedBlocks
  <2> QED BY <2>1, <2>4, NoClash DEF A
<1> QED BY <1>5, NoClash DEF B

LEMMA VehiclesRenamed ==
  ASSUME NEW S, NEW c, NEW d, Renames(S, c, d), detect_vehicle_conflicts(S \cup {d}) = {}
  PROVE  detect_vehicle_conflicts(S \cup {c}) = {}
<1> DEFINE A == WithStops(S \cup {d})
           B == WithStops(S \cup {c})
           Old(s) == IF s = c THEN d ELSE s
           New(s) == IF s = d THEN c ELSE s
<1>1. /\ c.service_id \in Nat /\ d.service_id \in Nat
      /\ c.stops = d.stops /\ c.vehicle_id = d.vehicle_id
      /\ \A s \in S : /\ s.service_id \in Nat /\ s.service_id < c.service_id
                      /\ s.service_id < d.service_id
      /\ c \notin S /\ d \notin S
  BY DEF Renames
<1>2. \A s \in B : /\ Old(s) \in A /\ Old(s).stops = s.stops /\ Old(s).vehicle_id = s.vehicle_id
                   /\ s = c \/ (s \in S /\ Old(s) = s)
  BY <1>1 DEF WithStops
<1>3. \A s \in A : New(s) \in B /\ Old(New(s)) = s
  BY <1>1 DEF WithStops
<1> HIDE DEF A, B
<1>4. \A x, y \in B : /\ Old(x).service_id < Old(y).service_id <=> x.service_id < y.service_id
                      /\ x.service_id # y.service_id => Old(x).service_id # Old(y).service_id
  BY <1>1, <1>2
<1>5. \A x \in B : /\ _snap_window(Old(x)) = _snap_window(x)
                   /\ FirstNode(Old(x)) = FirstNode(x) /\ LastNode(Old(x)) = LastNode(x)
  BY <1>2 DEF _snap_window, FirstNode, LastNode
<1>6. \A x, y \in B : StartsBefore(Old(x), Old(y)) <=> StartsBefore(x, y)
  <2> HIDE DEF Old
  <2> QED BY <1>4, <1>5 DEF StartsBefore
<1>7. ASSUME NEW x \in B, NEW y \in B, Overlap(x, y) \/ Gap(B, x, y)
      PROVE  Overlap(Old(x), Old(y)) \/ Gap(A, Old(x), Old(y))
  <2> HIDE DEF Old, New
  <2>1. CASE Overlap(x, y)
    BY <1>2, <1>4, <1>5, <2>1 DEF Overlap
  <2>2. CASE Gap(B, x, y)
    <3>1. ASSUME NEW z \in A, z.vehicle_id = Old(x).vehicle_id
          PROVE  ~(StartsBefore(Old(x), z) /\ StartsBefore(z, Old(y)))
      <4>1. PICK w \in B : Old(w) = z
        BY <1>3
      <4> QED BY <1>2, <1>6, <2>2, <3>1, <4>1 DEF Gap
    <3> QED BY <1>2, <1>5, <1>6, <2>2, <3>1 DEF Gap
  <2> QED BY <1>7, <2>1, <2>2
<1>8. \A x, y \in B : ~Overlap(x, y) /\ ~Gap(B, x, y)
  <2> HIDE DEF Old, New
  <2>1. \A a, b \in A : ~Overlap(a, b) /\ ~Gap(A, a, b)
    BY NoVehicleClash DEF A
  <2> QED BY <1>2, <1>7, <2>1
<1> QED BY <1>8, NoVehicleClash DEF B

LEMMA QuietRenamed ==
  ASSUME NEW S, NEW c, NEW d, Renames(S, c, d), Quiet(S \cup {d})
  PROVE  Quiet(S \cup {c})
BY BlocksRenamed, VehiclesRenamed DEF Quiet
-----------------------------------------------------------------------------
(***************************************************************************)
(* Keys.  Every trip placed had a departure of its own among those tried,  *)
(* so that the keys reserved suffice.                                      *)
(***************************************************************************)
Tries(r) ==
  {try \in (0 .. Cardinality(r.vehicle_ids) - 1) \X (0 .. r.end_time) :
     FirstSlot(r, try[1]) + try[2] * r.interval < r.end_time}

\* With n vehicles left and the next departure at slot, m trips have been placed, each at
\* a departure tried before.
Placed(r, n, slot, m) ==
  \E j \in Nat, T \in SUBSET Tries(r) :
    /\ slot = FirstSlot(r, Cardinality(r.vehicle_ids) - n) + j * r.interval
    /\ Cardinality(T) = m
    /\ \A t \in T : \/ t[1] < Cardinality(r.vehicle_ids) - n
                    \/ t[1] = Cardinality(r.vehicle_ids) - n /\ t[2] < j

LEMMA TriesFinite ==
  ASSUME NEW r \in Generations
  PROVE  IsFiniteSet(Tries(r)) /\ KeysFor(r) = Cardinality(Tries(r)) /\ KeysFor(r) \in Nat
<1> DEFINE A == 0 .. Cardinality(r.vehicle_ids) - 1
           B == 0 .. r.end_time
<1>1. Cardinality(r.vehicle_ids) - 1 \in Int /\ r.end_time \in Int /\ 0 \in Int
  BY RequestSizes
<1>2. IsFiniteSet(A) /\ IsFiniteSet(B)
  BY <1>1, FS_Interval
<1>3. Tries(r) \in SUBSET (A \X B)
  BY DEF Tries
<1> HIDE DEF A, B
<1>4. IsFiniteSet(A \X B)
  BY <1>2, FS_Product
<1>5. IsFiniteSet(Tries(r))
  BY <1>3, <1>4, FS_Subset
<1>6. KeysFor(r) = Cardinality(Tries(r))
  BY DEF KeysFor, Tries
<1> QED BY <1>5, <1>6, FS_CardinalityType

LEMMA FirstPlaced ==
  ASSUME NEW r \in Generations
  PROVE  Placed(r, Cardinality(r.vehicle_ids), FirstSlot(r, 0), 0)
<1>1. PICK N \in Nat : N = Cardinality(r.vehicle_ids)
  BY RequestSizes
<1>2. FirstSlot(r, N - N) + 0 * r.interval = FirstSlot(r, 0)
  BY <1>1, RequestSizes, FirstSlotInTime
<1>3. {} \in SUBSET Tries(r) /\ Cardinality({}) = 0 /\ 0 \in Nat
  BY FS_EmptySet
<1> QED BY <1>1, <1>2, <1>3 DEF Placed

LEMMA NextVehiclePlaced ==
  ASSUME NEW r \in Generations, NEW n \in 1 .. Cardinality(r.vehicle_ids), NEW slot, NEW m,
         Placed(r, n, slot, m)
  PROVE  Placed(r, n - 1, FirstSlot(r, Cardinality(r.vehicle_ids) - (n - 1)), m)
<1>1. PICK N \in Nat : N = Cardinality(r.vehicle_ids)
  BY RequestSizes
<1>2. PICK j \in Nat, T \in SUBSET Tries(r) :
        Cardinality(T) = m /\ \A t \in T : t[1] < N - n \/ t[1] = N - n
  BY <1>1 DEF Placed
<1>3. \A t \in T : t[1] \in Int
  BY DEF Tries
<1>4. \A t \in T : t[1] < N - (n - 1)
  BY <1>1, <1>2, <1>3
<1>5. N - (n - 1) \in 0 .. N
  BY <1>1
<1>6. FirstSlot(r, N - (n - 1)) + 0 * r.interval = FirstSlot(r, N - (n - 1))
  BY <1>1, <1>5, RequestSizes, FirstSlotInTime
<1> QED BY <1>1, <1>2, <1>4, <1>6 DEF Placed

LEMMA LaterSlot ==
  \A first, interval, j \in Nat :
    /\ first + (j + 1) * interval = (first + j * interval) + interval
    /\ interval # 0 => j <= first + j * interval
<1> SUFFICES ASSUME NEW first \in Nat, NEW interval \in Nat, NEW j \in Nat
             PROVE  /\ first + (j + 1) * interval = (first + j * interval) + interval
                    /\ interval # 0 => j <= first + j * interval
  OBVIOUS
<1>1. (j + 1) * interval = j * interval + interval /\ j * interval \in Nat
  OBVIOUS
<1>2. interval # 0 => j * 1 <= j * interval
  BY Monotone
<1> QED BY <1>1, <1>2

LEMMA LaterPlaced ==
  ASSUME NEW r \in Generations, NEW n \in 0 .. Cardinality(r.vehicle_ids), NEW slot, NEW m,
         Placed(r, n, slot, m)
  PROVE  Placed(r, n, slot + r.interval, m)
<1>1. PICK i : i = Cardinality(r.vehicle_ids) - n
  OBVIOUS
<1>2. PICK j \in Nat, T \in SUBSET Tries(r) :
        /\ slot = FirstSlot(r, i) + j * r.interval
        /\ Cardinality(T) = m /\ \A t \in T : t[1] < i \/ (t[1] = i /\ t[2] < j)
  BY <1>1 DEF Placed
<1>3. FirstSlot(r, i) \in Nat /\ r.interval \in Nat
  BY <1>1, RequestSizes, FirstSlotInTime
<1>4. slot + r.interval = FirstSlot(r, i) + (j + 1) * r.interval
  BY <1>2, <1>3, LaterSlot
<1>5. \A t \in T : t[2] \in Nat
  BY DEF Tries
<1>6. \A t \in T : t[1] < i \/ (t[1] = i /\ t[2] < j + 1)
  BY <1>2, <1>5
<1> QED BY <1>1, <1>2, <1>4, <1>6 DEF Placed

LEMMA TripPlaced ==
  ASSUME NEW r \in Generations, NEW n \in 1 .. Cardinality(r.vehicle_ids), NEW slot \in Nat,
         slot < r.end_time, NEW m, Placed(r, n, slot, m)
  PROVE  /\ Placed(r, n, slot + r.interval, m + 1)
         /\ m \in Nat /\ m + 1 <= KeysFor(r)
<1>1. PICK N \in Nat : N = Cardinality(r.vehicle_ids)
  BY RequestSizes
<1>2. PICK i \in 0 .. N - 1 : i = N - n
  BY <1>1
<1>3. PICK j \in Nat, T \in SUBSET Tries(r) :
        /\ slot = FirstSlot(r, i) + j * r.interval
        /\ Cardinality(T) = m /\ \A t \in T : t[1] < i \/ (t[1] = i /\ t[2] < j)
  BY <1>1, <1>2 DEF Placed
<1>4. FirstSlot(r, i) \in Nat /\ r.interval \in Nat \ {0} /\ r.end_time \in Nat
  <2>1. i \in 0 .. Cardinality(r.vehicle_ids)
    BY <1>1
  <2> QED BY <2>1, RequestSizes, FirstSlotInTime
<1>5. /\ slot + r.interval = FirstSlot(r, i) + (j + 1) * r.interval
      /\ j \in 0 .. r.end_time
  <2>1. PICK first \in Nat, interval \in Nat \ {0} : first = FirstSlot(r, i) /\ interval = r.interval
    BY <1>4
  <2>2. j <= first + j * interval /\ first + (j + 1) * interval = (first + j * interval) + interval
    BY <2>1, LaterSlot
  <2> QED BY <1>3, <1>4, <2>1, <2>2
<1>6. PICK try : try = <<i, j>>
  OBVIOUS
<1>7. try \in Tries(r) /\ try[1] = i /\ try[2] = j
  BY <1>1, <1>3, <1>5, <1>6 DEF Tries
<1>8. try \notin T
  BY <1>2, <1>3, <1>7
<1>9. IsFiniteSet(T) /\ T \cup {try} \in SUBSET Tries(r)
  BY <1>7, TriesFinite, FS_Subset
<1>10. m \in Nat /\ Cardinality(T \cup {try}) = m + 1
  BY <1>3, <1>8, <1>9, FS_AddElement, FS_CardinalityType
<1>11. m + 1 <= KeysFor(r)
  BY <1>9, <1>10, TriesFinite, FS_Subset
<1>12. \A t \in T : t[2] \in Nat
  BY DEF Tries
<1>13. \A t \in T \cup {try} : t[1] < i \/ (t[1] = i /\ t[2] < j + 1)
  BY <1>3, <1>7, <1>12
<1> QED BY <1>1, <1>2, <1>5, <1>9, <1>10, <1>11, <1>13 DEF Placed

-----------------------------------------------------------------------------
(***************************************************************************)
(* The timetable a lone process keeps: every stored row is an accepted     *)
(* one, under a key drawn before.                                          *)
(***************************************************************************)
RowAccepted(row) ==
  IsRecord(row) /\ TimesTyped(StopsIn(row)) /\ Accepts(StopsIn(row))

\* The path ends on a platform or in the yard.
EndsOnStop(stops) == ~is_block(stops[Len(stops)].node_id)

TimetableOK ==
  /\ DOMAIN services = ServiceId
  /\ \A s \in Live : s <= begun /\ RowAccepted(services[s])
  /\ block_configs \in [BLOCKS -> Nat \ {0}]
  /\ begun \in 0 .. MaxRequests

\* A handler of ServiceWrites and its request.
HandlerOK(p) ==
  pc[p] \notin {"idle"} \cup GenLabels =>
    /\ req[p] \in Requests /\ ticket[p] \in 1 .. begun
    /\ pc[p] = "block" => req[p].op = "block"
    /\ pc[p] = "load" => req[p].op \in {"update", "delete"}
    /\ pc[p] = "load_stops" => req[p].op = "update"
    /\ pc[p] = "lock" \/ HoldsRow(p) => req[p].op \in {"create", "update"}
    /\ HoldsRow(p) => ~PayloadErrors(req[p].stops)

ServingInv ==
  /\ DOMAIN ticket = Proc /\ DOMAIN block_traversal = Proc /\ DOMAIN dep_battery = Proc
  /\ TimetableOK
  /\ \A p \in Proc : HandlerOK(p)

\* The rows an accepted payload is stored as.
LEMMA StoredPayload ==
  ASSUME NEW r \in Requests, r.op \in {"create", "update"}, r.stops # None,
         ~PayloadErrors(r.stops), NEW b, NEW row, IsRecord(row),
         row.stops = StopRows(b, r.stops)
  PROVE  RowAccepted(row)
<1>1. SchemaAccepts(r.stops)
  BY RequestStops
<1>2. PICK stops : stops = r.stops
  OBVIOUS
<1>3. StopsIn(row) = stops
  BY <1>1, <1>2, StopsReadBack
<1>4. Accepts(stops)
  BY <1>2 DEF PayloadErrors, Accepts
<1>5. TimesTyped(stops)
  BY <1>1, <1>2, SchemaTyped
<1> QED BY <1>3, <1>4, <1>5 DEF RowAccepted

LEMMA ServingAnswer ==
  ASSUME OneHandler, GenInv, ServingInv, NEW p \in Proc, NEW status, Answer(p, status), TimetableOK'
  PROVE  ServingInv'
BY DEF OneHandler, GenInv, ServingInv, HandlerOK, Answer, Goto

LEMMA ServingMove ==
  ASSUME OneHandler, GenInv, ServingInv, NEW p \in Proc, pc[p] \notin {"idle"} \cup GenLabels,
         NEW label, Goto(p, label), label \notin {"block", "load"},
         UNCHANGED <<services, block_configs, request>>,
         DOMAIN block_traversal' = Proc, DOMAIN dep_battery' = Proc,
         label = "load_stops" => req[p].op = "update",
         label \in Updating => req[p].op \in {"create", "update"},
         label \in Updating \ {"lock"} => ~PayloadErrors(req[p].stops)
  PROVE  ServingInv'
<1>1. TimetableOK'
  BY DEF ServingInv, TimetableOK, Live, request
<1> QED BY <1>1 DEF OneHandler, GenInv, ServingInv, HandlerOK, HoldsRow, Updating, Goto, request

LEMMA ServingCommit ==
  ASSUME OneHandler, GenInv, ServingInv, NEW p \in Proc, pc[p] = "commit", Goto(p, "reload"),
         UNCHANGED <<block_configs, request, reads>>,
         NEW s \in ServiceId, s <= begun, NEW row, RowAccepted(row),
         services' = [services EXCEPT ![s] = row]
  PROVE  ServingInv'
<1>1. TimetableOK'
  BY DEF ServingInv, TimetableOK, Live, request
<1>2. pc[p] \notin {"idle"} \cup GenLabels
  BY DEF GenLabels, LoopLabels
<1> QED BY <1>1, <1>2 DEF OneHandler, GenInv, ServingInv, HandlerOK, HoldsRow, Goto, request, reads

LEMMA ServingStep ==
  ASSUME OneHandler, GenInv, ReadsHold, ServingInv, NEW p \in Proc, Begin(p) \/ Step(p)
  PROVE  ServingInv'
<1> USE DEF ServingInv
<1>g. pc[p] \notin GenLabels
  BY HandlersApart
<1>h. pc[p] # "idle" =>
        /\ req[p] \in Requests /\ ticket[p] \in 1 .. begun /\ begun \in 0 .. MaxRequests
        /\ HoldsRow(p) => req[p].op \in {"create", "update"} /\ ~PayloadErrors(req[p].stops)
        /\ pc[p] = "lock" => req[p].op \in {"create", "update"}
        /\ pc[p] = "load" => req[p].op \in {"update", "delete"}
        /\ pc[p] = "load_stops" => req[p].op = "update"
  BY <1>g DEF HandlerOK, TimetableOK
<1>r. ASSUME NEW status, Refuse(p, status)
      PROVE  ServingInv'
  <2>1. TimetableOK'
    BY <1>r DEF Refuse, Answer, tables, TimetableOK, Live
  <2> QED BY <1>r, <2>1, ServingAnswer DEF Refuse
<1>m. ASSUME NEW label, Goto(p, label), pc[p] # "idle",
             label \notin {"block", "load", "load_stops", "lock"},
             UNCHANGED <<services, block_configs, request>>,
             DOMAIN block_traversal' = Proc, DOMAIN dep_battery' = Proc,
             label \in Updating => HoldsRow(p)
      PROVE  ServingInv'
  BY <1>g, <1>h, <1>m, ServingMove
<1>1. CASE Begin(p)
  <2>1. PICK r \in Requests : req' = [req EXCEPT ![p] = r] /\ Goto(p, FirstStatement(r.op))
    BY <1>1 DEF Begin
  <2>2. /\ r.op \in {"create", "update", "delete", "adjust", "remove", "block"}
        /\ FirstStatement(r.op) \notin Updating \ {"lock"}
        /\ FirstStatement(r.op) = "block" => r.op = "block"
        /\ FirstStatement(r.op) = "load" => r.op \in {"update", "delete"}
        /\ FirstStatement(r.op) = "lock" => r.op = "create"
        /\ FirstStatement(r.op) # "load_stops"
    BY RequestTyped DEF FirstStatement, Updating
  <2>3. /\ begun \in 0 .. MaxRequests /\ begun < MaxRequests /\ begun' = begun + 1
        /\ ticket' = [ticket EXCEPT ![p] = begun + 1]
        /\ UNCHANGED <<services, block_configs, block_traversal, dep_battery>>
    BY <1>1 DEF Begin, tables, reads, TimetableOK
  <2>4. TimetableOK'
    BY <2>3, ParametersAssumption DEF TimetableOK, Live, ServiceId
  <2>5. pc'[p] = FirstStatement(r.op) /\ req'[p] = r /\ ticket'[p] \in 1 .. begun'
    BY <2>1, <2>3 DEF Goto, GenInv
  <2>6. HandlerOK(p)'
    BY <2>2, <2>5 DEF HandlerOK, HoldsRow, Updating
  <2> QED BY <2>3, <2>4, <2>6 DEF OneHandler
<1>2. CASE LoadService(p)
  <2> DEFINE label == IF req[p].op = "delete" THEN "delete" ELSE "load_stops"
  <2>1. CASE ~Refuse(p, 404)
    <3>1. /\ Goto(p, label) /\ pc[p] = "load" /\ label \in {"delete", "load_stops"}
          /\ UNCHANGED <<services, block_configs, request, block_traversal, dep_battery>>
      BY <1>2, <2>1 DEF LoadService, tables
    <3>2. label = "load_stops" => req[p].op = "update"
      BY <1>h, <3>1
    <3> HIDE DEF label
    <3> QED BY <1>g, <3>1, <3>2, ServingMove DEF Updating
  <2> QED BY <1>r, <2>1
<1>18. CASE LoadStops(p)
  <2>1. /\ Goto(p, "lock") /\ pc[p] = "load_stops"
        /\ UNCHANGED <<services, block_configs, request, block_traversal, dep_battery>>
    BY <1>18 DEF LoadStops, tables
  <2>2. req[p].op \in {"create", "update"}
    BY <1>h, <2>1
  <2> QED BY <1>g, <2>1, <2>2, ServingMove
<1>3. CASE LockVehicle(p)
  <2>1. CASE \E status : Refuse(p, status)
    BY <1>r, <2>1
  <2>2. CASE ~\E status : Refuse(p, status)
    <3>1. /\ pc[p] = "lock" /\ ~PayloadErrors(req[p].stops) /\ Goto(p, "traversal")
          /\ UNCHANGED <<services, block_configs, request, block_traversal, dep_battery>>
      BY <1>3, <2>2 DEF LockVehicle, tables, reads
    <3> QED BY <1>g, <1>h, <3>1, ServingMove
  <2> QED BY <2>1, <2>2
<1>4. CASE ReadTraversal(p)
  <2> DEFINE label == IF Creating(p) THEN "battery" ELSE IF Rechecked(p) THEN "wipe" ELSE "commit"
  <2>1. /\ Goto(p, label) /\ pc[p] = "traversal" /\ label \in {"battery", "wipe", "commit"}
        /\ UNCHANGED <<services, block_configs, request, dep_battery>>
        /\ DOMAIN block_traversal' = Proc
    BY <1>4 DEF ReadTraversal, tables
  <2> HIDE DEF label
  <2> QED BY <1>m, <2>1 DEF HoldsRow, Updating
<1>5. CASE WipeConsume(p)
  <2> DEFINE label == IF EventsToWipe(p) \cap WipedByOthers(p) = {} THEN "battery" ELSE "wipe_wait"
  <2>1. /\ Goto(p, label) /\ pc[p] = "wipe" /\ label \in {"battery", "wipe_wait"}
        /\ UNCHANGED <<services, block_configs, request, block_traversal, dep_battery>>
    BY <1>5 DEF WipeConsume, tables, reads
  <2> HIDE DEF label
  <2> QED BY <1>m, <2>1 DEF HoldsRow, Updating
<1>6. CASE ResumeWipe(p) \/ ReadBattery(p)
  <2>1. CASE Refuse(p, 500)
    BY <1>r, <2>1
  <2>2. CASE ~Refuse(p, 500)
    <3>1. PICK label \in {"battery", "siblings"} :
            /\ Goto(p, label) /\ pc[p] \in {"wipe_wait", "battery"}
            /\ UNCHANGED <<services, block_configs, request, block_traversal>>
            /\ DOMAIN dep_battery' = Proc
      BY <1>6, <2>2 DEF ResumeWipe, ReadBattery, tables, reads
    <3> QED BY <1>m, <3>1 DEF HoldsRow, Updating
  <2> QED BY <2>1, <2>2
<1>7. CASE CheckSiblings(p)
  <2>1. CASE ~Refuse(p, 409)
    <3>1. /\ Goto(p, "commit") /\ pc[p] = "siblings"
          /\ UNCHANGED <<services, block_configs, request, block_traversal, dep_battery>>
      BY <1>7, <2>1 DEF CheckSiblings, tables, reads
    <3> QED BY <1>m, <3>1 DEF HoldsRow, Updating
  <2> QED BY <1>r, <2>1
<1>8. CASE CommitCreate(p)
  <2> DEFINE row == [vehicle_id |-> req[p].vehicle_id, stops |-> StopRows(ticket[p], req[p].stops),
                     departure_battery |-> dep_battery[p]]
  <2>1. /\ pc[p] = "commit" /\ req[p].op = "create" /\ Goto(p, "reload")
        /\ services' = [services EXCEPT ![ticket[p]] = row]
        /\ UNCHANGED <<block_configs, request, reads>>
    BY <1>8 DEF CommitCreate, Creating
  <2>2. req[p] \in Requests /\ req[p].stops # None /\ ~PayloadErrors(req[p].stops)
    BY <1>h, <2>1, RequestStops DEF HoldsRow
  <2>3. RowAccepted(row)
    BY <2>1, <2>2, StoredPayload DEF IsRecord
  <2>4. ticket[p] \in ServiceId /\ ticket[p] <= begun
    BY <1>h, <2>1, ParametersAssumption DEF ServiceId
  <2> HIDE DEF row
  <2> QED BY <2>1, <2>3, <2>4, ServingCommit
<1>9. CASE CommitUpdate(p)
  <2> DEFINE s == req[p].service_id
             row == UpdatedRow(p)
  <2>1. CASE Refuse(p, 500)
    BY <1>r, <2>1
  <2>2. CASE ~Refuse(p, 500)
    <3>1. /\ pc[p] = "commit" /\ req[p].op = "update" /\ Goto(p, "reload")
          /\ services[s] # None /\ services' = [services EXCEPT ![s] = row]
          /\ UNCHANGED <<block_configs, request, reads>>
      BY <1>9, <2>2 DEF CommitUpdate
    <3>2. /\ req[p] \in Requests /\ ~PayloadErrors(req[p].stops) /\ s \in ServiceId
          /\ services[s] = loaded[p]
      BY <1>h, <3>1, RequestTyped DEF HoldsRow, ReadsHold, Updating
    <3>3. RowsKept(p) = {}
      BY <3>2 DEF RowsKept
    <3>4. /\ IsRecord(row)
          /\ row.stops = IF req[p].stops = None THEN services[s].stops
                         ELSE StopRows(ticket[p], req[p].stops)
      BY <3>3 DEF UpdatedRow, StopsAfterUpdate, IsRecord
    <3>5. RowAccepted(services[s]) /\ s <= begun
      BY <3>1, <3>2 DEF TimetableOK, Live
    <3> HIDE DEF row
    <3>6. RowAccepted(row)
      <4>1. CASE req[p].stops = None
        BY <3>4, <3>5, <4>1 DEF RowAccepted, StopsIn
      <4>2. CASE req[p].stops # None
        BY <3>1, <3>2, <3>4, <4>2, StoredPayload
      <4> QED BY <4>1, <4>2
    <3> QED BY <3>1, <3>2, <3>5, <3>6, ServingCommit
  <2> QED BY <2>1, <2>2
<1>10. CASE ReloadService(p) \/ DeadlockAbort(p)
  BY <1>10, <1>r DEF ReloadService, DeadlockAbort
<1>11. CASE DeleteServiceRow(p)
  <2>1. CASE ~Refuse(p, 204)
    <3>1. /\ Goto(p, "cascade") /\ pc[p] = "delete"
          /\ UNCHANGED <<services, block_configs, request, block_traversal, dep_battery>>
      BY <1>11, <2>1 DEF DeleteServiceRow, tables, reads
    <3> QED BY <1>m, <3>1 DEF Updating
  <2> QED BY <1>r, <2>1
<1>12. CASE CascadeAndCommit(p)
  <2>1. Answer(p, 204) /\ services' = [services EXCEPT ![req[p].service_id] = None]
        /\ UNCHANGED <<block_configs, begun>>
    BY <1>12 DEF CascadeAndCommit, Answer
  <2>2. TimetableOK'
    BY <2>1 DEF TimetableOK, Live
  <2> QED BY <2>1, <2>2, ServingAnswer
<1>13. CASE ReadLevel(p)
  <2>1. CASE ~Refuse(p, 404)
    <3>1. /\ Goto(p, "adjust") /\ pc[p] = "read_level"
          /\ UNCHANGED <<services, block_configs, request, block_traversal>>
          /\ DOMAIN dep_battery' = Proc
      BY <1>13, <2>1 DEF ReadLevel, tables
    <3> QED BY <1>m, <3>1 DEF Updating
  <2> QED BY <1>r, <2>1
<1>14. CASE AdjustLevel(p)
  <2>1. CASE ~Refuse(p, 409)
    <3>1. Answer(p, 200) /\ UNCHANGED <<services, block_configs, begun>>
      BY <1>14, <2>1 DEF AdjustLevel, Answer
    <3>2. TimetableOK'
      BY <3>1 DEF TimetableOK, Live
    <3> QED BY <3>1, <3>2, ServingAnswer
  <2> QED BY <1>r, <2>1
<1>15. CASE CountServices(p)
  <2>1. CASE \E status : Refuse(p, status)
    BY <1>r, <2>1
  <2>2. CASE ~\E status : Refuse(p, status)
    <3>1. /\ pc[p] = "count" /\ Goto(p, "remove")
          /\ UNCHANGED <<services, block_configs, request, block_traversal, dep_battery>>
      BY <1>15, <2>2 DEF CountServices, tables, reads
    <3> QED BY <1>m, <3>1 DEF Updating
  <2> QED BY <2>1, <2>2
<1>16. CASE RemoveVehicle(p)
  <2>1. CASE \E status : Refuse(p, status)
    BY <1>r, <2>1
  <2>2. CASE ~\E status : Refuse(p, status)
    <3>1. Answer(p, 204) /\ UNCHANGED <<services, block_configs, begun>>
      BY <1>16, <2>2 DEF RemoveVehicle, Answer
    <3>2. TimetableOK'
      BY <3>1 DEF TimetableOK, Live
    <3> QED BY <3>1, <3>2, ServingAnswer
  <2> QED BY <2>1, <2>2
<1>17. CASE UpdateBlock(p)
  <2>1. /\ Answer(p, 200) /\ UNCHANGED <<services, begun>> /\ pc[p] = "block"
        /\ block_configs' = [block_configs EXCEPT ![req[p].block] = req[p].seconds]
    BY <1>17 DEF UpdateBlock, Answer
  <2>2. req[p].block \in BLOCKS /\ req[p].seconds \in Nat \ {0}
    BY <1>g, <1>h, <2>1, RequestTyped DEF HandlerOK
  <2>3. TimetableOK'
    BY <2>1, <2>2 DEF TimetableOK, Live
  <2> QED BY <2>1, <2>3, ServingAnswer
<1> QED
  BY <1>1, <1>2, <1>3, <1>4, <1>5, <1>6, <1>7, <1>8, <1>9, <1>10, <1>11, <1>12, <1>13,
     <1>14, <1>15, <1>16, <1>17, <1>18 DEF Step

-----------------------------------------------------------------------------
(***************************************************************************)
(* The trips the generator makes.  They run through an accepted path, so   *)
(* that the rows they are stored as are read back as what was checked.     *)
(***************************************************************************)

LEMMA RoundTripAccepted ==
  /\ DEFAULT_ROUND_TRIP \in Seq(ALL_NODES) /\ Len(DEFAULT_ROUND_TRIP) = 17
  /\ validate_path(DEFAULT_ROUND_TRIP) = {}
<1>1. /\ DEFAULT_ROUND_TRIP \in Seq(ALL_NODES) /\ Len(DEFAULT_ROUND_TRIP) = 17
      /\ DOMAIN DEFAULT_ROUND_TRIP = 1 .. 17
  BY DEF DEFAULT_ROUND_TRIP, ALL_NODES, PLATFORMS, BLOCKS, YARD
<1>2. UnknownNodes(DEFAULT_ROUND_TRIP) = {} /\ BadStart(DEFAULT_ROUND_TRIP) = {}
  BY <1>1 DEF UnknownNodes, BadStart, DEFAULT_ROUND_TRIP, YARD
<1>3. ASSUME NEW i \in 1 .. 16
      PROVE  DEFAULT_ROUND_TRIP[i + 1] \in NextNodes(DEFAULT_ROUND_TRIP[i])
  <2>1. \/ i = 1 \/ i = 2 \/ i = 3 \/ i = 4 \/ i = 5 \/ i = 6 \/ i = 7 \/ i = 8
        \/ i = 9 \/ i = 10 \/ i = 11 \/ i = 12 \/ i = 13 \/ i = 14 \/ i = 15 \/ i = 16
    OBVIOUS
  <2> QED BY <2>1, EdgesOfTrack DEF DEFAULT_ROUND_TRIP
<1>4. BadHops(DEFAULT_ROUND_TRIP) = {}
  BY <1>1, <1>3 DEF BadHops
<1> QED BY <1>1, <1>2, <1>4 DEF validate_path

\* A trip of the schedule p generates, under its key.
MadeTrip(p, trip, key) ==
  \E departure \in Nat :
    trip = [service_id |-> key, vehicle_id |-> trip.vehicle_id,
            stops |-> _compute_stops(DEFAULT_ROUND_TRIP, departure, block_configs, req[p].dwell),
            departure_battery |-> trip.departure_battery]

\* Its rows are accepted ones, and read back as the trip.
LEMMA TripReadsBack ==
  ASSUME RowsAreRows, NEW p, req[p] \in Generations, block_configs \in [BLOCKS -> Nat \ {0}],
         NEW trip, NEW key, MadeTrip(p, trip, key)
  PROVE  /\ trip.service_id = key /\ TripRow(trip) # None
         /\ RowAccepted(TripRow(trip)) /\ EndsOnStop(StopsIn(TripRow(trip)))
         /\ SnapshotOf(key, TripRow(trip), block_configs) = trip
<1>1. PICK departure \in Nat :
        trip = [service_id |-> key, vehicle_id |-> trip.vehicle_id,
                stops |-> _compute_stops(DEFAULT_ROUND_TRIP, departure, block_configs, req[p].dwell),
                departure_battery |-> trip.departure_battery]
  BY DEF MadeTrip
<1>2. PICK path, traversal, dwell :
        /\ path = DEFAULT_ROUND_TRIP /\ traversal = block_configs
        /\ dwell = req[p].dwell /\ dwell \in Nat
  BY GenerationsAssumption
<1>3. PICK stops : stops = _compute_stops(path, departure, traversal, dwell)
  OBVIOUS
<1>4. PICK rows : rows = _stored_rows(stops)
  OBVIOUS
<1>5. /\ Len(path) \in Nat /\ path = [i \in 1 .. Len(path) |-> path[i]] /\ validate_path(path) = {}
      /\ \A i \in DOMAIN path : TraversalSeconds(path[i], traversal) \in Nat
  <2>1. Len(path) = 17 /\ path \in Seq(ALL_NODES) /\ validate_path(path) = {}
    BY <1>2, RoundTripAccepted
  <2>2. path = [i \in 1 .. Len(path) |-> path[i]]
    BY <2>1
  <2>3. \A node : TraversalSeconds(node, traversal) \in Nat
    BY <1>2 DEF TraversalSeconds
  <2> QED BY <2>1, <2>2, <2>3
<1>6. /\ TimesTyped(rows) /\ Accepts(rows) /\ Len(rows) = Len(path)
      /\ RunsThrough(rows, traversal, stops, Len(path))
      /\ \A i \in DOMAIN rows : rows[i].node_id = path[i]
  <2>1. None \notin Nat /\ dwell \in Nat
    BY <1>2, ParametersAssumption
  <2> QED BY <1>3, <1>4, <1>5, <2>1, TripRunsThroughItsRows, SMTT(30)
<1>7. rows = [i \in DOMAIN rows |-> rows[i]] /\ DOMAIN rows = 1 .. Len(path)
  BY <1>4, <1>6 DEF _stored_rows, TimesTyped
<1>8. /\ StopsIn(TripRow(trip)) = rows
      /\ IsRecord(TripRow(trip))
      /\ TripRow(trip).vehicle_id = trip.vehicle_id
      /\ TripRow(trip).departure_battery = trip.departure_battery
  <2>1. TripRow(trip).stops = StopRows(key, rows)
    BY <1>1, <1>2, <1>3, <1>4 DEF TripRow
  <2>2. StopsIn(TripRow(trip)) = rows
    BY <1>7, <2>1 DEF StopsIn, StopRows
  <2> QED BY <2>2 DEF TripRow, IsRecord
<1>9. RowAccepted(TripRow(trip))
  BY <1>6, <1>8 DEF RowAccepted
<1>10. \A i \in DOMAIN rows : TraversalSeconds(rows[i].node_id, traversal) \in Nat
  BY <1>5, <1>6, <1>7
<1>11. RunsThrough(rows, traversal, SnapshotStops(rows, traversal), Len(rows))
  BY <1>6, <1>10, AcceptedRunsThrough, ParametersAssumption
<1>12. SnapshotStops(rows, traversal) = stops
  BY <1>5, <1>6, <1>11, RunsThroughOnce
<1>13. SnapshotOf(key, TripRow(trip), block_configs) = trip
  BY <1>1, <1>2, <1>3, <1>8, <1>12 DEF SnapshotOf
<1>14. TripRow(trip) # None
  BY DEF RowsAreRows, TripRow
\* The way back ends in the yard.
<1>15. EndsOnStop(StopsIn(TripRow(trip)))
  <2>1. Len(path) = 17 /\ path[17] = YARD /\ ~is_block(YARD)
    BY <1>2, RoundTripAccepted DEF DEFAULT_ROUND_TRIP, is_block, BLOCKS, YARD
  <2>2. rows[Len(rows)].node_id = YARD
    BY <1>6, <1>7, <2>1
  <2> QED BY <1>8, <2>1, <2>2 DEF EndsOnStop
<1> QED BY <1>1, <1>9, <1>13, <1>14, <1>15

-----------------------------------------------------------------------------
(***************************************************************************)
(* The invariant.  A trip is checked against the list read at the start    *)
(* and the trips placed since; what is committed is that list, because     *)
(* nobody else writes, the keys are new, and rows read back as trips.      *)
(***************************************************************************)

\* The plan of a schedule and the timetable it was read from, its keys reserved.
PlanFits(p) ==
  /\ {"rows", "existing", "created"} \subseteq DOMAIN plan[p]
  /\ \E V : plan[p].created \in Seq(V)
  /\ Placed(req[p], Len(plan[p].vehicles), plan[p].slot, Len(plan[p].created))

\* The trips placed are the generator's own; with those read they are free of conflicts.
DayPlanned(p) ==
  /\ plan[p].existing = StoredSnapshots
  /\ \A k \in 1 .. Len(plan[p].created) : MadeTrip(p, plan[p].created[k], ticket[p] + k - 1)
  /\ plan[p].created # << >> => Quiet(committed_snapshots(p))

Generating(p) ==
  pc[p] \in GenLabels =>
    /\ reply[p] = 0
    /\ ticket[p] \in Nat \ {0} /\ ticket[p] + KeysFor(req[p]) - 1 <= begun
    /\ \A s \in Live : s < ticket[p]
    /\ pc[p] # "gen_config" => block_traversal[p] = block_configs
    /\ pc[p] \notin {"gen_config", "gen_vehicles"} => PlanFits(p)
    /\ pc[p] \in {"gen_services", "gen_stops"} => plan[p].created = << >>
    /\ pc[p] = "gen_stops" => plan[p].rows = SelectServices
    /\ pc[p] \in LoopLabels => DayPlanned(p)
    /\ pc[p] = "gen_insert" =>
         Quiet(committed_snapshots(p) \cup {CandidateTrip(p, LastInList, dep_battery[p])})

DayInv == AloneInv /\ ServingInv /\ \A p \in Proc : Generating(p)

LEMMA DayStarts == GenInit => DayInv
<1> SUFFICES ASSUME GenInit PROVE DayInv
  OBVIOUS
<1>1. AloneInv
  BY AloneStarts
<1>2. ServingInv
  BY ParametersAssumption DEF GenInit, Init, ServingInv, TimetableOK, HandlerOK, Live
<1>3. \A p \in Proc : Generating(p)
  BY DEF GenInit, Init, Generating, GenLabels, LoopLabels
<1> QED BY <1>1, <1>2, <1>3 DEF DayInv

\* A generator that goes on leaves the tables as they are.
LEMMA GenServing ==
  ASSUME OneHandler, GenInv, ServingInv, NEW p \in Proc, pc'[p] \in GenLabels,
         UNCHANGED <<services, block_configs, begun, ticket>>,
         DOMAIN block_traversal' = Proc, DOMAIN dep_battery' = Proc
  PROVE  ServingInv'
<1>1. TimetableOK'
  BY DEF ServingInv, TimetableOK, Live
<1> QED BY <1>1 DEF OneHandler, ServingInv, HandlerOK

LEMMA SameSnapshots ==
  ASSUME UNCHANGED <<services, block_configs>>
  PROVE  StoredSnapshots' = StoredSnapshots /\ Live' = Live
BY DEF StoredSnapshots, build_snapshots, SnapshotOf, StopsIn, Live

\* The ids of the services in a list that is checked are smaller than the next key.
LEMMA KeysInUse ==
  ASSUME ServingInv, NEW p \in Proc, Generating(p), pc[p] \in LoopLabels,
         NEW s \in committed_snapshots(p)
  PROVE  s.service_id \in Nat /\ s.service_id < NextKey(p)
<1>1. /\ PlanFits(p) /\ DayPlanned(p) /\ ticket[p] \in Nat \ {0}
      /\ \A t \in Live : t \in Nat /\ t < ticket[p]
  BY ParametersAssumption DEF Generating, GenLabels, LoopLabels, Live, ServiceId
<1>2. Len(plan[p].created) \in Nat /\ DOMAIN plan[p].created = 1 .. Len(plan[p].created)
  BY <1>1 DEF PlanFits
<1>3. CASE s \in plan[p].existing
  <2>1. PICK t \in Live : s = SnapshotOf(t, services[t], block_configs)
    BY <1>1, <1>3 DEF DayPlanned, StoredSnapshots, build_snapshots
  <2>2. s.service_id = t
    BY <2>1 DEF SnapshotOf
  <2> QED BY <1>1, <1>2, <2>2 DEF NextKey
<1>4. CASE s \in Range(plan[p].created)
  <2>1. PICK k \in 1 .. Len(plan[p].created) : s = plan[p].created[k]
    BY <1>2, <1>4 DEF Range
  <2>2. s.service_id = ticket[p] + k - 1
    <3>1. MadeTrip(p, s, ticket[p] + k - 1)
      BY <1>1, <2>1 DEF DayPlanned
    <3> QED BY <3>1 DEF MadeTrip
  <2> QED BY <1>1, <1>2, <2>1, <2>2 DEF NextKey
<1> QED BY <1>3, <1>4 DEF committed_snapshots

\* A step of the loop that places no trip.
LEMMA LoopKeepsDay ==
  ASSUME NEW p \in Proc, Generating(p), pc[p] \in LoopLabels, pc'[p] \in LoopLabels,
         UNCHANGED <<services, block_configs, request, reply, block_traversal>>,
         DOMAIN plan'[p] = DOMAIN plan[p], plan'[p].existing = plan[p].existing,
         plan'[p].created = plan[p].created,
         Placed(req[p], Len(plan'[p].vehicles), plan'[p].slot, Len(plan[p].created)),
         pc'[p] = "gen_insert" =>
           Quiet(committed_snapshots(p)' \cup {CandidateTrip(p, LastInList, dep_battery[p])'})
  PROVE  Generating(p)'
<1>1. pc[p] \in GenLabels /\ pc'[p] \in GenLabels /\ UNCHANGED <<req, ticket, begun>>
  BY DEF GenLabels, LoopLabels, request
<1>2. StoredSnapshots' = StoredSnapshots /\ Live' = Live
  BY SameSnapshots
<1>3. committed_snapshots(p)' = committed_snapshots(p)
  BY DEF committed_snapshots
<1>4. PlanFits(p)' /\ DayPlanned(p)'
  BY <1>1, <1>2, <1>3 DEF Generating, PlanFits, DayPlanned, MadeTrip, LoopLabels
<1> QED BY <1>1, <1>2, <1>3, <1>4 DEF Generating, GenLabels, LoopLabels

-----------------------------------------------------------------------------
(* The steps of the generator *)

LEMMA ReadingKeepsDay ==
  ASSUME OneHandler, DayInv, NEW p \in Proc, ReadConfig(p) \/ ReadServices(p) \/ ReadStops(p)
  PROVE  ServingInv' /\ Generating(p)'
<1> USE DEF DayInv, AloneInv, GenLabels, LoopLabels
<1>g. Generating(p) /\ DOMAIN pc = Proc /\ DOMAIN plan = Proc
  BY DEF GenInv
<1>1. CASE ReadConfig(p)
  <2>1. /\ pc[p] = "gen_config" /\ pc'[p] = "gen_vehicles"
        /\ UNCHANGED <<services, block_configs, req, ticket, begun, reply, dep_battery>>
        /\ block_traversal' = [block_traversal EXCEPT ![p] = block_configs]
    BY <1>g, <1>1 DEF ReadConfig, Goto, tables, request
  <2>2. ServingInv'
    BY <2>1, GenServing DEF ServingInv
  <2>3. Live' = Live
    BY <2>1 DEF Live
  <2> QED BY <1>g, <2>1, <2>2, <2>3 DEF Generating, ServingInv
<1>2. CASE ReadServices(p)
  <2>1. /\ pc[p] = "gen_services" /\ pc'[p] = "gen_stops"
        /\ UNCHANGED <<services, block_configs, req, ticket, begun, reply, dep_battery, block_traversal>>
        /\ plan'[p] = [plan[p] EXCEPT !.rows = SelectServices]
    BY <1>g, <1>2 DEF ReadServices, Goto, tables, request, reads
  <2>2. ServingInv'
    BY <2>1, GenServing DEF ServingInv
  <2>3. Live' = Live /\ SelectServices' = SelectServices
    BY <2>1 DEF Live, SelectServices
  <2>4. PlanFits(p) /\ PlanOK(p)
    BY <1>g, <2>1 DEF Generating, GenInv
  <2>5. /\ DOMAIN plan'[p] = DOMAIN plan[p] /\ plan'[p].rows = SelectServices
        /\ plan'[p].created = plan[p].created /\ plan'[p].vehicles = plan[p].vehicles
        /\ plan'[p].slot = plan[p].slot
    BY <2>1, <2>4 DEF PlanFits, PlanOK
  <2>6. PlanFits(p)'
    BY <2>1, <2>4, <2>5 DEF PlanFits
  <2> QED BY <1>g, <2>1, <2>2, <2>3, <2>5, <2>6 DEF Generating
<1>3. CASE ReadStops(p)
  <2> DEFINE read == build_snapshots(SelectStops(plan[p].rows), block_traversal[p])
  <2>1. /\ pc[p] = "gen_stops" /\ pc'[p] = "gen_slot"
        /\ UNCHANGED <<services, block_configs, req, ticket, begun, reply, dep_battery, block_traversal>>
        /\ plan'[p] = [plan[p] EXCEPT !.rows = None, !.existing = read]
    BY <1>g, <1>3 DEF ReadStops, Goto, tables, request, reads
  <2>2. ServingInv'
    BY <2>1, GenServing DEF ServingInv
  <2>3. /\ PlanFits(p) /\ PlanOK(p) /\ plan[p].rows = SelectServices
        /\ plan[p].created = << >> /\ block_traversal[p] = block_configs
    BY <1>g, <2>1 DEF Generating, GenInv
  <2>4. read = StoredSnapshots
    <3> DEFINE rows == SelectStops(SelectServices)
    <3>1. DOMAIN rows = Live
      BY DEF SelectStops, SelectServices
    <3>2. ASSUME NEW s \in Live
          PROVE  SnapshotOf(s, rows[s], block_configs) = SnapshotOf(s, services[s], block_configs)
      <4>1. services[s] # None /\ DOMAIN services[s] = {"vehicle_id", "stops", "departure_battery"}
        BY DEF Live, ServingInv, TimetableOK, RowAccepted, IsRecord
      <4>2. rows[s] = [[services[s] EXCEPT !.stops = << >>] EXCEPT !.stops = services[s].stops]
        BY <4>1 DEF SelectStops, StoredStops, SelectServices
      <4>3. /\ rows[s].vehicle_id = services[s].vehicle_id /\ rows[s].stops = services[s].stops
            /\ rows[s].departure_battery = services[s].departure_battery
        BY <4>1, <4>2
      <4> HIDE DEF rows
      <4> QED BY <4>3 DEF SnapshotOf, StopsIn
    <3>3. ASSUME NEW s \in Live PROVE [t \in Live |-> services[t]][s] = services[s]
      OBVIOUS
    <3> HIDE DEF rows
    <3>4. build_snapshots(rows, block_configs) = StoredSnapshots
      BY <3>1, <3>2, <3>3 DEF build_snapshots, StoredSnapshots
    <3> QED BY <2>3, <3>4 DEF rows
  <2> HIDE DEF read
  <2>5. /\ DOMAIN plan'[p] = DOMAIN plan[p] /\ plan'[p].existing = read
        /\ plan'[p].created = << >> /\ plan'[p].vehicles = plan[p].vehicles
        /\ plan'[p].slot = plan[p].slot
    BY <2>1, <2>3 DEF PlanFits, PlanOK
  <2>6. StoredSnapshots' = StoredSnapshots /\ Live' = Live
    BY <2>1, SameSnapshots
  <2>7. PlanFits(p)'
    BY <2>1, <2>3, <2>5 DEF PlanFits
  <2>8. DayPlanned(p)'
    BY <2>4, <2>5, <2>6 DEF DayPlanned
  <2> QED BY <1>g, <2>1, <2>2, <2>3, <2>6, <2>7, <2>8 DEF Generating
<1> QED BY <1>1, <1>2, <1>3

LEMMA PlanningKeepsDay ==
  ASSUME OneHandler, DayInv, NEW p \in Proc, ReadVehicles(p), ~GenRefuse(p, 404)
  PROVE  ServingInv' /\ Generating(p)'
<1> USE DEF DayInv, AloneInv, GenLabels, LoopLabels
<1>g. Generating(p) /\ DOMAIN pc = Proc /\ DOMAIN plan = Proc
  BY DEF GenInv
<1>1. PICK order \in SetToSeqs(req[p].vehicle_ids) :
        plan' = [plan EXCEPT ![p] =
           [vehicles |-> order, slot |-> FirstSlot(req[p], 0), last_yard_idle_since |-> None,
            battery_at_idle_start |-> None, rows |-> None, existing |-> {},
            created |-> << >>, events |-> {}]]
  BY DEF ReadVehicles
<1>2. /\ pc[p] = "gen_vehicles" /\ pc'[p] = "gen_services" /\ req[p] \in Generations
      /\ UNCHANGED <<services, block_configs, req, ticket, begun, reply, dep_battery, block_traversal>>
  BY <1>g DEF ReadVehicles, Goto, tables, request, reads, GenInv
<1>3. ServingInv'
  BY <1>2, GenServing DEF ServingInv
<1>4. Len(order) = Cardinality(req[p].vehicle_ids)
  <2>1. Cardinality(req[p].vehicle_ids) \in Nat
    BY <1>2, RequestSizes
  <2> QED BY <2>1 DEF SetToSeqs
<1>5. /\ plan'[p].vehicles = order /\ plan'[p].slot = FirstSlot(req[p], 0)
      /\ plan'[p].created = << >> /\ {"rows", "existing", "created"} \subseteq DOMAIN plan'[p]
  BY <1>g, <1>1
<1>6. Placed(req[p], Len(order), FirstSlot(req[p], 0), 0)
  BY <1>2, <1>4, FirstPlaced
<1>7. PlanFits(p)'
  <2>1. << >> \in Seq({}) /\ Len(<< >>) = 0
    OBVIOUS
  <2> QED BY <1>2, <1>5, <1>6, <2>1 DEF PlanFits
<1>8. Live' = Live
  BY <1>2 DEF Live
<1> QED BY <1>g, <1>2, <1>3, <1>5, <1>7, <1>8 DEF Generating

LEMMA LoopKeeps ==
  ASSUME OneHandler, DayInv, NEW p \in Proc, NextVehicle(p) \/ ReadIdleBattery(p) \/ CheckSlot(p)
  PROVE  ServingInv' /\ Generating(p)'
<1> USE DEF DayInv, AloneInv
<1>1. /\ pc[p] \in LoopLabels /\ pc'[p] \in LoopLabels
      /\ UNCHANGED <<services, block_configs, request, reply, block_traversal>>
      /\ DOMAIN dep_battery' = Proc
  BY DEF NextVehicle, ReadIdleBattery, CheckSlot, Goto, LoopLabels, GenInv, ServingInv,
         vars, tables, reads
<1>2. Generating(p) /\ pc[p] \in GenLabels /\ pc'[p] \in GenLabels
  BY <1>1 DEF GenLabels
<1>3. ServingInv'
  BY <1>1, <1>2, GenServing DEF request, ServingInv
<1>4. PlanOK(p) /\ PlanFits(p) /\ req[p] \in Generations /\ DOMAIN plan = Proc
  BY <1>1, <1>2 DEF Generating, GenInv, LoopLabels
<1>5. /\ Len(plan[p].vehicles) \in 0 .. Cardinality(req[p].vehicle_ids)
      /\ plan[p].vehicles # << >> => Len(plan[p].vehicles) # 0
  BY <1>4, RequestSizes DEF PlanOK
<1>6. CASE NextVehicle(p)
  <2> DEFINE rest == Tail(plan[p].vehicles)
             first == FirstSlot(req[p], Cardinality(req[p].vehicle_ids) - Len(rest))
  <2>1. /\ plan[p].vehicles # << >> /\ pc'[p] = "gen_slot"
        /\ plan' = [plan EXCEPT ![p] = [plan[p] EXCEPT !.vehicles = rest,
                       !.last_yard_idle_since = None, !.slot = first]]
    BY <1>6 DEF NextVehicle, vars
  <2>2. Len(rest) = Len(plan[p].vehicles) - 1
    BY <1>4, <2>1 DEF PlanOK
  <2>3. Placed(req[p], Len(rest), first, Len(plan[p].created))
    <3>1. PICK r, n, slot, m :
            /\ r = req[p] /\ n = Len(plan[p].vehicles) /\ slot = plan[p].slot
            /\ m = Len(plan[p].created)
      OBVIOUS
    <3>2. r \in Generations /\ n \in 1 .. Cardinality(r.vehicle_ids) /\ Placed(r, n, slot, m)
      BY <1>4, <1>5, <2>1, <3>1, RequestSizes DEF PlanFits
    <3>3. Placed(r, n - 1, FirstSlot(r, Cardinality(r.vehicle_ids) - (n - 1)), m)
      BY <3>2, NextVehiclePlaced
    <3> QED BY <2>2, <3>1, <3>3
  <2> HIDE DEF rest, first
  <2>4. plan'[p] = [plan[p] EXCEPT !.vehicles = rest, !.last_yard_idle_since = None, !.slot = first]
    BY <1>4, <2>1
  <2>5. /\ DOMAIN plan'[p] = DOMAIN plan[p] /\ plan'[p].existing = plan[p].existing
        /\ plan'[p].created = plan[p].created
        /\ plan'[p].vehicles = rest /\ plan'[p].slot = first
    BY <1>4, <2>4 DEF PlanOK, PlanFits
  <2> QED BY <1>1, <1>2, <1>3, <2>1, <2>3, <2>5, LoopKeepsDay
<1>7. CASE ReadIdleBattery(p)
  <2>1. PICK level : /\ pc'[p] = "gen_battery"
                     /\ plan' = [plan EXCEPT ![p] = [plan[p] EXCEPT !.battery_at_idle_start = level]]
    BY <1>7 DEF ReadIdleBattery, Goto, GenInv
  <2>2. plan'[p] = [plan[p] EXCEPT !.battery_at_idle_start = level]
    BY <1>4, <2>1
  <2>3. /\ DOMAIN plan'[p] = DOMAIN plan[p] /\ plan'[p].existing = plan[p].existing
        /\ plan'[p].created = plan[p].created
        /\ plan'[p].vehicles = plan[p].vehicles /\ plan'[p].slot = plan[p].slot
    BY <1>4, <2>2 DEF PlanOK, PlanFits
  <2> QED BY <1>1, <1>2, <1>3, <1>4, <2>1, <2>3, LoopKeepsDay DEF PlanFits
<1>8. CASE CheckSlot(p)
  <2>1. PICK battery :
          IF Rejected(p, battery)
            THEN plan' = [plan EXCEPT ![p] = AfterRejection(p)] /\ Goto(p, "gen_slot")
            ELSE /\ dep_battery' = [dep_battery EXCEPT ![p] = battery]
                 /\ Goto(p, "gen_insert") /\ UNCHANGED plan
    BY <1>8, Zenon DEF CheckSlot
  <2>2. CASE Rejected(p, battery)
    <3>1. plan'[p] = [plan[p] EXCEPT !.slot = plan[p].slot + req[p].interval] /\ pc'[p] = "gen_slot"
      BY <1>4, <2>1, <2>2 DEF AfterRejection, Goto, GenInv
    <3>2. /\ DOMAIN plan'[p] = DOMAIN plan[p] /\ plan'[p].existing = plan[p].existing
          /\ plan'[p].created = plan[p].created
          /\ plan'[p].vehicles = plan[p].vehicles /\ plan'[p].slot = plan[p].slot + req[p].interval
      BY <1>4, <3>1 DEF PlanOK, PlanFits
    <3>3. Placed(req[p], Len(plan[p].vehicles), plan[p].slot + req[p].interval, Len(plan[p].created))
      BY <1>4, <1>5, LaterPlaced DEF PlanFits
    <3> QED BY <1>1, <1>2, <1>3, <3>1, <3>2, <3>3, LoopKeepsDay
  <2>3. CASE ~Rejected(p, battery)
    <3>1. /\ dep_battery' = [dep_battery EXCEPT ![p] = battery] /\ plan' = plan
          /\ pc'[p] = "gen_insert"
      BY <2>1, <2>3 DEF Goto, GenInv
    <3>2. Quiet(committed_snapshots(p) \cup {CandidateTrip(p, LastInList, battery)})
      BY <2>3 DEF Rejected, Quiet
    <3>3. /\ committed_snapshots(p)' = committed_snapshots(p)
          /\ CandidateTrip(p, LastInList, dep_battery[p])' = CandidateTrip(p, LastInList, battery)
      BY <1>1, <3>1
         DEF ServingInv, committed_snapshots, CandidateTrip, Current, Tuples, LastInList, request
    <3> QED BY <1>1, <1>2, <1>3, <1>4, <3>1, <3>2, <3>3, LoopKeepsDay DEF PlanFits
  <2> QED BY <2>2, <2>3
<1> QED BY <1>6, <1>7, <1>8

\* A trip is placed: what was checked under the last key holds under its own.
LEMMA InsertKeeps ==
  ASSUME OneHandler, DayInv, NEW p \in Proc, InsertTrip(p), ~GenRefuse(p, 500)
  PROVE  ServingInv' /\ Generating(p)'
<1> USE DEF DayInv, AloneInv
<1> DEFINE trip == CandidateTrip(p, NextKey(p), dep_battery[p])
           last == CandidateTrip(p, LastInList, dep_battery[p])
           created == Append(plan[p].created, trip)
           evts == plan[p].events \cup TripEvents(p)
           since == IF DEFAULT_ROUND_TRIP[Len(DEFAULT_ROUND_TRIP)] = YARD THEN TripEnd(p) ELSE None
           S == committed_snapshots(p)
<1>1. /\ pc[p] = "gen_insert" /\ pc'[p] = "gen_slot"
      /\ UNCHANGED <<services, block_configs, request, reply, block_traversal>>
      /\ DOMAIN dep_battery' = Proc
      /\ plan' = [plan EXCEPT ![p] = [plan[p] EXCEPT !.created = created, !.events = evts,
                    !.last_yard_idle_since = since, !.slot = plan[p].slot + req[p].interval]]
  BY DEF InsertTrip, Goto, GenInv, ServingInv, tables
<1>2. Generating(p) /\ pc[p] \in LoopLabels /\ pc[p] \in GenLabels /\ pc'[p] \in GenLabels
  BY <1>1 DEF GenLabels, LoopLabels
<1>3. ServingInv'
  BY <1>1, <1>2, GenServing DEF request, ServingInv
<1>4. /\ PlanOK(p) /\ PlanFits(p) /\ DayPlanned(p) /\ req[p] \in Generations /\ DOMAIN plan = Proc
      /\ plan[p].slot \in Nat /\ plan[p].slot < req[p].end_time
      /\ block_traversal[p] = block_configs /\ Quiet(S \cup {last})
      /\ ticket[p] \in Nat \ {0} /\ ticket[p] + KeysFor(req[p]) - 1 <= begun
      /\ begun \in 0 .. MaxRequests
  BY <1>1, <1>2 DEF Generating, GenInv, LoopLabels, PlanOK, ServingInv, TimetableOK
<1>5. PICK m : m = Len(plan[p].created)
  OBVIOUS
<1>6. /\ Placed(req[p], Len(plan[p].vehicles), plan[p].slot + req[p].interval, m + 1)
      /\ m \in Nat /\ m + 1 <= KeysFor(req[p])
  <2>1. PICK r, n, slot : r = req[p] /\ n = Len(plan[p].vehicles) /\ slot = plan[p].slot
    OBVIOUS
  <2>2. /\ r \in Generations /\ n \in 1 .. Cardinality(r.vehicle_ids) /\ slot \in Nat
        /\ slot < r.end_time /\ Placed(r, n, slot, m)
    <3>1. plan[p].vehicles \in Seq(vehicles) /\ plan[p].vehicles # << >>
      BY <1>1 DEF VehiclesRead, LoopLabels
    <3>2. n \in Nat \ {0}
      BY <2>1, <3>1
    <3> QED BY <1>4, <1>5, <2>1, <3>2, RequestSizes DEF PlanOK, PlanFits
  <2> QED BY <2>1, <2>2, TripPlaced
<1>7. KeysFor(req[p]) \in Nat
  BY <1>4, TriesFinite
<1>8. NextKey(p) = ticket[p] + m /\ NextKey(p) \in Nat /\ NextKey(p) < LastInList
  BY <1>4, <1>5, <1>6, <1>7, ParametersAssumption DEF NextKey, LastInList
<1>9. Renames(S, trip, last)
  <2>1. LastInList \in Nat
    BY ParametersAssumption DEF LastInList
  <2>2. \A s \in S : s.service_id \in Nat /\ s.service_id < NextKey(p) /\ s.service_id < LastInList
    BY <1>2, <1>8, <2>1, KeysInUse
  <2> QED BY <1>8, <2>1, <2>2 DEF Renames, CandidateTrip
<1>10. Quiet(S \cup {trip})
  <2> HIDE DEF trip, last, S
  <2> QED BY <1>4, <1>9, QuietRenamed
<1>11. MadeTrip(p, trip, ticket[p] + m)
  BY <1>4, <1>8 DEF MadeTrip, CandidateTrip, Tuples
<1> HIDE DEF trip, last, evts, since
<1>12. plan'[p] = [plan[p] EXCEPT !.created = created, !.events = evts,
                     !.last_yard_idle_since = since, !.slot = plan[p].slot + req[p].interval]
  BY <1>1, <1>4
<1>13. /\ Len(created) = m + 1 /\ created # << >> /\ \E V : created \in Seq(V)
       /\ \A k \in 1 .. m : created[k] = plan[p].created[k]
       /\ created[m + 1] = trip
       /\ Range(created) = Range(plan[p].created) \cup {trip}
  <2>1. PICK V : plan[p].created \in Seq(V)
    BY <1>4 DEF PlanFits
  <2>2. plan[p].created \in Seq(V \cup {trip}) /\ created \in Seq(V \cup {trip})
    BY <2>1
  <2>3. /\ Len(created) = m + 1 /\ DOMAIN created = 1 .. (m + 1) /\ DOMAIN plan[p].created = 1 .. m
        /\ \A k \in 1 .. m : created[k] = plan[p].created[k]
        /\ created[m + 1] = trip
    BY <1>5, <2>2
  <2> HIDE DEF created
  <2>4. Range(created) = Range(plan[p].created) \cup {trip}
    BY <1>6, <2>3 DEF Range
  <2>5. created # << >>
    BY <1>6, <2>3
  <2> QED BY <2>2, <2>3, <2>4, <2>5
<1> HIDE DEF created
<1>14. /\ DOMAIN plan'[p] = DOMAIN plan[p] /\ plan'[p].existing = plan[p].existing
       /\ plan'[p].created = created /\ plan'[p].vehicles = plan[p].vehicles
       /\ plan'[p].slot = plan[p].slot + req[p].interval
  BY <1>4, <1>12 DEF PlanOK, PlanFits
<1>15. StoredSnapshots' = StoredSnapshots /\ Live' = Live
  BY <1>1, SameSnapshots
<1>16. committed_snapshots(p)' = S \cup {trip}
  BY <1>13, <1>14 DEF committed_snapshots
<1>17. \A k \in 1 .. Len(created) : MadeTrip(p, created[k], ticket[p] + k - 1)
  <2>1. ASSUME NEW k \in 1 .. m PROVE MadeTrip(p, created[k], ticket[p] + k - 1)
    BY <1>4, <1>5, <1>13, <2>1 DEF DayPlanned
  <2>2. MadeTrip(p, created[m + 1], ticket[p] + (m + 1) - 1)
    <3>1. ticket[p] + (m + 1) - 1 = ticket[p] + m
      BY <1>4, <1>6
    <3> QED BY <1>11, <1>13, <3>1
  <2> QED BY <1>6, <1>13, <2>1, <2>2
<1>18. PlanFits(p)'
  BY <1>1, <1>4, <1>6, <1>13, <1>14 DEF PlanFits, request
<1>19. DayPlanned(p)'
  <2>1. PICK trips : trips = created
    OBVIOUS
  <2>2. \A k \in 1 .. Len(trips) : MadeTrip(p, trips[k], ticket[p] + k - 1)'
    BY <1>1, <1>17, <2>1 DEF MadeTrip, request
  <2>3. plan'[p].created = trips /\ plan'[p].existing = StoredSnapshots'
    BY <1>4, <1>14, <1>15, <2>1 DEF DayPlanned
  <2>4. Quiet(committed_snapshots(p))'
    <3>1. PICK T : T = S \cup {trip}
      OBVIOUS
    <3>2. Quiet(T) /\ committed_snapshots(p)' = T
      BY <1>10, <1>16, <3>1
    <3> QED BY <3>2 DEF Quiet
  <2> QED BY <2>2, <2>3, <2>4 DEF DayPlanned
<1> QED BY <1>1, <1>2, <1>3, <1>4, <1>15, <1>18, <1>19 DEF Generating, GenLabels, LoopLabels, request

\* The trips placed are no more than the keys reserved.
LEMMA KeysSuffice ==
  ASSUME NEW r \in Generations, NEW n, NEW slot, NEW m, Placed(r, n, slot, m)
  PROVE  m \in Nat /\ m <= KeysFor(r)
<1>1. PICK T \in SUBSET Tries(r) : Cardinality(T) = m
  BY DEF Placed
<1>2. IsFiniteSet(T) /\ Cardinality(T) <= Cardinality(Tries(r))
  BY TriesFinite, FS_Subset
<1> QED BY <1>1, <1>2, TriesFinite, FS_CardinalityType

\* What a schedule stores: the timetable that was checked.
LEMMA FinishStores ==
  ASSUME OneHandler, RowsAreRows, DayInv, NEW p \in Proc, FinishGenerate(p), ~GenRefuse(p, 422)
  PROVE  /\ ServingInv' /\ Generating(p)'
         /\ StoredSnapshots' = committed_snapshots(p)
         /\ DayPlanned(p)
<1> USE DEF DayInv, AloneInv
<1>1. /\ pc[p] = "gen_slot" /\ Answer(p, 201) /\ UNCHANGED block_configs
      /\ services' = [s \in ServiceId |->
           IF \E t \in Range(plan[p].created) : t.service_id = s
             THEN TripRow(plan[p].created[s - ticket[p] + 1]) ELSE services[s]]
  BY DEF FinishGenerate
<1>2. Generating(p) /\ pc[p] \in LoopLabels /\ pc[p] \in GenLabels
  BY <1>1 DEF GenLabels, LoopLabels
<1>3. /\ PlanFits(p) /\ DayPlanned(p) /\ req[p] \in Generations
      /\ ticket[p] \in Nat \ {0} /\ ticket[p] + KeysFor(req[p]) - 1 <= begun
      /\ begun \in 0 .. MaxRequests /\ block_configs \in [BLOCKS -> Nat \ {0}]
      /\ \A s \in Live : s < ticket[p]
  BY <1>1, <1>2 DEF Generating, GenInv, LoopLabels, ServingInv, TimetableOK
<1>4. PICK created, m, first : /\ created = plan[p].created /\ m = Len(created) /\ first = ticket[p]
  OBVIOUS
<1>5. /\ m \in Nat /\ m <= KeysFor(req[p]) /\ KeysFor(req[p]) \in Nat
      /\ DOMAIN created = 1 .. m /\ first \in Nat \ {0}
  BY <1>3, <1>4, KeysSuffice, TriesFinite DEF PlanFits
<1>6. \A k \in 1 .. m : first + k - 1 \in ServiceId /\ first + k - 1 <= begun
  <2>1. PICK keys : keys = KeysFor(req[p])
    OBVIOUS
  <2>2. /\ first \in Nat \ {0} /\ m \in Nat /\ keys \in Nat /\ m <= keys
        /\ begun \in Nat /\ begun <= MaxRequests /\ MaxRequests \in Nat
        /\ first + keys - 1 <= begun
    BY <1>3, <1>4, <1>5, <2>1, ParametersAssumption
  <2>3. \A k \in 1 .. m : first + k - 1 \in 1 .. MaxRequests /\ first + k - 1 <= begun
    BY <2>2
  <2> QED BY <2>3 DEF ServiceId
<1>7. ASSUME NEW k \in 1 .. m
      PROVE  /\ created[k].service_id = first + k - 1
             /\ TripRow(created[k]) # None /\ RowAccepted(TripRow(created[k]))
             /\ SnapshotOf(first + k - 1, TripRow(created[k]), block_configs) = created[k]
  <2>1. PICK trip, key : trip = created[k] /\ key = first + k - 1
    OBVIOUS
  <2>2. MadeTrip(p, trip, key)
    BY <1>3, <1>4, <2>1 DEF DayPlanned
  <2> QED BY <1>3, <2>1, <2>2, TripReadsBack
<1>8. ASSUME NEW k \in 1 .. m
      PROVE  services'[first + k - 1] = TripRow(created[k])
  <2>1. PICK key : key = first + k - 1
    OBVIOUS
  <2>2. key \in ServiceId /\ created[k].service_id = key
    BY <1>6, <1>7, <2>1
  <2>3. key - first + 1 = k
    BY <1>5, <2>1
  <2>4. created[k] \in Range(created)
    BY <1>5 DEF Range
  <2> QED BY <1>1, <1>4, <2>1, <2>2, <2>3, <2>4
<1>9. ASSUME NEW s \in ServiceId, \A k \in 1 .. m : s # first + k - 1
      PROVE  services'[s] = services[s]
  <2>1. ~\E t \in Range(created) : t.service_id = s
    BY <1>5, <1>7, <1>9 DEF Range
  <2> QED BY <1>1, <1>4, <2>1
<1>10. Live' = Live \cup {first + k - 1 : k \in 1 .. m}
  <2>1. ASSUME NEW s \in ServiceId
        PROVE  s \in Live' <=> s \in Live \cup {first + k - 1 : k \in 1 .. m}
    <3>1. CASE \E k \in 1 .. m : s = first + k - 1
      BY <1>7, <1>8, <3>1 DEF Live
    <3>2. CASE \A k \in 1 .. m : s # first + k - 1
      BY <1>9, <3>2 DEF Live
    <3> QED BY <3>1, <3>2
  <2>2. Live' \subseteq ServiceId /\ Live \subseteq ServiceId
    BY DEF Live
  <2> QED BY <1>6, <2>1, <2>2
<1>11. ASSUME NEW s \in Live PROVE services'[s] = services[s]
  <2>1. s \in ServiceId /\ s \in Nat /\ s < first
    BY <1>3, <1>4, ParametersAssumption DEF Live, ServiceId
  <2>2. \A k \in 1 .. m : s # first + k - 1
    BY <1>5, <2>1
  <2> QED BY <1>9, <2>1, <2>2
<1>12. TimetableOK'
  <2>1. DOMAIN services' = ServiceId
    BY <1>1
  <2>2. begun' = begun
    BY <1>1 DEF Answer
  <2>3. \A s \in Live' : s <= begun /\ RowAccepted(services'[s])
    BY <1>6, <1>7, <1>8, <1>10, <1>11 DEF ServingInv, TimetableOK
  <2> QED BY <1>1, <1>3, <2>1, <2>2, <2>3 DEF TimetableOK
<1>13. ServingInv' /\ Generating(p)'
  <2>1. ServingInv'
    BY <1>1, <1>12, ServingAnswer
  <2>2. pc'[p] = "idle"
    BY <1>1 DEF Answer, Goto, GenInv
  <2> QED BY <2>1, <2>2 DEF Generating, GenLabels, LoopLabels
<1>14. StoredSnapshots' = committed_snapshots(p)
  <2>1. StoredSnapshots' = {SnapshotOf(s, services'[s], block_configs) : s \in Live'}
    BY <1>1 DEF StoredSnapshots, build_snapshots
  <2>2. StoredSnapshots = {SnapshotOf(s, services[s], block_configs) : s \in Live}
    BY DEF StoredSnapshots, build_snapshots
  <2>3. Range(created) = {created[k] : k \in 1 .. m}
    BY <1>5 DEF Range
  <2>4. committed_snapshots(p) = StoredSnapshots \cup {created[k] : k \in 1 .. m}
    BY <1>3, <1>4, <2>3 DEF committed_snapshots, DayPlanned
  <2>5. \A s \in Live : SnapshotOf(s, services'[s], block_configs) = SnapshotOf(s, services[s], block_configs)
    BY <1>11
  <2>6. \A k \in 1 .. m : SnapshotOf(first + k - 1, services'[first + k - 1], block_configs) = created[k]
    BY <1>7, <1>8
  <2> QED BY <1>10, <2>1, <2>2, <2>4, <2>5, <2>6
<1> QED BY <1>3, <1>13, <1>14

\* An answer that commits nothing.
LEMMA RefusalKeepsDay ==
  ASSUME OneHandler, DayInv, NEW p \in Proc, NEW status, GenRefuse(p, status)
  PROVE  ServingInv' /\ Generating(p)'
<1> USE DEF DayInv, AloneInv
<1>1. Answer(p, status) /\ UNCHANGED tables
  BY Zenon DEF GenRefuse, Refuse
<1>2. TimetableOK'
  BY <1>1 DEF Answer, tables, ServingInv, TimetableOK, Live
<1>3. ServingInv'
  BY <1>1, <1>2, ServingAnswer
<1>4. pc'[p] = "idle"
  BY <1>1 DEF Answer, Goto, GenInv
<1> QED BY <1>3, <1>4 DEF Generating, GenLabels, LoopLabels

LEMMA BeginKeepsDay ==
  ASSUME OneHandler, DayInv, NEW p \in Proc, BeginGenerate(p), DOMAIN reply = Proc
  PROVE  ServingInv' /\ Generating(p)'
<1> USE DEF DayInv, AloneInv
<1>1. PICK r \in Generations :
        /\ begun + KeysFor(r) <= MaxRequests
        /\ req' = [req EXCEPT ![p] = r] /\ begun' = begun + KeysFor(r)
  BY DEF BeginGenerate
<1>2. /\ pc' = [pc EXCEPT ![p] = "gen_config"] /\ ticket' = [ticket EXCEPT ![p] = begun + 1]
      /\ reply' = [reply EXCEPT ![p] = 0]
      /\ UNCHANGED <<services, block_configs, block_traversal, dep_battery>>
  BY DEF BeginGenerate, Goto, tables, reads
<1>3. /\ begun \in Nat /\ MaxRequests \in Nat /\ KeysFor(r) \in Nat
      /\ pc'[p] = "gen_config" /\ req'[p] = r /\ ticket'[p] = begun + 1 /\ reply'[p] = 0
  BY <1>1, <1>2, TriesFinite, ParametersAssumption DEF ServingInv, TimetableOK, GenInv
<1>4. Live' = Live /\ \A s \in Live : s \in Nat /\ s <= begun
  BY <1>2, ParametersAssumption DEF Live, ServiceId, ServingInv, TimetableOK
<1>5. TimetableOK'
  BY <1>1, <1>2, <1>3, <1>4 DEF ServingInv, TimetableOK
<1>6. ServingInv'
  BY <1>2, <1>3, <1>5 DEF OneHandler, ServingInv, HandlerOK, GenLabels
<1>7. Generating(p)'
  <2>1. ticket'[p] + KeysFor(req'[p]) - 1 <= begun'
    BY <1>1, <1>3
  <2>2. \A s \in Live' : s < ticket'[p]
    BY <1>3, <1>4
  <2> QED BY <1>3, <2>1, <2>2 DEF Generating, GenLabels, LoopLabels
<1> QED BY <1>6, <1>7

LEMMA GenStepKeepsDay ==
  ASSUME OneHandler, RowsAreRows, DayInv, NEW p \in Proc, GenStep(p)
  PROVE  ServingInv' /\ Generating(p)'
<1>1. CASE \E status : GenRefuse(p, status)
  BY <1>1, RefusalKeepsDay
<1>2. CASE ~\E status : GenRefuse(p, status)
  BY <1>2, ReadingKeepsDay, PlanningKeepsDay, LoopKeeps, InsertKeeps, FinishStores DEF GenStep
<1> QED BY <1>1, <1>2

\* A service does not charge.
LEMMA ConsumesOnly ==
  ASSUME NEW tuples, Len(tuples) \in Nat, DOMAIN tuples = 1 .. Len(tuples)
  PROVE  service_consume_delta(tuples) \in Int /\ service_consume_delta(tuples) <= 0
<1> DEFINE blocks == {i \in DOMAIN tuples : is_block(tuples[i].node_id)}
<1>1. IsFiniteSet(blocks)
  <2>1. IsFiniteSet(DOMAIN tuples)
    BY FS_Interval
  <2> QED BY <2>1, FS_Subset
<1>2. Cardinality(blocks) \in Nat
  BY <1>1, FS_CardinalityType
<1>3. service_consume_delta(tuples) = -(BATTERY_COST_PER_BLOCK * Cardinality(blocks))
  BY DEF service_consume_delta
<1> HIDE DEF blocks
<1>4. BATTERY_COST_PER_BLOCK = 1200
  BY DEF BATTERY_COST_PER_BLOCK, PERCENT
<1> QED BY <1>2, <1>3, <1>4

\* The stops a handler times, and the row it writes them to.
LEMMA CheckedStops ==
  ASSUME DayInv, NEW p \in Proc, HoldsRow(p), block_traversal[p] = block_configs
  PROVE  LET stops == StopsForCheck(p)
         IN  /\ TimesTyped(stops) /\ Accepts(stops)
             /\ StopTuples(p) = SnapshotStops(stops, block_configs) /\ StopTuples(p) # << >>
             /\ service_consume_delta(StopTuples(p)) \in Int
             /\ service_consume_delta(StopTuples(p)) <= 0
             /\ _service_start(StopTuples(p)) \in Nat /\ _service_end(StopTuples(p)) \in Nat
<1> USE DEF DayInv, AloneInv
<1>1. /\ req[p] \in Requests /\ req[p].op \in {"create", "update"} /\ ~PayloadErrors(req[p].stops)
      /\ block_configs \in [BLOCKS -> Nat \ {0}]
  <2>1. HandlerOK(p)
    BY DEF ServingInv
  <2>2. pc[p] \notin {"idle"} \cup GenLabels
    BY DEF HoldsRow, GenLabels, LoopLabels
  <2> QED BY <2>1, <2>2 DEF HandlerOK, ServingInv, TimetableOK
<1>2. PICK stops, tuples, traversal :
        stops = StopsForCheck(p) /\ tuples = StopTuples(p) /\ traversal = block_configs
  OBVIOUS
<1>3. TimesTyped(stops) /\ Accepts(stops)
  <2>1. CASE req[p].stops # None
    <3>1. SchemaAccepts(stops) /\ stops = req[p].stops
      BY <1>1, <1>2, <2>1, RequestStops DEF StopsForCheck
    <3>2. Accepts(stops)
      BY <1>1, <2>1, <3>1 DEF PayloadErrors, Accepts
    <3> QED BY <3>1, <3>2, SchemaTyped
  <2>2. CASE req[p].stops = None
    <3>1. req[p].op = "update" /\ req[p].service_id \in ServiceId
      BY <1>1, <2>2, RequestStops, RequestTyped
    <3>2. loaded[p] # None /\ services[req[p].service_id] = loaded[p]
      BY <3>1 DEF ReadsHold, Updating, HoldsRow
    <3>3. RowAccepted(loaded[p])
      BY <3>1, <3>2 DEF ServingInv, TimetableOK, Live
    <3> QED BY <1>2, <2>2, <3>3 DEF RowAccepted, StopsForCheck
  <2> QED BY <2>1, <2>2
<1>4. /\ Len(stops) \in Nat /\ Len(stops) >= 2 /\ DOMAIN stops = 1 .. Len(stops)
      /\ \A i \in DOMAIN stops : stops[i].node_id \in ALL_NODES
  BY <1>3, AcceptedStops DEF TimesTyped
<1>5. tuples = SnapshotStops(stops, traversal)
  <2>1. tuples = _compute_stop_tuples(stops, traversal)
    BY <1>2 DEF StopTuples
  <2> QED BY <1>4, <2>1, SameExpansion
<1>6. \A i \in DOMAIN stops : TraversalSeconds(stops[i].node_id, traversal) \in Nat
  BY <1>1, <1>2 DEF TraversalSeconds
<1>7. RunsThrough(stops, traversal, tuples, Len(stops))
  BY <1>3, <1>5, <1>6, AcceptedRunsThrough, ParametersAssumption
<1>8. PICK T : T = [node_id : {stops[i].node_id : i \in DOMAIN stops}, enter : Nat, exit : Nat]
  OBVIOUS
<1>9. /\ tuples \in Seq(T) /\ Len(tuples) = Len(stops)
      /\ \A x \in T : x.enter \in Nat /\ x.exit \in Nat
  BY <1>7, <1>8 DEF RunsThrough
<1>10. _service_start(tuples) \in Nat /\ _service_end(tuples) \in Nat
  <2>1. tuples[1] \in T /\ tuples[Len(tuples)] \in T
    BY <1>4, <1>9
  <2> QED BY <1>9, <2>1 DEF _service_start, _service_end
<1>11. service_consume_delta(tuples) \in Int /\ service_consume_delta(tuples) <= 0
  BY <1>4, <1>9, ConsumesOnly
<1>12. tuples # << >>
  BY <1>4, <1>9
<1> QED BY <1>2, <1>3, <1>5, <1>10, <1>11, <1>12

\* What a lone handler meets: the row of an update whole, the stops it times with times.
LEMMA RowsMet ==
  ASSUME DayInv, NEW p \in Proc
  PROVE  MeetsRows(p)
<1> USE DEF DayInv, AloneInv
<1>1. ASSUME pc[p] = "load_stops" PROVE IsRecord(services[req[p].service_id])
  <2>1. req[p] \in Requests /\ req[p].op = "update"
    BY <1>1 DEF ServingInv, HandlerOK, GenLabels, LoopLabels
  <2>2. req[p].service_id \in ServiceId
    BY <2>1, RequestTyped
  <2>3. services[req[p].service_id] # None
    BY <1>1 DEF ReadsHold
  <2> QED BY <2>2, <2>3 DEF ServingInv, TimetableOK, Live, RowAccepted
<1>2. ASSUME pc[p] = "battery" PROVE StopTuples(p) # << >>
  <2>1. HoldsRow(p) /\ block_traversal[p] = block_configs
    BY <1>2 DEF HoldsRow, ReadsHold, Updating
  <2> QED BY <2>1, CheckedStops
<1> QED BY <1>1, <1>2 DEF MeetsRows

LEMMA DayKeeps ==
  ASSUME OneHandler, RowsAreRows, DayInv, [GenNext]_gvars
  PROVE  DayInv'
<1>1. AloneInv'
  BY RowsMet, AloneKeeps DEF DayInv
<1>2. ASSUME NEW p \in Proc, BeginGenerate(p) PROVE DayInv'
  <2>1. DOMAIN reply = Proc
    BY DEF DayInv, AloneInv, ReadsHold
  <2> QED BY <1>1, <1>2, <2>1, BeginKeepsDay DEF DayInv, OneHandler
<1>3. ASSUME NEW p \in Proc, GenStep(p) PROVE DayInv'
  BY <1>1, <1>3, GenStepKeepsDay DEF DayInv, OneHandler
<1>4. ASSUME NEW p \in Proc, HandlerStep(p) \/ (Begin(p) /\ UNCHANGED plan) PROVE DayInv'
  <2>1. Begin(p) \/ Step(p)
    BY <1>4 DEF HandlerStep
  <2>2. ServingInv' /\ pc'[p] \notin GenLabels
    BY <2>1, ServingStep, HandlersApart DEF DayInv, AloneInv
  <2> QED BY <1>1, <2>2 DEF DayInv, OneHandler, Generating
<1>5. CASE UNCHANGED gvars \/ (Served /\ UNCHANGED plan)
  <2>1. /\ UNCHANGED <<services, block_configs, begun, pc, req, ticket, reply, plan,
                       block_traversal, dep_battery>>
    BY <1>5 DEF gvars, vars, tables, request, reads, Served
  <2>2. ServingInv'
    BY <2>1 DEF DayInv, ServingInv, TimetableOK, Live, HandlerOK, HoldsRow
  <2>3. ASSUME NEW p \in Proc, Generating(p) PROVE Generating(p)'
    <3>1. StoredSnapshots' = StoredSnapshots /\ Live' = Live
      BY <2>1, SameSnapshots
    <3>2. committed_snapshots(p)' = committed_snapshots(p)
      BY <2>1 DEF committed_snapshots
    <3>3. PlanFits(p) => PlanFits(p)'
      BY <2>1 DEF PlanFits
    <3>4. DayPlanned(p) => DayPlanned(p)'
      BY <2>1, <3>1, <3>2 DEF DayPlanned, MadeTrip
    <3>5. SelectServices' = SelectServices
      BY <2>1, <3>1 DEF SelectServices
    <3>6. CandidateTrip(p, LastInList, dep_battery[p])' = CandidateTrip(p, LastInList, dep_battery[p])
      BY <2>1 DEF CandidateTrip, Current, Tuples, LastInList
    <3> QED BY <2>1, <2>3, <3>1, <3>2, <3>3, <3>4, <3>5, <3>6 DEF Generating
  <2> QED BY <1>1, <2>2, <2>3 DEF DayInv
<1> QED BY <1>2, <1>3, <1>4, <1>5 DEF GenNext

LEMMA DayInvariant ==
  ASSUME OneHandler, RowsAreRows
  PROVE  GenSpec => []DayInv
BY DayStarts, DayKeeps, PTL DEF GenSpec

\* A schedule that commits trips is answered by the last statement of the generator.
LEMMA CommitStores ==
  ASSUME OneHandler, RowsAreRows, DayInv, [GenNext]_gvars, NEW p \in Proc, Commits(p)
  PROVE  /\ FinishGenerate(p) /\ ~GenRefuse(p, 422)
         /\ StoredSnapshots' = committed_snapshots(p) /\ Quiet(committed_snapshots(p))
<1>1. /\ pc[p] = "gen_slot" /\ plan[p].created # << >> /\ reply'[p] = 201 /\ reply[p] = 0
      /\ DOMAIN reply = Proc /\ DayPlanned(p) /\ \A q \in Proc : q = p
  <2>1. pc[p] = "gen_slot" /\ plan[p].created # << >> /\ reply'[p] = 201
    BY DEF Commits
  <2>2. Generating(p) /\ DOMAIN reply = Proc
    BY DEF DayInv, AloneInv, ReadsHold
  <2> QED BY <2>1, <2>2 DEF OneHandler, Generating, GenLabels, LoopLabels
<1>2. ~(UNCHANGED gvars \/ Served)
  BY <1>1 DEF gvars, vars, Served
<1>3. ~(BeginGenerate(p) \/ Begin(p) \/ Step(p))
  <2>1. pc[p] \in GenLabels /\ GenInv
    BY <1>1 DEF GenLabels, LoopLabels, DayInv, AloneInv
  <2> QED BY <1>1, <2>1, HandlersApart DEF BeginGenerate
<1>4. GenStep(p)
  BY <1>1, <1>2, <1>3 DEF GenNext, HandlerStep
<1>5. FinishGenerate(p)
  BY <1>1, <1>4
     DEF GenStep, ReadConfig, ReadVehicles, ReadServices, ReadStops, NextVehicle, ReadIdleBattery,
         CheckSlot, InsertTrip, vars
<1>6. ~GenRefuse(p, 422)
  BY <1>1 DEF GenRefuse, Refuse, Answer
<1> QED BY <1>1, <1>5, <1>6, FinishStores DEF DayPlanned
-----------------------------------------------------------------------------
(* The theorems *)

\* With one process at work, handlers and generator alike, no request fails with 500,
\* in whatever order and however many requests come: what such a failure takes is a
\* second transaction.
THEOREM NobodyFailsAlone ==
  ASSUME OneHandler, RowsAreRows
  PROVE  GenSpec => []NoInternalError
<1>1. DayInv => NoInternalError
  BY DEF DayInv, AloneInv, ReadsHold, NoInternalError
<1> QED BY <1>1, DayInvariant, PTL

\* With one process at work, whatever schedules and services it was asked for before: when
\* the generator commits, no two trips of the whole timetable clash in a block or on a
\* vehicle, although each was compared with those before it alone, at the end of their
\* list and under another key than it is stored with.
THEOREM GeneratedDaysAreQuiet ==
  ASSUME OneHandler, RowsAreRows
  PROVE  GenSpec => GeneratedDayIsConflictFree
<1> DEFINE Clean(snapshots) ==
      detect_block_conflicts(snapshots) \cup detect_vehicle_conflicts(snapshots) = {}
<1>1. DayInv /\ [GenNext]_gvars =>
        [\A p \in Proc : Commits(p) => \A snapshots \in {StoredSnapshots'} : Clean(snapshots)]_gvars
  <2> SUFFICES ASSUME DayInv, [GenNext]_gvars, NEW p \in Proc, Commits(p)
               PROVE  Clean(StoredSnapshots')
    OBVIOUS
  <2>1. StoredSnapshots' = committed_snapshots(p) /\ Quiet(committed_snapshots(p))
    BY CommitStores
  <2>2. PICK S : S = committed_snapshots(p)
    OBVIOUS
  <2>3. detect_block_conflicts(S) = {} /\ detect_vehicle_conflicts(S) = {}
    BY <2>1, <2>2 DEF Quiet
  <2>4. Clean(S)
    BY <2>3
  <2> HIDE DEF Clean
  <2> QED BY <2>1, <2>2, <2>4
<1> QED BY <1>1, DayInvariant, PTL DEF GenSpec, GeneratedDayIsConflictFree

\* The times of an accepted row's snapshot are known.
LEMMA SnapshotTimes ==
  ASSUME NEW s, NEW row, RowAccepted(row), NEW traversal \in [BLOCKS -> Nat \ {0}]
  PROVE  \A i \in DOMAIN SnapshotOf(s, row, traversal).stops :
           SnapshotOf(s, row, traversal).stops[i].exit \in Nat
<1>1. PICK stops : stops = StopsIn(row)
  OBVIOUS
<1>2. TimesTyped(stops) /\ Accepts(stops) /\ None \notin Nat
  BY <1>1, ParametersAssumption DEF RowAccepted
<1>3. \A i \in DOMAIN stops : TraversalSeconds(stops[i].node_id, traversal) \in Nat
  BY DEF TraversalSeconds
<1>4. RunsThrough(stops, traversal, SnapshotStops(stops, traversal), Len(stops))
  BY <1>2, <1>3, AcceptedRunsThrough
<1>5. PICK tuples : tuples = SnapshotStops(stops, traversal)
  OBVIOUS
<1>6. \A i \in DOMAIN tuples : tuples[i].exit \in Nat
  <2>1. PICK T : T = [node_id : {stops[i].node_id : i \in DOMAIN stops}, enter : Nat, exit : Nat]
    OBVIOUS
  <2>2. \A x \in T : x.exit \in Nat
    BY <2>1
  <2>3. tuples \in Seq(T)
    BY <1>4, <1>5, <2>1 DEF RunsThrough
  <2>4. \A i \in DOMAIN tuples : tuples[i] \in T
    BY <2>3
  <2> QED BY <2>2, <2>4
<1>7. SnapshotOf(s, row, traversal).stops = tuples
  BY <1>1, <1>5 DEF SnapshotOf
<1> QED BY <1>6, <1>7

\* With one process at work: a schedule is committed only when at every platform each
\* departure of the whole timetable is followed within the interval by the next, up to
\* the last.
THEOREM PassengersNeverWaitLonger ==
  ASSUME OneHandler, RowsAreRows
  PROVE  GenSpec => PassengersWaitAtMostTheInterval
<1> DEFINE InTime(p) ==
      \A pl \in PLATFORMS :
        \A times \in {Departures(StoredSnapshots', pl)} :
          \A t \in times : (\E u \in times : u > t) =>
            \E u \in times : t < u /\ u - t <= req[p].interval
<1>1. DayInv /\ [GenNext]_gvars => [\A p \in Proc : Commits(p) => InTime(p)]_gvars
  <2> SUFFICES ASSUME DayInv, [GenNext]_gvars, NEW p \in Proc, Commits(p),
                      NEW pl \in PLATFORMS, NEW times, times = Departures(StoredSnapshots', pl),
                      NEW t \in times, NEW v \in times, v > t
               PROVE  \E u \in times : t < u /\ u - t <= req[p].interval
    OBVIOUS
  <2>1. /\ FinishGenerate(p) /\ ~GenRefuse(p, 422)
        /\ StoredSnapshots' = committed_snapshots(p)
    BY CommitStores
  <2>2. ServingInv' /\ req[p] \in Generations
    <3>1. pc[p] \in GenLabels
      BY DEF Commits, GenLabels, LoopLabels
    <3> QED BY <2>1, <3>1, FinishStores DEF DayInv, AloneInv, GenInv
  <2>3. times \subseteq Nat
    <3>1. StoredSnapshots' = {SnapshotOf(s, services'[s], block_configs') : s \in Live'}
      BY DEF StoredSnapshots, build_snapshots
    <3>2. /\ block_configs' \in [BLOCKS -> Nat \ {0}]
          /\ \A s \in Live' : RowAccepted(services'[s])
      BY <2>2 DEF ServingInv, TimetableOK
    <3>3. ASSUME NEW x \in StoredSnapshots', NEW i \in DOMAIN x.stops PROVE x.stops[i].exit \in Nat
      <4>1. PICK s \in Live' : x = SnapshotOf(s, services'[s], block_configs')
        BY <3>1
      <4>2. PICK row, traversal : row = services'[s] /\ traversal = block_configs'
        OBVIOUS
      <4> QED BY <3>2, <4>1, <4>2, SnapshotTimes
    <3>4. PICK S : S = StoredSnapshots'
      OBVIOUS
    <3>5. \A x \in S : \A i \in DOMAIN x.stops : x.stops[i].exit \in Nat
      BY <3>3, <3>4
    <3>6. times = Departures(S, pl)
      BY <3>4
    <3> QED BY <3>5, <3>6 DEF Departures
  <2>4. ~\E t2 \in times : t2 - t > req[p].interval /\ ~\E x \in times : t < x /\ x < t2
    <3>1. _check_passenger_wait(committed_snapshots(p), req[p].interval) = {}
      BY <2>1 DEF FinishGenerate
    <3>2. times = Departures(committed_snapshots(p), pl)
      BY <2>1
    <3>3. PICK S, interval : S = committed_snapshots(p) /\ interval = req[p].interval
      OBVIOUS
    <3>4. pl \notin _check_passenger_wait(S, interval) /\ times = Departures(S, pl)
      BY <3>1, <3>2, <3>3
    <3> QED BY <3>3, <3>4 DEF _check_passenger_wait
  <2>5. PICK u \in {x \in times : x > t} : \A x \in {y \in times : y > t} : u <= x
    <3>1. {x \in times : x > t} \subseteq Nat /\ {x \in times : x > t} # {}
      BY <2>3
    <3> QED BY <3>1, LeastElement
  <2>6. req[p].interval \in Nat
    BY <2>2, RequestSizes
  <2>7. u \in times /\ t < u /\ ~\E x \in times : t < x /\ x < u
    BY <2>3, <2>5
  <2> QED BY <2>3, <2>4, <2>6, <2>7
<1> QED BY <1>1, DayInvariant, PTL DEF GenSpec, PassengersWaitAtMostTheInterval

\* With one process at work, every stored path is one the validator accepts, the
\* generator's among them, which it never shows to the validator.
THEOREM GeneratedPathsStayValid ==
  ASSUME OneHandler, RowsAreRows
  PROVE  GenSpec => []StoredPathsAreValid
<1>1. DayInv => StoredPathsAreValid
  BY DEF DayInv, ServingInv, TimetableOK, RowAccepted, Accepts, StoredPathsAreValid
<1> QED BY <1>1, DayInvariant, PTL

(***************************************************************************)
(* Levels.                                                                 *)
(***************************************************************************)

\* An event as the ledger keeps it: adjustments are not in the future, services only
\* consume.
EventKept(e) ==
  /\ InHundredths(e.delta) /\ e.occurred_at \in Int /\ e.id \in Nat
  /\ e.event_type \in {"BASELINE", "MANUAL_ADJUST", "SERVICE_CONSUME", "YARD_CHARGE"}
  /\ e.event_type \in {"BASELINE", "MANUAL_ADJUST"} => e.occurred_at <= Now
  /\ e.event_type = "SERVICE_CONSUME" => e.delta <= 0

LedgerKept(ledger) ==
  /\ \A v : IsFiniteSet(EventsOf(ledger, v))
  /\ \A e \in ledger : EventKept(e)

LEMMA EventsOfKept ==
  ASSUME NEW ledger, LedgerKept(ledger), NEW v, NEW E, E = EventsOf(ledger, v)
  PROVE  /\ IsFiniteSet(E) /\ E \subseteq ledger
         /\ \A e \in E : /\ e.vehicle_id = v /\ InHundredths(e.delta) /\ e.delta \in Int
                        /\ e.occurred_at \in Int
<1>1. IsFiniteSet(E)
  BY DEF LedgerKept
<1>2. \A e \in ledger : InHundredths(e.delta) /\ e.delta \in Int /\ e.occurred_at \in Int
  BY DEF LedgerKept, EventKept, InHundredths
<1> QED BY <1>1, <1>2 DEF EventsOf

\* What the column delta does to a level.
LEMMA HundredthsKept ==
  ASSUME NEW n \in Int
  PROVE  /\ InHundredths(Hundredths(n)) /\ Hundredths(n) \in Int
         /\ (Hundredths(n) - n) * 200 <= PERCENT /\ (n - Hundredths(n)) * 200 <= PERCENT
         /\ n <= 0 => Hundredths(n) <= 0
         /\ \A m \in Int : InHundredths(m) /\ n <= m => Hundredths(n) <= m
<1>1. PERCENT = 1200 /\ 1200 \div 100 = 12 /\ 12 \div 2 = 6
  BY DEF PERCENT
<1> DEFINE Near(x) == (x + 6) \div 12
<1>2. \A x \in Int : Near(x) \in Int /\ Near(x) * 12 <= x + 6 /\ x - 6 < Near(x) * 12
  OBVIOUS
<1>3. Hundredths(n) = IF n < 0 THEN -(Near(-n) * 12) ELSE Near(n) * 12
  BY <1>1 DEF Hundredths
<1> HIDE DEF Near
<1>4. PICK k \in Int : Hundredths(n) = k * 12
  <2>1. CASE n < 0
    <3>1. Near(-n) \in Int /\ Hundredths(n) = (-Near(-n)) * 12
      BY <1>2, <1>3, <2>1
    <3>2. -Near(-n) \in Int
      BY <3>1
    <3> QED BY <3>1, <3>2
  <2>2. CASE n >= 0
    BY <1>2, <1>3, <2>2
  <2> QED BY <2>1, <2>2
<1>5. n - 6 <= k * 12 /\ k * 12 <= n + 6
  <2>1. CASE n < 0
    <3>1. Near(-n) \in Int /\ Near(-n) * 12 <= (-n) + 6 /\ (-n) - 6 < Near(-n) * 12
      BY <1>2
    <3> QED BY <1>3, <1>4, <2>1, <3>1
  <2>2. CASE n >= 0
    <3>1. Near(n) * 12 <= n + 6 /\ n - 6 < Near(n) * 12
      BY <1>2
    <3> QED BY <1>3, <1>4, <2>2, <3>1
  <2> QED BY <2>1, <2>2
<1>6. n <= 0 => k * 12 <= 0
  BY <1>5
<1>7. ASSUME NEW m \in Int, InHundredths(m), n <= m PROVE k * 12 <= m
  <2>1. PICK j \in Int : m = j * 12
    BY <1>7 DEF InHundredths
  <2>2. k * 12 <= j * 12 + 6
    BY <1>5, <1>7, <2>1
  <2>3. k <= j
    BY <2>2
  <2> QED BY <2>1, <2>3
<1> QED BY <1>1, <1>4, <1>5, <1>6, <1>7 DEF InHundredths

\* The levels of a vehicle are numbers of hundredths.
LEMMA LevelsKept ==
  ASSUME NEW ledger, LedgerKept(ledger), NEW v, NEW at \in Int
  PROVE  /\ InHundredths(battery_at(ledger, v, at)) /\ battery_at(ledger, v, at) \in Int
         /\ battery_before(ledger, v, at) \in Int
         /\ current_battery(ledger, v) \in Int
<1>1. PICK E, A, B : /\ E = EventsOf(ledger, v) /\ A = {e \in E : e.occurred_at <= at}
                     /\ B = {e \in E : e.occurred_at < at}
  OBVIOUS
<1>2. IsFiniteSet(E) /\ \A e \in E : InHundredths(e.delta)
  BY <1>1, EventsOfKept
<1>3. IsFiniteSet(A) /\ IsFiniteSet(B) /\ A \subseteq E /\ B \subseteq E
  BY <1>1, <1>2, FS_Subset
<1>4. InHundredths(_sum(A)) /\ _sum(A) \in Int
  BY <1>2, <1>3, SumInHundredths
<1>5. _sum(B) \in Int
  BY <1>2, <1>3, SumInHundredths
<1>6. _sum(E) \in Int
  BY <1>2, SumInHundredths
<1> QED BY <1>1, <1>4, <1>5, <1>6 DEF battery_at, battery_before, current_battery

\* Where nothing is added, the level falls.
LEMMA LevelFalls ==
  ASSUME NEW ledger, LedgerKept(ledger), NEW v, NEW s \in Int, NEW t \in Int, s <= t,
         \A e \in ledger : e.vehicle_id = v /\ s < e.occurred_at => e.delta <= 0
  PROVE  battery_at(ledger, v, t) <= battery_at(ledger, v, s)
<1>1. PICK E, A, B, C : /\ E = EventsOf(ledger, v) /\ A = {e \in E : e.occurred_at <= s}
                        /\ B = {e \in E : e.occurred_at <= t}
                        /\ C = {e \in E : s < e.occurred_at /\ e.occurred_at <= t}
  OBVIOUS
<1>2. /\ IsFiniteSet(E)
      /\ \A e \in E : /\ e.delta \in Int /\ e.occurred_at \in Int
                      /\ s < e.occurred_at => e.delta <= 0
  BY <1>1, EventsOfKept
<1>3. /\ IsFiniteSet(A) /\ IsFiniteSet(C) /\ A \cap C = {} /\ A \cup C = B
      /\ \A e \in A \cup C : e.delta \in Int
      /\ \A e \in C : e.delta \in Int /\ e.delta <= 0
  <2>1. IsFiniteSet(A) /\ IsFiniteSet(C)
    BY <1>1, <1>2, FS_Subset
  <2> QED BY <1>1, <1>2, <2>1
<1>4. _sum(A \cup C) = _sum(A) + _sum(C) /\ _sum(A) \in Int
  BY <1>3, SumOfParts
<1>5. _sum(C) \in Int /\ _sum(C) <= 0
  BY <1>3, SumNotPositive
<1>6. battery_at(ledger, v, s) = _sum(A) /\ battery_at(ledger, v, t) = _sum(A \cup C)
  BY <1>1, <1>3 DEF battery_at
<1> QED BY <1>4, <1>5, <1>6

\* An event counts from when it occurs, for its vehicle.
LEMMA LevelWithEvent ==
  ASSUME NEW ledger, LedgerKept(ledger), NEW x, EventKept(x), NEW v, NEW t \in Int
  PROVE  /\ x.vehicle_id # v \/ x.occurred_at > t =>
              battery_at(ledger \cup {x}, v, t) = battery_at(ledger, v, t)
         /\ x.vehicle_id # v \/ x.occurred_at >= t =>
              battery_before(ledger \cup {x}, v, t) = battery_before(ledger, v, t)
         /\ x.vehicle_id = v /\ x.occurred_at <= t =>
              battery_at(ledger \cup {x}, v, t)
                \in {battery_at(ledger, v, t), battery_at(ledger, v, t) + x.delta}
         /\ x.vehicle_id = v /\ x.occurred_at < t /\ x \notin ledger =>
              battery_before(ledger \cup {x}, v, t) = battery_before(ledger, v, t) + x.delta
         /\ LedgerKept(ledger \cup {x})
<1>1. PICK E, F, A, B, C, D : /\ E = EventsOf(ledger, v) /\ F = EventsOf(ledger \cup {x}, v)
                              /\ A = {e \in E : e.occurred_at <= t}
                              /\ B = {e \in E : e.occurred_at < t}
                              /\ C = {e \in F : e.occurred_at <= t}
                              /\ D = {e \in F : e.occurred_at < t}
  OBVIOUS
<1>2. /\ battery_at(ledger, v, t) = _sum(A) /\ battery_before(ledger, v, t) = _sum(B)
      /\ battery_at(ledger \cup {x}, v, t) = _sum(C)
      /\ battery_before(ledger \cup {x}, v, t) = _sum(D)
  BY <1>1 DEF battery_at, battery_before
<1>3. /\ IsFiniteSet(E) /\ E \subseteq ledger /\ x.delta \in Int /\ x.occurred_at \in Int
      /\ F = IF x.vehicle_id = v THEN E \cup {x} ELSE E
      /\ \A e \in E : e.delta \in Int /\ e.occurred_at \in Int
  <2>1. IsFiniteSet(E) /\ E \subseteq ledger /\ \A e \in E : e.delta \in Int /\ e.occurred_at \in Int
    BY <1>1, EventsOfKept
  <2>2. x.delta \in Int /\ x.occurred_at \in Int
    BY DEF EventKept, InHundredths
  <2>3. F = IF x.vehicle_id = v THEN E \cup {x} ELSE E
    BY <1>1 DEF EventsOf
  <2> QED BY <2>1, <2>2, <2>3
<1>4. /\ IsFiniteSet(A) /\ IsFiniteSet(B) /\ A \subseteq E /\ B \subseteq E
      /\ \A e \in A : e.delta \in Int
      /\ \A e \in B : e.delta \in Int
  BY <1>1, <1>3, FS_Subset
<1>5. x.vehicle_id # v \/ x.occurred_at > t => C = A
  <2>1. CASE x.vehicle_id # v
    BY <1>1, <1>3, <2>1
  <2>2. CASE x.vehicle_id = v /\ x.occurred_at > t
    <3>1. F = E \cup {x} /\ ~(x.occurred_at <= t)
      BY <1>3, <2>2
    <3> QED BY <1>1, <3>1
  <2> QED BY <2>1, <2>2
<1>6. x.vehicle_id # v \/ x.occurred_at >= t => D = B
  <2>1. CASE x.vehicle_id # v
    BY <1>1, <1>3, <2>1
  <2>2. CASE x.vehicle_id = v /\ x.occurred_at >= t
    <3>1. F = E \cup {x} /\ ~(x.occurred_at < t)
      BY <1>3, <2>2
    <3> QED BY <1>1, <3>1
  <2> QED BY <2>1, <2>2
<1>7. ASSUME x.vehicle_id = v, x.occurred_at <= t PROVE _sum(C) \in {_sum(A), _sum(A) + x.delta}
  <2>1. C = A \cup {x}
    BY <1>1, <1>3, <1>7
  <2>2. CASE x \in A
    <3>1. C = A
      BY <2>1, <2>2
    <3> QED BY <3>1
  <2>3. CASE x \notin A
    <3>1. _sum(A \cup {x}) = _sum(A) + x.delta
      BY <1>3, <1>4, <2>3, SumWithEvent
    <3> QED BY <2>1, <3>1
  <2> QED BY <2>2, <2>3
<1>8. ASSUME x.vehicle_id = v, x.occurred_at < t, x \notin ledger PROVE _sum(D) = _sum(B) + x.delta
  <2>1. D = B \cup {x} /\ x \notin B
    BY <1>1, <1>3, <1>8
  <2>2. _sum(B \cup {x}) = _sum(B) + x.delta
    BY <1>3, <1>4, <2>1, SumWithEvent
  <2> QED BY <2>1, <2>2
<1>9. LedgerKept(ledger \cup {x})
  <2>1. ASSUME NEW u PROVE IsFiniteSet(EventsOf(ledger \cup {x}, u))
    <3>1. IsFiniteSet(EventsOf(ledger, u)) /\ IsFiniteSet(EventsOf(ledger, u) \cup {x})
      BY FS_AddElement DEF LedgerKept
    <3>2. EventsOf(ledger \cup {x}, u) \subseteq EventsOf(ledger, u) \cup {x}
      BY DEF EventsOf
    <3> QED BY <3>1, <3>2, FS_Subset
  <2> QED BY <2>1 DEF LedgerKept
<1> QED BY <1>2, <1>5, <1>6, <1>7, <1>8, <1>9

\* A finite set of events has a last one.
LEMMA LastEvent ==
  ASSUME NEW A, IsFiniteSet(A), A # {}, \A e \in A : e.occurred_at \in Int
  PROVE  \E last \in A : \A e \in A : e.occurred_at <= last.occurred_at
<1> DEFINE Holds == {R \in SUBSET A : R # {} => \E last \in R : \A e \in R : e.occurred_at <= last.occurred_at}
<1>1. {} \in Holds
  OBVIOUS
<1>2. ASSUME NEW R \in SUBSET A, R # {}, \A x \in R : R \ {x} \in Holds PROVE R \in Holds
  <2>1. PICK x \in R : TRUE
    BY <1>2
  <2>2. CASE R = {x}
    BY <2>2
  <2>3. CASE R # {x}
    <3>1. PICK last \in R \ {x} : \A e \in R \ {x} : e.occurred_at <= last.occurred_at
      BY <1>2, <2>1, <2>3
    <3>2. CASE x.occurred_at <= last.occurred_at
      BY <3>1, <3>2
    <3>3. CASE last.occurred_at < x.occurred_at
      <4>1. ASSUME NEW e \in R PROVE e.occurred_at <= x.occurred_at
        BY <2>1, <3>1, <3>3
      <4> QED BY <2>1, <4>1
    <3> QED BY <2>1, <3>1, <3>2, <3>3
  <2> QED BY <2>2, <2>3
<1>3. SUBSET A \subseteq Holds
  <2> HIDE DEF Holds
  <2> QED BY <1>1, <1>2, SubsetInduction
<1>4. A \in Holds
  BY <1>3
<1> QED BY <1>4

\* A level that is within a limit after every event is so at any time.
LEMMA LevelsBetween ==
  ASSUME NEW ledger, LedgerKept(ledger), NEW v, NEW limit \in Nat,
         \A e \in EventsOf(ledger, v) : battery_at(ledger, v, e.occurred_at) <= limit,
         NEW t \in Int
  PROVE  battery_at(ledger, v, t) <= limit
<1>1. PICK E, A : E = EventsOf(ledger, v) /\ A = {e \in E : e.occurred_at <= t}
  OBVIOUS
<1>2. /\ IsFiniteSet(E) /\ IsFiniteSet(A) /\ battery_at(ledger, v, t) = _sum(A)
      /\ \A e \in E : e.delta \in Int /\ e.occurred_at \in Int
  <2>1. IsFiniteSet(E) /\ \A e \in E : e.delta \in Int /\ e.occurred_at \in Int
    BY <1>1, EventsOfKept
  <2> QED BY <1>1, <2>1, FS_Subset DEF battery_at
<1>3. CASE A = {}
  <2>1. _sum(A) <= 0
    <3>1. \A e \in A : e.delta \in Int /\ e.delta <= 0
      BY <1>3
    <3> QED BY <1>2, <3>1, SumNotPositive
  <2>2. _sum(A) \in Int
    BY <1>2, LevelsKept
  <2> QED BY <1>2, <2>1, <2>2
<1>4. CASE A # {}
  <2>1. PICK last \in A : \A e \in A : e.occurred_at <= last.occurred_at
    <3>1. \A e \in A : e.occurred_at \in Int
      BY <1>1, <1>2
    <3> QED BY <1>2, <1>4, <3>1, LastEvent
  <2>2. A = {e \in E : e.occurred_at <= last.occurred_at}
    BY <1>1, <1>2, <2>1
  <2>3. battery_at(ledger, v, t) = battery_at(ledger, v, last.occurred_at)
    BY <1>1, <1>2, <2>2 DEF battery_at
  <2> QED BY <1>1, <2>3
<1> QED BY <1>3, <1>4

-----------------------------------------------------------------------------
(***************************************************************************)
(* The ledger a lone process keeps.                                        *)
(***************************************************************************)

\* No schedule is asked for that has begun.
SchedulesAreAhead == \A r \in Generations : r.start_time >= Now

BookOK == LedgerKept(events) /\ \A e \in events : e.id <= begun

\* A write that depends on the timetable.
Checks(p) == Creating(p) \/ Rechecked(p)

\* What a lone handler has read of ledger and blocks is still so.
LevelRead(p) ==
  /\ pc[p] \in {"read_level", "adjust"} => req[p].op = "adjust"
  /\ pc[p] = "adjust" => dep_battery[p] \in Int
  /\ pc[p] \in {"wipe", "wipe_wait", "battery", "siblings", "commit"} =>
       block_traversal[p] = block_configs
  /\ pc[p] \in {"wipe", "wipe_wait", "battery", "siblings"} => Checks(p)
  /\ pc[p] \in {"siblings", "commit"} /\ Checks(p) =>
       dep_battery[p] =
         battery_before(events \ wiped[p], TargetVehicle(p), _service_start(StopTuples(p)))

\* The event a write enters for its service.
LEMMA NewEventKept ==
  ASSUME DayInv, NEW p \in Proc, HoldsRow(p), Checks(p), block_traversal[p] = block_configs
  PROVE  LET e == NewConsumeEvent(p)
         IN  /\ EventKept(e) /\ e.id <= begun /\ e.vehicle_id = TargetVehicle(p)
             /\ e.occurred_at = _service_end(StopTuples(p)) /\ e.occurred_at \in Nat
<1>1. PICK e, delta, end :
        /\ e = NewConsumeEvent(p) /\ delta = service_consume_delta(StopTuples(p))
        /\ end = _service_end(StopTuples(p))
  OBVIOUS
<1>2. delta \in Int /\ delta <= 0 /\ end \in Nat
  BY <1>1, CheckedStops
<1>3. /\ e.id = ticket[p] /\ e.vehicle_id = TargetVehicle(p) /\ e.occurred_at = end
      /\ e.event_type = "SERVICE_CONSUME" /\ e.delta = Hundredths(delta)
  BY <1>1 DEF NewConsumeEvent, emit_service_consume, Event
<1>4. InHundredths(e.delta) /\ e.delta <= 0
  BY <1>2, <1>3, HundredthsKept
<1>5. ticket[p] \in Nat /\ ticket[p] <= begun
  BY DEF DayInv, ServingInv, HandlerOK, TimetableOK, HoldsRow, GenLabels, LoopLabels
<1>6. EventKept(e)
  BY <1>2, <1>3, <1>4, <1>5 DEF EventKept
<1> QED BY <1>1, <1>2, <1>3, <1>5, <1>6

LEMMA LedgerShrinks ==
  ASSUME NEW ledger, LedgerKept(ledger), NEW less, less \subseteq ledger
  PROVE  LedgerKept(less)
<1>1. ASSUME NEW v PROVE IsFiniteSet(EventsOf(less, v))
  <2>1. IsFiniteSet(EventsOf(ledger, v)) /\ EventsOf(less, v) \subseteq EventsOf(ledger, v)
    BY DEF LedgerKept, EventsOf
  <2> QED BY <2>1, FS_Subset
<1> QED BY <1>1 DEF LedgerKept

\* What a step of a lone handler leaves of the ledger: events go, and one may come.
LEMMA BookStep ==
  ASSUME BookOK, begun \in Nat, begun' \in Nat, begun <= begun',
         \/ events' \subseteq events
         \/ \E x, less : /\ less \subseteq events /\ events' = less \cup {x}
                         /\ EventKept(x) /\ x.id <= begun
  PROVE  BookOK'
<1>1. CASE events' \subseteq events
  <2>1. LedgerKept(events')
    BY <1>1, LedgerShrinks DEF BookOK
  <2>2. \A e \in events' : e.id <= begun'
    BY <1>1 DEF BookOK, LedgerKept, EventKept
  <2> QED BY <2>1, <2>2 DEF BookOK
<1>2. ASSUME NEW x, NEW less, less \subseteq events, events' = less \cup {x}, EventKept(x),
             x.id <= begun
      PROVE  BookOK'
  <2>1. LedgerKept(less)
    BY <1>2, LedgerShrinks DEF BookOK
  <2>2. LedgerKept(less \cup {x})
    <3>1. 0 \in Int
      OBVIOUS
    <3> QED BY <1>2, <2>1, <3>1, LevelWithEvent
  <2>3. \A e \in events' : e.id <= begun'
    BY <1>2 DEF BookOK, LedgerKept, EventKept
  <2>4. LedgerKept(events')
    BY <1>2, <2>2
  <2> QED BY <2>3, <2>4 DEF BookOK
<1> QED BY <1>1, <1>2

\* A lone handler keeps the ledger, and reads it right.
LEMMA BookHandled ==
  ASSUME OneHandler, DayInv, BookOK, NEW p \in Proc, LevelRead(p), Begin(p) \/ Step(p)
  PROVE  BookOK' /\ LevelRead(p)'
<1> USE DEF DayInv, AloneInv
<1>d. /\ DOMAIN pc = Proc /\ DOMAIN req = Proc /\ DOMAIN block_traversal = Proc
      /\ DOMAIN dep_battery = Proc /\ begun \in Nat
  BY DEF GenInv, ServingInv, TimetableOK
<1>k. ASSUME UNCHANGED <<events, begun>> PROVE BookOK'
  BY <1>k DEF BookOK
<1>r. ASSUME NEW status, Answer(p, status) PROVE LevelRead(p)'
  <2>1. pc'[p] = "idle"
    BY <1>d, <1>r DEF Answer, Goto
  <2> QED BY <2>1 DEF LevelRead
<1>f. ASSUME NEW status, Refuse(p, status) PROVE BookOK' /\ LevelRead(p)'
  BY <1>k, <1>f, <1>r DEF Refuse, Answer, tables
<1>m. ASSUME NEW label, Goto(p, label),
             label \in {"load", "load_stops", "delete", "lock", "traversal", "cascade",
                        "count", "remove", "reload", "block"}
      PROVE  LevelRead(p)'
  <2>1. pc'[p] = label
    BY <1>d, <1>m DEF Goto
  <2> QED BY <1>m, <2>1 DEF LevelRead
<1>1. CASE Begin(p)
  <2>1. PICK r \in Requests : req' = [req EXCEPT ![p] = r] /\ Goto(p, FirstStatement(r.op))
    BY <1>1 DEF Begin
  <2>2. /\ FirstStatement(r.op) \in {"lock", "load", "read_level", "count", "block"}
        /\ FirstStatement(r.op) = "read_level" => r.op = "adjust"
    BY RequestTyped DEF FirstStatement
  <2>3. pc'[p] = FirstStatement(r.op) /\ req'[p] = r
    BY <1>d, <2>1 DEF Goto
  <2>4. LevelRead(p)'
    BY <2>2, <2>3 DEF LevelRead
  <2>5. UNCHANGED events /\ begun' = begun + 1
    BY <1>1 DEF Begin, tables
  <2>6. BookOK'
    BY <1>d, <2>5, BookStep
  <2> QED BY <2>4, <2>6
<1>2. CASE LoadService(p)
  <2>1. CASE ~Refuse(p, 404)
    <3>1. PICK label \in {"delete", "load_stops"} : Goto(p, label) /\ UNCHANGED <<events, begun>>
      BY <1>2, <2>1 DEF LoadService, tables, request
    <3> QED BY <1>k, <1>m, <3>1
  <2> QED BY <1>f, <2>1
<1>17. CASE LoadStops(p)
  <2>1. Goto(p, "lock") /\ UNCHANGED <<events, begun>>
    BY <1>17 DEF LoadStops, tables, request
  <2> QED BY <1>k, <1>m, <2>1
<1>3. CASE LockVehicle(p)
  <2>1. CASE \E status : Refuse(p, status)
    BY <1>f, <2>1
  <2>2. CASE ~\E status : Refuse(p, status)
    <3>1. Goto(p, "traversal") /\ UNCHANGED <<events, begun>>
      BY <1>3, <2>2 DEF LockVehicle, tables, request
    <3> QED BY <1>k, <1>m, <3>1
  <2> QED BY <2>1, <2>2
<1>4. CASE ReadTraversal(p)
  <2>1. /\ block_traversal'[p] = block_configs /\ block_configs' = block_configs
        /\ pc'[p] = IF Creating(p) THEN "battery" ELSE IF Rechecked(p) THEN "wipe" ELSE "commit"
        /\ UNCHANGED <<events, begun, req, loaded>>
    BY <1>d, <1>4 DEF ReadTraversal, Goto, tables, request
  <2>2. Checks(p)' = Checks(p)
    BY <2>1 DEF Checks, Creating, Rechecked, Reassigning
  <2>3. LevelRead(p)'
    BY <2>1, <2>2 DEF LevelRead, Checks
  <2> QED BY <1>k, <2>1, <2>3
<1>5. CASE WipeConsume(p) \/ ResumeWipe(p)
  <2>1. /\ pc[p] \in {"wipe", "wipe_wait"} /\ pc'[p] \in {"wipe_wait", "battery"}
        /\ UNCHANGED <<events, begun, req, loaded, block_traversal, block_configs>>
    BY <1>d, <1>5 DEF WipeConsume, ResumeWipe, Goto, tables, request, reads
  <2>2. Checks(p)' = Checks(p)
    BY <2>1 DEF Checks, Creating, Rechecked, Reassigning
  <2>3. LevelRead(p)'
    BY <2>1, <2>2 DEF LevelRead
  <2> QED BY <1>k, <2>1, <2>3
<1>6. CASE ReadBattery(p) /\ Refuse(p, 500)
  BY <1>f, <1>6
<1>18. CASE ReadBattery(p) /\ ~Refuse(p, 500)
  <2>1. /\ pc[p] = "battery" /\ pc'[p] = "siblings"
        /\ UNCHANGED <<events, begun, req, loaded, block_traversal, block_configs, wiped>>
        /\ dep_battery'[p] =
             battery_before(events \ wiped[p], TargetVehicle(p), _service_start(StopTuples(p)))
    BY <1>d, <1>18 DEF ReadBattery, Goto, tables, request
  <2>2. /\ Checks(p)' = Checks(p) /\ TargetVehicle(p)' = TargetVehicle(p)
        /\ StopTuples(p)' = StopTuples(p)
    BY <2>1
       DEF Checks, Creating, Rechecked, Reassigning, TargetVehicle, StopTuples, StopsForCheck, StopsIn
  <2>3. LevelRead(p)'
    BY <2>1, <2>2 DEF LevelRead
  <2> QED BY <1>k, <2>1, <2>3
<1>7. CASE CheckSiblings(p)
  <2>1. CASE ~Refuse(p, 409)
    <3>1. /\ pc[p] = "siblings" /\ pc'[p] = "commit"
          /\ UNCHANGED <<events, begun, req, loaded, block_traversal, block_configs, wiped, dep_battery>>
      BY <1>d, <1>7, <2>1 DEF CheckSiblings, Goto, tables, request, reads
    <3>2. /\ Checks(p)' = Checks(p) /\ TargetVehicle(p)' = TargetVehicle(p)
          /\ StopTuples(p)' = StopTuples(p)
      BY <3>1
         DEF Checks, Creating, Rechecked, Reassigning, TargetVehicle, StopTuples, StopsForCheck, StopsIn
    <3>3. LevelRead(p)'
      BY <3>1, <3>2 DEF LevelRead
    <3> QED BY <1>k, <3>1, <3>3
  <2> QED BY <1>f, <2>1
<1>8. CASE CommitCreate(p) \/ CommitUpdate(p)
  <2>1. CASE Refuse(p, 500)
    BY <1>f, <2>1
  <2>2. CASE ~Refuse(p, 500)
    <3>1. /\ pc[p] = "commit" /\ Goto(p, "reload") /\ begun' = begun
          /\ \/ events' = events \cup {NewConsumeEvent(p)} /\ Checks(p)
             \/ events' = (events \ wiped[p]) \cup {NewConsumeEvent(p)} /\ Checks(p)
             \/ events' = events \ wiped[p]
      BY <1>8, <2>2 DEF CommitCreate, CommitUpdate, request, Checks
    <3>2. LevelRead(p)'
      BY <1>m, <3>1
    <3>3. ASSUME Checks(p) PROVE EventKept(NewConsumeEvent(p)) /\ NewConsumeEvent(p).id <= begun
      <4>1. HoldsRow(p) /\ block_traversal[p] = block_configs
        BY <3>1 DEF HoldsRow, LevelRead
      <4> QED BY <3>3, <4>1, NewEventKept
    <3>4. BookOK'
      <4>1. PICK x : x = NewConsumeEvent(p)
        OBVIOUS
      <4>2. CASE events' = events \cup {x} /\ Checks(p)
        <5>1. events \subseteq events /\ EventKept(x) /\ x.id <= begun
          BY <3>3, <4>1, <4>2
        <5> QED BY <1>d, <3>1, <4>2, <5>1, BookStep
      <4>3. CASE events' = (events \ wiped[p]) \cup {x} /\ Checks(p)
        <5>1. PICK less : less = events \ wiped[p]
          OBVIOUS
        <5>2. /\ less \subseteq events /\ events' = less \cup {x}
              /\ EventKept(x) /\ x.id <= begun
          BY <3>3, <4>1, <4>3, <5>1
        <5> QED BY <1>d, <3>1, <5>2, BookStep
      <4>4. CASE events' = events \ wiped[p]
        <5>1. events' \subseteq events
          BY <4>4
        <5> QED BY <1>d, <3>1, <5>1, BookStep
      <4> QED BY <3>1, <4>1, <4>2, <4>3, <4>4
    <3> QED BY <3>2, <3>4
  <2> QED BY <2>1, <2>2
<1>9. CASE ReloadService(p) \/ DeadlockAbort(p)
  BY <1>9, <1>f DEF ReloadService, DeadlockAbort
<1>10. CASE DeleteServiceRow(p)
  <2>1. CASE ~Refuse(p, 204)
    <3>1. Goto(p, "cascade") /\ UNCHANGED <<events, begun>>
      BY <1>10, <2>1 DEF DeleteServiceRow, tables, request
    <3> QED BY <1>k, <1>m, <3>1
  <2> QED BY <1>f, <2>1
<1>11. CASE CascadeAndCommit(p)
  <2>1. Answer(p, 204) /\ events' \subseteq events /\ begun' = begun
    BY <1>11 DEF CascadeAndCommit, Answer
  <2> QED BY <1>d, <1>r, <2>1, BookStep
<1>12. CASE ReadLevel(p)
  <2>1. CASE ~Refuse(p, 404)
    <3>1. /\ pc[p] = "read_level" /\ pc'[p] = "adjust" /\ UNCHANGED <<events, begun, req>>
          /\ dep_battery'[p] = current_battery(events, req[p].vehicle_id)
      BY <1>d, <1>12, <2>1 DEF ReadLevel, Goto, tables, request
    <3>2. current_battery(events, req[p].vehicle_id) \in Int
      <4>1. 0 \in Int
        OBVIOUS
      <4> QED BY <4>1, LevelsKept DEF BookOK
    <3>3. LevelRead(p)'
      BY <3>1, <3>2 DEF LevelRead
    <3> QED BY <1>k, <3>1, <3>3
  <2> QED BY <1>f, <2>1
<1>13. CASE AdjustLevel(p)
  <2>1. CASE ~Refuse(p, 409)
    <3> DEFINE x == emit_manual_adjust(ticket[p], req[p].vehicle_id, dep_battery[p], req[p].level, Now)
    <3>1. Answer(p, 200) /\ events' = events \cup {x} /\ begun' = begun /\ pc[p] = "adjust"
      BY <1>13, <2>1 DEF AdjustLevel, Answer
    <3>2. /\ ticket[p] \in Nat /\ ticket[p] <= begun /\ req[p].level \in Int
          /\ dep_battery[p] \in Int /\ Now \in Int
      <4>1. req[p].op = "adjust" /\ dep_battery[p] \in Int
        BY <3>1 DEF LevelRead
      <4>2. req[p] \in Requests /\ ticket[p] \in 1 .. begun
        BY <3>1 DEF ServingInv, HandlerOK, GenLabels, LoopLabels
      <4>3. req[p].level \in Int
        <5>1. PICK r \in Requests : r = req[p]
          BY <4>2
        <5>2. r.level \in 0 .. BATTERY_MAX
          BY <4>1, <5>1, RequestsAssumption
        <5> QED BY <5>1, <5>2
      <4> QED BY <1>d, <4>1, <4>2, <4>3, ParametersAssumption
    <3>3. /\ x.id = ticket[p] /\ x.occurred_at = Now /\ x.event_type = "MANUAL_ADJUST"
          /\ x.delta = Hundredths(req[p].level - dep_battery[p])
      BY DEF emit_manual_adjust, Event
    <3> HIDE DEF x
    <3>4. InHundredths(x.delta)
      <4>1. req[p].level - dep_battery[p] \in Int
        BY <3>2
      <4> QED BY <3>3, <4>1, HundredthsKept
    <3>5. EventKept(x) /\ x.id <= begun /\ events \subseteq events
      BY <3>2, <3>3, <3>4 DEF EventKept
    <3>6. BookOK'
      BY <1>d, <3>1, <3>5, BookStep
    <3> QED BY <1>r, <3>1, <3>6
  <2> QED BY <1>f, <2>1
<1>14. CASE CountServices(p)
  <2>1. CASE \E status : Refuse(p, status)
    BY <1>f, <2>1
  <2>2. CASE ~\E status : Refuse(p, status)
    <3>1. Goto(p, "remove") /\ UNCHANGED <<events, begun>>
      BY <1>14, <2>2 DEF CountServices, tables, request
    <3> QED BY <1>k, <1>m, <3>1
  <2> QED BY <2>1, <2>2
<1>15. CASE RemoveVehicle(p)
  <2>1. CASE \E status : Refuse(p, status)
    BY <1>f, <2>1
  <2>2. CASE ~\E status : Refuse(p, status)
    <3>1. Answer(p, 204) /\ events' \subseteq events /\ begun' = begun
      BY <1>15, <2>2 DEF RemoveVehicle, Answer
    <3> QED BY <1>d, <1>r, <3>1, BookStep
  <2> QED BY <2>1, <2>2
<1>16. CASE UpdateBlock(p)
  <2>1. Answer(p, 200) /\ UNCHANGED <<events, begun>>
    BY <1>16 DEF UpdateBlock, Answer
  <2> QED BY <1>k, <1>r, <2>1
<1> QED
  BY <1>1, <1>2, <1>3, <1>4, <1>5, <1>6, <1>7, <1>8, <1>9, <1>10, <1>11, <1>12, <1>13,
     <1>14, <1>15, <1>16, <1>17, <1>18 DEF Step

-----------------------------------------------------------------------------
(***************************************************************************)
(* The ledger rows of a schedule, before it commits.                       *)
(***************************************************************************)

\* The level stored with a trip is what the ledger says, up to the rounding of a charge.
StoredWithin(ledger, trip) ==
  LET error == trip.departure_battery
                 - battery_before(ledger, trip.vehicle_id, _service_start(trip.stops))
  IN  error \in Int /\ error * 200 <= PERCENT /\ error * 200 >= -PERCENT

\* The vehicles still to come have no trip yet.
Untouched(p) ==
  /\ \A i, j \in DOMAIN plan[p].vehicles : i # j => plan[p].vehicles[i] # plan[p].vehicles[j]
  /\ \A i \in DOMAIN plan[p].vehicles \ {1} :
       /\ \A e \in plan[p].events : e.vehicle_id # plan[p].vehicles[i]
       /\ \A k \in DOMAIN plan[p].created : plan[p].created[k].vehicle_id # plan[p].vehicles[i]

\* What the vehicle at work has done so far lies before the slot; it was charged before
\* it came to stand in the yard last.
CurrentOK(p) ==
  plan[p].vehicles # << >> =>
    /\ \A e \in plan[p].events : e.vehicle_id = Current(p) /\ e.event_type = "YARD_CHARGE" =>
         /\ e.occurred_at < plan[p].slot
         /\ plan[p].last_yard_idle_since # None => e.occurred_at < plan[p].last_yard_idle_since
    /\ \A k \in DOMAIN plan[p].created : plan[p].created[k].vehicle_id = Current(p) =>
         _service_start(plan[p].created[k].stops) < plan[p].slot

\* No level goes past the limit, if none did before.
CappedSoFar(p) ==
  SchedulesAreAhead /\ LevelsUpToMax /\ (\A e \in events : e.event_type # "YARD_CHARGE") =>
    \A v \in vehicles, at \in Int : battery_at(Ledger(p), v, at) <= BATTERY_MAX

PlanCharged(p) ==
  /\ {"last_yard_idle_since", "battery_at_idle_start", "events"} \subseteq DOMAIN plan[p]
  /\ LedgerKept(Ledger(p))
  /\ \A e \in plan[p].events :
       e.id < NextKey(p) /\ e.event_type \in {"SERVICE_CONSUME", "YARD_CHARGE"}
  /\ SchedulesAreAhead => plan[p].slot >= Now
  /\ plan[p].last_yard_idle_since # None =>
       /\ plan[p].last_yard_idle_since \in Nat
       /\ SchedulesAreAhead => Now <= plan[p].last_yard_idle_since
  /\ \A k \in DOMAIN plan[p].created :
       /\ _service_start(plan[p].created[k].stops) \in Nat
       /\ StoredWithin(Ledger(p), plan[p].created[k])
  /\ Untouched(p) /\ CurrentOK(p) /\ CappedSoFar(p)

\* What the loop has read of the ledger.
IdleRead(p) ==
  plan[p].battery_at_idle_start =
    IF IdleAtYard(p) THEN battery_at(Ledger(p), Current(p), plan[p].last_yard_idle_since) ELSE None

SlotRead(p) ==
  dep_battery[p] = battery_before(Ledger(p), Current(p), plan[p].slot) + charge_delta(p)

Charging(p) ==
  pc[p] \in GenLabels =>
    /\ \A e \in events : e.id < ticket[p]
    /\ pc[p] \in {"gen_services", "gen_stops"} \cup LoopLabels => PlanCharged(p)
    /\ pc[p] \in {"gen_battery", "gen_insert"} => IdleRead(p)
    /\ pc[p] = "gen_insert" => SlotRead(p)

\* The slot moves on, or other fields change.
LEMMA PlanFrame ==
  ASSUME NEW p \in Proc, PlanOK(p), PlanCharged(p), UNCHANGED <<events, vehicles, ticket>>,
         DOMAIN plan'[p] = DOMAIN plan[p], plan'[p].vehicles = plan[p].vehicles,
         plan'[p].created = plan[p].created, plan'[p].events = plan[p].events,
         plan'[p].last_yard_idle_since = plan[p].last_yard_idle_since,
         plan'[p].slot \in Nat, plan[p].slot <= plan'[p].slot
  PROVE  PlanCharged(p)' /\ Ledger(p)' = Ledger(p) /\ Current(p)' = Current(p)
<1>1. /\ Ledger(p)' = Ledger(p) /\ Current(p)' = Current(p) /\ NextKey(p)' = NextKey(p)
      /\ LevelsUpToMax' = LevelsUpToMax
  BY DEF Ledger, Current, NextKey, LevelsUpToMax
<1>2. CappedSoFar(p)' /\ Untouched(p)'
  BY <1>1 DEF PlanCharged, CappedSoFar, Untouched
<1>3. plan[p].slot \in Nat /\ Now \in Nat
  BY ParametersAssumption DEF PlanOK
<1>4. CurrentOK(p)'
  <2>1. \A e \in plan[p].events : e.occurred_at \in Int
    BY DEF PlanCharged, LedgerKept, EventKept, Ledger
  <2> QED BY <1>1, <1>3, <2>1 DEF PlanCharged, CurrentOK
<1>5. \A k \in DOMAIN plan[p].created : StoredWithin(Ledger(p), plan[p].created[k])'
  BY <1>1 DEF PlanCharged, StoredWithin
<1> QED BY <1>1, <1>2, <1>3, <1>4, <1>5 DEF PlanCharged

LEMMA FirstIsStart ==
  ASSUME NEW r \in Generations
  PROVE  /\ FirstSlot(r, 0) = r.start_time
         /\ \A k \in 0 .. Cardinality(r.vehicle_ids) : r.start_time <= FirstSlot(r, k)
<1>1. /\ r.start_time \in Nat /\ r.interval \in Nat /\ Cardinality(r.vehicle_ids) \in Nat \ {0}
  BY GenerationsAssumption, FS_CardinalityType, FS_EmptySet
<1>2. per_vehicle_offset(r) \in Nat
  BY <1>1 DEF per_vehicle_offset
<1>3. ASSUME NEW k \in Nat PROVE per_vehicle_offset(r) * k \in Nat
  BY <1>2, <1>3, Monotone
<1> QED BY <1>1, <1>2, <1>3 DEF FirstSlot

\* A schedule begins with the ledger as it is.
LEMMA PlanStarts ==
  ASSUME DayInv, BookOK, NEW p \in Proc, ReadVehicles(p), ~GenRefuse(p, 404)
  PROVE  PlanCharged(p)'
<1> USE DEF DayInv, AloneInv
<1>1. PICK order \in SetToSeqs(req[p].vehicle_ids) :
        plan' = [plan EXCEPT ![p] =
           [vehicles |-> order, slot |-> FirstSlot(req[p], 0), last_yard_idle_since |-> None,
            battery_at_idle_start |-> None, rows |-> None, existing |-> {},
            created |-> << >>, events |-> {}]]
  BY DEF ReadVehicles
<1>2. /\ req[p] \in Generations /\ UNCHANGED <<events, vehicles, ticket>> /\ p \in DOMAIN plan
  BY DEF ReadVehicles, GenInv, GenLabels, tables, request
<1>3. /\ plan'[p].vehicles = order /\ plan'[p].slot = FirstSlot(req[p], 0)
      /\ plan'[p].created = << >> /\ plan'[p].events = {} /\ plan'[p].last_yard_idle_since = None
      /\ {"last_yard_idle_since", "battery_at_idle_start", "events"} \subseteq DOMAIN plan'[p]
  BY <1>1, <1>2
<1>4. Ledger(p)' = events
  BY <1>2, <1>3 DEF Ledger
<1>5. ASSUME SchedulesAreAhead PROVE plan'[p].slot >= Now
  <2>1. PICK r \in Generations : r = req[p]
    BY <1>2
  <2>2. r.start_time >= Now /\ Cardinality(r.vehicle_ids) \in Nat \ {0}
    BY <1>5, GenerationsAssumption, FS_CardinalityType, FS_EmptySet DEF SchedulesAreAhead
  <2>3. FirstSlot(r, 0) = r.start_time
    BY <2>2, FirstIsStart
  <2> QED BY <1>3, <2>1, <2>2, <2>3
<1>6. Untouched(p)'
  <2>1. \A i, j \in DOMAIN order : i # j => order[i] # order[j]
    BY DEF SetToSeqs, Injection, IsInjective
  <2> QED BY <1>3, <2>1 DEF Untouched
<1>7. CurrentOK(p)'
  BY <1>3 DEF CurrentOK
<1>8. CappedSoFar(p)'
  <2>1. SUFFICES ASSUME LevelsUpToMax, NEW v \in vehicles, NEW at \in Int
                 PROVE  battery_at(events, v, at) <= BATTERY_MAX
    <3>1. LevelsUpToMax' = LevelsUpToMax
      BY <1>2 DEF LevelsUpToMax
    <3> QED BY <1>2, <1>4, <3>1 DEF CappedSoFar
  <2>2. BATTERY_MAX \in Nat
    BY DEF BATTERY_MAX, PERCENT
  <2> QED BY <2>1, <2>2, LevelsBetween DEF LevelsUpToMax, BookOK
<1> QED BY <1>3, <1>4, <1>5, <1>6, <1>7, <1>8 DEF PlanCharged, BookOK

\* On to the next vehicle, which has no trip yet.
LEMMA NextVehicleCharged ==
  ASSUME DayInv, NEW p \in Proc, PlanCharged(p), NextVehicle(p)
  PROVE  PlanCharged(p)'
<1> USE DEF DayInv, AloneInv
<1> DEFINE rest == Tail(plan[p].vehicles)
           first == FirstSlot(req[p], Cardinality(req[p].vehicle_ids) - Len(rest))
<1>1. /\ pc[p] = "gen_slot" /\ plan[p].vehicles # << >>
      /\ UNCHANGED <<events, vehicles, ticket, req>>
      /\ plan' = [plan EXCEPT ![p] = [plan[p] EXCEPT !.vehicles = rest,
                     !.last_yard_idle_since = None, !.slot = first]]
  BY DEF NextVehicle, vars, tables, request
<1>2. PlanOK(p) /\ PlanFits(p) /\ req[p] \in Generations /\ p \in DOMAIN plan
  BY <1>1 DEF Generating, GenInv, GenLabels, LoopLabels
<1>3. PICK V : plan[p].vehicles \in Seq(V)
  BY <1>2 DEF PlanOK
<1>4. PICK n \in Nat \ {0} : n = Len(plan[p].vehicles)
  BY <1>1, <1>3
<1>5. /\ DOMAIN plan[p].vehicles = 1 .. n /\ Len(rest) = n - 1 /\ DOMAIN rest = 1 .. (n - 1)
      /\ \A i \in 1 .. (n - 1) : rest[i] = plan[p].vehicles[i + 1]
  BY <1>1, <1>3, <1>4
<1>6. ASSUME SchedulesAreAhead PROVE first >= Now
  <2>1. PICK r \in Generations : r = req[p]
    BY <1>2
  <2>2. PICK k : k = Cardinality(r.vehicle_ids) - Len(rest)
    OBVIOUS
  <2>3. /\ Cardinality(r.vehicle_ids) \in Nat /\ n <= Cardinality(r.vehicle_ids)
    BY <1>2, <1>4, <2>1, RequestSizes DEF PlanOK
  <2>4. k \in 0 .. Cardinality(r.vehicle_ids)
    BY <1>5, <2>2, <2>3
  <2>5. r.start_time <= FirstSlot(r, k) /\ FirstSlot(r, k) \in Nat /\ r.start_time >= Now
    BY <1>6, <2>4, FirstIsStart, FirstSlotInTime DEF SchedulesAreAhead
  <2>6. r.start_time \in Nat /\ Now \in Nat
    BY GenerationsAssumption, ParametersAssumption
  <2> QED BY <2>1, <2>2, <2>5, <2>6
<1> HIDE DEF rest, first
<1>7. plan'[p] = [plan[p] EXCEPT !.vehicles = rest, !.last_yard_idle_since = None, !.slot = first]
  BY <1>1, <1>2
<1>8. /\ DOMAIN plan'[p] = DOMAIN plan[p] /\ plan'[p].created = plan[p].created
      /\ plan'[p].events = plan[p].events /\ plan'[p].vehicles = rest
      /\ plan'[p].slot = first /\ plan'[p].last_yard_idle_since = None
  BY <1>2, <1>7 DEF PlanOK, PlanFits, PlanCharged
<1>9. Ledger(p)' = Ledger(p) /\ NextKey(p)' = NextKey(p) /\ LevelsUpToMax' = LevelsUpToMax
  BY <1>1, <1>8 DEF Ledger, NextKey, LevelsUpToMax
<1>10. Untouched(p)'
  <2>1. ASSUME NEW i \in DOMAIN rest, NEW j \in DOMAIN rest, i # j PROVE rest[i] # rest[j]
    <3>1. i + 1 \in 1 .. n /\ j + 1 \in 1 .. n /\ i + 1 # j + 1
      BY <1>4, <1>5, <2>1
    <3> QED BY <1>5, <3>1 DEF PlanCharged, Untouched
  <2>2. ASSUME NEW i \in DOMAIN rest \ {1}
        PROVE  /\ \A e \in plan[p].events : e.vehicle_id # rest[i]
               /\ \A k \in DOMAIN plan[p].created : plan[p].created[k].vehicle_id # rest[i]
    <3>1. i + 1 \in (1 .. n) \ {1} /\ rest[i] = plan[p].vehicles[i + 1]
      BY <1>4, <1>5
    <3> QED BY <1>5, <3>1 DEF PlanCharged, Untouched
  <2> QED BY <1>8, <2>1, <2>2 DEF Untouched
<1>11. CurrentOK(p)'
  <2> SUFFICES ASSUME rest # << >>
               PROVE  /\ \A e \in plan[p].events : e.vehicle_id # Head(rest)
                      /\ \A k \in DOMAIN plan[p].created : plan[p].created[k].vehicle_id # Head(rest)
    BY <1>8 DEF CurrentOK, Current
  <2>1. rest \in Seq(V) /\ Len(rest) # 0
    BY <1>1, <1>3, <1>4, <1>5 DEF rest
  <2>2. Head(rest) = plan[p].vehicles[2] /\ 2 \in (1 .. n) \ {1}
    BY <1>4, <1>5, <2>1
  <2> QED BY <1>5, <2>2 DEF PlanCharged, Untouched
<1>12. CappedSoFar(p)'
  BY <1>1, <1>9 DEF PlanCharged, CappedSoFar
<1>13. \A k \in DOMAIN plan[p].created : StoredWithin(Ledger(p), plan[p].created[k])'
  BY <1>1, <1>8, <1>9 DEF PlanCharged, StoredWithin
<1> QED BY <1>1, <1>6, <1>8, <1>9, <1>10, <1>11, <1>12, <1>13 DEF PlanCharged

\* When the trip of a slot starts and ends, and what it consumes.
LEMMA TripTimes ==
  ASSUME DayInv, NEW p \in Proc, pc[p] \in LoopLabels
  PROVE  /\ _service_start(Tuples(p)) = plan[p].slot
         /\ TripEnd(p) \in Nat /\ plan[p].slot <= TripEnd(p)
         /\ service_consume_delta(Tuples(p)) \in Int /\ service_consume_delta(Tuples(p)) <= 0
<1>1. PICK path, slot, traversal, dwell, trip :
        /\ path = DEFAULT_ROUND_TRIP /\ slot = plan[p].slot /\ traversal = block_traversal[p]
        /\ dwell = req[p].dwell /\ trip = Tuples(p)
  OBVIOUS
<1>2. /\ slot \in Nat /\ dwell \in Nat /\ traversal \in [BLOCKS -> Nat \ {0}]
  <2>1. PlanOK(p) /\ req[p] \in Generations
    BY DEF DayInv, AloneInv, GenInv, GenLabels
  <2>2. block_traversal[p] = block_configs /\ block_configs \in [BLOCKS -> Nat \ {0}]
    BY DEF DayInv, Generating, ServingInv, TimetableOK, GenLabels, LoopLabels
  <2> QED BY <1>1, <2>1, <2>2, GenerationsAssumption DEF PlanOK
<1>3. trip = _compute_stops(path, slot, traversal, dwell)
  BY <1>1 DEF Tuples
<1>4. /\ Len(path) = 17 /\ DOMAIN path = 1 .. Len(path)
      /\ \A i \in DOMAIN path : TraversalSeconds(path[i], traversal) \in Nat
  <2>1. Len(path) = 17 /\ path \in Seq(ALL_NODES)
    BY <1>1, RoundTripAccepted
  <2>2. \A node : TraversalSeconds(node, traversal) \in Nat
    BY <1>2 DEF TraversalSeconds
  <2> QED BY <2>1, <2>2
<1>5. /\ Len(trip) = Len(path) /\ DOMAIN trip = 1 .. Len(path)
      /\ _service_start(trip) = slot
      /\ _service_end(trip) \in Nat /\ slot <= _service_end(trip)
  <2>1. Len(path) \in Nat \ {0} /\ DOMAIN path = 1 .. Len(path)
    BY <1>4
  <2>2. \A i \in DOMAIN path : TraversalSeconds(path[i], traversal) \in Nat
    BY <1>4
  <2>3. slot \in Nat /\ dwell \in Nat
    BY <1>2
  <2> QED BY <1>3, <2>1, <2>2, <2>3, TripIsForward, SMTT(30)
<1>6. service_consume_delta(trip) \in Int /\ service_consume_delta(trip) <= 0
  <2>1. Len(trip) \in Nat /\ DOMAIN trip = 1 .. Len(trip)
    BY <1>4, <1>5
  <2> QED BY <2>1, ConsumesOnly
<1> QED BY <1>1, <1>5, <1>6 DEF TripEnd

LEMMA LeastOfPair ==
  ASSUME NEW a \in Int, NEW b \in Int
  PROVE  Min({a, b}) = IF a <= b THEN a ELSE b
<1>1. PICK m \in {a, b} : m = IF a <= b THEN a ELSE b
  OBVIOUS
<1>2. \A y \in {a, b} : m <= y
  BY <1>1
<1>3. \A x \in {a, b} : (\A y \in {a, b} : x <= y) => x = m
  BY <1>2
<1>4. Min({a, b}) = m
  BY <1>1, <1>2, <1>3 DEF Min
<1> QED BY <1>1, <1>4

\* The charge fills the battery at most, from the level it had when the vehicle came to
\* stand in the yard.
LEMMA ChargeFills ==
  ASSUME DayInv, NEW p \in Proc, pc[p] \in LoopLabels, PlanCharged(p), IdleRead(p),
         Current(p) \in vehicles
  PROVE  /\ charge_delta(p) \in Nat
         /\ charge_delta(p) > 0 =>
              /\ IdleAtYard(p) /\ plan[p].last_yard_idle_since \in Nat
              /\ charge_delta(p)
                   <= BATTERY_MAX - battery_at(Ledger(p), Current(p), plan[p].last_yard_idle_since)
<1>1. PICK last, level, slot :
        /\ last = plan[p].last_yard_idle_since /\ level = plan[p].battery_at_idle_start
        /\ slot = plan[p].slot
  OBVIOUS
<1>2. CASE level = None
  BY <1>1, <1>2 DEF charge_delta
<1>3. CASE level # None
  <2>1. IdleAtYard(p) /\ level = battery_at(Ledger(p), Current(p), last)
    BY <1>1, <1>3 DEF IdleRead
  <2>2. last \in Nat /\ slot \in Nat /\ last < slot
    <3>1. PlanOK(p)
      BY DEF DayInv, AloneInv, GenInv, LoopLabels
    <3> QED BY <1>1, <2>1, <3>1 DEF IdleAtYard, PlanCharged, PlanOK
  <2>3. level \in Int
    BY <2>1, <2>2, LevelsKept DEF PlanCharged
  <2>4. PICK gained \in Int, room \in Int :
          gained = (slot - last) * BATTERY_CHARGE_RATE /\ room = BATTERY_MAX - level
    <3>1. BATTERY_CHARGE_RATE = 100 /\ BATTERY_MAX = 120000
      <4>1. 1200 \div 12 = 100
        OBVIOUS
      <4> QED BY <4>1 DEF BATTERY_CHARGE_RATE, BATTERY_MAX, PERCENT
    <3> QED BY <2>2, <2>3, <3>1
  <2>5. PICK least \in Int : least = Min({gained, room}) /\ least <= room
    <3>1. Min({gained, room}) = IF gained <= room THEN gained ELSE room
      BY LeastOfPair
    <3> QED BY <3>1
  <2>6. charge_delta(p) = Max({0, least})
    BY <1>1, <1>3, <2>4, <2>5 DEF charge_delta
  <2>7. charge_delta(p) = IF least > 0 THEN least ELSE 0
    BY <2>6, PositiveMax
  <2> QED BY <1>1, <2>1, <2>2, <2>4, <2>5, <2>7
<1> QED BY <1>2, <1>3

\* The rows of a trip, and what they add before it starts.
RowsOf(v, key, slot, end, charge, cost) ==
  {emit_service_consume(key, v, key, end, cost)}
    \cup (IF charge > 0 THEN {emit_yard_charge(key, v, slot - 1, charge)} ELSE {})

Gained(charge) == IF charge > 0 THEN Hundredths(charge) ELSE 0

\* What the rows of a trip of v do to the level of a vehicle u at a time t.
TripCounts(ledger, rows, v, key, slot, gain, u, t) ==
  /\ LedgerKept(ledger \cup rows)
  /\ \A e \in rows :
       /\ e.id = key /\ e.vehicle_id = v /\ e.event_type \in {"SERVICE_CONSUME", "YARD_CHARGE"}
       /\ e.event_type = "YARD_CHARGE" => e.occurred_at = slot - 1
  /\ u # v \/ t < slot =>
       battery_before(ledger \cup rows, u, t) = battery_before(ledger, u, t)
  /\ battery_before(ledger \cup rows, v, slot) = battery_before(ledger, v, slot) + gain
  /\ u # v \/ t < slot - 1 =>
       battery_at(ledger \cup rows, u, t) <= battery_at(ledger, u, t)
  /\ \/ battery_at(ledger \cup rows, u, t) <= battery_at(ledger, u, t)
     \/ battery_at(ledger \cup rows, u, t) <= battery_at(ledger, u, t) + gain

LEMMA TripEntered ==
  ASSUME NEW ledger, LedgerKept(ledger), NEW v, NEW slot \in Nat, NEW end \in Nat, slot <= end,
         NEW key \in Nat, \A e \in ledger : e.id < key,
         NEW charge \in Nat, NEW cost \in Int, cost <= 0, NEW u, NEW t \in Int
  PROVE  TripCounts(ledger, RowsOf(v, key, slot, end, charge, cost), v, key, slot,
                    Gained(charge), u, t)
<1>e. PICK entered, gain :
        entered = RowsOf(v, key, slot, end, charge, cost) /\ gain = Gained(charge)
  OBVIOUS
<1>1. PICK consume, yard :
        /\ consume = emit_service_consume(key, v, key, end, cost)
        /\ yard = emit_yard_charge(key, v, slot - 1, charge)
  OBVIOUS
<1>2. /\ consume.id = key /\ consume.vehicle_id = v /\ consume.event_type = "SERVICE_CONSUME"
      /\ consume.occurred_at = end /\ consume.delta = Hundredths(cost)
      /\ yard.id = key /\ yard.vehicle_id = v /\ yard.event_type = "YARD_CHARGE"
      /\ yard.occurred_at = slot - 1 /\ yard.delta = Hundredths(charge)
  BY <1>1 DEF emit_service_consume, emit_yard_charge, Event
<1>3. EventKept(consume) /\ EventKept(yard) /\ consume.delta \in Int /\ consume.delta <= 0
  <2>1. /\ InHundredths(Hundredths(cost)) /\ Hundredths(cost) <= 0 /\ Hundredths(cost) \in Int
        /\ InHundredths(Hundredths(charge))
    BY HundredthsKept
  <2> QED BY <1>2, <2>1 DEF EventKept
<1>4. yard \notin ledger
  BY <1>2
<1>y. ASSUME NEW w, NEW s \in Int
      PROVE  /\ yard.vehicle_id # w \/ yard.occurred_at > s =>
                  battery_at(ledger \cup {yard}, w, s) = battery_at(ledger, w, s)
             /\ yard.vehicle_id # w \/ yard.occurred_at >= s =>
                  battery_before(ledger \cup {yard}, w, s) = battery_before(ledger, w, s)
             /\ yard.vehicle_id = w /\ yard.occurred_at <= s =>
                  battery_at(ledger \cup {yard}, w, s)
                    \in {battery_at(ledger, w, s), battery_at(ledger, w, s) + yard.delta}
             /\ yard.vehicle_id = w /\ yard.occurred_at < s /\ yard \notin ledger =>
                  battery_before(ledger \cup {yard}, w, s) = battery_before(ledger, w, s) + yard.delta
             /\ LedgerKept(ledger \cup {yard})
  <2>1. EventKept(yard)
    BY <1>3
  <2> QED BY <2>1, LevelWithEvent
<1>5. PICK more : more = IF charge > 0 THEN ledger \cup {yard} ELSE ledger
  OBVIOUS
<1>6. ledger \cup entered = more \cup {consume} /\ gain = IF charge > 0 THEN yard.delta ELSE 0
  BY <1>e, <1>1, <1>2, <1>5 DEF RowsOf, Gained
<1>7. LedgerKept(more) /\ LedgerKept(more \cup {consume})
  <2>1. LedgerKept(more)
    BY <1>5, <1>y
  <2> QED BY <1>3, <2>1, LevelWithEvent
<1>8. /\ battery_before(ledger, u, t) \in Int /\ battery_at(ledger, u, t) \in Int
      /\ battery_at(more, u, t) \in Int /\ battery_before(ledger, v, slot) \in Int
  BY <1>7, LevelsKept
<1>9. ASSUME u # v \/ t < slot
      PROVE  battery_before(more \cup {consume}, u, t) = battery_before(ledger, u, t)
  <2>1. consume.vehicle_id # u \/ consume.occurred_at >= t
    BY <1>2, <1>9
  <2>2. battery_before(more \cup {consume}, u, t) = battery_before(more, u, t)
    BY <1>3, <1>7, <2>1, LevelWithEvent
  <2>3. yard.vehicle_id # u \/ yard.occurred_at >= t
    BY <1>2, <1>9
  <2>4. battery_before(more, u, t) = battery_before(ledger, u, t)
    BY <1>5, <2>3, <1>y
  <2> QED BY <2>2, <2>4
<1>10. battery_before(more \cup {consume}, v, slot) = battery_before(ledger, v, slot) + gain
  <2>1. consume.occurred_at >= slot
    BY <1>2
  <2>2. battery_before(more \cup {consume}, v, slot) = battery_before(more, v, slot)
    BY <1>3, <1>7, <2>1, LevelWithEvent
  <2>3. PICK s \in Int : s = slot
    OBVIOUS
  <2>4. yard.vehicle_id = v /\ yard.occurred_at < s
    BY <1>2, <2>3
  <2>5. battery_before(ledger \cup {yard}, v, s) = battery_before(ledger, v, s) + yard.delta
    BY <1>4, <2>4, <1>y
  <2> QED BY <1>2, <1>5, <1>6, <1>8, <2>2, <2>3, <2>5
<1>11. battery_at(more \cup {consume}, u, t) <= battery_at(more, u, t)
  <2>1. CASE consume.vehicle_id # u \/ consume.occurred_at > t
    <3>1. battery_at(more \cup {consume}, u, t) = battery_at(more, u, t)
      BY <1>3, <1>7, <2>1, LevelWithEvent
    <3> QED BY <1>8, <3>1
  <2>2. CASE consume.vehicle_id = u /\ consume.occurred_at <= t
    <3>1. battery_at(more \cup {consume}, u, t)
            \in {battery_at(more, u, t), battery_at(more, u, t) + consume.delta}
      BY <1>3, <1>7, <2>2, LevelWithEvent
    <3> QED BY <1>3, <1>8, <3>1
  <2> QED BY <1>2, <2>1, <2>2
<1>12. u # v \/ t < slot - 1 => battery_at(more, u, t) = battery_at(ledger, u, t)
  <2>1. yard.vehicle_id # u \/ yard.occurred_at > t =>
          battery_at(ledger \cup {yard}, u, t) = battery_at(ledger, u, t)
    BY <1>y
  <2> QED BY <1>2, <1>5, <2>1
<1>13. battery_at(more, u, t) \in {battery_at(ledger, u, t), battery_at(ledger, u, t) + gain}
  <2>1. CASE u # v \/ yard.occurred_at > t
    <3>1. yard.vehicle_id # u \/ yard.occurred_at > t
      BY <1>2, <2>1
    <3>2. battery_at(ledger \cup {yard}, u, t) = battery_at(ledger, u, t)
      BY <3>1, <1>y
    <3> QED BY <1>5, <3>2
  <2>2. CASE u = v /\ yard.occurred_at <= t
    <3>1. battery_at(ledger \cup {yard}, u, t)
            \in {battery_at(ledger, u, t), battery_at(ledger, u, t) + yard.delta}
      BY <1>2, <2>2, <1>y
    <3> QED BY <1>2, <1>5, <1>6, <3>1
  <2> QED BY <1>2, <2>1, <2>2
<1>14. \A e \in entered : e \in {consume, yard}
  BY <1>e, <1>1 DEF RowsOf
<1>15. \A e \in entered :
         /\ e.id = key /\ e.vehicle_id = v /\ e.event_type \in {"SERVICE_CONSUME", "YARD_CHARGE"}
         /\ e.event_type = "YARD_CHARGE" => e.occurred_at = slot - 1
  BY <1>2, <1>14
<1>16. PICK a, b, c : /\ a = battery_at(more \cup {consume}, u, t) /\ b = battery_at(more, u, t)
                      /\ c = battery_at(ledger, u, t)
  OBVIOUS
<1>17. a \in Int /\ b \in Int /\ c \in Int /\ gain \in Int
  BY <1>2, <1>6, <1>7, <1>8, <1>16, HundredthsKept, LevelsKept
<1>18. /\ u # v \/ t < slot - 1 => a <= c
       /\ a <= c \/ a <= c + gain
  BY <1>11, <1>12, <1>13, <1>16, <1>17
<1> QED BY <1>e, <1>6, <1>7, <1>9, <1>10, <1>15, <1>16, <1>18 DEF TripCounts

\* Nothing has been added to the vehicle since it came to stand in the yard.
LEMMA FallsSinceIdle ==
  ASSUME SchedulesAreAhead, DayInv, NEW p \in Proc, PlanOK(p), PlanCharged(p), plan[p].vehicles # << >>,
         IdleAtYard(p), \A e \in events : e.event_type # "YARD_CHARGE",
         NEW t \in Int, plan[p].slot - 1 <= t
  PROVE  battery_at(Ledger(p), Current(p), t)
           <= battery_at(Ledger(p), Current(p), plan[p].last_yard_idle_since)
<1>1. PICK ledger, v, last : /\ ledger = Ledger(p) /\ v = Current(p)
                             /\ last = plan[p].last_yard_idle_since
  OBVIOUS
<1>2. last \in Nat /\ Now <= last /\ last <= t /\ Now \in Nat
  BY <1>1, ParametersAssumption DEF PlanCharged, IdleAtYard, PlanOK
<1>3. LedgerKept(ledger)
  BY <1>1 DEF PlanCharged
<1>4. ASSUME NEW e \in ledger, e.vehicle_id = v, last < e.occurred_at PROVE e.delta <= 0
  <2>1. EventKept(e)
    BY <1>3, <1>4 DEF LedgerKept
  <2>2. e.event_type # "YARD_CHARGE"
    <3>1. CASE e \in events
      BY <3>1
    <3>2. CASE e \in plan[p].events
      <4>1. e.event_type = "YARD_CHARGE" => e.occurred_at < last
        BY <1>1, <1>4, <3>2 DEF PlanCharged, CurrentOK, IdleAtYard
      <4> QED BY <1>2, <1>4, <2>1, <4>1 DEF EventKept
    <3> QED BY <1>1, <1>4, <3>1, <3>2 DEF Ledger
  <2> QED BY <1>2, <1>4, <2>1, <2>2 DEF EventKept
<1>5. battery_at(ledger, v, t) <= battery_at(ledger, v, last)
  BY <1>2, <1>3, <1>4, LevelFalls
<1> QED BY <1>1, <1>5

\* A trip is entered with its rows.
LEMMA InsertCharged ==
  ASSUME DayInv, NEW p \in Proc, InsertTrip(p), ~GenRefuse(p, 500),
         PlanCharged(p), IdleRead(p), SlotRead(p), \A e \in events : e.id < ticket[p]
  PROVE  PlanCharged(p)'
<1> USE DEF DayInv, AloneInv
<1> DEFINE trip == CandidateTrip(p, NextKey(p), dep_battery[p])
           created == Append(plan[p].created, trip)
           entered == TripEvents(p)
           evts == plan[p].events \cup entered
           since == IF DEFAULT_ROUND_TRIP[Len(DEFAULT_ROUND_TRIP)] = YARD THEN TripEnd(p) ELSE None
           ledger == Ledger(p)
           v == Current(p)
           slot == plan[p].slot
           end == TripEnd(p)
           charge == charge_delta(p)
           gain == Gained(charge)
           after == ledger \cup entered
<1>1. /\ pc[p] = "gen_insert" /\ v \in vehicles
      /\ UNCHANGED <<events, vehicles, ticket, req>>
      /\ plan' = [plan EXCEPT ![p] = [plan[p] EXCEPT !.created = created, !.events = evts,
                    !.last_yard_idle_since = since, !.slot = plan[p].slot + req[p].interval]]
  BY DEF InsertTrip, tables, request
<1>2. /\ PlanOK(p) /\ PlanFits(p) /\ req[p] \in Generations /\ p \in DOMAIN plan
      /\ plan[p].vehicles \in Seq(vehicles) /\ plan[p].vehicles # << >>
      /\ ticket[p] \in Nat \ {0} /\ pc[p] \in LoopLabels
  BY <1>1 DEF Generating, GenInv, GenLabels, LoopLabels, VehiclesRead
<1>3. PICK m \in Nat : /\ m = Len(plan[p].created) /\ DOMAIN plan[p].created = 1 .. m
                       /\ NextKey(p) = ticket[p] + m /\ NextKey(p) \in Nat
  BY <1>2 DEF PlanFits, NextKey
<1>4. /\ _service_start(Tuples(p)) = slot /\ end \in Nat /\ slot <= end
      /\ service_consume_delta(Tuples(p)) \in Int /\ service_consume_delta(Tuples(p)) <= 0
  BY <1>2, TripTimes
<1>5. /\ charge \in Nat
      /\ charge > 0 =>
              /\ IdleAtYard(p) /\ plan[p].last_yard_idle_since \in Nat
              /\ charge <= BATTERY_MAX - battery_at(ledger, v, plan[p].last_yard_idle_since)
  BY <1>1, <1>2, ChargeFills
<1>6. since = end
  BY DEF DEFAULT_ROUND_TRIP, YARD
<1>7. /\ slot \in Nat /\ req[p].interval \in Nat \ {0} /\ Now \in Nat
      /\ SchedulesAreAhead => Now <= slot
  <2>1. PICK r \in Generations : r = req[p]
    BY <1>2
  <2>2. r.interval \in Nat \ {0}
    BY GenerationsAssumption
  <2> QED BY <1>2, <2>1, <2>2, ParametersAssumption DEF PlanOK, PlanCharged
<1>8. \A e \in ledger : e.id < NextKey(p)
  <2>1. ASSUME NEW e \in events PROVE e.id < NextKey(p)
    <3>1. e.id \in Nat /\ e.id < ticket[p]
      BY <2>1 DEF PlanCharged, LedgerKept, EventKept, Ledger
    <3> QED BY <1>2, <1>3, <3>1
  <2> QED BY <2>1 DEF PlanCharged, Ledger
<1>9. LedgerKept(ledger)
  BY DEF PlanCharged
<1>10. entered = RowsOf(v, NextKey(p), slot, end, charge, service_consume_delta(Tuples(p)))
  BY DEF TripEvents, RowsOf
<1>11. trip.service_id = NextKey(p) /\ trip.vehicle_id = v /\ trip.stops = Tuples(p)
       /\ trip.departure_battery = dep_battery[p]
  BY DEF CandidateTrip
<1>12. dep_battery[p] = battery_before(ledger, v, slot) + charge
  BY DEF SlotRead
<1> HIDE DEF trip, entered, evts, since, ledger, v, slot, end, charge, gain
<1>13. PICK cost, key : cost = service_consume_delta(Tuples(p)) /\ key = NextKey(p)
  OBVIOUS
<1>14. /\ key \in Nat /\ cost \in Int /\ cost <= 0 /\ \A e \in ledger : e.id < key
       /\ entered = RowsOf(v, key, slot, end, charge, cost)
  BY <1>3, <1>4, <1>8, <1>10, <1>13
<1>15. ASSUME NEW u, NEW t \in Int
       PROVE  TripCounts(ledger, entered, v, key, slot, gain, u, t)
  <2>1. TripCounts(ledger, RowsOf(v, key, slot, end, charge, cost), v, key, slot,
                   Gained(charge), u, t)
    <3>1. /\ slot \in Nat /\ end \in Nat /\ slot <= end /\ charge \in Nat
      BY <1>4, <1>5, <1>7
    <3>2. key \in Nat /\ cost \in Int /\ cost <= 0 /\ \A e \in ledger : e.id < key
      BY <1>14
    <3> QED BY <1>9, <3>1, <3>2, TripEntered
  <2> QED BY <1>14, <2>1 DEF gain
<1>16. PICK w, zero \in Int : TRUE
  OBVIOUS
<1>17. /\ LedgerKept(after)
       /\ \A e \in entered :
                   /\ e.id = key /\ e.vehicle_id = v
                   /\ e.event_type \in {"SERVICE_CONSUME", "YARD_CHARGE"}
                   /\ e.event_type = "YARD_CHARGE" => e.occurred_at = slot - 1
       /\ battery_before(after, v, slot) = battery_before(ledger, v, slot) + gain
  BY <1>15, <1>16 DEF TripCounts, after
<1>18. plan'[p] = [plan[p] EXCEPT !.created = created, !.events = evts,
                     !.last_yard_idle_since = since, !.slot = plan[p].slot + req[p].interval]
  BY <1>1, <1>2
<1>19. /\ Len(created) = m + 1 /\ DOMAIN created = 1 .. (m + 1)
       /\ \A k \in 1 .. m : created[k] = plan[p].created[k]
       /\ created[m + 1] = trip
  <2>1. PICK V : plan[p].created \in Seq(V)
    BY <1>2 DEF PlanFits
  <2>2. plan[p].created \in Seq(V \cup {trip})
    BY <2>1
  <2> QED BY <1>3, <2>2
<1> HIDE DEF created
<1>20. /\ DOMAIN plan'[p] = DOMAIN plan[p] /\ plan'[p].created = created
       /\ plan'[p].vehicles = plan[p].vehicles /\ plan'[p].events = evts
       /\ plan'[p].last_yard_idle_since = end
       /\ plan'[p].slot = slot + req[p].interval
  BY <1>6, <1>18 DEF PlanOK, PlanFits, PlanCharged, slot
<1>21. /\ Ledger(p)' = after /\ Current(p)' = v /\ NextKey(p)' = key + 1
  <2>1. Ledger(p)' = after
    BY <1>1, <1>20 DEF Ledger, evts, ledger, after
  <2>2. Current(p)' = v
    BY <1>20 DEF Current, v
  <2>3. NextKey(p)' = key + 1
    <3>1. plan'[p].created = created /\ Len(created) = m + 1 /\ ticket'[p] = ticket[p]
      BY <1>1, <1>19, <1>20
    <3>2. NextKey(p)' = ticket[p] + (m + 1)
      BY <3>1 DEF NextKey
    <3> QED BY <1>2, <1>3, <1>13, <3>2
  <2> QED BY <2>1, <2>2, <2>3
<1> HIDE DEF after
<1>22. \A e \in evts : e.id < key + 1 /\ e.event_type \in {"SERVICE_CONSUME", "YARD_CHARGE"}
  <2>1. ASSUME NEW e \in plan[p].events PROVE e.id < key + 1
    <3>1. e.id \in Nat /\ e.id < key
      BY <1>13, <2>1 DEF PlanCharged, LedgerKept, EventKept, Ledger
    <3> QED BY <1>14, <3>1
  <2>2. ASSUME NEW e \in entered PROVE e.id < key + 1
    BY <1>14, <1>17, <2>2
  <2> QED BY <1>17, <2>1, <2>2 DEF evts, PlanCharged
<1>23. Untouched(p)'
  <2>1. /\ 1 \in DOMAIN plan[p].vehicles /\ v = plan[p].vehicles[1]
        /\ \A i \in DOMAIN plan[p].vehicles \ {1} : plan[p].vehicles[i] # v
    <3>1. 1 \in DOMAIN plan[p].vehicles /\ v = plan[p].vehicles[1]
      BY <1>2 DEF v, Current
    <3> QED BY <3>1 DEF PlanCharged, Untouched
  <2>2. ASSUME NEW i \in DOMAIN plan[p].vehicles \ {1}
        PROVE  /\ \A e \in evts : e.vehicle_id # plan[p].vehicles[i]
               /\ \A k \in DOMAIN created : created[k].vehicle_id # plan[p].vehicles[i]
    <3>1. \A e \in evts : e.vehicle_id # plan[p].vehicles[i]
      BY <1>17, <2>1 DEF evts, PlanCharged, Untouched
    <3>2. \A k \in 1 .. m : created[k].vehicle_id # plan[p].vehicles[i]
      BY <1>3, <1>19 DEF PlanCharged, Untouched
    <3>3. created[m + 1].vehicle_id # plan[p].vehicles[i]
      BY <1>11, <1>19, <2>1
    <3> QED BY <1>3, <1>19, <3>1, <3>2, <3>3
  <2> QED BY <1>20, <2>2 DEF PlanCharged, Untouched
<1>24. CurrentOK(p)'
  <2>1. ASSUME NEW e \in evts, e.vehicle_id = v, e.event_type = "YARD_CHARGE"
        PROVE  e.occurred_at < slot + req[p].interval /\ e.occurred_at < end
    <3>1. CASE e \in entered
      <4>1. e.occurred_at = slot - 1
        BY <1>17, <2>1, <3>1
      <4> QED BY <1>4, <1>7, <4>1
    <3>2. CASE e \in plan[p].events
      <4>1. e.occurred_at < slot /\ e.occurred_at \in Int
        BY <1>2, <2>1, <3>2 DEF PlanCharged, CurrentOK, LedgerKept, EventKept, Ledger, v, slot
      <4> QED BY <1>4, <1>7, <4>1
    <3> QED BY <2>1, <3>1, <3>2 DEF evts
  <2>2. ASSUME NEW k \in DOMAIN created, created[k].vehicle_id = v
        PROVE  _service_start(created[k].stops) < slot + req[p].interval
    <3>1. CASE k \in 1 .. m
      <4>1. /\ _service_start(plan[p].created[k].stops) < slot
            /\ _service_start(plan[p].created[k].stops) \in Nat
        BY <1>2, <1>3, <1>19, <2>2, <3>1 DEF PlanCharged, CurrentOK, v, slot
      <4>2. PICK start \in Nat : start = _service_start(plan[p].created[k].stops)
        BY <4>1
      <4>3. start < slot /\ slot \in Nat /\ req[p].interval \in Nat \ {0}
        BY <1>4, <1>7, <4>1, <4>2
      <4>4. start < slot + req[p].interval
        BY <4>3
      <4>5. created[k] = plan[p].created[k]
        BY <1>19, <3>1
      <4> QED BY <4>2, <4>4, <4>5
    <3>2. CASE k = m + 1
      BY <1>4, <1>7, <1>11, <1>19, <3>2
    <3> QED BY <1>3, <1>19, <2>2, <3>1, <3>2
  <2> QED BY <1>20, <1>21, <2>1, <2>2 DEF CurrentOK
<1>25. CappedSoFar(p)'
  <2>1. SUFFICES ASSUME SchedulesAreAhead, LevelsUpToMax, \A e \in events : e.event_type # "YARD_CHARGE",
                        NEW u \in vehicles, NEW t \in Int
                 PROVE  battery_at(after, u, t) <= BATTERY_MAX
    <3>1. LevelsUpToMax' = LevelsUpToMax
      BY <1>1 DEF LevelsUpToMax
    <3> QED BY <1>1, <1>21, <3>1 DEF CappedSoFar
  <2>2. PICK a, b : a = battery_at(after, u, t) /\ b = battery_at(ledger, u, t)
    OBVIOUS
  <2>3. a \in Int /\ b \in Int
    BY <1>9, <1>17, <2>2, LevelsKept
  <2>4. b <= BATTERY_MAX
    BY <2>1, <2>2 DEF PlanCharged, CappedSoFar, ledger
  <2>5. BATTERY_MAX = 120000 /\ BATTERY_MAX = 10000 * 12
    BY DEF BATTERY_MAX, PERCENT
  <2>6. CASE a <= b
    BY <2>2, <2>3, <2>4, <2>5, <2>6
  <2>7. CASE ~(a <= b)
    <3>1. /\ u = v /\ slot - 1 <= t /\ a <= b + gain
      <4>1. u = v /\ ~(t < slot - 1) /\ a <= b + gain
        BY <1>15, <2>2, <2>7 DEF TripCounts, after
      <4> QED BY <1>7, <4>1
    <3>2. charge > 0 /\ gain = Hundredths(charge)
      BY <2>3, <2>7, <3>1 DEF gain, Gained
    <3>3. PICK level : level = battery_at(ledger, v, plan[p].last_yard_idle_since)
      OBVIOUS
    <3>4. IdleAtYard(p) /\ plan[p].last_yard_idle_since \in Int /\ charge <= BATTERY_MAX - level
      BY <1>5, <3>2, <3>3
    <3>5. b <= level
      BY <1>2, <2>1, <2>2, <3>1, <3>3, <3>4, FallsSinceIdle DEF ledger, v, slot
    <3>6. InHundredths(level) /\ level \in Int
      BY <1>9, <3>3, <3>4, LevelsKept
    <3>7. InHundredths(BATTERY_MAX - level) /\ BATTERY_MAX - level \in Int
      <4>1. PICK j \in Int : level = j * 12
        BY <3>6 DEF InHundredths
      <4>2. BATTERY_MAX - level = (10000 - j) * 12
        BY <2>5, <4>1
      <4>3. 10000 - j \in Int
        OBVIOUS
      <4> QED BY <2>5, <3>6, <4>2, <4>3 DEF InHundredths
    <3>8. gain <= BATTERY_MAX - level /\ gain \in Int
      BY <1>5, <3>2, <3>4, <3>7, HundredthsKept
    <3> QED BY <2>2, <2>3, <2>5, <3>1, <3>5, <3>6, <3>8
  <2> QED BY <2>6, <2>7
<1>26. ASSUME NEW k \in DOMAIN created
       PROVE  _service_start(created[k].stops) \in Nat /\ StoredWithin(after, created[k])
  <2>1. CASE k \in 1 .. m
    <3>1. PICK old, start : old = plan[p].created[k] /\ start = _service_start(old.stops)
      OBVIOUS
    <3>2. start \in Nat /\ StoredWithin(ledger, old) /\ old = created[k]
      BY <1>3, <1>19, <2>1, <3>1 DEF PlanCharged, ledger
    <3>3. old.vehicle_id # v \/ start < slot
      BY <1>2, <1>3, <2>1, <3>1 DEF PlanCharged, CurrentOK, v, slot
    <3>4. battery_before(after, old.vehicle_id, start) = battery_before(ledger, old.vehicle_id, start)
      BY <1>15, <3>2, <3>3 DEF TripCounts, after
    <3> QED BY <3>1, <3>2, <3>4 DEF StoredWithin
  <2>2. CASE k = m + 1
    <3>1. created[k] = trip /\ _service_start(trip.stops) = slot
      BY <1>4, <1>11, <1>19, <2>2
    <3>2. battery_before(ledger, v, slot) \in Int
      BY <1>7, <1>9, LevelsKept
    <3>3. trip.departure_battery - battery_before(after, v, slot) = charge - gain
      <4>1. gain \in Int
        BY <1>5, HundredthsKept DEF gain, Gained
      <4> QED BY <1>5, <1>11, <1>12, <1>17, <3>2, <4>1
    <3>4. PICK error : error = charge - gain
      OBVIOUS
    <3>5. error \in Int /\ error * 200 <= PERCENT /\ error * 200 >= -PERCENT
      <4>1. PERCENT = 1200
        BY DEF PERCENT
      <4>2. CASE charge > 0
        <5>1. /\ Hundredths(charge) \in Int /\ (charge - Hundredths(charge)) * 200 <= PERCENT
              /\ (Hundredths(charge) - charge) * 200 <= PERCENT /\ gain = Hundredths(charge)
          BY <1>5, <4>2, HundredthsKept DEF gain, Gained
        <5> QED BY <1>5, <3>4, <4>1, <5>1
      <4>3. CASE ~(charge > 0)
        BY <1>5, <3>4, <4>1, <4>3 DEF gain, Gained
      <4> QED BY <4>2, <4>3
    <3> QED BY <1>7, <1>11, <3>1, <3>3, <3>4, <3>5 DEF StoredWithin
  <2> QED BY <1>3, <1>19, <2>1, <2>2
<1>27. SchedulesAreAhead => plan'[p].slot >= Now /\ Now <= end
  BY <1>4, <1>7, <1>20
<1> QED BY <1>4, <1>17, <1>20, <1>21, <1>22, <1>23, <1>24, <1>25, <1>26, <1>27 DEF PlanCharged, StoredWithin

\* A step of the loop at which no trip is entered.
LEMMA LoopCharged ==
  ASSUME DayInv, NEW p \in Proc, ReadIdleBattery(p) \/ CheckSlot(p), Charging(p)
  PROVE  Charging(p)'
<1> USE DEF DayInv, AloneInv, GenLabels, LoopLabels
<1>1. /\ pc[p] \in LoopLabels /\ UNCHANGED <<events, vehicles, ticket, req>>
      /\ DOMAIN pc = Proc /\ DOMAIN plan = Proc /\ DOMAIN dep_battery = Proc
  BY DEF ReadIdleBattery, CheckSlot, tables, request, GenInv, ServingInv
<1>2. /\ PlanCharged(p) /\ PlanOK(p) /\ PlanFits(p) /\ req[p] \in Generations
      /\ \A e \in events : e.id < ticket[p]
  BY <1>1 DEF Charging, GenInv, Generating
<1>3. plan[p].slot \in Nat /\ req[p].interval \in Nat
  <2>1. PICK r \in Generations : r = req[p]
    BY <1>2
  <2> QED BY <1>2, <2>1, GenerationsAssumption DEF PlanOK
<1>4. CASE ReadIdleBattery(p)
  <2>1. PICK level :
          /\ level = IF IdleAtYard(p)
                       THEN battery_at(Ledger(p), Current(p), plan[p].last_yard_idle_since) ELSE None
          /\ pc'[p] = "gen_battery"
          /\ plan' = [plan EXCEPT ![p] = [plan[p] EXCEPT !.battery_at_idle_start = level]]
    BY <1>1, <1>4 DEF ReadIdleBattery, Goto
  <2>2. plan'[p] = [plan[p] EXCEPT !.battery_at_idle_start = level]
    BY <1>1, <2>1
  <2>3. /\ DOMAIN plan'[p] = DOMAIN plan[p] /\ plan'[p].vehicles = plan[p].vehicles
        /\ plan'[p].created = plan[p].created /\ plan'[p].events = plan[p].events
        /\ plan'[p].last_yard_idle_since = plan[p].last_yard_idle_since
        /\ plan'[p].slot = plan[p].slot /\ plan'[p].battery_at_idle_start = level
    BY <1>2, <2>2 DEF PlanOK, PlanFits, PlanCharged
  <2>4. PlanCharged(p)' /\ Ledger(p)' = Ledger(p) /\ Current(p)' = Current(p)
    BY <1>1, <1>2, <1>3, <2>3, PlanFrame
  <2>5. IdleRead(p)'
    BY <2>1, <2>3, <2>4 DEF IdleRead, IdleAtYard
  <2> QED BY <1>1, <1>2, <2>1, <2>4, <2>5 DEF Charging
<1>5. CASE CheckSlot(p)
  <2>1. PICK battery :
          /\ battery = battery_before(Ledger(p), Current(p), plan[p].slot) + charge_delta(p)
          /\ IF Rejected(p, battery)
               THEN plan' = [plan EXCEPT ![p] = AfterRejection(p)] /\ Goto(p, "gen_slot")
               ELSE /\ dep_battery' = [dep_battery EXCEPT ![p] = battery]
                    /\ Goto(p, "gen_insert") /\ UNCHANGED plan
    BY <1>5, Zenon DEF CheckSlot
  <2>2. CASE Rejected(p, battery)
    <3>1. plan'[p] = [plan[p] EXCEPT !.slot = plan[p].slot + req[p].interval] /\ pc'[p] = "gen_slot"
      BY <1>1, <2>1, <2>2 DEF AfterRejection, Goto
    <3>2. /\ DOMAIN plan'[p] = DOMAIN plan[p] /\ plan'[p].vehicles = plan[p].vehicles
          /\ plan'[p].created = plan[p].created /\ plan'[p].events = plan[p].events
          /\ plan'[p].last_yard_idle_since = plan[p].last_yard_idle_since
          /\ plan'[p].slot = plan[p].slot + req[p].interval
      BY <1>2, <3>1 DEF PlanOK, PlanFits, PlanCharged
    <3>3. plan'[p].slot \in Nat /\ plan[p].slot <= plan'[p].slot
      BY <1>3, <3>2
    <3>4. PlanCharged(p)'
      BY <1>1, <1>2, <3>2, <3>3, PlanFrame
    <3> QED BY <1>1, <1>2, <3>1, <3>4 DEF Charging
  <2>3. CASE ~Rejected(p, battery)
    <3>1. dep_battery'[p] = battery /\ plan' = plan /\ pc'[p] = "gen_insert" /\ pc[p] = "gen_battery"
      BY <1>1, <1>5, <2>1, <2>3 DEF Goto, CheckSlot
    <3>2. PlanCharged(p)' /\ Ledger(p)' = Ledger(p) /\ Current(p)' = Current(p)
      BY <1>1, <1>2, <1>3, <3>1, PlanFrame
    <3>3. IdleRead(p)'
      <4>1. IdleRead(p)
        BY <3>1 DEF Charging
      <4> QED BY <3>1, <3>2, <4>1 DEF IdleRead, IdleAtYard
    <3>4. SlotRead(p)'
      <4>1. charge_delta(p)' = charge_delta(p)
        BY <3>1 DEF charge_delta
      <4> QED BY <2>1, <3>1, <3>2, <4>1 DEF SlotRead
    <3> QED BY <1>1, <1>2, <3>1, <3>2, <3>3, <3>4 DEF Charging
  <2> QED BY <2>2, <2>3
<1> QED BY <1>4, <1>5

\* The rows of a schedule come with keys reserved for it.
LEMMA FinishBooked ==
  ASSUME DayInv, BookOK, NEW p \in Proc, FinishGenerate(p), ~GenRefuse(p, 422), PlanCharged(p),
         \A e \in events : e.id < ticket[p]
  PROVE  BookOK' /\ pc'[p] = "idle" /\ events' = Ledger(p) /\ UNCHANGED <<vehicles, block_configs>>
<1> USE DEF DayInv, AloneInv, GenLabels, LoopLabels
<1>1. /\ pc[p] = "gen_slot" /\ Answer(p, 201) /\ events' = Ledger(p)
      /\ UNCHANGED <<vehicles, block_configs>>
  BY DEF FinishGenerate
<1>2. pc'[p] = "idle" /\ begun' = begun
  BY <1>1 DEF Answer, Goto, GenInv
<1>3. /\ PlanFits(p) /\ req[p] \in Generations
      /\ ticket[p] \in Nat \ {0} /\ ticket[p] + KeysFor(req[p]) - 1 <= begun /\ begun \in Nat
  <2>1. pc[p] = "gen_slot"
    BY <1>1
  <2>2. Generating(p) /\ begun \in 0 .. MaxRequests /\ MaxRequests \in Nat
    BY ParametersAssumption DEF ServingInv, TimetableOK
  <2> QED BY <2>1, <2>2 DEF Generating, GenInv
<1>4. PICK m, keys, key : m = Len(plan[p].created) /\ keys = KeysFor(req[p]) /\ key = ticket[p]
  OBVIOUS
<1>5. m \in Nat /\ m <= keys /\ keys \in Nat
  BY <1>3, <1>4, KeysSuffice, TriesFinite DEF PlanFits
<1>6. ASSUME NEW e \in Ledger(p) PROVE e.id <= begun
  <2>1. e.id \in Nat
    BY <1>6 DEF PlanCharged, LedgerKept, EventKept
  <2>2. e.id < key + m
    <3>1. CASE e \in events
      BY <1>3, <1>4, <1>5, <2>1, <3>1
    <3>2. CASE e \in plan[p].events
      BY <1>4, <3>2 DEF PlanCharged, NextKey
    <3> QED BY <1>6, <3>1, <3>2 DEF Ledger
  <2> QED BY <1>3, <1>4, <1>5, <2>1, <2>2
<1>7. BookOK'
  <2>1. PICK ledger : ledger = Ledger(p)
    OBVIOUS
  <2>2. LedgerKept(ledger) /\ \A e \in ledger : e.id <= begun
    BY <1>6, <2>1 DEF PlanCharged
  <2> QED BY <1>1, <1>2, <2>1, <2>2 DEF BookOK
<1> QED BY <1>1, <1>2, <1>7

\* The generator keeps what it has read of the ledger, and leaves it in order.
LEMMA GenStepCharged ==
  ASSUME OneHandler, DayInv, BookOK, NEW p \in Proc, Charging(p),
         BeginGenerate(p) \/ GenStep(p)
  PROVE  BookOK' /\ LevelRead(p)' /\ Charging(p)'
<1> USE DEF DayInv, AloneInv, GenLabels, LoopLabels
<1>d. DOMAIN pc = Proc /\ DOMAIN plan = Proc /\ DOMAIN ticket = Proc
  BY DEF GenInv, ServingInv
<1>k. ASSUME UNCHANGED <<events, begun>> PROVE BookOK'
  BY <1>k DEF BookOK
<1>l. ASSUME pc'[p] \in GenLabels \cup {"idle"} PROVE LevelRead(p)'
  BY <1>l DEF LevelRead
<1>i. ASSUME pc'[p] = "idle" PROVE Charging(p)'
  BY <1>i DEF Charging
<1>1. CASE BeginGenerate(p)
  <2>1. PICK r \in Generations : begun' = begun + KeysFor(r)
    BY <1>1 DEF BeginGenerate
  <2>2. pc'[p] = "gen_config" /\ ticket'[p] = begun + 1 /\ events' = events
    BY <1>d, <1>1 DEF BeginGenerate, Goto, tables
  <2>3. begun \in Nat /\ begun' \in Nat /\ begun <= begun'
    BY <2>1, TriesFinite DEF ServingInv, TimetableOK
  <2>4. BookOK'
    BY <2>2, <2>3, BookStep
  <2>5. \A e \in events : e.id < begun + 1
    BY <2>3 DEF BookOK, LedgerKept, EventKept
  <2> QED BY <1>l, <2>2, <2>4, <2>5 DEF Charging
<1>2. CASE \E status : GenRefuse(p, status)
  <2>1. PICK status : Answer(p, status) /\ UNCHANGED tables
    BY <1>2, Zenon DEF GenRefuse, Refuse
  <2>2. pc'[p] = "idle" /\ UNCHANGED <<events, begun>>
    BY <1>d, <2>1 DEF Answer, Goto, tables
  <2> QED BY <1>i, <1>k, <1>l, <2>2
<1>3. CASE ReadConfig(p)
  <2>1. /\ pc[p] = "gen_config" /\ pc'[p] = "gen_vehicles" /\ UNCHANGED <<events, begun, ticket>>
    BY <1>d, <1>3 DEF ReadConfig, Goto, tables, request
  <2> QED BY <1>k, <1>l, <2>1 DEF Charging
<1>4. CASE ReadVehicles(p) /\ ~GenRefuse(p, 404)
  <2>1. /\ pc[p] = "gen_vehicles" /\ pc'[p] = "gen_services" /\ UNCHANGED <<events, begun, ticket>>
    BY <1>d, <1>4 DEF ReadVehicles, Goto, tables, request
  <2>2. PlanCharged(p)'
    BY <1>4, PlanStarts
  <2> QED BY <1>k, <1>l, <2>1, <2>2 DEF Charging
<1>5. CASE ReadServices(p) \/ ReadStops(p)
  <2>1. /\ pc[p] \in {"gen_services", "gen_stops"} /\ pc'[p] \in {"gen_stops", "gen_slot"}
        /\ UNCHANGED <<events, vehicles, begun, ticket>>
    BY <1>d, <1>5 DEF ReadServices, ReadStops, Goto, tables, request
  <2>2. PlanCharged(p) /\ PlanOK(p) /\ PlanFits(p)
    BY <2>1 DEF Charging, GenInv, Generating
  <2>3. PICK rows, existing :
          plan' = [plan EXCEPT ![p] = [plan[p] EXCEPT !.rows = rows, !.existing = existing]]
    <3>1. CASE ReadServices(p)
      <4>1. PICK rows : plan' = [plan EXCEPT ![p] = [plan[p] EXCEPT !.rows = rows]]
        BY <3>1 DEF ReadServices
      <4>2. [plan[p] EXCEPT !.rows = rows]
              = [plan[p] EXCEPT !.rows = rows, !.existing = plan[p].existing]
        BY <2>2 DEF PlanFits
      <4> QED BY <4>1, <4>2
    <3>2. CASE ReadStops(p)
      BY <3>2 DEF ReadStops
    <3> QED BY <1>5, <3>1, <3>2
  <2>4. plan'[p] = [plan[p] EXCEPT !.rows = rows, !.existing = existing]
    BY <1>d, <2>3
  <2>5. /\ DOMAIN plan'[p] = DOMAIN plan[p] /\ plan'[p].vehicles = plan[p].vehicles
        /\ plan'[p].created = plan[p].created /\ plan'[p].events = plan[p].events
        /\ plan'[p].last_yard_idle_since = plan[p].last_yard_idle_since
        /\ plan'[p].slot = plan[p].slot
    BY <2>2, <2>4 DEF PlanOK, PlanFits, PlanCharged
  <2>6. plan[p].slot \in Nat
    BY <2>2 DEF PlanOK
  <2>7. PlanCharged(p)'
    BY <2>1, <2>2, <2>5, <2>6, PlanFrame
  <2> QED BY <1>k, <1>l, <2>1, <2>7 DEF Charging
<1>6. CASE NextVehicle(p)
  <2>1. /\ pc[p] = "gen_slot" /\ pc'[p] = "gen_slot" /\ UNCHANGED <<events, begun, ticket>>
    BY <1>6 DEF NextVehicle, vars, tables, request
  <2>2. PlanCharged(p)
    BY <2>1 DEF Charging
  <2>3. PlanCharged(p)'
    BY <1>6, <2>2, NextVehicleCharged
  <2> QED BY <1>k, <1>l, <2>1, <2>3 DEF Charging
<1>7. CASE ReadIdleBattery(p) \/ CheckSlot(p)
  <2>1. UNCHANGED <<events, begun>> /\ pc'[p] \in GenLabels
    BY <1>d, <1>7 DEF ReadIdleBattery, CheckSlot, Goto, tables, request
  <2>2. Charging(p)'
    BY <1>7, LoopCharged
  <2> QED BY <1>k, <1>l, <2>1, <2>2
<1>8. CASE InsertTrip(p) /\ ~GenRefuse(p, 500)
  <2>1. /\ pc[p] = "gen_insert" /\ pc'[p] = "gen_slot" /\ UNCHANGED <<events, begun, ticket>>
    BY <1>d, <1>8 DEF InsertTrip, Goto, tables, request
  <2>2. PlanCharged(p) /\ IdleRead(p) /\ SlotRead(p) /\ \A e \in events : e.id < ticket[p]
    BY <2>1 DEF Charging
  <2>3. PlanCharged(p)'
    BY <1>8, <2>2, InsertCharged
  <2> QED BY <1>k, <1>l, <2>1, <2>2, <2>3 DEF Charging
<1>9. CASE FinishGenerate(p) /\ ~GenRefuse(p, 422)
  <2>1. pc[p] = "gen_slot"
    BY <1>9 DEF FinishGenerate
  <2>2. PlanCharged(p) /\ \A e \in events : e.id < ticket[p]
    BY <2>1 DEF Charging
  <2>3. BookOK' /\ pc'[p] = "idle"
    BY <1>9, <2>2, FinishBooked
  <2> QED BY <1>i, <1>l, <2>3
<1> QED BY <1>1, <1>2, <1>3, <1>4, <1>5, <1>6, <1>7, <1>8, <1>9 DEF GenStep

\* Ledger, reads and plans of a process that serves one request at a time.
ChargeInv == DayInv /\ BookOK /\ \A p \in Proc : LevelRead(p) /\ Charging(p)

LEMMA ChargeStarts == GenInit => ChargeInv
<1> SUFFICES ASSUME GenInit PROVE ChargeInv
  OBVIOUS
<1>1. events = {emit_baseline(v, BATTERY_INITIAL) : v \in Vehicle} /\ begun = 0
      /\ pc = [p \in Proc |-> "idle"]
  BY DEF GenInit, Init
<1>2. ASSUME NEW v PROVE EventKept(emit_baseline(v, BATTERY_INITIAL))
  <2>1. BATTERY_INITIAL \in Int /\ BATTERY_BASELINE_EPOCH \in Int /\ BATTERY_BASELINE_EPOCH <= 0
    BY DEF BATTERY_INITIAL, BATTERY_BASELINE_EPOCH, PERCENT
  <2>2. InHundredths(Hundredths(BATTERY_INITIAL)) /\ Now \in Nat
    BY <2>1, HundredthsKept, ParametersAssumption
  <2> QED BY <2>1, <2>2 DEF EventKept, emit_baseline, Event
<1>3. ASSUME NEW v PROVE IsFiniteSet(EventsOf(events, v))
  <2>1. EventsOf(events, v) \subseteq {emit_baseline(v, BATTERY_INITIAL)}
    BY <1>1 DEF EventsOf, emit_baseline, Event
  <2>2. IsFiniteSet({emit_baseline(v, BATTERY_INITIAL)})
    BY FS_Singleton
  <2> QED BY <2>1, <2>2, FS_Subset
<1>4. BookOK
  <2>1. \A e \in events : e.id <= begun
    BY <1>1 DEF emit_baseline, Event
  <2>2. \A e \in events : EventKept(e)
    BY <1>1, <1>2
  <2> QED BY <1>3, <2>1, <2>2 DEF BookOK, LedgerKept
<1>5. \A p \in Proc : LevelRead(p) /\ Charging(p)
  BY <1>1 DEF LevelRead, Charging, GenLabels, LoopLabels
<1> QED BY <1>4, <1>5, DayStarts DEF ChargeInv

LEMMA ChargeKeeps ==
  ASSUME OneHandler, RowsAreRows, ChargeInv, [GenNext]_gvars
  PROVE  ChargeInv'
<1>1. DayInv'
  BY DayKeeps DEF ChargeInv
<1>2. ASSUME NEW p \in Proc, BeginGenerate(p) \/ GenStep(p)
      PROVE  ChargeInv'
  <2>1. BookOK' /\ LevelRead(p)' /\ Charging(p)'
    BY <1>2, GenStepCharged DEF ChargeInv
  <2>2. \A q \in Proc : q = p
    BY DEF OneHandler
  <2> QED BY <1>1, <2>1, <2>2 DEF ChargeInv
<1>3. ASSUME NEW p \in Proc, HandlerStep(p) \/ (Begin(p) /\ UNCHANGED plan)
      PROVE  ChargeInv'
  <2>1. Begin(p) \/ Step(p)
    BY <1>3 DEF HandlerStep
  <2>2. BookOK' /\ LevelRead(p)'
    BY <2>1, BookHandled DEF ChargeInv
  <2>3. Charging(p)'
    <3>1. pc'[p] \notin GenLabels
      BY <2>1, HandlersApart DEF ChargeInv, DayInv, AloneInv
    <3> QED BY <3>1 DEF Charging
  <2>4. \A q \in Proc : q = p
    BY DEF OneHandler
  <2> QED BY <1>1, <2>2, <2>3, <2>4 DEF ChargeInv
<1>4. CASE UNCHANGED gvars \/ (Served /\ UNCHANGED plan)
  <2>1. UNCHANGED <<vehicles, services, events, block_configs, wiped, pc, req, ticket, begun,
                    loaded, block_traversal, dep_battery, reply, plan>>
    BY <1>4 DEF gvars, vars, tables, request, reads, Served
  <2>2. BookOK'
    BY <2>1 DEF ChargeInv, BookOK
  <2>3. ASSUME NEW p \in Proc PROVE LevelRead(p)'
    <3>1. LevelRead(p) /\ Checks(p)' = Checks(p) /\ TargetVehicle(p)' = TargetVehicle(p)
          /\ StopTuples(p)' = StopTuples(p)
      BY <2>1 DEF ChargeInv, Checks, Creating, Rechecked, Reassigning, TargetVehicle, StopTuples,
                  StopsForCheck
    <3> QED BY <2>1, <3>1 DEF LevelRead
  <2>4. ASSUME NEW p \in Proc PROVE Charging(p)'
    <3>1. /\ Ledger(p)' = Ledger(p) /\ Current(p)' = Current(p) /\ NextKey(p)' = NextKey(p)
          /\ LevelsUpToMax' = LevelsUpToMax /\ IdleAtYard(p)' = IdleAtYard(p)
          /\ charge_delta(p)' = charge_delta(p)
      BY <2>1 DEF Ledger, Current, NextKey, LevelsUpToMax, IdleAtYard, charge_delta
    <3>2. IdleRead(p)' = IdleRead(p) /\ SlotRead(p)' = SlotRead(p)
      BY <2>1, <3>1 DEF IdleRead, SlotRead
    <3>3. Untouched(p)' = Untouched(p) /\ CurrentOK(p)' = CurrentOK(p)
          /\ CappedSoFar(p)' = CappedSoFar(p)
      BY <2>1, <3>1 DEF Untouched, CurrentOK, CappedSoFar
    <3>4. PlanCharged(p)' = PlanCharged(p)
      BY <2>1, <3>1, <3>3 DEF PlanCharged, StoredWithin
    <3> QED BY <2>1, <3>2, <3>4 DEF ChargeInv, Charging
  <2> QED BY <1>1, <2>2, <2>3, <2>4 DEF ChargeInv
<1> QED BY <1>2, <1>3, <1>4 DEF GenNext

LEMMA ChargeInvariant ==
  ASSUME OneHandler, RowsAreRows
  PROVE  GenSpec => []ChargeInv
BY ChargeStarts, ChargeKeeps, PTL DEF GenSpec

\* With one process at work and no schedule asked for that has begun: a schedule that is
\* committed to a ledger within the limit and without charges leaves every vehicle within
\* the limit, after each of its events, although each charge was computed from the level
\* at the start of the idle time and is dated at its end.
THEOREM ChargingStopsAtMax ==
  ASSUME OneHandler, RowsAreRows, SchedulesAreAhead
  PROVE  GenSpec => ChargeIsCapped
<1>1. ChargeInv /\ [GenNext]_gvars =>
        [\A p \in Proc :
           Commits(p) /\ LevelsUpToMax /\ (\A e \in events : e.event_type # "YARD_CHARGE")
             => LevelsUpToMax']_gvars
  <2> SUFFICES ASSUME ChargeInv, [GenNext]_gvars, NEW p \in Proc, Commits(p), LevelsUpToMax,
                      \A e \in events : e.event_type # "YARD_CHARGE"
               PROVE  LevelsUpToMax'
    OBVIOUS
  <2>1. FinishGenerate(p) /\ ~GenRefuse(p, 422)
    BY CommitStores DEF ChargeInv
  <2>2. PlanCharged(p) /\ \A e \in events : e.id < ticket[p]
    BY DEF ChargeInv, Charging, Commits, GenLabels, LoopLabels
  <2>3. events' = Ledger(p) /\ vehicles' = vehicles
    BY <2>1, <2>2, FinishBooked DEF ChargeInv
  <2>4. PICK ledger : ledger = Ledger(p)
    OBVIOUS
  <2>5. \A v \in vehicles, at \in Int : battery_at(ledger, v, at) <= BATTERY_MAX
    BY <2>2, <2>4 DEF PlanCharged, CappedSoFar
  <2>6. \A v \in vehicles : \A e \in EventsOf(ledger, v) : e.occurred_at \in Int
    BY <2>2, <2>4 DEF PlanCharged, LedgerKept, EventKept, EventsOf
  <2>7. \A v \in vehicles : \A e \in EventsOf(ledger, v) :
          battery_at(ledger, v, e.occurred_at) <= BATTERY_MAX
    BY <2>5, <2>6
  <2> QED BY <2>3, <2>4, <2>7 DEF LevelsUpToMax
<1> QED BY <1>1, ChargeInvariant, PTL DEF GenSpec, ChargeIsCapped

\* No accepted payload ends before it starts, however long the blocks take.
ForwardPayloads ==
  \A r \in Requests :
    r.op \in {"create", "update"} /\ r.stops # None /\ ~PayloadErrors(r.stops) =>
      \A traversal \in [BLOCKS -> Nat \ {0}] :
        \A tuples \in {SnapshotStops(r.stops, traversal)} :
          _service_start(tuples) <= _service_end(tuples)

\* The level stored with a service is what a ledger says of the instant before it starts.
LevelStored(row, ledger, start) ==
  LET error == row.departure_battery - battery_before(ledger, row.vehicle_id, start)
  IN  error * 200 <= PERCENT /\ error * 200 >= -PERCENT

\* A write stores the level it has read: its own event comes after the start.
LEMMA CommitStoresRead ==
  ASSUME ForwardPayloads, DayInv, BookOK, NEW p \in Proc, LevelRead(p), pc[p] = "commit",
         Checks(p), req[p].stops # None,
         events' = (events \ wiped[p]) \cup {NewConsumeEvent(p)},
         NEW s \in ServiceId, NEW row, row.vehicle_id = TargetVehicle(p),
         row.departure_battery = dep_battery[p], row.stops = StopRows(ticket[p], req[p].stops)
  PROVE  LevelStored(row, events', _snap_window(SnapshotOf(s, row, block_configs)).enter)
<1> USE DEF DayInv, AloneInv
<1>1. HoldsRow(p) /\ block_traversal[p] = block_configs
  BY DEF HoldsRow, LevelRead
<1>2. PICK stops, tuples, x, v, start, end, less :
        /\ stops = req[p].stops /\ tuples = StopTuples(p) /\ x = NewConsumeEvent(p)
        /\ v = TargetVehicle(p) /\ start = _service_start(StopTuples(p))
        /\ end = _service_end(StopTuples(p)) /\ less = events \ wiped[p]
  OBVIOUS
<1>3. /\ tuples = SnapshotStops(stops, block_configs) /\ start \in Nat /\ end \in Nat
  BY <1>1, <1>2, CheckedStops DEF StopsForCheck
<1>4. EventKept(x) /\ x.vehicle_id = v /\ x.occurred_at = end
  BY <1>1, <1>2, NewEventKept
<1>5. /\ req[p] \in Requests /\ req[p].op \in {"create", "update"} /\ ~PayloadErrors(req[p].stops)
      /\ block_configs \in [BLOCKS -> Nat \ {0}]
  <2>1. HandlerOK(p)
    BY DEF ServingInv
  <2>2. pc[p] \notin {"idle"} \cup GenLabels
    BY DEF GenLabels, LoopLabels
  <2> QED BY <1>1, <2>1, <2>2 DEF HandlerOK, ServingInv, TimetableOK
<1>6. start <= end
  <2>1. _service_start(tuples) <= _service_end(tuples)
    BY <1>2, <1>3, <1>5 DEF ForwardPayloads
  <2> QED BY <1>2, <2>1
<1>7. StopsIn(row) = stops
  <2>1. SchemaAccepts(stops)
    BY <1>2, <1>5, RequestStops
  <2> QED BY <1>2, <2>1, StopsReadBack
<1>8. _snap_window(SnapshotOf(s, row, block_configs)).enter = start
  BY <1>2, <1>3, <1>7 DEF _snap_window, SnapshotOf, _service_start
<1>9. LedgerKept(less)
  BY <1>2, LedgerShrinks DEF BookOK
<1>10. dep_battery[p] = battery_before(less, v, start)
  BY <1>2 DEF LevelRead
<1>11. battery_before(less \cup {x}, v, start) = battery_before(less, v, start)
  <2>1. PICK t \in Int : t = start
    BY <1>3
  <2>2. x.occurred_at >= t
    BY <1>3, <1>4, <1>6, <2>1
  <2>3. x.vehicle_id # v \/ x.occurred_at >= t =>
          battery_before(less \cup {x}, v, t) = battery_before(less, v, t)
    <3>1. EventKept(x)
      BY <1>4
    <3> QED BY <1>9, <2>1, <3>1, LevelWithEvent
  <2> QED BY <2>1, <2>2, <2>3
<1>12. battery_before(less, v, start) \in Int
  BY <1>3, <1>9, LevelsKept
<1>13. row.departure_battery - battery_before(events', row.vehicle_id, start) = 0
  BY <1>2, <1>10, <1>11, <1>12
<1>14. 0 * 200 <= PERCENT /\ 0 * 200 >= -PERCENT
  BY DEF PERCENT
<1> QED BY <1>8, <1>13, <1>14 DEF LevelStored

\* Only an update deletes consume events before its commit.
WipedOK(p) ==
  /\ pc[p] \in {"wipe", "wipe_wait"} => ~Creating(p)
  /\ pc[p] \notin {"wipe_wait", "battery", "siblings", "commit"} \/ Creating(p) => wiped[p] = {}

WipedInv ==
  /\ DOMAIN pc = Proc /\ DOMAIN req = Proc /\ DOMAIN wiped = Proc /\ \A p \in Proc : WipedOK(p)

LEMMA WipedStep ==
  ASSUME OneHandler, WipedInv, NEW p \in Proc, Begin(p) \/ Step(p)
  PROVE  WipedInv'
<1> USE DEF OneHandler, WipedInv, WipedOK, Creating
<1>a. ASSUME NEW status, Answer(p, status) PROVE WipedInv'
  BY <1>a DEF Answer, EndTransaction, Goto
<1>r. ASSUME NEW status, Refuse(p, status) PROVE WipedInv'
  BY <1>a, <1>r DEF Refuse
<1>m. ASSUME NEW label, Goto(p, label), UNCHANGED <<wiped, req>>,
             label \notin {"wipe", "wipe_wait", "battery", "siblings", "commit"},
             pc[p] \notin {"wipe_wait", "battery", "siblings", "commit"}
      PROVE  WipedInv'
  BY <1>m DEF Goto
<1>1. CASE Begin(p)
  <2>1. PICK r \in Requests : /\ req' = [req EXCEPT ![p] = r] /\ Goto(p, FirstStatement(r.op))
                              /\ wiped' = wiped /\ pc[p] = "idle"
    BY <1>1 DEF Begin
  <2>2. FirstStatement(r.op) \in {"lock", "load", "read_level", "count", "block"}
    BY RequestTyped DEF FirstStatement
  <2>3. pc'[p] = FirstStatement(r.op)
    BY <2>1 DEF Goto
  <2> QED BY <2>1, <2>2, <2>3 DEF Goto
<1>2. CASE LoadService(p)
  BY <1>2, <1>r, <1>m DEF LoadService, request
<1>14. CASE LoadStops(p)
  BY <1>14, <1>m DEF LoadStops, request
<1>3. CASE LockVehicle(p)
  BY <1>3, <1>r, <1>m DEF LockVehicle, request
<1>4. CASE ReadTraversal(p)
  BY <1>4 DEF ReadTraversal, Goto, request
<1>5. CASE WipeConsume(p) \/ ResumeWipe(p)
  BY <1>5 DEF WipeConsume, ResumeWipe, Goto, request
<1>6. CASE ReadBattery(p)
  BY <1>6, <1>r DEF ReadBattery, Goto, request
<1>7. CASE CheckSiblings(p)
  BY <1>7, <1>r DEF CheckSiblings, Goto, request
<1>8. CASE CommitCreate(p) \/ CommitUpdate(p)
  BY <1>8, <1>r DEF CommitCreate, CommitUpdate, EndTransaction, Goto, request
<1>9. CASE ReloadService(p) \/ CascadeAndCommit(p) \/ DeadlockAbort(p) \/ UpdateBlock(p)
  BY <1>9, <1>a, <1>r DEF ReloadService, CascadeAndCommit, DeadlockAbort, UpdateBlock
<1>10. CASE DeleteServiceRow(p)
  BY <1>10, <1>r, <1>m DEF DeleteServiceRow, request
<1>11. CASE ReadLevel(p)
  BY <1>11, <1>r, <1>m DEF ReadLevel, request
<1>12. CASE AdjustLevel(p) \/ RemoveVehicle(p)
  BY <1>12, <1>a, <1>r DEF AdjustLevel, RemoveVehicle
<1>13. CASE CountServices(p)
  BY <1>13, <1>r, <1>m DEF CountServices, request
<1> QED
  BY <1>1, <1>2, <1>3, <1>4, <1>5, <1>6, <1>7, <1>8, <1>9, <1>10, <1>11, <1>12, <1>13, <1>14 DEF Step

\* The generator deletes nothing.
LEMMA WipedGen ==
  ASSUME OneHandler, GenInv, WipedInv, NEW p \in Proc, BeginGenerate(p) \/ GenStep(p)
  PROVE  WipedInv'
<1> USE DEF OneHandler, WipedInv, WipedOK, Creating
<1>1. CASE \E status : Answer(p, status)
  BY <1>1 DEF Answer, EndTransaction, Goto
<1>2. CASE ~\E status : Answer(p, status)
  <2>1. wiped' = wiped
    BY <1>2
       DEF BeginGenerate, GenStep, ReadConfig, ReadVehicles, ReadServices, ReadStops, NextVehicle,
           ReadIdleBattery, CheckSlot, InsertTrip, FinishGenerate, GenRefuse, Refuse, vars
  <2>2. pc[p] \in {"idle"} \cup GenLabels
    BY <1>2
       DEF BeginGenerate, GenStep, ReadConfig, ReadVehicles, ReadServices, ReadStops, NextVehicle,
           ReadIdleBattery, CheckSlot, InsertTrip, FinishGenerate, GenLabels, LoopLabels
  <2>3. DOMAIN pc' = Proc /\ DOMAIN req' = Proc /\ pc'[p] \in GenLabels
    BY <1>2
       DEF BeginGenerate, GenStep, ReadConfig, ReadVehicles, ReadServices, ReadStops, NextVehicle,
           ReadIdleBattery, CheckSlot, InsertTrip, FinishGenerate, GenRefuse, Refuse, vars, request,
           Goto, GenLabels, LoopLabels
  <2> QED BY <2>1, <2>2, <2>3 DEF GenLabels, LoopLabels
<1> QED BY <1>1, <1>2

LEMMA WipedKeeps ==
  ASSUME OneHandler, GenInv, WipedInv, [GenNext]_gvars
  PROVE  WipedInv'
<1>1. CASE UNCHANGED gvars \/ (Served /\ UNCHANGED plan)
  <2>1. UNCHANGED <<pc, req, wiped>>
    BY <1>1 DEF gvars, vars, request, Served
  <2> QED BY <2>1 DEF WipedInv, WipedOK, Creating
<1>2. ASSUME NEW p \in Proc, HandlerStep(p) \/ (Begin(p) /\ UNCHANGED plan) PROVE WipedInv'
  <2>1. Begin(p) \/ Step(p)
    BY <1>2 DEF HandlerStep
  <2> QED BY <2>1, WipedStep
<1> QED BY <1>1, <1>2, WipedGen DEF GenNext

\* The rows of services a lone handler leaves.
LEMMA HandlerStores ==
  ASSUME ForwardPayloads, DayInv, BookOK, WipedInv, NEW p \in Proc, LevelRead(p),
         Begin(p) \/ Step(p),
         NEW s \in ServiceId, services'[s] # None,
         services[s] = None \/ services[s].stops # services'[s].stops
  PROVE  LevelStored(services'[s], events', _snap_window(SnapshotOf(s, services'[s], block_configs')).enter)
<1> USE DEF DayInv, AloneInv
<1>d. DOMAIN services = ServiceId /\ services' # services
  BY DEF ServingInv, TimetableOK
<1>1. CASE CommitCreate(p)
  <2>1. PICK row : /\ services' = [services EXCEPT ![ticket[p]] = row]
                   /\ row = [vehicle_id |-> req[p].vehicle_id,
                             stops |-> StopRows(ticket[p], req[p].stops),
                             departure_battery |-> dep_battery[p]]
    BY <1>1 DEF CommitCreate
  <2>2. /\ pc[p] = "commit" /\ req[p].op = "create" /\ Checks(p) /\ block_configs' = block_configs
        /\ events' = events \cup {NewConsumeEvent(p)}
    BY <1>1 DEF CommitCreate, Checks, Creating
  <2>3. req[p] \in Requests /\ req[p].stops # None /\ req[p].vehicle_id = TargetVehicle(p)
    <3>1. req[p] \in Requests
      BY <2>2 DEF ServingInv, HandlerOK, GenLabels, LoopLabels
    <3>2. req[p].vehicle_id \in Vehicle /\ None \notin Vehicle
      BY <2>2, <3>1, RequestTyped, ParametersAssumption
    <3> QED BY <2>2, <3>1, <3>2, RequestStops DEF TargetVehicle
  <2>4. events' = (events \ wiped[p]) \cup {NewConsumeEvent(p)}
    BY <2>2 DEF WipedInv, WipedOK, Creating
  <2>5. s = ticket[p] /\ services'[s] = row
    BY <1>d, <2>1
  <2>6. LevelStored(row, events', _snap_window(SnapshotOf(s, row, block_configs)).enter)
    BY <2>1, <2>2, <2>3, <2>4, CommitStoresRead
  <2> QED BY <2>2, <2>5, <2>6
<1>2. CASE CommitUpdate(p)
  <2>1. PICK b, row :
          /\ b = req[p].service_id /\ row = UpdatedRow(p) /\ services' = [services EXCEPT ![b] = row]
          /\ events' = (events \ wiped[p]) \cup (IF Rechecked(p) THEN {NewConsumeEvent(p)} ELSE {})
          /\ block_configs' = block_configs
    BY <1>d, <1>2 DEF CommitUpdate, Refuse, tables
  <2>2. s = b /\ services'[s] = row
    BY <1>d, <2>1
  <2>3. pc[p] = "commit" /\ req[p].op = "update" /\ loaded[p] # None /\ services[b] = loaded[p]
    BY <1>2, <2>1 DEF CommitUpdate, ReadsHold, Updating
  <2>4. req[p].stops # None
    <3>1. services[b] # None
      BY <2>3
    <3>2. SUFFICES ASSUME req[p].stops = None PROVE row.stops = services[b].stops
      BY <2>2, <3>1
    <3> QED BY <2>1, <3>2 DEF UpdatedRow, StopsAfterUpdate
  <2>5. Rechecked(p) /\ Checks(p)
    BY <2>4 DEF Rechecked, Checks
  <2>6. row.stops = StopRows(ticket[p], req[p].stops)
    <3>1. RowsKept(p) = {}
      BY <2>1, <2>3 DEF RowsKept
    <3> QED BY <2>1, <2>4, <3>1 DEF UpdatedRow, StopsAfterUpdate
  <2>7. row.departure_battery = dep_battery[p]
    BY <2>1, <2>3, <2>5 DEF UpdatedRow
  <2>8. row.vehicle_id = TargetVehicle(p)
    BY <2>1, <2>3 DEF UpdatedRow, Reassigning, TargetVehicle
  <2>9. LevelStored(row, events', _snap_window(SnapshotOf(s, row, block_configs)).enter)
    BY <2>1, <2>3, <2>4, <2>5, <2>6, <2>7, <2>8, CommitStoresRead
  <2> QED BY <2>1, <2>2, <2>9
<1>3. CASE ~(CommitCreate(p) \/ CommitUpdate(p))
  <2>r. ASSUME NEW status, Refuse(p, status) PROVE services' = services
    BY <2>r DEF Refuse, tables
  <2>1. CASE CascadeAndCommit(p)
    <3>1. PICK b : services' = [services EXCEPT ![b] = None]
      BY <2>1 DEF CascadeAndCommit
    <3>2. s # b /\ services'[s] = services[s]
      BY <1>d, <3>1
    <3> QED BY <3>2
  <2>2. CASE Begin(p)
    BY <1>d, <2>2 DEF Begin, tables
  <2>3. CASE LoadService(p) \/ LoadStops(p) \/ LockVehicle(p) \/ ReadTraversal(p)
    BY <1>d, <2>r, <2>3 DEF LoadService, LoadStops, LockVehicle, ReadTraversal, tables
  <2>4. CASE WipeConsume(p) \/ ResumeWipe(p) \/ ReadBattery(p)
    BY <1>d, <2>r, <2>4 DEF WipeConsume, ResumeWipe, ReadBattery, tables
  <2>5. CASE CheckSiblings(p) \/ ReloadService(p) \/ DeleteServiceRow(p) \/ DeadlockAbort(p)
    BY <1>d, <2>r, <2>5 DEF CheckSiblings, ReloadService, DeleteServiceRow, DeadlockAbort, tables
  <2>6. CASE ReadLevel(p) \/ AdjustLevel(p)
    BY <1>d, <2>r, <2>6 DEF ReadLevel, AdjustLevel, tables
  <2>7. CASE CountServices(p) \/ RemoveVehicle(p) \/ UpdateBlock(p)
    BY <1>d, <2>r, <2>7 DEF CountServices, RemoveVehicle, UpdateBlock, tables
  <2> QED BY <1>3, <2>1, <2>2, <2>3, <2>4, <2>5, <2>6, <2>7 DEF Step
<1> QED BY <1>1, <1>2, <1>3

\* The trips of a schedule are stored as they were placed.
LEMMA FinishStoresLevels ==
  ASSUME RowsAreRows, DayInv, NEW p \in Proc, FinishGenerate(p), ~GenRefuse(p, 422),
         PlanCharged(p), NEW s \in ServiceId, services'[s] # services[s]
  PROVE  LevelStored(services'[s], Ledger(p),
                     _snap_window(SnapshotOf(s, services'[s], block_configs)).enter)
<1> USE DEF DayInv, AloneInv
<1>1. /\ pc[p] = "gen_slot"
      /\ services' = [t \in ServiceId |->
           IF \E trip \in Range(plan[p].created) : trip.service_id = t
             THEN TripRow(plan[p].created[t - ticket[p] + 1]) ELSE services[t]]
  BY DEF FinishGenerate
<1>2. /\ PlanFits(p) /\ DayPlanned(p) /\ req[p] \in Generations
      /\ ticket[p] \in Nat \ {0} /\ block_configs \in [BLOCKS -> Nat \ {0}]
  BY <1>1 DEF Generating, GenInv, GenLabels, LoopLabels, ServingInv, TimetableOK
<1>3. PICK created, first, m : /\ created = plan[p].created /\ first = ticket[p] /\ m = Len(created)
  OBVIOUS
<1>4. m \in Nat /\ DOMAIN created = 1 .. m
  BY <1>2, <1>3 DEF PlanFits
<1>5. \E trip \in Range(created) : trip.service_id = s
  BY <1>1, <1>3
<1>6. PICK k \in 1 .. m : created[k].service_id = s
  BY <1>4, <1>5 DEF Range
<1>7. PICK trip : trip = created[k]
  OBVIOUS
<1>8. MadeTrip(p, trip, first + k - 1)
  BY <1>2, <1>3, <1>7 DEF DayPlanned
<1>9. s = first + k - 1
  BY <1>6, <1>7, <1>8 DEF MadeTrip
<1>10. s - first + 1 = k
  BY <1>2, <1>3, <1>9
<1>11. services'[s] = TripRow(trip)
  BY <1>1, <1>3, <1>5, <1>7, <1>10
<1>12. SnapshotOf(s, TripRow(trip), block_configs) = trip
  BY <1>2, <1>8, <1>9, TripReadsBack
<1>13. StoredWithin(Ledger(p), trip)
  BY <1>3, <1>4, <1>7 DEF PlanCharged
<1>14. /\ TripRow(trip).vehicle_id = trip.vehicle_id
       /\ TripRow(trip).departure_battery = trip.departure_battery
  BY DEF TripRow
<1>15. _snap_window(trip).enter = _service_start(trip.stops)
  BY DEF _snap_window, _service_start
<1> QED BY <1>11, <1>12, <1>13, <1>14, <1>15 DEF StoredWithin, LevelStored

\* What the property says of a service is LevelStored.
LEMMA LevelBefore ==
  ASSUME NEW s \in ServiceId,
         LevelStored(services'[s], events', _snap_window(SnapshotOf(s, services'[s], block_configs')).enter)
  PROVE  LET error == services'[s].departure_battery
                        - LedgerLevelBefore(services[s].vehicle_id, Window(s).enter)'
         IN  error * 200 <= PERCENT /\ error * 200 >= -PERCENT
<1>1. PICK v, start : /\ v = services'[s].vehicle_id
                      /\ start = _snap_window(SnapshotOf(s, services'[s], block_configs')).enter
  OBVIOUS
<1>2. LedgerLevelBefore(services[s].vehicle_id, Window(s).enter)'
        = _sum({e \in events' : e.vehicle_id = v /\ e.occurred_at < start})
  BY <1>1 DEF LedgerLevelBefore, Window
<1>3. {e \in events' : e.vehicle_id = v /\ e.occurred_at < start}
        = {e \in EventsOf(events', v) : e.occurred_at < start}
  BY DEF EventsOf
<1>4. battery_before(events', v, start)
        = LedgerLevelBefore(services[s].vehicle_id, Window(s).enter)'
  BY <1>2, <1>3 DEF battery_before
<1> QED BY <1>1, <1>4 DEF LevelStored

\* With one process at work, and no accepted payload that ends before it starts: the
\* departure battery stored with every service, written by hand or generated, is what the
\* ledger of the same commit says of the instant before it starts, but for the rounding of
\* a charge; the trips, charges and consumptions of one schedule are entered together, and
\* the level of each was read between them.
THEOREM StoredBatteryIsRead ==
  ASSUME OneHandler, RowsAreRows, ForwardPayloads
  PROVE  GenSpec => StoredBatteryIsLedgerLevel
<1> DEFINE Stored(s) ==
             services'[s] # None /\ (services[s] = None \/ services[s].stops # services'[s].stops) =>
               LET error == services'[s].departure_battery
                              - LedgerLevelBefore(services[s].vehicle_id, Window(s).enter)'
               IN  error * 200 <= PERCENT /\ error * 200 >= -PERCENT
<1>1. ChargeInv /\ WipedInv /\ [GenNext]_gvars => ChargeInv' /\ WipedInv'
  BY ChargeKeeps, WipedKeeps DEF ChargeInv, DayInv, AloneInv
<1>2. ChargeInv /\ WipedInv /\ [GenNext]_gvars => [\A s \in ServiceId : Stored(s)]_gvars
  <2> SUFFICES ASSUME ChargeInv, WipedInv, GenNext, NEW s \in ServiceId, services'[s] # None,
                      services[s] = None \/ services[s].stops # services'[s].stops
               PROVE  LevelStored(services'[s], events',
                                  _snap_window(SnapshotOf(s, services'[s], block_configs')).enter)
    BY LevelBefore
  <2>1. services' # services
    OBVIOUS
  <2>2. ASSUME NEW p \in Proc, Begin(p) \/ Step(p)
        PROVE  LevelStored(services'[s], events',
                           _snap_window(SnapshotOf(s, services'[s], block_configs')).enter)
    BY <2>2, HandlerStores DEF ChargeInv
  <2>3. ASSUME NEW p \in Proc, FinishGenerate(p), ~GenRefuse(p, 422)
        PROVE  LevelStored(services'[s], events',
                           _snap_window(SnapshotOf(s, services'[s], block_configs')).enter)
    <3>1. pc[p] = "gen_slot"
      BY <2>3 DEF FinishGenerate
    <3>2. PlanCharged(p) /\ \A e \in events : e.id < ticket[p]
      BY <3>1 DEF ChargeInv, Charging, GenLabels, LoopLabels
    <3>3. events' = Ledger(p) /\ block_configs' = block_configs
      BY <2>3, <3>2, FinishBooked DEF ChargeInv
    <3>4. LevelStored(services'[s], Ledger(p),
                      _snap_window(SnapshotOf(s, services'[s], block_configs)).enter)
      BY <2>1, <2>3, <3>2, FinishStoresLevels DEF ChargeInv
    <3> QED BY <3>3, <3>4
  <2>4. ASSUME NEW p \in Proc, BeginGenerate(p) \/ GenStep(p), ~(FinishGenerate(p) /\ ~GenRefuse(p, 422))
        PROVE  FALSE
    BY <2>1, <2>4
       DEF BeginGenerate, GenStep, ReadConfig, ReadVehicles, ReadServices, ReadStops, NextVehicle,
           ReadIdleBattery, CheckSlot, InsertTrip, FinishGenerate, GenRefuse, Refuse, vars, tables
  <2>5. ~(Served /\ UNCHANGED plan)
    BY <2>1 DEF Served, vars, tables
  <2> QED BY <2>2, <2>3, <2>4, <2>5 DEF GenNext, HandlerStep, GenStep
<1>3. GenInit => ChargeInv /\ WipedInv
  <2> SUFFICES ASSUME GenInit PROVE WipedInv
    BY ChargeStarts
  <2> QED BY DEF GenInit, Init, WipedInv, WipedOK, Creating
<1> QED BY <1>1, <1>2, <1>3, PTL DEF GenSpec, StoredBatteryIsLedgerLevel
-----------------------------------------------------------------------------
(***************************************************************************)
(* Timetable and ledger of generated days.                                 *)
(***************************************************************************)

\* Retiming a block moves the end of no service: no accepted payload ends on a block, or
\* no block is retimed.
EndsStay ==
  (\E r \in Requests : r.op = "block") =>
    \A r \in Requests :
      r.op \in {"create", "update"} /\ r.stops # None /\ ~PayloadErrors(r.stops) =>
        ~is_block(r.stops[Len(r.stops)].node_id)

\* A stored service and its consume event.
Entered(s) ==
  \E e \in events :
    /\ ConsumeEvents(s) = {e} /\ e.vehicle_id = services[s].vehicle_id
    /\ e.occurred_at = Window(s).exit /\ e.delta = service_consume_delta(StopsIn(services[s]))

ServicesConsume(ledger) ==
  \A e \in ledger : e.service_id # None <=> e.event_type = "SERVICE_CONSUME"

BookMatches ==
  /\ \A s \in Live : Entered(s)
  /\ \A e \in events : e.service_id # None => e.service_id \in Live
  /\ ServicesConsume(events)
  /\ (\E r \in Requests : r.op = "block") => \A s \in Live : EndsOnStop(StopsIn(services[s]))
  /\ vehicles \subseteq Vehicle

\* An update has locked exactly the events it replaces, a create has a free key, and who
\* deletes was asked to.
WriteExact(p) ==
  /\ pc[p] \in {"wipe_wait", "battery", "siblings", "commit"} =>
       wiped[p] = IF Creating(p) \/ ~Rechecked(p) THEN {} ELSE ConsumeEvents(req[p].service_id)
  /\ pc[p] \in Updating /\ Creating(p) => services[ticket[p]] = None
  /\ pc[p] \in {"delete", "cascade"} => req[p].op = "delete"

\* A trip placed and its rows.
InRows(rows, trip) ==
  \E e \in rows :
    /\ {x \in rows : x.service_id = trip.service_id} = {e}
    /\ e.vehicle_id = trip.vehicle_id /\ e.occurred_at = _service_end(trip.stops)
    /\ e.delta = Hundredths(service_consume_delta(trip.stops))

PlanMatches(p) ==
  pc[p] \in {"gen_services", "gen_stops"} \cup LoopLabels =>
    /\ \A k \in DOMAIN plan[p].created : InRows(plan[p].events, plan[p].created[k])
    /\ \A e \in plan[p].events : e.service_id # None =>
         \E k \in DOMAIN plan[p].created : e.service_id = plan[p].created[k].service_id
    /\ ServicesConsume(plan[p].events)

MatchInv == BookMatches /\ \A p \in Proc : WriteExact(p) /\ PlanMatches(p)

\* No service changes its vehicle or its stops.
SameTrips ==
  \A s \in ServiceId : /\ services'[s] = None <=> services[s] = None
                       /\ services[s] # None =>
                            /\ services'[s].vehicle_id = services[s].vehicle_id
                            /\ services'[s].stops = services[s].stops

\* A service that is left alone, and its event with it.
LEMMA EnteredKept ==
  ASSUME NEW s, Entered(s), ConsumeEvents(s)' = ConsumeEvents(s),
         services'[s].vehicle_id = services[s].vehicle_id,
         services'[s].stops = services[s].stops, Window(s)'.exit = Window(s).exit
  PROVE  Entered(s)'
<1>1. PICK e \in events :
        /\ ConsumeEvents(s) = {e} /\ e.vehicle_id = services[s].vehicle_id
        /\ e.occurred_at = Window(s).exit /\ e.delta = service_consume_delta(StopsIn(services[s]))
  BY DEF Entered
<1>2. e \in events' /\ ConsumeEvents(s)' = {e}
  BY <1>1 DEF ConsumeEvents
<1>3. StopsIn(services'[s]) = StopsIn(services[s])
  BY DEF StopsIn
<1> QED BY <1>1, <1>2, <1>3 DEF Entered

\* A step that enters and deletes no consume event and changes no stop.
LEMMA MatchKept ==
  ASSUME BookMatches, vehicles' \subseteq vehicles, UNCHANGED block_configs,
         ServiceEvents' = ServiceEvents, \A e \in events' \ events : e.event_type # "SERVICE_CONSUME",
         SameTrips
  PROVE  BookMatches'
<1> USE DEF SameTrips
<1>1. Live' = Live /\ Live \subseteq ServiceId
  BY DEF Live
<1>2. ASSUME NEW s \in Live PROVE Entered(s)' /\ StopsIn(services'[s]) = StopsIn(services[s])
  <2>1. /\ services'[s].vehicle_id = services[s].vehicle_id
        /\ services'[s].stops = services[s].stops
    BY <1>1, <1>2 DEF Live
  <2>2. StopsIn(services'[s]) = StopsIn(services[s])
    BY <2>1 DEF StopsIn
  <2>3. Window(s)' = Window(s)
    BY <2>2 DEF Window, SnapshotOf, _snap_window
  <2>4. ConsumeEvents(s)' = ConsumeEvents(s)
    BY <1>1, <1>2, SameConsumeEvents
  <2> QED BY <1>2, <2>1, <2>2, <2>3, <2>4, EnteredKept DEF BookMatches
<1>3. \A e \in events' : e.service_id # None => e.service_id \in Live'
  BY <1>1 DEF BookMatches, ServiceEvents
<1>4. ServicesConsume(events')
  BY DEF BookMatches, ServicesConsume, ServiceEvents
<1>5. \A s \in Live' : Entered(s)'
  BY <1>1, <1>2
<1>6. (\E r \in Requests : r.op = "block") => \A s \in Live' : EndsOnStop(StopsIn(services'[s]))
  BY <1>1, <1>2 DEF BookMatches
<1>7. vehicles' \subseteq Vehicle
  BY DEF BookMatches
<1> QED BY <1>3, <1>4, <1>5, <1>6, <1>7 DEF BookMatches

\* A write replaces the stops of a service and its event.
LEMMA MatchWritten ==
  ASSUME BookMatches, UNCHANGED <<vehicles, block_configs>>, NEW s \in ServiceId, NEW row, row # None,
         DOMAIN services = ServiceId, services' = [services EXCEPT ![s] = row],
         NEW x, events' = (events \ ConsumeEvents(s)) \cup {x},
         x.service_id = s, x.event_type = "SERVICE_CONSUME", x.vehicle_id = row.vehicle_id,
         x.delta = service_consume_delta(StopsIn(row)),
         x.occurred_at = _snap_window(SnapshotOf(s, row, block_configs)).exit,
         (\E r \in Requests : r.op = "block") => EndsOnStop(StopsIn(row))
  PROVE  BookMatches'
<1>1. /\ services'[s] = row /\ \A t \in ServiceId \ {s} : services'[t] = services[t]
      /\ Live' = Live \cup {s} /\ Live \subseteq ServiceId
  BY DEF Live
<1>2. /\ ConsumeEvents(s)' = {x}
      /\ \A t \in ServiceId \ {s} : ConsumeEvents(t)' = ConsumeEvents(t)
  BY DEF ConsumeEvents
<1>3. ASSUME NEW t \in Live' PROVE Entered(t)'
  <2>1. CASE t = s
    <3>1. Window(s)'.exit = x.occurred_at
      BY <1>1 DEF Window
    <3> QED BY <1>1, <1>2, <2>1, <3>1 DEF Entered
  <2>2. CASE t # s
    <3>1. t \in Live /\ t \in ServiceId \ {s} /\ services'[t] = services[t]
      BY <1>1, <1>3, <2>2
    <3>2. Window(t)' = Window(t)
      BY <3>1 DEF Window
    <3> QED BY <1>2, <3>1, <3>2, EnteredKept DEF BookMatches
  <2> QED BY <2>1, <2>2
<1>4. \A e \in events' : e.service_id # None => e.service_id \in Live'
  BY <1>1 DEF BookMatches
<1>5. ServicesConsume(events')
  <2>1. s # None
    BY ParametersAssumption DEF ServiceId
  <2> QED BY <2>1 DEF BookMatches, ServicesConsume
<1>6. (\E r \in Requests : r.op = "block") => \A t \in Live' : EndsOnStop(StopsIn(services'[t]))
  BY <1>1 DEF BookMatches
<1>7. vehicles' \subseteq Vehicle
  BY DEF BookMatches
<1> QED BY <1>3, <1>4, <1>5, <1>6, <1>7 DEF BookMatches

\* A service goes, and its event.
LEMMA MatchErased ==
  ASSUME BookMatches, UNCHANGED <<vehicles, block_configs>>, NEW s \in ServiceId,
         DOMAIN services = ServiceId, services' = [services EXCEPT ![s] = None],
         events' = events \ CascadedEvents(s)
  PROVE  BookMatches'
<1>1. /\ \A t \in ServiceId \ {s} : services'[t] = services[t]
      /\ Live' = Live \ {s} /\ Live \subseteq ServiceId
  BY DEF Live
<1>2. \A t \in ServiceId \ {s} : ConsumeEvents(t)' = ConsumeEvents(t)
  BY DEF ConsumeEvents, CascadedEvents
<1>3. ASSUME NEW t \in Live' PROVE Entered(t)'
  <2>1. t \in Live /\ t \in ServiceId \ {s} /\ services'[t] = services[t]
    BY <1>1, <1>3
  <2>2. Window(t)' = Window(t)
    BY <2>1 DEF Window
  <2> QED BY <1>2, <2>1, <2>2, EnteredKept DEF BookMatches
<1>4. \A e \in events' : e.service_id # None => e.service_id \in Live'
  BY <1>1 DEF BookMatches, CascadedEvents
<1>5. ServicesConsume(events')
  BY DEF BookMatches, ServicesConsume
<1>6. (\E r \in Requests : r.op = "block") => \A t \in Live' : EndsOnStop(StopsIn(services'[t]))
  BY <1>1 DEF BookMatches
<1>7. vehicles' \subseteq Vehicle
  BY DEF BookMatches
<1> QED BY <1>3, <1>4, <1>5, <1>6, <1>7 DEF BookMatches

\* A stop at the end of a path is left when its row says, however long blocks take.
LEMMA EndOfPath ==
  ASSUME NEW s, NEW row, RowAccepted(row), EndsOnStop(StopsIn(row)),
         NEW traversal \in [BLOCKS -> Nat \ {0}], NEW stops, stops = StopsIn(row)
  PROVE  _snap_window(SnapshotOf(s, row, traversal)).exit = stops[Len(stops)].departure_time
<1>1. TimesTyped(stops) /\ Accepts(stops) /\ ~is_block(stops[Len(stops)].node_id)
  BY DEF RowAccepted, EndsOnStop
<1>2. PICK tuples : tuples = SnapshotStops(stops, traversal)
  OBVIOUS
<1>3. RunsThrough(stops, traversal, tuples, Len(stops))
  <2>1. \A i \in DOMAIN stops : TraversalSeconds(stops[i].node_id, traversal) \in Nat
    BY DEF TraversalSeconds
  <2> QED BY <1>1, <1>2, <2>1, AcceptedRunsThrough, ParametersAssumption
<1>4. Len(stops) \in Nat /\ Len(stops) >= 2
  BY <1>1, AcceptedStops DEF TimesTyped
<1>5. Len(tuples) = Len(stops) /\ Len(stops) \in 1 .. Len(stops)
  BY <1>3, <1>4 DEF RunsThrough
<1>6. tuples[Len(stops)].exit = stops[Len(stops)].departure_time
  BY <1>1, <1>3, <1>5 DEF RunsThrough
<1> QED BY <1>2, <1>5, <1>6 DEF _snap_window, SnapshotOf

\* A block is retimed.
LEMMA MatchRetimed ==
  ASSUME BookMatches, TimetableOK, TimetableOK', \E r \in Requests : r.op = "block",
         UNCHANGED <<vehicles, services, events>>
  PROVE  BookMatches'
<1>1. Live' = Live
  BY DEF Live
<1>2. ASSUME NEW s \in Live PROVE Entered(s)'
  <2>1. PICK row, stops : row = services[s] /\ stops = StopsIn(row)
    OBVIOUS
  <2>2. /\ RowAccepted(row) /\ EndsOnStop(StopsIn(row))
        /\ block_configs \in [BLOCKS -> Nat \ {0}] /\ block_configs' \in [BLOCKS -> Nat \ {0}]
    BY <2>1 DEF TimetableOK, BookMatches
  <2>3. /\ _snap_window(SnapshotOf(s, row, block_configs)).exit = stops[Len(stops)].departure_time
        /\ _snap_window(SnapshotOf(s, row, block_configs')).exit = stops[Len(stops)].departure_time
    BY <2>1, <2>2, EndOfPath
  <2>4. Window(s)'.exit = Window(s).exit
    BY <2>1, <2>3 DEF Window
  <2>5. ConsumeEvents(s)' = ConsumeEvents(s)
    BY DEF ConsumeEvents
  <2> QED BY <2>4, <2>5, EnteredKept DEF BookMatches
<1> QED BY <1>1, <1>2 DEF BookMatches

LEMMA MatchSame ==
  ASSUME BookMatches, UNCHANGED tables
  PROVE  BookMatches'
<1>1. ServiceEvents' = ServiceEvents /\ events' \ events = {} /\ UNCHANGED <<vehicles, services, block_configs>>
  BY DEF ServiceEvents, tables
<1>2. SameTrips
  BY <1>1 DEF SameTrips
<1> QED BY <1>1, <1>2, MatchKept

\* The event of a write tells of the row it writes.
LEMMA WriteEntered ==
  ASSUME DayInv, NEW p \in Proc, pc[p] = "commit", Checks(p), LevelRead(p),
         NEW s, s = Written(p), NEW row, row.vehicle_id = TargetVehicle(p),
         StopsIn(row) = StopsForCheck(p), NEW x, x = NewConsumeEvent(p)
  PROVE  /\ x.service_id = s /\ x.event_type = "SERVICE_CONSUME" /\ x.vehicle_id = row.vehicle_id
         /\ x.delta = service_consume_delta(StopsIn(row))
         /\ x.occurred_at = _snap_window(SnapshotOf(s, row, block_configs)).exit
<1> USE DEF DayInv, AloneInv
<1>1. HoldsRow(p) /\ block_traversal[p] = block_configs /\ block_configs \in [BLOCKS -> Nat \ {0}]
  BY DEF HoldsRow, LevelRead, ServingInv, TimetableOK
<1>2. PICK stops, tuples, traversal :
        stops = StopsForCheck(p) /\ tuples = StopTuples(p) /\ traversal = block_configs
  OBVIOUS
<1>3. TimesTyped(stops) /\ Accepts(stops) /\ tuples = SnapshotStops(stops, traversal)
  BY <1>1, <1>2, CheckedStops
<1>4. /\ service_consume_delta(tuples) = service_consume_delta(stops)
      /\ Hundredths(service_consume_delta(stops)) = service_consume_delta(stops)
  BY <1>1, <1>2, <1>3, ConsumeDelta
<1>5. /\ x.service_id = s /\ x.event_type = "SERVICE_CONSUME" /\ x.vehicle_id = TargetVehicle(p)
      /\ x.occurred_at = _service_end(tuples)
      /\ x.delta = Hundredths(service_consume_delta(tuples))
  BY <1>2 DEF NewConsumeEvent, emit_service_consume, Event
<1>6. _snap_window(SnapshotOf(s, row, block_configs)).exit = _service_end(tuples)
  BY <1>2, <1>3 DEF _snap_window, SnapshotOf, _service_end
<1> QED BY <1>2, <1>4, <1>5, <1>6

\* A lone handler commits a write that was checked.
LEMMA MatchCommitted ==
  ASSUME EndsStay, DayInv, BookMatches, NEW p \in Proc, pc[p] = "commit", Checks(p), LevelRead(p),
         WriteExact(p), NEW s \in ServiceId, s = Written(p), NEW row, row # None,
         row.vehicle_id = TargetVehicle(p), StopsIn(row) = StopsForCheck(p),
         services' = [services EXCEPT ![s] = row],
         events' = (events \ wiped[p]) \cup {NewConsumeEvent(p)},
         UNCHANGED <<vehicles, block_configs>>,
         req[p].op = "update" => services[s] # None /\ services[s] = loaded[p]
  PROVE  BookMatches'
<1> USE DEF DayInv, AloneInv
<1>1. PICK x : x = NewConsumeEvent(p)
  OBVIOUS
<1>2. /\ x.service_id = s /\ x.event_type = "SERVICE_CONSUME" /\ x.vehicle_id = row.vehicle_id
      /\ x.delta = service_consume_delta(StopsIn(row))
      /\ x.occurred_at = _snap_window(SnapshotOf(s, row, block_configs)).exit
  BY <1>1, WriteEntered
<1>3. req[p] \in Requests /\ req[p].op \in {"create", "update"} /\ ~PayloadErrors(req[p].stops)
  <2>1. HandlerOK(p)
    BY DEF ServingInv
  <2>2. pc[p] \notin {"idle"} \cup GenLabels /\ HoldsRow(p)
    BY DEF GenLabels, LoopLabels, HoldsRow
  <2> QED BY <2>1, <2>2 DEF HandlerOK
<1>4. DOMAIN services = ServiceId
  BY DEF ServingInv, TimetableOK
<1>5. wiped[p] = ConsumeEvents(s)
  <2>1. CASE req[p].op = "create"
    <3>1. s = ticket[p] /\ wiped[p] = {} /\ services[s] = None
      BY <2>1 DEF WriteExact, Creating, Written, Updating
    <3>2. s \notin Live /\ s # None
      BY <3>1, ParametersAssumption DEF Live, ServiceId
    <3> QED BY <3>1, <3>2 DEF BookMatches, ConsumeEvents
  <2>2. CASE req[p].op = "update"
    BY <2>2 DEF WriteExact, Creating, Written, Checks
  <2> QED BY <1>3, <2>1, <2>2
<1>6. (\E r \in Requests : r.op = "block") => EndsOnStop(StopsIn(row))
  <2> SUFFICES ASSUME \E r \in Requests : r.op = "block" PROVE EndsOnStop(StopsForCheck(p))
    OBVIOUS
  <2>1. CASE req[p].stops # None
    BY <1>3, <2>1 DEF EndsStay, EndsOnStop, StopsForCheck
  <2>2. CASE req[p].stops = None
    <3>1. req[p].op = "update" /\ s \in Live /\ services[s] = loaded[p]
      BY <1>3, <2>2, RequestStops DEF Live
    <3> QED BY <2>2, <3>1 DEF BookMatches, StopsForCheck
  <2> QED BY <2>1, <2>2
<1> QED BY <1>1, <1>2, <1>4, <1>5, <1>6, MatchWritten

\* A lone handler keeps timetable and ledger together.
LEMMA MatchHandled ==
  ASSUME OneHandler, RowsAreRows, EndsStay, DayInv, TimetableOK', WipedInv, BookMatches,
         NEW p \in Proc, LevelRead(p), WriteExact(p), Begin(p) \/ Step(p)
  PROVE  BookMatches' /\ WriteExact(p)'
<1> USE DEF DayInv, AloneInv
<1>d. /\ DOMAIN pc = Proc /\ DOMAIN req = Proc /\ DOMAIN ticket = Proc /\ DOMAIN wiped = Proc
      /\ DOMAIN services = ServiceId /\ TimetableOK /\ HandlerOK(p) /\ pc[p] \notin GenLabels
  BY HandlersApart DEF GenInv, ServingInv, TimetableOK, WipedInv
<1>h. pc[p] # "idle" =>
        /\ req[p] \in Requests /\ ticket[p] \in 1 .. begun /\ begun \in 0 .. MaxRequests
        /\ HoldsRow(p) => req[p].op \in {"create", "update"}
  BY <1>d DEF HandlerOK, TimetableOK
<1>w. WipedByOthers(p) = {}
  BY DEF WipedByOthers, OneHandler
<1>a. ASSUME NEW status, Answer(p, status) PROVE WriteExact(p)'
  <2>1. pc'[p] = "idle"
    BY <1>a, <1>d DEF Answer, Goto
  <2> QED BY <2>1 DEF WriteExact, Updating
<1>f. ASSUME NEW status, Refuse(p, status) PROVE BookMatches' /\ WriteExact(p)'
  BY <1>a, <1>f, MatchSame DEF Refuse
<1>o. ASSUME NEW label, Goto(p, label), label \notin Updating \cup {"delete", "cascade"} PROVE WriteExact(p)'
  <2>1. pc'[p] = label
    BY <1>d, <1>o DEF Goto
  <2> QED BY <1>o, <2>1 DEF WriteExact, Updating
<1>m. ASSUME NEW label, Goto(p, label), label \notin Updating \cup {"delete", "cascade"}, UNCHANGED tables
      PROVE  BookMatches' /\ WriteExact(p)'
  BY <1>m, <1>o, MatchSame
\* A step from one label of a write to the next.
<1>n. ASSUME pc[p] \in Updating, pc'[p] \in Updating, UNCHANGED <<services, events, request, loaded>>,
             pc'[p] \in {"wipe_wait", "battery", "siblings", "commit"} =>
               wiped'[p] = IF Creating(p) \/ ~Rechecked(p) THEN {}
                           ELSE ConsumeEvents(req[p].service_id)
      PROVE  WriteExact(p)'
  <2>1. /\ Creating(p)' = Creating(p) /\ Rechecked(p)' = Rechecked(p)
        /\ ConsumeEvents(req[p].service_id)' = ConsumeEvents(req[p].service_id)
    BY <1>n DEF Creating, Rechecked, Reassigning, ConsumeEvents, request
  <2>2. pc'[p] \notin {"delete", "cascade"}
    BY <1>n DEF Updating
  <2> QED BY <1>n, <2>1, <2>2 DEF WriteExact, request
<1>1. CASE Begin(p)
  <2>1. PICK r \in Requests : req' = [req EXCEPT ![p] = r] /\ Goto(p, FirstStatement(r.op))
    BY <1>1 DEF Begin
  <2>2. /\ UNCHANGED tables /\ ticket'[p] = begun + 1
    BY <1>1, <1>d DEF Begin
  <2>3. /\ pc'[p] = FirstStatement(r.op)
        /\ FirstStatement(r.op) \in {"lock", "load", "read_level", "count", "block"}
    BY <1>d, <2>1, RequestTyped DEF FirstStatement, Goto
  <2>4. services[begun + 1] = None
    <3>1. begun + 1 \in ServiceId /\ \A s \in Live : s <= begun
      BY <1>1, <1>d, ParametersAssumption DEF Begin, TimetableOK, ServiceId
    <3>2. begun + 1 \notin Live
      BY <1>d, <3>1, ParametersAssumption DEF ServiceId, TimetableOK
    <3> QED BY <3>1, <3>2 DEF Live
  <2>5. WriteExact(p)'
    BY <2>2, <2>3, <2>4 DEF WriteExact, tables
  <2> QED BY <2>2, <2>5, MatchSame
<1>2. CASE LoadService(p)
  <2>1. CASE ~Refuse(p, 404)
    <3>1. /\ pc'[p] = IF req[p].op = "delete" THEN "delete" ELSE "load_stops"
          /\ UNCHANGED tables /\ pc[p] = "load" /\ req' = req
      BY <1>2, <1>d, <2>1 DEF LoadService, Goto, request
    <3>2. ~Creating(p)'
      BY <1>d, <3>1 DEF HandlerOK, Creating, GenLabels, LoopLabels
    <3>3. WriteExact(p)'
      BY <3>1, <3>2 DEF WriteExact
    <3> QED BY <3>1, <3>3, MatchSame
  <2> QED BY <1>f, <2>1
<1>19. CASE LoadStops(p)
  <2>1. pc'[p] = "lock" /\ UNCHANGED tables /\ pc[p] = "load_stops" /\ req' = req
    BY <1>19, <1>d DEF LoadStops, Goto, request
  <2>2. ~Creating(p)'
    BY <1>d, <2>1 DEF HandlerOK, Creating, GenLabels, LoopLabels
  <2>3. WriteExact(p)'
    BY <2>1, <2>2 DEF WriteExact
  <2> QED BY <2>1, <2>3, MatchSame
<1>3. CASE LockVehicle(p)
  <2>1. CASE \E status : Refuse(p, status)
    BY <1>f, <2>1
  <2>2. CASE ~\E status : Refuse(p, status)
    <3>1. /\ pc[p] = "lock" /\ pc'[p] = "traversal"
          /\ UNCHANGED tables /\ UNCHANGED <<services, events, request, loaded>>
      BY <1>3, <1>d, <2>2 DEF LockVehicle, Goto, tables, reads
    <3>2. WriteExact(p)'
      BY <1>n, <3>1 DEF Updating
    <3> QED BY <3>1, <3>2, MatchSame
  <2> QED BY <2>1, <2>2
<1>4. CASE ReadTraversal(p)
  <2>1. /\ pc[p] = "traversal" /\ wiped' = wiped
        /\ pc'[p] = IF Creating(p) THEN "battery" ELSE IF Rechecked(p) THEN "wipe" ELSE "commit"
        /\ UNCHANGED tables /\ UNCHANGED <<services, events, request, loaded>>
    BY <1>4, <1>d DEF ReadTraversal, Goto, tables
  <2>2. wiped[p] = {}
    BY <2>1 DEF WipedInv, WipedOK
  <2>3. WriteExact(p)'
    BY <1>n, <2>1, <2>2 DEF Updating
  <2> QED BY <2>1, <2>3, MatchSame
<1>5. CASE WipeConsume(p)
  <2>1. /\ pc[p] = "wipe" /\ pc'[p] = "battery"
        /\ wiped'[p] = ConsumeEvents(req[p].service_id)
        /\ UNCHANGED tables /\ UNCHANGED <<services, events, request, loaded>>
    BY <1>5, <1>d, <1>w DEF WipeConsume, EventsToWipe, Goto, tables, reads
  <2>2. ~Creating(p) /\ Rechecked(p)
    BY <2>1 DEF WipedInv, WipedOK, LevelRead, Checks
  <2>3. WriteExact(p)'
    BY <1>n, <2>1, <2>2 DEF Updating
  <2> QED BY <2>1, <2>3, MatchSame
<1>6. CASE ResumeWipe(p)
  <2>1. /\ pc[p] = "wipe_wait" /\ pc'[p] = "battery" /\ wiped'[p] = wiped[p] \cap events
        /\ UNCHANGED tables /\ UNCHANGED <<services, events, request, loaded>>
    BY <1>6, <1>d DEF ResumeWipe, Goto, tables, reads
  <2>2. wiped'[p] = wiped[p]
    BY <2>1 DEF WriteExact, ConsumeEvents
  <2>3. WriteExact(p)'
    BY <1>n, <2>1, <2>2 DEF Updating, WriteExact
  <2> QED BY <2>1, <2>3, MatchSame
<1>7. CASE ReadBattery(p)
  <2>1. CASE ~Refuse(p, 500)
    <3>1. /\ pc[p] = "battery" /\ pc'[p] = "siblings" /\ wiped' = wiped
          /\ UNCHANGED tables /\ UNCHANGED <<services, events, request, loaded>>
      BY <1>7, <1>d, <2>1 DEF ReadBattery, Goto, tables
    <3>2. WriteExact(p)'
      BY <1>n, <3>1 DEF Updating, WriteExact
    <3> QED BY <3>1, <3>2, MatchSame
  <2> QED BY <1>f, <2>1
<1>8. CASE CheckSiblings(p)
  <2>1. CASE ~Refuse(p, 409)
    <3>1. /\ pc[p] = "siblings" /\ pc'[p] = "commit" /\ wiped' = wiped
          /\ UNCHANGED tables /\ UNCHANGED <<services, events, request, loaded>>
      BY <1>8, <1>d, <2>1 DEF CheckSiblings, Goto, tables, reads
    <3>2. WriteExact(p)'
      BY <1>n, <3>1 DEF Updating, WriteExact
    <3> QED BY <3>1, <3>2, MatchSame
  <2> QED BY <1>f, <2>1
<1>9. CASE CommitCreate(p)
  <2>1. PICK row : /\ services' = [services EXCEPT ![ticket[p]] = row]
                   /\ row = [vehicle_id |-> req[p].vehicle_id,
                             stops |-> StopRows(ticket[p], req[p].stops),
                             departure_battery |-> dep_battery[p]]
    BY <1>9 DEF CommitCreate
  <2>2. /\ pc[p] = "commit" /\ req[p].op = "create" /\ Checks(p) /\ Goto(p, "reload")
        /\ events' = events \cup {NewConsumeEvent(p)} /\ UNCHANGED <<vehicles, block_configs>>
    BY <1>9 DEF CommitCreate, Checks, Creating
  <2>3. /\ req[p] \in Requests /\ req[p].stops # None /\ SchemaAccepts(req[p].stops)
        /\ req[p].vehicle_id = TargetVehicle(p)
    <3>1. req[p] \in Requests
      BY <1>h, <2>2
    <3>2. req[p].vehicle_id \in Vehicle /\ None \notin Vehicle
      BY <2>2, <3>1, RequestTyped, ParametersAssumption
    <3> QED BY <2>2, <3>1, <3>2, RequestStops DEF TargetVehicle
  <2>4. StopsIn(row) = StopsForCheck(p)
    BY <2>1, <2>3, StopsReadBack DEF StopsForCheck
  <2>5. ticket[p] \in ServiceId /\ ticket[p] = Written(p)
    BY <1>h, <2>2, ParametersAssumption DEF ServiceId, Written, Creating
  <2>6. wiped[p] = {}
    BY <2>2 DEF WriteExact, Creating
  <2>7. row # None /\ row.vehicle_id = TargetVehicle(p)
    BY <2>1, <2>3 DEF RowsAreRows
  <2>8. BookMatches'
    <3>1. PICK s \in ServiceId : s = ticket[p]
      BY <2>5
    <3>2. events' = (events \ wiped[p]) \cup {NewConsumeEvent(p)}
      BY <2>2, <2>6
    <3> QED BY <2>1, <2>2, <2>4, <2>5, <2>7, <3>1, <3>2, MatchCommitted
  <2> QED BY <1>o, <2>2, <2>8 DEF Updating
<1>10. CASE CommitUpdate(p)
  <2>1. CASE ~Refuse(p, 500)
    <3>1. PICK s, row :
            /\ s = req[p].service_id /\ row = UpdatedRow(p) /\ services[s] # None
            /\ services' = [services EXCEPT ![s] = row]
            /\ events' = (events \ wiped[p]) \cup (IF Rechecked(p) THEN {NewConsumeEvent(p)} ELSE {})
            /\ UNCHANGED <<vehicles, block_configs>> /\ Goto(p, "reload")
      BY <1>10, <2>1 DEF CommitUpdate
    <3>2. /\ pc[p] = "commit" /\ req[p].op = "update" /\ loaded[p] # None /\ services[s] = loaded[p]
      BY <1>10, <3>1 DEF CommitUpdate, ReadsHold, Updating
    <3>3. s \in ServiceId /\ s = Written(p) /\ req[p] \in Requests
      BY <1>h, <3>1, <3>2, RequestTyped DEF Written, Creating
    <3>4. /\ row.vehicle_id = TargetVehicle(p)
          /\ row.stops = IF req[p].stops = None THEN services[s].stops
                         ELSE StopRows(ticket[p], req[p].stops)
          /\ row # None
      <4>1. RowsKept(p) = {}
        BY <3>1, <3>2 DEF RowsKept
      <4> QED BY <3>1, <3>2, <4>1
              DEF UpdatedRow, StopsAfterUpdate, Reassigning, TargetVehicle, RowsAreRows
    <3>5. StopsIn(row) = StopsForCheck(p)
      <4>1. CASE req[p].stops # None
        BY <3>2, <3>3, <3>4, <4>1, RequestStops, StopsReadBack DEF StopsForCheck
      <4>2. CASE req[p].stops = None
        BY <3>2, <3>4, <4>2 DEF StopsForCheck, StopsIn
      <4> QED BY <4>1, <4>2
    <3>6. CASE Rechecked(p)
      <4>1. Checks(p) /\ events' = (events \ wiped[p]) \cup {NewConsumeEvent(p)}
        BY <3>1, <3>6 DEF Checks
      <4>2. BookMatches'
        BY <3>1, <3>2, <3>3, <3>4, <3>5, <4>1, MatchCommitted
      <4> QED BY <1>o, <3>1, <4>2 DEF Updating
    <3>7. CASE ~Rechecked(p)
      <4>1. events' = events
        BY <3>1, <3>2, <3>7 DEF WriteExact
      <4>2. row.vehicle_id = services[s].vehicle_id /\ row.stops = services[s].stops
        BY <3>1, <3>2, <3>4, <3>7 DEF Rechecked, Reassigning, TargetVehicle
      <4>3. SameTrips
        BY <1>d, <3>1, <3>4, <4>2 DEF SameTrips
      <4>4. /\ ServiceEvents' = ServiceEvents
            /\ \A e \in events' \ events : e.event_type # "SERVICE_CONSUME"
        BY <4>1 DEF ServiceEvents
      <4>5. vehicles' \subseteq vehicles /\ UNCHANGED block_configs
        BY <3>1
      <4>6. BookMatches'
        BY <4>3, <4>4, <4>5, MatchKept
      <4> QED BY <1>o, <3>1, <4>6 DEF Updating
    <3> QED BY <3>6, <3>7
  <2> QED BY <1>f, <2>1
<1>11. CASE ReloadService(p) \/ DeadlockAbort(p)
  BY <1>11, <1>f DEF ReloadService, DeadlockAbort
<1>12. CASE DeleteServiceRow(p)
  <2>1. CASE ~Refuse(p, 204)
    <3>1. pc[p] = "delete" /\ pc'[p] = "cascade" /\ req' = req /\ UNCHANGED tables
      BY <1>12, <1>d, <2>1 DEF DeleteServiceRow, Goto, request
    <3>2. WriteExact(p)'
      BY <3>1 DEF WriteExact, Updating
    <3> QED BY <3>1, <3>2, MatchSame
  <2> QED BY <1>f, <2>1
<1>13. CASE CascadeAndCommit(p)
  <2>1. PICK s : /\ s = req[p].service_id /\ services' = [services EXCEPT ![s] = None]
                 /\ events' = events \ CascadedEvents(s)
                 /\ Answer(p, 204) /\ UNCHANGED <<vehicles, block_configs>>
    BY <1>13 DEF CascadeAndCommit
  <2>2. s \in ServiceId
    <3>1. pc[p] = "cascade"
      BY <1>13 DEF CascadeAndCommit
    <3>2. req[p] \in Requests /\ req[p].op = "delete"
      BY <1>h, <3>1 DEF WriteExact
    <3> QED BY <2>1, <3>2, RequestTyped
  <2>3. BookMatches'
    BY <1>d, <2>1, <2>2, MatchErased
  <2> QED BY <1>a, <2>1, <2>3
<1>14. CASE ReadLevel(p)
  <2>1. CASE ~Refuse(p, 404)
    <3>1. Goto(p, "adjust") /\ UNCHANGED tables
      BY <1>14, <2>1 DEF ReadLevel
    <3> QED BY <1>m, <3>1 DEF Updating
  <2> QED BY <1>f, <2>1
<1>15. CASE AdjustLevel(p)
  <2>1. CASE ~Refuse(p, 409)
    <3>1. PICK x : /\ x = emit_manual_adjust(ticket[p], req[p].vehicle_id, dep_battery[p],
                                              req[p].level, Now)
                   /\ events' = events \cup {x} /\ Answer(p, 200)
                   /\ UNCHANGED <<vehicles, services, block_configs>>
      BY <1>15, <2>1 DEF AdjustLevel
    <3>2. x.service_id = None /\ x.event_type = "MANUAL_ADJUST"
      BY <3>1 DEF emit_manual_adjust, Event
    <3>3. ServiceEvents' = ServiceEvents /\ \A e \in events' \ events : e.event_type # "SERVICE_CONSUME"
      BY <3>1, <3>2 DEF ServiceEvents
    <3>4. BookMatches'
      BY <3>1, <3>3, MatchKept DEF SameTrips
    <3> QED BY <1>a, <3>1, <3>4
  <2> QED BY <1>f, <2>1
<1>16. CASE CountServices(p)
  <2>1. CASE \E status : Refuse(p, status)
    BY <1>f, <2>1
  <2>2. CASE ~\E status : Refuse(p, status)
    <3>1. Goto(p, "remove") /\ UNCHANGED tables
      BY <1>16, <2>2 DEF CountServices
    <3> QED BY <1>m, <3>1 DEF Updating
  <2> QED BY <2>1, <2>2
\* A vehicle without services has no service's event.
<1>17. CASE RemoveVehicle(p)
  <2>1. CASE \E status : Refuse(p, status)
    BY <1>f, <2>1
  <2>2. CASE ~\E status : Refuse(p, status)
    <3>1. PICK v : /\ v = req[p].vehicle_id /\ ~HasServices(v) /\ vehicles' = vehicles \ {v}
                   /\ events' = {e \in events : e.vehicle_id # v} /\ Answer(p, 204)
                   /\ UNCHANGED <<services, block_configs>>
      BY <1>17, <2>2 DEF RemoveVehicle, StillReferenced
    <3>2. ASSUME NEW e \in events, e.service_id # None PROVE e.vehicle_id # v
      <4>1. PICK s \in Live : s = e.service_id
        BY <3>2 DEF BookMatches
      <4>2. e \in ConsumeEvents(s)
        BY <3>2, <4>1 DEF BookMatches, ServicesConsume, ConsumeEvents
      <4>3. e.vehicle_id = services[s].vehicle_id
        BY <4>1, <4>2 DEF BookMatches, Entered
      <4> QED BY <3>1, <4>1, <4>3 DEF HasServices
    <3>3. ServiceEvents' = ServiceEvents /\ events' \ events = {} /\ vehicles' \subseteq vehicles
      BY <3>1, <3>2 DEF ServiceEvents
    <3>4. BookMatches'
      BY <3>1, <3>3, MatchKept DEF SameTrips
    <3> QED BY <1>a, <3>1, <3>4
  <2> QED BY <2>1, <2>2
<1>18. CASE UpdateBlock(p)
  <2>1. pc[p] = "block" /\ Answer(p, 200) /\ UNCHANGED <<vehicles, services, events>>
    BY <1>18 DEF UpdateBlock
  <2>2. \E r \in Requests : r.op = "block"
    BY <1>d, <2>1 DEF HandlerOK, GenLabels, LoopLabels
  <2>3. BookMatches'
    BY <1>d, <2>1, <2>2, MatchRetimed
  <2> QED BY <1>a, <2>1, <2>3
<1> QED
  BY <1>1, <1>2, <1>3, <1>4, <1>5, <1>6, <1>7, <1>8, <1>9, <1>10, <1>11, <1>12, <1>13,
     <1>14, <1>15, <1>16, <1>17, <1>18, <1>19 DEF Step

\* A trip that is committed, with its rows.
LEMMA TripInBook ==
  ASSUME RowsAreRows, NEW p, req[p] \in Generations, block_configs \in [BLOCKS -> Nat \ {0}],
         UNCHANGED block_configs, NEW trip, NEW key, key # None, MadeTrip(p, trip, key),
         services'[key] = TripRow(trip), NEW rows, InRows(rows, trip), ServicesConsume(rows),
         events' = events \cup rows, \A e \in events : e.service_id # key
  PROVE  Entered(key)' /\ EndsOnStop(StopsIn(services'[key]))
<1>1. /\ trip.service_id = key /\ RowAccepted(TripRow(trip)) /\ EndsOnStop(StopsIn(TripRow(trip)))
      /\ SnapshotOf(key, TripRow(trip), block_configs) = trip
  BY TripReadsBack
<1>2. PICK e \in rows :
        /\ {x \in rows : x.service_id = trip.service_id} = {e}
        /\ e.vehicle_id = trip.vehicle_id /\ e.occurred_at = _service_end(trip.stops)
        /\ e.delta = Hundredths(service_consume_delta(trip.stops))
  BY DEF InRows
<1>3. ConsumeEvents(key)' = {e} /\ e \in events'
  BY <1>1, <1>2 DEF ConsumeEvents, ServicesConsume
<1>4. Window(key)'.exit = _service_end(trip.stops)
  BY <1>1 DEF Window, _snap_window, _service_end
<1>5. PICK stops, traversal : stops = StopsIn(TripRow(trip)) /\ traversal = block_configs
  OBVIOUS
<1>6. TimesTyped(stops) /\ Accepts(stops) /\ trip.stops = SnapshotStops(stops, traversal)
  BY <1>1, <1>5 DEF RowAccepted, SnapshotOf
<1>7. Hundredths(service_consume_delta(trip.stops)) = service_consume_delta(stops)
  BY <1>5, <1>6, ConsumeDelta
<1>8. services'[key].vehicle_id = trip.vehicle_id
  BY DEF TripRow
<1> QED BY <1>1, <1>2, <1>3, <1>4, <1>5, <1>7, <1>8 DEF Entered

\* A schedule is committed.
LEMMA FinishMatches ==
  ASSUME RowsAreRows, DayInv, BookMatches, NEW p \in Proc, FinishGenerate(p), ~GenRefuse(p, 422),
         PlanMatches(p)
  PROVE  BookMatches'
<1> USE DEF DayInv, AloneInv
<1>1. /\ pc[p] = "gen_slot" /\ UNCHANGED <<vehicles, block_configs>> /\ events' = Ledger(p)
      /\ services' = [t \in ServiceId |->
           IF \E trip \in Range(plan[p].created) : trip.service_id = t
             THEN TripRow(plan[p].created[t - ticket[p] + 1]) ELSE services[t]]
  BY DEF FinishGenerate
<1>2. /\ PlanFits(p) /\ DayPlanned(p) /\ req[p] \in Generations
      /\ ticket[p] \in Nat \ {0} /\ ticket[p] + KeysFor(req[p]) - 1 <= begun
      /\ begun \in 0 .. MaxRequests /\ block_configs \in [BLOCKS -> Nat \ {0}]
      /\ \A s \in Live : s < ticket[p]
  BY <1>1 DEF Generating, GenInv, GenLabels, LoopLabels, ServingInv, TimetableOK
<1>3. PICK created, first, m, rows :
        /\ created = plan[p].created /\ first = ticket[p] /\ m = Len(created)
        /\ rows = plan[p].events
  OBVIOUS
<1>4. /\ m \in Nat /\ m <= KeysFor(req[p]) /\ KeysFor(req[p]) \in Nat
      /\ DOMAIN created = 1 .. m /\ first \in Nat \ {0}
  BY <1>2, <1>3, KeysSuffice, TriesFinite DEF PlanFits
<1>5. /\ \A k \in 1 .. m : InRows(rows, created[k])
      /\ \A e \in rows : e.service_id # None => \E k \in 1 .. m : e.service_id = created[k].service_id
      /\ ServicesConsume(rows) /\ events' = events \cup rows
  BY <1>1, <1>3, <1>4 DEF PlanMatches, LoopLabels, Ledger
<1>6. \A k \in 1 .. m : first + k - 1 \in ServiceId
  <2>1. PICK keys : keys = KeysFor(req[p])
    OBVIOUS
  <2>2. /\ first \in Nat \ {0} /\ m \in Nat /\ keys \in Nat /\ m <= keys
        /\ begun \in Nat /\ begun <= MaxRequests /\ MaxRequests \in Nat
        /\ first + keys - 1 <= begun
    BY <1>2, <1>3, <1>4, <2>1, ParametersAssumption
  <2>3. \A k \in 1 .. m : first + k - 1 \in 1 .. MaxRequests
    BY <2>2
  <2> QED BY <2>3 DEF ServiceId
<1>7. \A s \in Live : s \in ServiceId /\ s \in Nat /\ s < first
  BY <1>2, <1>3, ParametersAssumption DEF Live, ServiceId
\* A service that was there.
<1>8. ASSUME NEW s \in Live
      PROVE  s \in Live' /\ Entered(s)' /\ StopsIn(services'[s]) = StopsIn(services[s])
  <2>1. ~\E trip \in Range(created) : trip.service_id = s
    <3>1. SUFFICES ASSUME NEW k \in 1 .. m, created[k].service_id = s PROVE FALSE
      BY <1>4 DEF Range
    <3>2. created[k].service_id = first + k - 1
      <4>1. PICK trip, key : trip = created[k] /\ key = first + k - 1
        OBVIOUS
      <4>2. MadeTrip(p, trip, key)
        BY <1>2, <1>3, <4>1 DEF DayPlanned
      <4> QED BY <1>2, <4>1, <4>2, TripReadsBack
    <3> QED BY <1>4, <1>7, <1>8, <3>1, <3>2
  <2>2. services'[s] = services[s]
    BY <1>1, <1>3, <1>7, <1>8, <2>1
  <2>3. ConsumeEvents(s)' = ConsumeEvents(s)
    <3>1. \A e \in rows : e.service_id # s
      <4>1. s # None
        BY <1>7, <1>8, ParametersAssumption
      <4>2. \A k \in 1 .. m : created[k].service_id # s
        BY <1>4, <2>1 DEF Range
      <4> QED BY <1>5, <4>1, <4>2
    <3> QED BY <1>5, <3>1 DEF ConsumeEvents
  <2>4. Window(s)' = Window(s)
    BY <1>1, <2>2 DEF Window
  <2> QED BY <1>7, <1>8, <2>2, <2>3, <2>4, EnteredKept DEF BookMatches, Live
\* A trip.
<1>9. ASSUME NEW k \in 1 .. m
      PROVE  /\ created[k].service_id \in Live' /\ Entered(created[k].service_id)'
             /\ EndsOnStop(StopsIn(services'[created[k].service_id]))
  <2>1. PICK trip, key : trip = created[k] /\ key = first + k - 1
    OBVIOUS
  <2>2. MadeTrip(p, trip, key) /\ InRows(rows, trip)
    BY <1>2, <1>3, <1>5, <2>1 DEF DayPlanned
  <2>3. trip.service_id = key /\ TripRow(trip) # None
    BY <1>2, <2>2, TripReadsBack
  <2>4. key \in ServiceId /\ key - first + 1 = k /\ key # None /\ key >= first /\ key \in Nat
    BY <1>4, <1>6, <2>1, ParametersAssumption DEF ServiceId
  <2>5. services'[key] = TripRow(trip)
    <3>1. created[k] \in Range(created)
      BY <1>4 DEF Range
    <3> QED BY <1>1, <1>3, <2>1, <2>3, <2>4, <3>1
  <2>6. \A e \in events : e.service_id # key
    <3>1. key \notin Live
      BY <1>4, <1>7, <2>4
    <3> QED BY <2>4, <3>1 DEF BookMatches
  <2>7. Entered(key)' /\ EndsOnStop(StopsIn(services'[key]))
    BY <1>1, <1>2, <1>5, <2>2, <2>4, <2>5, <2>6, TripInBook
  <2> QED BY <2>1, <2>3, <2>4, <2>5, <2>7 DEF Live
<1>10. ASSUME NEW s \in Live'
       PROVE  s \in Live \/ \E k \in 1 .. m : s = created[k].service_id
  <2>1. s \in ServiceId /\ services'[s] # None
    BY <1>10 DEF Live
  <2>2. CASE \E trip \in Range(created) : trip.service_id = s
    BY <1>4, <2>2 DEF Range
  <2>3. CASE ~\E trip \in Range(created) : trip.service_id = s
    BY <1>1, <1>3, <2>1, <2>3 DEF Live
  <2> QED BY <2>2, <2>3
<1>11. \A s \in Live' : Entered(s)'
  BY <1>8, <1>9, <1>10
<1>12. \A e \in events' : e.service_id # None => e.service_id \in Live'
  BY <1>5, <1>8, <1>9 DEF BookMatches
<1>13. ServicesConsume(events')
  BY <1>5 DEF BookMatches, ServicesConsume
<1>14. (\E r \in Requests : r.op = "block") => \A s \in Live' : EndsOnStop(StopsIn(services'[s]))
  BY <1>8, <1>9, <1>10 DEF BookMatches
<1>15. vehicles' \subseteq Vehicle
  BY <1>1 DEF BookMatches
<1> QED BY <1>11, <1>12, <1>13, <1>14, <1>15 DEF BookMatches

\* A trip is placed, and its rows.
LEMMA InsertMatches ==
  ASSUME DayInv, NEW p \in Proc, InsertTrip(p), ~GenRefuse(p, 500), PlanCharged(p), PlanMatches(p)
  PROVE  PlanMatches(p)'
<1> USE DEF DayInv, AloneInv
<1>0. PICK trip, entered, since, slot :
        /\ trip = CandidateTrip(p, NextKey(p), dep_battery[p]) /\ entered = TripEvents(p)
        /\ since = IF DEFAULT_ROUND_TRIP[Len(DEFAULT_ROUND_TRIP)] = YARD THEN TripEnd(p) ELSE None
        /\ slot = plan[p].slot + req[p].interval
  OBVIOUS
<1>1. /\ pc[p] = "gen_insert" /\ ticket' = ticket
      /\ plan' = [plan EXCEPT ![p] = [plan[p] EXCEPT
             !.created = Append(plan[p].created, trip), !.events = plan[p].events \cup entered,
             !.last_yard_idle_since = since, !.slot = slot]]
  BY <1>0 DEF InsertTrip, request
<1>2. PICK created, rows, first, key, m :
        /\ created = plan[p].created /\ rows = plan[p].events /\ first = ticket[p]
        /\ key = NextKey(p) /\ m = Len(created)
  OBVIOUS
<1>3. /\ PlanFits(p) /\ DayPlanned(p) /\ req[p] \in Generations /\ DOMAIN plan = Proc
      /\ first \in Nat \ {0} /\ block_configs \in [BLOCKS -> Nat \ {0}]
  BY <1>1, <1>2 DEF Generating, GenInv, GenLabels, LoopLabels, ServingInv, TimetableOK
<1>4. PICK V : created \in Seq(V)
  BY <1>2, <1>3 DEF PlanFits
<1>5. /\ m \in Nat /\ DOMAIN created = 1 .. m /\ key = first + m /\ key # None
  BY <1>2, <1>3, <1>4, ParametersAssumption DEF NextKey
<1>6. /\ DOMAIN Append(created, trip) = 1 .. (m + 1)
      /\ \A k \in 1 .. m : Append(created, trip)[k] = created[k]
      /\ Append(created, trip)[m + 1] = trip
  BY <1>2, <1>4, <1>5
<1>7. \A k \in 1 .. m : created[k].service_id # key /\ created[k].service_id # None
  <2>1. SUFFICES ASSUME NEW k \in 1 .. m PROVE created[k].service_id = first + k - 1
    BY <1>3, <1>5, ParametersAssumption
  <2>2. PICK t, n : t = created[k] /\ n = first + k - 1
    OBVIOUS
  <2>3. MadeTrip(p, t, n)
    BY <1>2, <1>3, <2>2 DEF DayPlanned
  <2> QED BY <1>3, <2>2, <2>3, TripReadsBack DEF MadeTrip
<1>8. /\ \A k \in 1 .. m : InRows(rows, created[k])
      /\ \A e \in rows : e.service_id # None => \E k \in 1 .. m : e.service_id = created[k].service_id
      /\ ServicesConsume(rows)
  BY <1>1, <1>2, <1>5 DEF PlanMatches, LoopLabels
\* The rows of the trip: its consumption, and perhaps a charge of no service.
<1>9. PICK x \in entered :
        /\ x.service_id = key /\ x.event_type = "SERVICE_CONSUME" /\ x.vehicle_id = trip.vehicle_id
        /\ x.occurred_at = _service_end(trip.stops)
        /\ x.delta = Hundredths(service_consume_delta(trip.stops))
        /\ \A e \in entered \ {x} : e.service_id = None /\ e.event_type # "SERVICE_CONSUME"
  <2>1. PICK x : x = emit_service_consume(key, Current(p), key, TripEnd(p),
                                          service_consume_delta(Tuples(p)))
    OBVIOUS
  <2>2. x \in entered /\ \A e \in entered \ {x} : e.service_id = None /\ e.event_type # "SERVICE_CONSUME"
    BY <1>0, <1>2, <2>1 DEF TripEvents, emit_yard_charge, Event
  <2>3. /\ x.service_id = key /\ x.event_type = "SERVICE_CONSUME" /\ x.vehicle_id = Current(p)
        /\ x.occurred_at = TripEnd(p) /\ x.delta = Hundredths(service_consume_delta(Tuples(p)))
    BY <2>1 DEF emit_service_consume, Event
  <2>4. trip.vehicle_id = Current(p) /\ trip.stops = Tuples(p) /\ TripEnd(p) = _service_end(Tuples(p))
    BY <1>0 DEF CandidateTrip, TripEnd, _service_end
  <2> QED BY <2>2, <2>3, <2>4
<1>10. trip.service_id = key
  BY <1>0, <1>2 DEF CandidateTrip
<1>11. ServicesConsume(rows \cup entered)
  BY <1>5, <1>8, <1>9 DEF ServicesConsume
<1>12. InRows(rows \cup entered, trip)
  <2>1. \A e \in rows : e.service_id # key
    BY <1>5, <1>7, <1>8
  <2>2. {e \in rows \cup entered : e.service_id = trip.service_id} = {x}
    BY <1>5, <1>9, <1>10, <2>1
  <2> QED BY <1>9, <2>2 DEF InRows
<1>13. ASSUME NEW k \in 1 .. m PROVE InRows(rows \cup entered, created[k])
  <2>1. PICK e \in rows :
          /\ {y \in rows : y.service_id = created[k].service_id} = {e}
          /\ e.vehicle_id = created[k].vehicle_id /\ e.occurred_at = _service_end(created[k].stops)
          /\ e.delta = Hundredths(service_consume_delta(created[k].stops))
    BY <1>8, <1>13 DEF InRows
  <2>2. \A y \in entered : y.service_id # created[k].service_id
    BY <1>7, <1>9
  <2>3. {y \in rows \cup entered : y.service_id = created[k].service_id} = {e}
    BY <2>1, <2>2
  <2> QED BY <2>1, <2>3 DEF InRows
<1>14. PICK after : after = Append(created, trip)
  OBVIOUS
<1>15. plan'[p].created = after /\ plan'[p].events = rows \cup entered
  <2>1. plan'[p] = [plan[p] EXCEPT !.created = after, !.events = rows \cup entered,
                      !.last_yard_idle_since = since, !.slot = slot]
    BY <1>1, <1>2, <1>3, <1>14
  <2>2. "created" \in DOMAIN plan[p] /\ "events" \in DOMAIN plan[p]
    BY <1>3 DEF PlanFits, PlanCharged
  <2> QED BY <2>1, <2>2
<1>16. \A k \in DOMAIN after : InRows(rows \cup entered, after[k])
  <2>1. ASSUME NEW k \in 1 .. m PROVE InRows(rows \cup entered, after[k])
    BY <1>6, <1>13, <1>14
  <2>2. InRows(rows \cup entered, after[m + 1])
    BY <1>6, <1>12, <1>14
  <2>3. \A k \in DOMAIN after : k \in 1 .. m \/ k = m + 1
    BY <1>5, <1>6, <1>14
  <2> QED BY <2>1, <2>2, <2>3
<1>17. \A e \in rows \cup entered : e.service_id # None =>
         \E k \in DOMAIN after : e.service_id = after[k].service_id
  BY <1>5, <1>6, <1>8, <1>9, <1>10, <1>14
<1> QED BY <1>11, <1>15, <1>16, <1>17 DEF PlanMatches, InRows

\* The generator keeps timetable and ledger together.
LEMMA GenStepMatches ==
  ASSUME OneHandler, RowsAreRows, DayInv, BookMatches, NEW p \in Proc, Charging(p), PlanMatches(p),
         BeginGenerate(p) \/ GenStep(p)
  PROVE  BookMatches' /\ WriteExact(p)' /\ PlanMatches(p)'
<1> USE DEF DayInv, AloneInv, GenLabels, LoopLabels
<1>d. DOMAIN pc = Proc /\ DOMAIN plan = Proc
  BY DEF GenInv
<1>w. ASSUME pc'[p] \in GenLabels \cup {"idle"} PROVE WriteExact(p)'
  BY <1>w DEF WriteExact, Updating
<1>i. ASSUME pc'[p] \in {"idle", "gen_config", "gen_vehicles"} PROVE WriteExact(p)' /\ PlanMatches(p)'
  BY <1>i, <1>w DEF PlanMatches
<1>p. ASSUME pc[p] \in {"gen_services", "gen_stops"} \cup LoopLabels
      PROVE  {"created", "events"} \subseteq DOMAIN plan[p]
  BY <1>p DEF Generating, PlanFits, Charging, PlanCharged
\* The plan goes on with the same trips and rows.
<1>f. ASSUME plan'[p].created = plan[p].created, plan'[p].events = plan[p].events,
             pc[p] \in {"gen_services", "gen_stops"} \cup LoopLabels
      PROVE  PlanMatches(p)'
  BY <1>f DEF PlanMatches, InRows
<1>1. CASE BeginGenerate(p)
  <2>1. pc'[p] = "gen_config" /\ UNCHANGED tables
    BY <1>d, <1>1 DEF BeginGenerate, Goto
  <2> QED BY <1>i, <2>1, MatchSame
<1>2. CASE \E status : GenRefuse(p, status)
  <2>1. PICK status : Answer(p, status) /\ UNCHANGED tables
    BY <1>2, Zenon DEF GenRefuse, Refuse
  <2>2. pc'[p] = "idle"
    BY <1>d, <2>1 DEF Answer, Goto
  <2> QED BY <1>i, <2>1, <2>2, MatchSame
<1>3. CASE ReadConfig(p)
  <2>1. pc'[p] = "gen_vehicles" /\ UNCHANGED tables
    BY <1>d, <1>3 DEF ReadConfig, Goto
  <2> QED BY <1>i, <2>1, MatchSame
<1>4. CASE ReadVehicles(p) /\ ~GenRefuse(p, 404)
  <2>1. pc'[p] = "gen_services" /\ UNCHANGED tables
    BY <1>d, <1>4 DEF ReadVehicles, Goto
  <2>2. plan'[p].created = << >> /\ plan'[p].events = {}
    BY <1>d, <1>4 DEF ReadVehicles
  <2>3. PlanMatches(p)'
    BY <2>2 DEF PlanMatches, ServicesConsume
  <2> QED BY <1>w, <2>1, <2>3, MatchSame
<1>5. CASE ReadServices(p) \/ ReadStops(p)
  <2>1. /\ pc[p] \in {"gen_services", "gen_stops"} /\ pc'[p] \in {"gen_stops", "gen_slot"}
        /\ UNCHANGED tables
    BY <1>d, <1>5 DEF ReadServices, ReadStops, Goto
  <2>2. plan'[p].created = plan[p].created /\ plan'[p].events = plan[p].events
    BY <1>d, <1>p, <1>5, <2>1 DEF ReadServices, ReadStops
  <2> QED BY <1>f, <1>w, <2>1, <2>2, MatchSame
<1>6. CASE NextVehicle(p)
  <2>1. pc[p] = "gen_slot" /\ pc'[p] = "gen_slot" /\ UNCHANGED tables
    BY <1>6 DEF NextVehicle, vars
  <2>2. plan'[p].created = plan[p].created /\ plan'[p].events = plan[p].events
    BY <1>d, <1>p, <1>6, <2>1 DEF NextVehicle
  <2> QED BY <1>f, <1>w, <2>1, <2>2, MatchSame
<1>7. CASE ReadIdleBattery(p) \/ CheckSlot(p)
  <2>1. /\ pc[p] \in {"gen_slot", "gen_battery"} /\ pc'[p] \in LoopLabels /\ UNCHANGED tables
    BY <1>d, <1>7 DEF ReadIdleBattery, CheckSlot, Goto
  <2>2. plan'[p].created = plan[p].created /\ plan'[p].events = plan[p].events
    <3>1. CASE ReadIdleBattery(p)
      BY <1>d, <1>p, <2>1, <3>1 DEF ReadIdleBattery
    <3>2. CASE CheckSlot(p)
      <4>1. plan' = plan \/ plan' = [plan EXCEPT ![p] = [plan[p] EXCEPT !.slot = @ + req[p].interval]]
        BY <3>2 DEF CheckSlot, AfterRejection
      <4> QED BY <1>d, <1>p, <2>1, <4>1
    <3> QED BY <1>7, <3>1, <3>2
  <2> QED BY <1>f, <1>w, <2>1, <2>2, MatchSame
<1>8. CASE InsertTrip(p) /\ ~GenRefuse(p, 500)
  <2>1. pc[p] = "gen_insert" /\ pc'[p] = "gen_slot" /\ UNCHANGED tables
    BY <1>d, <1>8 DEF InsertTrip, Goto
  <2>2. PlanCharged(p)
    BY <2>1 DEF Charging
  <2>3. PlanMatches(p)'
    BY <1>8, <2>2, InsertMatches
  <2> QED BY <1>w, <2>1, <2>3, MatchSame
<1>9. CASE FinishGenerate(p) /\ ~GenRefuse(p, 422)
  <2>1. pc'[p] = "idle"
    BY <1>d, <1>9 DEF FinishGenerate, Answer, Goto
  <2> QED BY <1>i, <1>9, <2>1, FinishMatches
<1> QED BY <1>1, <1>2, <1>3, <1>4, <1>5, <1>6, <1>7, <1>8, <1>9 DEF GenStep

LEMMA MatchStarts == GenInit => MatchInv
<1> SUFFICES ASSUME GenInit PROVE MatchInv
  OBVIOUS
<1>1. /\ events = {emit_baseline(v, BATTERY_INITIAL) : v \in Vehicle} /\ Live = {}
      /\ vehicles = Vehicle /\ pc = [p \in Proc |-> "idle"]
  BY DEF GenInit, Init, Live
<1>2. \A e \in events : e.service_id = None /\ e.event_type # "SERVICE_CONSUME"
  BY <1>1 DEF emit_baseline, Event
<1>3. BookMatches
  BY <1>1, <1>2 DEF BookMatches, ServicesConsume
<1>4. \A p \in Proc : WriteExact(p) /\ PlanMatches(p)
  BY <1>1 DEF WriteExact, PlanMatches, Updating, LoopLabels
<1> QED BY <1>3, <1>4 DEF MatchInv

\* Everything a lone process keeps of timetable and ledger.
KeptInv == ChargeInv /\ WipedInv /\ MatchInv

LEMMA KeptStep ==
  ASSUME OneHandler, RowsAreRows, EndsStay, KeptInv, [GenNext]_gvars
  PROVE  KeptInv'
<1>0. ChargeInv /\ WipedInv /\ MatchInv /\ DayInv /\ GenInv
  BY DEF KeptInv, ChargeInv, DayInv, AloneInv
<1>1. ChargeInv' /\ WipedInv'
  BY <1>0, ChargeKeeps, WipedKeeps
<1>2. ASSUME NEW p \in Proc, BeginGenerate(p) \/ GenStep(p) PROVE MatchInv'
  <2>1. BookMatches' /\ WriteExact(p)' /\ PlanMatches(p)'
    BY <1>0, <1>2, GenStepMatches DEF ChargeInv, MatchInv
  <2> QED BY <2>1 DEF OneHandler, MatchInv
<1>3. ASSUME NEW p \in Proc, HandlerStep(p) \/ (Begin(p) /\ UNCHANGED plan) PROVE MatchInv'
  <2>1. Begin(p) \/ Step(p)
    BY <1>3 DEF HandlerStep
  <2>2. TimetableOK'
    BY <1>1 DEF ChargeInv, DayInv, ServingInv
  <2>3. BookMatches' /\ WriteExact(p)'
    BY <1>0, <2>1, <2>2, MatchHandled DEF ChargeInv, MatchInv
  <2>4. pc'[p] \notin GenLabels
    BY <1>0, <2>1, HandlersApart
  <2>5. PlanMatches(p)'
    BY <2>4 DEF PlanMatches, GenLabels
  <2> QED BY <2>3, <2>5 DEF OneHandler, MatchInv
<1>4. ASSUME UNCHANGED gvars \/ (Served /\ UNCHANGED plan) PROVE MatchInv'
  <2>1. /\ UNCHANGED tables
        /\ UNCHANGED <<services, events, wiped, pc, req, ticket, loaded, plan>>
    BY <1>4 DEF gvars, vars, tables, request, reads, Served
  <2>2. BookMatches'
    BY <1>0, <2>1, MatchSame DEF MatchInv
  <2>3. ASSUME NEW p \in Proc PROVE WriteExact(p)'
    <3>1. /\ Creating(p)' = Creating(p) /\ Rechecked(p)' = Rechecked(p)
          /\ ConsumeEvents(req[p].service_id)' = ConsumeEvents(req[p].service_id)
      BY <2>1 DEF Creating, Rechecked, Reassigning, ConsumeEvents
    <3> QED BY <1>0, <2>1, <3>1 DEF WriteExact, MatchInv
  <2>4. \A p \in Proc : PlanMatches(p)'
    BY <1>0, <2>1 DEF PlanMatches, InRows, MatchInv
  <2> QED BY <2>2, <2>3, <2>4 DEF MatchInv
<1>5. MatchInv'
  BY <1>2, <1>3, <1>4 DEF GenNext
<1> QED BY <1>1, <1>5 DEF KeptInv

LEMMA KeptInvariant ==
  ASSUME OneHandler, RowsAreRows, EndsStay
  PROVE  GenSpec => []KeptInv
<1>1. GenInit => KeptInv
  <2> SUFFICES ASSUME GenInit PROVE WipedInv
    BY ChargeStarts, MatchStarts DEF KeptInv
  <2> QED BY DEF GenInit, Init, WipedInv, WipedOK, Creating
<1> QED BY <1>1, KeptStep, PTL DEF GenSpec

\* The rows of an accepted payload, or of a trip, are read back with the blocks they are
\* charged for.
LEMMA KeptRows ==
  ASSUME TimetableOK
  PROVE  RowsReadBack
<1> SUFFICES ASSUME NEW s \in Live, NEW snap, snap = SnapshotOf(s, services[s], block_configs)
             PROVE  /\ Instants(snap)
                    /\ service_consume_delta(snap.stops) = service_consume_delta(StopsIn(services[s]))
  BY DEF RowsReadBack
<1>1. PICK stops, traversal : stops = StopsIn(services[s]) /\ traversal = block_configs
  OBVIOUS
<1>2. TimesTyped(stops) /\ Accepts(stops) /\ traversal \in [BLOCKS -> Nat \ {0}]
  BY <1>1 DEF TimetableOK, RowAccepted
<1>3. PICK tuples : tuples = SnapshotStops(stops, traversal)
  OBVIOUS
<1>4. snap.stops = tuples
  BY <1>1, <1>3 DEF SnapshotOf
<1>5. service_consume_delta(tuples) = service_consume_delta(stops)
  BY <1>2, <1>3, ConsumeDelta
<1>6. RunsThrough(stops, traversal, tuples, Len(stops)) /\ Len(stops) \in Nat \ {0}
  <2>1. \A i \in DOMAIN stops : TraversalSeconds(stops[i].node_id, traversal) \in Nat
    BY <1>2 DEF TraversalSeconds
  <2>2. RunsThrough(stops, traversal, tuples, Len(stops))
    BY <1>2, <1>3, <2>1, AcceptedRunsThrough, ParametersAssumption
  <2>3. Len(stops) \in Nat /\ Len(stops) >= 2
    BY <1>2, AcceptedStops DEF TimesTyped
  <2> QED BY <2>2, <2>3
<1>7. /\ Len(tuples) \in Nat \ {0} /\ DOMAIN tuples = 1 .. Len(tuples)
      /\ \A i \in DOMAIN tuples : tuples[i].enter \in Nat /\ tuples[i].exit \in Nat
  <2> DEFINE Instant == [node_id : {stops[i].node_id : i \in DOMAIN stops}, enter : Nat, exit : Nat]
  <2>1. tuples \in Seq(Instant) /\ Len(tuples) = Len(stops)
    BY <1>6 DEF RunsThrough
  <2>2. \A t \in Instant : t.enter \in Nat /\ t.exit \in Nat
    OBVIOUS
  <2> HIDE DEF Instant
  <2> QED BY <1>6, <2>1, <2>2
<1> QED BY <1>1, <1>4, <1>5, <1>7 DEF Instants

\* With one process at work, and no block retimed on which an accepted path ends: every
\* stored service, written by hand or generated, is in the ledger exactly once, for its own
\* vehicle, with the blocks of its stored path and at the end of its window, and the ledger
\* holds no event of a service that is gone: the generator enters the services and their
\* events under keys it counts up itself, and what it entered is later replaced and
\* cascaded like what was entered by hand.
THEOREM GeneratedLedgersMatch ==
  ASSUME OneHandler, RowsAreRows, EndsStay
  PROVE  GenSpec => []LedgerMatchesTimetable
<1>1. KeptInv => LedgerMatchesTimetable
  BY DEF KeptInv, MatchInv, BookMatches, Entered, LedgerMatchesTimetable
<1> QED BY <1>1, KeptInvariant, PTL

\* Under the same hypotheses the two accounts of a battery agree on generated days too:
\* whenever a vehicle is between services, the level the positions show is the level of the
\* ledger, with the charges of the schedules and the adjustments dated later counted in.
THEOREM GeneratedLevelsAgree ==
  ASSUME OneHandler, RowsAreRows, EndsStay
  PROVE  GenSpec => []ShownLevelIsLedgerLevel
<1>1. KeptInv => ShownLevelIsLedgerLevel
  <2> SUFFICES ASSUME KeptInv PROVE ShownLevelIsLedgerLevel
    OBVIOUS
  <2>1. BookMatches /\ BookOK /\ TimetableOK
    BY DEF KeptInv, MatchInv, ChargeInv, DayInv, ServingInv
  <2>2. LedgerMatchesTimetable
    BY <2>1 DEF BookMatches, Entered, LedgerMatchesTimetable
  <2>3. LedgerSound
    <3>1. \A v \in Vehicle : IsFiniteSet(EventsOf(events, v))
      BY <2>1 DEF BookOK, LedgerKept
    <3>2. \A e \in events : EventSound(e)
      BY <2>1 DEF BookOK, LedgerKept, EventKept, EventSound, InHundredths, BookMatches, ServicesConsume
    <3> QED BY <3>1, <3>2 DEF LedgerSound
  <2>4. RowsReadBack /\ vehicles \subseteq Vehicle
    BY <2>1, KeptRows DEF BookMatches
  <2> QED BY <2>2, <2>3, <2>4, ShownAsLedger
<1> QED BY <1>1, KeptInvariant, PTL
=============================================================================
