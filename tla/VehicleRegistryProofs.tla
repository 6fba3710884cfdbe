------------------------ MODULE VehicleRegistryProofs ------------------------
(***************************************************************************)
(* What holds of the registry for any number of handlers, names, levels,   *)
(* requests and starts: names are unique, every vehicle has its one        *)
(* baseline, a migration keeps its level, a name taken meanwhile is a      *)
(* conflict and not an error, and no start changes a traversal time.       *)
(***************************************************************************)
EXTENDS VehicleRegistry, StopTimesProofs

AnyRequest ==
  {CreateVehicle(n, l) : n \in Name, l \in Level}
    \cup {UpdateVehicle(v, n, l) : v \in VehicleId, n \in Name \cup {None}, l \in Level \cup {None}}
    \cup {DeleteVehicle(v) : v \in VehicleId}

Labels == {"idle", "get", "taken", "flush", "commit", "refresh", "delete"}

\* Handlers and the kind of request each label belongs to.
HandlersTyped ==
  /\ begun \in Nat
  /\ pc \in [Proc -> Labels]
  /\ req \in [Proc -> AnyRequest \cup {None}]
  /\ ticket \in [Proc -> Nat]
  /\ reply \in [Proc -> Nat]
  /\ \A p \in Proc :
       /\ pc[p] # "idle" => req[p] \in AnyRequest /\ ticket[p] \in 1 .. begun
       /\ pc[p] = "get" => req[p].op # "create"
       /\ pc[p] = "delete" => req[p].op = "delete"
       /\ pc[p] \in {"taken", "flush", "commit", "refresh"} => req[p].op \in {"create", "update"}
       /\ pc[p] = "flush" /\ req[p].op = "update" => req[p].level # None

\* Handlers run while the server is up, and then the schema has its ledger.
ServerPhases ==
  /\ server \in {"down", "migrated", "up"}
  /\ server # "down" => version = 2
  /\ \A p \in Proc : pc[p] # "idle" => server = "up"

\* Requests have numbers of their own, and a vehicle that is being created has the
\* number of its request.
NumbersFresh ==
  /\ \A v \in Stored : v \in Nat /\ v <= begun + 1
  /\ \A p, q \in Proc : p # q /\ pc[p] # "idle" /\ pc[q] # "idle" => ticket[p] # ticket[q]
  /\ \A p \in Proc : pc[p] \in {"taken", "flush", "commit"} /\ Creating(p) => Target(p) \notin Stored

RegInv == HandlersTyped /\ ServerPhases /\ NumbersFresh

\* A request is of one of three kinds.
LEMMA RequestKinds ==
  ASSUME NEW r \in AnyRequest
  PROVE  /\ r.op \in {"create", "update", "delete"}
         /\ r.op # "create" => r.id \in VehicleId
BY DEF AnyRequest, CreateVehicle, UpdateVehicle, DeleteVehicle

LEMMA RegInit == RegistryInit => RegInv
BY DEF RegistryInit, RegInv, HandlersTyped, ServerPhases, NumbersFresh, Labels, Stored, Creating

\* A handler that ends or refuses a request leaves the rest of RegInv as it is.
LEMMA AnswerKeeps ==
  ASSUME RegInv, NEW p \in Proc, pc[p] # "idle", NEW status \in Nat, Answer(p, status),
         server' = server, version' = version, Stored' \subseteq Stored
  PROVE  RegInv'
<1>1. HandlersTyped'
  BY DEF Answer, Goto, RegInv, HandlersTyped, Labels
<1>2. ServerPhases'
  BY DEF Answer, Goto, RegInv, HandlersTyped, ServerPhases
<1>3. NumbersFresh'
  BY DEF Answer, Goto, RegInv, HandlersTyped, NumbersFresh, Creating, Target
<1> QED BY <1>1, <1>2, <1>3 DEF RegInv

\* Likewise one that moves on with its request.
LEMMA MoveKeeps ==
  ASSUME RegInv, NEW p \in Proc, pc[p] # "idle", NEW label \in Labels \ {"idle"},
         Goto(p, label), session' = session, reply' = reply, server' = server, version' = version,
         label = "get" => req[p].op # "create",
         label = "delete" => req[p].op = "delete",
         label \in {"taken", "flush", "commit", "refresh"} => req[p].op \in {"create", "update"},
         label = "flush" /\ req[p].op = "update" => req[p].level # None,
         \A v \in Stored' : v \in Stored \/ (v = Target(p) /\ v \in Nat /\ v <= begun + 1),
         Creating(p) /\ label \in {"taken", "flush", "commit"} =>
           pc[p] \in {"taken", "flush", "commit"} /\ Stored' = Stored,
         Stored' # Stored => Creating(p)
  PROVE  RegInv'
<1>1. HandlersTyped'
  BY DEF Goto, session, RegInv, HandlersTyped, Labels
<1>2. ServerPhases'
  BY DEF Goto, session, RegInv, HandlersTyped, ServerPhases
<1>3. \A q \in Proc : Creating(q)' = Creating(q) /\ Target(q)' = Target(q)
  BY DEF session, Creating, Target
<1>4. ASSUME NEW q \in Proc, pc'[q] \in {"taken", "flush", "commit"}, Creating(q)
      PROVE  Target(q) \notin Stored'
  <2>1. CASE q = p
    BY <2>1, <1>4 DEF Goto, RegInv, HandlersTyped, NumbersFresh
  <2>2. CASE q # p
    <3>1. pc[q] \in {"taken", "flush", "commit"} /\ Target(q) \notin Stored
      BY <2>2, <1>4 DEF Goto, RegInv, HandlersTyped, NumbersFresh
    <3>2. ticket[q] # ticket[p]
      BY <2>2, <3>1 DEF RegInv, NumbersFresh
    <3>3. Creating(p) => Target(q) # Target(p)
      BY <3>2, <1>4 DEF Target, RegInv, HandlersTyped
    <3> QED BY <3>1, <3>3
  <2> QED BY <2>1, <2>2
<1>5. NumbersFresh'
  BY <1>3, <1>4 DEF Goto, session, RegInv, HandlersTyped, NumbersFresh
<1> QED BY <1>1, <1>2, <1>5 DEF RegInv

LEMMA BeginKeeps ==
  ASSUME RegInv, NEW p \in Proc, Begin(p)
  PROVE  RegInv'
<1>0. /\ pc[p] = "idle" /\ server = "up" /\ begun' = begun + 1 /\ Stored' = Stored
      /\ begun < MaxRequests
      /\ ticket' = [ticket EXCEPT ![p] = begun + 1]
      /\ server' = server /\ version' = version
  BY DEF Begin, tables, Stored
<1>1. PICK r \in AnyRequest, label \in {"taken", "get"} :
        /\ req' = [req EXCEPT ![p] = r] /\ pc' = [pc EXCEPT ![p] = label]
        /\ (label = "taken" <=> r.op = "create")
  <2>1. CASE \E n \in Name, l \in Level :
               req' = [req EXCEPT ![p] = CreateVehicle(n, l)] /\ Goto(p, "taken")
    <3>1. PICK n \in Name, l \in Level :
            req' = [req EXCEPT ![p] = CreateVehicle(n, l)] /\ Goto(p, "taken")
      BY <2>1
    <3>2. CreateVehicle(n, l) \in AnyRequest /\ CreateVehicle(n, l).op = "create"
      BY DEF AnyRequest, CreateVehicle
    <3> QED BY <3>1, <3>2 DEF Goto
  <2>2. CASE \E v \in VehicleId, n \in Name \cup {None}, l \in Level \cup {None} :
               req' = [req EXCEPT ![p] = UpdateVehicle(v, n, l)] /\ Goto(p, "get")
    <3>1. PICK v \in VehicleId, n \in Name \cup {None}, l \in Level \cup {None} :
            req' = [req EXCEPT ![p] = UpdateVehicle(v, n, l)] /\ Goto(p, "get")
      BY <2>2
    <3>2. UpdateVehicle(v, n, l) \in AnyRequest
      BY DEF AnyRequest
    <3>3. UpdateVehicle(v, n, l).op # "create"
      BY DEF UpdateVehicle
    <3> QED BY <3>1, <3>2, <3>3 DEF Goto
  <2>3. CASE \E v \in VehicleId : req' = [req EXCEPT ![p] = DeleteVehicle(v)] /\ Goto(p, "get")
    <3>1. PICK v \in VehicleId : req' = [req EXCEPT ![p] = DeleteVehicle(v)] /\ Goto(p, "get")
      BY <2>3
    <3>2. DeleteVehicle(v) \in AnyRequest /\ DeleteVehicle(v).op # "create"
      BY DEF AnyRequest, DeleteVehicle
    <3> QED BY <3>1, <3>2 DEF Goto
  <2>4. \/ \E n \in Name, l \in Level :
             req' = [req EXCEPT ![p] = CreateVehicle(n, l)] /\ Goto(p, "taken")
        \/ \E v \in VehicleId, n \in Name \cup {None}, l \in Level \cup {None} :
             req' = [req EXCEPT ![p] = UpdateVehicle(v, n, l)] /\ Goto(p, "get")
        \/ \E v \in VehicleId : req' = [req EXCEPT ![p] = DeleteVehicle(v)] /\ Goto(p, "get")
    BY DEF Begin
  <2> QED BY <2>1, <2>2, <2>3, <2>4
<1>2. HandlersTyped'
  <2>1. /\ begun' \in Nat /\ pc' \in [Proc -> Labels] /\ req' \in [Proc -> AnyRequest \cup {None}]
        /\ ticket' \in [Proc -> Nat] /\ reply' \in [Proc -> Nat]
    BY <1>0, <1>1 DEF Begin, RegInv, HandlersTyped, Labels
  <2>2. ASSUME NEW q \in Proc, q # p
        PROVE  pc'[q] = pc[q] /\ req'[q] = req[q] /\ ticket'[q] = ticket[q]
    BY <1>0, <1>1, <2>2 DEF RegInv, HandlersTyped
  <2>3. pc'[p] = IF r.op = "create" THEN "taken" ELSE "get"
    BY <1>1 DEF RegInv, HandlersTyped
  <2>4. req'[p] = r /\ ticket'[p] = begun + 1
    BY <1>0, <1>1 DEF RegInv, HandlersTyped
  <2> QED BY <1>0, <2>1, <2>2, <2>3, <2>4 DEF RegInv, HandlersTyped
<1>3. ServerPhases'
  BY <1>0, <1>1 DEF RegInv, HandlersTyped, ServerPhases
<1>4. NumbersFresh'
  BY <1>0, <1>1 DEF RegInv, HandlersTyped, NumbersFresh, Creating, Target
<1> QED BY <1>2, <1>3, <1>4 DEF RegInv

\* Every step keeps RegInv.
LEMMA RegStep == RegInv /\ [RegistryNext]_reg => RegInv'
<1> SUFFICES ASSUME RegInv, [RegistryNext]_reg PROVE RegInv'
  OBVIOUS
<1> USE DEF HandlersTyped
<1>1. CASE UNCHANGED reg
  BY <1>1 DEF reg, tables, session, RegInv, ServerPhases, NumbersFresh, Stored, Creating, Target
<1>2. ASSUME UNCHANGED <<pc, session, reply>>, Stored' \subseteq Stored, ServerPhases'
      PROVE  RegInv'
  BY <1>2 DEF session, RegInv, NumbersFresh, Creating, Target
<1>3. CASE downgrade
  BY <1>2, <1>3 DEF downgrade, RegInv, ServerPhases, Stored, session
<1>4. CASE StartServer
  BY <1>2, <1>4 DEF StartServer, upgrade, RegInv, ServerPhases, Stored, session
<1>5. CASE _seed_block_configs
  BY <1>2, <1>5 DEF _seed_block_configs, RegInv, ServerPhases, Stored, session
<1>6. CASE OtherHandlers
  BY <1>2, <1>6 DEF OtherHandlers, RegInv, ServerPhases, Stored, session
<1>7. CASE Crash
  BY <1>7 DEF Crash, tables, RegInv, ServerPhases, NumbersFresh, Stored, Labels, Creating, Target
<1>8. ASSUME NEW p \in Proc, Handler(p) PROVE RegInv'
  <2>1. CASE Begin(p)
    BY <2>1, BeginKeeps
  <2>2. CASE GetVehicle(p)
    <3>1. server' = server /\ version' = version /\ Stored' = Stored /\ pc[p] = "get"
      BY <2>2 DEF GetVehicle, Refuse, tables, Stored
    <3>2. ASSUME NEW status \in Nat, Refuse(p, status) PROVE RegInv'
      BY <3>1, <3>2, AnswerKeeps DEF Refuse
    <3>3. req[p].op \in {"update", "delete"}
      BY <3>1, RequestKinds DEF RegInv
    <3>4. ASSUME NEW label \in {"delete", "taken", "flush", "commit"}, Goto(p, label),
                 label = "delete" <=> req[p].op = "delete",
                 label = "flush" => req[p].level # None,
                 session' = session /\ reply' = reply
          PROVE  RegInv'
      <4>1. ~Creating(p)
        BY <3>3 DEF Creating
      <4>2. label \in Labels \ {"idle"}
        BY DEF Labels
      <4> QED BY <3>1, <3>3, <3>4, <4>1, <4>2, MoveKeeps
    <3>5. CASE Refuse(p, 404) \/ Refuse(p, 409)
      BY <3>2, <3>5
    <3>6. CASE ~(Refuse(p, 404) \/ Refuse(p, 409))
      BY <2>2, <3>3, <3>4, <3>6 DEF GetVehicle
    <3> QED BY <3>5, <3>6
  <2>3. CASE CheckName(p)
    <3>1. server' = server /\ version' = version /\ Stored' = Stored /\ pc[p] = "taken"
      BY <2>3 DEF CheckName, Refuse, tables, Stored
    <3>2. CASE Refuse(p, 409)
      BY <3>1, <3>2, AnswerKeeps DEF Refuse
    <3>3. CASE ~Refuse(p, 409)
      <4>1. PICK label \in {"flush", "commit"} :
              Goto(p, label) /\ (label = "flush" => Creating(p) \/ req[p].level # None)
        BY <2>3, <3>3 DEF CheckName
      <4>2. session' = session /\ reply' = reply
        BY <2>3, <3>3 DEF CheckName
      <4>3. req[p].op \in {"create", "update"} /\ label \in Labels \ {"idle"}
        BY <3>1 DEF RegInv, Labels
      <4> QED BY <3>1, <4>1, <4>2, <4>3, MoveKeeps DEF Creating
    <3> QED BY <3>2, <3>3
  <2>4. CASE Flush(p)
    <3>1. server' = server /\ version' = version /\ Stored' = Stored /\ pc[p] = "flush"
      BY <2>4 DEF Flush, Refuse, tables, Stored
    <3>2. CASE Refuse(p, 500) \/ Refuse(p, FlushRefusal(p))
      BY <3>1, <3>2, AnswerKeeps DEF Refuse, FlushRefusal
    <3>3. CASE ~(Refuse(p, 500) \/ Refuse(p, FlushRefusal(p)))
      <4>1. Goto(p, "commit") /\ session' = session /\ reply' = reply
        BY <2>4, <3>3 DEF Flush
      <4>2. req[p].op \in {"create", "update"}
        BY <3>1 DEF RegInv
      <4> QED BY <3>1, <4>1, <4>2, MoveKeeps DEF Labels
    <3> QED BY <3>2, <3>3
  <2>5. CASE Commit(p)
    <3>1. server' = server /\ version' = version /\ pc[p] = "commit"
      BY <2>5 DEF Commit, Refuse, tables
    <3>2. CASE Refuse(p, 500) \/ Refuse(p, 409)
      <4>1. Stored' = Stored
        BY <3>2 DEF Refuse, tables, Stored
      <4> QED BY <3>1, <3>2, <4>1, AnswerKeeps DEF Refuse
    <3>3. CASE ~(Refuse(p, 500) \/ Refuse(p, 409))
      <4>1. /\ Goto(p, "refresh") /\ session' = session /\ reply' = reply
            /\ Gone(p) => ~Writes(p)
            /\ vehicles' = IF Renaming(p) THEN Renamed(Target(p), req[p].name) ELSE vehicles
        BY <2>5, <3>3 DEF Commit
      <4>2. req[p].op \in {"create", "update"} /\ req[p] \in AnyRequest
        BY <3>1 DEF RegInv
      <4>3. ~Creating(p) => Stored' = Stored
        BY <4>1 DEF Stored, Renamed, Writes, Gone, Target
      <4>4. Creating(p) => Target(p) \in Nat /\ Target(p) <= begun + 1
        BY <3>1 DEF RegInv, Target
      <4>5. \A v \in Stored' : v \in Stored \/ v = Target(p)
        BY <4>1 DEF Stored, Renamed
      <4> QED BY <3>1, <4>1, <4>2, <4>3, <4>4, <4>5, MoveKeeps DEF Labels
    <3> QED BY <3>2, <3>3
  <2>6. CASE Refresh(p)
    <3>1. pc[p] = "refresh" /\ server' = server /\ version' = version /\ Stored' = Stored
      BY <2>6 DEF Refresh, Refuse, tables, Stored
    <3>2. PICK status \in Nat : Answer(p, status)
      BY <2>6 DEF Refresh, Refuse
    <3> QED BY <3>1, <3>2, AnswerKeeps
  <2>7. CASE Delete(p)
    <3>1. pc[p] = "delete" /\ server' = server /\ version' = version /\ Stored' \subseteq Stored
      BY <2>7 DEF Delete, Refuse, tables, Stored
    <3>2. PICK status \in Nat : Answer(p, status)
      BY <2>7 DEF Delete, Refuse
    <3> QED BY <3>1, <3>2, AnswerKeeps
  <2> QED BY <1>8, <2>1, <2>2, <2>3, <2>4, <2>5, <2>6, <2>7 DEF Handler
<1> QED BY <1>1, <1>3, <1>4, <1>5, <1>6, <1>7, <1>8 DEF RegistryNext

\* RegInv holds of every state.
LEMMA RegInvariant == RegistrySpec => []RegInv
BY RegInit, RegStep, PTL DEF RegistrySpec
-----------------------------------------------------------------------------
(* Names *)

\* What a step of a handler does to the table of vehicles.
LEMMA VehicleSteps ==
  ASSUME NEW p \in Proc, Handler(p)
  PROVE  \/ vehicles' = vehicles
         \/ Commit(p) /\ Renaming(p) /\ ~NameClash(p) /\ vehicles' = Renamed(Target(p), req[p].name)
         \/ Delete(p) /\ vehicles' = [w \in Stored \ {req[p].id} |-> vehicles[w]]
<1>1. CASE Begin(p)
  BY <1>1 DEF Begin, tables
<1>2. CASE GetVehicle(p)
  BY <1>2 DEF GetVehicle, Refuse, tables
<1>3. CASE CheckName(p)
  BY <1>3 DEF CheckName, Refuse, tables
<1>4. CASE Flush(p)
  BY <1>4 DEF Flush, Refuse, tables
<1>5. CASE Commit(p)
  BY <1>5 DEF Commit, Refuse, tables
<1>6. CASE Refresh(p)
  BY <1>6 DEF Refresh, Refuse, tables
<1>7. CASE Delete(p)
  BY <1>7 DEF Delete, Refuse, tables
<1> QED BY <1>1, <1>2, <1>3, <1>4, <1>5, <1>6, <1>7 DEF Handler

\* A step that keeps the names, or drops some, keeps them unique.
LEMMA FewerNames ==
  ASSUME NamesAreUnique, Stored' \subseteq Stored, \A v \in Stored' : NameOf(v)' = NameOf(v)
  PROVE  NamesAreUnique'
BY DEF NamesAreUnique

\* The unique constraint is what keeps names apart: the checks of two handlers that
\* wrote nothing yet find nothing.
THEOREM NamesStayUnique == RegistrySpec => []NamesAreUnique
<1>1. RegistryInit => NamesAreUnique
  BY DEF RegistryInit, NamesAreUnique, Stored
<1>2. NamesAreUnique /\ [RegistryNext]_reg => NamesAreUnique'
  <2> SUFFICES ASSUME NamesAreUnique, [RegistryNext]_reg PROVE NamesAreUnique'
    OBVIOUS
  <2>1. CASE vehicles' = vehicles
    BY <2>1 DEF NamesAreUnique, Stored, NameOf
  <2>2. CASE downgrade \/ upgrade
    BY <2>2, FewerNames DEF downgrade, upgrade, Stored, NameOf
  <2>3. ASSUME NEW p \in Proc, Renaming(p), ~NameClash(p),
               vehicles' = Renamed(Target(p), req[p].name)
        PROVE  NamesAreUnique'
    <3>1. /\ Stored' = Stored \cup {Target(p)}
          /\ \A w \in Stored' : NameOf(w)' = IF w = Target(p) THEN req[p].name ELSE NameOf(w)
      BY <2>3 DEF Stored, Renamed, NameOf
    <3> QED BY <2>3, <3>1 DEF NamesAreUnique, NameClash
  <2>4. ASSUME NEW v, vehicles' = [w \in Stored \ {v} |-> vehicles[w]]
        PROVE  NamesAreUnique'
    BY <2>4, FewerNames DEF Stored, NameOf
  <2>5. CASE \E p \in Proc : Handler(p)
    BY <2>1, <2>3, <2>4, <2>5, VehicleSteps
  <2>6. CASE StartServer \/ _seed_block_configs \/ Crash \/ OtherHandlers \/ UNCHANGED reg
    BY <2>1, <2>2, <2>6 DEF StartServer, _seed_block_configs, Crash, OtherHandlers, reg, tables
  <2> QED BY <2>2, <2>5, <2>6 DEF RegistryNext
<1> QED BY <1>1, <1>2, PTL DEF RegistrySpec
-----------------------------------------------------------------------------
(* The ledger *)

Baselines(v) == {e \in EventsOf(events, v) : e.event_type = "BASELINE"}

\* OneBaselinePerVehicle without counting.
BaselineInv ==
  version = 2 =>
    /\ \A v \in Stored : \E b : Baselines(v) = {b}
    /\ \A e \in events : e.vehicle_id \in Stored

\* A row of a vehicle that is there which is no baseline.
LEMMA OtherRows ==
  ASSUME BaselineInv, version' = version, Stored' = Stored,
         NEW rows, events' = events \cup rows,
         \A e \in rows : e.vehicle_id \in Stored /\ e.event_type # "BASELINE"
  PROVE  BaselineInv'
<1>1. \A v \in Stored : Baselines(v)' = Baselines(v)
  BY DEF Baselines, EventsOf
<1> QED BY <1>1 DEF BaselineInv

\* The baseline of a new vehicle.
LEMMA FirstRow ==
  ASSUME BaselineInv, version' = version, version = 2, NEW v, v \notin Stored,
         Stored' = Stored \cup {v}, NEW e, e.vehicle_id = v, e.event_type = "BASELINE",
         events' = events \cup {e}
  PROVE  BaselineInv'
<1>1. Baselines(v)' = {e}
  BY DEF Baselines, EventsOf, BaselineInv
<1>2. \A w \in Stored : Baselines(w)' = Baselines(w)
  BY DEF Baselines, EventsOf
<1> QED BY <1>1, <1>2 DEF BaselineInv

LEMMA BaselineStep == RegInv /\ BaselineInv /\ [RegistryNext]_reg => BaselineInv'
<1> SUFFICES ASSUME RegInv, BaselineInv, [RegistryNext]_reg PROVE BaselineInv'
  OBVIOUS
<1>1. CASE version' = version /\ Stored' = Stored /\ events' = events
  BY <1>1 DEF BaselineInv, Baselines, EventsOf
<1>2. CASE downgrade
  BY <1>2 DEF downgrade, BaselineInv
<1>3. CASE upgrade
  <2>1. Stored' = Stored /\ events' = {Upgraded(v) : v \in Stored}
    BY <1>3 DEF upgrade, Stored
  <2>2. \A v \in Stored : Upgraded(v).vehicle_id = v /\ Upgraded(v).event_type = "BASELINE"
    BY DEF Upgraded, Event
  <2>3. \A v \in Stored : Baselines(v)' = {Upgraded(v)}
    BY <2>1, <2>2 DEF Baselines, EventsOf
  <2> QED BY <2>1, <2>2, <2>3 DEF BaselineInv
<1>4. CASE OtherHandlers
  <2>1. PICK v \in Stored : events' = events \cup {ConsumedBy(v)}
    BY <1>4 DEF OtherHandlers
  <2> DEFINE rows == {ConsumedBy(v)}
  <2>2. \A e \in rows : e.vehicle_id \in Stored /\ e.event_type # "BASELINE"
    BY DEF ConsumedBy, emit_service_consume, Event
  <2>3. version' = version /\ Stored' = Stored /\ events' = events \cup rows
    BY <1>4, <2>1 DEF OtherHandlers, Stored
  <2> HIDE DEF rows
  <2> QED BY <2>2, <2>3, OtherRows
<1>5. ASSUME NEW p \in Proc, Handler(p)
      PROVE  BaselineInv'
  <2>1. CASE UNCHANGED tables
    BY <2>1, <1>1 DEF tables, Stored
  <2>2. CASE Commit(p) /\ ~UNCHANGED tables
    <3>1. /\ Gone(p) => ~Writes(p)
          /\ vehicles' = IF Renaming(p) THEN Renamed(Target(p), req[p].name) ELSE vehicles
          /\ events' = events \cup LedgerRows(p)
          /\ version' = version /\ pc[p] = "commit"
      BY <2>2 DEF Commit, Refuse
    <3>2. version = 2
      BY <3>1 DEF RegInv, ServerPhases
    <3>3. CASE Creating(p)
      <4>1. Stored' = Stored \cup {Target(p)} /\ Target(p) \notin Stored
        BY <3>1, <3>3 DEF Renaming, Renamed, Stored, RegInv, NumbersFresh
      <4>2. events' = events \cup {emit_baseline(Target(p), req[p].level)}
        BY <3>1, <3>3 DEF LedgerRows
      <4>3. /\ emit_baseline(Target(p), req[p].level).vehicle_id = Target(p)
            /\ emit_baseline(Target(p), req[p].level).event_type = "BASELINE"
        BY DEF emit_baseline, Event
      <4> QED BY <3>1, <3>2, <4>1, <4>2, <4>3, FirstRow
    <3>4. CASE ~Creating(p)
      <4>1. Stored' = Stored
        BY <3>1, <3>4 DEF Stored, Renamed, Writes, Gone, Target
      <4>2. \A e \in LedgerRows(p) : e.vehicle_id \in Stored /\ e.event_type # "BASELINE"
        BY <3>1, <3>4 DEF LedgerRows, Writes, Gone, emit_manual_adjust, Event
      <4> QED BY <3>1, <4>1, <4>2, OtherRows
    <3> QED BY <3>3, <3>4
  <2>3. CASE Delete(p) /\ ~UNCHANGED tables
    <3> DEFINE v == req[p].id
    <3>1. /\ Stored' = Stored \ {v} /\ events' = events \ EventsOf(events, v)
          /\ version' = version
      BY <2>3 DEF Delete, Refuse, Stored
    <3>2. \A w \in Stored' : Baselines(w)' = Baselines(w)
      BY <3>1 DEF Baselines, EventsOf
    <3> QED BY <3>1, <3>2 DEF BaselineInv, EventsOf
  <2> QED
    BY <1>5, <2>1, <2>2, <2>3
    DEF Handler, Begin, GetVehicle, CheckName, Flush, Refresh, Refuse, Commit, Delete
<1>6. CASE StartServer
  BY <1>1, <1>3, <1>6 DEF StartServer, Stored
<1>7. CASE _seed_block_configs \/ Crash \/ UNCHANGED reg
  BY <1>1, <1>7 DEF _seed_block_configs, Crash, reg, tables, Stored
<1> QED BY <1>2, <1>4, <1>5, <1>6, <1>7 DEF RegistryNext

\* Whatever is created, renamed, adjusted, deleted, crashed and migrated, a vehicle of
\* the schema with a ledger has the one baseline its level starts from.
THEOREM VehiclesHaveOneBaseline == RegistrySpec => []OneBaselinePerVehicle
<1>1. RegistryInit => BaselineInv
  BY DEF RegistryInit, BaselineInv
<1>2. BaselineInv => OneBaselinePerVehicle
  <2> SUFFICES ASSUME BaselineInv, version = 2, NEW v \in Stored
               PROVE  Cardinality(Baselines(v)) = 1
    BY DEF BaselineInv, OneBaselinePerVehicle, Baselines
  <2>1. PICK b : Baselines(v) = {b}
    BY DEF BaselineInv
  <2> QED BY <2>1, FS_Singleton
<1> QED BY <1>1, <1>2, RegInvariant, BaselineStep, PTL DEF RegistrySpec
-----------------------------------------------------------------------------
(* Levels *)

\* The old schema has a level for every vehicle, within its CHECK.
LevelInv ==
  /\ version \in {1, 2}
  /\ version = 1 => \A v \in Stored : vehicles[v].battery_level \in 0 .. BATTERY_MAX

LEMMA LevelStep == RegInv /\ LevelInv /\ [RegistryNext]_reg => LevelInv'
<1> SUFFICES ASSUME RegInv, LevelInv, [RegistryNext]_reg PROVE LevelInv'
  OBVIOUS
<1>1. CASE downgrade
  BY <1>1 DEF downgrade, LevelInv, Stored
<1>2. CASE StartServer
  BY <1>2 DEF StartServer, upgrade, LevelInv, Stored
<1>3. CASE _seed_block_configs \/ Crash \/ OtherHandlers \/ UNCHANGED reg
  BY <1>3 DEF _seed_block_configs, Crash, OtherHandlers, reg, tables, LevelInv, Stored
<1>4. ASSUME NEW p \in Proc, Handler(p) PROVE LevelInv'
  <2>1. version = 2
    BY <1>4 DEF Handler, Begin, GetVehicle, CheckName, Flush, Commit, Refresh, Delete,
                RegInv, HandlersTyped, ServerPhases
  <2>2. version' = version
    BY <1>4 DEF Handler, Begin, GetVehicle, CheckName, Flush, Commit, Refresh, Delete,
                Refuse, tables
  <2> QED BY <2>1, <2>2 DEF LevelInv
<1> QED BY <1>1, <1>2, <1>3, <1>4 DEF RegistryNext

\* A level of the old schema in the ledger is off by half a hundredth at most.
LEMMA RoundedLevel ==
  ASSUME NEW level \in Nat
  PROVE  /\ Hundredths(level) \in Int
         /\ (Hundredths(level) - level) * 200 <= PERCENT
         /\ (Hundredths(level) - level) * 200 >= -PERCENT
<1>1. PERCENT = 1200 /\ 1200 \div 100 = 12 /\ 12 \div 2 = 6
  BY DEF PERCENT
<1>2. ((level + 6) \div 12) * 12 \in level - 6 .. level + 6
  OBVIOUS
<1> QED BY <1>1, <1>2 DEF Hundredths

\* A migration up carries each level into a baseline, one down sums the ledger up again;
\* that it takes a vehicle without a ledger to be full never matters, as there is none.
THEOREM MigrationsPreserveLevels == RegistrySpec => MigrationsKeepLevels
<1> DEFINE Near(v) == LET error == LevelOf(v)' - LevelOf(v)
                      IN  error * 200 <= PERCENT /\ error * 200 >= -PERCENT
           Keeps == version' # version => \A v \in Stored : Near(v)
<1>1. RegistryInit => LevelInv
  <2>1. BATTERY_MAX \in Nat
    BY DEF BATTERY_MAX, PERCENT
  <2>2. ASSUME NEW w \in {<< >>} \cup [{1} -> [name : Name, battery_level : Level]]
        PROVE  \A v \in DOMAIN w : w[v].battery_level \in 0 .. BATTERY_MAX
    <3>1. CASE w = << >>
      BY <3>1
    <3>2. CASE w \in [{1} -> [name : Name, battery_level : Level]]
      BY <3>2, RegistryAssumption
    <3> QED BY <3>1, <3>2
  <2> QED BY <2>1, <2>2 DEF RegistryInit, LevelInv, Stored
<1>2. RegInv /\ LevelInv /\ BaselineInv /\ [RegistryNext]_reg => Keeps
  <2> SUFFICES ASSUME RegInv, LevelInv, BaselineInv, [RegistryNext]_reg, version' # version,
                      NEW v \in Stored
               PROVE  Near(v)
    OBVIOUS
  <2>0. BATTERY_MAX \in Nat /\ PERCENT = 1200
    BY DEF BATTERY_MAX, PERCENT
  <2>1. downgrade \/ upgrade
    <3>1. ASSUME NEW p \in Proc, Handler(p) PROVE version' = version
      BY <3>1 DEF Handler, Begin, GetVehicle, CheckName, Flush, Commit, Refresh, Delete,
                  Refuse, tables
    <3> QED BY <3>1 DEF RegistryNext, StartServer, _seed_block_configs, Crash, OtherHandlers,
                        reg, tables
  <2>2. CASE upgrade
    <3> PICK level, e : level = vehicles[v].battery_level /\ e = Upgraded(v)
      OBVIOUS
    <3>1. level \in Nat /\ LevelOf(v) = level
      BY <2>0, <2>2 DEF upgrade, LevelInv, LevelOf
    <3>2. e.delta = Hundredths(level) /\ \A w \in Stored : Upgraded(w).vehicle_id = w
      BY DEF Upgraded, Event
    <3>3. EventsOf(events', v) = {e}
      BY <2>2, <3>2 DEF upgrade, EventsOf
    <3>4. LevelOf(v)' = _sum({e})
      BY <2>2, <3>3 DEF upgrade, LevelOf, current_battery
    <3>5. LevelOf(v)' = Hundredths(level)
      BY <3>1, <3>2, <3>4, RoundedLevel, SumOfOneEvent
    <3> QED BY <3>1, <3>5, RoundedLevel
  <2>3. CASE downgrade
    <3>1. EventsOf(events, v) # {}
      BY <2>3 DEF downgrade, BaselineInv, Baselines
    <3>2. LevelOf(v) \in Int /\ LevelOf(v)' = LevelOf(v)
      BY <2>0, <2>3, <3>1 DEF downgrade, RestoredLevel, LevelOf
    <3> QED BY <2>0, <3>2
  <2> QED BY <2>1, <2>2, <2>3
<1>3. RegistryInit => BaselineInv
  BY DEF RegistryInit, BaselineInv
<1> QED BY <1>1, <1>2, <1>3, RegInvariant, LevelStep, BaselineStep, PTL
        DEF RegistrySpec, MigrationsKeepLevels
-----------------------------------------------------------------------------
(* Answers and starts *)

\* What the handlers' except clauses promise of a name that was taken meanwhile.
THEOREM NameConflictsAreConflicts == RegistrySpec => NameConflictIsAnswered409
<1> DEFINE Excused(p) ==
      \/ Target(p) \notin Stored /\ (Creating(p) => pc[p] = "refresh")
      \/ req[p].op = "delete"
      \/ req[p].name # None /\ req[p].level # None /\ ~Creating(p)
    Fails(p) == reply[p] # 500 /\ reply'[p] = 500
<1>1. RegInv /\ [RegistryNext]_reg => \A p \in Proc : Fails(p) => Excused(p)
  <2> SUFFICES ASSUME RegInv, [RegistryNext]_reg, NEW p \in Proc, Fails(p) PROVE Excused(p)
    OBVIOUS
  <2>1. reply \in [Proc -> Nat]
    BY DEF RegInv, HandlersTyped
  <2>2. Handler(p)
    <3>1. \/ \E q \in Proc \ {p} : Handler(q)
          \/ Handler(p) \/ Crash \/ UNCHANGED reply
      BY DEF RegistryNext, downgrade, StartServer, _seed_block_configs, OtherHandlers, reg
    <3>2. ASSUME NEW q \in Proc \ {p}, Handler(q) PROVE reply'[p] = reply[p]
      BY <2>1, <3>2 DEF Handler, Begin, GetVehicle, CheckName, Flush, Commit, Refresh, Delete, Refuse, Answer
    <3>3. Crash => reply'[p] = 0
      BY DEF Crash
    <3> QED BY <3>1, <3>2, <3>3
  <2>3. ASSUME NEW status, Answer(p, status) PROVE status = 500
    BY <2>1, <2>3 DEF Answer
  <2>4. CASE Begin(p) \/ GetVehicle(p) \/ CheckName(p)
    BY <2>1, <2>3, <2>4 DEF Begin, GetVehicle, CheckName, Refuse
  <2>5. CASE Flush(p)
    BY <2>1, <2>3, <2>5 DEF Flush, Refuse, FlushRefusal, Gone, Target, Renaming, Creating,
                            RegInv, HandlersTyped
  <2>6. CASE Commit(p)
    BY <2>1, <2>3, <2>6 DEF Commit, Refuse, Gone, Target
  <2>7. CASE Refresh(p)
    BY <2>3, <2>7 DEF Refresh, Refuse
  <2>8. CASE Delete(p)
    BY <2>8 DEF Delete, RegInv, HandlersTyped
  <2> QED BY <2>2, <2>4, <2>5, <2>6, <2>7, <2>8 DEF Handler
<1> QED BY <1>1, RegInvariant, PTL DEF RegistrySpec, NameConflictIsAnswered409

\* The seeding is safe to repeat.
THEOREM StartsKeepTraversalTimes == RegistrySpec => StartKeepsTraversalTimes
<1> DEFINE Configured == DOMAIN block_configs \subseteq BLOCKS
           Kept == server' # server =>
                     /\ \A b \in DOMAIN block_configs : block_configs'[b] = block_configs[b]
                     /\ server' = "up" => DOMAIN block_configs' = BLOCKS
<1>1. RegistryInit => Configured
  BY DEF RegistryInit
<1>2. ASSUME UNCHANGED <<server, block_configs>>, Configured PROVE Configured' /\ Kept
  BY <1>2
<1>3. Configured /\ [RegistryNext]_reg => Configured' /\ Kept
  <2> SUFFICES ASSUME Configured, [RegistryNext]_reg PROVE Configured' /\ Kept
    OBVIOUS
  <2>1. CASE StartServer
    BY <2>1 DEF StartServer
  <2>2. CASE _seed_block_configs
    BY <2>2 DEF _seed_block_configs, Seeded
  <2>3. CASE Crash
    BY <2>3 DEF Crash, tables
  <2>4. CASE OtherHandlers
    BY <2>4 DEF OtherHandlers
  <2>5. CASE downgrade \/ UNCHANGED reg
    BY <1>2, <2>5 DEF downgrade, reg, tables
  <2>6. ASSUME NEW p \in Proc, Handler(p) PROVE UNCHANGED <<server, block_configs>>
    BY <2>6 DEF Handler, Begin, GetVehicle, CheckName, Flush, Commit, Refresh, Delete, Refuse, tables
  <2> QED BY <1>2, <2>1, <2>2, <2>3, <2>4, <2>5, <2>6 DEF RegistryNext
<1> QED BY <1>1, <1>3, PTL DEF RegistrySpec, StartKeepsTraversalTimes
=============================================================================
