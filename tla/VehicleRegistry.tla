--------------------------- MODULE VehicleRegistry ---------------------------
(***************************************************************************)
(* The vehicles, their names and their battery levels over the life of a   *)
(* deployment: the migrations that run before the server starts, the       *)
(* seeding of block_configs at every start, and the handlers of            *)
(* routers/vehicles.py while it is up, which a crash may stop anywhere.    *)
(*                                                                         *)
(* As in ServiceWrites a step is a statement or a commit.  A name written  *)
(* and not committed is claimed: whoever wants to write it waits, as does  *)
(* whoever wants the row that is being renamed.                            *)
(***************************************************************************)
EXTENDS Battery

CONSTANTS
  Proc,         \* handlers running at the same time
  Name,         \* names clients use
  Level,        \* battery levels clients ask for, or found by the first migration
  MaxRequests,  \* bound: requests served in all
  MaxStarts,    \* bound: starts of the server
  Now           \* the wall clock

CreateVehicle(name, level) == [op |-> "create", id |-> None, name |-> name, level |-> level]
UpdateVehicle(id, name, level) == [op |-> "update", id |-> id, name |-> name, level |-> level]
DeleteVehicle(id) == [op |-> "delete", id |-> id, name |-> None, level |-> None]

\* Vehicle 1 is older than the ledger; a create gets the number of its request.
VehicleId == 1 .. MaxRequests + 1

ASSUME RegistryAssumption ==
  /\ MaxRequests \in Nat /\ MaxStarts \in Nat /\ Now \in Nat
  /\ Level \subseteq 0 .. BATTERY_MAX
  /\ None \notin Name \cup Level \cup Proc \cup VehicleId

VARIABLES
  version,        \* revision of the schema: 1, or 2 with the ledger
  vehicles,       \* table vehicles: [name, battery_level] per id that is stored
  events,         \* table battery_events
  block_configs,  \* table block_configs: block |-> traversal_seconds
  server,         \* "down", "migrated" or "up"
  starts,         \* starts so far
  pc, req, ticket, reply,  \* per process, as in ServiceWrites
  loaded,         \* per process: the vehicle row it has loaded
  current,        \* per process: the level it has read
  claim,          \* per process: the row it has written and not committed
  begun           \* requests begun so far

tables  == <<version, vehicles, events, block_configs>>
session == <<req, ticket, begun>>
reg     == <<tables, server, starts, pc, session, reply, loaded, current, claim>>

\* Legacy vehicles have a level of their own, a whole number of the unit but not
\* always of hundredths of a percent.
RegistryInit ==
  /\ version = 1
  /\ vehicles \in {<< >>} \cup [{1} -> [name : Name, battery_level : Level]]
  /\ events = {}
  /\ block_configs = << >>
  /\ server = "down" /\ starts = 0
  /\ pc = [p \in Proc |-> "idle"]
  /\ req = [p \in Proc |-> None]
  /\ ticket = [p \in Proc |-> 0]
  /\ reply = [p \in Proc |-> 0]
  /\ loaded = [p \in Proc |-> None]
  /\ current = [p \in Proc |-> None]
  /\ claim = [p \in Proc |-> None]
  /\ begun = 0

Stored == DOMAIN vehicles

NameOf(v) == vehicles[v].name
-----------------------------------------------------------------------------
(* Migrations, start and crash *)

\* Revision 0002: a BASELINE per vehicle carries its level, dated at the migration.
Upgraded(v) == Event(0, v, None, "BASELINE", Now, vehicles[v].battery_level)

upgrade ==
  /\ version = 1
  /\ version' = 2
  /\ events' = {Upgraded(v) : v \in Stored}
  /\ vehicles' = [v \in Stored |-> [name |-> NameOf(v), battery_level |-> None]]

\* Mutated form: what the comment says, the sum of baselines and adjustments.
RestoredLevelWithoutServices(v) == non_service_battery(events, v)

\* The level column of a vehicle that goes back to revision 0001.
RestoredLevel(v) == IF EventsOf(events, v) = {} THEN BATTERY_INITIAL ELSE current_battery(events, v)

\* An operator takes the schema back while the server is down.  A level outside the
\* column's CHECK aborts the migration.
downgrade ==
  /\ server = "down" /\ version = 2
  /\ \A v \in Stored : RestoredLevel(v) \in 0 .. BATTERY_MAX
  /\ version' = 1
  /\ vehicles' = [v \in Stored |-> [name |-> NameOf(v), battery_level |-> RestoredLevel(v)]]
  /\ events' = {}
  /\ UNCHANGED <<block_configs, server, starts, pc, session, reply, loaded, current, claim>>

\* alembic upgrade head, then the program.
StartServer ==
  /\ server = "down" /\ starts < MaxStarts
  /\ server' = "migrated"
  /\ starts' = starts + 1
  /\ \/ upgrade
     \/ version = 2 /\ UNCHANGED <<version, vehicles, events>>
  /\ UNCHANGED <<block_configs, pc, session, reply, loaded, current, claim>>

\* Mutated form: ON CONFLICT DO UPDATE.
SeededOver(configs) == [b \in BLOCKS |-> 60]

\* ON CONFLICT DO NOTHING: a row that is there stays.
Seeded(configs) == [b \in BLOCKS |-> IF b \in DOMAIN configs THEN configs[b] ELSE 60]

_seed_block_configs ==
  /\ server = "migrated"
  /\ server' = "up"
  /\ block_configs' = Seeded(block_configs)
  /\ UNCHANGED <<version, vehicles, events, starts, pc, session, reply, loaded, current, claim>>

\* The server stops at any moment: no transaction under way is committed.
Crash ==
  /\ server # "down"
  /\ server' = "down"
  /\ pc' = [p \in Proc |-> "idle"]
  /\ req' = [p \in Proc |-> None]
  /\ ticket' = [p \in Proc |-> 0]
  /\ reply' = [p \in Proc |-> 0]
  /\ loaded' = [p \in Proc |-> None]
  /\ current' = [p \in Proc |-> None]
  /\ claim' = [p \in Proc |-> None]
  /\ UNCHANGED <<tables, starts, begun>>
-----------------------------------------------------------------------------
(* Handlers *)

Goto(p, label) == pc' = [pc EXCEPT ![p] = label]

Answer(p, status) ==
  /\ Goto(p, "idle")
  /\ reply' = [reply EXCEPT ![p] = status]
  /\ req' = [req EXCEPT ![p] = None]
  /\ ticket' = [ticket EXCEPT ![p] = 0]
  /\ loaded' = [loaded EXCEPT ![p] = None]
  /\ current' = [current EXCEPT ![p] = None]
  /\ claim' = [claim EXCEPT ![p] = None]
  /\ UNCHANGED begun

Refuse(p, status) == Answer(p, status) /\ UNCHANGED tables

Creating(p) == req[p].op = "create"
Target(p) == IF Creating(p) THEN ticket[p] + 1 ELSE req[p].id

\* The request writes a name (SQLAlchemy writes no attribute set to what it was).
Renaming(p) == IF Creating(p) THEN TRUE ELSE req[p].name \notin {None, loaded[p].name}

Writes(p) == Renaming(p) \/ req[p].level # None

\* Another transaction writes the name, or the row that has it, or the row itself.
Waits(p) ==
  \E q \in Proc \ {p} : claim[q] # None /\
    \/ claim[q].id = Target(p)
    \/ Renaming(p) /\ claim[q].name = req[p].name
    \/ Renaming(p) /\ claim[q].id \in Stored /\ NameOf(claim[q].id) = req[p].name

\* Mutated form: the column is not unique.
NameClashNever(p) == req[p].name \notin Name

\* The unique constraint on the name.
NameClash(p) == \E v \in Stored \ {Target(p)} : NameOf(v) = req[p].name

Begin(p) ==
  /\ server = "up" /\ pc[p] = "idle" /\ begun < MaxRequests
  /\ begun' = begun + 1
  /\ ticket' = [ticket EXCEPT ![p] = begun + 1]
  /\ \/ \E name \in Name, level \in Level :
          req' = [req EXCEPT ![p] = CreateVehicle(name, level)] /\ Goto(p, "taken")
     \/ \E v \in VehicleId, name \in Name \cup {None}, level \in Level \cup {None} :
          req' = [req EXCEPT ![p] = UpdateVehicle(v, name, level)] /\ Goto(p, "get")
     \/ \E v \in VehicleId : req' = [req EXCEPT ![p] = DeleteVehicle(v)] /\ Goto(p, "get")
  /\ reply' = [reply EXCEPT ![p] = 0]
  /\ UNCHANGED <<tables, server, starts, loaded, current, claim>>

\* db.get, and for a DELETE the count of the vehicle's services, of which the ledger
\* has an event each.
GetVehicle(p) ==
  LET v == req[p].id
  IN  /\ pc[p] = "get"
      /\ \/ v \notin Stored /\ Refuse(p, 404)
         \/ /\ v \in Stored /\ req[p].op = "delete"
            /\ \E e \in EventsOf(events, v) : e.event_type = "SERVICE_CONSUME"
            /\ Refuse(p, 409)
         \/ /\ v \in Stored
            /\ req[p].op = "delete" =>
                 \A e \in EventsOf(events, v) : e.event_type # "SERVICE_CONSUME"
            /\ loaded' = [loaded EXCEPT ![p] = vehicles[v]]
            /\ Goto(p, IF req[p].op = "delete" THEN "delete"
                       ELSE IF req[p].name # None THEN "taken"
                       ELSE IF req[p].level # None THEN "flush" ELSE "commit")
            /\ UNCHANGED <<tables, session, reply, current, claim>>
      /\ UNCHANGED <<server, starts>>

\* _name_taken.  A create goes on to its flush, an update to the read of the level.
CheckName(p) ==
  /\ pc[p] = "taken"
  /\ \/ NameClash(p) /\ Refuse(p, 409)
     \/ /\ ~NameClash(p)
        /\ Goto(p, IF Creating(p) \/ req[p].level # None THEN "flush" ELSE "commit")
        /\ UNCHANGED <<tables, session, reply, loaded, current, claim>>
  /\ UNCHANGED <<server, starts>>

\* Mutated form: the flush of a create is outside the try block as well.
FlushRefusalUncaught(p) == 500

\* What a taken name at the flush is answered with: only create_vehicle catches it.
FlushRefusal(p) == IF Creating(p) THEN 409 ELSE 500

\* A PATCH of a vehicle that is gone, whose UPDATE or ledger row finds no row.
Gone(p) == ~Creating(p) /\ req[p].id \notin Stored

\* flush: the INSERT of a create, or the new name of an update, which the SELECT of
\* current_battery flushes.  It fails on a name taken since, or a row that is gone.
Flush(p) ==
  /\ pc[p] = "flush"
  /\ Renaming(p) => ~Waits(p)
  /\ \/ Renaming(p) /\ Gone(p) /\ Refuse(p, 500)
     \/ Renaming(p) /\ ~Gone(p) /\ NameClash(p) /\ Refuse(p, FlushRefusal(p))
     \/ /\ Renaming(p) => ~Gone(p) /\ ~NameClash(p)
        /\ claim' = [claim EXCEPT ![p] =
             IF Renaming(p) THEN [id |-> Target(p), name |-> req[p].name] ELSE None]
        /\ current' = [current EXCEPT ![p] =
             IF Creating(p) THEN None ELSE current_battery(events, req[p].id)]
        /\ Goto(p, "commit")
        /\ UNCHANGED <<tables, session, reply, loaded>>
  /\ UNCHANGED <<server, starts>>

\* Mutated form: no event for a new vehicle.
LedgerRowsAdjustOnly(p) ==
  IF Creating(p) \/ req[p].level = None THEN {}
  ELSE {emit_manual_adjust(ticket[p], req[p].id, current[p], req[p].level, Now)}

\* The BASELINE of a new vehicle, the MANUAL_ADJUST of an update.
LedgerRows(p) ==
  IF Creating(p) THEN {emit_baseline(Target(p), req[p].level)}
  ELSE IF req[p].level = None THEN {}
  ELSE {emit_manual_adjust(ticket[p], req[p].id, current[p], req[p].level, Now)}

\* The table with a name for a vehicle, a new one or one that is there.
Renamed(v, name) ==
  [w \in Stored \cup {v} |->
     IF w = v THEN [name |-> name, battery_level |-> None] ELSE vehicles[w]]

\* The commit flushes what is left: a name, a ledger row.  A name taken, or an event of
\* a vehicle that is gone, is an IntegrityError (409); the UPDATE of a row that is gone
\* is not (500).
Commit(p) ==
  LET v == Target(p)
  IN  /\ pc[p] = "commit"
      /\ Writes(p) => ~Waits(p)
      /\ \/ Gone(p) /\ Renaming(p) /\ Refuse(p, 500)
         \/ Gone(p) /\ ~Renaming(p) /\ Writes(p) /\ Refuse(p, 409)
         \/ ~Gone(p) /\ Renaming(p) /\ NameClash(p) /\ Refuse(p, 409)
         \/ /\ Gone(p) => ~Writes(p)
            /\ Renaming(p) => ~NameClash(p)
            /\ vehicles' = IF Renaming(p) THEN Renamed(v, req[p].name) ELSE vehicles
            /\ events' = events \cup LedgerRows(p)
            /\ claim' = [claim EXCEPT ![p] = None]
            /\ Goto(p, "refresh")
            /\ UNCHANGED <<version, block_configs, session, reply, loaded, current>>
      /\ UNCHANGED <<server, starts>>

\* db.refresh in a new transaction, where the vehicle may be gone.
Refresh(p) ==
  /\ pc[p] = "refresh"
  /\ Refuse(p, IF Target(p) \notin Stored THEN 500 ELSE IF Creating(p) THEN 201 ELSE 200)
  /\ UNCHANGED <<server, starts>>

\* DELETE of the row, its ledger rows with it; a row that is gone is no error.  The
\* foreign key of services written since the count stops it.
Delete(p) ==
  LET v == req[p].id
      used == \E e \in EventsOf(events, v) : e.event_type = "SERVICE_CONSUME"
  IN  /\ pc[p] = "delete"
      /\ ~Waits(p)
      /\ \/ used /\ Refuse(p, 500)
         \/ /\ ~used
            /\ vehicles' = [w \in Stored \ {v} |-> vehicles[w]]
            /\ events' = events \ EventsOf(events, v)
            /\ Answer(p, 204)
            /\ UNCHANGED <<version, block_configs>>
      /\ UNCHANGED <<server, starts>>

\* What the handlers of ServiceWrites do meanwhile: a service of some blocks is written,
\* after a block is retimed.
ConsumedBy(v) == emit_service_consume(0, v, 1, Now, -40 * BATTERY_COST_PER_BLOCK)

OtherHandlers ==
  /\ server = "up"
  /\ \E v \in Stored : events' = events \cup {ConsumedBy(v)}
  /\ block_configs' = [block_configs EXCEPT !["B1"] = 90]
  /\ UNCHANGED <<version, vehicles, server, starts, pc, session, reply, loaded, current, claim>>

Handler(p) ==
  Begin(p) \/ GetVehicle(p) \/ CheckName(p) \/ Flush(p) \/ Commit(p) \/ Refresh(p) \/ Delete(p)

RegistryNext ==
  \/ downgrade \/ StartServer \/ _seed_block_configs \/ Crash \/ OtherHandlers
  \/ \E p \in Proc : Handler(p)

RegistrySpec == RegistryInit /\ [][RegistryNext]_reg
-----------------------------------------------------------------------------
(* Properties *)

\* No two vehicles have one name, although the check for it and the write are separate
\* statements of transactions that know nothing of each other.
NamesAreUnique == \A v, w \in Stored : v # w => NameOf(v) # NameOf(w)

\* A name taken while a request is under way is answered with 409, like one that was
\* taken before (the handlers' except clauses), unless the request is a PATCH that asks
\* for a level as well; 500 is left for vehicles deleted meanwhile, and for the
\* deletion of a vehicle that has got a service meanwhile.
NameConflictIsAnswered409 ==
  [][\A p \in Proc : reply[p] # 500 /\ reply'[p] = 500 =>
       \/ Target(p) \notin Stored /\ (Creating(p) => pc[p] = "refresh")
       \/ req[p].op = "delete"
       \/ req[p].name # None /\ req[p].level # None /\ ~Creating(p)]_reg

\* From the first moment it can be seen, a vehicle has exactly one BASELINE in the
\* ledger, over crashes, restarts and migrations, and the ledger knows no other vehicle.
OneBaselinePerVehicle ==
  version = 2 =>
    /\ \A v \in Stored : Cardinality({e \in EventsOf(events, v) : e.event_type = "BASELINE"}) = 1
    /\ \A e \in events : e.vehicle_id \in Stored

LevelOf(v) == IF version = 1 THEN vehicles[v].battery_level ELSE current_battery(events, v)

\* Neither migration changes the level of any vehicle, but for the hundredths the ledger
\* keeps.
MigrationsKeepLevels ==
  [][version' # version =>
       \A v \in Stored : LET error == LevelOf(v)' - LevelOf(v)
                         IN  error * 200 <= PERCENT /\ error * 200 >= -PERCENT]_reg

\* Starting the server keeps every traversal time an operator has set, and leaves no
\* block without one (main.py: safe to call on every startup).
StartKeepsTraversalTimes ==
  [][server' # server =>
       /\ \A b \in DOMAIN block_configs : block_configs'[b] = block_configs[b]
       /\ server' = "up" => DOMAIN block_configs' = BLOCKS]_reg
=============================================================================
