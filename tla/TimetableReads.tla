--------------------------- MODULE TimetableReads ---------------------------
(***************************************************************************)
(* How the code reads the whole timetable: SELECT of the services, then    *)
(* SELECT of their stops (selectinload).  At READ COMMITTED each statement *)
(* sees the commits before it, so what is read need never have been there  *)
(* at one moment.  The generator, GET /schedule/conflicts, the positions   *)
(* and the GraphQL resolvers all read this way.                            *)
(***************************************************************************)
EXTENDS ServiceWrites, Positions

\* The rows of services, their stops not loaded yet.
SelectServices == [s \in Live |-> [services[s] EXCEPT !.stops = << >>]]

\* The stops of the services selected before; a service deleted since has none.
SelectStops(rows) ==
  [s \in DOMAIN rows |-> [rows[s] EXCEPT !.stops = StoredStops(s)]]

build_snapshots(rows, traversal) == {SnapshotOf(s, rows[s], traversal) : s \in DOMAIN rows}

\* The timetable as it is stored at this moment.
StoredSnapshots == build_snapshots([s \in Live |-> services[s]], block_configs)

\* get_positions, the reads before it: the level each vehicle starts from, and the
\* services.
vehicles_base_battery(ids, ledger) == [v \in ids |-> non_service_battery(ledger, v)]
-----------------------------------------------------------------------------
\* A service is all over or all ahead at an instant.
OverOrAhead(snapshot, t) ==
  LET left == {i \in DOMAIN snapshot.stops : snapshot.stops[i].exit <= t}
  IN  left \in {{}, DOMAIN snapshot.stops}

\* The two accounts of a battery agree: the level shown, which subtracts block after
\* block of the stored paths, is the level of the ledger, which charges a service as
\* a whole at its end, whenever the vehicle is between services (battery.py: counting
\* consume events here as well would double-count).  Charges and adjustments dated
\* later count for the display already.
ShownLevelIsLedgerLevel ==
  \A snapshots \in {StoredSnapshots}, base \in {vehicles_base_battery(vehicles, events)} :
    \A v \in vehicles : \A t \in {e.occurred_at : e \in EventsOf(events, v)} :
      (\A s \in snapshots : s.vehicle_id = v => OverOrAhead(s, t)) =>
        LET later  == {e \in EventsOf(events, v) :
                         e.occurred_at > t /\ e.event_type # "SERVICE_CONSUME"}
            ledger == battery_at(events, v, t) + _sum(later)
        IN  \A p \in compute_positions_at(t, base, snapshots, "strict")[v] :
              p.battery_level = Max({0, ledger})
=============================================================================
