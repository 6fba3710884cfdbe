--------------------------- MODULE MCServiceWrites ---------------------------
(***************************************************************************)
(* ServiceWrites for TLC: one or two vehicles, trips over the first blocks *)
(* of the line, and for each question the requests it takes to ask it.     *)
(* Every block takes a minute.                                             *)
(***************************************************************************)
EXTENDS ServiceWrites

MCTraversal == [b \in BLOCKS |-> 60]

ProcSymmetry == Permutations(Proc)

\* A payload: blocks carry no times, stops are passed without dwelling.
Payload(path, times, firstSequence) ==
  [i \in DOMAIN path |-> StopOf(firstSequence + i - 1, path[i], times[i], times[i])]

Out(t)  == Payload(<<"Y", "B1", "P1A">>, <<t, None, t + 60>>, 0)
Back(t) == Payload(<<"P1A", "B1", "Y">>, <<t, None, t + 60>>, 0)
Loop(t) == Payload(<<"Y", "B1", "P1A", "B1", "Y">>, <<t, None, t + 60, None, t + 120>>, 0)

\* A service that ends in a block, and one that starts in a block.
Stranded(t)   == Payload(<<"Y", "B1">>, <<t, None>>, 0)
Mid(t)        == Payload(<<"B1", "P1A">>, <<None, t>>, 0)
\* A payload whose sequences begin elsewhere.
OutFrom(t, n) == Payload(<<"Y", "B1", "P1A">>, <<t, None, t + 60>>, n)

\* Creations, retimings and deletions on one vehicle, level readings, removal.
OneVehicleRequests ==
  { CreateRequest(1, Out(0)), CreateRequest(1, Back(60)),
    UpdateRequest(1, None, Out(30)), UpdateRequest(1, None, Loop(0)),
    UpdateRequest(1, None, None), DeleteRequest(1), AdjustRequest(1, 100 * PERCENT), RemoveRequest(1) }

\* Creations and retimings of two services, a battery adjusted in between.
TimetableRequests ==
  { CreateRequest(1, Out(0)), CreateRequest(1, Back(60)), CreateRequest(1, Stranded(200)),
    UpdateRequest(1, None, Back(150)), UpdateRequest(1, None, Loop(0)),
    UpdateRequest(2, None, Back(200)), AdjustRequest(1, 100 * PERCENT) }

\* Handlers that wait for one another, for vehicle rows, service rows, ledger rows; a
\* block is retimed meanwhile.
ContentionRequests ==
  { CreateRequest(1, Out(0)), UpdateRequest(1, None, Out(30)), UpdateRequest(1, 2, None),
    DeleteRequest(1), RemoveRequest(2), BlockRequest("B1", 120) }

\* One service retimed and given to another vehicle at the same time.
ReassignRequests ==
  { CreateRequest(1, Out(0)), CreateRequest(2, Back(100)),
    UpdateRequest(1, None, Out(120)), UpdateRequest(1, 2, None) }

\* Two replacements of the same stops, numbered differently.
RenumberRequests ==
  { CreateRequest(1, Out(0)), UpdateRequest(1, None, OutFrom(100, 10)),
    UpdateRequest(1, None, OutFrom(200, 20)) }

\* A service retimed to before and to after the instant its vehicle's level is adjusted.
RetimeRequests ==
  { CreateRequest(1, Out(0)), AdjustRequest(1, 100 * PERCENT),
    UpdateRequest(1, None, Back(150)), UpdateRequest(1, None, Out(30)) }

\* A trip planned for later, and levels asked for.
PlanningRequests == { CreateRequest(1, Out(0)), DeleteRequest(1), AdjustRequest(1, 100 * PERCENT) }
-----------------------------------------------------------------------------
\* "Record a delta that moves current battery to new_level" (logic/battery.py): when
\* a PATCH commits, the battery has the level it asked for.
AdjustReachesLevel ==
  [][\A p \in Proc : pc[p] = "adjust" /\ reply'[p] = 200 =>
       current_battery(events', req[p].vehicle_id) = req[p].level]_vars
=============================================================================
