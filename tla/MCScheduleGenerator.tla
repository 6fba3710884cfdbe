------------------------- MODULE MCScheduleGenerator -------------------------
(***************************************************************************)
(* ScheduleGenerator for TLC: the requests of MCServiceWrites, and the     *)
(* schedules clients ask for.  With the blocks at a minute each, a round   *)
(* trip takes ten minutes and five dwells.                                 *)
(***************************************************************************)
EXTENDS ScheduleGenerator, MCServiceWrites

\* One vehicle twice with 230 seconds at the yard in between (19.1666 percent, more than
\* there is room for when the first trip began fully charged); two vehicles, one of
\* which may be gone, half an interval apart; one vehicle asked to leave every five
\* minutes.
DaySchedules ==
  { GenerateRequest({1}, 60, 1540, 855, 5),
    GenerateRequest({1, 2}, 60, 1260, 1200, 0),
    GenerateRequest({1}, 60, 960, 300, 0) }

\* Trips before, within and after the schedules, retimed, moved, deleted.
DayRequests ==
  { CreateRequest(1, Out(0)), CreateRequest(1, Loop(1600)), CreateRequest(2, OutFrom(700, 5)),
    CreateRequest(1, Mid(60)), UpdateRequest(1, None, OutFrom(200, 1)), UpdateRequest(1, 2, None),
    UpdateRequest(1, 2, Loop(100)), UpdateRequest(1, None, None),
    DeleteRequest(1), AdjustRequest(1, 100 * PERCENT), RemoveRequest(2), BlockRequest("B1", 120) }

\* One round trip, while a trip of the same vehicle is created by hand.
OneTrip == { GenerateRequest({1}, 60, 660, 600, 0) }
TripByHand == { CreateRequest(1, Loop(120)) }
=============================================================================
