--------------------------- MODULE VehicleTimeline ---------------------------
(***************************************************************************)
(* What the write path promises, without handlers, locks or tables: a book *)
(* of trips in which no vehicle is ever booked twice for the same instant. *)
(* A trip is a record [service, vehicle, enter, exit]; the interval is     *)
(* half open.  Bookings are made, changed and cancelled one at a time.     *)
(***************************************************************************)
EXTENDS Integers

VARIABLE trips

Meet(a, b) == a.vehicle = b.vehicle /\ a.enter < b.exit /\ b.enter < a.exit

Free(trip, others) == \A t \in others : ~Meet(trip, t)

Init == trips = {}

Book ==
  \E new \in trips' :
    /\ \A t \in trips : t.service # new.service
    /\ Free(new, trips)
    /\ trips' = trips \cup {new}

\* The same service at another time, or with another vehicle.
Rebook ==
  \E old \in trips, new \in trips' :
    /\ new.service = old.service
    /\ Free(new, trips \ {old})
    /\ trips' = (trips \ {old}) \cup {new}

Cancel == \E old \in trips : trips' = trips \ {old}

Next == trips' # trips /\ (Book \/ Rebook \/ Cancel)

Spec == Init /\ [][Next]_trips
=============================================================================
