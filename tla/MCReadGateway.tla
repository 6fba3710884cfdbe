---------------------------- MODULE MCReadGateway ----------------------------
(***************************************************************************)
(* ReadGateway for TLC: requests of one to three fields, while one handler *)
(* creates, retimes and deletes services, in the sizes of MCServiceWrites. *)
(***************************************************************************)
EXTENDS ReadGateway, MCServiceWrites

\* Every field, alone or next to one it may disturb.
MCQueries ==
  { <<"vehicles", "vehicles", "positions">>, <<"services", "conflicts">>,
    <<"schedule", "topology">>, <<"conflicts", "blocks">>, <<"list_vehicles">>, << >> }

\* Trips that exclude one another, so that what was read of one may clash with what is
\* read of another; a level changes and a vehicle goes meanwhile.
WritesMeanwhile ==
  { CreateRequest(1, Out(0)), CreateRequest(1, Back(60)), UpdateRequest(1, None, Back(100)),
    UpdateRequest(1, None, Loop(0)), DeleteRequest(1), AdjustRequest(1, 100 * PERCENT),
    RemoveRequest(2) }
=============================================================================
