------------------------------- MODULE MCLogic -------------------------------
(***************************************************************************)
(* The pure functions of app/logic for TLC.  A behaviour grows one input,  *)
(* a path, a payload or a timetable, and each of the three modules extended*)
(* here compares what the code makes of it with a reference definition.    *)
(***************************************************************************)
EXTENDS MCPathValidator, MCStopTimes, MCConflictDetector

logic == <<path, payload, snapshots>>

LogicInit == PathInit /\ PayloadInit /\ TimetableInit

GrowPath == PayloadInit /\ TimetableInit /\ PathNext /\ UNCHANGED <<payload, snapshots>>

GrowPayload == PathInit /\ TimetableInit /\ PayloadNext /\ UNCHANGED <<path, snapshots>>

GrowTimetable == PathInit /\ PayloadInit /\ TimetableNext /\ UNCHANGED <<path, payload>>

LogicNext == GrowPath \/ GrowPayload \/ GrowTimetable

LogicSpec == LogicInit /\ [][LogicNext]_logic
=============================================================================
