------------------------------ MODULE MCEngine ------------------------------
(* The engine on small files.  A place is a position in the data file;     *)
(* OffsetFeb31 stays larger than every key and position.                   *)
EXTENDS EngineProps

MCPlaces == 0 .. MaxData - 1
MCKeys2 == 1 .. 2
MCKeys3 == 1 .. 3
=============================================================================
