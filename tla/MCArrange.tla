----------------------------- MODULE MCArrange -----------------------------
(* Arrange on small files.  As in MCEngine, a place is a position in the   *)
(* data file and OffsetFeb31 is larger than every key and position.        *)
EXTENDS Arrange

MCPlaces == 0 .. MaxData - 1
MCKeys2 == 1 .. 2
=============================================================================
