------------------------------ MODULE MCIndex ------------------------------
(* INDEX on small arrays.  OffsetFeb31 stays larger than every key and     *)
(* position, as 10001806 is.                                               *)
EXTENDS IndexProps

MCKeys == 1 .. 4
MCKeys3 == 1 .. 3
=============================================================================
