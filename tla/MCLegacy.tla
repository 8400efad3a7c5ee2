------------------------------ MODULE MCLegacy ------------------------------
(* The older engine with few signs and nodes.                              *)
EXTENDS LegacyProps

MCSigns4 == 1 .. 4

(* Bound: where the index got ahead of the data file nothing is promised   *)
(* and no step is followed; every kv_open with CREATE, which ends that, is *)
(* also made elsewhere.                                                    *)
NotBehind == ~behind
=============================================================================
