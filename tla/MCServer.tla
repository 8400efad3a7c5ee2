------------------------------ MODULE MCServer ------------------------------
(* The server with few connections, descriptors and slots.                 *)
EXTENDS ServerProps
=============================================================================
