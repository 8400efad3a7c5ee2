------------------------------- MODULE Cabinet -------------------------------
(***************************************************************************)
(* What the engine promises its user ("one storage engine instance will be *)
(* treated as cabinet", engine/bak/README): a map from keys to values in   *)
(* memory, and on disk the map of the last Solid.  A Solid that was cut    *)
(* short leaves either map, and an Open brings one of these back whole.    *)
(***************************************************************************)
CONSTANTS Keys, Values, NoValue, Down

VARIABLES
  mem,    \* the map users see, Down while no engine is open
  disk    \* the maps an Open may bring back

vars == <<mem, disk>>

EmptyMap == [k \in Keys |-> NoValue]

Init == mem = Down /\ disk = {}

(* A put, or a delete, of one key. *)
Change ==
  LET m == mem IN
    /\ disk' = disk
    /\ m # Down
    /\ mem' \in {[m EXCEPT ![k] = v] : k \in Keys, v \in Values \cup {NoValue}}

SolidBegins == mem # Down /\ disk' = disk \cup {mem} /\ mem' = mem
SolidEnds   == mem # Down /\ mem \in disk /\ disk' = {mem} /\ mem' = mem

(* A new cabinet is empty on disk before it is open.                       *)
CreateBegins == mem = Down /\ disk' = {EmptyMap} /\ mem' = mem
Open == mem = Down /\ mem' \in disk /\ disk' = disk

Stop == mem' = Down /\ disk' = disk

Next ==
  Change \/ SolidBegins \/ SolidEnds \/ CreateBegins \/ Open \/ Stop

Spec == Init /\ [][Next]_vars
=============================================================================
