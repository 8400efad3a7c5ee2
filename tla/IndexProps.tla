----------------------------- MODULE IndexProps -----------------------------
(***************************************************************************)
(* What makes INDEX correct: its pool of nodes, its pointers, and the map  *)
(* from keys to places that its trees stand for.                           *)
(***************************************************************************)
EXTENDS Index

(* Every variable holds a value the C++ variable can hold.                 *)
TypeOK ==
  /\ item \in [Positions -> Node]
  /\ hash_head_size \in Nat \ {0}
  /\ hash_head \in [0 .. hash_head_size - 1 -> Pointer]
  /\ item_horizon \in 0 .. NumItems
  /\ free_slots \in Seq(Positions)
  /\ pc \in {"idle", "walk", "nearest", "load", "halted"}
  /\ op \in {"none", "search", "insert", "delete", "load"}
  /\ cover \in BOOLEAN
  /\ new \in Node
  /\ node_id \in Pointer /\ nearest_id \in Pointer
  /\ pre_node_ptr \in Location
  /\ pre_node_ptr.at = "head" => pre_node_ptr.of \in 0 .. hash_head_size - 1
  /\ pre_node_ptr.at # "head" => pre_node_ptr.of \in Positions
  /\ load_i \in 0 .. NumItems /\ load_horizon \in 0 .. NumItems
  /\ status \in {"Pending", "Ok", "Exist", "NotExist", "InvalidParam"}
  /\ found \in Places \cup {NoPlace}

------------------------------------------------------------------------------
(* The pool: positions are free, live or untouched, and never two of these.*)

Freed == {free_slots[i] : i \in DOMAIN free_slots}
Live  == {n \in Positions : n < item_horizon /\ n \notin Freed}

(* The pointers that matter: those of the buckets and of the live nodes.   *)
Locations ==
  [at : {"head"}, of : 0 .. hash_head_size - 1] \cup [at : {"left", "right"}, of : Live]

(* A position is stacked at most once and only after it was handed out, so *)
(* that PopFreeNode never hands out one node twice.                        *)
FreedOnce ==
  /\ \A i \in DOMAIN free_slots : free_slots[i] < item_horizon
  /\ \A i, j \in DOMAIN free_slots : free_slots[i] = free_slots[j] => i = j

(* Nothing points to a freed or an untouched node.                         *)
NoDangling == \A loc \in Locations : Deref(loc) \in Live \cup {OffsetFeb31}

(* No node hangs from two pointers: a write through one never changes what *)
(* is reached through another.                                             *)
NoSharing ==
  \A l, m \in Locations : Deref(l) = Deref(m) /\ Deref(l) # OffsetFeb31 => l = m

(* The stack of freed positions fits the array Fill gave it                *)
(* (INDEX_FREE_SLOT_FIX_NUM = INDEX_ITEM_NUM, index.h:20-21).              *)
FreeSlotsFit == Len(free_slots) <= NumItems

(* PopFreeNode and PushFreeNode keep the pool and the trees apart, over    *)
(* any history of Insert, Del and Search.                                  *)
PoolSafe == FreedOnce /\ NoDangling /\ NoSharing

(* Without overwriting inserts no node is lost: what is neither free nor   *)
(* untouched hangs from some pointer.                                      *)
NoLeak == \A n \in Live : \E loc \in Locations : Deref(loc) = n

------------------------------------------------------------------------------
(* The map the trees stand for: what BSTSearchId would answer, by at most  *)
(* NumItems turns of its loop.                                             *)

Trail(k) ==
  LET at[i \in 0 .. NumItems] ==
        IF i = 0 THEN hash_head[GetHTId(k)]
        ELSE LET n == at[i - 1] IN
             IF n = OffsetFeb31 \/ item[n].key = k THEN n
             ELSE IF k < item[n].key THEN item[n].left ELSE item[n].right
  IN at

PlaceOf(k) ==
  LET n == Trail(k)[NumItems]
  IN IF n # OffsetFeb31 /\ item[n].key = k THEN item[n].place ELSE NoPlace

(* While Load runs the trees are incomplete and the array is the map.      *)
StoredPlace(k) ==
  IF \E i \in 0 .. load_horizon - 1 : item[i].key = k
    THEN item[CHOOSE i \in 0 .. load_horizon - 1 : item[i].key = k].place
    ELSE NoPlace

Contents == [k \in Keys |-> IF op = "load" THEN StoredPlace(k) ELSE PlaceOf(k)]

Request ==
  CASE op = "none" -> [op |-> "none"]
    [] op = "load" -> [op |-> "load"]
    [] op \in {"search", "delete"} -> [op |-> op, key |-> new.key]
    [] op = "insert" -> [op |-> op, key |-> new.key, place |-> new.place, cover |-> cover]

Promise == INSTANCE KeyMap WITH
  Capacity <- NumItems, MayForget <- TRUE \in Covers,
  map <- Contents, request <- Request, up <- pc # "halted"

(* The trees of the index behave as one map: a call answers what the map   *)
(* says and changes nothing else; it kills the process only in an insert   *)
(* with no node left or in a delete among three keys.  Where inserts may   *)
(* overwrite, such an insert may drop other keys, but no call ever answers *)
(* a place that is not the last one put for its key.                       *)
IsKeyMap == Promise!Spec

(* Every call of Search, Insert, Del or Load ends (or kills the process):  *)
(* no walk goes round a cycle of left and right pointers.                  *)
EveryCallEnds == (op # "none") ~> (op = "none")

(* An overwriting insert drops exactly the keys stored below the node it   *)
(* replaces (index.cc:126-128), and no other.                              *)
DropsOnlyBelow ==
  [][InsertLink => \A k \in Keys \ {new.key} :
       PlaceOf(k)' = IF node_id # OffsetFeb31
                        /\ \E i \in 0 .. NumItems : Trail(k)[i] = node_id
                     THEN NoPlace ELSE PlaceOf(k)]_vars
=============================================================================
