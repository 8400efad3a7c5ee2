------------------------------- MODULE Legacy -------------------------------
(***************************************************************************)
(* The older engine in C (src/kvs/src/engine/bak): an index of binary      *)
(* trees in an array (index.c), a file records are appended to (data.c),   *)
(* and the calls that join the two (kvs_api.c).                            *)
(*                                                                         *)
(* There is one thread; a call that touches memory only, or one record, is *)
(* one step, and saving is one step a write(2), with the process dying     *)
(* anywhere.  A key is its sign (create_key_sign): keys with one sign are  *)
(* one key to this code.  Records have unit length.  Memory that malloc    *)
(* returned and nobody wrote is Junk.                                      *)
(***************************************************************************)
EXTENDS Integers, Sequences

CONSTANTS
  Signs,       \* key signs
  Values,      \* values of the records
  PoolSize,    \* node_pool_size: the key_num of kv_open
  HeadSize,    \* hashhead_size
  FreeRoom,    \* entries that fit into free_node_pool, which malloc is asked
               \* for 8 bytes of
  Junk,        \* what nobody wrote
  MaxData,     \* bound: records the data file may hold
  MaxOpens     \* bound: calls of kv_open

NotExist == 123456789                      \* INDEX_NODE_NOT_EXIST

Ids == 0 .. PoolSize - 1
Heads == 0 .. HeadSize - 1
Node == [key_sign : Signs, value_offset : 1 .. MaxData,
         left_id : Ids \cup {NotExist}, right_id : Ids \cup {NotExist}]
Record == [sign : Signs, value : Values]

ASSUME LegacyAssumption ==
  /\ Signs \subseteq Nat
  /\ PoolSize \in Nat \ {0} /\ PoolSize <= NotExist
  /\ HeadSize \in Nat \ {0} /\ FreeRoom \in Nat
  /\ MaxData \in Nat /\ MaxOpens \in Nat
  /\ Junk \notin Nat /\ Junk \notin Node /\ Junk \notin [Signs -> Values \cup {Junk}]

VARIABLES
  pc,          \* "down", "create", "up", "exit"; "halted" where C says nothing
  idx,         \* struct INDEX
  append,      \* append_offset of struct DATA
  idx_file,    \* the parts of the index file, in their order
  data_file,   \* the header of the data file and its records
  todo,        \* writes kv_open or the exits still have to do
  opens,       \* calls of kv_open so far
  durable,     \* the maps a kv_open may bring back (history)
  cut,         \* a process died inside idx_sync (history)
  behind       \* one died with the index saved and the end of the data file
               \* not (history)

files   == <<idx_file, data_file>>
history == <<durable, cut, behind>>
vars    == <<pc, idx, append, files, todo, opens, history>>

------------------------------------------------------------------------------
(* The trees *)

Bucket(s) == s % HeadSize                  \* _get_hashhead_id

(* The pointer variables of the code point to a head or to a child of a    *)
(* node: [at, of].                                                         *)
HeadOf(s) == [at |-> "head", of |-> Bucket(s)]
Child(id, side) == [at |-> side, of |-> id]

Deref(i, p) ==
  CASE p.at = "head"  -> i.hash_head[p.of]
    [] p.at = "left"  -> i.node_pool[p.of].left_id
    [] p.at = "right" -> i.node_pool[p.of].right_id

Assign(i, p, id) ==
  CASE p.at = "head"  -> [i EXCEPT !.hash_head[p.of] = id]
    [] p.at = "left"  -> [i EXCEPT !.node_pool[p.of].left_id = id]
    [] p.at = "right" -> [i EXCEPT !.node_pool[p.of].right_id = id]

IsNode(i, id) == id \in Ids /\ i.node_pool[id] # Junk

(* _is_hash_same, and the way the loops of search, insert and delete turn. *)
Side(a, b) == IF a < b THEN "left" ELSE "right"

Pointers ==
  [at : {"head"}, of : Heads] \cup [at : {"left", "right"}, of : Ids]

(* One turn of the loop that looks for a sign, from pre_node_ptr to        *)
(* pre_node_ptr.                                                           *)
Turn(i, s) ==
  [p \in Pointers |->
     LET id == Deref(i, p) IN
       IF IsNode(i, id) /\ i.node_pool[id].key_sign # s
         THEN Child(id, Side(i.node_pool[id].key_sign, s))
         ELSE p]

(* pre_node_ptr where the loop ends: at the sign or at the end of the      *)
(* tree.  In an index that was not saved whole the loop may meet junk or   *)
(* run in a circle; in any other it has ended after PoolSize turns.        *)
Where(i, s) ==
  LET at[turns \in 0 .. PoolSize] ==
        IF turns = 0 THEN HeadOf(s) ELSE Turn(i, s)[at[turns - 1]]
  IN at[PoolSize]

Found(i, s) ==
  LET id == Deref(i, Where(i, s)) IN
    IF id = NotExist \/ (IsNode(i, id) /\ i.node_pool[id].key_sign = s) THEN id ELSE Junk

(* kv_get: idx_search, then data_get, which compares no key.               *)
RecordAt(offset) == data_file.items[offset]
Lookup(s) ==
  LET id == Found(idx, s) IN
    IF id \in Ids THEN RecordAt(idx.node_pool[id].value_offset) ELSE Junk

(* _get_free_idx_node: the position and what is left.  There is no test    *)
(* of node_pool_size.  The mutants never use a free node again, and forget *)
(* an else.                                                                *)
FreeNodeNever(i) == i.horizon
FreeNode(i) ==
  IF i.free_count = 0 THEN i.horizon ELSE i.free_pool[i.free_count]
TakenBoth(i) == [i EXCEPT !.horizon = @ + 1, !.free_count = @ - 1]
Taken(i) ==
  IF i.free_count = 0 THEN [i EXCEPT !.horizon = @ + 1]
                      ELSE [i EXCEPT !.free_count = @ - 1]

(* _put_free_idx_node, where there is room.                                *)
Freed(i, id) ==
  [i EXCEPT !.free_count = @ + 1, !.free_pool[i.free_count + 1] = id]

(* idx_insert links a node without children.                               *)
Inserted(i, s, offset) ==
  LET id == FreeNode(i)
      node == [key_sign |-> s, value_offset |-> offset,
               left_id |-> NotExist, right_id |-> NotExist]
  IN [Assign([Taken(i) EXCEPT !.node_pool[id] = node], Where(i, s), id)
      EXCEPT !.is_change = TRUE]

(* One turn of the inner loop of idx_delete, and where it ends: at the     *)
(* leftmost pointer below the right child (nearest_pre_node_ptr).          *)
TurnLeft(i) ==
  [p \in Pointers |->
     LET m == Deref(i, p) IN
       IF IsNode(i, m) /\ i.node_pool[m].left_id # NotExist THEN Child(m, "left") ELSE p]

Nearest(i, id) ==
  LET at[turns \in 0 .. PoolSize] ==
        IF turns = 0 THEN Child(id, "right") ELSE TurnLeft(i)[at[turns - 1]]
  IN at[PoolSize]

(* idx_delete with two children: the nearest node leaves its place and     *)
(* takes that of the deleted one.  The mutant leaves it where it was.      *)
MoveNearestKept(i, p, id) ==
  LET m == Deref(i, Nearest(i, id))
      k == [i EXCEPT !.node_pool[m].left_id = i.node_pool[id].left_id,
                     !.node_pool[m].right_id = i.node_pool[id].right_id]
  IN Assign(k, p, m)
MoveNearest(i, p, id) ==
  LET q == Nearest(i, id)
      m == Deref(i, q)
      j == Assign(i, q, i.node_pool[m].right_id)
      k == [j EXCEPT !.node_pool[m].left_id = j.node_pool[id].left_id,
                     !.node_pool[m].right_id = j.node_pool[id].right_id]
  IN Assign(k, p, m)

(* The other cases; the mutant looks at one child only.                    *)
OnlyRight(left, right) == right
OnlyChild(left, right) == IF left # NotExist THEN left ELSE right
Unlinked(i, p, id) ==
  LET left == i.node_pool[id].left_id
      right == i.node_pool[id].right_id
  IN IF left # NotExist /\ right # NotExist THEN MoveNearest(i, p, id)
     ELSE Assign(i, p, OnlyChild(left, right))

(* The inner loop of idx_delete ends. *)
NearestEnds(i, id) ==
  i.node_pool[id].left_id # NotExist /\ i.node_pool[id].right_id # NotExist
    => i.node_pool[Deref(i, Nearest(i, id))].left_id = NotExist

Deleted(i, s) ==
  LET id == Found(i, s) IN
    [Freed(Unlinked(i, Where(i, s), id), id) EXCEPT !.is_change = TRUE]

------------------------------------------------------------------------------
(* The process *)

NoIndex ==
  [hash_head |-> [h \in Heads |-> NotExist],
   node_pool |-> [id \in Ids |-> Junk],
   horizon |-> 0, free_count |-> 0,
   free_pool |-> [e \in 1 .. FreeRoom |-> Junk],
   is_change |-> FALSE]

FirstOffset == 1                    \* right behind the header of the data file

Init ==
  /\ pc = "down" /\ idx = NoIndex /\ append = FirstOffset
  /\ idx_file = [head |-> Junk, node_pool |-> NoIndex.node_pool,
                 hash_head |-> [h \in Heads |-> Junk], free_pool |-> NoIndex.free_pool]
  /\ data_file = [head |-> Junk, items |-> [n \in 1 .. MaxData |-> Junk]]
  /\ todo = <<>> /\ opens = 0 /\ durable = {} /\ cut = FALSE /\ behind = FALSE

(* The map the index and the data file stand for. *)
Stored ==
  [s \in Signs |-> LET r == Lookup(s) IN IF r = Junk THEN Junk ELSE r.value]

Forget == idx' = NoIndex /\ append' = FirstOffset

(* An endless loop, or an access to what no malloc returned: from here on  *)
(* the model says nothing.                                                 *)
Halt == pc' = "halted" /\ UNCHANGED <<idx, append, files, todo, opens, history>>

------------------------------------------------------------------------------
(* Saving.  Nothing looks at what write(2) returns. *)

IndexParts == <<"head", "pool", "heads", "free">>

IndexHead == [horizon |-> idx.horizon, free_count |-> idx.free_count]

(* One of the four writes of idx_sync, in their order. *)
IndexSync(part) ==
  idx_file' = CASE part = "head"  -> [idx_file EXCEPT !.head = IndexHead]
                [] part = "pool"  -> [idx_file EXCEPT !.node_pool = idx.node_pool]
                [] part = "heads" -> [idx_file EXCEPT !.hash_head = idx.hash_head]
                [] part = "free"  -> [idx_file EXCEPT !.free_pool = idx.free_pool]

DataSync == data_file' = [data_file EXCEPT !.head = append]

(* What the map on disk is changes while the index is written, and is      *)
(* known again afterwards; a blank index makes good what went astray.      *)
Straight == ~cut /\ ~behind
Durable(part) ==
  CASE part = "head" /\ pc = "exit" /\ Straight -> durable \cup {Stored}
    [] part = "free" /\ (pc = "create" \/ Straight) -> {Stored}
    [] OTHER -> durable

Blank == pc = "create" /\ Head(todo) = "free"

Write ==
  /\ pc # "halted" /\ todo # <<>>
  /\ todo' = Tail(todo)
  /\ IF Head(todo) = "data" THEN DataSync /\ UNCHANGED idx_file
                            ELSE IndexSync(Head(todo)) /\ UNCHANGED data_file
  /\ durable' = Durable(Head(todo))
  /\ cut' = (cut /\ ~Blank)
  /\ behind' = (behind /\ ~Blank)
  /\ UNCHANGED <<pc, idx, append, opens>>

(* idx_sync writes free_node_pool_size entries, 8 MB, from a list malloc   *)
(* was asked for 8 bytes: FreeRoom entries are written as they are, or C   *)
(* says nothing.                                                           *)
SaveOverrun == pc # "halted" /\ todo # <<>> /\ Head(todo) = "free" /\ Halt

(* The index file names a place where the next put after a load writes.    *)
Ahead ==
  /\ data_file.head # Junk
  /\ \E id \in Ids : /\ idx_file.node_pool[id] # Junk
                     /\ idx_file.node_pool[id].value_offset >= data_file.head

(* The process ends; kv_close, which saves nothing, comes to the same.     *)
MidSync == todo # <<>> /\ Head(todo) \in {"pool", "heads", "free"}
Die ==
  /\ pc \in {"create", "up", "exit"}
  /\ cut' = (cut \/ MidSync)
  /\ behind' = (behind \/ Ahead)
  /\ pc' = "down" /\ Forget
  /\ todo' = <<>>
  /\ UNCHANGED <<files, opens, durable>>

------------------------------------------------------------------------------
(* kv_open *)

CanOpen == pc = "down" /\ opens < MaxOpens /\ opens' = opens + 1

(* CREATE: idx_create and data_create write new contents over what the     *)
(* files hold.  No file is made shorter.                                   *)
DataCreate == append' = FirstOffset
Create ==
  /\ CanOpen
  /\ pc' = "create"
  /\ idx' = NoIndex /\ DataCreate
  /\ todo' = IndexParts \o <<"data">>
  /\ UNCHANGED <<files, history>>

Opened ==
  /\ pc = "create" /\ todo = <<>>
  /\ pc' = "up"
  /\ UNCHANGED <<idx, append, files, todo, opens, history>>

(* LOAD.  Without a file it fails, in idx_load by following a null         *)
(* pointer.                                                                *)
DataLoad == data_file.head # Junk /\ append' = data_file.head
Load ==
  /\ CanOpen
  /\ idx_file.head # Junk /\ DataLoad
  /\ pc' = "up"
  /\ idx' = [hash_head |-> idx_file.hash_head, node_pool |-> idx_file.node_pool,
             horizon |-> idx_file.head.horizon, free_count |-> idx_file.head.free_count,
             free_pool |-> idx_file.free_pool, is_change |-> FALSE]
  /\ UNCHANGED <<files, todo, history>>

(* idx_load reads the 8 MB over such a list: the entries come back as they *)
(* were written, or C says nothing.                                        *)
LoadOverrun ==
  /\ pc = "down" /\ opens < MaxOpens
  /\ idx_file.head # Junk
  /\ Halt

(* What the exits save: idx_exit an index that was changed, data_exit the  *)
(* end.  No call of kvs_api.c comes to them with anything changed; who     *)
(* wants to keep a cabinet calls them, as the unit tests do, in the order  *)
(* he likes.                                                               *)
IndexExit == IF idx.is_change THEN IndexParts ELSE <<>>
Exits == {<<"data">> \o IndexExit, IndexExit \o <<"data">>}
Exit ==
  /\ pc = "up"
  /\ pc' = "exit" /\ todo' \in Exits
  /\ UNCHANGED <<idx, append, files, opens, history>>

(* The files are closed and the memory is freed. *)
Closed ==
  /\ pc = "exit" /\ todo = <<>>
  /\ pc' = "down" /\ Forget
  /\ UNCHANGED <<files, todo, opens, history>>

------------------------------------------------------------------------------
(* kv_put and kv_delete *)

(* The mutant forgets to move the end behind the record.                   *)
DataInsertStays(s, v) ==
  /\ data_file' = [data_file EXCEPT !.items[append] = [sign |-> s, value |-> v]]
  /\ append' = append
DataInsert(s, v) ==
  /\ data_file' = [data_file EXCEPT !.items[append] = [sign |-> s, value |-> v]]
  /\ append' = append + 1

(* A put of a sign that is there changes nothing: idx_insert returns -1.   *)
(* The place is taken from append_offset before the index is asked.        *)
Put(s, v) ==
  /\ pc = "up" /\ Found(idx, s) \notin Ids
  /\ IF Found(idx, s) = NotExist /\ FreeNode(idx) \in Ids
       THEN /\ append <= MaxData
            /\ idx' = Inserted(idx, s, append)
            /\ DataInsert(s, v)
            /\ UNCHANGED <<pc, idx_file, todo, opens, history>>
       ELSE Halt

Delete(s) ==
  /\ pc = "up" /\ Found(idx, s) # NotExist
  /\ IF Found(idx, s) \in Ids /\ NearestEnds(idx, Found(idx, s)) /\ idx.free_count < FreeRoom
       THEN /\ idx' = Deleted(idx, s)
            /\ UNCHANGED <<pc, append, files, todo, opens, history>>
       ELSE Halt

Next ==
  \/ Create \/ Load \/ Exit \/ Write \/ Opened \/ Closed \/ Die
  \/ SaveOverrun \/ LoadOverrun
  \/ \E s \in Signs : Delete(s) \/ \E v \in Values : Put(s, v)

Spec == Init /\ [][Next]_vars
=============================================================================
