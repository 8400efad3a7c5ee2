-------------------------------- MODULE Index --------------------------------
(***************************************************************************)
(* INDEX (src/kvs/src/engine/index.cc): a hash table whose buckets are     *)
(* binary search trees.  The nodes live in one array item_, are named by   *)
(* their position, and are allocated by PopFreeNode from a stack of freed  *)
(* positions first, then from the untouched rest above item_horizon_.      *)
(*                                                                         *)
(* One caller at a time enters Search, Insert, Del or Load (the engine     *)
(* takes no lock and the server has one worker).  A step of this           *)
(* specification is a call, one turn of the loop that walks down a bucket, *)
(* or the part of the handler after that loop.  Walks are steps because    *)
(* whether they end is one of the questions.                               *)
(***************************************************************************)
EXTENDS Integers, Sequences, FiniteSets

CONSTANTS
  NumItems,     \* item_num_, INDEX_ITEM_NUM (index.h:20)
  OffsetFeb31,  \* the null position, and the key of a freed node
  Keys,         \* keys of the clients, as numbers (all of length key_len_)
  Places,       \* (offset, length) of a value, as one datum
  NoPlace,      \* what FillItem puts there when only the key counts
  Ops,          \* handlers the caller uses
  Covers,       \* values of PutOptions.cover the caller uses
  HeadSize,     \* hash_head_size_ given to Born
  LoadSizes     \* hash_head_size_ given to Load

ASSUME IndexAssumption ==
  /\ NumItems \in Nat \ {0}
  /\ OffsetFeb31 \in Nat /\ OffsetFeb31 >= NumItems
  /\ Keys \subseteq Nat
  /\ NoPlace \notin Places
  /\ Ops \subseteq {"search", "insert", "delete", "load"}
  /\ Covers \subseteq BOOLEAN
  /\ HeadSize \in Nat \ {0}
  /\ LoadSizes \subseteq Nat \ {0}

VARIABLES
  item,             \* item_, the array of nodes
  hash_head,        \* hash_head_, one root per bucket
  hash_head_size,   \* hash_head_size_
  item_horizon,     \* item_horizon_, positions below it have been handed out
  free_slots,       \* free_slots_, the stack of freed positions, top last
  pc,               \* where the handler is; "idle" between calls
  op,               \* the handler running
  cover,            \* its parameter
  new,              \* its parameter: the item FillItem built, or the one loaded
  node_id,          \* the node the walk is at
  pre_node_ptr,     \* the pointer the walk followed to node_id
  nearest_id,       \* BSTDelete's second walk
  load_i,           \* Load's loop counter
  load_horizon,     \* Load's before_item_horizon
  status, found     \* what the last call returned

pool   == <<item_horizon, free_slots>>
heads  == <<hash_head, hash_head_size>>
call   == <<op, cover, new>>
cursor == <<node_id, pre_node_ptr, nearest_id>>
loop   == <<load_i, load_horizon>>
answer == <<status, found>>
vars   == <<item, heads, pool, pc, call, cursor, loop, answer>>

------------------------------------------------------------------------------
(* Data *)

Positions == 0 .. NumItems - 1
Pointer   == Positions \cup {OffsetFeb31}
NodeKeys  == Keys \cup {OffsetFeb31}
Node == [key : NodeKeys, place : Places \cup {NoPlace}, left : Pointer, right : Pointer]

(* INDEX::FillItem: the item a call carries has no children.               *)
FillItem(k, p) ==
  [key |-> k, place |-> p, left |-> OffsetFeb31, right |-> OffsetFeb31]
NoItem == FillItem(OffsetFeb31, NoPlace)

(* A pointer variable of the C++ is the place it lives in: a bucket's head *)
(* or the left or right field of a node.                                   *)
Location == [at : {"head", "left", "right"}, of : Nat]
NoLocation == [at |-> "head", of |-> 0]
Deref(loc) ==
  IF loc.at = "head" THEN hash_head[loc.of]
  ELSE IF loc.at = "left" THEN item[loc.of].left ELSE item[loc.of].right

GetHTId(k) == k % hash_head_size
Root(k) == [at |-> "head", of |-> GetHTId(k)]

(* Where PopFreeNode finds its node; OffsetFeb31 when there is none left.  *)
PopFreeNode ==
  IF free_slots # <<>> THEN free_slots[Len(free_slots)]
  ELSE IF item_horizon = NumItems THEN OffsetFeb31 ELSE item_horizon

(* The popped position stays stacked. *)
PopKeepsSlot ==
  /\ free_slots' = free_slots
  /\ item_horizon' = IF free_slots # <<>> THEN item_horizon ELSE item_horizon + 1
(* The horizon moves although a freed position was taken. *)
PopAlwaysGrows ==
  /\ free_slots' = IF free_slots = <<>> THEN <<>>
                   ELSE SubSeq(free_slots, 1, Len(free_slots) - 1)
  /\ item_horizon' = item_horizon + 1
PoolAfterPop ==
  IF free_slots # <<>>
    THEN /\ free_slots' = SubSeq(free_slots, 1, Len(free_slots) - 1)
         /\ item_horizon' = item_horizon
    ELSE /\ item_horizon' = item_horizon + 1
         /\ free_slots' = free_slots

(* The node is not given back, or given back twice. *)
PushNothing(n) == free_slots' = free_slots /\ item_horizon' = item_horizon
PushTwice(n)   == free_slots' = free_slots \o <<n, n>> /\ item_horizon' = item_horizon
PushFreeNode(n) == free_slots' = Append(free_slots, n) /\ item_horizon' = item_horizon

(* *loc = v, where nodes is item_ with what the handler has written to it. *)
Store(nodes, loc, v) ==
  /\ hash_head' = IF loc.at = "head" THEN [hash_head EXCEPT ![loc.of] = v]
                  ELSE hash_head
  /\ item' = IF loc.at = "left" THEN [nodes EXCEPT ![loc.of].left = v]
             ELSE IF loc.at = "right" THEN [nodes EXCEPT ![loc.of].right = v]
             ELSE nodes
  /\ hash_head_size' = hash_head_size

------------------------------------------------------------------------------
(* Calls and returns *)

(* INDEX::Born on an empty meta file: Init, with item_horizon_ 0.          *)
Init ==
  /\ item = [n \in Positions |-> NoItem]
  /\ hash_head_size = HeadSize
  /\ hash_head = [b \in 0 .. HeadSize - 1 |-> OffsetFeb31]
  /\ item_horizon = 0
  /\ free_slots = <<>>
  /\ pc = "idle" /\ op = "none" /\ cover = FALSE /\ new = NoItem
  /\ node_id = OffsetFeb31 /\ nearest_id = OffsetFeb31
  /\ pre_node_ptr = NoLocation
  /\ load_i = 0 /\ load_horizon = 0
  /\ status = "Ok" /\ found = NoPlace

(* The head of the walk's loop: start at the root of the key's bucket.     *)
StartWalk(k) ==
  /\ pc' = "walk"
  /\ node_id' = hash_head[GetHTId(k)]
  /\ pre_node_ptr' = Root(k)
  /\ nearest_id' = OffsetFeb31

Enter(o, c, n) ==
  /\ pc = "idle" /\ o \in Ops
  /\ op' = o /\ cover' = c /\ new' = n
  /\ status' = "Pending" /\ found' = NoPlace

Call(o, c, n) ==
  /\ Enter(o, c, n)
  /\ StartWalk(n.key)
  /\ UNCHANGED <<item, heads, pool, loop>>

CallSearch == \E k \in Keys : Call("search", FALSE, FillItem(k, NoPlace))
CallDelete == \E k \in Keys : Call("delete", FALSE, FillItem(k, NoPlace))
CallInsert ==
  \E k \in Keys, p \in Places, c \in Covers : Call("insert", c, FillItem(k, p))

(* A key that is not key_len_ long is turned down before anything else.    *)
WrongLength ==
  /\ pc = "idle" /\ Ops \cap {"search", "insert", "delete"} # {}
  /\ status' = "InvalidParam" /\ found' = NoPlace
  /\ UNCHANGED <<item, heads, pool, pc, call, cursor, loop>>

(* The handler's locals go out of scope; p is the new value of pc.         *)
Leave(p) ==
  /\ pc' = p /\ op' = "none" /\ cover' = FALSE /\ new' = NoItem
  /\ node_id' = OffsetFeb31 /\ nearest_id' = OffsetFeb31
  /\ pre_node_ptr' = NoLocation
  /\ load_i' = 0 /\ load_horizon' = 0

Return(s, p) == Leave("idle") /\ status' = s /\ found' = p

(* An access to item_[OffsetFeb31], far outside the array: the process     *)
(* dies.                                                                   *)
Crash ==
  /\ Leave("halted")
  /\ UNCHANGED <<item, heads, pool, answer>>

------------------------------------------------------------------------------
(* The walk down a bucket, the same loop in BSTSearchId, BSTInsert and     *)
(* BSTDelete (BSTSearchId does not need pre_node_ptr).                     *)

Hit == node_id # OffsetFeb31 /\ new.key = item[node_id].key
Miss == node_id = OffsetFeb31

(* The walk forgets to move. *)
WalkStays ==
  /\ pc = "walk" /\ ~Miss /\ new.key < item[node_id].key
  /\ pre_node_ptr' = [at |-> "left", of |-> node_id]
  /\ UNCHANGED <<item, heads, pool, pc, call, node_id, nearest_id, loop, answer>>
WalkLeft ==
  /\ pc = "walk" /\ ~Miss /\ new.key < item[node_id].key
  /\ pre_node_ptr' = [at |-> "left", of |-> node_id]
  /\ node_id' = item[node_id].left
  /\ UNCHANGED <<item, heads, pool, pc, call, nearest_id, loop, answer>>

WalkRight ==
  /\ pc = "walk" /\ ~Miss /\ new.key > item[node_id].key
  /\ pre_node_ptr' = [at |-> "right", of |-> node_id]
  /\ node_id' = item[node_id].right
  /\ UNCHANGED <<item, heads, pool, pc, call, nearest_id, loop, answer>>

SearchEnd ==
  /\ pc = "walk" /\ op = "search" /\ (Hit \/ Miss)
  /\ IF Hit THEN Return("Ok", item[node_id].place) ELSE Return("NotExist", NoPlace)
  /\ UNCHANGED <<item, heads, pool>>

(* BSTInsert after its loop.  The new node takes the place of the one that *)
(* was hit, whose children and position are dropped.                       *)
InsertExist ==
  /\ pc = "walk" /\ op = "insert" /\ Hit /\ ~cover
  /\ Return("Exist", NoPlace)
  /\ UNCHANGED <<item, heads, pool>>

(* The new node is hung from the bucket's head. *)
LinkAtRoot ==
  /\ pc = "walk" /\ (Miss \/ (Hit /\ cover))
  /\ PopFreeNode # OffsetFeb31
  /\ PoolAfterPop
  /\ Store([item EXCEPT ![PopFreeNode] = new], Root(new.key), PopFreeNode)
Link ==
  /\ pc = "walk" /\ (Miss \/ (Hit /\ cover))
  /\ PopFreeNode # OffsetFeb31
  /\ PoolAfterPop
  /\ Store([item EXCEPT ![PopFreeNode] = new], pre_node_ptr, PopFreeNode)

InsertLink == op = "insert" /\ Link /\ Return("Ok", NoPlace)

(* BSTInsert does not look at what PopFreeNode returned.                   *)
InsertFull ==
  /\ pc = "walk" /\ op \in {"insert", "load"} /\ (Miss \/ (Hit /\ cover))
  /\ PopFreeNode = OffsetFeb31
  /\ Crash

DeleteMiss ==
  /\ pc = "walk" /\ op = "delete" /\ Miss
  /\ Return("NotExist", NoPlace)
  /\ UNCHANGED <<item, heads, pool>>

(* A node with at most one child: *pre_node_ptr takes the child (or null), *)
(* and PushFreeNode marks the node's key and stacks its position.          *)
LeftChild == item[node_id].left     \* whatever it is
OnlyChild ==
  IF item[node_id].left # OffsetFeb31 THEN item[node_id].left ELSE item[node_id].right
DeleteUnlink ==
  /\ pc = "walk" /\ op = "delete" /\ Hit
  /\ item[node_id].left = OffsetFeb31 \/ item[node_id].right = OffsetFeb31
  /\ Store([item EXCEPT ![node_id].key = OffsetFeb31], pre_node_ptr, OnlyChild)
  /\ PushFreeNode(node_id)
  /\ Return("Ok", NoPlace)

(* A node with two children: the loop at index.cc:164 tests node_id, which *)
(* it never moves, so it runs nearest_id down to null and then reads       *)
(* through it.  Lines 168-171 are never reached.                           *)
DeleteTwo ==
  /\ pc = "walk" /\ op = "delete" /\ Hit
  /\ item[node_id].left # OffsetFeb31 /\ item[node_id].right # OffsetFeb31
  /\ pc' = "nearest"
  /\ nearest_id' = item[node_id].right
  /\ UNCHANGED <<item, heads, pool, call, node_id, pre_node_ptr, loop, answer>>

NearestStep ==
  /\ pc = "nearest" /\ nearest_id # OffsetFeb31
  /\ nearest_id' = item[nearest_id].left
  /\ UNCHANGED <<item, heads, pool, pc, call, node_id, pre_node_ptr, loop, answer>>

NearestNull == pc = "nearest" /\ nearest_id = OffsetFeb31 /\ Crash

------------------------------------------------------------------------------
(* Load: the owner has written item_, item_horizon_ and free_slots_ to the *)
(* meta file and opens it again with a head size of its choice.  Every     *)
(* position below the old horizon is inserted again, with cover, the       *)
(* stored children included, into nodes taken from the pool.               *)

(* What Load starts from: nodes, horizon and slots are read from the file. *)
(* The mutant keeps the horizon while the nodes are inserted again.        *)
StartLoadKeepsHorizon(size, nodes, horizon, slots) ==
  /\ Enter("load", TRUE, NoItem)
  /\ hash_head_size' = size
  /\ hash_head' = [b \in 0 .. size - 1 |-> OffsetFeb31]
  /\ item' = nodes /\ item_horizon' = horizon /\ free_slots' = slots
  /\ load_i' = 0 /\ load_horizon' = horizon
  /\ pc' = "load" /\ UNCHANGED cursor
StartLoad(size, nodes, horizon, slots) ==
  /\ Enter("load", TRUE, NoItem)
  /\ hash_head_size' = size
  /\ hash_head' = [b \in 0 .. size - 1 |-> OffsetFeb31]
  /\ item' = nodes /\ item_horizon' = 0 /\ free_slots' = slots
  /\ load_i' = 0 /\ load_horizon' = horizon
  /\ pc' = "load" /\ UNCHANGED cursor

CallLoad == \E size \in LoadSizes : StartLoad(size, item, item_horizon, free_slots)

LoadItem ==
  /\ pc = "load" /\ load_i < load_horizon
  /\ new' = item[load_i]
  /\ StartWalk(item[load_i].key)
  /\ UNCHANGED <<item, heads, pool, op, cover, loop, answer>>

LoadLink ==
  /\ op = "load" /\ Link
  /\ load_i' = load_i + 1
  /\ pc' = "load"
  /\ new' = NoItem
  /\ node_id' = OffsetFeb31 /\ nearest_id' = OffsetFeb31
  /\ pre_node_ptr' = NoLocation
  /\ UNCHANGED <<op, cover, load_horizon, answer>>

LoadEnd ==
  /\ pc = "load" /\ load_i = load_horizon
  /\ item_horizon' = load_horizon
  /\ Return("Ok", NoPlace)
  /\ UNCHANGED <<item, heads, free_slots>>

------------------------------------------------------------------------------
Caller == CallSearch \/ CallInsert \/ CallDelete \/ WrongLength \/ CallLoad

Handler ==
  \/ WalkLeft \/ WalkRight
  \/ SearchEnd
  \/ InsertExist \/ InsertLink \/ InsertFull
  \/ DeleteMiss \/ DeleteUnlink \/ DeleteTwo \/ NearestStep \/ NearestNull
  \/ LoadItem \/ LoadLink \/ LoadEnd

Next == Caller \/ Handler

(* A handler that has been entered keeps running; nobody has to call.      *)
Spec == Init /\ [][Next]_vars /\ WF_vars(Handler)
=============================================================================
