---------------------------- MODULE IndexProofs ----------------------------
(***************************************************************************)
(* Proofs about INDEX for every number of nodes, set of keys and head      *)
(* size.                                                                   *)
(***************************************************************************)
EXTENDS IndexProps, SequenceTheorems, FiniteSetTheorems, TLAPS

(* Where a C++ pointer variable may lie.                                   *)
ValidLocation(loc) ==
  /\ loc \in Location
  /\ loc.at = "head" => loc.of \in 0 .. hash_head_size - 1
  /\ loc.at # "head" => loc.of \in Positions

(* What typing needs beside TypeOK: Load's counter stays below its bound   *)
(* while it inserts an item, and no pointer into the heads outlives a call *)
(* (Load gives them another size).                                         *)
TypeInv ==
  /\ TypeOK
  /\ pc = "idle" => pre_node_ptr = NoLocation
  /\ pc = "walk" /\ op = "load" => load_i < load_horizon

(* A bucket number is below the head size.                                 *)
LEMMA BucketInRange ==
  ASSUME NEW k \in Nat, NEW s \in Nat \ {0}
  PROVE  k % s \in 0 .. s - 1 /\ 0 \in 0 .. s - 1
  OBVIOUS

(* OffsetFeb31 is not a position, and every key is a number.               *)
LEMMA NullFacts ==
  /\ OffsetFeb31 \in Nat /\ OffsetFeb31 \notin Positions
  /\ NodeKeys \subseteq Nat
  /\ NoItem \in Node
  BY IndexAssumption DEF Positions, NodeKeys, NoItem, FillItem, Node, Pointer

(* The root pointer of a bucket is a head.                                 *)
LEMMA RootIsHead ==
  ASSUME TypeOK, NEW k \in NodeKeys
  PROVE  /\ GetHTId(k) \in 0 .. hash_head_size - 1
         /\ Root(k) \in Location /\ Root(k).at = "head" /\ Root(k).of = GetHTId(k)
         /\ hash_head[GetHTId(k)] \in Pointer
  <1>1. k \in Nat /\ hash_head_size \in Nat \ {0}
    BY NullFacts DEF TypeOK
  <1>2. GetHTId(k) \in 0 .. hash_head_size - 1
    BY <1>1, BucketInRange DEF GetHTId
  <1> QED
    BY <1>1, <1>2 DEF Root, Location, TypeOK

(* Writing a pointer keeps the array and the heads typed.                  *)
LEMMA StoreTyped ==
  ASSUME TypeOK,
         NEW nodes \in [Positions -> Node],
         NEW loc, ValidLocation(loc),
         NEW v \in Pointer,
         Store(nodes, loc, v)
  PROVE  /\ item' \in [Positions -> Node]
         /\ hash_head_size' = hash_head_size
         /\ hash_head' \in [0 .. hash_head_size' - 1 -> Pointer]
  BY DEF Store, ValidLocation, Location, Node, TypeOK

(* PopFreeNode returns a position or null, and shrinks the pool.           *)
LEMMA PopTyped ==
  ASSUME TypeOK, PopFreeNode # OffsetFeb31, PoolAfterPop
  PROVE  /\ PopFreeNode \in Positions
         /\ item_horizon' \in 0 .. NumItems
         /\ free_slots' \in Seq(Positions)
  <1>1. NumItems \in Nat
    BY IndexAssumption
  <1>2. CASE free_slots = <<>>
    BY <1>1, <1>2 DEF TypeOK, PopFreeNode, PoolAfterPop, Positions
  <1>3. CASE free_slots # <<>>
    <2> DEFINE n == Len(free_slots)
    <2>1. n \in Nat \ {0} /\ \A i \in 1 .. n : free_slots[i] \in Positions
      BY <1>3, EmptySeq, ElementOfSeq DEF TypeOK
    <2>2. SubSeq(free_slots, 1, n - 1) \in Seq(Positions)
      BY <2>1, SubSeqProperties
    <2>3. PopFreeNode = free_slots[n] /\ n \in 1 .. n
      BY <1>3, <2>1 DEF PopFreeNode
    <2>4. free_slots' = SubSeq(free_slots, 1, n - 1) /\ item_horizon' = item_horizon
      BY <1>3 DEF PoolAfterPop
    <2> HIDE DEF n
    <2> QED
      BY <2>1, <2>2, <2>3, <2>4 DEF TypeOK
  <1> QED
    BY <1>2, <1>3

(* Leaving a handler resets what is local to it to typed values.           *)
LEMMA LeaveTyped ==
  ASSUME NEW p \in {"idle", "halted"}, Leave(p),
         hash_head_size' \in Nat \ {0}
  PROVE  /\ pc' \in {"idle", "walk", "nearest", "load", "halted"}
         /\ op' \in {"none", "search", "insert", "delete", "load"}
         /\ cover' \in BOOLEAN /\ new' \in Node
         /\ node_id' \in Pointer /\ nearest_id' \in Pointer
         /\ ValidLocation(pre_node_ptr)'
         /\ load_i' \in 0 .. NumItems /\ load_horizon' \in 0 .. NumItems
         /\ pre_node_ptr' = NoLocation
         /\ ~(pc' = "walk" /\ op' = "load")
  <1>1. NumItems \in Nat /\ 0 \in 0 .. NumItems
    BY IndexAssumption
  <1>2. NoLocation \in Location /\ NoLocation.at = "head" /\ NoLocation.of = 0
    BY DEF NoLocation, Location
  <1>3. pre_node_ptr' = NoLocation
    BY DEF Leave
  <1>4. 0 \in 0 .. hash_head_size' - 1
    BY BucketInRange, 0 \in Nat
  <1> QED
    BY <1>1, <1>2, <1>3, <1>4, NullFacts DEF Leave, Pointer, ValidLocation

(* The initial state is typed.                                             *)
LEMMA TypeInit == Init => TypeInv
  <1> SUFFICES ASSUME Init PROVE TypeInv
    OBVIOUS
  <1>1. item \in [Positions -> Node] /\ new \in Node
    BY NullFacts DEF Init
  <1>2. /\ hash_head_size \in Nat \ {0}
        /\ hash_head \in [0 .. hash_head_size - 1 -> Pointer]
        /\ node_id \in Pointer /\ nearest_id \in Pointer
    BY IndexAssumption DEF Init, Pointer
  <1>3. free_slots \in Seq(Positions) /\ item_horizon \in 0 .. NumItems
        /\ load_i \in 0 .. NumItems /\ load_horizon \in 0 .. NumItems
    BY IndexAssumption DEF Init
  <1>4. ValidLocation(pre_node_ptr)
    BY <1>2, IndexAssumption DEF Init, NoLocation, Location, ValidLocation
  <1> QED
    BY <1>1, <1>2, <1>3, <1>4 DEF Init, TypeInv, TypeOK, ValidLocation

(* Every step of every handler, Load's included, keeps the types.          *)
LEMMA TypeStep == TypeInv /\ [Next]_vars => TypeInv'
  <1> SUFFICES ASSUME TypeInv, [Next]_vars PROVE TypeInv'
    OBVIOUS
  <1> USE DEF ValidLocation
  <1>0. /\ TypeOK /\ NumItems \in Nat
        /\ OffsetFeb31 \in Pointer
        /\ \A n \in Pointer : n # OffsetFeb31 => n \in Positions
    BY IndexAssumption DEF TypeInv, Pointer
  <1>1. ASSUME NEW k \in Keys, NEW c \in BOOLEAN, NEW p \in Places \cup {NoPlace},
               NEW o \in {"search", "insert", "delete"},
               Call(o, c, FillItem(k, p))
        PROVE  TypeInv'
    <2>1. FillItem(k, p) \in Node /\ FillItem(k, p).key \in NodeKeys
      BY DEF FillItem, Node, NodeKeys, Pointer
    <2>2. /\ node_id' \in Pointer
          /\ pre_node_ptr' \in Location /\ pre_node_ptr'.at = "head"
          /\ pre_node_ptr'.of \in 0 .. hash_head_size - 1
      BY <1>0, <1>1, <2>1, RootIsHead DEF Call, StartWalk
    <2> QED
      BY <1>0, <1>1, <2>1, <2>2
      DEF Call, Enter, StartWalk, heads, pool, loop, TypeInv, TypeOK
  <1>2. CASE CallLoad
    <2>1. PICK size \in LoadSizes :
            /\ hash_head_size' = size
            /\ hash_head' = [b \in 0 .. size - 1 |-> OffsetFeb31]
      BY <1>2 DEF CallLoad, StartLoad
    <2>2. /\ hash_head_size' \in Nat \ {0}
          /\ hash_head' \in [0 .. hash_head_size' - 1 -> Pointer]
      BY <1>0, <2>1, IndexAssumption
    <2>3. /\ pre_node_ptr' = NoLocation /\ NoLocation \in Location
          /\ NoLocation.at = "head" /\ NoLocation.of \in 0 .. hash_head_size' - 1
      BY <1>2, <2>2 DEF CallLoad, StartLoad, Enter, cursor, TypeInv, NoLocation, Location
    <2> QED
      BY <1>0, <1>2, <2>2, <2>3, NullFacts
      DEF CallLoad, StartLoad, Enter, cursor, TypeInv, TypeOK
  <1>3. CASE WalkLeft \/ WalkRight
    <2>1. node_id \in Positions
      BY <1>0, <1>3 DEF WalkLeft, WalkRight, Miss, TypeOK
    <2>2. item[node_id].left \in Pointer /\ item[node_id].right \in Pointer
      BY <1>0, <2>1 DEF TypeOK, Node
    <2>3. node_id' \in Pointer /\ pre_node_ptr' \in Location
          /\ pre_node_ptr'.at # "head" /\ pre_node_ptr'.of \in Positions
      BY <1>0, <1>3, <2>1, <2>2 DEF WalkLeft, WalkRight, Location, Positions
    <2> QED
      BY <1>0, <1>3, <2>3
      DEF WalkLeft, WalkRight, heads, pool, call, loop, answer, TypeInv, TypeOK
  <1>4. CASE SearchEnd
    <2>1. Hit => item[node_id].place \in Places \cup {NoPlace}
      BY <1>0 DEF Hit, TypeOK, Node
    <2>2. /\ Leave("idle") /\ found' \in Places \cup {NoPlace}
          /\ status' \in {"Ok", "NotExist"}
      BY <1>4, <2>1 DEF SearchEnd, Return
    <2> QED
      BY <1>0, <1>4, <2>2, LeaveTyped DEF SearchEnd, heads, pool, TypeInv, TypeOK
  <1>5. CASE InsertExist \/ DeleteMiss
    BY <1>0, <1>5, LeaveTyped
    DEF InsertExist, DeleteMiss, Return, heads, pool, TypeInv, TypeOK
  <1>6. ASSUME Link
        PROVE  /\ item' \in [Positions -> Node]
               /\ hash_head_size' \in Nat \ {0}
               /\ hash_head' \in [0 .. hash_head_size' - 1 -> Pointer]
               /\ item_horizon' \in 0 .. NumItems
               /\ free_slots' \in Seq(Positions)
    <2>1. /\ PopFreeNode \in Positions
          /\ item_horizon' \in 0 .. NumItems
          /\ free_slots' \in Seq(Positions)
      BY <1>0, <1>6, PopTyped DEF Link
    <2>2. [item EXCEPT ![PopFreeNode] = new] \in [Positions -> Node]
      BY <1>0, <2>1 DEF TypeOK
    <2>3. ValidLocation(pre_node_ptr) /\ PopFreeNode \in Pointer
      BY <1>0, <2>1 DEF TypeOK, Pointer
    <2>4. Store([item EXCEPT ![PopFreeNode] = new], pre_node_ptr, PopFreeNode)
      BY <1>6 DEF Link
    <2> QED
      BY <1>0, <2>1, <2>2, <2>3, <2>4, StoreTyped DEF TypeOK
  <1>7. CASE InsertLink
    BY <1>6, <1>7, LeaveTyped, <1>0 DEF InsertLink, Return, TypeInv, TypeOK
  <1>8. CASE InsertFull \/ NearestNull
    BY <1>0, <1>8, LeaveTyped
    DEF InsertFull, NearestNull, Crash, heads, pool, answer, TypeInv, TypeOK
  <1>9. CASE DeleteUnlink
    <2> DEFINE child == IF item[node_id].left # OffsetFeb31
                          THEN item[node_id].left ELSE item[node_id].right
               nodes == [item EXCEPT ![node_id].key = OffsetFeb31]
    <2>1. node_id \in Positions
      BY <1>0, <1>9 DEF DeleteUnlink, OnlyChild, PushFreeNode, Hit, TypeOK
    <2>2. child \in Pointer
      BY <1>0, <2>1 DEF TypeOK, Node
    <2>3. nodes \in [Positions -> Node]
      BY <1>0, <2>1 DEF TypeOK, Node, NodeKeys
    <2>4. ValidLocation(pre_node_ptr) /\ Store(nodes, pre_node_ptr, child)
      BY <1>0, <1>9 DEF TypeOK, DeleteUnlink, OnlyChild, PushFreeNode
    <2>5. /\ item' \in [Positions -> Node]
          /\ hash_head_size' \in Nat \ {0}
          /\ hash_head' \in [0 .. hash_head_size' - 1 -> Pointer]
      <3> HIDE DEF child, nodes
      <3> QED BY <1>0, <2>2, <2>3, <2>4, StoreTyped DEF TypeOK
    <2>6. free_slots' \in Seq(Positions) /\ item_horizon' \in 0 .. NumItems
      BY <1>0, <1>9, <2>1 DEF DeleteUnlink, OnlyChild, PushFreeNode, TypeOK
    <2> QED
      BY <1>0, <1>9, <2>5, <2>6, LeaveTyped DEF DeleteUnlink, OnlyChild, PushFreeNode, Return, TypeInv, TypeOK
  <1>10. CASE DeleteTwo
    <2>1. item[node_id].right \in Pointer
      BY <1>0, <1>10 DEF DeleteTwo, Hit, TypeOK, Node
    <2> QED
      BY <1>0, <1>10, <2>1
      DEF DeleteTwo, heads, pool, call, loop, answer, TypeInv, TypeOK
  <1>11. CASE NearestStep
    <2>1. item[nearest_id].left \in Pointer
      BY <1>0, <1>11 DEF NearestStep, TypeOK, Node
    <2> QED
      BY <1>0, <1>11, <2>1
      DEF NearestStep, heads, pool, call, loop, answer, TypeInv, TypeOK
  <1>12. CASE LoadItem
    <2>1. load_i \in Positions
      BY <1>0, <1>12 DEF LoadItem, TypeOK, Positions
    <2>2. item[load_i] \in Node /\ item[load_i].key \in NodeKeys
      BY <1>0, <2>1 DEF TypeOK, Node
    <2>3. /\ node_id' \in Pointer
          /\ pre_node_ptr' \in Location /\ pre_node_ptr'.at = "head"
          /\ pre_node_ptr'.of \in 0 .. hash_head_size - 1
      BY <1>0, <1>12, <2>2, RootIsHead DEF LoadItem, StartWalk
    <2> QED
      BY <1>0, <1>12, <2>2, <2>3
      DEF LoadItem, StartWalk, heads, pool, loop, answer, TypeInv, TypeOK
  <1>13. CASE LoadLink
    <2>1. load_i < load_horizon
      BY <1>13 DEF LoadLink, Link, TypeInv
    <2>2. load_i' \in 0 .. NumItems
      BY <1>0, <1>13, <2>1 DEF LoadLink, TypeOK
    <2>3. NoLocation \in Location /\ NoLocation.at = "head"
          /\ (NoLocation.of \in 0 .. hash_head_size' - 1)
      BY <1>6, <1>13 DEF LoadLink, NoLocation, Location
    <2> QED
      BY <1>0, <1>6, <1>13, <2>2, <2>3, NullFacts DEF LoadLink, answer, TypeInv, TypeOK
  <1>14. CASE LoadEnd
    BY <1>0, <1>14, LeaveTyped DEF LoadEnd, Return, heads, TypeInv, TypeOK
  <1>15. CASE UNCHANGED vars
    BY <1>0, <1>15
    DEF vars, heads, pool, call, cursor, loop, answer, TypeInv, TypeOK
  <1>16. CASE CallSearch \/ CallInsert \/ CallDelete
    BY <1>1, <1>16, IndexAssumption DEF CallSearch, CallInsert, CallDelete
  <1>17. CASE WrongLength
    BY <1>0, <1>17
    DEF WrongLength, heads, pool, call, cursor, loop, TypeInv, TypeOK
  <1> QED
    BY <1>2, <1>3, <1>4, <1>5, <1>7, <1>8, <1>9, <1>10, <1>11, <1>12, <1>13,
       <1>14, <1>15, <1>16, <1>17
    DEF Next, Caller, Handler

(* Type correctness of INDEX over every history of calls, Load included.   *)
THEOREM TypeCorrect == Spec => []TypeOK
  <1>1. TypeInv => TypeOK
    BY DEF TypeInv
  <1> QED
    BY <1>1, TypeInit, TypeStep, PTL DEF Spec

------------------------------------------------------------------------------
(* The pool.  The inductive invariant adds what the walk knows: the        *)
(* pointer it followed is one that matters and still holds node_id, and    *)
(* the item to insert brings no children.  Load keeps none of this: it     *)
(* brings the stored children back (see the README), so that the theorem   *)
(* is about the calls between two loads.                                   *)

PoolInv ==
  /\ TypeInv
  /\ PoolSafe
  /\ op # "load" /\ pc # "load"
  /\ pc = "walk" => /\ pre_node_ptr \in Locations
                    /\ Deref(pre_node_ptr) = node_id
                    /\ new.left = OffsetFeb31 /\ new.right = OffsetFeb31

(* A step that writes no node, no head and not the pool keeps PoolSafe.    *)
LEMMA PoolUnchanged ==
  ASSUME PoolSafe, UNCHANGED <<item, heads, pool>>
  PROVE  PoolSafe'
  BY DEF PoolSafe, FreedOnce, NoDangling, NoSharing, Locations, Live, Freed,
         Deref, heads, pool

(* PopFreeNode hands out a position that is not live, makes it live and    *)
(* leaves the other positions as they were.                                *)
LEMMA PopFreshNode ==
  ASSUME TypeOK, FreedOnce, PopFreeNode # OffsetFeb31, PoolAfterPop
  PROVE  /\ PopFreeNode \in Positions /\ PopFreeNode \notin Live
         /\ Live' = Live \cup {PopFreeNode}
         /\ FreedOnce'
  <1> DEFINE n == Len(free_slots)
  <1>0. NumItems \in Nat /\ PopFreeNode \in Positions
    BY PopTyped, IndexAssumption
  <1>1. /\ n \in Nat /\ DOMAIN free_slots = 1 .. n
        /\ \A i \in 1 .. n : free_slots[i] \in Positions
    BY LenProperties, ElementOfSeq DEF TypeOK
  <1>2. CASE free_slots = <<>>
    <2>1. /\ PopFreeNode = item_horizon /\ item_horizon # NumItems
          /\ item_horizon' = item_horizon + 1 /\ free_slots' = free_slots
      BY <1>2 DEF PopFreeNode, PoolAfterPop
    <2>2. n = 0
      BY <1>2, EmptySeq
    <2>3. Freed = {} /\ Freed' = {}
      BY <1>1, <2>1, <2>2 DEF Freed
    <2> QED
      BY <1>0, <1>1, <2>1, <2>2, <2>3 DEF Live, FreedOnce, Positions, TypeOK
  <1>3. CASE free_slots # <<>>
    <2>1. n \in Nat \ {0}
      BY <1>3, EmptySeq DEF TypeOK
    <2>2. /\ PopFreeNode = free_slots[n] /\ item_horizon' = item_horizon
          /\ free_slots' = SubSeq(free_slots, 1, n - 1)
      BY <1>3 DEF PopFreeNode, PoolAfterPop
    <2>3. /\ free_slots' \in Seq(Positions) /\ Len(free_slots') = n - 1
          /\ \A i \in 1 .. n - 1 : free_slots'[i] = free_slots[i]
      BY <1>1, <2>1, <2>2, SubSeqProperties
    <2>4. DOMAIN free_slots' = 1 .. n - 1
      BY <2>3, LenProperties
    <2> HIDE DEF n
    <2>5. free_slots[n] \in Freed /\ free_slots[n] < item_horizon
      BY <1>1, <2>1 DEF Freed, FreedOnce
    <2>6. \A i \in 1 .. n - 1 : free_slots[i] # free_slots[n]
      BY <1>1, <2>1 DEF FreedOnce
    <2>7. Freed' = Freed \ {free_slots[n]}
      BY <1>1, <2>1, <2>3, <2>4, <2>6 DEF Freed
    <2>8. FreedOnce'
      BY <1>1, <2>1, <2>2, <2>3, <2>4 DEF FreedOnce
    <2> QED
      BY <1>0, <2>2, <2>5, <2>7, <2>8 DEF Live
  <1> QED
    BY <1>2, <1>3

(* What a pointer holds when the array is nodes.                           *)
DerefIn(nodes, loc) ==
  IF loc.at = "head" THEN hash_head[loc.of]
  ELSE IF loc.at = "left" THEN nodes[loc.of].left ELSE nodes[loc.of].right

(* A write through a pointer changes what that one pointer holds.          *)
LEMMA DerefAfterStore ==
  ASSUME TypeOK,
         NEW nodes \in [Positions -> Node],
         NEW ptr, ValidLocation(ptr),
         NEW v \in Pointer,
         Store(nodes, ptr, v),
         NEW loc, ValidLocation(loc)
  PROVE  Deref(loc)' = IF loc = ptr THEN v ELSE DerefIn(nodes, loc)
  <1>0. loc.at \in {"head", "left", "right"} /\ ptr.at \in {"head", "left", "right"}
        /\ (loc = ptr <=> loc.at = ptr.at /\ loc.of = ptr.of)
    BY DEF ValidLocation, Location
  <1>1. CASE ptr.at = "head"
    <2>1. hash_head' = [hash_head EXCEPT ![ptr.of] = v] /\ item' = nodes
      BY <1>1 DEF Store
    <2> QED
      BY <1>0, <1>1, <2>1 DEF Deref, DerefIn, ValidLocation, TypeOK
  <1>2. CASE ptr.at = "left"
    <2>1. hash_head' = hash_head /\ item' = [nodes EXCEPT ![ptr.of].left = v]
      BY <1>2 DEF Store
    <2>2. \A n \in Positions :
            /\ item'[n].left = IF n = ptr.of THEN v ELSE nodes[n].left
            /\ item'[n].right = nodes[n].right
      BY <2>1 DEF Node
    <2> QED
      BY <1>0, <1>2, <2>1, <2>2 DEF Deref, DerefIn, ValidLocation
  <1>3. CASE ptr.at = "right"
    <2>1. hash_head' = hash_head /\ item' = [nodes EXCEPT ![ptr.of].right = v]
      BY <1>3 DEF Store
    <2>2. \A n \in Positions :
            /\ item'[n].right = IF n = ptr.of THEN v ELSE nodes[n].right
            /\ item'[n].left = nodes[n].left
      BY <2>1 DEF Node
    <2> QED
      BY <1>0, <1>3, <2>1, <2>2 DEF Deref, DerefIn, ValidLocation
  <1> QED
    BY <1>0, <1>1, <1>2, <1>3

(* A location that matters is a valid one.                                 *)
LEMMA LocationValid ==
  ASSUME TypeOK, NEW loc \in Locations
  PROVE  ValidLocation(loc) /\ (loc.at # "head" => loc.of \in Live)
  BY IndexAssumption DEF TypeOK, Locations, ValidLocation, Location, Live, Positions

(* What BSTInsert leaves of the pointers that matter: a fresh position is  *)
(* live, has null children, and hangs from the pointer the walk ended at.  *)
LEMMA LinkEffect ==
  ASSUME PoolInv, InsertLink
  PROVE  /\ FreedOnce'
         /\ Locations \subseteq Locations'
         /\ \E f \in Positions \ Live :
              /\ Live' = Live \cup {f}
              /\ \A loc \in Locations' :
                   Deref(loc)' = IF loc = pre_node_ptr THEN f
                                 ELSE IF loc \in Locations THEN Deref(loc) ELSE OffsetFeb31
  <1> DEFINE f == PopFreeNode
             nodes == [item EXCEPT ![f] = new]
  <1>1. /\ TypeOK /\ FreedOnce /\ NoDangling /\ NoSharing
        /\ pre_node_ptr \in Locations
        /\ new.left = OffsetFeb31 /\ new.right = OffsetFeb31
    BY DEF PoolInv, PoolSafe, TypeInv, InsertLink, Link
  <1>2. /\ f \in Positions /\ f \notin Live /\ Live' = Live \cup {f} /\ FreedOnce'
    BY <1>1, PopFreshNode DEF InsertLink, Link
  <1>3. nodes \in [Positions -> Node] /\ f \in Pointer
        /\ Store(nodes, pre_node_ptr, f) /\ hash_head_size' = hash_head_size
    BY <1>1, <1>2 DEF TypeOK, Pointer, InsertLink, Link, Store
  <1>4. \A n \in Positions : nodes[n] = IF n = f THEN new ELSE item[n]
    BY <1>1, <1>2 DEF TypeOK
  <1> HIDE DEF f, nodes
  <1>5. Locations' = Locations \cup [at : {"left", "right"}, of : {f}]
    BY <1>2, <1>3 DEF Locations
  <1>6. \A loc \in Locations' :
          Deref(loc)' = IF loc = pre_node_ptr THEN f
                        ELSE IF loc \in Locations THEN Deref(loc) ELSE OffsetFeb31
    <2> SUFFICES ASSUME NEW loc \in Locations'
                 PROVE  Deref(loc)' = IF loc = pre_node_ptr THEN f
                          ELSE IF loc \in Locations THEN Deref(loc) ELSE OffsetFeb31
      OBVIOUS
    <2>1. ValidLocation(pre_node_ptr)
      BY <1>1, LocationValid
    <2>2. CASE loc \in Locations
      <3>1. ValidLocation(loc) /\ (loc.at # "head" => loc.of \in Live)
        BY <1>1, <2>2, LocationValid
      <3>2. DerefIn(nodes, loc) = Deref(loc)
        BY <1>2, <1>4, <3>1 DEF DerefIn, Deref, Live
      <3> QED
        BY <1>1, <1>3, <2>1, <2>2, <3>1, <3>2, DerefAfterStore
    <2>3. CASE loc \notin Locations
      <3>1. loc.at \in {"left", "right"} /\ loc.of = f /\ loc \in Location
        BY <1>2, <1>5, <2>3, IndexAssumption DEF Location, Positions
      <3>2. ValidLocation(loc)
        BY <1>2, <3>1 DEF ValidLocation
      <3>3. DerefIn(nodes, loc) = OffsetFeb31
        BY <1>1, <1>2, <1>4, <3>1 DEF DerefIn
      <3> QED
        BY <1>1, <1>3, <2>1, <2>3, <3>2, <3>3, DerefAfterStore
    <2> QED
      BY <2>2, <2>3
  <1> QED
    BY <1>2, <1>5, <1>6

(* Inserting a node with a fresh position keeps the pool and the trees     *)
(* apart.                                                                  *)
LEMMA LinkKeepsPool ==
  ASSUME PoolInv, InsertLink
  PROVE  PoolSafe'
  <1>1. NoDangling /\ NoSharing /\ FreedOnce' /\ pre_node_ptr \in Locations
    BY LinkEffect DEF PoolInv, PoolSafe, InsertLink, Link
  <1>2. PICK f \in Positions \ Live :
          /\ Live' = Live \cup {f}
          /\ \A loc \in Locations' :
               Deref(loc)' = IF loc = pre_node_ptr THEN f
                             ELSE IF loc \in Locations THEN Deref(loc) ELSE OffsetFeb31
    BY LinkEffect
  <1>3. NoDangling'
    BY <1>1, <1>2 DEF NoDangling
  <1>4. NoSharing'
    BY <1>1, <1>2, NullFacts DEF NoDangling, NoSharing
  <1> QED
    BY <1>1, <1>3, <1>4 DEF PoolSafe

(* Stacking a live position takes it out of the live ones and nothing else.*)
LEMMA PushLiveNode ==
  ASSUME TypeOK, FreedOnce, NEW n \in Live,
         free_slots' = Append(free_slots, n), item_horizon' = item_horizon
  PROVE  Live' = Live \ {n} /\ FreedOnce'
  <1> DEFINE m == Len(free_slots)
  <1>1. /\ m \in Nat /\ DOMAIN free_slots = 1 .. m
        /\ \A i \in 1 .. m : free_slots[i] \in Positions
    BY LenProperties, ElementOfSeq DEF TypeOK
  <1>2. n \in Positions /\ n < item_horizon /\ n \notin Freed
    BY DEF Live
  <1>3. /\ free_slots' \in Seq(Positions) /\ Len(free_slots') = m + 1
        /\ \A i \in 1 .. m + 1 : free_slots'[i] = IF i <= m THEN free_slots[i] ELSE n
    BY <1>1, <1>2, AppendProperties DEF TypeOK
  <1>4. DOMAIN free_slots' = 1 .. m + 1
    BY <1>3, LenProperties
  <1> HIDE DEF m
  <1>5. Freed' = Freed \cup {n}
    BY <1>1, <1>3, <1>4 DEF Freed
  <1>6. \A i \in 1 .. m : free_slots[i] # n
    BY <1>1, <1>2 DEF Freed
  <1>7. FreedOnce'
    BY <1>1, <1>2, <1>3, <1>4, <1>6 DEF FreedOnce
  <1> QED
    BY <1>5, <1>7 DEF Live

(* What BSTDelete leaves of the pointers that matter: those of the removed *)
(* node are gone, and the one that held it holds its only child, if any.   *)
LEMMA UnlinkEffect ==
  ASSUME PoolInv, DeleteUnlink
  PROVE  /\ node_id \in Live /\ node_id \in Positions
         /\ Live' = Live \ {node_id} /\ FreedOnce'
         /\ Locations' = {loc \in Locations : loc.at = "head" \/ loc.of # node_id}
         /\ \E child \in Pointer :
              /\ child # OffsetFeb31 =>
                   \E side \in {"left", "right"} :
                     /\ Deref([at |-> side, of |-> node_id]) = child
                     /\ \A other \in {"left", "right"} \ {side} :
                          Deref([at |-> other, of |-> node_id]) = OffsetFeb31
              /\ child = OffsetFeb31 =>
                   \A side \in {"left", "right"} :
                     Deref([at |-> side, of |-> node_id]) = OffsetFeb31
              /\ \A loc \in Locations' :
                   Deref(loc)' = IF loc = pre_node_ptr THEN child ELSE Deref(loc)
  <1> DEFINE child == IF item[node_id].left # OffsetFeb31
                        THEN item[node_id].left ELSE item[node_id].right
             nodes == [item EXCEPT ![node_id].key = OffsetFeb31]
  <1>1. /\ TypeOK /\ FreedOnce /\ NoDangling /\ node_id # OffsetFeb31
        /\ pre_node_ptr \in Locations /\ Deref(pre_node_ptr) = node_id
    BY DEF PoolInv, PoolSafe, TypeInv, DeleteUnlink, OnlyChild, PushFreeNode, Hit
  <1>2. node_id \in Live /\ node_id \in Positions
    BY <1>1 DEF NoDangling, Live
  <1>3. Live' = Live \ {node_id} /\ FreedOnce'
    BY <1>1, <1>2, PushLiveNode DEF DeleteUnlink, OnlyChild, PushFreeNode
  <1>4. child \in Pointer
    BY <1>1, <1>2 DEF TypeOK, Node
  <1>5. /\ nodes \in [Positions -> Node]
        /\ \A n \in Positions : nodes[n].left = item[n].left /\ nodes[n].right = item[n].right
    BY <1>1, <1>2 DEF TypeOK, Node, NodeKeys
  <1>6. Store(nodes, pre_node_ptr, child) /\ hash_head_size' = hash_head_size
    BY DEF DeleteUnlink, OnlyChild, PushFreeNode, Store
  <1>7. Locations' = {loc \in Locations : loc.at = "head" \/ loc.of # node_id}
    BY <1>3, <1>6 DEF Locations
  <1>8. \/ item[node_id].left = OffsetFeb31 \/ item[node_id].right = OffsetFeb31
    BY DEF DeleteUnlink, OnlyChild, PushFreeNode
  <1>9. /\ Deref([at |-> "left", of |-> node_id]) = item[node_id].left
        /\ Deref([at |-> "right", of |-> node_id]) = item[node_id].right
    BY DEF Deref
  <1>10. child # OffsetFeb31 =>
           \E side \in {"left", "right"} :
             /\ Deref([at |-> side, of |-> node_id]) = child
             /\ \A other \in {"left", "right"} \ {side} :
                  Deref([at |-> other, of |-> node_id]) = OffsetFeb31
    BY <1>8, <1>9
  <1>11. child = OffsetFeb31 =>
           \A side \in {"left", "right"} :
             Deref([at |-> side, of |-> node_id]) = OffsetFeb31
    BY <1>8, <1>9
  <1> HIDE DEF child, nodes
  <1>12. ASSUME NEW loc \in Locations'
         PROVE  Deref(loc)' = IF loc = pre_node_ptr THEN child ELSE Deref(loc)
    <2>1. loc \in Locations
      BY <1>7
    <2>2. ValidLocation(loc) /\ ValidLocation(pre_node_ptr)
      BY <1>1, <2>1, LocationValid
    <2>3. DerefIn(nodes, loc) = Deref(loc)
      BY <1>5, <2>2 DEF DerefIn, Deref, ValidLocation
    <2> QED
      BY <1>1, <1>4, <1>5, <1>6, <2>2, <2>3, DerefAfterStore
  <1> QED
    BY <1>2, <1>3, <1>4, <1>7, <1>10, <1>11, <1>12

(* Removing a node with at most one child keeps the pool and the trees     *)
(* apart.                                                                  *)
LEMMA UnlinkKeepsPool ==
  ASSUME PoolInv, DeleteUnlink
  PROVE  PoolSafe'
  <1>1. /\ NoDangling /\ NoSharing /\ node_id # OffsetFeb31
        /\ pre_node_ptr \in Locations /\ Deref(pre_node_ptr) = node_id
    BY DEF PoolInv, PoolSafe, DeleteUnlink, OnlyChild, PushFreeNode, Hit
  <1>2. /\ node_id \in Live
        /\ Live' = Live \ {node_id} /\ FreedOnce'
        /\ Locations' = {loc \in Locations : loc.at = "head" \/ loc.of # node_id}
    BY UnlinkEffect
  <1>3. PICK child \in Pointer :
          /\ child # OffsetFeb31 =>
               \E side \in {"left", "right"} : Deref([at |-> side, of |-> node_id]) = child
          /\ \A loc \in Locations' :
               Deref(loc)' = IF loc = pre_node_ptr THEN child ELSE Deref(loc)
    BY UnlinkEffect
  <1>4. \A loc \in Locations' : loc # pre_node_ptr => Deref(loc)' # node_id
    BY <1>1, <1>2, <1>3 DEF NoSharing
  <1>5. ASSUME child # OffsetFeb31
        PROVE  \E own \in Locations \ Locations' : Deref(own) = child
    <2>1. PICK side \in {"left", "right"} : Deref([at |-> side, of |-> node_id]) = child
      BY <1>3, <1>5
    <2>2. [at |-> side, of |-> node_id] \in Locations
      BY <1>2 DEF Locations
    <2> QED
      BY <1>2, <2>1, <2>2
  <1>6. pre_node_ptr \in Locations' /\ child # OffsetFeb31 => child \in Live'
    BY <1>1, <1>2, <1>5 DEF NoDangling, NoSharing
  <1>7. NoDangling'
    BY <1>1, <1>2, <1>3, <1>4, <1>6 DEF NoDangling
  <1>8. NoSharing'
    BY <1>1, <1>2, <1>3, <1>5 DEF NoSharing
  <1> QED
    BY <1>2, <1>7, <1>8 DEF PoolSafe

(* The walk only ever follows pointers that matter.                        *)
LEMMA WalkKeepsCursor ==
  ASSUME PoolInv, WalkLeft \/ WalkRight
  PROVE  pre_node_ptr' \in Locations' /\ Deref(pre_node_ptr)' = node_id'
  <1>1. node_id \in Live
    BY DEF PoolInv, PoolSafe, NoDangling, WalkLeft, WalkRight, Miss
  <1>2. Locations' = Locations
    BY DEF WalkLeft, WalkRight, heads, pool, Locations, Live, Freed
  <1>3. /\ [at |-> "left", of |-> node_id] \in Locations
        /\ [at |-> "right", of |-> node_id] \in Locations
    BY <1>1 DEF Locations
  <1> QED
    BY <1>2, <1>3 DEF WalkLeft, WalkRight, heads, Deref

(* A call starts its walk at the root of a bucket.                         *)
LEMMA CallKeepsCursor ==
  ASSUME TypeOK, NEW o, NEW c, NEW n, n.key \in NodeKeys, Call(o, c, n)
  PROVE  pre_node_ptr' \in Locations' /\ Deref(pre_node_ptr)' = node_id'
  <1>1. Locations' = Locations
    BY DEF Call, heads, pool, Locations, Live, Freed
  <1>2. /\ GetHTId(n.key) \in 0 .. hash_head_size - 1
        /\ Root(n.key) \in Location
        /\ Root(n.key).at = "head" /\ Root(n.key).of = GetHTId(n.key)
    BY RootIsHead
  <1>3. Root(n.key) \in Locations
    BY <1>2 DEF Root, Locations
  <1> QED
    BY <1>1, <1>2, <1>3 DEF Call, StartWalk, heads, Deref

(* The invariant holds at first ...                                        *)
LEMMA PoolInit == Init => PoolInv
  <1> SUFFICES ASSUME Init PROVE PoolInv
    OBVIOUS
  <1>1. TypeInv
    BY TypeInit
  <1>2. DOMAIN free_slots = {}
    BY DEF Init
  <1>3. Freed = {} /\ Live = {}
    BY <1>2 DEF Freed, Live, Init, Positions
  <1>4. \A loc \in Locations : loc.at = "head" /\ Deref(loc) = OffsetFeb31
    BY <1>3 DEF Locations, Deref, Init
  <1> QED
    BY <1>1, <1>2, <1>4 DEF PoolInv, PoolSafe, FreedOnce, NoDangling, NoSharing, Init

(* ... and is kept by every step of a program that calls Load only before. *)
LEMMA PoolStep ==
  ASSUME "load" \notin Ops
  PROVE  PoolInv /\ [Next]_vars => PoolInv'
  <1> SUFFICES ASSUME PoolInv, [Next]_vars PROVE PoolInv'
    OBVIOUS
  <1>0. TypeOK /\ TypeInv /\ TypeInv' /\ PoolSafe /\ op # "load" /\ pc # "load"
    BY TypeStep DEF PoolInv, TypeInv
  <1>1. ASSUME NEW k \in Keys, NEW c \in BOOLEAN, NEW p \in Places \cup {NoPlace},
               NEW o \in {"search", "insert", "delete"},
               Call(o, c, FillItem(k, p))
        PROVE  PoolInv'
    <2>1. FillItem(k, p).key \in NodeKeys
      BY DEF FillItem, NodeKeys
    <2>2. pre_node_ptr' \in Locations' /\ Deref(pre_node_ptr)' = node_id'
      BY <1>0, <1>1, <2>1, CallKeepsCursor
    <2>3. new' = FillItem(k, p) /\ op' = o /\ pc' = "walk"
      BY <1>1 DEF Call, Enter, StartWalk
    <2>4. PoolSafe'
      BY <1>0, <1>1, PoolUnchanged DEF Call
    <2> QED
      BY <1>0, <2>2, <2>3, <2>4 DEF PoolInv, FillItem
  <1>2. CASE WalkLeft \/ WalkRight
    <2>1. PoolSafe'
      BY <1>0, <1>2, PoolUnchanged DEF WalkLeft, WalkRight
    <2> QED
      BY <1>0, <1>2, <2>1, WalkKeepsCursor DEF WalkLeft, WalkRight, call, PoolInv
  <1>3. CASE InsertLink
    BY <1>0, <1>3, LinkKeepsPool DEF InsertLink, Return, Leave, PoolInv
  <1>4. CASE DeleteUnlink
    BY <1>0, <1>4, UnlinkKeepsPool DEF DeleteUnlink, OnlyChild, PushFreeNode, Return, Leave, PoolInv
  <1>5. CASE SearchEnd \/ InsertExist \/ DeleteMiss \/ InsertFull \/ NearestNull
    <2>1. PoolSafe'
      BY <1>0, <1>5, PoolUnchanged
      DEF SearchEnd, InsertExist, DeleteMiss, InsertFull, NearestNull, Crash
    <2>2. pc' \in {"idle", "halted"} /\ op' = "none"
      BY <1>5 DEF SearchEnd, InsertExist, DeleteMiss, InsertFull, NearestNull,
                  Crash, Return, Leave
    <2> QED
      BY <1>0, <2>1, <2>2 DEF PoolInv
  <1>6. CASE DeleteTwo \/ NearestStep
    <2>1. PoolSafe'
      BY <1>0, <1>6, PoolUnchanged DEF DeleteTwo, NearestStep
    <2> QED
      BY <1>0, <1>6, <2>1 DEF DeleteTwo, NearestStep, call, PoolInv
  <1>7. ~CallLoad /\ ~LoadItem /\ ~LoadLink /\ ~LoadEnd
    BY <1>0 DEF CallLoad, StartLoad, Enter, LoadItem, LoadLink, LoadEnd
  <1>8. CASE WrongLength \/ UNCHANGED vars
    <2>1. PoolSafe'
      BY <1>0, <1>8, PoolUnchanged DEF WrongLength, vars
    <2> QED
      BY <1>0, <1>8, <2>1 DEF WrongLength, vars, heads, pool, call, cursor, PoolInv,
         Locations, Live, Freed, Deref
  <1>9. CASE CallSearch \/ CallInsert \/ CallDelete
    BY <1>1, <1>9, IndexAssumption DEF CallSearch, CallInsert, CallDelete
  <1> QED
    BY <1>2, <1>3, <1>4, <1>5, <1>6, <1>7, <1>8, <1>9 DEF Next, Caller, Handler

(* Between loads no node is handed out twice, no pointer leads to a freed  *)
(* node and no two pointers lead to one node, whatever the order of        *)
(* inserts (overwriting or not), deletes and searches, and whether or not  *)
(* the pool has run out (index.cc:102-180, 225-251).                       *)
THEOREM PoolCorrect ==
  ASSUME "load" \notin Ops
  PROVE  Spec => []PoolSafe
  <1>1. PoolInv => PoolSafe
    BY DEF PoolInv
  <1> QED
    BY <1>1, PoolInit, PoolStep, PTL DEF Spec

(* PushFreeNode never writes past the array of free slots (index.cc:250),  *)
(* because a position is stacked at most once.                             *)
THEOREM FreeSlotsBounded ==
  ASSUME "load" \notin Ops
  PROVE  Spec => []FreeSlotsFit
  <1>1. PoolInv => FreeSlotsFit
    <2> SUFFICES ASSUME PoolInv PROVE FreeSlotsFit
      OBVIOUS
    <2> DEFINE n == Len(free_slots)
    <2>1. n \in Nat /\ DOMAIN free_slots = 1 .. n /\ free_slots \in [1 .. n -> Positions]
      BY LenProperties DEF PoolInv, TypeInv, TypeOK
    <2>2. free_slots \in Injection(1 .. n, Positions)
      BY <2>1 DEF PoolInv, PoolSafe, FreedOnce, Injection, IsInjective
    <2>3. IsFiniteSet(Positions) /\ Cardinality(Positions) = NumItems
      BY FS_Interval, IndexAssumption DEF Positions
    <2>4. Cardinality(1 .. n) = n
      BY <2>1, FS_Interval
    <2> QED
      BY <2>2, <2>3, <2>4, FS_Injection DEF FreeSlotsFit
  <1> QED
    BY <1>1, PoolInit, PoolStep, PTL DEF Spec

------------------------------------------------------------------------------
(* No node is lost.  An overwriting insert does lose nodes, so the caller  *)
(* is one that never overwrites (PutOptions' default).                     *)

LeakInv == PoolInv /\ NoLeak /\ cover = FALSE

(* A linked node hangs from the pointer that held null; the others keep    *)
(* their pointers.                                                         *)
LEMMA LinkKeepsOwners ==
  ASSUME LeakInv, InsertLink
  PROVE  NoLeak'
  <1>1. /\ TypeOK /\ FreedOnce /\ NoLeak /\ pre_node_ptr \in Locations
        /\ Deref(pre_node_ptr) = OffsetFeb31
        /\ new.left = OffsetFeb31 /\ new.right = OffsetFeb31
    BY DEF LeakInv, PoolInv, PoolSafe, TypeInv, InsertLink, Link, Miss
  <1>2. \E f \in Positions :
          /\ Live' = Live \cup {f}
          /\ Locations \subseteq Locations'
          /\ \A loc \in Locations :
               Deref(loc)' = IF loc = pre_node_ptr THEN f ELSE Deref(loc)
    BY LinkEffect DEF LeakInv
  <1> QED
    BY <1>1, <1>2, NullFacts DEF NoLeak, Live

(* The child of a removed node takes its place.                            *)
LEMMA UnlinkKeepsOwners ==
  ASSUME LeakInv, DeleteUnlink
  PROVE  NoLeak'
  <1>1. /\ NoLeak /\ node_id # OffsetFeb31
        /\ pre_node_ptr \in Locations /\ Deref(pre_node_ptr) = node_id
    BY DEF LeakInv, PoolInv, DeleteUnlink, OnlyChild, PushFreeNode, Hit
  <1>2. /\ Live' = Live \ {node_id}
        /\ Locations' = {loc \in Locations : loc.at = "head" \/ loc.of # node_id}
    BY UnlinkEffect DEF LeakInv
  <1>3. PICK child \in Pointer :
          /\ child # OffsetFeb31 =>
               \E side \in {"left", "right"} :
                 /\ Deref([at |-> side, of |-> node_id]) = child
                 /\ \A other \in {"left", "right"} \ {side} :
                      Deref([at |-> other, of |-> node_id]) = OffsetFeb31
          /\ child = OffsetFeb31 =>
               \A side \in {"left", "right"} :
                 Deref([at |-> side, of |-> node_id]) = OffsetFeb31
          /\ \A loc \in Locations' :
               Deref(loc)' = IF loc = pre_node_ptr THEN child ELSE Deref(loc)
    BY UnlinkEffect DEF LeakInv
  <1> SUFFICES ASSUME NEW n \in Live' PROVE \E loc \in Locations' : Deref(loc)' = n
    BY DEF NoLeak
  <1>4. n \in Live /\ n # node_id /\ n # OffsetFeb31
    BY <1>2, NullFacts DEF Live
  <1>5. PICK own \in Locations : Deref(own) = n
    BY <1>1, <1>4 DEF NoLeak
  <1>6. CASE own \in Locations'
    BY <1>1, <1>3, <1>4, <1>5, <1>6
  <1>7. CASE own \notin Locations'
    <2>1. own.at \in {"left", "right"} /\ own = [at |-> own.at, of |-> node_id]
      BY <1>2, <1>5, <1>7 DEF Locations
    <2>2. child = n
      BY <1>3, <1>4, <1>5, <2>1
    <2>3. \A loc \in Locations \ Locations' : Deref(loc) \in {n, OffsetFeb31}
      <3> SUFFICES ASSUME NEW loc \in Locations \ Locations'
                   PROVE  Deref(loc) \in {n, OffsetFeb31}
        OBVIOUS
      <3>1. loc.at \in {"left", "right"} /\ loc = [at |-> loc.at, of |-> node_id]
        BY <1>2 DEF Locations
      <3> QED
        BY <1>3, <1>4, <2>2, <3>1
    <2>4. pre_node_ptr \in Locations'
      BY <1>1, <1>4, <2>3
    <2> QED
      BY <1>3, <2>2, <2>4
  <1> QED
    BY <1>6, <1>7

(* Every step of a caller that neither overwrites nor loads.               *)
LEMMA LeakStep ==
  ASSUME "load" \notin Ops, Covers \subseteq {FALSE}
  PROVE  LeakInv /\ [Next]_vars => LeakInv'
  <1> SUFFICES ASSUME LeakInv, [Next]_vars PROVE LeakInv'
    OBVIOUS
  <1>0. PoolInv /\ PoolInv' /\ NoLeak
    BY PoolStep DEF LeakInv
  <1>1. cover' = FALSE
    BY <1>0 DEF LeakInv, PoolInv, Next, Caller, Handler, vars, call, CallSearch,
       CallInsert, CallDelete, WrongLength, CallLoad, StartLoad, Call, Enter, WalkLeft, WalkRight,
       SearchEnd, InsertExist, InsertLink, InsertFull, DeleteMiss, DeleteUnlink,
       DeleteTwo, NearestStep, NearestNull, LoadItem, LoadLink, LoadEnd, Crash,
       Return, Leave
  <1>2. CASE InsertLink
    BY <1>0, <1>1, <1>2, LinkKeepsOwners DEF LeakInv
  <1>3. CASE DeleteUnlink
    BY <1>0, <1>1, <1>3, UnlinkKeepsOwners DEF LeakInv
  <1>4. CASE ~InsertLink /\ ~DeleteUnlink
    <2>1. UNCHANGED <<item, heads, pool>>
      BY <1>0, <1>4 DEF PoolInv, Next, Caller, Handler, vars, CallSearch,
         CallInsert, CallDelete, WrongLength, CallLoad, StartLoad, Call, Enter, WalkLeft, WalkRight,
         SearchEnd, InsertExist, InsertFull, DeleteMiss, DeleteTwo, NearestStep,
         NearestNull, LoadItem, LoadLink, LoadEnd, Crash
    <2>2. NoLeak'
      BY <1>0, <2>1 DEF NoLeak, Locations, Live, Freed, Deref, heads, pool
    <2> QED
      BY <1>0, <1>1, <2>2 DEF LeakInv
  <1> QED
    BY <1>2, <1>3, <1>4

(* Between loads, and without overwriting inserts, every node that was     *)
(* handed out is either stacked as free or hangs from a pointer: the index *)
(* is full only when it holds item_num_ nodes (index.cc:225-236).          *)
THEOREM NothingLeaks ==
  ASSUME "load" \notin Ops, Covers \subseteq {FALSE}
  PROVE  Spec => []NoLeak
  <1>1. Init => LeakInv
    <2>1. Init => Live = {}
      <3> SUFFICES ASSUME Init PROVE Live = {}
        OBVIOUS
      <3> QED
        BY DEF Init, Live, Positions
    <2> QED
      BY <2>1, PoolInit DEF LeakInv, NoLeak, Init
  <1>2. LeakInv => NoLeak
    BY DEF LeakInv
  <1> QED
    BY <1>1, <1>2, LeakStep, PTL DEF Spec
=============================================================================
