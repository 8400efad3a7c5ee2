---------------------------- MODULE LegacyProofs ----------------------------
(***************************************************************************)
(* Proofs about the older engine: that a search never leaves the pool, and *)
(* that what it finds is a record of the key asked for, with saves that    *)
(* may be cut short at any write.                                          *)
(***************************************************************************)
EXTENDS LegacyProps, NatLemmas, SequenceTheorems

------------------------------------------------------------------------------
(* The invariants *)

(* An index in memory, with the parts the type of LegacyProps leaves open. *)
IndexRecord ==
  [hash_head : [Heads -> Ids \cup {NotExist, Junk}],
   node_pool : [Ids -> Node \cup {Junk}],
   horizon : 0 .. PoolSize, free_count : 0 .. FreeRoom,
   free_pool : [1 .. FreeRoom -> Ids \cup {Junk}],
   is_change : BOOLEAN]
IndexFile ==
  [head : [horizon : 0 .. PoolSize, free_count : 0 .. FreeRoom] \cup {Junk},
   node_pool : [Ids -> Node \cup {Junk}],
   hash_head : [Heads -> Ids \cup {NotExist, Junk}],
   free_pool : [1 .. FreeRoom -> Ids \cup {Junk}]]
DataFile ==
  [head : (1 .. MaxData + 1) \cup {Junk}, items : [1 .. MaxData -> Record \cup {Junk}]]

(* The nodes of a pool that were ever written.                             *)
Written(pool) == {id \in Ids : pool[id] # Junk}

(* A node's children were written before it named them, also in the file,  *)
(* where one write saves the whole pool.                                   *)
KnowsChildren(pool) ==
  \A id \in Written(pool) :
    /\ pool[id].left_id \in Written(pool) \cup {NotExist}
    /\ pool[id].right_id \in Written(pool) \cup {NotExist}

(* What a kv_open with CREATE and the exits have left to write.            *)
CreateLeft ==
  {<<"head", "pool", "heads", "free", "data">>, <<"pool", "heads", "free", "data">>,
   <<"heads", "free", "data">>, <<"free", "data">>, <<"data">>, <<>>}
ExitLeft ==
  {<<"head", "pool", "heads", "free", "data">>, <<"pool", "heads", "free", "data">>,
   <<"heads", "free", "data">>, <<"free", "data">>, <<"data">>,
   <<"data", "head", "pool", "heads", "free">>,
   <<"head", "pool", "heads", "free">>, <<"pool", "heads", "free">>,
   <<"heads", "free">>, <<"free">>, <<>>}
PoolWritten == {<<"heads", "free", "data">>, <<"free", "data">>, <<"data">>, <<>>}
EndWritten ==
  {<<"head", "pool", "heads", "free">>, <<"pool", "heads", "free">>, <<"heads", "free">>,
   <<"free">>, <<>>}
TodoInv ==
  /\ pc \in {"down", "up"} => todo = <<>>
  /\ pc = "create" => todo \in CreateLeft
  /\ pc = "exit" => todo \in ExitLeft

LegacyTypeInv ==
  /\ LegacyTypeOK /\ TodoInv
  /\ idx \in IndexRecord /\ idx_file \in IndexFile /\ data_file \in DataFile
  /\ KnowsChildren(idx.node_pool) /\ KnowsChildren(idx_file.node_pool)

(* Every node of a pool, in use or not, has its own record below a limit.  *)
HasOwn(n, limit) ==
  n.value_offset < limit /\ data_file.items[n.value_offset] \in [sign : {n.key_sign}, value : Values]
OwnBelow(pool, limit) == \A id \in Written(pool) : HasOwn(pool[id], limit)

(* Where the next record will go, or would after a load.                   *)
EndOfData == IF pc = "exit" THEN append ELSE data_file.head

(* The index file names no record behind the end the data file's header    *)
(* has, or will have once the exits are done, and that end is never ahead  *)
(* of the one in memory: a record that a saved index may name is not       *)
(* written again.                                                          *)
OwnInv ==
  /\ ~behind => OwnBelow(idx.node_pool, append)
  /\ ~behind /\ pc # "halted" /\ Written(idx_file.node_pool) # {} =>
       data_file.head # Junk /\ OwnBelow(idx_file.node_pool, EndOfData)
  /\ pc \in {"up", "exit"} => data_file.head # Junk /\ data_file.head <= append
  /\ pc = "exit" /\ todo \in EndWritten => data_file.head = append
  /\ pc = "create" => idx = NoIndex /\ append = FirstOffset
  /\ pc = "create" /\ todo \in PoolWritten => Written(idx_file.node_pool) = {}
  /\ pc = "create" /\ todo = <<>> => data_file.head = append

------------------------------------------------------------------------------
(* Where the loops of the trees get to *)

(* NotExist and Junk are no positions.                                     *)
LEMMA LegacyFacts ==
  /\ PoolSize \in Nat /\ FreeRoom \in Nat /\ MaxData \in Nat
  /\ NotExist \notin Ids /\ Junk \notin Ids /\ Junk # NotExist
  /\ Junk \notin Nat /\ Junk \notin Node /\ 0 \in Ids
  BY LegacyAssumption DEF Ids, NotExist

(* The head of a sign's tree is one of the heads.                          *)
LEMMA HeadOfIsPointer ==
  ASSUME NEW s \in Signs
  PROVE  HeadOf(s) \in Pointers /\ HeadOf(s).at = "head"
  <1>1. s \in Nat /\ HeadSize \in Nat \ {0}
    BY LegacyAssumption
  <1>2. s % HeadSize \in Heads
    BY <1>1 DEF Heads
  <1> QED
    BY <1>2 DEF HeadOf, Pointers, Bucket

(* A pointer that is in memory somebody wrote: of a head or of a node.     *)
Rooted(i) == {p \in Pointers : p.at = "head" \/ p.of \in Written(i.node_pool)}
Fine(i) == i \in IndexRecord /\ KnowsChildren(i.node_pool)

(* What such a pointer holds; a node's names no junk.                      *)
LEMMA DerefTyped ==
  ASSUME NEW i, Fine(i), NEW p \in Rooted(i)
  PROVE  /\ Deref(i, p) \in Ids \cup {NotExist, Junk}
         /\ p.at # "head" => Deref(i, p) \in Written(i.node_pool) \cup {NotExist}
         /\ p.at = "head" => p.of \in Heads /\ Deref(i, p) = i.hash_head[p.of]
         /\ p.at = "left" => p.of \in Written(i.node_pool) /\ Deref(i, p) = i.node_pool[p.of].left_id
         /\ p.at = "right" => p.of \in Written(i.node_pool) /\ Deref(i, p) = i.node_pool[p.of].right_id
         /\ p.at \in {"head", "left", "right"}
  <1>1. CASE p.at = "head"
    <2>1. p.of \in Heads /\ Deref(i, p) = i.hash_head[p.of]
      BY <1>1 DEF Deref, Rooted, Pointers
    <2>2. i.hash_head \in [Heads -> Ids \cup {NotExist, Junk}]
      BY DEF Fine, IndexRecord
    <2> QED
      BY <1>1, <2>1, <2>2
  <1>2. CASE p.at = "left"
    <2>1. p.of \in Written(i.node_pool) /\ Deref(i, p) = i.node_pool[p.of].left_id
      BY <1>2 DEF Deref, Rooted
    <2>2. i.node_pool[p.of].left_id \in Written(i.node_pool) \cup {NotExist}
      BY <2>1 DEF Fine, KnowsChildren
    <2> QED
      BY <1>2, <2>1, <2>2 DEF Written
  <1>3. CASE p.at = "right"
    <2>1. p.of \in Written(i.node_pool) /\ Deref(i, p) = i.node_pool[p.of].right_id
      BY <1>3 DEF Deref, Rooted
    <2>2. i.node_pool[p.of].right_id \in Written(i.node_pool) \cup {NotExist}
      BY <2>1 DEF Fine, KnowsChildren
    <2> QED
      BY <1>3, <2>1, <2>2 DEF Written
  <1> QED
    BY <1>1, <1>2, <1>3 DEF Rooted, Pointers

(* A child of a written node is such a pointer.                            *)
LEMMA ChildRooted ==
  ASSUME NEW i, NEW id \in Written(i.node_pool), NEW side \in {"left", "right"}
  PROVE  Child(id, side) \in Rooted(i) /\ Child(id, side).at = side /\ Child(id, side).of = id
  BY DEF Child, Rooted, Pointers, Written

(* A loop that goes from pointer to pointer, as a function of its turns.   *)
IsLoop(a, step, at) ==
  at = CHOOSE f : f = [n \in 0 .. PoolSize |-> IF n = 0 THEN a ELSE step[f[n - 1]]]
(* It exists, and has these values, by induction over the turns.           *)
LEMMA LoopGoes ==
  ASSUME NEW a \in Pointers, NEW step \in [Pointers -> Pointers], NEW at,
         IsLoop(a, step, at)
  PROVE  /\ at \in [0 .. PoolSize -> Pointers]
         /\ at[0] = a
         /\ \A n \in 1 .. PoolSize : at[n] = step[at[n - 1]]
  <1>0. PoolSize \in Nat
    BY LegacyFacts
  <1>1. PICK f \in [0 .. PoolSize -> Pointers] :
          f = [n \in 0 .. PoolSize |-> IF n = 0 THEN a ELSE step[f[n - 1]]]
    BY <1>0, Iterate
  <1>2. at = [n \in 0 .. PoolSize |-> IF n = 0 THEN a ELSE step[at[n - 1]]]
    BY <1>1 DEF IsLoop
  <1>3. at[0] = a /\ \A n \in 1 .. PoolSize : at[n] = step[at[n - 1]]
    <2>1. 0 \in 0 .. PoolSize /\ \A n \in 1 .. PoolSize : n \in 0 .. PoolSize /\ n # 0
      BY <1>0
    <2> QED
      BY <1>2, <2>1
  <1>4. at \in [0 .. PoolSize -> Pointers]
    <2> DEFINE S == {n \in 0 .. PoolSize : at[n] \in Pointers}
    <2>1. 0 \in S
      BY <1>0, <1>3
    <2>2. \A n \in 1 .. PoolSize : n - 1 \in S => n \in S
      BY <1>0, <1>3
    <2>3. 0 .. PoolSize \subseteq S
      <3> HIDE DEF S
      <3> QED
        BY <1>0, <2>1, <2>2, InductionTo
    <2> QED
      BY <1>2, <2>3
  <1> QED
    BY <1>3, <1>4

(* The pointers the loop of search, insert and delete goes through.        *)
Trail(i, s) ==
  LET at[turns \in 0 .. PoolSize] ==
        IF turns = 0 THEN HeadOf(s) ELSE Turn(i, s)[at[turns - 1]]
  IN at

(* They are of heads or of nodes somebody wrote.                           *)
LEMMA TrailIs ==
  ASSUME NEW i, Fine(i), NEW s \in Signs
  PROVE  /\ Trail(i, s) \in [0 .. PoolSize -> Rooted(i)]
         /\ Trail(i, s)[0] = HeadOf(s)
         /\ \A n \in 1 .. PoolSize : Trail(i, s)[n] = Turn(i, s)[Trail(i, s)[n - 1]]
         /\ Where(i, s) = Trail(i, s)[PoolSize]
  <1>1. HeadOf(s) \in Rooted(i) /\ HeadOf(s) \in Pointers
    BY HeadOfIsPointer DEF Rooted
  <1>2. \A p \in Pointers : Turn(i, s)[p] \in Pointers /\ (p \in Rooted(i) => Turn(i, s)[p] \in Rooted(i))
    <2> SUFFICES ASSUME NEW p \in Pointers
                 PROVE  Turn(i, s)[p] \in Pointers /\ (p \in Rooted(i) => Turn(i, s)[p] \in Rooted(i))
      OBVIOUS
    <2>1. CASE IsNode(i, Deref(i, p)) /\ i.node_pool[Deref(i, p)].key_sign # s
      <3>1. Deref(i, p) \in Written(i.node_pool)
        BY <2>1 DEF IsNode, Written
      <3>2. Turn(i, s)[p] = Child(Deref(i, p), Side(i.node_pool[Deref(i, p)].key_sign, s))
        BY <2>1 DEF Turn
      <3> QED
        BY <3>1, <3>2, ChildRooted DEF Side, Rooted
    <2>2. CASE ~(IsNode(i, Deref(i, p)) /\ i.node_pool[Deref(i, p)].key_sign # s)
      BY <2>2 DEF Turn
    <2> QED
      BY <2>1, <2>2
  <1>3. Turn(i, s) \in [Pointers -> Pointers]
    BY <1>2 DEF Turn
  <1>4. IsLoop(HeadOf(s), Turn(i, s), Trail(i, s))
    BY DEF IsLoop, Trail
  <1>5. /\ Trail(i, s) \in [0 .. PoolSize -> Pointers]
        /\ Trail(i, s)[0] = HeadOf(s)
        /\ \A n \in 1 .. PoolSize : Trail(i, s)[n] = Turn(i, s)[Trail(i, s)[n - 1]]
    BY <1>1, <1>3, <1>4, LoopGoes
  <1>6. \A n \in 0 .. PoolSize : Trail(i, s)[n] \in Rooted(i)
    <2> DEFINE S == {n \in 0 .. PoolSize : Trail(i, s)[n] \in Rooted(i)}
    <2>1. PoolSize \in Nat
      BY LegacyFacts
    <2>2. 0 \in S
      BY <1>1, <1>5, <2>1
    <2>3. \A n \in 1 .. PoolSize : n - 1 \in S => n \in S
      BY <1>2, <1>5, <2>1
    <2>4. 0 .. PoolSize \subseteq S
      <3> HIDE DEF S
      <3> QED
        BY <2>1, <2>2, <2>3, InductionTo
    <2> QED
      BY <2>4
  <1>7. Where(i, s) = Trail(i, s)[PoolSize]
    BY DEF Where, Trail
  <1> QED
    BY <1>5, <1>6, <1>7

(* A search ends at a pointer in memory somebody wrote; what it finds is a *)
(* node of the sign, the end of a tree or junk.                            *)
LEMMA FoundIs ==
  ASSUME NEW i, Fine(i), NEW s \in Signs
  PROVE  /\ Where(i, s) \in Rooted(i)
         /\ Found(i, s) \in Ids \cup {NotExist, Junk}
         /\ Found(i, s) \in Ids =>
              /\ Found(i, s) \in Written(i.node_pool) /\ i.node_pool[Found(i, s)].key_sign = s
              /\ Found(i, s) = Deref(i, Where(i, s))
         /\ Found(i, s) = NotExist => Deref(i, Where(i, s)) = NotExist
  <1>1. PoolSize \in 0 .. PoolSize
    BY LegacyFacts
  <1>2. Where(i, s) \in Rooted(i)
    BY <1>1, TrailIs
  <1> QED
    BY <1>2, LegacyFacts DEF Found, IsNode, Written

(* The inner loop of idx_delete, from the right child of a node with two.  *)
NearestTrail(i, id) ==
  LET at[turns \in 0 .. PoolSize] ==
        IF turns = 0 THEN Child(id, "right") ELSE TurnLeft(i)[at[turns - 1]]
  IN at

(* It goes through pointers of nodes that lead to nodes.                   *)
LEMMA NearestTrailIs ==
  ASSUME NEW i, Fine(i), NEW id \in Written(i.node_pool),
         i.node_pool[id].right_id # NotExist
  PROVE  /\ NearestTrail(i, id) \in [0 .. PoolSize -> Rooted(i)]
         /\ NearestTrail(i, id)[0] = Child(id, "right")
         /\ \A n \in 1 .. PoolSize :
              NearestTrail(i, id)[n] = TurnLeft(i)[NearestTrail(i, id)[n - 1]]
         /\ \A n \in 0 .. PoolSize :
              /\ NearestTrail(i, id)[n].at # "head"
              /\ Deref(i, NearestTrail(i, id)[n]) \in Written(i.node_pool)
         /\ Nearest(i, id) = NearestTrail(i, id)[PoolSize]
  <1> DEFINE Good(p) == p \in Rooted(i) /\ p.at # "head" /\ Deref(i, p) \in Written(i.node_pool)
  <1>1. Good(Child(id, "right")) /\ Child(id, "right") \in Pointers
    BY ChildRooted, DerefTyped DEF Rooted
  <1>2. \A p \in Pointers : TurnLeft(i)[p] \in Pointers /\ (Good(p) => Good(TurnLeft(i)[p]))
    <2> SUFFICES ASSUME NEW p \in Pointers
                 PROVE  TurnLeft(i)[p] \in Pointers /\ (Good(p) => Good(TurnLeft(i)[p]))
      OBVIOUS
    <2>1. CASE IsNode(i, Deref(i, p)) /\ i.node_pool[Deref(i, p)].left_id # NotExist
      <3>1. Deref(i, p) \in Written(i.node_pool)
        BY <2>1 DEF IsNode, Written
      <3>2. TurnLeft(i)[p] = Child(Deref(i, p), "left")
        BY <2>1 DEF TurnLeft
      <3>3. TurnLeft(i)[p] \in Rooted(i) /\ TurnLeft(i)[p].at = "left" /\ TurnLeft(i)[p].of = Deref(i, p)
        BY <3>1, <3>2, ChildRooted
      <3>4. Deref(i, TurnLeft(i)[p]) \in Written(i.node_pool)
        BY <2>1, <3>3, DerefTyped
      <3> QED
        BY <3>3, <3>4 DEF Rooted
    <2>2. CASE ~(IsNode(i, Deref(i, p)) /\ i.node_pool[Deref(i, p)].left_id # NotExist)
      BY <2>2 DEF TurnLeft
    <2> QED
      BY <2>1, <2>2
  <1> HIDE DEF Good
  <1>3. TurnLeft(i) \in [Pointers -> Pointers]
    BY <1>2 DEF TurnLeft
  <1>4. IsLoop(Child(id, "right"), TurnLeft(i), NearestTrail(i, id))
    BY DEF IsLoop, NearestTrail
  <1>5. /\ NearestTrail(i, id) \in [0 .. PoolSize -> Pointers]
        /\ NearestTrail(i, id)[0] = Child(id, "right")
        /\ \A n \in 1 .. PoolSize :
             NearestTrail(i, id)[n] = TurnLeft(i)[NearestTrail(i, id)[n - 1]]
    BY <1>1, <1>3, <1>4, LoopGoes
  <1>6. \A n \in 0 .. PoolSize : Good(NearestTrail(i, id)[n])
    <2> DEFINE S == {n \in 0 .. PoolSize : Good(NearestTrail(i, id)[n])}
    <2>1. PoolSize \in Nat
      BY LegacyFacts
    <2>2. 0 \in S
      BY <1>1, <1>5, <2>1
    <2>3. \A n \in 1 .. PoolSize : n - 1 \in S => n \in S
      BY <1>2, <1>5, <2>1
    <2>4. 0 .. PoolSize \subseteq S
      <3> HIDE DEF S
      <3> QED
        BY <2>1, <2>2, <2>3, InductionTo
    <2> QED
      BY <2>4
  <1>7. Nearest(i, id) = NearestTrail(i, id)[PoolSize]
    BY DEF Nearest, NearestTrail
  <1> QED
    BY <1>5, <1>6, <1>7 DEF Good

------------------------------------------------------------------------------
(* What the calls do to the trees *)

(* Two indexes with the same nodes, apart from whom they point to.         *)
SameNodes(i, j) ==
  /\ Written(j.node_pool) = Written(i.node_pool)
  /\ \A id \in Written(i.node_pool) :
       /\ j.node_pool[id].key_sign = i.node_pool[id].key_sign
       /\ j.node_pool[id].value_offset = i.node_pool[id].value_offset
SameList(i, j) ==
  j.horizon = i.horizon /\ j.free_count = i.free_count /\ j.free_pool = i.free_pool

(* Writing to one pointer of an index changes that pointer only.           *)
LEMMA AssignIs ==
  ASSUME NEW i, Fine(i), NEW p \in Rooted(i), NEW id \in Written(i.node_pool) \cup {NotExist}
  PROVE  /\ Fine(Assign(i, p, id))
         /\ SameNodes(i, Assign(i, p, id)) /\ SameList(i, Assign(i, p, id))
         /\ \A q \in Rooted(i) : Deref(Assign(i, p, id), q) = IF q = p THEN id ELSE Deref(i, q)
  <1> DEFINE j == Assign(i, p, id)
  <1>0. /\ id \in Ids \cup {NotExist}
        /\ i.node_pool \in [Ids -> Node \cup {Junk}]
        /\ \A n \in Written(i.node_pool) : n \in Ids /\ i.node_pool[n] \in Node
    BY DEF Written, Fine, IndexRecord
  <1>1. CASE p.at = "head"
    <2>1. p.of \in Heads /\ p = [at |-> "head", of |-> p.of]
      BY <1>1 DEF Rooted, Pointers
    <2>2. j = [i EXCEPT !.hash_head[p.of] = id]
      BY <1>1 DEF Assign
    <2>3. /\ j \in IndexRecord /\ j.node_pool = i.node_pool /\ SameList(i, j)
          /\ \A h \in Heads : j.hash_head[h] = IF h = p.of THEN id ELSE i.hash_head[h]
      BY <1>0, <2>1, <2>2 DEF Fine, IndexRecord, SameList
    <2> HIDE DEF j
    <2>4. Fine(j) /\ SameNodes(i, j)
      BY <2>3 DEF Fine, SameNodes
    <2>5. ASSUME NEW q \in Rooted(i)
          PROVE  Deref(j, q) = IF q = p THEN id ELSE Deref(i, q)
      <3>1. CASE q.at = "head"
        <4>1. q.of \in Heads /\ (q = p <=> q.of = p.of)
          BY <2>1, <3>1 DEF Rooted, Pointers
        <4> QED
          BY <2>3, <3>1, <4>1 DEF Deref
      <3>2. CASE q.at # "head"
        BY <1>1, <2>3, <3>2 DEF Deref, Rooted, Pointers
      <3> QED
        BY <3>1, <3>2
    <2> QED
      BY <2>3, <2>4, <2>5 DEF j
  <1>2. CASE p.at = "left"
    <2>1. p.of \in Written(i.node_pool) /\ p.of \in Ids /\ p = [at |-> "left", of |-> p.of]
      BY <1>0, <1>2 DEF Rooted, Pointers
    <2>2. j = [i EXCEPT !.node_pool[p.of].left_id = id]
      BY <1>2 DEF Assign
    <2> DEFINE node == [i.node_pool[p.of] EXCEPT !.left_id = id]
    <2>3. /\ j.node_pool = [i.node_pool EXCEPT ![p.of] = node]
          /\ j = [i EXCEPT !.node_pool = j.node_pool]
      BY <1>0, <2>1, <2>2 DEF Fine, IndexRecord
    <2>4. /\ node \in Node /\ node.left_id = id /\ node.right_id = i.node_pool[p.of].right_id
          /\ node.key_sign = i.node_pool[p.of].key_sign
          /\ node.value_offset = i.node_pool[p.of].value_offset
      BY <1>0, <2>1 DEF Node
    <2> HIDE DEF node
    <2>5. node # Junk
      BY <2>4, LegacyFacts
    <2>6. /\ j \in IndexRecord /\ SameList(i, j) /\ j.hash_head = i.hash_head
          /\ \A n \in Ids : j.node_pool[n] = IF n = p.of THEN node ELSE i.node_pool[n]
      BY <1>0, <2>1, <2>3, <2>4 DEF Fine, IndexRecord, SameList
    <2> HIDE DEF j
    <2>7. Written(j.node_pool) = Written(i.node_pool)
      BY <2>1, <2>5, <2>6 DEF Written
    <2>8. Fine(j) /\ SameNodes(i, j)
      <3>1. \A n \in Written(i.node_pool) : j.node_pool[n] = IF n = p.of THEN node ELSE i.node_pool[n]
        BY <1>0, <2>6
      <3>2. KnowsChildren(j.node_pool)
        BY <2>1, <2>4, <2>7, <3>1 DEF Fine, KnowsChildren
      <3>3. SameNodes(i, j)
        BY <2>4, <2>7, <3>1 DEF SameNodes
      <3> QED
        BY <2>6, <3>2, <3>3 DEF Fine
    <2>9. ASSUME NEW q \in Rooted(i)
          PROVE  Deref(j, q) = IF q = p THEN id ELSE Deref(i, q)
      <3>1. CASE q.at = "head"
        BY <1>2, <2>6, <3>1 DEF Deref
      <3>2. CASE q.at = "left"
        <4>1. q.of \in Ids /\ (q = p <=> q.of = p.of)
          BY <2>1, <3>2 DEF Rooted, Pointers, Written
        <4> QED
          BY <2>4, <2>6, <3>2, <4>1 DEF Deref
      <3>3. CASE q.at = "right"
        <4>1. q.of \in Ids /\ q # p
          BY <2>1, <3>3 DEF Rooted, Pointers, Written
        <4> QED
          BY <2>4, <2>6, <3>3, <4>1 DEF Deref
      <3> QED
        BY <3>1, <3>2, <3>3 DEF Rooted, Pointers
    <2> QED
      BY <2>6, <2>8, <2>9 DEF j
  <1>3. CASE p.at = "right"
    <2>1. p.of \in Written(i.node_pool) /\ p.of \in Ids /\ p = [at |-> "right", of |-> p.of]
      BY <1>0, <1>3 DEF Rooted, Pointers
    <2>2. j = [i EXCEPT !.node_pool[p.of].right_id = id]
      BY <1>3 DEF Assign
    <2> DEFINE node == [i.node_pool[p.of] EXCEPT !.right_id = id]
    <2>3. /\ j.node_pool = [i.node_pool EXCEPT ![p.of] = node]
          /\ j = [i EXCEPT !.node_pool = j.node_pool]
      BY <1>0, <2>1, <2>2 DEF Fine, IndexRecord
    <2>4. /\ node \in Node /\ node.right_id = id /\ node.left_id = i.node_pool[p.of].left_id
          /\ node.key_sign = i.node_pool[p.of].key_sign
          /\ node.value_offset = i.node_pool[p.of].value_offset
      BY <1>0, <2>1 DEF Node
    <2> HIDE DEF node
    <2>5. node # Junk
      BY <2>4, LegacyFacts
    <2>6. /\ j \in IndexRecord /\ SameList(i, j) /\ j.hash_head = i.hash_head
          /\ \A n \in Ids : j.node_pool[n] = IF n = p.of THEN node ELSE i.node_pool[n]
      BY <1>0, <2>1, <2>3, <2>4 DEF Fine, IndexRecord, SameList
    <2> HIDE DEF j
    <2>7. Written(j.node_pool) = Written(i.node_pool)
      BY <2>1, <2>5, <2>6 DEF Written
    <2>8. Fine(j) /\ SameNodes(i, j)
      <3>1. \A n \in Written(i.node_pool) : j.node_pool[n] = IF n = p.of THEN node ELSE i.node_pool[n]
        BY <1>0, <2>6
      <3>2. KnowsChildren(j.node_pool)
        BY <2>1, <2>4, <2>7, <3>1 DEF Fine, KnowsChildren
      <3>3. SameNodes(i, j)
        BY <2>4, <2>7, <3>1 DEF SameNodes
      <3> QED
        BY <2>6, <3>2, <3>3 DEF Fine
    <2>9. ASSUME NEW q \in Rooted(i)
          PROVE  Deref(j, q) = IF q = p THEN id ELSE Deref(i, q)
      <3>1. CASE q.at = "head"
        BY <1>3, <2>6, <3>1 DEF Deref
      <3>2. CASE q.at = "right"
        <4>1. q.of \in Ids /\ (q = p <=> q.of = p.of)
          BY <2>1, <3>2 DEF Rooted, Pointers, Written
        <4> QED
          BY <2>4, <2>6, <3>2, <4>1 DEF Deref
      <3>3. CASE q.at = "left"
        <4>1. q.of \in Ids /\ q # p
          BY <2>1, <3>3 DEF Rooted, Pointers, Written
        <4> QED
          BY <2>4, <2>6, <3>3, <4>1 DEF Deref
      <3> QED
        BY <3>1, <3>2, <3>3 DEF Rooted, Pointers
    <2> QED
      BY <2>6, <2>8, <2>9 DEF j
  <1> QED
    BY <1>1, <1>2, <1>3 DEF Rooted, Pointers

(* A node of idx_insert, and the index that has it but hangs it nowhere.   *)
NewNode(s, offset) ==
  [key_sign |-> s, value_offset |-> offset, left_id |-> NotExist, right_id |-> NotExist]
WithNode(i, s, offset) == [Taken(i) EXCEPT !.node_pool[FreeNode(i)] = NewNode(s, offset)]

(* Taking a free node and filling it touches no other.                     *)
LEMMA TakeIs ==
  ASSUME NEW i, Fine(i), NEW s \in Signs, NEW offset \in 1 .. MaxData, FreeNode(i) \in Ids
  PROVE  LET k == WithNode(i, s, offset) IN
         /\ Fine(k) /\ Written(k.node_pool) = Written(i.node_pool) \cup {FreeNode(i)}
         /\ k.node_pool[FreeNode(i)] = NewNode(s, offset)
         /\ \A n \in Ids : n # FreeNode(i) => k.node_pool[n] = i.node_pool[n]
         /\ k.hash_head = i.hash_head /\ k.free_pool = i.free_pool
         /\ IF i.free_count = 0
              THEN k.free_count = 0 /\ k.horizon = i.horizon + 1
              ELSE k.free_count = i.free_count - 1 /\ k.horizon = i.horizon
  <1> DEFINE id == FreeNode(i)
             t == Taken(i)
             node == NewNode(s, offset)
             k == WithNode(i, s, offset)
  <1>1. node \in Node /\ node # Junk /\ node.left_id = NotExist /\ node.right_id = NotExist
    <2>1. node \in Node
      BY DEF Node, NewNode
    <2> QED
      BY <2>1, LegacyFacts DEF NewNode
  <1>2. /\ i.horizon \in 0 .. PoolSize /\ i.free_count \in 0 .. FreeRoom
        /\ i.free_count = 0 => i.horizon \in Ids
    BY DEF Fine, IndexRecord, FreeNode
  <1>3. /\ t \in IndexRecord /\ t.node_pool = i.node_pool
        /\ t.hash_head = i.hash_head /\ t.free_pool = i.free_pool
        /\ IF i.free_count = 0
             THEN t.free_count = 0 /\ t.horizon = i.horizon + 1
             ELSE t.free_count = i.free_count - 1 /\ t.horizon = i.horizon
    <2>1. CASE i.free_count = 0
      <3>1. i.horizon + 1 \in 0 .. PoolSize
        BY <1>2, <2>1, LegacyFacts DEF Ids
      <3>2. t = [i EXCEPT !.horizon = i.horizon + 1]
        BY <2>1 DEF Taken
      <3> HIDE DEF t
      <3> QED
        BY <2>1, <3>1, <3>2 DEF Fine, IndexRecord
    <2>2. CASE i.free_count # 0
      <3>1. i.free_count - 1 \in 0 .. FreeRoom
        BY <1>2, <2>2, LegacyFacts
      <3>2. t = [i EXCEPT !.free_count = i.free_count - 1]
        BY <2>2 DEF Taken
      <3> HIDE DEF t
      <3> QED
        BY <2>2, <3>1, <3>2 DEF Fine, IndexRecord
    <2> QED
      BY <2>1, <2>2
  <1>4. k = [t EXCEPT !.node_pool[id] = node]
    BY DEF WithNode
  <1> HIDE DEF t, node, k
  <1>5. /\ k \in IndexRecord /\ SameList(t, k) /\ k.hash_head = t.hash_head
        /\ \A n \in Ids : k.node_pool[n] = IF n = id THEN node ELSE i.node_pool[n]
    BY <1>1, <1>3, <1>4 DEF IndexRecord, SameList
  <1>6. Written(k.node_pool) = Written(i.node_pool) \cup {id}
    BY <1>1, <1>5 DEF Written
  <1>7. KnowsChildren(k.node_pool)
    <2>1. \A n \in Written(k.node_pool) : n \in Ids /\ (n # id => n \in Written(i.node_pool))
      BY <1>6 DEF Written
    <2> QED
      BY <1>1, <1>5, <1>6, <2>1 DEF Fine, KnowsChildren
  <1> QED
    BY <1>3, <1>5, <1>6, <1>7 DEF Fine, SameList, k, node

(* idx_insert hangs one new node where the search ended.                   *)
LEMMA InsertIs ==
  ASSUME NEW i, Fine(i), NEW s \in Signs, NEW offset \in 1 .. MaxData, FreeNode(i) \in Ids
  PROVE  LET id == FreeNode(i)
             j == Inserted(i, s, offset) IN
         /\ Fine(j) /\ Written(j.node_pool) = Written(i.node_pool) \cup {id}
         /\ j.node_pool[id].key_sign = s /\ j.node_pool[id].value_offset = offset
         /\ \A n \in Written(i.node_pool) : n # id =>
              /\ j.node_pool[n].key_sign = i.node_pool[n].key_sign
              /\ j.node_pool[n].value_offset = i.node_pool[n].value_offset
         /\ SameList(WithNode(i, s, offset), j)
         /\ \A q \in Rooted(j) :
              Deref(j, q) = IF q = Where(i, s) THEN id
                            ELSE IF q.at # "head" /\ q.of = id THEN NotExist
                            ELSE Deref(i, q)
  <1> DEFINE id == FreeNode(i)
             k == WithNode(i, s, offset)
             p == Where(i, s)
             a == Assign(k, p, id)
             j == Inserted(i, s, offset)
  <1>1. /\ Fine(k) /\ Written(k.node_pool) = Written(i.node_pool) \cup {id}
        /\ k.node_pool[id] = NewNode(s, offset)
        /\ \A n \in Ids : n # id => k.node_pool[n] = i.node_pool[n]
        /\ k.hash_head = i.hash_head
    BY TakeIs
  <1>2. p \in Rooted(k) /\ id \in Written(k.node_pool) \cup {NotExist}
    BY <1>1, FoundIs DEF Rooted
  <1>3. j = [a EXCEPT !.is_change = TRUE]
    BY DEF Inserted, WithNode, NewNode
  <1> HIDE DEF k, p, j
  <1>4. /\ Fine(a) /\ SameNodes(k, a) /\ SameList(k, a)
        /\ \A q \in Rooted(k) : Deref(a, q) = IF q = p THEN id ELSE Deref(k, q)
    BY <1>1, <1>2, AssignIs
  <1> HIDE DEF a
  <1>5. /\ Fine(j) /\ j.node_pool = a.node_pool /\ j.hash_head = a.hash_head
        /\ SameList(k, j) /\ \A q : Deref(j, q) = Deref(a, q)
    BY <1>3, <1>4 DEF Fine, IndexRecord, SameList, Deref
  <1>6. Written(j.node_pool) = Written(k.node_pool) /\ Rooted(j) = Rooted(k)
    BY <1>4, <1>5 DEF SameNodes, Rooted
  <1>7. /\ j.node_pool[id].key_sign = s /\ j.node_pool[id].value_offset = offset
        /\ \A n \in Written(i.node_pool) : n # id =>
             /\ j.node_pool[n].key_sign = i.node_pool[n].key_sign
             /\ j.node_pool[n].value_offset = i.node_pool[n].value_offset
    BY <1>1, <1>4, <1>5 DEF SameNodes, NewNode, Written
  <1>8. ASSUME NEW q \in Rooted(j), q # p
        PROVE  Deref(j, q) = IF q.at # "head" /\ q.of = id THEN NotExist ELSE Deref(i, q)
    <2>1. Deref(j, q) = Deref(k, q)
      BY <1>4, <1>5, <1>6, <1>8
    <2>2. CASE q.at = "head"
      BY <1>1, <2>1, <2>2 DEF Deref
    <2>3. CASE q.at # "head" /\ q.of = id
      BY <1>1, <2>1, <2>3 DEF Deref, NewNode, Rooted, Pointers
    <2>4. CASE q.at # "head" /\ q.of # id
      BY <1>1, <2>1, <2>4 DEF Deref, Rooted, Pointers
    <2> QED
      BY <2>2, <2>3, <2>4
  <1> QED
    BY <1>1, <1>4, <1>5, <1>6, <1>7, <1>8 DEF k, p, j, SameNodes

(* The pointers of a node are its fields.                                  *)
LEMMA FieldsAre ==
  ASSUME NEW i, NEW id
  PROVE  /\ Deref(i, Child(id, "left")) = i.node_pool[id].left_id
         /\ Deref(i, Child(id, "right")) = i.node_pool[id].right_id
  BY DEF Deref, Child

(* What idx_delete does to the trees: the pointer to the node gets its     *)
(* only child, or none.                                                    *)
UnlinksOne(i, p, id, j) ==
  \A x \in Rooted(i) :
    Deref(j, x) = IF x = p THEN OnlyChild(i.node_pool[id].left_id, i.node_pool[id].right_id)
                  ELSE Deref(i, x)

(* Or the nearest node, m, leaves its place q and gets the node's pointers.*)
UnlinksTwo(i, p, id, j) ==
  LET q == Nearest(i, id)
      m == Deref(i, q)
      Then(x) == IF x = q THEN i.node_pool[m].right_id ELSE Deref(i, x)
  IN \A x \in Rooted(i) :
       Deref(j, x) = IF x = p THEN m
                     ELSE IF x = Child(m, "right") THEN Then(Child(id, "right"))
                     ELSE IF x = Child(m, "left") THEN Then(Child(id, "left"))
                     ELSE Then(x)

(* The two ways a node leaves its tree.                                    *)
LEMMA UnlinkIs ==
  ASSUME NEW i, Fine(i), NEW p \in Rooted(i), NEW id \in Written(i.node_pool)
  PROVE  LET j == Unlinked(i, p, id) IN
         /\ Fine(j) /\ SameNodes(i, j) /\ SameList(i, j)
         /\ IF i.node_pool[id].left_id # NotExist /\ i.node_pool[id].right_id # NotExist
              THEN UnlinksTwo(i, p, id, j) ELSE UnlinksOne(i, p, id, j)
  <1> DEFINE left == i.node_pool[id].left_id
             right == i.node_pool[id].right_id
  <1>0. left \in Written(i.node_pool) \cup {NotExist} /\ right \in Written(i.node_pool) \cup {NotExist}
    BY DEF Fine, KnowsChildren
  <1>1. CASE left # NotExist /\ right # NotExist
    <2> DEFINE q == Nearest(i, id)
               m == Deref(i, q)
               a == Assign(i, q, i.node_pool[m].right_id)
               b == Assign(a, Child(m, "left"), a.node_pool[id].left_id)
               c == Assign(b, Child(m, "right"), a.node_pool[id].right_id)
               j == Assign(c, p, m)
    <2>1. PoolSize \in 0 .. PoolSize
      BY LegacyFacts
    <2>2. q \in Rooted(i) /\ m \in Written(i.node_pool)
      BY <1>1, <2>1, NearestTrailIs
    <2>3. Unlinked(i, p, id) = j
      <3>1. Unlinked(i, p, id) = MoveNearest(i, p, id)
        BY <1>1 DEF Unlinked
      <3>2. MoveNearest(i, p, id) =
              Assign([a EXCEPT !.node_pool[m].left_id = a.node_pool[id].left_id,
                               !.node_pool[m].right_id = a.node_pool[id].right_id], p, m)
        BY DEF MoveNearest
      <3> HIDE DEF a, m
      <3>3. c = [a EXCEPT !.node_pool[m].left_id = a.node_pool[id].left_id,
                          !.node_pool[m].right_id = a.node_pool[id].right_id]
        BY DEF Assign, Child
      <3> QED
        BY <3>1, <3>2, <3>3
    <2> HIDE DEF q, m, a, b, c, j
    <2>4. /\ Fine(a) /\ SameNodes(i, a) /\ SameList(i, a) /\ Rooted(a) = Rooted(i)
          /\ \A x \in Rooted(i) : Deref(a, x) = IF x = q THEN i.node_pool[m].right_id ELSE Deref(i, x)
      <3>1. i.node_pool[m].right_id \in Written(i.node_pool) \cup {NotExist}
        BY <2>2 DEF Fine, KnowsChildren
      <3> QED
        BY <2>2, <3>1, AssignIs DEF a, SameNodes, Rooted
    <2>5. /\ a.node_pool[id].left_id = Deref(a, Child(id, "left"))
          /\ a.node_pool[id].right_id = Deref(a, Child(id, "right"))
          /\ a.node_pool[id].left_id \in Written(a.node_pool) \cup {NotExist}
          /\ a.node_pool[id].right_id \in Written(a.node_pool) \cup {NotExist}
          /\ Child(id, "left") \in Rooted(i) /\ Child(id, "right") \in Rooted(i)
          /\ Child(m, "left") \in Rooted(i) /\ Child(m, "right") \in Rooted(i)
      <3>1. id \in Written(a.node_pool)
        BY <2>4 DEF SameNodes
      <3>2. /\ a.node_pool[id].left_id \in Written(a.node_pool) \cup {NotExist}
            /\ a.node_pool[id].right_id \in Written(a.node_pool) \cup {NotExist}
        BY <2>4, <3>1 DEF Fine, KnowsChildren
      <3> QED
        BY <2>2, <3>2, ChildRooted, FieldsAre
    <2>6. /\ Fine(b) /\ SameNodes(a, b) /\ SameList(a, b) /\ Rooted(b) = Rooted(i)
          /\ \A x \in Rooted(i) :
               Deref(b, x) = IF x = Child(m, "left") THEN a.node_pool[id].left_id ELSE Deref(a, x)
      BY <2>4, <2>5, AssignIs DEF b, SameNodes, Rooted
    <2>7. /\ Fine(c) /\ SameNodes(b, c) /\ SameList(b, c) /\ Rooted(c) = Rooted(i)
          /\ \A x \in Rooted(i) :
               Deref(c, x) = IF x = Child(m, "right") THEN a.node_pool[id].right_id ELSE Deref(b, x)
      <3>1. Written(b.node_pool) = Written(a.node_pool)
        BY <2>6 DEF SameNodes
      <3>2. /\ Fine(c) /\ SameNodes(b, c) /\ SameList(b, c)
            /\ \A x \in Rooted(b) :
               Deref(c, x) = IF x = Child(m, "right") THEN a.node_pool[id].right_id ELSE Deref(b, x)
        BY <2>5, <2>6, <3>1, AssignIs DEF c
      <3> QED
        BY <2>6, <3>2 DEF SameNodes, Rooted
    <2>8. /\ Fine(j) /\ SameNodes(c, j) /\ SameList(c, j)
          /\ \A x \in Rooted(i) : Deref(j, x) = IF x = p THEN m ELSE Deref(c, x)
      <3>1. m \in Written(c.node_pool)
        BY <2>2, <2>4, <2>6, <2>7 DEF SameNodes
      <3> QED
        BY <2>7, <3>1, AssignIs DEF j
    <2>9. SameNodes(i, j) /\ SameList(i, j)
      BY <2>4, <2>6, <2>7, <2>8 DEF SameNodes, SameList
    <2>10. UnlinksTwo(i, p, id, j)
      BY <2>4, <2>5, <2>6, <2>7, <2>8 DEF UnlinksTwo, q, m
    <2> QED
      BY <1>1, <2>3, <2>8, <2>9, <2>10
  <1>2. CASE ~(left # NotExist /\ right # NotExist)
    <2> DEFINE only == OnlyChild(left, right)
    <2>1. only \in Written(i.node_pool) \cup {NotExist}
      BY <1>0 DEF OnlyChild
    <2>2. Unlinked(i, p, id) = Assign(i, p, only)
      BY <1>2 DEF Unlinked
    <2>3. UnlinksOne(i, p, id, Assign(i, p, only))
      BY <2>1, AssignIs DEF UnlinksOne
    <2> HIDE DEF only
    <2> QED
      BY <1>2, <2>1, <2>2, <2>3, AssignIs
  <1> QED
    BY <1>1, <1>2

(* idx_delete takes the node of a sign out of its tree and puts it on the  *)
(* list of free ones.                                                      *)
LEMMA DeleteIs ==
  ASSUME NEW i, Fine(i), NEW s \in Signs, Found(i, s) \in Ids, i.free_count < FreeRoom
  PROVE  LET j == Deleted(i, s)
             u == Unlinked(i, Where(i, s), Found(i, s)) IN
         /\ Fine(j) /\ SameNodes(i, j)
         /\ j.node_pool = u.node_pool /\ j.hash_head = u.hash_head
         /\ j.horizon = i.horizon /\ j.free_count = i.free_count + 1
         /\ \A e \in 1 .. FreeRoom :
              j.free_pool[e] = IF e = i.free_count + 1 THEN Found(i, s) ELSE i.free_pool[e]
  <1> DEFINE id == Found(i, s)
             u == Unlinked(i, Where(i, s), id)
             j == Deleted(i, s)
  <1>1. Where(i, s) \in Rooted(i) /\ id \in Written(i.node_pool)
    BY FoundIs
  <1>2. Fine(u) /\ SameNodes(i, u) /\ SameList(i, u)
    BY <1>1, UnlinkIs
  <1>3. j = [u EXCEPT !.free_count = u.free_count + 1, !.free_pool[u.free_count + 1] = id,
                      !.is_change = TRUE]
    BY DEF Deleted, Freed
  <1>4. /\ i.free_count \in 0 .. FreeRoom /\ u.free_count = i.free_count
        /\ u.free_count + 1 \in 1 .. FreeRoom /\ u.horizon = i.horizon
        /\ u.free_pool = i.free_pool /\ id \in Ids
    BY <1>2, LegacyFacts DEF SameList, Fine, IndexRecord
  <1> HIDE DEF u, j, id
  <1>5. /\ j \in IndexRecord /\ j.node_pool = u.node_pool /\ j.hash_head = u.hash_head
        /\ j.horizon = i.horizon /\ j.free_count = i.free_count + 1
        /\ \A e \in 1 .. FreeRoom : j.free_pool[e] = IF e = i.free_count + 1 THEN id ELSE i.free_pool[e]
    <2> DEFINE list == [u.free_pool EXCEPT ![u.free_count + 1] = id]
    <2>1. /\ list \in [1 .. FreeRoom -> Ids \cup {Junk}]
          /\ \A e \in 1 .. FreeRoom : list[e] = IF e = i.free_count + 1 THEN id ELSE i.free_pool[e]
      BY <1>2, <1>4 DEF Fine, IndexRecord
    <2>2. j = [u EXCEPT !.free_count = u.free_count + 1, !.free_pool = list, !.is_change = TRUE]
      BY <1>2, <1>3 DEF Fine, IndexRecord
    <2>3. u.free_count + 1 \in 0 .. FreeRoom
      BY <1>4
    <2> HIDE DEF list
    <2> QED
      BY <1>2, <1>4, <2>1, <2>2, <2>3 DEF Fine, IndexRecord
  <1> QED
    BY <1>2, <1>5 DEF Fine, SameNodes, j, u, id

------------------------------------------------------------------------------
(* Types *)

(* An index that was just made has no written node.                        *)
LEMMA NoIndexIs ==
  /\ NoIndex \in IndexRecord /\ Written(NoIndex.node_pool) = {}
  /\ KnowsChildren(NoIndex.node_pool) /\ FirstOffset \in 1 .. MaxData + 1
  BY LegacyFacts DEF NoIndex, IndexRecord, Written, KnowsChildren, FirstOffset

(* What kv_get finds is in the data file.                                  *)
LEMMA LookupIs ==
  ASSUME LegacyTypeInv, NEW s \in Signs
  PROVE  /\ Lookup(s) \in Record \cup {Junk}
         /\ Lookup(s) # Junk =>
              /\ Found(idx, s) \in Written(idx.node_pool)
              /\ idx.node_pool[Found(idx, s)].key_sign = s
              /\ Lookup(s) = data_file.items[idx.node_pool[Found(idx, s)].value_offset]
  <1>1. Fine(idx)
    BY DEF LegacyTypeInv, Fine
  <1>2. \A id \in Written(idx.node_pool) : idx.node_pool[id].value_offset \in 1 .. MaxData
    BY <1>1 DEF Fine, IndexRecord, Written, Node
  <1>3. data_file.items \in [1 .. MaxData -> Record \cup {Junk}]
    BY DEF LegacyTypeInv, DataFile
  <1>4. Found(idx, s) \in Ids =>
          Found(idx, s) \in Written(idx.node_pool) /\ idx.node_pool[Found(idx, s)].key_sign = s
    BY <1>1, FoundIs
  <1> QED
    BY <1>2, <1>3, <1>4 DEF Lookup, RecordAt

(* So the map on the disk is one of values.                                *)
LEMMA MapTyped == LegacyTypeInv => Stored \in [Signs -> Values \cup {Junk}]
  <1> SUFFICES ASSUME LegacyTypeInv, NEW s \in Signs
               PROVE  (IF Lookup(s) = Junk THEN Junk ELSE Lookup(s).value) \in Values \cup {Junk}
    BY DEF Stored
  <1> QED
    BY LookupIs DEF Record

(* The beginning.                                                          *)
LEMMA LegacyTypeInit == Init => LegacyTypeInv
  <1> SUFFICES ASSUME Init PROVE LegacyTypeInv
    OBVIOUS
  <1>1. idx \in IndexRecord /\ KnowsChildren(idx.node_pool) /\ append \in 1 .. MaxData + 1
    BY NoIndexIs DEF Init
  <1>2. idx_file \in IndexFile /\ data_file \in DataFile /\ idx_file.node_pool = NoIndex.node_pool
    BY DEF Init, NoIndex, IndexFile, DataFile
  <1>3. KnowsChildren(idx_file.node_pool)
    BY <1>2, NoIndexIs
  <1>4. LegacyTypeOK
    BY <1>1, <1>2 DEF LegacyTypeOK, Init, IndexRecord, IndexFile, DataFile
  <1>5. TodoInv
    BY DEF TodoInv, Init
  <1> QED
    BY <1>1, <1>2, <1>3, <1>4, <1>5 DEF LegacyTypeInv

(* What LegacyTypeOK says follows from the shapes of the records.          *)
LEMMA TypeOKFrom ==
  ASSUME idx \in IndexRecord, idx_file \in IndexFile, data_file \in DataFile,
         pc \in {"down", "create", "up", "exit", "halted"}, append \in 1 .. MaxData + 1,
         durable \subseteq [Signs -> Values \cup {Junk}], cut \in BOOLEAN, behind \in BOOLEAN
  PROVE  LegacyTypeOK
  BY DEF LegacyTypeOK, IndexRecord, IndexFile, DataFile

(* The tails of short sequences.                                           *)
LEMMA Tails ==
  ASSUME NEW a, NEW b, NEW c, NEW d, NEW e
  PROVE  /\ Tail(<<a>>) = <<>> /\ Tail(<<a, b>>) = <<b>> /\ Tail(<<a, b, c>>) = <<b, c>>
         /\ Tail(<<a, b, c, d>>) = <<b, c, d>> /\ Tail(<<a, b, c, d, e>>) = <<b, c, d, e>>
  OBVIOUS

(* Two sequences put together are the one with their elements.             *)
LEMMA Joined ==
  ASSUME NEW S, NEW s \in Seq(S), NEW t \in Seq(S), NEW u \in Seq(S),
         Len(s) \in Nat, Len(t) \in Nat, Len(u) = Len(s) + Len(t),
         \A n \in 1 .. Len(u) : u[n] = IF n <= Len(s) THEN s[n] ELSE t[n - Len(s)]
  PROVE  s \o t = u
  <1>1. /\ s \o t \in Seq(S)
        /\ Len(s \o t) = Len(s) + Len(t)
        /\ \A n \in 1 .. Len(s) + Len(t) :
             (s \o t)[n] = IF n <= Len(s) THEN s[n] ELSE t[n - Len(s)]
    BY ConcatProperties, Zenon
  <1> DEFINE w == s \o t
  <1>2. w \in Seq(S) /\ Len(w) = Len(u) /\ \A n \in 1 .. Len(w) : w[n] = u[n]
    <2> HIDE DEF w
    <2>1. Len(w) = Len(s) + Len(t) /\ w \in Seq(S)
          /\ \A n \in 1 .. Len(s) + Len(t) : w[n] = IF n <= Len(s) THEN s[n] ELSE t[n - Len(s)]
      BY <1>1 DEF w
    <2> QED
      BY <2>1
  <1> QED
    BY <1>2, SeqEqual

(* A write of the first of the writes that are left.                       *)
LEMMA TodoMoves ==
  /\ <<>> \in CreateLeft /\ <<>> \in ExitLeft
  /\ IndexParts \o <<"data">> = <<"head", "pool", "heads", "free", "data">>
  /\ Exits \subseteq {<<"data", "head", "pool", "heads", "free">>,
                      <<"head", "pool", "heads", "free", "data">>, <<"data">>}
  /\ \A t \in CreateLeft : t # <<>> => Tail(t) \in CreateLeft
  /\ \A t \in ExitLeft : t # <<>> => Tail(t) \in ExitLeft
  /\ \A t \in CreateLeft \cup ExitLeft :
       t # <<>> => Head(t) \in {"head", "pool", "heads", "free", "data"}
  <1> DEFINE S == {"head", "pool", "heads", "free", "data"}
             parts == <<"head", "pool", "heads", "free">>
             one == <<"data">>
  <1>0. /\ parts \in Seq(S) /\ Len(parts) = 4 /\ one \in Seq(S) /\ Len(one) = 1
        /\ parts[1] = "head" /\ parts[2] = "pool" /\ parts[3] = "heads" /\ parts[4] = "free"
        /\ one[1] = "data" /\ 1 .. 5 = {1, 2, 3, 4, 5}
    OBVIOUS
  <1>1. IndexParts \o one = <<"head", "pool", "heads", "free", "data">>
    <2> DEFINE u == <<"head", "pool", "heads", "free", "data">>
    <2>1. /\ u \in Seq(S) /\ Len(u) = 5 /\ u[1] = "head" /\ u[2] = "pool"
          /\ u[3] = "heads" /\ u[4] = "free" /\ u[5] = "data"
      OBVIOUS
    <2> HIDE DEF S, parts, one, u
    <2>2. \A n \in 1 .. Len(u) : u[n] = IF n <= Len(parts) THEN parts[n] ELSE one[n - Len(parts)]
      BY <1>0, <2>1
    <2>3. parts \o one = u
      <3>1. Len(parts) \in Nat /\ Len(one) \in Nat /\ Len(u) = Len(parts) + Len(one)
        BY <1>0, <2>1
      <3> QED
        BY <1>0, <2>1, <2>2, <3>1, Joined, Zenon
    <2> QED
      BY <2>3 DEF IndexParts, parts, u
  <1>2. Exits \subseteq {<<"data", "head", "pool", "heads", "free">>,
                         <<"head", "pool", "heads", "free", "data">>, <<"data">>}
    <2> DEFINE u == <<"data", "head", "pool", "heads", "free">>
    <2>1. /\ u \in Seq(S) /\ Len(u) = 5 /\ u[1] = "data" /\ u[2] = "head" /\ u[3] = "pool"
          /\ u[4] = "heads" /\ u[5] = "free"
      OBVIOUS
    <2>2. <<"data">> \o <<>> = <<"data">> /\ <<>> \o <<"data">> = <<"data">>
      OBVIOUS
    <2> HIDE DEF S, parts, one, u
    <2>3. \A n \in 1 .. Len(u) : u[n] = IF n <= Len(one) THEN one[n] ELSE parts[n - Len(one)]
      BY <1>0, <2>1
    <2>4. one \o parts = u
      <3>1. Len(parts) \in Nat /\ Len(one) \in Nat /\ Len(u) = Len(one) + Len(parts)
        BY <1>0, <2>1
      <3> QED
        BY <1>0, <2>1, <2>3, <3>1, Joined, Zenon
    <2>5. <<"data">> \o IndexParts = u
      BY <2>4 DEF IndexParts, one, parts
    <2>6. idx.is_change => Exits = {u, <<"head", "pool", "heads", "free", "data">>}
      BY <1>1, <2>5 DEF Exits, IndexExit, one
    <2>7. ~idx.is_change => Exits = {<<"data">>}
      BY <2>2 DEF Exits, IndexExit
    <2> QED
      BY <2>6, <2>7 DEF u
  <1> HIDE DEF S, parts, one
  <1>t. /\ Tail(<<"head", "pool", "heads", "free", "data">>) = <<"pool", "heads", "free", "data">>
        /\ Tail(<<"pool", "heads", "free", "data">>) = <<"heads", "free", "data">>
        /\ Tail(<<"heads", "free", "data">>) = <<"free", "data">>
        /\ Tail(<<"free", "data">>) = <<"data">> /\ Tail(<<"data">>) = <<>>
        /\ Tail(<<"data", "head", "pool", "heads", "free">>) = <<"head", "pool", "heads", "free">>
        /\ Tail(<<"head", "pool", "heads", "free">>) = <<"pool", "heads", "free">>
        /\ Tail(<<"pool", "heads", "free">>) = <<"heads", "free">>
        /\ Tail(<<"heads", "free">>) = <<"free">> /\ Tail(<<"free">>) = <<>>
    BY Tails
  <1>3. \A t \in CreateLeft : t # <<>> => Tail(t) \in CreateLeft
    BY <1>t, Zenon DEF CreateLeft
  <1>4. \A t \in ExitLeft : t # <<>> => Tail(t) \in ExitLeft
    BY <1>t, Zenon DEF ExitLeft
  <1>5. \A t \in CreateLeft \cup ExitLeft :
          t # <<>> => Head(t) \in {"head", "pool", "heads", "free", "data"}
    BY DEF CreateLeft, ExitLeft
  <1>6. <<>> \in CreateLeft /\ <<>> \in ExitLeft
    BY DEF CreateLeft, ExitLeft
  <1> QED
    BY <1>1, <1>2, <1>3, <1>4, <1>5, <1>6 DEF one

(* A process that ends has forgotten its index.                            *)
LEMMA ForgetTyped ==
  ASSUME LegacyTypeInv, Forget, UNCHANGED <<files, durable>>,
         cut' \in BOOLEAN, behind' \in BOOLEAN,
         pc' = "down", todo' = <<>>
  PROVE  LegacyTypeInv'
  <1>1. /\ idx' \in IndexRecord /\ KnowsChildren(idx'.node_pool) /\ append' \in 1 .. MaxData + 1
        /\ idx_file' = idx_file /\ data_file' = data_file /\ durable' = durable
    BY NoIndexIs DEF Forget, files
  <1>2. LegacyTypeOK'
    BY <1>1 DEF LegacyTypeInv, LegacyTypeOK, IndexRecord, IndexFile, DataFile
  <1>3. TodoInv'
    BY DEF TodoInv
  <1> QED
    BY <1>1, <1>2, <1>3 DEF LegacyTypeInv

(* One write of a save.                                                    *)
LEMMA SaveTyped == LegacyTypeInv /\ Write => LegacyTypeInv'
  <1> SUFFICES ASSUME LegacyTypeInv, Write PROVE LegacyTypeInv'
    OBVIOUS
  <1>1. pc \in {"create", "exit"} /\ todo # <<>> /\ todo' = Tail(todo) /\ pc' = pc
    BY DEF LegacyTypeInv, TodoInv, LegacyTypeOK, Write
  <1>2. TodoInv' /\ Head(todo) \in {"head", "pool", "heads", "free", "data"}
    BY <1>1, TodoMoves DEF TodoInv, LegacyTypeInv
  <1>3. durable' \subseteq [Signs -> Values \cup {Junk}]
    BY MapTyped DEF Write, Durable, LegacyTypeInv, LegacyTypeOK
  <1>4. cut' \in BOOLEAN /\ behind' \in BOOLEAN /\ idx' = idx /\ append' = append
    BY DEF Write, LegacyTypeInv, LegacyTypeOK
  <1>5. idx_file' \in IndexFile /\ data_file' \in DataFile /\ KnowsChildren(idx_file'.node_pool)
    <2>1. CASE Head(todo) = "data"
      BY <2>1 DEF Write, DataSync, LegacyTypeInv, LegacyTypeOK, DataFile
    <2>2. CASE Head(todo) = "head"
      <3>1. IndexHead \in [horizon : 0 .. PoolSize, free_count : 0 .. FreeRoom]
        BY DEF IndexHead, LegacyTypeInv, LegacyTypeOK
      <3>2. idx_file' = [idx_file EXCEPT !.head = IndexHead] /\ data_file' = data_file
        BY <2>2 DEF Write, IndexSync
      <3> QED
        BY <3>1, <3>2 DEF LegacyTypeInv, IndexFile
    <2>3. CASE Head(todo) = "pool"
      <3>1. idx_file' = [idx_file EXCEPT !.node_pool = idx.node_pool] /\ data_file' = data_file
        BY <2>3 DEF Write, IndexSync
      <3> QED
        BY <3>1 DEF LegacyTypeInv, IndexFile, IndexRecord
    <2>4. CASE Head(todo) = "heads"
      <3>1. idx_file' = [idx_file EXCEPT !.hash_head = idx.hash_head] /\ data_file' = data_file
        BY <2>4 DEF Write, IndexSync
      <3> QED
        BY <3>1 DEF LegacyTypeInv, IndexFile, IndexRecord
    <2>5. CASE Head(todo) = "free"
      <3>1. idx_file' = [idx_file EXCEPT !.free_pool = idx.free_pool] /\ data_file' = data_file
        BY <2>5 DEF Write, IndexSync
      <3> QED
        BY <3>1 DEF LegacyTypeInv, IndexFile, IndexRecord
    <2> QED
      BY <1>2, <2>1, <2>2, <2>3, <2>4, <2>5
  <1>6. LegacyTypeOK'
    BY <1>1, <1>3, <1>4, <1>5 DEF LegacyTypeInv, LegacyTypeOK, IndexFile, DataFile
  <1> QED
    BY <1>2, <1>4, <1>5, <1>6 DEF LegacyTypeInv

(* kv_put and kv_delete.                                                   *)
LEMMA CallsTyped ==
  ASSUME LegacyTypeInv, NEW s \in Signs, (\E v \in Values : Put(s, v)) \/ Delete(s), ~Halt
  PROVE  LegacyTypeInv'
  <1>0. Fine(idx) /\ pc = "up" /\ pc' = pc /\ todo' = todo /\ UNCHANGED history
    BY DEF LegacyTypeInv, Fine, Put, Delete
  <1>1. CASE \E v \in Values : Put(s, v)
    <2>1. PICK v \in Values : Put(s, v)
      BY <1>1
    <2>2. /\ FreeNode(idx) \in Ids /\ append \in 1 .. MaxData
          /\ idx' = Inserted(idx, s, append) /\ DataInsert(s, v)
          /\ UNCHANGED <<idx_file, durable, cut, behind>>
      BY <1>0, <2>1 DEF Put, LegacyTypeInv, LegacyTypeOK, history
    <2>3. Fine(idx')
      BY <1>0, <2>2, InsertIs
    <2>4. data_file' \in DataFile /\ append' \in 1 .. MaxData + 1
      <3>1. [sign |-> s, value |-> v] \in Record
        BY DEF Record
      <3> DEFINE r == [sign |-> s, value |-> v]
                 written == [data_file.items EXCEPT ![append] = r]
      <3> HIDE DEF r
      <3>2. written \in [1 .. MaxData -> Record \cup {Junk}]
        BY <2>2, <3>1 DEF r, LegacyTypeInv, DataFile
      <3>3. data_file' = [data_file EXCEPT !.items = written] /\ append' = append + 1
        BY <2>2 DEF DataInsert, r, LegacyTypeInv, DataFile
      <3> HIDE DEF written
      <3>4. data_file' \in DataFile
        BY <3>2, <3>3 DEF LegacyTypeInv, DataFile
      <3> QED
        BY <2>2, <3>3, <3>4, LegacyFacts
    <2>5. LegacyTypeOK'
      BY <1>0, <2>2, <2>3, <2>4 DEF LegacyTypeInv, LegacyTypeOK, IndexRecord, DataFile, Fine
    <2> QED
      BY <1>0, <2>2, <2>3, <2>4, <2>5 DEF LegacyTypeInv, TodoInv, Fine
  <1>2. CASE Delete(s)
    <2>1. /\ Found(idx, s) \in Ids /\ idx.free_count < FreeRoom /\ idx' = Deleted(idx, s)
          /\ UNCHANGED <<append, files, durable, cut, behind>>
      BY <1>0, <1>2 DEF Delete, history
    <2>2. Fine(idx')
      BY <1>0, <2>1, DeleteIs
    <2>3. LegacyTypeOK'
      BY <1>0, <2>1, <2>2 DEF LegacyTypeInv, LegacyTypeOK, IndexRecord, DataFile, Fine, files
    <2> QED
      BY <1>0, <2>1, <2>2, <2>3 DEF LegacyTypeInv, TodoInv, Fine, files
  <1> QED
    BY <1>1, <1>2

(* A program that leaves what C defines.                                   *)
LEMMA HaltTyped == LegacyTypeInv /\ Halt => LegacyTypeInv'
  <1> SUFFICES ASSUME LegacyTypeInv, Halt PROVE LegacyTypeInv'
    OBVIOUS
  <1>1. TodoInv'
    BY DEF Halt, TodoInv
  <1> QED
    BY <1>1 DEF Halt, LegacyTypeInv, LegacyTypeOK, files, history

(* Every action.                                                           *)
LEMMA LegacyTypeStep == LegacyTypeInv /\ [Next]_vars => LegacyTypeInv'
  <1> SUFFICES ASSUME LegacyTypeInv, [Next]_vars PROVE LegacyTypeInv'
    OBVIOUS
  <1>1. CASE Create
    <2>1. /\ idx' \in IndexRecord /\ KnowsChildren(idx'.node_pool) /\ append' \in 1 .. MaxData + 1
          /\ UNCHANGED <<idx_file, data_file, durable, cut, behind>>
      BY <1>1, NoIndexIs DEF Create, DataCreate, files, history
    <2>2. LegacyTypeOK'
      BY <1>1, <2>1 DEF Create, LegacyTypeInv, LegacyTypeOK, IndexRecord, IndexFile, DataFile
    <2>3. TodoInv'
      BY <1>1, TodoMoves DEF Create, TodoInv, CreateLeft
    <2> QED
      BY <2>1, <2>2, <2>3 DEF LegacyTypeInv
  <1>2. CASE Load
    <2>1. /\ idx_file.head # Junk /\ data_file.head # Junk /\ append' = data_file.head
          /\ pc' = "up" /\ todo' = todo /\ pc = "down"
          /\ UNCHANGED <<idx_file, data_file, durable, cut, behind>>
      BY <1>2 DEF Load, DataLoad, CanOpen, files, history
    <2>2. idx' \in IndexRecord /\ idx'.node_pool = idx_file.node_pool
      BY <1>2, <2>1 DEF Load, LegacyTypeInv, IndexFile, IndexRecord
    <2>3. append' \in 1 .. MaxData + 1
      BY <2>1 DEF LegacyTypeInv, DataFile
    <2>4. LegacyTypeOK'
      BY <2>1, <2>2, <2>3 DEF LegacyTypeInv, LegacyTypeOK, IndexRecord
    <2>5. TodoInv'
      BY <2>1 DEF LegacyTypeInv, TodoInv
    <2> QED
      BY <2>1, <2>2, <2>4, <2>5 DEF LegacyTypeInv
  <1>3. CASE Exit
    <2>1. TodoInv'
      BY <1>3, TodoMoves DEF Exit, TodoInv, ExitLeft
    <2> QED
      BY <1>3, <2>1 DEF Exit, LegacyTypeInv, LegacyTypeOK, files, history
  <1>4. CASE Write
    BY <1>4, SaveTyped
  <1>5. CASE Opened
    <2>1. TodoInv'
      BY <1>5 DEF Opened, TodoInv
    <2> QED
      BY <1>5, <2>1 DEF Opened, LegacyTypeInv, LegacyTypeOK, files, history
  <1>6. CASE Closed
    BY <1>6, ForgetTyped DEF Closed, LegacyTypeInv, LegacyTypeOK, history
  <1>7. CASE Die
    <2>1. cut' \in BOOLEAN /\ behind' \in BOOLEAN
      BY <1>7 DEF Die, MidSync, Ahead, LegacyTypeInv, LegacyTypeOK
    <2> QED
      BY <1>7, <2>1, ForgetTyped DEF Die
  <1>8. ASSUME NEW s \in Signs, (\E v \in Values : Put(s, v)) \/ Delete(s) PROVE LegacyTypeInv'
    <2>1. CASE Halt
      BY <2>1, HaltTyped
    <2>2. CASE ~Halt
      BY <1>8, <2>2, CallsTyped
    <2> QED
      BY <2>1, <2>2
  <1>9. CASE SaveOverrun \/ LoadOverrun
    BY <1>9, HaltTyped DEF SaveOverrun, LoadOverrun
  <1>10. CASE UNCHANGED vars
    BY <1>10 DEF vars, files, history, LegacyTypeInv, LegacyTypeOK, TodoInv
  <1> QED
    BY <1>1, <1>2, <1>3, <1>4, <1>5, <1>6, <1>7, <1>8, <1>9, <1>10 DEF Next

(* Every variable of the engine and its files keeps its type, whatever is  *)
(* put, deleted, saved, cut short and loaded.                              *)
THEOREM LegacyTyped == Spec => []LegacyTypeOK
  <1>1. LegacyTypeInv => LegacyTypeOK
    BY DEF LegacyTypeInv
  <1> QED
    BY <1>1, LegacyTypeInit, LegacyTypeStep, PTL DEF Spec

------------------------------------------------------------------------------
(* The records *)

(* A pool whose nodes keep their signs and places keeps its records, where *)
(* the end moves on and what is before the old end stays.                  *)
LEMMA OwnKept ==
  ASSUME NEW pool, NEW limit, NEW new, OwnBelow(pool, limit),
         \A id \in Written(pool) : pool[id].value_offset \in 1 .. MaxData,
         limit \in Int, new \in Int, limit <= new,
         \A n \in 1 .. MaxData : n < limit => data_file'.items[n] = data_file.items[n]
  PROVE  \A id \in Written(pool) :
           /\ pool[id].value_offset < new
           /\ data_file'.items[pool[id].value_offset] \in [sign : {pool[id].key_sign}, value : Values]
  <1> SUFFICES ASSUME NEW id \in Written(pool)
               PROVE  /\ pool[id].value_offset < new
                      /\ data_file'.items[pool[id].value_offset]
                           \in [sign : {pool[id].key_sign}, value : Values]
    OBVIOUS
  <1>1. HasOwn(pool[id], limit)
    BY DEF OwnBelow
  <1>2. pool[id].value_offset \in 1 .. MaxData /\ pool[id].value_offset < limit
    BY <1>1 DEF HasOwn
  <1>3. data_file.items[pool[id].value_offset] \in [sign : {pool[id].key_sign}, value : Values]
    BY <1>1 DEF HasOwn
  <1>4. data_file'.items[pool[id].value_offset] = data_file.items[pool[id].value_offset]
    BY <1>2
  <1> QED
    BY <1>2, <1>3, <1>4

(* Places are in the file.                                                 *)
LEMMA OffsetsTyped ==
  ASSUME LegacyTypeInv
  PROVE  /\ \A id \in Written(idx.node_pool) : idx.node_pool[id].value_offset \in 1 .. MaxData
         /\ \A id \in Written(idx_file.node_pool) : idx_file.node_pool[id].value_offset \in 1 .. MaxData
         /\ append \in Int /\ (data_file.head # Junk => data_file.head \in Int)
  BY DEF LegacyTypeInv, LegacyTypeOK, IndexRecord, IndexFile, DataFile, Written, Node

(* The beginning.                                                          *)
LEMMA OwnInit == Init => OwnInv
  <1> SUFFICES ASSUME Init PROVE OwnInv
    OBVIOUS
  <1>1. Written(idx.node_pool) = {} /\ Written(idx_file.node_pool) = {}
    BY NoIndexIs DEF Init
  <1> QED
    BY <1>1 DEF Init, OwnInv, OwnBelow

(* The end may be taken to be further on.                                  *)
LEMMA OwnGrows ==
  ASSUME NEW pool, NEW limit \in Int, NEW new \in Int, limit <= new, OwnBelow(pool, limit),
         \A id \in Written(pool) : pool[id].value_offset \in 1 .. MaxData
  PROVE  OwnBelow(pool, new)
  BY LegacyFacts DEF OwnBelow, HasOwn

(* A process that ends leaves the files alone; where it was in the exits,  *)
(* the index is not ahead of the data file.                                *)
LEMMA ForgetOwn ==
  ASSUME LegacyTypeInv, OwnInv, Forget, UNCHANGED files, pc # "halted", pc' = "down",
         ~behind' => ~behind /\ (pc = "exit" => ~Ahead)
  PROVE  OwnInv'
  <1>1. Written(idx'.node_pool) = {}
    BY NoIndexIs DEF Forget
  <1>2. UNCHANGED <<idx_file, data_file>>
    BY DEF files
  <1>3. ASSUME ~behind', Written(idx_file.node_pool) # {}
        PROVE  data_file.head # Junk /\ OwnBelow(idx_file.node_pool, data_file.head)
    <2>1. data_file.head # Junk /\ OwnBelow(idx_file.node_pool, EndOfData)
      BY <1>3 DEF OwnInv
    <2>2. CASE pc # "exit"
      BY <2>1, <2>2 DEF EndOfData
    <2>3. CASE pc = "exit"
      <3>1. \A id \in Written(idx_file.node_pool) : ~(idx_file.node_pool[id].value_offset >= data_file.head)
        BY <1>3, <2>1, <2>3 DEF Ahead, Written
      <3>2. \A id \in Written(idx_file.node_pool) : idx_file.node_pool[id].value_offset < data_file.head
        BY <2>1, <3>1, OffsetsTyped
      <3> QED
        BY <2>1, <3>2 DEF OwnBelow, HasOwn
    <2> QED
      BY <2>2, <2>3
  <1>4. ~behind' => OwnBelow(idx.node_pool, append)'
    BY <1>1 DEF OwnBelow
  <1>5. OwnBelow(idx_file.node_pool, data_file.head) => OwnBelow(idx_file.node_pool, EndOfData)'
    BY <1>2 DEF OwnBelow, HasOwn, EndOfData
  <1> QED
    BY <1>2, <1>3, <1>4, <1>5 DEF OwnInv

(* A step that keeps the index, the files and the end.                     *)
LEMMA FilesOwn ==
  ASSUME OwnInv, UNCHANGED <<idx, append, files, behind>>
  PROVE  /\ (~behind => OwnBelow(idx.node_pool, append))'
         /\ (OwnBelow(idx_file.node_pool, append))' <=> OwnBelow(idx_file.node_pool, append)
         /\ (OwnBelow(idx_file.node_pool, data_file.head))'
              <=> OwnBelow(idx_file.node_pool, data_file.head)
         /\ UNCHANGED <<idx_file, data_file>>
  BY DEF OwnInv, OwnBelow, HasOwn, files

(* A program that leaves what C defines promises no more of its file.      *)
LEMMA HaltOwn == OwnInv /\ Halt => OwnInv'
  <1> SUFFICES ASSUME OwnInv, Halt PROVE OwnInv'
    OBVIOUS
  <1>1. (~behind => OwnBelow(idx.node_pool, append))'
    BY FilesOwn DEF Halt, history
  <1> QED
    BY <1>1 DEF Halt, OwnInv

(* What is left to write tells which write is next.                        *)
LEMMA NextWrite ==
  ASSUME LegacyTypeInv, todo # <<>>
  PROVE  /\ pc = "create" =>
              \/ Head(todo) = "head" /\ Tail(todo) \notin PoolWritten
              \/ Head(todo) = "pool" /\ Tail(todo) # <<>>
              \/ Head(todo) \in {"heads", "free"} /\ todo \in PoolWritten /\ Tail(todo) # <<>>
              \/ Head(todo) = "data" /\ todo \in PoolWritten
         /\ pc = "exit" => \/ Head(todo) = "data" \/ todo \in EndWritten
                           \/ Tail(todo) \notin EndWritten
  <1>1. ASSUME pc = "create"
        PROVE  \/ Head(todo) = "head" /\ Tail(todo) \notin PoolWritten
               \/ Head(todo) = "pool" /\ Tail(todo) # <<>>
               \/ Head(todo) \in {"heads", "free"} /\ todo \in PoolWritten /\ Tail(todo) # <<>>
               \/ Head(todo) = "data" /\ todo \in PoolWritten
    <2>1. todo \in CreateLeft
      BY <1>1 DEF LegacyTypeInv, TodoInv
    <2>2. CASE todo = <<"head", "pool", "heads", "free", "data">>
      <3>1. Tail(todo) = <<"pool", "heads", "free", "data">> /\ Head(todo) = "head"
        BY <2>2, Tails
      <3>2. <<"pool", "heads", "free", "data">> \notin PoolWritten
        BY DEF PoolWritten
      <3> QED
        BY <3>1, <3>2
    <2>3. CASE todo = <<"pool", "heads", "free", "data">>
      <3>1. Tail(todo) = <<"heads", "free", "data">> /\ Head(todo) = "pool"
        BY <2>3, Tails
      <3> QED
        BY <3>1
    <2>4. CASE todo = <<"heads", "free", "data">>
      <3>1. Tail(todo) = <<"free", "data">> /\ Head(todo) = "heads"
        BY <2>4, Tails
      <3> QED
        BY <2>4, <3>1 DEF PoolWritten
    <2>5. CASE todo = <<"free", "data">>
      <3>1. Tail(todo) = <<"data">> /\ Head(todo) = "free"
        BY <2>5, Tails
      <3> QED
        BY <2>5, <3>1 DEF PoolWritten
    <2>6. CASE todo = <<"data">>
      BY <2>6 DEF PoolWritten
    <2> QED
      BY <2>1, <2>2, <2>3, <2>4, <2>5, <2>6, Zenon DEF CreateLeft
  <1>2. ASSUME pc = "exit"
        PROVE  Head(todo) = "data" \/ todo \in EndWritten \/ Tail(todo) \notin EndWritten
    <2>1. todo \in ExitLeft
      BY <1>2 DEF LegacyTypeInv, TodoInv
    <2>2. Head(<<"data", "head", "pool", "heads", "free">>) = "data" /\ Head(<<"data">>) = "data"
      OBVIOUS
    <2>3. /\ Tail(<<"head", "pool", "heads", "free", "data">>) = <<"pool", "heads", "free", "data">>
          /\ Tail(<<"pool", "heads", "free", "data">>) = <<"heads", "free", "data">>
          /\ Tail(<<"heads", "free", "data">>) = <<"free", "data">>
          /\ Tail(<<"free", "data">>) = <<"data">>
      BY Tails
    <2>4. /\ <<"pool", "heads", "free", "data">> \notin EndWritten
          /\ <<"heads", "free", "data">> \notin EndWritten
          /\ <<"free", "data">> \notin EndWritten /\ <<"data">> \notin EndWritten
      BY DEF EndWritten
    <2> QED
      BY <2>1, <2>2, <2>3, <2>4, Zenon DEF ExitLeft, EndWritten
  <1> QED
    BY <1>1, <1>2

(* One write of a save.                                                    *)
LEMMA WriteOwn == LegacyTypeInv /\ OwnInv /\ Write => OwnInv'
  <1> SUFFICES ASSUME LegacyTypeInv, OwnInv, Write PROVE OwnInv'
    OBVIOUS
  <1>1. /\ pc \in {"create", "exit"} /\ todo # <<>> /\ todo' = Tail(todo)
        /\ pc' = pc /\ idx' = idx /\ append' = append
        /\ Head(todo) \in {"head", "pool", "heads", "free", "data"}
    <2>1. pc \in {"create", "exit"} /\ todo # <<>>
      BY DEF LegacyTypeInv, TodoInv, LegacyTypeOK, Write
    <2> QED
      BY <2>1, TodoMoves DEF LegacyTypeInv, TodoInv, Write
  <1>2. append \in Int /\ (data_file.head # Junk => data_file.head \in Int) /\ append # Junk
    BY OffsetsTyped, LegacyFacts DEF LegacyTypeInv, LegacyTypeOK
  <1>3. /\ data_file'.items = data_file.items
        /\ data_file'.head = IF Head(todo) = "data" THEN append ELSE data_file.head
        /\ idx_file'.node_pool = IF Head(todo) = "pool" THEN idx.node_pool ELSE idx_file.node_pool
    <2>1. CASE Head(todo) = "data"
      BY <2>1 DEF Write, DataSync, LegacyTypeInv, DataFile
    <2>2. CASE Head(todo) # "data"
      BY <1>1, <2>2 DEF Write, IndexSync, LegacyTypeInv, IndexFile
    <2> QED
      BY <2>1, <2>2
  <1>4. pc = "create" => idx = NoIndex /\ append = FirstOffset /\ Written(idx.node_pool) = {}
    BY NoIndexIs DEF OwnInv
  <1>6. pc = "create" /\ Tail(todo) \in PoolWritten => Written(idx_file'.node_pool) = {}
    <2>1. ASSUME pc = "create", Tail(todo) \in PoolWritten, Head(todo) # "pool"
          PROVE  todo \in PoolWritten
      BY <1>1, <2>1, NextWrite
    <2> QED
      BY <1>3, <1>4, <2>1 DEF OwnInv
  <1>7. ~behind' /\ behind => pc = "create" /\ Tail(todo) \in PoolWritten
    <2>1. ASSUME ~behind', behind PROVE pc = "create" /\ Tail(todo) \in PoolWritten
      <3>1. pc = "create" /\ Head(todo) = "free" /\ todo \in CreateLeft
        BY <2>1 DEF Write, Blank, LegacyTypeInv, TodoInv
      <3>2. /\ Head(<<"head", "pool", "heads", "free", "data">>) = "head"
            /\ Head(<<"pool", "heads", "free", "data">>) = "pool"
            /\ Head(<<"heads", "free", "data">>) = "heads" /\ Head(<<"data">>) = "data"
        OBVIOUS
      <3>3. todo = <<"free", "data">>
        BY <1>1, <3>1, <3>2, Zenon DEF CreateLeft
      <3> QED
        BY <3>1, <3>3, Tails DEF PoolWritten
    <2> QED
      BY <2>1
  <1>8. ~behind' => OwnBelow(idx.node_pool, append)'
    <2>1. CASE pc = "create"
      BY <1>1, <1>4, <2>1 DEF OwnBelow
    <2>2. CASE pc = "exit"
      BY <1>1, <1>3, <1>7, <2>2 DEF OwnInv, OwnBelow, HasOwn
    <2> QED
      BY <1>1, <2>1, <2>2
  <1>9. ASSUME ~behind', Written(idx_file'.node_pool) # {}
        PROVE  data_file'.head # Junk /\ OwnBelow(idx_file.node_pool, EndOfData)'
    <2>1. ~behind
      BY <1>6, <1>7, <1>9
    <2>2. CASE pc = "create"
      <3>1. Head(todo) # "pool"
        BY <1>3, <1>4, <1>9, <2>2
      <3>2. Head(todo) # "data"
        BY <1>1, <1>3, <1>9, <2>2, <3>1, NextWrite DEF OwnInv
      <3>3. data_file.head # Junk /\ OwnBelow(idx_file.node_pool, EndOfData)
        BY <1>1, <1>3, <1>9, <2>1, <2>2, <3>1 DEF OwnInv
      <3> QED
        BY <1>1, <1>3, <2>2, <3>1, <3>2, <3>3 DEF EndOfData, OwnBelow, HasOwn
    <2>3. CASE pc = "exit"
      <3>1. data_file.head # Junk
        BY <2>3 DEF OwnInv
      <3>2. EndOfData = append /\ EndOfData' = append
        BY <1>1, <2>3 DEF EndOfData
      <3>3. CASE Head(todo) = "pool"
        BY <1>1, <1>2, <1>3, <1>8, <1>9, <3>1, <3>2, <3>3 DEF OwnBelow, HasOwn
      <3>4. CASE Head(todo) # "pool"
        <4>1. OwnBelow(idx_file.node_pool, append)
          BY <1>3, <1>9, <2>1, <2>3, <3>2, <3>4 DEF OwnInv
        <4> QED
          BY <1>2, <1>3, <3>1, <3>2, <3>4, <4>1 DEF OwnBelow, HasOwn
      <3> QED
        BY <3>3, <3>4
    <2> QED
      BY <1>1, <2>2, <2>3
  <1>10. pc = "exit" => data_file'.head # Junk /\ data_file'.head <= append
    BY <1>2, <1>3 DEF OwnInv
  <1>11. pc = "exit" /\ Tail(todo) \in EndWritten => data_file'.head = append
    BY <1>1, <1>3, NextWrite DEF OwnInv
  <1>12. pc = "create" /\ Tail(todo) = <<>> => data_file'.head = append
    <2>1. ASSUME pc = "create", Head(todo) = "head" PROVE Tail(todo) # <<>>
      BY <1>1, <2>1, NextWrite DEF PoolWritten
    <2> QED
      BY <1>1, <1>3, <2>1, NextWrite
  <1> QED
    BY <1>1, <1>4, <1>6, <1>8, <1>9, <1>10, <1>11, <1>12 DEF OwnInv

(* kv_put writes behind the end, kv_delete writes no record.               *)
LEMMA CallsOwn ==
  ASSUME LegacyTypeInv, OwnInv, NEW s \in Signs, (\E v \in Values : Put(s, v)) \/ Delete(s), ~Halt
  PROVE  OwnInv'
  <1>0. Fine(idx) /\ pc = "up" /\ pc' = pc /\ idx_file' = idx_file /\ behind' = behind
    BY DEF LegacyTypeInv, Fine, Put, Delete, files, history
  <1>e. EndOfData = data_file.head /\ EndOfData' = data_file'.head
    BY <1>0 DEF EndOfData
  <1>1. CASE \E v \in Values : Put(s, v)
    <2>1. PICK v \in Values : Put(s, v)
      BY <1>1
    <2>2. /\ FreeNode(idx) \in Ids /\ append \in 1 .. MaxData
          /\ idx' = Inserted(idx, s, append) /\ DataInsert(s, v)
      BY <2>1 DEF Put, LegacyTypeInv, LegacyTypeOK
    <2>3. /\ append' = append + 1 /\ data_file'.head = data_file.head
          /\ data_file'.items[append] = [sign |-> s, value |-> v]
          /\ \A n \in 1 .. MaxData : n # append => data_file'.items[n] = data_file.items[n]
      BY <2>2 DEF DataInsert, LegacyTypeInv, DataFile
    <2>4. /\ append \in Int /\ append + 1 \in Int /\ append <= append + 1
          /\ \A n \in 1 .. MaxData : n < append => data_file'.items[n] = data_file.items[n]
      BY <2>2, <2>3
    <2>5. ~behind => \A id \in Written(idx.node_pool) :
            /\ idx.node_pool[id].value_offset < append + 1
            /\ data_file'.items[idx.node_pool[id].value_offset]
                 \in [sign : {idx.node_pool[id].key_sign}, value : Values]
      BY <2>4, OffsetsTyped, OwnKept DEF OwnInv
    <2>6. ~behind => OwnBelow(idx.node_pool, append)'
      <3> SUFFICES ASSUME ~behind, NEW id \in Written(idx'.node_pool)
                   PROVE  /\ idx'.node_pool[id].value_offset < append + 1
                          /\ data_file'.items[idx'.node_pool[id].value_offset]
                               \in [sign : {idx'.node_pool[id].key_sign}, value : Values]
        BY <2>3 DEF OwnBelow, HasOwn
      <3>1. /\ Written(idx'.node_pool) = Written(idx.node_pool) \cup {FreeNode(idx)}
            /\ idx'.node_pool[FreeNode(idx)].key_sign = s
            /\ idx'.node_pool[FreeNode(idx)].value_offset = append
            /\ \A n \in Written(idx.node_pool) : n # FreeNode(idx) =>
                 /\ idx'.node_pool[n].key_sign = idx.node_pool[n].key_sign
                 /\ idx'.node_pool[n].value_offset = idx.node_pool[n].value_offset
        BY <1>0, <2>2, InsertIs
      <3>2. CASE id = FreeNode(idx)
        BY <2>3, <2>4, <3>1, <3>2
      <3>3. CASE id # FreeNode(idx)
        <4>1. id \in Written(idx.node_pool)
          BY <3>1, <3>3
        <4>2. idx'.node_pool[id].key_sign = idx.node_pool[id].key_sign
          BY <3>1, <3>3, <4>1
        <4>3. idx'.node_pool[id].value_offset = idx.node_pool[id].value_offset
          BY <3>1, <3>3, <4>1
        <4> QED
          BY <2>5, <4>1, <4>2, <4>3
      <3> QED
        BY <3>2, <3>3
    <2>7. data_file.head # Junk /\ data_file.head \in Int /\ data_file.head <= append
      BY <1>0, OffsetsTyped DEF OwnInv
    <2>8. ~behind /\ Written(idx_file.node_pool) # {} => OwnBelow(idx_file.node_pool, data_file.head)'
      <3> SUFFICES ASSUME ~behind, Written(idx_file.node_pool) # {}
                   PROVE  OwnBelow(idx_file.node_pool, data_file.head)'
        OBVIOUS
      <3>1. OwnBelow(idx_file.node_pool, data_file.head)
        BY <1>0, <1>e DEF OwnInv
      <3>2. \A n \in 1 .. MaxData : n < data_file.head => data_file'.items[n] = data_file.items[n]
        BY <2>4, <2>7
      <3>3. data_file.head <= data_file.head
        BY <2>7
      <3>4. \A id \in Written(idx_file.node_pool) :
              /\ idx_file.node_pool[id].value_offset < data_file.head
              /\ data_file'.items[idx_file.node_pool[id].value_offset]
                   \in [sign : {idx_file.node_pool[id].key_sign}, value : Values]
        BY <2>7, <3>1, <3>2, <3>3, OffsetsTyped, OwnKept
      <3> QED
        BY <1>0, <2>3, <3>4 DEF OwnBelow, HasOwn
    <2>9. OwnBelow(idx_file.node_pool, data_file.head)' => OwnBelow(idx_file.node_pool, EndOfData)'
      BY <1>e DEF OwnBelow, HasOwn
    <2> QED
      BY <1>0, <2>3, <2>4, <2>6, <2>7, <2>8, <2>9 DEF OwnInv
  <1>2. CASE Delete(s)
    <2>1. /\ Found(idx, s) \in Ids /\ idx.free_count < FreeRoom /\ idx' = Deleted(idx, s)
          /\ append' = append /\ data_file' = data_file
      BY <1>2 DEF Delete, files
    <2>2. SameNodes(idx, idx')
      BY <1>0, <2>1, DeleteIs
    <2>3. ~behind => OwnBelow(idx.node_pool, append)'
      BY <2>1, <2>2 DEF OwnInv, OwnBelow, HasOwn, SameNodes
    <2>4. OwnBelow(idx_file.node_pool, EndOfData)' = OwnBelow(idx_file.node_pool, EndOfData)
      BY <1>0, <1>e, <2>1 DEF OwnBelow, HasOwn
    <2> QED
      BY <1>0, <2>1, <2>3, <2>4 DEF OwnInv
  <1> QED
    BY <1>1, <1>2

(* Every action.                                                           *)
LEMMA OwnStep == LegacyTypeInv /\ OwnInv /\ [Next]_vars => OwnInv'
  <1> SUFFICES ASSUME LegacyTypeInv, OwnInv, [Next]_vars PROVE OwnInv'
    OBVIOUS
  <1>1. CASE Create
    <2>1. Written(idx'.node_pool) = {}
      BY <1>1, NoIndexIs DEF Create
    <2>2. <<"head", "pool", "heads", "free", "data">> \notin PoolWritten
      BY DEF PoolWritten
    <2>3. todo' = <<"head", "pool", "heads", "free", "data">>
      BY <1>1, TodoMoves DEF Create
    <2>4. todo' # <<>> /\ pc = "down" /\ pc' = "create" /\ behind' = behind
      BY <1>1, <2>3 DEF Create, CanOpen, history
    <2>5. UNCHANGED <<idx_file, data_file>>
      BY <1>1 DEF Create, files
    <2>6. OwnBelow(idx_file.node_pool, EndOfData)' = OwnBelow(idx_file.node_pool, EndOfData)
      BY <2>4, <2>5 DEF OwnBelow, HasOwn, EndOfData
    <2>7. OwnBelow(idx.node_pool, append)'
      BY <2>1 DEF OwnBelow
    <2> QED
      BY <1>1, <2>2, <2>3, <2>4, <2>5, <2>6, <2>7 DEF Create, DataCreate, OwnInv
  <1>2. CASE Load
    <2>1. /\ data_file.head # Junk /\ append' = data_file.head /\ pc = "down" /\ pc' = "up"
          /\ idx'.node_pool = idx_file.node_pool /\ idx_file' = idx_file /\ data_file' = data_file
          /\ behind' = behind
      BY <1>2 DEF Load, DataLoad, CanOpen, files, history
    <2>2. EndOfData = data_file.head /\ EndOfData' = data_file.head
      BY <2>1 DEF EndOfData
    <2>3. ~behind => OwnBelow(idx.node_pool, append)'
      BY <2>1, <2>2 DEF OwnInv, OwnBelow, HasOwn
    <2>4. OwnBelow(idx_file.node_pool, EndOfData)' = OwnBelow(idx_file.node_pool, EndOfData)
      BY <2>1, <2>2 DEF OwnBelow, HasOwn
    <2>5. data_file.head <= data_file.head
      BY <2>1, OffsetsTyped
    <2> QED
      BY <2>1, <2>3, <2>4, <2>5 DEF OwnInv
  <1>3. CASE Exit
    <2>1. pc = "up" /\ pc' = "exit" /\ todo' \in Exits /\ UNCHANGED <<idx, append, files, behind>>
      BY <1>3 DEF Exit, history
    <2>2. todo' \notin EndWritten
      <3>1. /\ <<"data", "head", "pool", "heads", "free">> \notin EndWritten
            /\ <<"head", "pool", "heads", "free", "data">> \notin EndWritten
            /\ <<"data">> \notin EndWritten
        BY DEF EndWritten
      <3> QED
        BY <2>1, <3>1, TodoMoves, Zenon
    <2>3. data_file.head # Junk /\ data_file.head <= append /\ data_file.head \in Int /\ append \in Int
      BY <2>1, OffsetsTyped DEF OwnInv
    <2>4. EndOfData = data_file.head /\ EndOfData' = append'
      BY <2>1 DEF EndOfData
    <2>5. ~behind /\ Written(idx_file.node_pool) # {} => OwnBelow(idx_file.node_pool, append)
      BY <2>1, <2>3, <2>4, OffsetsTyped, OwnGrows DEF OwnInv
    <2>6. OwnBelow(idx_file.node_pool, append) => OwnBelow(idx_file.node_pool, EndOfData)'
      BY <2>1, <2>4, FilesOwn DEF OwnBelow, HasOwn
    <2> QED
      BY <2>1, <2>2, <2>3, <2>5, <2>6, FilesOwn DEF OwnInv
  <1>4. CASE Write
    BY <1>4, WriteOwn
  <1>5. CASE Opened
    <2>1. pc = "create" /\ todo = <<>> /\ pc' = "up" /\ UNCHANGED <<idx, append, files, behind>>
      BY <1>5 DEF Opened, history
    <2>2. data_file.head = append /\ append \in Int /\ append # Junk /\ append <= append
      BY <2>1, OffsetsTyped, LegacyFacts DEF OwnInv, LegacyTypeInv, LegacyTypeOK
    <2>3. Written(idx_file.node_pool) = {}
      BY <2>1 DEF OwnInv, PoolWritten
    <2> QED
      BY <2>1, <2>2, <2>3, FilesOwn DEF OwnInv
  <1>6. CASE Closed
    <2>1. /\ pc = "exit" /\ todo = <<>> /\ pc' = "down" /\ Forget
          /\ UNCHANGED <<files, behind>>
      BY <1>6 DEF Closed, history
    <2>2. data_file.head = append /\ append \in Int
      BY <2>1, OffsetsTyped DEF OwnInv, EndWritten
    <2>3. ~behind => ~Ahead
      <3>1. ASSUME ~behind, NEW id \in Written(idx_file.node_pool)
            PROVE  ~(idx_file.node_pool[id].value_offset >= data_file.head)
        <4>1. idx_file.node_pool[id].value_offset < append
          BY <2>1, <3>1 DEF OwnInv, EndOfData, OwnBelow, HasOwn
        <4>2. idx_file.node_pool[id].value_offset \in Int
          BY OffsetsTyped, LegacyFacts
        <4> QED
          BY <2>2, <4>1, <4>2
      <3> QED
        BY <3>1 DEF Ahead, Written
    <2> QED
      BY <2>1, <2>3, ForgetOwn
  <1>7. CASE Die
    BY <1>7, ForgetOwn DEF Die
  <1>8. ASSUME NEW s \in Signs, (\E v \in Values : Put(s, v)) \/ Delete(s) PROVE OwnInv'
    <2>1. CASE Halt
      BY <2>1, HaltOwn
    <2>2. CASE ~Halt
      BY <1>8, <2>2, CallsOwn
    <2> QED
      BY <2>1, <2>2
  <1>9. CASE SaveOverrun \/ LoadOverrun
    BY <1>9, HaltOwn DEF SaveOverrun, LoadOverrun
  <1>10. CASE UNCHANGED vars
    <2>1. UNCHANGED <<pc, idx, append, files, behind, todo>>
      BY <1>10 DEF vars, history
    <2>2. OwnBelow(idx_file.node_pool, EndOfData)' = OwnBelow(idx_file.node_pool, EndOfData)
      BY <2>1 DEF OwnBelow, HasOwn, EndOfData, files
    <2> QED
      BY <2>1, <2>2, FilesOwn DEF OwnInv
  <1> QED
    BY <1>1, <1>2, <1>3, <1>4, <1>5, <1>6, <1>7, <1>8, <1>9, <1>10 DEF Next

(* What kv_get returns for a key is a record of that key, or nothing, with *)
(* any number of saves cut short between any two writes and any mixture of *)
(* their parts in the file, unless a process died while the index was      *)
(* ahead of the data file's header: a place goes into a node together with *)
(* its sign, and none below the end is written again.                      *)
THEOREM OldEngineShowsOwn == Spec => []ShowsOwn
  <1>1. LegacyTypeInv /\ OwnInv => ShowsOwn
    <2> SUFFICES ASSUME LegacyTypeInv, OwnInv, ~behind, NEW s \in Signs, Lookup(s) # Junk
                 PROVE  Lookup(s).sign = s
      BY DEF ShowsOwn
    <2>1. /\ Found(idx, s) \in Written(idx.node_pool)
          /\ idx.node_pool[Found(idx, s)].key_sign = s
          /\ Lookup(s) = data_file.items[idx.node_pool[Found(idx, s)].value_offset]
      BY LookupIs
    <2>2. HasOwn(idx.node_pool[Found(idx, s)], append)
      BY <2>1 DEF OwnInv, OwnBelow
    <2> QED
      BY <2>1, <2>2 DEF HasOwn
  <1> QED
    BY <1>1, LegacyTypeInit, LegacyTypeStep, OwnInit, OwnStep, PTL DEF Spec
=============================================================================
