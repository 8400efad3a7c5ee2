---------------------------- MODULE EngineProofs ----------------------------
(***************************************************************************)
(* Proofs about HashEngine and its files, on top of those about INDEX: for *)
(* every number of keys, nodes and records, with failing writes and with a *)
(* process that may die between any two writes.                            *)
(***************************************************************************)
EXTENDS EngineProps, IndexMapProofs

------------------------------------------------------------------------------
(* The invariants *)

(* The meta file's items as a record, and the limits of a Put on its way.  *)
EngineTypeInv ==
  /\ TypeInv /\ EngineTypeOK
  /\ meta \in [item : [Positions -> Node], horizon : 0 .. NumItems, slots : Seq(Positions)]
  /\ engine = "put" => last_offset < MaxData /\ arg \in [key : Keys, value : Values]

(* Which call of the engine an index handler runs for.                     *)
Serves ==
  /\ pc \in {"idle", "halted"} <=> op = "none"
  /\ op \in {"none", "insert", "delete", "load"}
  /\ op = "insert" =>
       engine = "put" /\ status = "Pending" /\ new = FillItem(arg.key, last_offset)
  /\ op = "delete" => engine = "delete"
  /\ op = "load" => engine = "open"
  /\ pc = "load" => op = "load"

(* The record of a node is in the data file; where writes may fail, its    *)
(* place may have been left empty, but has been given away all the same:   *)
(* no write is to come there.  To an engine that is being opened the file  *)
(* is all that is given away, to one that is down nothing is yet.          *)
NoEngine == engine \in {"down", "create"}
End == IF engine = "open" THEN Len(data) ELSE last_offset
InDataFile(n) == n.place \in Places /\ n.place < Len(data) /\ data[n.place + 1].key = n.key
Given(n) ==
  /\ n.place \in Places /\ RecordAt(n.place).key \in {n.key, OffsetFeb31}
  /\ n.place < End \/ NoEngine
HasRecord(n) == IF Fails THEN Given(n) ELSE InDataFile(n)

(* The node that the Put on its way has just linked.                       *)
Fresh(n) == engine = "put" /\ status = "Ok" /\ n.key = arg.key /\ n.place = last_offset

Named(n) == n.key # OffsetFeb31
Apart(n, m) == Named(n) /\ Named(m) /\ n.key # m.key => n.place # m.place
Fits(nodes) ==
  /\ \A i \in Positions : Named(nodes[i]) => HasRecord(nodes[i])
  /\ \A i, j \in Positions : Apart(nodes[i], nodes[j])

(* The nodes in memory and in the meta file, each as long as it is not     *)
(* astray, and the node that Load is inserting anew.                       *)
NodesPlaced ==
  "index" \notin astray =>
    \A i \in Positions : Named(item[i]) => HasRecord(item[i]) \/ Fresh(item[i])
PlacesApart == "index" \notin astray => \A i, j \in Positions : Apart(item[i], item[j])
LoadPlaced ==
  "index" \notin astray /\ op = "load" /\ pc = "walk" /\ Named(new) =>
    HasRecord(new) /\ \A i \in Positions : Apart(item[i], new)
MetaPlaced == "files" \notin astray => Fits(meta.item)

(* Space is used up behind the end of the file, which failed writes leave  *)
(* behind.  No write that fails, nothing astray.                           *)
NextOffset ==
  /\ Running => IF Fails THEN Len(data) <= last_offset ELSE Len(data) = last_offset
  /\ NoEngine => \A i \in Positions : ~Named(item[i])
  /\ engine = "create" => \A i \in Positions : ~Named(meta.item[i])
  /\ ~Fails => astray = {}

PlaceInv == Serves /\ NodesPlaced /\ LoadPlaced /\ MetaPlaced /\ PlacesApart /\ NextOffset

Solids ==
  {"solid index", "solid slots", "solid slots horizon", "solid horizon", "solid end"}

(* How far a Solid has come: what it wrote is what the index still has.    *)
SolidInv ==
  /\ engine \in {"ready"} \cup Solids => pc = "idle"
  /\ engine \in Solids \ {"solid index"} => "index" \in files /\ meta.item = item
  /\ engine \in {"solid slots horizon", "solid horizon", "solid end"} => "slots" \in files
  /\ engine \in {"solid horizon", "solid end"} =>
       "slots horizon" \in files /\ meta.slots = free_slots
  /\ engine = "solid end" => "horizon" \in files /\ meta.horizon = item_horizon

------------------------------------------------------------------------------
(* What the engine does to its index *)

(* What the assumptions say of places, values and keys.                    *)
LEMMA EngineFacts ==
  /\ MaxData \in Nat /\ Places = 0 .. MaxData - 1 /\ NoPlace \notin Places
  /\ NoValue \notin Values /\ NoValue \notin [Keys -> Values \cup {NoValue}]
  /\ Keys \subseteq NodeKeys /\ Covers \subseteq BOOLEAN
  BY EngineAssumption, IndexAssumption DEF NodeKeys

(* Open hands the index what the meta file holds.                          *)
Reopens ==
  /\ OpenFiles
  /\ \E size \in LoadSizes : StartLoad(size, meta.item, meta.horizon, meta.slots)

(* An index that is made anew is as in the beginning.                      *)
LEMMA NewIndexIsInit == NewIndex => Init'
  <1> SUFFICES ASSUME NewIndex PROVE Init'
    OBVIOUS
  <1>1. /\ item' = [n \in Positions |-> NoItem]
        /\ hash_head_size' = HeadSize
        /\ hash_head' = [b \in 0 .. HeadSize - 1 |-> OffsetFeb31]
        /\ item_horizon' = 0 /\ free_slots' = <<>>
        /\ status' = "Ok" /\ found' = NoPlace
    BY DEF NewIndex, Blank, Heads
  <1>2. /\ pc' = "idle" /\ op' = "none" /\ cover' = FALSE /\ new' = NoItem
        /\ node_id' = OffsetFeb31 /\ nearest_id' = OffsetFeb31
        /\ pre_node_ptr' = NoLocation
        /\ load_i' = 0 /\ load_horizon' = 0
    BY DEF NewIndex, Leave
  <1> QED
    BY <1>1, <1>2 DEF Init

(* Every step of the engine is a step of its index, leaves it alone, makes *)
(* it anew or opens it from the file.                                      *)
LEMMA IndexMoves ==
  ASSUME EngineTypeInv, [EngineNext]_all
  PROVE  [Next]_vars \/ Init' \/ Reopens
  <1>1. CASE IndexStep
    BY <1>1 DEF IndexStep, Next
  <1>2. CASE CreateData \/ Die
    BY <1>2, NewIndexIsInit DEF CreateData, Die, Lose
  <1>3. CASE OpenFiles
    BY <1>3 DEF OpenFiles, Reopens
  <1>4. ASSUME NEW k \in Keys, NEW v \in Values, NEW c \in Covers, Put(k, v, c) PROVE CallInsert
    <2>1. last_offset \in Places
      BY <1>4, EngineFacts DEF Put, EngineTypeInv, EngineTypeOK
    <2>2. Call("insert", c, FillItem(k, last_offset))
      BY <1>4 DEF Put
    <2> QED
      BY <2>1, <2>2 DEF CallInsert
  <1>5. ASSUME NEW k \in Keys, Delete(k) PROVE CallDelete
    BY <1>5 DEF Delete, CallDelete
  <1>6. CASE \/ CreateMeta \/ OpenEnd \/ PutRefused \/ PutWrite \/ DeleteEnd
             \/ SolidConf \/ SolidIndex \/ SolidSlots \/ SolidSlotsHorizon \/ SolidHorizon
             \/ SolidEnd \/ UNCHANGED all
    BY <1>6 DEF CreateMeta, OpenEnd, PutRefused, PutWrite, DeleteEnd, SolidConf, SolidIndex,
                SolidSlots, SolidSlotsHorizon, SolidHorizon, SolidEnd, SolidItem, Persists, all
  <1> QED
    BY <1>1, <1>2, <1>3, <1>4, <1>5, <1>6 DEF EngineNext, User, Steps, Next, Caller

(* What is read from the meta file is as well typed as what was written.   *)
LEMMA ReopenTyped ==
  ASSUME EngineTypeInv, Reopens
  PROVE  TypeInv'
  <1>1. PICK size \in LoadSizes : StartLoad(size, meta.item, meta.horizon, meta.slots)
    BY DEF Reopens
  <1>2. /\ size \in Nat \ {0} /\ NumItems \in Nat /\ "load" \in Ops
        /\ meta.item \in [Positions -> Node] /\ meta.horizon \in 0 .. NumItems
        /\ meta.slots \in Seq(Positions) /\ NoItem \in Node /\ NoItem.key = OffsetFeb31
    BY <1>1, IndexAssumption, NullFacts
    DEF EngineTypeInv, EngineTypeOK, StartLoad, Enter, NoItem, FillItem
  <1>3. TypeOK'
    <2>1. /\ item' \in [Positions -> Node]
          /\ hash_head_size' \in Nat \ {0}
          /\ hash_head' \in [0 .. hash_head_size' - 1 -> Pointer]
          /\ item_horizon' \in 0 .. NumItems /\ free_slots' \in Seq(Positions)
          /\ load_i' \in 0 .. NumItems /\ load_horizon' \in 0 .. NumItems
      BY <1>1, <1>2 DEF StartLoad, Pointer
    <2>2. pre_node_ptr' = NoLocation /\ UNCHANGED cursor
      BY <1>1 DEF StartLoad, Enter, cursor, EngineTypeInv, TypeInv
    <2>3. pre_node_ptr' \in Location /\ pre_node_ptr'.at = "head" /\ pre_node_ptr'.of = 0
          /\ 0 \in 0 .. hash_head_size' - 1
      BY <2>1, <2>2 DEF NoLocation, Location
    <2> QED
      BY <1>1, <1>2, <2>1, <2>2, <2>3
      DEF StartLoad, Enter, cursor, TypeOK, EngineTypeInv, TypeInv
  <1>4. pc' = "load"
    BY <1>1 DEF StartLoad
  <1> QED
    BY <1>3, <1>4 DEF TypeInv

(* So the index keeps its types in whatever the engine does.               *)
LEMMA IndexTyped == EngineTypeInv /\ [EngineNext]_all => TypeInv'
  <1>1. Init' => TypeInv'
    BY TypeInit, PTL
  <1>2. ASSUME EngineTypeInv, [EngineNext]_all PROVE TypeInv'
    BY <1>1, <1>2, IndexMoves, ReopenTyped, TypeStep DEF EngineTypeInv
  <1> QED
    BY <1>2

------------------------------------------------------------------------------
(* Lemmas about the operators *)

(* What the index answers is the place of a node with the key.             *)
PlaceIsOfNode ==
  \A k \in NodeKeys :
    /\ PlaceOf(k) \in Places \cup {NoPlace}
    /\ PlaceOf(k) # NoPlace =>
         \E i \in Positions : item[i].key = k /\ item[i].place = PlaceOf(k)

(* A search ends at a position, or at the null one.                        *)
LEMMA PlaceOfNode == TypeOK => PlaceIsOfNode
  <1> SUFFICES ASSUME TypeOK, NEW k \in NodeKeys
               PROVE  /\ PlaceOf(k) \in Places \cup {NoPlace}
                      /\ PlaceOf(k) # NoPlace =>
                           \E i \in Positions : item[i].key = k /\ item[i].place = PlaceOf(k)
    BY DEF PlaceIsOfNode
  <1> DEFINE n == Trail(k)[NumItems]
  <1>1. n \in Pointer
    <2>1. Trail(k) \in [0 .. NumItems -> Pointer] /\ NumItems \in 0 .. NumItems
      BY TrailSteps, IndexAssumption DEF TrailsStep
    <2> QED
      BY <2>1
  <1>2. PlaceOf(k) = IF n # OffsetFeb31 /\ item[n].key = k THEN item[n].place ELSE NoPlace
    BY DEF PlaceOf
  <1> HIDE DEF n
  <1> QED
    BY <1>1, <1>2 DEF Pointer, TypeOK, Node

(* Records of the clients, and the hole.                                   *)
Records == [key : Keys, value : Values] \cup {Hole}

(* A hole has no key of a client and no value.                             *)
LEMMA HoleFacts == Hole.key = OffsetFeb31 /\ Hole.value = NoValue /\ Hole \in Records
  BY DEF Hole, Record, Records

(* The record at an offset, whether or not the file reaches that far.      *)
LEMMA ReadTyped ==
  ASSUME data \in Seq(Records), NEW off \in Nat
  PROVE  /\ RecordAt(off) \in Records
         /\ RecordAt(off).key \in Keys \cup {OffsetFeb31}
         /\ RecordAt(off).value \in Values \cup {NoValue}
         /\ off >= Len(data) => RecordAt(off) = Hole
         /\ off < Len(data) => RecordAt(off) = data[off + 1]
  <1>1. Len(data) \in Nat /\ \A i \in 1 .. Len(data) : data[i] \in Records
    BY ElementOfSeq
  <1>2. /\ off >= Len(data) => RecordAt(off) = Hole
        /\ off < Len(data) => RecordAt(off) = data[off + 1]
    BY <1>1 DEF RecordAt
  <1>3. RecordAt(off) \in Records
    BY <1>1, <1>2, HoleFacts
  <1> QED
    BY <1>2, <1>3, HoleFacts DEF Records

(* A write lands at its offset and leaves the other records alone; a gap   *)
(* before it is a hole.                                                    *)
LEMMA WriteDoes ==
  ASSUME NEW off \in Nat, NEW rec \in Records, data \in Seq(Records), data' = Written(data, off, rec)
  PROVE  /\ data' \in Seq(Records)
         /\ Len(data') = IF off < Len(data) THEN Len(data) ELSE off + 1
         /\ RecordAt(off)' = rec
         /\ \A o \in Nat \ {off} : RecordAt(o)' = RecordAt(o)
         /\ \A o \in Nat : o < Len(data) /\ o # off => data'[o + 1] = data[o + 1]
  <1> DEFINE n == IF off < Len(data) THEN Len(data) ELSE off + 1
             W(i) == IF i = off + 1 THEN rec ELSE IF i <= Len(data) THEN data[i] ELSE Hole
  <1>1. Len(data) \in Nat /\ \A i \in 1 .. Len(data) : data[i] \in Records
    BY ElementOfSeq
  <1>2. n \in Nat /\ off < n /\ off + 1 \in 1 .. n /\ Len(data) <= n
    BY <1>1
  <1>3. data' = [i \in 1 .. n |-> W(i)]
    BY DEF Written
  <1>4. \A i \in 1 .. n : W(i) \in Records
    BY <1>1, <1>2, HoleFacts
  <1>5. \A i \in 1 .. n : data'[i] = W(i)
    BY <1>3
  <1>6. data' \in Seq(Records) /\ Len(data') = n
    <2> HIDE DEF W, n
    <2>1. [i \in 1 .. n |-> W(i)] \in [1 .. n -> Records]
      BY <1>4
    <2>2. data' \in [1 .. n -> Records]
      BY <1>3, <2>1
    <2> QED
      BY <1>2, <2>2
  <1>7. ASSUME NEW o \in Nat PROVE RecordAt(o)' = IF o = off THEN rec ELSE RecordAt(o)
    <2>1. RecordAt(o)' = IF o >= n THEN Hole ELSE data'[o + 1]
      BY <1>6 DEF RecordAt, Hole, Record
    <2>2. RecordAt(o) = IF o >= Len(data) THEN Hole ELSE data[o + 1]
      BY DEF RecordAt
    <2>3. CASE o >= n
      BY <1>1, <1>2, <2>1, <2>2, <2>3
    <2>4. CASE o < n
      <3>1. o + 1 \in 1 .. n /\ data'[o + 1] = W(o + 1)
        BY <1>2, <1>5, <2>4
      <3> QED
        BY <1>1, <1>2, <2>1, <2>2, <2>4, <3>1
    <2> QED
      BY <1>2, <2>3, <2>4
  <1>8. ASSUME NEW o \in Nat, o < Len(data), o # off PROVE data'[o + 1] = data[o + 1]
    <2>1. o + 1 \in 1 .. n /\ o + 1 <= Len(data) /\ o + 1 # off + 1
      BY <1>1, <1>2, <1>8
    <2> QED
      BY <1>5, <2>1
  <1>9. RecordAt(off)' = rec /\ \A o \in Nat \ {off} : RecordAt(o)' = RecordAt(o)
    BY <1>7
  <1> QED
    BY <1>6, <1>8, <1>9

(* The map in memory is a map of keys to values.                           *)
LEMMA StoredTyped ==
  EngineTypeOK => /\ Stored \in [Keys -> Values \cup {NoValue}]
                  /\ \A k \in Keys : Lookup(k).value \in Values \cup {NoValue}
  <1> SUFFICES ASSUME EngineTypeOK
               PROVE  /\ Stored \in [Keys -> Values \cup {NoValue}]
                      /\ \A k \in Keys : Lookup(k).value \in Values \cup {NoValue}
    OBVIOUS
  <1>1. data \in Seq(Records) /\ arg \in Records /\ TypeOK
    BY DEF EngineTypeOK, Records
  <1>2. arg.value \in Values \cup {NoValue}
    BY <1>1, HoleFacts DEF Records
  <1>3. ASSUME NEW k \in Keys PROVE Lookup(k).value \in Values \cup {NoValue}
    <2>1. PlaceOf(k) = NoPlace \/ PlaceOf(k) \in Nat
      BY <1>1, PlaceOfNode, EngineFacts DEF PlaceIsOfNode
    <2>2. PlaceOf(k) \in Nat => RecordAt(PlaceOf(k)).value \in Values \cup {NoValue}
      BY <1>1, ReadTyped
    <2> QED
      BY <2>1, <2>2, HoleFacts DEF Lookup
  <1> QED
    BY <1>2, <1>3 DEF Stored

------------------------------------------------------------------------------
(* Types *)

(* No engine, no files.                                                    *)
LEMMA EngineTypeInit == EngineInit => EngineTypeInv
  <1> SUFFICES ASSUME EngineInit PROVE EngineTypeInv
    OBVIOUS
  <1>1. TypeInv
    BY TypeInit DEF EngineInit
  <1>2. meta \in [item : [Positions -> Node], horizon : 0 .. NumItems, slots : Seq(Positions)]
    <2>1. Blank.item \in [Positions -> Node]
      BY NullFacts DEF Blank
    <2>2. 0 \in 0 .. NumItems /\ <<>> \in Seq(Positions)
      BY IndexAssumption
    <2> QED
      BY <2>1, <2>2 DEF EngineInit, Blank
  <1>3. /\ last_offset \in 0 .. MaxData
        /\ data \in Seq([key : Keys, value : Values] \cup {Hole}) /\ Len(data) <= MaxData
    BY EngineFacts DEF EngineInit
  <1>4. EngineTypeOK
    BY <1>1, <1>2, <1>3 DEF EngineTypeOK, EngineInit, TypeInv
  <1> QED
    BY <1>1, <1>2, <1>4 DEF EngineTypeInv, EngineInit

(* What the user asks for.                                                 *)
LEMMA UserTyped ==
  ASSUME EngineTypeInv, User
  PROVE  EngineTypeInv'
  <1>0. /\ TypeInv' /\ EngineTypeOK /\ Stored \in [Keys -> Values \cup {NoValue}]
        /\ NoEntries \in [Keys -> Values \cup {NoValue}]
    BY IndexTyped, StoredTyped DEF EngineTypeInv, EngineNext, NoEntries
  <1>1. CASE CreateMeta
    <2>1. meta' \in [item : [Positions -> Node], horizon : 0 .. NumItems, slots : Seq(Positions)]
      <3>1. Blank.item \in [Positions -> Node]
        BY NullFacts DEF Blank
      <3>2. 0 \in 0 .. NumItems /\ <<>> \in Seq(Positions)
        BY IndexAssumption
      <3> QED
        BY <1>1, <3>1, <3>2 DEF CreateMeta, Blank
    <2>2. files' \subseteq MetaItems \cup {"data"}
      BY <1>1 DEF CreateMeta, BlankSolid, EngineTypeInv, EngineTypeOK
    <2>3. EngineTypeOK'
      BY <1>0, <1>1, <2>1, <2>2 DEF CreateMeta, Goto, Busy, EngineTypeOK, TypeInv
    <2> QED
      BY <1>0, <1>1, <2>1, <2>3 DEF CreateMeta, Goto, EngineTypeInv
  <1>2. CASE OpenFiles
    <2>1. EngineTypeOK'
      BY <1>0, <1>2 DEF OpenFiles, Goto, Busy, EngineTypeOK, TypeInv, disk
    <2> QED
      BY <1>0, <1>2, <2>1 DEF OpenFiles, Goto, EngineTypeInv, disk
  <1>3. CASE SolidConf
    <2>1. engine' \in {"solid index", "ready"} /\ meta' = meta /\ durable' \in {durable, durable \cup {Stored}}
      BY <1>3 DEF SolidConf, Persists, Saves, Goto
    <2>2. EngineTypeOK'
      BY <1>0, <1>3, <2>1 DEF SolidConf, Persists, Busy, EngineTypeOK, TypeInv
    <2> QED
      BY <1>0, <1>3, <2>1, <2>2 DEF SolidConf, Persists, EngineTypeInv
  <1>4. ASSUME NEW k \in Keys, Delete(k) PROVE EngineTypeInv'
    <2>1. EngineTypeOK'
      BY <1>0, <1>4 DEF Delete, Goto, Busy, EngineTypeOK, TypeInv, disk, history
    <2> QED
      BY <1>0, <1>4, <2>1 DEF Delete, Goto, EngineTypeInv, disk
  <1>5. ASSUME NEW k \in Keys, NEW v \in Values, NEW c \in Covers, Put(k, v, c)
        PROVE  EngineTypeInv'
    <2>1. arg' \in [key : Keys, value : Values]
      BY <1>5 DEF Put, Record
    <2>2. EngineTypeOK'
      BY <1>0, <1>5, <2>1 DEF Put, Goto, Busy, EngineTypeOK, TypeInv, disk, history
    <2> QED
      BY <1>0, <1>5, <2>1, <2>2 DEF Put, Goto, EngineTypeInv, disk
  <1> QED
    BY <1>1, <1>2, <1>3, <1>4, <1>5 DEF User

(* What the engine does by itself, and its end.                            *)
LEMMA WorkTyped ==
  ASSUME EngineTypeInv, Steps \/ Die
  PROVE  EngineTypeInv'
  <1>0. /\ TypeInv' /\ EngineTypeOK /\ Stored \in [Keys -> Values \cup {NoValue}]
        /\ Len(data) \in Nat /\ Len(data) <= MaxData /\ MaxData \in Nat
    <2>1. TypeInv' /\ EngineTypeOK
      BY IndexTyped DEF EngineTypeInv, EngineNext
    <2>2. Len(data) \in Nat
      BY <2>1, LenProperties DEF EngineTypeOK
    <2> QED
      BY <2>1, <2>2, StoredTyped, EngineFacts DEF EngineTypeOK
  <1>1. CASE IndexStep \/ OpenEnd \/ PutRefused \/ DeleteEnd \/ CreateData
    <2>1. /\ UNCHANGED <<data, meta, durable, astray>> /\ engine' \in {engine, "ready"}
          /\ last_offset' \in {last_offset, Len(data)}
          /\ engine' = "put" => engine = "put" /\ last_offset' = last_offset /\ arg' = arg
          /\ arg' \in {arg, Hole}
          /\ files' \subseteq files \cup {"data"}
      BY <1>1 DEF IndexStep, OpenEnd, PutRefused, PutReturns, DeleteEnd, CreateData, FileEnd,
                  BlankSolid, Goto, memory, disk, history
    <2>2. last_offset' \in 0 .. MaxData
      BY <1>0, <2>1 DEF EngineTypeOK
    <2>3. EngineTypeOK'
      BY <1>0, <2>1, <2>2 DEF EngineTypeOK, TypeInv
    <2> QED
      BY <1>0, <2>1, <2>3 DEF EngineTypeInv
  <1>2. CASE PutWrite
    <2>1. /\ last_offset \in 0 .. MaxData /\ last_offset < MaxData /\ arg \in Records
          /\ data \in Seq(Records)
      BY <1>2 DEF PutWrite, EngineTypeInv, EngineTypeOK, Records
    <2>2. data' = data \/ data' = Written(data, last_offset, arg)
      BY <1>2 DEF PutWrite
    <2>3. last_offset' \in 0 .. MaxData
      BY <1>0, <1>2, <2>1 DEF PutWrite, SetUse
    <2>4. data' \in Seq(Records) /\ Len(data') <= MaxData
      <3>1. CASE data' = data
        BY <1>0, <2>1, <3>1
      <3>2. CASE data' = Written(data, last_offset, arg)
        <4>1. last_offset \in Nat
          BY <2>1
        <4>2. /\ data' \in Seq(Records)
              /\ Len(data') = IF last_offset < Len(data) THEN Len(data) ELSE last_offset + 1
          BY <2>1, <3>2, <4>1, WriteDoes
        <4> QED
          BY <1>0, <2>1, <4>2
      <3> QED
        BY <2>2, <3>1, <3>2
    <2>5. UNCHANGED <<meta, files, durable, astray>> /\ engine' = "ready" /\ arg' = Hole
      BY <1>2 DEF PutWrite, PutReturns, Goto, history
    <2>6. EngineTypeOK'
      BY <1>0, <2>3, <2>4, <2>5 DEF EngineTypeOK, TypeInv, Records, Hole, Record
    <2> QED
      BY <1>0, <2>5, <2>6 DEF EngineTypeInv
  <1>3. CASE SolidIndex \/ SolidSlots \/ SolidSlotsHorizon \/ SolidHorizon
    <2>1. /\ UNCHANGED <<arg, last_offset, data, files, durable>>
          /\ engine' \in (Solids \ {"solid index"}) \cup {"ready"}
          /\ astray' \in {astray, {"index", "files"}}
          /\ meta' \in {meta, [meta EXCEPT !.item = item], [meta EXCEPT !.slots = free_slots],
                        [meta EXCEPT !.horizon = item_horizon]}
               \cup {[meta EXCEPT !.slots = s] : s \in OldHorizon(free_slots, meta.slots)}
      BY <1>3
      DEF SolidIndex, SolidSlots, SolidSlotsHorizon, SolidHorizon, SolidItem, Persists, Goto, Solids
    <2>2. meta' \in [item : [Positions -> Node], horizon : 0 .. NumItems, slots : Seq(Positions)]
      <3>1. OldHorizon(free_slots, meta.slots) \subseteq Seq(Positions)
        <4>1. Len(meta.slots) \in Nat
          BY LenProperties DEF EngineTypeInv
        <4>2. \A s \in [1 .. Len(meta.slots) -> Positions] : s \in Seq(Positions)
          BY <4>1
        <4> QED
          BY <4>2 DEF OldHorizon
      <3>2. /\ meta \in [item : [Positions -> Node], horizon : 0 .. NumItems,
                         slots : Seq(Positions)]
            /\ item \in [Positions -> Node] /\ item_horizon \in 0 .. NumItems
            /\ free_slots \in Seq(Positions)
        BY DEF EngineTypeInv, EngineTypeOK, TypeOK
      <3>3. CASE meta' = meta
        BY <3>2, <3>3
      <3>4. CASE meta' = [meta EXCEPT !.item = item]
        BY <3>2, <3>4
      <3>5. CASE meta' = [meta EXCEPT !.horizon = item_horizon]
        BY <3>2, <3>5
      <3>6. CASE \E s \in Seq(Positions) : meta' = [meta EXCEPT !.slots = s]
        BY <3>2, <3>6
      <3> QED
        BY <2>1, <3>1, <3>2, <3>3, <3>4, <3>5, <3>6
    <2>3. EngineTypeOK'
      BY <1>0, <2>1, <2>2 DEF EngineTypeOK, TypeInv, Busy, Solids
    <2> QED
      BY <1>0, <2>1, <2>2, <2>3 DEF EngineTypeInv, Solids
  <1>4. CASE SolidEnd
    <2>1. /\ UNCHANGED <<arg, last_offset, disk, astray>> /\ engine' = "ready"
          /\ durable' \in {durable, {Stored}}
      BY <1>4 DEF SolidEnd, Saves, Goto
    <2>2. EngineTypeOK'
      BY <1>0, <2>1 DEF EngineTypeOK, TypeInv, disk
    <2> QED
      BY <1>0, <2>1, <2>2 DEF EngineTypeInv, disk
  <1>5. CASE Die
    <2>1. /\ UNCHANGED <<disk, durable>> /\ engine' = "down" /\ arg' = Hole /\ last_offset' = 0
          /\ astray' = astray \ {"index"}
      BY <1>5 DEF Die, Lose
    <2>2. EngineTypeOK'
      BY <1>0, <2>1 DEF EngineTypeOK, TypeInv, disk, Hole, Record
    <2> QED
      BY <1>0, <2>1, <2>2 DEF EngineTypeInv, disk
  <1> QED
    BY <1>1, <1>2, <1>3, <1>4, <1>5 DEF Steps

(* All of it together.                                                     *)
LEMMA EngineTypeStep == EngineTypeInv /\ [EngineNext]_all => EngineTypeInv'
  <1> SUFFICES ASSUME EngineTypeInv, [EngineNext]_all PROVE EngineTypeInv'
    OBVIOUS
  <1>1. CASE UNCHANGED all
    <2>1. TypeInv'
      BY IndexTyped
    <2> QED
      BY <1>1, <2>1 DEF all, memory, disk, history, EngineTypeInv, EngineTypeOK, TypeInv
  <1> QED
    BY <1>1, UserTyped, WorkTyped DEF EngineNext

(* The engine, its index and its files keep their types, crashes, failing  *)
(* writes and torn files included: what Open reads back is an array of     *)
(* nodes, a horizon and a stack INDEX can work on.                         *)
THEOREM EngineTyped == EngineSpec => []EngineTypeOK
  <1>1. EngineSpec => []EngineTypeInv
    BY EngineTypeInit, EngineTypeStep, PTL DEF EngineSpec
  <1> QED
    BY <1>1, PTL DEF EngineTypeInv

------------------------------------------------------------------------------
(* Places *)

(* What INDEX writes to the keys and places of its nodes: an insert fills  *)
(* one node with the item it was given.                                    *)
LEMMA LinkFills ==
  ASSUME TypeOK, Link
  PROVE  \E f \in Positions :
           /\ item'[f].key = new.key /\ item'[f].place = new.place
           /\ \A i \in Positions \ {f} :
                item'[i].key = item[i].key /\ item'[i].place = item[i].place
  <1> DEFINE f == PopFreeNode
             nodes == [item EXCEPT ![f] = new]
             loc == pre_node_ptr
  <1>1. f \in Positions
    BY PopTyped DEF Link
  <1>2. /\ nodes \in [Positions -> Node]
        /\ nodes[f] = new /\ \A i \in Positions \ {f} : nodes[i] = item[i]
    BY <1>1 DEF TypeOK
  <1>3. Store(nodes, loc, f)
    BY DEF Link
  <1> HIDE DEF nodes, f
  <1>4. \A i \in Positions : item'[i].key = nodes[i].key /\ item'[i].place = nodes[i].place
    BY <1>2, <1>3 DEF Store, Node, TypeOK
  <1> QED
    BY <1>1, <1>2, <1>4

(* A delete marks the key of one node and leaves the other ones alone.     *)
LEMMA UnlinkMarks ==
  ASSUME TypeOK, DeleteUnlink
  PROVE  \A i \in Positions :
           item'[i].key \in {item[i].key, OffsetFeb31} /\ item'[i].place = item[i].place
  <1> DEFINE nodes == [item EXCEPT ![node_id].key = OffsetFeb31]
  <1>1. /\ nodes \in [Positions -> Node]
        /\ \A i \in Positions :
             nodes[i].key \in {item[i].key, OffsetFeb31} /\ nodes[i].place = item[i].place
    BY DEF TypeOK, Node, NodeKeys
  <1>2. Store(nodes, pre_node_ptr, OnlyChild)
    BY DEF DeleteUnlink
  <1> HIDE DEF nodes
  <1>3. \A i \in Positions : item'[i].key = nodes[i].key /\ item'[i].place = nodes[i].place
    BY <1>1, <1>2 DEF Store, Node, TypeOK
  <1> QED
    BY <1>1, <1>3

(* The empty cabinet.                                                      *)
LEMMA PlaceInit == EngineInit => PlaceInv
  BY DEF EngineInit, Init, PlaceInv, Serves, NodesPlaced, LoadPlaced, MetaPlaced, PlacesApart,
         NextOffset, NoEngine, Running, Fits, Apart, Named, Blank, NoItem, FillItem

(* An index made anew names nobody.                                        *)
LEMMA InitNamesNobody ==
  ASSUME Init
  PROVE  /\ \A i \in Positions : ~Named(item[i])
         /\ pc = "idle" /\ op = "none"
  BY DEF Init, Named, NoItem, FillItem

(* A handler that leaves all nodes their keys and places, or marks some as *)
(* freed, leaves every record where the index says it is.                  *)
LEMMA NodesStay ==
  ASSUME EngineTypeInv, PlaceInv, EngineTypeInv',
         UNCHANGED <<engine, arg, last_offset, data, astray>>,
         \A i \in Positions :
           item'[i].key \in {item[i].key, OffsetFeb31} /\ item'[i].place = item[i].place,
         op # "none"
  PROVE  NodesPlaced' /\ PlacesApart'
  <1>1. PlacesApart'
    BY DEF PlaceInv, PlacesApart, Apart, Named
  <1>2. ASSUME NEW i \in Positions, Named(item[i])', "index" \notin astray
        PROVE  (HasRecord(item[i]) \/ Fresh(item[i]))'
    <2>1. Named(item[i]) /\ item'[i].key = item[i].key /\ item'[i].place = item[i].place
      BY <1>2 DEF Named
    <2>2. ~Fresh(item[i])
      BY DEF Fresh, PlaceInv, Serves
    <2>3. HasRecord(item[i]) => HasRecord(item[i])'
      BY <2>1 DEF HasRecord, Given, InDataFile, RecordAt, End, NoEngine
    <2> QED
      BY <1>2, <2>1, <2>2, <2>3 DEF PlaceInv, NodesPlaced
  <1> QED
    BY <1>1, <1>2 DEF NodesPlaced

(* What INDEX does for the engine.                                         *)
LEMMA IndexPlaces ==
  ASSUME OffsetFeb31 \notin Keys, EngineTypeInv, PlaceInv, EngineTypeInv', IndexStep
  PROVE  PlaceInv'
  <1>0. /\ UNCHANGED <<engine, arg, last_offset, data, meta, files, durable, astray>>
        /\ Handler /\ engine # "down" /\ TypeOK
        /\ Serves /\ NodesPlaced /\ LoadPlaced /\ MetaPlaced /\ PlacesApart /\ NextOffset
    BY DEF IndexStep, memory, disk, history, PlaceInv, EngineTypeInv, EngineTypeOK
  <1>a. \A n : HasRecord(n) => HasRecord(n)'
    BY <1>0 DEF HasRecord, Given, InDataFile, RecordAt, End, NoEngine
  <1>1. MetaPlaced'
    <2>1. \A n : Named(n)' <=> Named(n)
      BY DEF Named
    <2> QED
      BY <1>0, <1>a, <2>1 DEF MetaPlaced, Fits, Apart
  <1>2. Serves'
    BY <1>0 DEF Handler, WalkLeft, WalkRight, SearchEnd, InsertExist, InsertLink, InsertFull,
                DeleteMiss, DeleteUnlink, DeleteTwo, NearestStep, NearestNull, LoadItem, LoadLink,
                LoadEnd, Link, StartWalk, Return, Leave, Crash, Serves, call, answer, loop
  <1>3. op # "none" /\ ~NoEngine
    BY <1>0 DEF Handler, WalkLeft, WalkRight, SearchEnd, InsertExist, InsertLink, InsertFull,
                DeleteMiss, DeleteUnlink, DeleteTwo, NearestStep, NearestNull, LoadItem, LoadLink,
                LoadEnd, Link, Serves, NoEngine
  <1>4. NextOffset'
    <2>1. (Running' <=> Running) /\ ~NoEngine' /\ engine' # "create"
      BY <1>0, <1>3 DEF Running, NoEngine
    <2> QED
      BY <1>0, <2>1 DEF NextOffset
  <1>5. CASE InsertLink
    <2>1. /\ engine = "put" /\ engine' = "put" /\ status' = "Ok" /\ op' = "none" /\ Running
          /\ new.key = arg.key /\ new.place = last_offset /\ status = "Pending"
          /\ arg' = arg /\ last_offset' = last_offset
      BY <1>0, <1>5 DEF InsertLink, Serves, Running, Return, Leave, FillItem
    <2>2. PICK f \in Positions :
            /\ item'[f].key = new.key /\ item'[f].place = new.place
            /\ \A i \in Positions \ {f} :
                 item'[i].key = item[i].key /\ item'[i].place = item[i].place
      BY <1>0, <1>5, LinkFills DEF InsertLink
    <2>3. ASSUME NEW i \in Positions \ {f}, Named(item[i])', "index" \notin astray
          PROVE  HasRecord(item[i]) /\ HasRecord(item[i])' /\ Named(item[i])
      <3>1. Named(item[i]) /\ ~Fresh(item[i])
        BY <2>1, <2>2, <2>3 DEF Named, Fresh
      <3>2. HasRecord(item[i])
        BY <1>0, <2>3, <3>1 DEF NodesPlaced
      <3> QED
        BY <1>0, <2>2, <3>1, <3>2
        DEF HasRecord, Given, InDataFile, RecordAt, End, NoEngine
    <2>4. NodesPlaced'
      BY <1>0, <2>1, <2>2, <2>3 DEF NodesPlaced, Fresh
    <2>5. \A n : HasRecord(n) => n.place # last_offset
      BY <1>0, <1>3, <2>1, EngineFacts
      DEF HasRecord, Given, InDataFile, End, NextOffset, EngineTypeInv, EngineTypeOK
    <2>6. "index" \notin astray =>
            \A i \in Positions \ {f} : Named(item[i])' => item'[i].place # last_offset
      BY <2>2, <2>3, <2>5
    <2>7. PlacesApart'
      BY <1>0, <2>1, <2>2, <2>3, <2>6 DEF PlacesApart, Apart, Named
    <2> QED
      BY <1>1, <1>2, <1>4, <2>1, <2>4, <2>7 DEF PlaceInv, LoadPlaced
  <1>6. CASE DeleteUnlink
    <2>1. NodesPlaced' /\ PlacesApart'
      BY <1>0, <1>3, <1>6, UnlinkMarks, NodesStay
    <2> QED
      BY <1>1, <1>2, <1>4, <1>6, <2>1 DEF PlaceInv, LoadPlaced, DeleteUnlink, Return, Leave
  <1>7. CASE LoadLink
    <2>1. op = "load" /\ pc = "walk" /\ pc' = "load" /\ engine = "open"
      BY <1>0, <1>3, <1>7 DEF LoadLink, Link, Serves
    <2>2. PICK f \in Positions :
            /\ item'[f].key = new.key /\ item'[f].place = new.place
            /\ \A i \in Positions \ {f} :
                 item'[i].key = item[i].key /\ item'[i].place = item[i].place
      BY <1>0, <1>7, LinkFills DEF LoadLink
    <2>3. "index" \notin astray => \A i \in Positions : Named(item[i]) => HasRecord(item[i])
      BY <1>0, <2>1 DEF NodesPlaced, Fresh
    <2>4. "index" \notin astray /\ Named(new) =>
            HasRecord(new) /\ \A i \in Positions : Apart(item[i], new)
      BY <1>0, <2>1 DEF LoadPlaced
    <2>5. "index" \notin astray =>
            \A i \in Positions : Named(item'[i]) => HasRecord(item'[i])
      BY <2>2, <2>3, <2>4 DEF Named, HasRecord, Given, InDataFile
    <2>6. NodesPlaced'
      <3>1. ASSUME NEW i \in Positions, Named(item[i])', "index" \notin astray
            PROVE  HasRecord(item[i])'
        <4>1. HasRecord(item'[i])
          BY <2>5, <3>1 DEF Named
        <4> QED
          BY <1>0, <4>1 DEF HasRecord, Given, InDataFile, RecordAt, End, NoEngine
      <3> QED
        BY <1>0, <3>1 DEF NodesPlaced
    <2>7. PlacesApart'
      BY <1>0, <2>2, <2>4 DEF PlacesApart, Apart, Named
    <2> QED
      BY <1>1, <1>2, <1>4, <2>1, <2>6, <2>7 DEF PlaceInv, LoadPlaced
  <1>8. CASE LoadItem
    <2>1. item' = item /\ new' = item[load_i] /\ op = "load" /\ op' = "load" /\ engine = "open"
      BY <1>0, <1>8 DEF LoadItem, Serves
    <2>2. load_i \in Positions
      BY <1>8, IndexAssumption DEF LoadItem, EngineTypeInv, EngineTypeOK, TypeOK, Positions
    <2>3. "index" \notin astray /\ Named(item[load_i]) =>
            /\ HasRecord(item[load_i])
            /\ \A i \in Positions : Apart(item[i], item[load_i])
      BY <1>0, <1>3, <2>1, <2>2 DEF NodesPlaced, PlacesApart, Fresh
    <2>4. LoadPlaced'
      BY <1>0, <2>1, <2>3
      DEF LoadPlaced, Named, Apart, HasRecord, Given, InDataFile, RecordAt, End, NoEngine
    <2>5. NodesPlaced' /\ PlacesApart'
      BY <1>0, <1>3, <2>1, NodesStay
    <2> QED
      BY <1>1, <1>2, <1>4, <2>4, <2>5 DEF PlaceInv
  <1>9. CASE ~InsertLink /\ ~DeleteUnlink /\ ~LoadLink /\ ~LoadItem
    <2>1. /\ item' = item
          /\ \/ pc' # "walk"
             \/ pc = "walk" /\ new' = new /\ op' = op
      BY <1>0, <1>9 DEF Handler, WalkLeft, WalkRight, SearchEnd, InsertExist, InsertFull,
                DeleteMiss, DeleteTwo, NearestStep, NearestNull,
                LoadEnd, Return, Leave, Crash, call
    <2>2. NodesPlaced' /\ PlacesApart'
      BY <1>0, <1>3, <2>1, NodesStay
    <2>3. LoadPlaced'
      BY <1>0, <2>1
      DEF LoadPlaced, Named, Apart, HasRecord, Given, InDataFile, RecordAt, End, NoEngine
    <2> QED
      BY <1>1, <1>2, <1>4, <2>2, <2>3 DEF PlaceInv
  <1> QED
    BY <1>5, <1>6, <1>7, <1>8, <1>9

(* An engine with an index that is as new: no node is named.               *)
LEMMA NewPlaces ==
  ASSUME EngineTypeInv, PlaceInv, Init', UNCHANGED <<data, meta>>,
         \/ engine' = "down" /\ astray' = astray \ {"index"}
         \/ engine = "create" /\ engine' = "ready" /\ last_offset' = Len(data) /\ astray' = astray
  PROVE  PlaceInv'
  <1>1. pc' = "idle" /\ op' = "none" /\ \A i \in Positions : ~Named(item[i])'
    <2>1. Init => pc = "idle" /\ op = "none" /\ \A i \in Positions : ~Named(item[i])
      BY InitNamesNobody
    <2> QED
      BY DEF Init, Named, NoItem, FillItem
  <1>2. NodesPlaced' /\ LoadPlaced' /\ PlacesApart'
    BY <1>1 DEF NodesPlaced, LoadPlaced, PlacesApart, Apart
  <1>3. MetaPlaced'
    <2>1. CASE engine' = "down" /\ astray' = astray \ {"index"}
      <3>1. \A n : HasRecord(n) => HasRecord(n)'
        BY <2>1 DEF HasRecord, Given, InDataFile, RecordAt, Hole, Record, NoEngine
      <3> QED
        BY <2>1, <3>1 DEF PlaceInv, MetaPlaced, Fits, Apart, Named
    <2>2. CASE engine = "create"
      BY <2>2 DEF PlaceInv, NextOffset, MetaPlaced, Fits, Apart, Named
    <2> QED
      BY <2>1, <2>2
  <1>4. Len(data) \in Nat
    BY LenProperties DEF EngineTypeInv, EngineTypeOK
  <1>5. Serves' /\ NextOffset'
    BY <1>1, <1>4 DEF Serves, PlaceInv, NextOffset, NoEngine, Running, Named
  <1> QED
    BY <1>2, <1>3, <1>5 DEF PlaceInv

(* The files are made, or opened, which leaves the index astray when one   *)
(* of its entries is for a place behind the end of the data file.          *)
LEMMA FilesPlaces ==
  ASSUME EngineTypeInv, PlaceInv, CreateMeta \/ CreateData \/ OpenFiles \/ OpenEnd \/ Die
  PROVE  PlaceInv'
  <1>0. /\ Serves /\ NodesPlaced /\ LoadPlaced /\ MetaPlaced /\ PlacesApart /\ NextOffset
        /\ Len(data) \in Nat
    BY LenProperties DEF PlaceInv, EngineTypeInv, EngineTypeOK
  <1>1. CASE CreateMeta
    <2>1. /\ UNCHANGED <<vars, arg, last_offset, data>> /\ meta' = Blank
          /\ engine = "down" /\ engine' = "create" /\ astray' = {}
      BY <1>1 DEF CreateMeta, Goto
    <2>2. \A i \in Positions : ~Named(meta'.item[i])
      BY <2>1 DEF Named, Blank, NoItem, FillItem
    <2>3. UNCHANGED <<item, pc, op, status, new>> /\ op = "none"
      BY <1>0, <2>1 DEF vars, call, answer, Serves
    <2>4. \A i \in Positions : ~Named(item[i])
      BY <1>0, <2>1 DEF NextOffset, NoEngine
    <2>5. Serves' /\ NextOffset'
      BY <1>0, <2>1, <2>2, <2>3, <2>4 DEF Serves, NextOffset, NoEngine, Running, Named
    <2>6. NodesPlaced' /\ LoadPlaced' /\ PlacesApart' /\ MetaPlaced'
      BY <2>1, <2>2, <2>3, <2>4
      DEF NodesPlaced, LoadPlaced, PlacesApart, MetaPlaced, Fits, Apart, Named
    <2> QED
      BY <2>5, <2>6 DEF PlaceInv
  <1>2. CASE CreateData
    BY <1>2, NewIndexIsInit, NewPlaces DEF CreateData, Goto, FileEnd, history
  <1>3. CASE Die
    BY <1>3, NewIndexIsInit, NewPlaces DEF Die, Lose, disk
  <1>4. CASE OpenFiles
    <2>1. PICK size \in LoadSizes : StartLoad(size, meta.item, meta.horizon, meta.slots)
      BY <1>4 DEF OpenFiles
    <2>2. /\ UNCHANGED <<arg, last_offset, data, meta>> /\ engine' = "open" /\ engine = "down"
          /\ item' = meta.item /\ op' = "load" /\ pc' = "load"
      BY <1>4, <2>1 DEF OpenFiles, StartLoad, Enter, Goto, disk
    <2>3. /\ "files" \notin astray' => "files" \notin astray /\ ~Ahead
          /\ "index" \notin astray' => "files" \notin astray /\ ~Ahead
          /\ astray' \in {astray, {"index", "files"}}
      BY <1>4 DEF OpenFiles, EngineTypeInv, EngineTypeOK
    <2>4. "files" \notin astray /\ ~Ahead =>
            /\ \A i \in Positions : Named(meta.item[i]) => HasRecord(meta.item[i])'
            /\ \A i, j \in Positions : Apart(meta.item[i], meta.item[j])
      <3> SUFFICES ASSUME "files" \notin astray, ~Ahead
                   PROVE  /\ \A i \in Positions : Named(meta.item[i]) => HasRecord(meta.item[i])'
                          /\ \A i, j \in Positions : Apart(meta.item[i], meta.item[j])
        OBVIOUS
      <3>1. ASSUME NEW i \in Positions, Named(meta.item[i]) PROVE HasRecord(meta.item[i])'
        <4>1. /\ HasRecord(meta.item[i])
              /\ Fails => ~(meta.item[i].place >= Len(data))
          <5>1. HasRecord(meta.item[i])
            BY <1>0, <3>1 DEF MetaPlaced, Fits
          <5>2. Fails => ~(meta.item[i].place >= Len(data))
            BY <3>1 DEF Ahead, Named
          <5> QED
            BY <5>1, <5>2
        <4>2. Fails => meta.item[i].place \in Nat /\ meta.item[i].place < Len(data)
          BY <1>0, <4>1, EngineFacts DEF HasRecord, Given
        <4> QED
          BY <2>2, <4>1, <4>2 DEF HasRecord, Given, InDataFile, RecordAt, Hole, Record, End
      <3> QED
        BY <1>0, <3>1 DEF MetaPlaced, Fits
    <2>5. MetaPlaced' /\ NodesPlaced' /\ PlacesApart'
      BY <2>2, <2>3, <2>4 DEF MetaPlaced, Fits, NodesPlaced, PlacesApart, Apart, Named
    <2>6. ~Fails => astray' = {}
      <3> SUFFICES ASSUME ~Fails PROVE astray' = {}
        OBVIOUS
      <3>1. astray = {} /\ \A i \in Positions : Named(meta.item[i]) => InDataFile(meta.item[i])
        BY <1>0 DEF NextOffset, MetaPlaced, Fits, HasRecord
      <3>2. ~Ahead
        BY <1>0, <3>1, EngineFacts DEF Ahead, Named, InDataFile
      <3> QED
        BY <1>4, <3>1, <3>2 DEF OpenFiles
    <2>7. Serves' /\ LoadPlaced' /\ NextOffset'
      BY <2>2, <2>6 DEF Serves, LoadPlaced, NextOffset, NoEngine, Running
    <2> QED
      BY <2>5, <2>7 DEF PlaceInv
  <1>5. CASE OpenEnd
    <2>1. /\ UNCHANGED <<item, pc, op, status, new, arg, data, meta, astray>>
          /\ engine = "open" /\ engine' = "ready" /\ last_offset' = Len(data) /\ pc = "idle"
      BY <1>5 DEF OpenEnd, Goto, FileEnd, vars, call, answer, disk, history, Answered
    <2>2. op = "none" /\ \A n : HasRecord(n) => HasRecord(n)'
      BY <1>0, <2>1
      DEF Serves, HasRecord, Given, InDataFile, RecordAt, Hole, Record, End, NoEngine
    <2>3. Serves' /\ LoadPlaced' /\ PlacesApart' /\ NextOffset'
      BY <1>0, <2>1, <2>2
      DEF Serves, LoadPlaced, PlacesApart, NextOffset, Running, NoEngine, Named, Apart
    <2>4. NodesPlaced' /\ MetaPlaced'
      BY <1>0, <2>1, <2>2 DEF NodesPlaced, MetaPlaced, Fits, Fresh, Named, Apart
    <2> QED
      BY <2>3, <2>4 DEF PlaceInv
  <1> QED
    BY <1>1, <1>2, <1>3, <1>4, <1>5

(* A Put that begins or is refused, a Delete and a Solid move no record.   *)
LEMMA CallsPlace ==
  ASSUME EngineTypeInv, PlaceInv,
         \/ PutRefused \/ DeleteEnd \/ SolidConf \/ SolidIndex \/ SolidSlots
         \/ SolidSlotsHorizon \/ SolidHorizon \/ SolidEnd
         \/ \E k \in Keys : Delete(k)
         \/ \E k \in Keys, v \in Values, c \in Covers : Put(k, v, c)
  PROVE  PlaceInv'
  <1>0. /\ Serves /\ NodesPlaced /\ LoadPlaced /\ MetaPlaced /\ PlacesApart /\ NextOffset
        /\ Len(data) \in Nat
    BY LenProperties DEF PlaceInv, EngineTypeInv, EngineTypeOK
  <1>1. /\ UNCHANGED <<item, data, last_offset>> /\ Running /\ Running'
        /\ astray' = astray \/ (SolidIndex /\ "index" \in astray /\ astray' = {"index", "files"})
    BY DEF PutRefused, PutReturns, DeleteEnd, SolidConf, SolidIndex, SolidSlots,
           SolidSlotsHorizon, SolidHorizon, SolidEnd, SolidItem, Persists, Delete, Put, Call,
           Goto, vars, disk, history, Running
  <1>2. ~(engine = "put" /\ status = "Ok") /\ op = "none"
    BY <1>0 DEF PutRefused, DeleteEnd, SolidConf, SolidIndex, SolidSlots, SolidSlotsHorizon,
                SolidHorizon, Answered, SolidEnd, SolidItem, Persists, Delete, Put, Call, Enter,
                Serves
  <1>3. /\ "index" \notin astray => \A i \in Positions : Named(item[i]) => HasRecord(item[i])
        /\ \A n : HasRecord(n) => HasRecord(n)'
        /\ ~NoEngine /\ ~NoEngine' /\ engine' # "create"
    BY <1>0, <1>1, <1>2
    DEF NodesPlaced, Fresh, HasRecord, Given, InDataFile, RecordAt, Hole, Record, End, NoEngine,
        Running
  <1>4. NodesPlaced' /\ PlacesApart' /\ NextOffset'
    BY <1>0, <1>1, <1>3 DEF NodesPlaced, Named, Apart, PlacesApart, NextOffset
  <1>5. MetaPlaced'
    <2>1. \/ meta' = meta \/ meta'.item = meta.item
          \/ SolidIndex /\ meta'.item = item
      BY DEF PutRefused, DeleteEnd, SolidConf, SolidIndex, SolidSlots, SolidSlotsHorizon,
             SolidHorizon, SolidEnd, SolidItem, Persists, Delete, Put, disk, EngineTypeInv
    <2>2. SolidIndex /\ "index" \in astray => "files" \in astray'
      BY DEF SolidIndex
    <2>3. "files" \notin astray' => Fits(meta'.item)
      BY <1>0, <1>1, <1>3, <2>1, <2>2 DEF MetaPlaced, Fits, PlacesApart
    <2> QED
      BY <1>3, <2>3 DEF MetaPlaced, Fits, Apart, Named
  <1>6. Serves' /\ LoadPlaced'
    <2>1. CASE \E k \in Keys, v \in Values, c \in Covers : Put(k, v, c)
      BY <1>0, <2>1 DEF Put, Call, Enter, StartWalk, Goto, Serves, LoadPlaced, FillItem, Record
    <2>2. CASE \E k \in Keys : Delete(k)
      BY <1>0, <2>2 DEF Delete, Call, Enter, StartWalk, Goto, Serves, LoadPlaced, FillItem
    <2>3. CASE UNCHANGED vars /\ engine' # "open"
      BY <1>0, <1>2, <2>3 DEF vars, call, answer, Serves, LoadPlaced
    <2>4. (UNCHANGED vars /\ engine' # "open") \/ (\E k \in Keys : Delete(k))
            \/ (\E k \in Keys, v \in Values, c \in Covers : Put(k, v, c))
      BY DEF PutRefused, PutReturns, DeleteEnd, SolidConf, SolidIndex, SolidSlots,
             SolidSlotsHorizon, SolidHorizon, SolidEnd, SolidItem, Persists, Goto
    <2> QED
      BY <2>1, <2>2, <2>3, <2>4
  <1> QED
    BY <1>4, <1>5, <1>6 DEF PlaceInv

(* A write puts the record where the index has said it would be, behind    *)
(* every other, or fails and leaves a hole there.                          *)
LEMMA WritePlaces ==
  ASSUME EngineTypeInv, PlaceInv, EngineTypeInv', PutWrite
  PROVE  PlaceInv'
  <1>0. /\ Serves /\ NodesPlaced /\ LoadPlaced /\ MetaPlaced /\ PlacesApart /\ NextOffset
        /\ Len(data) \in Nat /\ Running /\ Running' /\ op = "none"
        /\ last_offset \in Nat /\ last_offset \in Places /\ arg \in Records /\ data \in Seq(Records)
        /\ engine = "put" /\ arg \in [key : Keys, value : Values]
        /\ Len(data) <= last_offset /\ (~Fails => Len(data) = last_offset)
    BY LenProperties, EngineFacts
    DEF PlaceInv, EngineTypeInv, EngineTypeOK, PutWrite, PutReturns, Goto, Running, Records,
        NextOffset, Serves, Answered
  <1>1. UNCHANGED <<vars, meta, astray>> /\ engine' = "ready" /\ last_offset' = last_offset + 1
    BY DEF PutWrite, PutReturns, Goto, SetUse, history
  <1>2. /\ (data' = data /\ Fails) \/ data' = Written(data, last_offset, arg)
    BY DEF PutWrite, Outcomes
  <1>a. PICK off \in Nat : off = last_offset
    BY <1>0
  <1>3. /\ Len(data') <= last_offset' /\ (~Fails => Len(data') = last_offset')
        /\ \A o \in Nat \ {off} : RecordAt(o)' = RecordAt(o)
        /\ \A o \in Nat : o < Len(data) => o < Len(data') /\ data'[o + 1] = data[o + 1]
        /\ RecordAt(off)' = arg \/ (Fails /\ RecordAt(off)' = Hole)
        /\ ~Fails => off < Len(data') /\ data'[off + 1] = arg
    <2>1. CASE data' = data /\ Fails
      <3>1. RecordAt(off) = Hole
        BY <1>0, <1>a, ReadTyped
      <3> QED
        BY <1>0, <1>a, <1>1, <2>1, <3>1 DEF RecordAt, Hole, Record
    <2>2. CASE data' = Written(data, last_offset, arg)
      <3>1. /\ data' \in Seq(Records)
            /\ Len(data') = IF off < Len(data) THEN Len(data) ELSE off + 1
            /\ RecordAt(off)' = arg
            /\ \A o \in Nat \ {off} : RecordAt(o)' = RecordAt(o)
            /\ \A o \in Nat : o < Len(data) /\ o # off => data'[o + 1] = data[o + 1]
        BY <1>0, <1>a, <2>2, WriteDoes
      <3>2. Len(data') = off + 1
        BY <1>0, <1>a, <3>1
      <3>3. data'[off + 1] = arg
        BY <1>0, <1>a, <1>1, <3>1, <3>2 DEF RecordAt
      <3> QED
        BY <1>0, <1>a, <1>1, <3>1, <3>2, <3>3
    <2> QED
      BY <1>2, <1>a, <2>1, <2>2
  <1>4. \A n \in Node : HasRecord(n) => HasRecord(n)'
    <2> SUFFICES ASSUME NEW n \in Node, HasRecord(n) PROVE HasRecord(n)'
      OBVIOUS
    <2>1. n.place \in Nat /\ n.place < last_offset
      BY <1>0, EngineFacts DEF HasRecord, Given, InDataFile, End, NoEngine
    <2>2. RecordAt(n.place)' = RecordAt(n.place)
      BY <1>3, <1>a, <2>1
    <2> QED
      BY <1>0, <1>1, <1>3, <1>a, <2>1, <2>2 DEF HasRecord, Given, InDataFile, End
  <1>5. \A n \in Node : Fresh(n) => HasRecord(n)'
    <2> SUFFICES ASSUME NEW n \in Node, Fresh(n) PROVE HasRecord(n)'
      OBVIOUS
    <2>1. n.key = arg.key /\ n.place = last_offset
      BY DEF Fresh
    <2> QED
      BY <1>0, <1>1, <1>3, <1>a, <2>1, HoleFacts DEF HasRecord, Given, InDataFile, End
  <1>6. NodesPlaced'
    <2>1. \A i \in Positions : item[i] \in Node /\ item' = item
      BY <1>1 DEF vars, EngineTypeInv, EngineTypeOK, TypeOK
    <2>2. \A n \in Node : Named(n) /\ (HasRecord(n) \/ Fresh(n)) => HasRecord(n)'
      BY <1>4, <1>5
    <2>3. "index" \notin astray =>
            \A i \in Positions : \A n \in Node : n = item[i] => (Named(n) => HasRecord(n)')
      BY <1>0, <2>2 DEF NodesPlaced
    <2> QED
      BY <1>1, <2>1, <2>3 DEF NodesPlaced, HasRecord, Given, InDataFile, RecordAt, Named, End
  <1>7. PlacesApart' /\ Serves' /\ LoadPlaced' /\ NextOffset'
    BY <1>0, <1>1, <1>3
    DEF vars, call, answer, PlacesApart, Serves, LoadPlaced, NextOffset, NoEngine, Named, Apart
  <1>8. MetaPlaced'
    <2>1. \A i \in Positions : meta.item[i] \in Node /\ meta' = meta
      BY <1>1 DEF EngineTypeInv
    <2>2. "files" \notin astray =>
            \A i \in Positions : \A n \in Node : n = meta.item[i] => (Named(n) => HasRecord(n)')
      BY <1>0, <1>4 DEF MetaPlaced, Fits
    <2>3. "files" \notin astray =>
            \A i \in Positions : Named(meta.item[i]) => HasRecord(meta.item[i])'
      BY <2>1, <2>2 DEF HasRecord, Given, InDataFile, RecordAt, End
    <2> QED
      BY <1>0, <1>1, <2>1, <2>3 DEF MetaPlaced, Fits, Apart, Named
  <1> QED
    BY <1>6, <1>7, <1>8 DEF PlaceInv

(* Every step of the engine keeps every record where the index says.       *)
LEMMA PlaceStep ==
  ASSUME OffsetFeb31 \notin Keys
  PROVE  EngineTypeInv /\ PlaceInv /\ [EngineNext]_all => PlaceInv'
  <1> SUFFICES ASSUME EngineTypeInv, PlaceInv, [EngineNext]_all PROVE PlaceInv'
    OBVIOUS
  <1>1. EngineTypeInv'
    BY EngineTypeStep
  <1>2. CASE UNCHANGED all
    BY <1>2 DEF all, vars, call, answer, memory, disk, history, PlaceInv, Serves, NodesPlaced,
                LoadPlaced, MetaPlaced, Fits, Apart, PlacesApart, NextOffset, NoEngine, Running,
                Named, HasRecord, Given, InDataFile, End, RecordAt, Fresh
  <1> QED
    BY <1>1, <1>2, IndexPlaces, FilesPlaces, CallsPlace, WritePlaces
    DEF EngineNext, User, Steps

(* Between calls no Put is on its way, so that every node has its record.  *)
LEMMA ReadyRecords ==
  ASSUME EngineTypeInv, PlaceInv, engine = "ready", Straight, OffsetFeb31 \notin Keys,
         NEW k \in Keys, PlaceOf(k) # NoPlace
  PROVE  \E i \in Positions :
           item[i].key = k /\ Named(item[i]) /\ item[i].place = PlaceOf(k) /\ HasRecord(item[i])
  <1>1. PICK i \in Positions : item[i].key = k /\ item[i].place = PlaceOf(k)
    BY PlaceOfNode, EngineFacts DEF PlaceIsOfNode, EngineTypeInv, EngineTypeOK
  <1> QED
    BY <1>1 DEF PlaceInv, NodesPlaced, Named, Fresh, Straight

(* As long as no Open has met an entry for a place where the data file has *)
(* ended, what the index has is not behind last_offset_ and no two keys    *)
(* have one place, whichever writes failed, wherever the process died and  *)
(* however often it was opened: no Put overwrites a record that can still  *)
(* be reached.  A key that is OFFSET_FEB31 would look like a free node.    *)
THEOREM RecordsDoNotOverlap ==
  ASSUME OffsetFeb31 \notin Keys
  PROVE  EngineSpec => []NoOverlap
  <1>1. ASSUME EngineTypeInv, PlaceInv, engine = "ready", Straight, NEW k \in Keys,
              PlaceOf(k) # NoPlace
        PROVE  PlaceOf(k) < last_offset /\ \A l \in Keys \ {k} : PlaceOf(l) # PlaceOf(k)
    <2>1. PICK i \in Positions :
            item[i].key = k /\ Named(item[i]) /\ item[i].place = PlaceOf(k) /\ HasRecord(item[i])
      BY <1>1, ReadyRecords
    <2>2. PlaceOf(k) < last_offset
      BY <1>1, <2>1
      DEF HasRecord, Given, InDataFile, PlaceInv, NextOffset, Running, End, NoEngine
    <2>3. ASSUME NEW l \in Keys \ {k}, PlaceOf(l) # NoPlace PROVE PlaceOf(l) # PlaceOf(k)
      <3>1. PICK j \in Positions : item[j].key = l /\ Named(item[j]) /\ item[j].place = PlaceOf(l)
        BY <1>1, <2>3, ReadyRecords
      <3> QED
        BY <1>1, <2>1, <3>1 DEF PlaceInv, PlacesApart, Apart, Straight
    <2> QED
      BY <1>1, <2>2, <2>3
  <1>2. EngineTypeInv /\ PlaceInv => NoOverlap
    BY <1>1 DEF NoOverlap
  <1> QED
    BY <1>2, EngineTypeInit, PlaceInit, EngineTypeStep, PlaceStep, PTL DEF EngineSpec

(* Likewise what Get reads at the place of a key is its own record or a    *)
(* hole that a failed write has left, although Get compares no keys, a     *)
(* failed Put leaves its entry in the index and Opens count the space from *)
(* the file's end again.  So an entry that an Open met ahead of the data   *)
(* file is the only way to the record of another key (run EngineAhead).    *)
THEOREM ReadsHoleOrOwn ==
  ASSUME OffsetFeb31 \notin Keys
  PROVE  EngineSpec => []HoleOrOwn
  <1>1. ASSUME EngineTypeInv, PlaceInv, engine = "ready", Straight, NEW k \in Keys
        PROVE  Lookup(k).key \in {k, OffsetFeb31}
    <2>1. CASE PlaceOf(k) = NoPlace
      BY <2>1, HoleFacts DEF Lookup
    <2>2. CASE PlaceOf(k) # NoPlace
      <3>1. PICK i \in Positions :
              item[i].key = k /\ Named(item[i]) /\ item[i].place = PlaceOf(k) /\ HasRecord(item[i])
        BY <1>1, <2>2, ReadyRecords
      <3>2. RecordAt(PlaceOf(k)).key \in {k, OffsetFeb31}
        BY <3>1, EngineFacts DEF HasRecord, Given, InDataFile, RecordAt
      <3> QED
        BY <2>2, <3>2 DEF Lookup
    <2> QED
      BY <2>1, <2>2
  <1>2. EngineTypeInv /\ PlaceInv => HoleOrOwn
    BY <1>1 DEF HoleOrOwn
  <1> QED
    BY <1>2, EngineTypeInit, PlaceInit, EngineTypeStep, PlaceStep, PTL DEF EngineSpec

(* When no write fails no Open meets an entry ahead of the data file, and  *)
(* every key of the index finds its own record, also after the process     *)
(* died, with records of an older cabinet in the file, and after any       *)
(* number of Opens: the nodes that Load inserts anew and the nodes of the  *)
(* meta file point to records that no later Put moves.                     *)
THEOREM IndexAndDataAgree ==
  ASSUME OffsetFeb31 \notin Keys, ~Fails
  PROVE  EngineSpec => [](Straight /\ RecordMatches)
  <1>1. ASSUME EngineTypeInv, PlaceInv, engine = "ready", Straight, NEW k \in Keys,
              PlaceOf(k) # NoPlace
        PROVE  Lookup(k).key = k
    <2>1. PICK i \in Positions :
            item[i].key = k /\ Named(item[i]) /\ item[i].place = PlaceOf(k) /\ HasRecord(item[i])
      BY <1>1, ReadyRecords
    <2>2. RecordAt(PlaceOf(k)).key = k
      <3>1. item[i].place \in Nat /\ Len(data) \in Nat
        BY <1>1, <2>1, EngineFacts, LenProperties
        DEF HasRecord, InDataFile, EngineTypeInv, EngineTypeOK
      <3> QED
        BY <2>1, <3>1 DEF HasRecord, InDataFile, RecordAt
    <2> QED
      BY <1>1, <2>2 DEF Lookup
  <1>2. EngineTypeInv /\ PlaceInv => Straight /\ RecordMatches
    BY <1>1 DEF RecordMatches, Straight, PlaceInv, NextOffset
  <1> QED
    BY <1>2, EngineTypeInit, PlaceInit, EngineTypeStep, PlaceStep, PTL DEF EngineSpec

------------------------------------------------------------------------------
(* Solid *)

(* While a Solid runs, what it wrote is what the index still has: nobody   *)
(* is served between two of its writes.                                    *)
LEMMA SolidStep == EngineTypeInv /\ SolidInv /\ [EngineNext]_all => SolidInv'
  <1> SUFFICES ASSUME EngineTypeInv, SolidInv, [EngineNext]_all PROVE SolidInv'
    OBVIOUS
  <1>1. CASE IndexStep
    <2>1. pc \in {"walk", "nearest", "load"}
      BY <1>1 DEF IndexStep, Handler, WalkLeft, WalkRight, SearchEnd, InsertExist, InsertLink,
                  InsertFull, DeleteMiss, DeleteUnlink, DeleteTwo, NearestStep, NearestNull,
                  LoadItem, LoadLink, LoadEnd, Link
    <2>2. engine' = engine
      BY <1>1 DEF IndexStep, memory
    <2>3. engine \notin {"ready"} \cup Solids
      BY <2>1 DEF SolidInv
    <2> QED
      BY <2>2, <2>3 DEF Solids, SolidInv
  <1>2. CASE \/ CreateMeta \/ OpenFiles \/ Die \/ \E k \in Keys : Delete(k)
             \/ \E k \in Keys, v \in Values, c \in Covers : Put(k, v, c)
    BY <1>2 DEF CreateMeta, OpenFiles, Die, Lose, Delete, Put, Goto, Solids, SolidInv
  <1>3. CASE CreateData
    BY <1>3 DEF CreateData, NewIndex, Leave, Goto, Solids, SolidInv
  <1>4. CASE OpenEnd \/ PutRefused \/ PutWrite \/ DeleteEnd \/ SolidEnd
    <2>1. pc = "idle"
      BY <1>4 DEF OpenEnd, PutRefused, PutWrite, DeleteEnd, SolidEnd, Answered, Solids, SolidInv
    <2> QED
      BY <1>4, <2>1
      DEF OpenEnd, PutRefused, PutWrite, PutReturns, DeleteEnd, SolidEnd, Goto, vars, Solids, SolidInv
  <1>5. CASE SolidConf \/ SolidIndex \/ SolidSlots \/ SolidSlotsHorizon \/ SolidHorizon
    <2>1. /\ UNCHANGED <<item, pool, pc, files>> /\ pc = "idle"
      BY <1>5 DEF SolidConf, SolidIndex, SolidSlots, SolidSlotsHorizon, SolidHorizon, SolidItem,
                  Persists, vars, Solids, SolidInv
    <2>2. meta \in [item : [Positions -> Node], horizon : 0 .. NumItems, slots : Seq(Positions)]
      BY DEF EngineTypeInv
    <2>3. CASE SolidConf
      BY <2>1, <2>3 DEF SolidConf, Persists, Goto, Solids, SolidInv
    <2>4. CASE SolidIndex
      BY <2>1, <2>2, <2>4 DEF SolidIndex, SolidItem, Persists, InFile, Goto, Solids, SolidInv
    <2>5. CASE SolidSlots
      BY <2>1, <2>2, <2>5 DEF SolidSlots, SolidItem, Persists, InFile, Goto, Solids, SolidInv, pool
    <2>6. CASE SolidSlotsHorizon
      BY <2>1, <2>2, <2>6
      DEF SolidSlotsHorizon, SolidItem, Persists, InFile, Goto, Solids, SolidInv, pool
    <2>7. CASE SolidHorizon
      BY <2>1, <2>2, <2>7
      DEF SolidHorizon, SolidItem, Persists, InFile, Goto, Solids, SolidInv, pool
    <2> QED
      BY <1>5, <2>3, <2>4, <2>5, <2>6, <2>7
  <1>6. CASE UNCHANGED all
    BY <1>6 DEF all, vars, pool, memory, disk, Solids, SolidInv
  <1> QED
    BY <1>1, <1>2, <1>3, <1>4, <1>5, <1>6 DEF EngineNext, User, Steps

(* A Solid that reports Ok has the whole index in the meta file, and every *)
(* item of it is there: the one that Create may have lost is noticed by    *)
(* the first Solid that looks for it.  No key, no operation and no failing *)
(* write is left out.                                                      *)
THEOREM SolidReportsTruly == EngineSpec => SolidTold
  <1>1. EngineInit => SolidInv
    BY DEF EngineInit, Solids, SolidInv
  <1>2. ASSUME EngineTypeInv, SolidInv, SolidEnd
        PROVE  /\ MetaItems \subseteq files
               /\ meta = [item |-> item, horizon |-> item_horizon, slots |-> free_slots]
    BY <1>2 DEF EngineTypeInv, Solids, SolidInv, SolidEnd, MetaItems
  <1>3. EngineTypeInv /\ SolidInv /\ [EngineNext]_all =>
          [SolidEnd => /\ MetaItems \subseteq files
                       /\ meta = [item |-> item, horizon |-> item_horizon, slots |-> free_slots]]_all
    BY <1>2
  <1> QED
    BY <1>1, <1>3, EngineTypeInit, EngineTypeStep, SolidStep, PTL DEF EngineSpec, SolidTold
=============================================================================
