---------------------------- MODULE CabinetProofs ----------------------------
(***************************************************************************)
(* The proof that HashEngine, with the trees of INDEX and its files,       *)
(* implements the cabinet: for every number of keys, nodes and records,    *)
(* when writes fail and when the process dies between any two of them.     *)
(* Open is not part of it (Load rebuilds the trees wrongly after a delete, *)
(* which run EngineDelete shows), and neither are overwriting inserts,     *)
(* which drop other keys with the one they replace.                        *)
(***************************************************************************)
EXTENDS EngineProofs

(* What the disk is taken to hold: an empty map before a cabinet is open,  *)
(* and the map of a Solid from the moment it begins.  Without an Open      *)
(* nothing is astray.                                                      *)
DiskInv ==
  /\ engine # "open" /\ Straight
  /\ engine = "create" => durable = {NoEntries}
  /\ engine \in Solids => Stored \in durable

CabinetInv == EngineTypeInv /\ PlaceInv /\ SolidInv /\ MapInv /\ DiskInv

------------------------------------------------------------------------------
(* The map in memory *)

(* What a Get of a key would bring, or the Put on its way has promised.    *)
Value(k) == IF Pending(k) THEN arg.value ELSE Lookup(k).value

(* The map has these values and is one.                                    *)
StoredIsMap == Stored \in [Keys -> Values \cup {NoValue}] /\ Stored # NoValue
(* It has these types.                                                     *)
LEMMA StoredIs == EngineTypeInv => StoredIsMap
  BY StoredTyped, EngineFacts DEF StoredIsMap, EngineTypeInv

(* A step that changes no value leaves the map.                            *)
LEMMA StoredStays ==
  ASSUME \A k \in Keys : Value(k)' = Value(k)
  PROVE  Stored' = Stored
  BY DEF Stored, Value

(* Index and data file alike, and no Put on its way before or after: the   *)
(* same map.                                                               *)
LEMMA SameValue ==
  ASSUME NEW k \in Keys, PlaceOf(k)' = PlaceOf(k), data' = data,
         Pending(k)' <=> Pending(k), Pending(k) => arg' = arg
  PROVE  Value(k)' = Value(k)
  <1>1. Lookup(k)' = Lookup(k)
    BY DEF Lookup, RecordAt, Hole, Record
  <1> QED
    BY <1>1 DEF Value

(* Only a Put whose index entry is there is on its way at last_offset_.    *)
LEMMA PlacesUsed ==
  ASSUME EngineTypeInv, PlaceInv, Running, Straight, OffsetFeb31 \notin Keys, NEW k \in Keys
  PROVE  /\ PlaceOf(k) \in Places \cup {NoPlace} /\ last_offset \in Nat
         /\ PlaceOf(k) # NoPlace =>
              /\ PlaceOf(k) \in Nat
              /\ \/ PlaceOf(k) < last_offset
                 \/ /\ PlaceOf(k) = last_offset
                    /\ engine = "put" /\ status = "Ok" /\ k = arg.key
         /\ Pending(k) => status = "Ok" /\ engine = "put" /\ k = arg.key
  <1>1. /\ PlaceOf(k) \in Places \cup {NoPlace} /\ last_offset \in 0 .. MaxData
        /\ Places \subseteq Nat
        /\ PlaceOf(k) # NoPlace =>
             \E i \in Positions : item[i].key = k /\ item[i].place = PlaceOf(k)
    BY PlaceOfNode, EngineFacts DEF PlaceIsOfNode, EngineTypeInv, EngineTypeOK
  <1>2. ASSUME NEW i \in Positions, item[i].key = k, item[i].place = PlaceOf(k)
        PROVE  \/ PlaceOf(k) < last_offset
               \/ /\ PlaceOf(k) = last_offset
                  /\ engine = "put" /\ status = "Ok" /\ k = arg.key
    <2>1. HasRecord(item[i]) \/ Fresh(item[i])
      BY <1>2 DEF PlaceInv, NodesPlaced, Named, Straight
    <2> QED
      BY <1>2, <2>1
      DEF Fresh, HasRecord, Given, InDataFile, End, NoEngine, PlaceInv, NextOffset, Running
  <1>3. Pending(k) => last_offset \in Places /\ PlaceOf(k) = last_offset
    BY EngineFacts DEF Pending, EngineTypeInv, EngineTypeOK
  <1> QED
    BY <1>1, <1>2, <1>3, EngineFacts

(* The trees stay trees, whatever the engine does.                         *)
LEMMA MapMoves ==
  ASSUME "load" \notin Ops
  PROVE  EngineTypeInv /\ MapInv /\ [EngineNext]_all => MapInv'
  <1>1. ~Reopens
    BY DEF Reopens, StartLoad, Enter
  <1>2. Init' => MapInv'
    BY MapInit, PTL
  <1> QED
    BY <1>1, <1>2, IndexMoves, MapStep

(* The map of an index that is as new, over any data file.                 *)
NewEngine == Init /\ engine # "put"
IsEmpty == Stored = NoEntries
(* No node is in a tree, so no key has a place.                            *)
LEMMA NewIsEmpty == NewEngine => IsEmpty
  <1> SUFFICES ASSUME Init, engine # "put" PROVE Stored = NoEntries
    BY DEF NewEngine, IsEmpty
  <1>1. MapInv /\ op = "none" /\ InTree = {}
    BY MapInit DEF InTree, Init, Live, Positions
  <1>2. \A k \in Keys : PlaceOf(k) = NoPlace
    BY <1>1, PresentFacts DEF PresentKeys
  <1> QED
    BY <1>2, HoleFacts DEF Stored, NoEntries, Lookup, Pending

------------------------------------------------------------------------------
(* The steps of the cabinet *)

(* What users see of the engine.                                           *)
Mem == IF Running /\ Straight THEN Stored ELSE NoValue

(* The cabinet's actions in the engine's terms.                            *)
LEMMA CabinetSteps ==
  /\ Promised!EmptyMap = NoEntries
  /\ UNCHANGED Promised!vars <=> Mem' = Mem /\ durable' = durable
  /\ Promised!Change <=>
       /\ durable' = durable /\ Mem # NoValue
       /\ Mem' \in {[Mem EXCEPT ![k] = v] : k \in Keys, v \in Values \cup {NoValue}}
  /\ Promised!SolidBegins <=> Mem # NoValue /\ durable' = durable \cup {Mem} /\ Mem' = Mem
  /\ Promised!SolidEnds <=>
       Mem # NoValue /\ Mem \in durable /\ durable' = {Mem} /\ Mem' = Mem
  /\ Promised!CreateBegins <=> Mem = NoValue /\ durable' = {NoEntries} /\ Mem' = Mem
  /\ Promised!Open <=> Mem = NoValue /\ Mem' \in durable /\ durable' = durable
  /\ Promised!Stop <=> Mem' = NoValue /\ durable' = durable
  BY DEF Mem, NoEntries, Promised!EmptyMap, Promised!vars, Promised!Change,
         Promised!SolidBegins, Promised!SolidEnds, Promised!CreateBegins, Promised!Open,
         Promised!Stop

(* One value that changes is a change of one key.                          *)
LEMMA OneValueChanges ==
  ASSUME EngineTypeInv, EngineTypeInv', Running, Running', Straight, Straight',
         durable' = durable,
         NEW k \in Keys, \A l \in Keys \ {k} : Value(l)' = Value(l)
  PROVE  Promised!Change
  <1>1. /\ Stored \in [Keys -> Values \cup {NoValue}] /\ Stored # NoValue
        /\ Stored = [l \in Keys |-> Value(l)]
    BY StoredIs DEF StoredIsMap, Stored, Value
  <1>2. Stored' \in [Keys -> Values \cup {NoValue}] /\ Stored' = [l \in Keys |-> Value(l)']
    <2>1. EngineTypeInv' => StoredIsMap'
      BY StoredIs, PTL
    <2> QED
      BY <2>1 DEF StoredIsMap, Stored, Value
  <1>3. Stored'[k] \in Values \cup {NoValue} /\ Stored' = [Stored EXCEPT ![k] = Stored'[k]]
    BY <1>1, <1>2
  <1> QED
    BY <1>1, <1>3, CabinetSteps DEF Mem, Straight

(* Putting an entry into the index is where a Put takes effect: its record *)
(* is on its way.                                                          *)
LEMMA InsertRefines ==
  ASSUME CabinetInv, CabinetInv', IndexStep, InsertLink,
         OffsetFeb31 \notin Keys, TRUE \notin Covers, "load" \notin Ops
  PROVE  Promised!Change
  <1>0. /\ EngineTypeInv /\ EngineTypeInv' /\ PlaceInv /\ MapInv /\ PoolInv /\ Serves /\ CallInv
        /\ UNCHANGED <<engine, arg, last_offset, data, durable>> /\ Straight /\ Straight'
    BY DEF IndexStep, memory, disk, history, CabinetInv, PlaceInv, MapInv, DiskInv, Straight
  <1>1. /\ engine = "put" /\ Running /\ Running' /\ new.key = arg.key /\ new.key \in Keys
        /\ Keys \subseteq NodeKeys /\ node_id = OffsetFeb31
    <2>1. new.key \in Keys /\ node_id = OffsetFeb31
      BY <1>0 DEF InsertLink, Link, CallInv, Miss
    <2>2. engine = "put" /\ new = FillItem(arg.key, last_offset)
      BY <1>0 DEF InsertLink, Serves
    <2> QED
      BY <1>0, <2>1, <2>2 DEF FillItem, NodeKeys, Running
  <1>2. PICK f : Linked(f)
    BY <1>0, LinkIsLinked
  <1>3. ASSUME NEW l \in Keys \ {new.key} PROVE Value(l)' = Value(l)
    <2>1. PlaceOf(l)' = PlaceOf(l)
      BY <1>1, <1>2, LinkMap
    <2>2. ~Pending(l) /\ ~Pending(l)'
      BY <1>0, <1>1 DEF Pending
    <2> QED
      BY <1>0, <2>1, <2>2, SameValue
  <1>4. PICK k \in Keys : k = new.key
    BY <1>1
  <1> QED
    BY <1>0, <1>1, <1>3, <1>4, OneValueChanges

(* A Delete takes effect when the node is taken out of its tree.           *)
LEMMA DeleteRefines ==
  ASSUME CabinetInv, CabinetInv', IndexStep, DeleteUnlink, OffsetFeb31 \notin Keys
  PROVE  Promised!Change
  <1>0. /\ EngineTypeInv /\ EngineTypeInv' /\ PlaceInv /\ MapInv /\ Serves /\ CallInv
        /\ TreeClosed /\ NodesHold
        /\ UNCHANGED <<engine, arg, last_offset, data, durable>> /\ Straight /\ Straight'
    BY DEF IndexStep, memory, disk, history, CabinetInv, PlaceInv, MapInv, DiskInv, Straight
  <1>1. /\ engine = "delete" /\ Running /\ Running' /\ new.key \in Keys /\ Keys \subseteq NodeKeys
    BY <1>0 DEF DeleteUnlink, Serves, CallInv, NodeKeys, Running
  <1>2. PICK c : Unlinked(node_id, c)
    BY <1>0, UnlinkIsUnlinked
  <1>3. PICK d : Unlinked(d, c)
    BY <1>2
  <1>4. ASSUME NEW l \in Keys \ {new.key} PROVE Value(l)' = Value(l)
    <2>1. PlaceOf(l)' = PlaceOf(l)
      BY <1>0, <1>1, <1>3, UnlinkMap
    <2>2. ~Pending(l) /\ ~Pending(l)'
      BY <1>0, <1>1 DEF Pending
    <2> QED
      BY <1>0, <2>1, <2>2, SameValue
  <1>5. PICK k \in Keys : k = new.key
    BY <1>1
  <1> QED
    BY <1>0, <1>1, <1>4, <1>5, OneValueChanges

(* The other steps of the index do not show.                               *)
LEMMA IndexRefines ==
  ASSUME CabinetInv, CabinetInv', IndexStep,
         OffsetFeb31 \notin Keys, TRUE \notin Covers, "load" \notin Ops
  PROVE  Promised!Change \/ UNCHANGED Promised!vars
  <1>1. CASE ~InsertLink /\ ~DeleteUnlink
    <2>1. /\ UNCHANGED <<engine, arg, last_offset, data, durable, astray>>
          /\ UNCHANGED <<item, heads, pool>>
      BY <1>1
      DEF IndexStep, memory, disk, history, Handler, WalkLeft, WalkRight, SearchEnd, InsertExist,
          InsertFull, DeleteMiss, DeleteTwo, NearestStep, NearestNull, LoadItem, LoadLink, LoadEnd, Crash,
          CabinetInv, MapInv, PoolInv
    <2>2. ASSUME NEW k \in Keys PROVE Value(k)' = Value(k)
      <3>1. PlaceOf(k)' = PlaceOf(k)
        BY <2>1, TreesUnchanged
      <3>2. Pending(k)' <=> Pending(k)
        BY <2>1, <3>1 DEF Pending
      <3> QED
        BY <2>1, <3>1, <3>2, SameValue
    <2>3. Stored' = Stored
      BY <2>2, StoredStays
    <2> QED
      BY <2>1, <2>3, CabinetSteps DEF Mem, Running, Straight
  <1> QED
    BY <1>1, InsertRefines, DeleteRefines

(* A step that leaves the index and the files' records and has no Put on   *)
(* its way, before or after, leaves the map.                               *)
LEMMA QuietStep ==
  ASSUME UNCHANGED <<item, heads, pool, data>>,
         \A k \in Keys : ~Pending(k) /\ ~Pending(k)'
  PROVE  Stored' = Stored
  <1>1. ASSUME NEW k \in Keys PROVE Value(k)' = Value(k)
    <2>1. PlaceOf(k)' = PlaceOf(k)
      BY TreesUnchanged
    <2> QED
      BY <2>1, SameValue
  <1> QED
    BY <1>1, StoredStays

(* Making the files begins a new cabinet, and the engine that CreateData   *)
(* leaves has the empty map; the end of the process is a stop.             *)
LEMMA FilesRefine ==
  ASSUME CabinetInv, CreateMeta \/ CreateData \/ OpenFiles \/ OpenEnd \/ Die, "load" \notin Ops
  PROVE  Promised!CreateBegins \/ Promised!Open \/ Promised!Stop
  <1>1. CASE CreateMeta
    <2>1. Mem = NoValue /\ Mem' = NoValue /\ durable' = {NoEntries}
      BY <1>1 DEF CreateMeta, Goto, Mem, Running
    <2> QED
      BY <2>1, CabinetSteps
  <1>2. CASE CreateData
    <2>1. /\ Init' /\ engine = "create" /\ engine' = "ready" /\ durable' = durable
          /\ Straight'
      BY <1>2, NewIndexIsInit DEF CreateData, Goto, history, CabinetInv, DiskInv, Straight
    <2>2. Init' /\ engine' # "put" => Stored' = NoEntries'
      <3>1. NewEngine' => IsEmpty'
        BY NewIsEmpty, PTL
      <3> QED
        BY <3>1 DEF NewEngine, IsEmpty
    <2>3. Mem = NoValue /\ Mem' = NoEntries /\ durable = {NoEntries}
      BY <2>1, <2>2 DEF Mem, Running, CabinetInv, DiskInv, NoEntries, Straight
    <2> QED
      BY <2>1, <2>3, CabinetSteps
  <1>3. CASE OpenFiles \/ OpenEnd
    BY <1>3 DEF OpenFiles, OpenEnd, StartLoad, Enter, CabinetInv, DiskInv
  <1>4. CASE Die
    <2>1. Mem' = NoValue /\ durable' = durable
      BY <1>4 DEF Die, Lose, Mem, Running
    <2> QED
      BY <2>1, CabinetSteps
  <1> QED
    BY <1>1, <1>2, <1>3, <1>4

(* A Solid, cut short or not, leaves the map in memory and adds it to what *)
(* may be on disk; its end makes it the only one.                          *)
LEMMA SolidRefines ==
  ASSUME CabinetInv, SolidConf \/ SolidIndex \/ SolidSlots \/ SolidSlotsHorizon \/ SolidHorizon \/ SolidEnd
  PROVE  /\ Stored' = Stored
         /\ Promised!SolidBegins \/ Promised!SolidEnds \/ UNCHANGED Promised!vars
  <1>1. /\ UNCHANGED <<vars, data>> /\ engine # "put" /\ engine' # "put"
        /\ Running /\ Running' /\ Straight /\ Straight'
    BY DEF SolidConf, SolidIndex, SolidSlots, SolidSlotsHorizon, SolidHorizon, SolidEnd, SolidItem,
           Persists, Goto, Running, disk, CabinetInv, DiskInv, Straight
  <1>2. Stored' = Stored
    BY <1>1, QuietStep DEF vars, Pending
  <1>3. Mem = Stored /\ Mem' = Stored /\ Mem # NoValue
    BY <1>1, <1>2, StoredIs DEF Mem, CabinetInv, StoredIsMap
  <1>4. SolidConf => Promised!SolidBegins
    <2>1. SolidConf => durable' = durable \cup {Stored}
      BY <1>1 DEF SolidConf, Saves, Straight
    <2> QED
      BY <1>3, <2>1, CabinetSteps
  <1>5. SolidIndex \/ SolidSlots \/ SolidSlotsHorizon \/ SolidHorizon => UNCHANGED Promised!vars
    <2>1. SolidIndex \/ SolidSlots \/ SolidSlotsHorizon \/ SolidHorizon => durable' = durable
      BY DEF SolidIndex, SolidSlots, SolidSlotsHorizon, SolidHorizon, SolidItem
    <2> QED
      BY <1>3, <2>1, CabinetSteps
  <1>6. SolidEnd => Promised!SolidEnds
    <2>1. SolidEnd => durable' = {Stored} /\ Stored \in durable
      BY <1>1 DEF SolidEnd, Saves, Straight, CabinetInv, DiskInv, Solids
    <2> QED
      BY <1>3, <2>1, CabinetSteps
  <1> QED
    BY <1>2, <1>4, <1>5, <1>6

(* The beginning of a Put, a Put the index refuses, and both ends of a     *)
(* Delete change nothing.                                                  *)
LEMMA CallsRefine ==
  ASSUME CabinetInv, OffsetFeb31 \notin Keys,
         \/ PutRefused \/ DeleteEnd
         \/ \E k \in Keys : Delete(k)
         \/ \E k \in Keys, v \in Values, c \in Covers : Put(k, v, c)
  PROVE  UNCHANGED Promised!vars
  <1>1. /\ UNCHANGED <<item, heads, pool, data, durable, last_offset>> /\ Running /\ Running'
        /\ engine # "put" \/ status # "Ok"
        /\ Straight /\ Straight'
    BY DEF PutRefused, PutReturns, DeleteEnd, Delete, Put, Call, Goto, vars, disk, history, Running,
           CabinetInv, DiskInv, Straight
  <1>2. ASSUME NEW k \in Keys PROVE ~Pending(k) /\ ~Pending(k)'
    <2>1. PlaceOf(k)' = PlaceOf(k)
      BY <1>1, TreesUnchanged
    <2>2. PlaceOf(k) # last_offset \/ engine' # "put"
      <3>1. engine' = "put" => last_offset \in Places
        BY EngineFacts DEF PutRefused, PutReturns, DeleteEnd, Delete, Put, Goto,
                           CabinetInv, EngineTypeInv, EngineTypeOK
      <3> QED
        BY <1>1, <3>1, PlacesUsed, EngineFacts DEF CabinetInv
    <2> QED
      BY <1>1, <2>1, <2>2, PlacesUsed DEF Pending, CabinetInv
  <1>3. Stored' = Stored
    BY <1>1, <1>2, QuietStep
  <1> QED
    BY <1>1, <1>3, CabinetSteps DEF Mem, Straight

(* The write of a Put keeps its promise, or fails and takes the key's      *)
(* value away.                                                             *)
LEMMA WriteRefines ==
  ASSUME CabinetInv, CabinetInv', PutWrite, OffsetFeb31 \notin Keys
  PROVE  Promised!Change
  <1>0. /\ EngineTypeInv /\ EngineTypeInv' /\ PlaceInv /\ Running /\ Running'
        /\ UNCHANGED <<vars, durable>> /\ engine' = "ready" /\ Straight /\ Straight'
        /\ last_offset \in Nat /\ arg \in Records /\ data \in Seq(Records)
    BY DEF PutWrite, PutReturns, Goto, Running, history, CabinetInv, DiskInv, Straight, EngineTypeInv,
           EngineTypeOK, Records
  <1>1. PICK off \in Nat : off = last_offset
    BY <1>0
  <1>2. \A o \in Nat \ {off} : RecordAt(o)' = RecordAt(o)
    <2>1. CASE data' = data
      BY <2>1 DEF RecordAt, Hole, Record
    <2>2. CASE data' = Written(data, off, arg)
      BY <1>0, <2>2, WriteDoes
    <2> QED
      BY <1>1, <2>1, <2>2 DEF PutWrite
  <1>3. ASSUME NEW l \in Keys \ {arg.key} PROVE Value(l)' = Value(l)
    <2>1. PlaceOf(l)' = PlaceOf(l)
      BY <1>0, TreesUnchanged DEF vars
    <2>2. ~Pending(l) /\ ~Pending(l)'
      BY <1>0 DEF Pending
    <2>3. PlaceOf(l) # NoPlace => PlaceOf(l) \in Nat \ {off}
      BY <1>0, <1>1, PlacesUsed
    <2>4. Lookup(l)' = Lookup(l)
      <3>1. PICK p : p = PlaceOf(l)
        OBVIOUS
      <3>2. p # NoPlace => RecordAt(p)' = RecordAt(p)
        BY <1>2, <2>3, <3>1
      <3> QED
        BY <2>1, <3>1, <3>2 DEF Lookup, Hole, Record
    <2> QED
      BY <2>2, <2>4 DEF Value
  <1>4. PICK k \in Keys : k = arg.key
    BY DEF PutWrite, CabinetInv, EngineTypeInv
  <1> QED
    BY <1>0, <1>3, <1>4, OneValueChanges

------------------------------------------------------------------------------
(* The invariant and the refinement *)

(* At first there is nothing on disk.                                      *)
LEMMA CabinetInit == EngineInit => CabinetInv /\ Promised!Init
  <1> SUFFICES ASSUME EngineInit PROVE CabinetInv /\ Promised!Init
    OBVIOUS
  <1>1. EngineTypeInv /\ PlaceInv /\ MapInv
    BY EngineTypeInit, PlaceInit, MapInit DEF EngineInit
  <1>2. SolidInv /\ DiskInv /\ Promised!Init
    BY DEF EngineInit, SolidInv, DiskInv, Solids, Promised!Init, Running, Straight
  <1> QED
    BY <1>1, <1>2 DEF CabinetInv

(* What the disk is taken to hold is so after every step.                  *)
LEMMA DiskStep ==
  ASSUME CabinetInv, [EngineNext]_all, OffsetFeb31 \notin Keys, "load" \notin Ops
  PROVE  DiskInv'
  <1>1. CASE SolidConf \/ SolidIndex \/ SolidSlots \/ SolidSlotsHorizon \/ SolidHorizon \/ SolidEnd
    BY <1>1, SolidRefines
    DEF SolidConf, SolidIndex, SolidSlots, SolidSlotsHorizon, SolidHorizon, SolidEnd, SolidItem,
        Persists, Saves, Goto, CabinetInv, DiskInv, Solids, Straight
  <1>2. CASE IndexStep
    BY <1>2 DEF IndexStep, memory, Handler, WalkLeft, WalkRight, SearchEnd, InsertExist,
                InsertLink, InsertFull, DeleteMiss, DeleteUnlink, DeleteTwo, NearestStep,
                NearestNull, LoadItem, LoadLink, LoadEnd, Link, CabinetInv, DiskInv, SolidInv,
                Solids, NoEntries, history, Straight
  <1>3. CASE CreateMeta
    BY <1>3 DEF CreateMeta, Goto, DiskInv, Solids, NoEntries, Straight
  <1>4. CASE \/ CreateData \/ PutRefused \/ PutWrite \/ DeleteEnd \/ Die
             \/ \E k \in Keys : Delete(k)
             \/ \E k \in Keys, v \in Values, c \in Covers : Put(k, v, c)
    BY <1>4 DEF CreateData, PutRefused, PutWrite, PutReturns, DeleteEnd, Die, Lose, Delete, Put,
                Goto, history, CabinetInv, DiskInv, Solids, Straight
  <1>5. CASE OpenFiles \/ OpenEnd
    BY <1>5 DEF OpenFiles, OpenEnd, StartLoad, Enter, CabinetInv, DiskInv
  <1>6. CASE UNCHANGED all
    <2>1. UNCHANGED <<engine, durable, astray>> /\ Stored' = Stored
      BY <1>6, SameValue, TreesUnchanged, StoredStays DEF all, vars, memory, disk, history, Pending
    <2> QED
      BY <2>1 DEF CabinetInv, DiskInv, NoEntries, Straight
  <1> QED
    BY <1>1, <1>2, <1>3, <1>4, <1>5, <1>6 DEF EngineNext, User, Steps

(* The invariant of the refinement is one.                                 *)
LEMMA CabinetStep ==
  ASSUME OffsetFeb31 \notin Keys, "load" \notin Ops
  PROVE  CabinetInv /\ [EngineNext]_all => CabinetInv'
  BY EngineTypeStep, PlaceStep, SolidStep, MapMoves, DiskStep DEF CabinetInv

(* Every step of the engine is a step of the cabinet or does not show.     *)
LEMMA CabinetRefines ==
  ASSUME OffsetFeb31 \notin Keys, "load" \notin Ops, TRUE \notin Covers
  PROVE  CabinetInv /\ CabinetInv' /\ [EngineNext]_all => [Promised!Next]_(Promised!vars)
  <1> SUFFICES ASSUME CabinetInv, CabinetInv', [EngineNext]_all
               PROVE  Promised!Next \/ UNCHANGED Promised!vars
    OBVIOUS
  <1>1. CASE UNCHANGED all
    <2>1. UNCHANGED <<engine, durable, astray>> /\ Stored' = Stored
      BY <1>1, SameValue, TreesUnchanged, StoredStays DEF all, vars, memory, disk, history, Pending
    <2> QED
      BY <2>1, CabinetSteps DEF Mem, Running, Straight
  <1> QED
    BY <1>1, IndexRefines, FilesRefine, SolidRefines, CallsRefine, WriteRefines
    DEF EngineNext, User, Steps, Promised!Next

(* The engine is a cabinet: with any number of keys, nodes and records,    *)
(* with an index that fills up, with writes that fail, with an engine that *)
(* is closed or dies anywhere and is made anew over the old files, Put and *)
(* Delete change one key, a failed write changes no other key, Solid saves *)
(* the map that users saw when it began, and a new cabinet is empty        *)
(* (engine.cc:21-133).                                                     *)
THEOREM EngineIsCabinet ==
  ASSUME OffsetFeb31 \notin Keys, "load" \notin Ops, TRUE \notin Covers
  PROVE  EngineSpec => IsCabinet
  <1>1. EngineInit => CabinetInv /\ Promised!Init
    BY CabinetInit
  <1>2. CabinetInv /\ [EngineNext]_all => CabinetInv'
    BY CabinetStep
  <1>3. CabinetInv /\ CabinetInv' /\ [EngineNext]_all => [Promised!Next]_(Promised!vars)
    BY CabinetRefines
  <1> QED
    BY <1>1, <1>2, <1>3, PTL DEF EngineSpec, IsCabinet, Promised!Spec
==============================================================================
