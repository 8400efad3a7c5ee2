------------------------------- MODULE Arrange -------------------------------
(***************************************************************************)
(* HashEngine::Arrange (src/kvs/src/engine/arrange.cc): copy the records   *)
(* the index still knows to the data file of the other generation, build a *)
(* new index for them, and go on with the new pair of files.               *)
(*                                                                         *)
(* meta, data and files of Engine are those of the generation the engine   *)
(* uses; shelf has those of the other one.  The conf file names a          *)
(* generation, which an Open after the process died goes by.  Reborn       *)
(* copies items with their pointers, so that the new index and the old one *)
(* write to one array of nodes, item.                                      *)
(***************************************************************************)
EXTENDS EngineProps

(* Without failing writes every place in the data file has a record.       *)
ASSUME ArrangeAssumption == Fails = FALSE

VARIABLES
  shelf,     \* the files of the generation not in use
  switched,  \* TRUE: the conf file still names the shelf's generation
  dest,      \* dest_index and dest_space of ArrangeScan, while it runs
  base_off,  \* base_off of ArrangeScan
  scan_ok    \* s of ArrangeScan is Ok

scan    == <<dest, base_off, scan_ok>>
arrange == <<all, shelf, switched, scan>>

EmptyShelf == [meta |-> Blank, data |-> <<>>, files |-> {}]

(* A new index has its own heads and horizon and, since Reborn copies the  *)
(* pointers to the buffers, the nodes of the old one.                      *)
NewDest(off) == [heads |-> Heads(hash_head_size), horizon |-> 0, last_offset |-> off]
NoDest == [heads |-> Heads(HeadSize), horizon |-> 0, last_offset |-> 0]

NoScan == dest' = NoDest /\ base_off' = 0 /\ scan_ok' = TRUE

ArrangeInit ==
  /\ EngineInit
  /\ shelf = EmptyShelf /\ switched = FALSE
  /\ dest = NoDest /\ base_off = 0 /\ scan_ok = TRUE

------------------------------------------------------------------------------
(* The new files: the header of the data file is written, and neither file *)
(* is truncated.  The scan begins where the new data file ends, although   *)
(* it reads the old one.                                                   *)
ArrangeStart ==
  /\ engine = "ready"
  /\ Goto("arrange scan")
  /\ shelf' = [shelf EXCEPT !.files = @ \cup {"data"}]
  /\ dest' = NewDest(Len(shelf.data))
  /\ base_off' = Len(shelf.data) /\ scan_ok' = TRUE
  /\ UNCHANGED <<vars, arg, last_offset, disk, history, switched>>

(* BSTInsert of dest_index, with cover: where its walk ends, hit or miss.  *)
DestDeref(loc) == IF loc.at = "head" THEN dest.heads[loc.of] ELSE Deref(loc)
DestPointer(k) ==
  LET ptr[i \in 0 .. NumItems] ==
        IF i = 0 THEN Root(k)
        ELSE LET n == DestDeref(ptr[i - 1]) IN
             IF n = OffsetFeb31 \/ item[n].key = k THEN ptr[i - 1]
             ELSE [at |-> IF k < item[n].key THEN "left" ELSE "right", of |-> n]
  IN ptr[NumItems]

(* The node is taken from the new index's horizon and written over what    *)
(* the old index has at that position.                                     *)
DestInsert(k) ==
  LET n == dest.horizon
      loc == DestPointer(k)
      nodes == [item EXCEPT ![n] = FillItem(k, dest.last_offset)]
  IN /\ item' = IF loc.at = "left" THEN [nodes EXCEPT ![loc.of].left = n]
                ELSE IF loc.at = "right" THEN [nodes EXCEPT ![loc.of].right = n]
                ELSE nodes
     /\ dest' = [dest EXCEPT !.heads = IF loc.at = "head" THEN [@ EXCEPT ![loc.of] = n] ELSE @,
                             !.horizon = n + 1, !.last_offset = @ + 1]

Scanning == engine = "arrange scan" /\ base_off < last_offset
ScannedKey == RecordAt(base_off).key

(* Search of the old index, in nodes the new one has partly overwritten;   *)
(* it ends all the same, as a new node leads to new nodes only.  When it   *)
(* fails, the offset and the length that are compared were never set: the  *)
(* record may be copied or not.                                            *)
Taken == PlaceOf(ScannedKey) \in {base_off, NoPlace}
Left  == PlaceOf(ScannedKey) # base_off

ScanCopy ==
  /\ Scanning /\ Taken /\ dest.horizon < NumItems
  /\ DestInsert(ScannedKey)
  /\ shelf' = [shelf EXCEPT !.data = Written(@, dest.last_offset, RecordAt(base_off))]
  /\ base_off' = base_off + 1 /\ scan_ok' = TRUE
  /\ UNCHANGED <<heads, pool, pc, call, cursor, loop, answer, memory, disk, history,
                 switched>>

(* The status of the Search is kept, and may be the last one of the scan.  *)
ScanSkip ==
  /\ Scanning /\ Left
  /\ base_off' = base_off + 1 /\ scan_ok' = (PlaceOf(ScannedKey) # NoPlace)
  /\ UNCHANGED <<all, shelf, switched, dest>>

ScanFull ==
  /\ Scanning /\ Taken /\ dest.horizon = NumItems
  /\ Crash
  /\ UNCHANGED <<memory, disk, history, shelf, switched, scan>>

Scanned(ok) == engine = "arrange scan" /\ base_off >= last_offset /\ scan_ok = ok

(* When the key of the last record is not in the index, ArrangeScan ends   *)
(* with NotExist and Arrange returns it; the engine goes on with an index  *)
(* some of whose nodes now are the new one's.                              *)
ArrangeReturns ==
  /\ Scanned(FALSE)
  /\ Goto("ready") /\ NoScan
  /\ astray' = IF dest.horizon = 0 THEN astray ELSE astray \cup {"index"}
  /\ UNCHANGED <<vars, arg, last_offset, disk, durable, shelf, switched>>

(* new_meta_conf.Solid: the horizon was set to 0 before the new index was  *)
(* made and is not set again.  The mutant writes the file in use.          *)
NewMeta == [item |-> item, horizon |-> 0, slots |-> <<>>]
SaveHere ==
  /\ Scanned(TRUE)
  /\ Goto("arrange jump")
  /\ meta' = NewMeta
  /\ shelf' = [shelf EXCEPT !.files = @ \cup MetaItems]
  /\ UNCHANGED <<vars, arg, last_offset, data, files, history, switched, scan>>
ArrangeSave ==
  /\ Scanned(TRUE)
  /\ Goto("arrange jump")
  /\ shelf' = [shelf EXCEPT !.meta = NewMeta, !.files = @ \cup MetaItems]
  /\ UNCHANGED <<vars, arg, last_offset, disk, history, switched, scan>>

Swap ==
  /\ meta' = shelf.meta /\ data' = shelf.data /\ files' = shelf.files
  /\ shelf' = [meta |-> meta, data |-> data, files |-> files]

(* The new files are loaded: INDEX::Load with a horizon of 0 inserts       *)
(* nothing.                                                                *)
ShelfEnd == Len(shelf.data)
ArrangeJump ==
  /\ engine = "arrange jump"
  /\ Goto("arrange solid")
  /\ Swap /\ switched' = ~switched
  /\ item' = shelf.meta.item
  /\ hash_head' = Heads(hash_head_size) /\ hash_head_size' = hash_head_size
  /\ item_horizon' = shelf.meta.horizon /\ free_slots' = shelf.meta.slots
  /\ last_offset' = ShelfEnd
  /\ astray' = IF "files" \in astray THEN astray ELSE {}
  /\ NoScan
  /\ UNCHANGED <<pc, call, cursor, loop, answer, arg, durable>>

(* Solid: the conf file names the new generation, and the rest of Solid is *)
(* that of Engine.                                                         *)
SwitchConf ==
  /\ engine = "arrange solid"
  /\ Goto("solid index")
  /\ switched' = FALSE
  /\ Saves(durable \cup {Stored}) /\ astray' = astray
  /\ UNCHANGED <<vars, arg, last_offset, disk, shelf, scan>>

ArrangeDie ==
  /\ Lose
  /\ IF switched THEN Swap ELSE UNCHANGED <<disk, shelf>>
  /\ switched' = FALSE
  /\ NoScan

------------------------------------------------------------------------------
(* Create always makes generation 0: here it comes once, before all else.  *)
EngineStep ==
  /\ User \/ Steps
  /\ engine' = "create" => "data" \notin files
  /\ UNCHANGED <<shelf, switched, scan>>

ArrangeStep ==
  \/ ScanCopy \/ ScanSkip \/ ScanFull \/ ArrangeReturns
  \/ ArrangeSave \/ ArrangeJump \/ SwitchConf

ArrangeNext == EngineStep \/ ArrangeStart \/ ArrangeStep \/ ArrangeDie

ArrangeSpec == ArrangeInit /\ [][ArrangeNext]_arrange

------------------------------------------------------------------------------
(* A process that dies in an Arrange, at any point, meets at Open the map  *)
(* of a Solid of the generation the conf file names: the files in use are  *)
(* not written before the switch, and the switch is one write.  It is so   *)
(* after an Arrange that gave up, too, unless a Solid has saved the nodes  *)
(* it left behind.                                                         *)
OldOrNew == [][OpenEnd /\ Straight => Stored' \in durable]_arrange
=============================================================================
