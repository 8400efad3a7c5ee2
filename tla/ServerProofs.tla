---------------------------- MODULE ServerProofs ----------------------------
(***************************************************************************)
(* Proofs about SERVER, WORKER and JOBS for every number of connections,   *)
(* descriptors, slots and ticks, and, but for the last part, of workers.   *)
(***************************************************************************)
EXTENDS ServerProps, NatLemmas

------------------------------------------------------------------------------
(* Types *)

(* A descriptor that is worked with is one: Run's between accept and add   *)
(* and while it injects, those of used slots, and that of a job.           *)
KnowsFds ==
  /\ main \in {"nonblock", "add", "inject"} => cur \in Fds
  /\ \A w \in Workers : \A i \in Waiting(w) : jobs[w][i].fd \in Fds
  /\ \A w \in Workers : wpc[w] \in {"run", "close"} => job[w] \in Fds

TypeInv == TypeOK /\ KnowsFds

------------------------------------------------------------------------------
(* The mutex *)

(* A worker that searches its list holds the mutex, and has passed no used *)
(* slot: none is filled behind its back.                                   *)
SearchesAll ==
  \A w \in Workers :
    wpc[w] = "scan" => lock[w] = "held" /\ \A i \in Waiting(w) : i >= it[w]

------------------------------------------------------------------------------
(* Descriptors *)

Closing(f) == \E w \in Workers : wpc[w] = "close" /\ job[w] = f

(* A connection has at most one descriptor while it is open, which epoll   *)
(* watches unless Run is about to add it; epoll drops a closed one.        *)
OneDescriptor ==
  /\ \A f, g \in Fds : fdtab[f] # NoConn /\ fdtab[f] = fdtab[g] => f = g
  /\ \A f \in Fds : fdtab[f] # NoConn => conn[fdtab[f]] = "open"
  /\ \A f \in Fds : fdtab[f] # NoConn => f \in watched \/ (main \in {"nonblock", "add"} /\ cur = f)
  /\ \A f \in watched : fdtab[f] # NoConn

(* A message is read only from an open descriptor, whose worker then       *)
(* closes it, and a reset is the only other way to lose one.               *)
MessageKept ==
  /\ \A c \in sent \ unread : conn[c] \in {"open", "closed"}
  /\ \A f \in Fds : fdtab[f] \in sent \ (unread \cup rst) => Closing(f)

(* Run goes back to epoll_wait with no event left.                         *)
BatchDone == main = "wait" => events = {}

FdInv == OneDescriptor /\ MessageKept /\ BatchDone /\ NotForgotten

------------------------------------------------------------------------------
(* One worker and no client that leaves *)

InList(w, f) == \E i \in Waiting(w) : jobs[w][i].fd = f
InEvents(f)  == \E e \in events : e.fd = f
Injecting(f) == main = "inject" /\ cur = f
Running(w, f) == wpc[w] = "run" /\ job[w] = f

(* What has been said about a descriptor is in one place: its edge, its    *)
(* event, Run's hand, a slot or the worker's job.                          *)
OnePlace(w) ==
  \A f \in Fds :
    /\ f \in ready => ~InEvents(f) /\ ~Injecting(f) /\ ~InList(w, f) /\ ~Running(w, f)
    /\ InEvents(f) => ~Injecting(f) /\ ~InList(w, f) /\ ~Running(w, f)
    /\ Injecting(f) => ~InList(w, f) /\ ~Running(w, f)
    /\ Running(w, f) => ~InList(w, f)
OneSlot(w) ==
  \A i, j \in Waiting(w) : jobs[w][i].fd = jobs[w][j].fd => i = j

(* And it stands for a message to be read.                                 *)
MessageBehind(w) ==
  \A f \in Fds :
    f \in ready \/ InEvents(f) \/ Injecting(f) \/ InList(w, f) \/ Running(w, f)
      => fdtab[f] \in unread

(* A descriptor Run is about to add is open, has had no event, and is in   *)
(* nobody's hand.                                                          *)
AddedIsNew(w) ==
  main \in {"nonblock", "add"} =>
    /\ cur \notin watched /\ cur \notin ready /\ ~InEvents(cur)
    /\ ~InList(w, cur) /\ ~Running(w, cur)
    /\ fdtab[cur] # NoConn /\ ~(wpc[w] = "close" /\ job[w] = cur)

(* The worker closes what it has read, and only that: no event is a hang   *)
(* up.                                                                     *)
ClosesRead(w) == wpc[w] = "close" => fdtab[job[w]] \in sent \ unread
NoHup == hup = {} /\ \A e \in events : ~e.hup

OneMessage(w) ==
  /\ OnePlace(w) /\ OneSlot(w) /\ MessageBehind(w) /\ AddedIsNew(w) /\ ClosesRead(w)
  /\ NoHup
  /\ stored \in sent \cup {Nothing}

QuietInv == Quiet => \A w \in Workers : OneMessage(w)

------------------------------------------------------------------------------
(* Lemmas about the operators *)

(* The lowest of some numbers is one of them.                              *)
LEMMA MinIsLeast ==
  ASSUME NEW S \in SUBSET Nat, S # {}
  PROVE  Min(S) \in S /\ \A x \in S : Min(S) <= x
  BY LeastNatural DEF Min

(* The end of the list is no slot.                                         *)
LEMMA EndIsNoSlot == Slots \subseteq Nat \ {0} /\ End \notin Slots /\ 1 \in Slots
  BY JobsAssumption DEF Slots, End

(* Descriptors are positive, so that neither Listen nor -1 is one.         *)
LEMMA FdFacts ==
  /\ Fds \subseteq Nat /\ Listen \notin Fds /\ -1 \notin Fds
  /\ NoConn \notin Conns
  BY ServerAssumption DEF Listen

(* accept hands out a descriptor that is not open.                         *)
LEMMA LowestFree ==
  ASSUME FreeFds # {}
  PROVE  Min(FreeFds) \in Fds /\ fdtab[Min(FreeFds)] = NoConn
  <1>1. FreeFds \in SUBSET Nat
    BY FdFacts DEF FreeFds
  <1>2. Min(FreeFds) \in FreeFds
    BY <1>1, MinIsLeast
  <1> QED
    BY <1>2 DEF FreeFds

(* inject fills a slot that is not used.                                   *)
LEMMA FirstUnusedIsFree ==
  ASSUME NEW list, FirstUnused(list) # End
  PROVE  FirstUnused(list) \in Slots /\ ~list[FirstUnused(list)].used
  <1> DEFINE free == Slots \ Used(list)
  <1>1. free \in SUBSET Nat
    BY EndIsNoSlot
  <1>2. free # {} /\ FirstUnused(list) = Min(free)
    BY DEF FirstUnused
  <1>3. Min(free) \in free
    BY <1>1, <1>2, MinIsLeast
  <1> QED
    BY <1>2, <1>3 DEF Used

(* fetch finds the first used slot from the iterator on, and stops at the  *)
(* end only when there is none.                                            *)
LEMMA NextUsedIsFirst ==
  ASSUME NEW list, NEW from \in Slots
  PROVE  LET i == NextUsed(list, from) IN
           /\ i = End => \A j \in Slots : list[j].used => ~(j >= from)
           /\ i # End => /\ i \in Slots /\ list[i].used /\ i >= from
                         /\ \A j \in Slots : list[j].used /\ j >= from => j >= i
  <1> DEFINE rest == {i \in Used(list) : i >= from}
  <1>1. rest \in SUBSET Nat /\ rest \subseteq Slots
    BY EndIsNoSlot DEF Used
  <1>2. \A j \in rest : list[j].used /\ j >= from
    BY DEF Used
  <1>3. \A j \in Slots : list[j].used /\ j >= from => j \in rest
    BY DEF Used
  <1>4. NextUsed(list, from) = IF rest = {} THEN End ELSE Min(rest)
    BY DEF NextUsed
  <1>5. rest # {} => Min(rest) \in rest /\ \A x \in rest : Min(rest) <= x
    BY <1>1, MinIsLeast
  <1> HIDE DEF rest
  <1>6. CASE rest = {}
    BY <1>3, <1>4, <1>6
  <1>7. CASE rest # {}
    <2>1. NextUsed(list, from) = Min(rest) /\ Min(rest) # End
      BY <1>1, <1>4, <1>5, <1>7, EndIsNoSlot
    <2>2. \A j \in rest : j >= Min(rest)
      BY <1>1, <1>5, <1>7, EndIsNoSlot
    <2> QED
      BY <1>1, <1>2, <1>3, <1>5, <1>7, <2>1, <2>2
  <1> QED
    BY <1>6, <1>7

(* What closing a descriptor changes.                                      *)
LEMMA CloseDoes ==
  ASSUME TypeOK, NEW f, Close(f)
  PROVE  /\ sent' = sent /\ fin' = fin /\ rst' = rst
         /\ conn' \in [Conns -> {"new", "backlog", "open", "closed"}]
         /\ \A c \in Conns : conn'[c] = IF f \in Fds /\ c = fdtab[f] THEN "closed" ELSE conn[c]
         /\ fdtab' \in [Fds -> Conns \cup {NoConn}]
         /\ \A g \in Fds : fdtab'[g] = IF g = f THEN NoConn ELSE fdtab[g]
         /\ unread' = unread \ (IF f \in Fds THEN {fdtab[f]} ELSE {})
         /\ watched' \subseteq watched /\ ready' \subseteq ready /\ hup' \subseteq hup
         /\ watched \ {f} \subseteq watched' /\ ready \ {f} \subseteq ready'
         /\ f \in Fds \ FreeFds => f \notin watched'
         /\ hup' \subseteq ready' /\ ready' \subseteq watched'
  <1>0. NoConn \notin Conns
    BY FdFacts
  <1>1. CASE f \in Fds \ FreeFds
    <2>1. f \in Fds /\ fdtab[f] \in Conns
      BY <1>1 DEF FreeFds, TypeOK
    <2>2. /\ conn' = [conn EXCEPT ![fdtab[f]] = "closed"]
          /\ unread' = unread \ {fdtab[f]}
          /\ fdtab' = [fdtab EXCEPT ![f] = NoConn]
          /\ watched' = watched \ {f}
          /\ ready' = ready \ {f} /\ hup' = hup \ {f}
          /\ UNCHANGED <<sent, fin, rst>>
      BY <1>1 DEF Close
    <2> QED
      BY <2>1, <2>2 DEF TypeOK
  <1>2. CASE f \notin Fds \ FreeFds
    <2>1. UNCHANGED kernel
      BY <1>2 DEF Close
    <2>2. f \in Fds => fdtab[f] = NoConn
      BY <1>2 DEF FreeFds
    <2> QED
      BY <1>0, <1>2, <2>1, <2>2 DEF kernel, TypeOK
  <1> QED
    BY <1>1, <1>2

------------------------------------------------------------------------------
(* Types hold *)

(* At first nothing is known of any descriptor.                            *)
LEMMA TypeInit == Init => TypeInv
  <1> SUFFICES ASSUME Init PROVE TypeInv
    OBVIOUS
  <1>1. 0 \in 0 .. MaxTime
    BY ServerAssumption
  <1>2. TypeOK
    BY <1>1, EndIsNoSlot DEF Init, TypeOK, EmptyList, Listen, Nothing
  <1>3. KnowsFds
    BY DEF Init, KnowsFds, Waiting, EmptyList
  <1> QED
    BY <1>2, <1>3 DEF TypeInv

(* The slots of a list, taken one at a time.                               *)
LEMMA PutTyped ==
  ASSUME NEW list \in [Slots -> [used : BOOLEAN, fd : Fds \cup {-1}, start : 0 .. MaxTime]],
         NEW i \in Slots, NEW f \in Fds, NEW t \in 0 .. MaxTime
  PROVE  /\ Put(list, i, f, t) \in [Slots -> [used : BOOLEAN, fd : Fds \cup {-1}, start : 0 .. MaxTime]]
         /\ Put(list, i, f, t)[i].used /\ Put(list, i, f, t)[i].fd = f
         /\ \A j \in Slots \ {i} : Put(list, i, f, t)[j] = list[j]
  BY DEF Put

(* Taking a job changes its slot only.                                     *)
LEMMA TakeTyped ==
  ASSUME NEW list \in [Slots -> [used : BOOLEAN, fd : Fds \cup {-1}, start : 0 .. MaxTime]],
         NEW i \in Slots
  PROVE  /\ Take(list, i) \in [Slots -> [used : BOOLEAN, fd : Fds \cup {-1}, start : 0 .. MaxTime]]
         /\ Expire(list, i) \in [Slots -> [used : BOOLEAN, fd : Fds \cup {-1}, start : 0 .. MaxTime]]
         /\ ~Take(list, i)[i].used /\ ~Expire(list, i)[i].used
         /\ \A j \in Slots \ {i} : Take(list, i)[j] = list[j] /\ Expire(list, i)[j] = list[j]
  BY DEF Take, Expire

(* One worker's list is written, and a used slot of it has a descriptor.   *)
LEMMA WriteTyped ==
  ASSUME TypeInv, NEW w \in Workers,
         NEW list \in [Slots -> [used : BOOLEAN, fd : Fds \cup {-1}, start : 0 .. MaxTime]],
         \A j \in Slots : list[j].used => list[j].fd \in Fds,
         jobs' = [jobs EXCEPT ![w] = list]
  PROVE  /\ jobs' \in [Workers -> [Slots -> [used : BOOLEAN, fd : Fds \cup {-1}, start : 0 .. MaxTime]]]
         /\ \A v \in Workers : \A j \in Slots : jobs'[v][j].used => jobs'[v][j].fd \in Fds
  <1>1. jobs \in [Workers -> [Slots -> [used : BOOLEAN, fd : Fds \cup {-1}, start : 0 .. MaxTime]]]
    BY DEF TypeInv, TypeOK
  <1>2. \A v \in Workers : \A j \in Slots : jobs[v][j].used => jobs[v][j].fd \in Fds
    BY DEF TypeInv, KnowsFds, Waiting
  <1> QED
    BY <1>1, <1>2

(* What epoll_wait reports: each edge, and the listener without a hang up. *)
LEMMA BatchIs ==
  ASSUME TypeOK, EpollWait
  PROVE  /\ events' \subseteq [fd : Fds \cup {Listen}, hup : BOOLEAN]
         /\ \A e \in events' : e.fd \in Fds => e.fd \in ready /\ (e.hup => e.fd \in hup)
         /\ \A e \in events' : e.fd \notin Fds => ~e.hup
         /\ \A f \in ready : \E e \in events' : e.fd = f
  <1> DEFINE A == [fd : ready \ hup, hup : {FALSE}]
             B == [fd : hup, hup : {TRUE}]
             C == IF Backlog # {} THEN {[fd |-> Listen, hup |-> FALSE]} ELSE {}
  <1>1. events' = A \cup B \cup C
    BY DEF EpollWait
  <1>2. ready \subseteq Fds /\ hup \subseteq ready /\ Listen \notin Fds
    BY FdFacts DEF TypeOK
  <1>3. \A e \in A : e \in [fd : Fds \cup {Listen}, hup : BOOLEAN] /\ e.fd \in ready /\ ~e.hup
    BY <1>2
  <1>4. \A e \in B : e \in [fd : Fds \cup {Listen}, hup : BOOLEAN] /\ e.fd \in hup
    BY <1>2
  <1>5. \A e \in C : e \in [fd : Fds \cup {Listen}, hup : BOOLEAN] /\ e.fd = Listen /\ ~e.hup
    <2> DEFINE l == [fd |-> Listen, hup |-> FALSE]
    <2>1. l \in [fd : Fds \cup {Listen}, hup : BOOLEAN] /\ l.fd = Listen /\ ~l.hup
      OBVIOUS
    <2>2. \A e \in C : e = l
      OBVIOUS
    <2> HIDE DEF C, l
    <2> QED
      BY <2>1, <2>2
  <1>6. ASSUME NEW f \in ready PROVE \E e \in A \cup B : e.fd = f
    <2>1. CASE f \in hup
      <3> DEFINE e == [fd |-> f, hup |-> TRUE]
      <3>1. e \in B /\ e.fd = f
        BY <2>1
      <3> HIDE DEF e, A, B
      <3> QED
        BY <3>1
    <2>2. CASE f \notin hup
      <3> DEFINE e == [fd |-> f, hup |-> FALSE]
      <3>1. e \in A /\ e.fd = f
        BY <2>2
      <3> HIDE DEF e, A, B
      <3> QED
        BY <3>1
    <2> QED
      BY <2>1, <2>2
  <1> HIDE DEF A, B, C
  <1> QED
    BY <1>1, <1>2, <1>3, <1>4, <1>5, <1>6

(* The clients and the kernel keep the types.                              *)
LEMMA ClientTyped ==
  ASSUME TypeInv, Client
  PROVE  TypeInv'
  <1> USE DEF TypeInv
  <1>1. UNCHANGED <<loop, jobs, lock, threads, now, stored, refused>>
    BY DEF Client
  <1>2. KnowsFds'
    BY <1>1 DEF KnowsFds, Waiting, loop, threads
  <1>3. PICK c \in Conns : Connect(c) \/ Send(c) \/ HangUp(c) \/ Reset(c)
    BY DEF Client
  <1>4. CASE Connect(c)
    BY <1>1, <1>2, <1>4 DEF Connect, TypeOK, loop, threads
  <1>5. CASE Send(c)
    BY <1>1, <1>2, <1>5 DEF Send, Edge, FdOf, TypeOK, loop, threads
  <1>6. CASE HangUp(c)
    BY <1>1, <1>2, <1>6 DEF HangUp, Edge, FdOf, TypeOK, loop, threads
  <1>7. CASE Reset(c)
    BY <1>1, <1>2, <1>7 DEF Reset, Edge, FdOf, TypeOK, loop, threads
  <1> QED
    BY <1>3, <1>4, <1>5, <1>6, <1>7

(* So does the main thread.                                                *)
LEMMA MainTyped ==
  ASSUME TypeInv, Main
  PROVE  TypeInv'
  <1> USE DEF TypeInv
  <1>1. CASE EpollWait
    <2>1. events' \subseteq [fd : Fds \cup {Listen}, hup : BOOLEAN]
      BY <1>1, BatchIs
    <2>2. TypeOK'
      BY <1>1, <2>1 DEF EpollWait, TypeOK, threads
    <2>3. KnowsFds'
      BY <1>1 DEF EpollWait, KnowsFds, Waiting, threads
    <2> QED
      BY <2>2, <2>3
  <1>2. CASE Add
    <2>1. cur \in Fds /\ main' \in {"wait", "deal"} /\ cur' = -1
      BY <1>2 DEF Add, KnowsFds, After
    <2>2. watched' \subseteq Fds /\ hup' \subseteq ready' /\ ready' \subseteq watched'
      BY <1>2, <2>1 DEF Add, TypeOK
    <2>3. TypeOK'
      BY <1>2, <2>1, <2>2 DEF Add, TypeOK, threads
    <2>4. KnowsFds'
      BY <1>2, <2>1 DEF Add, KnowsFds, Waiting, threads
    <2> QED
      BY <2>3, <2>4
  <1>7. CASE SetNonblocking
    <2>1. TypeOK'
      BY <1>7 DEF SetNonblocking, TypeOK, kernel, threads
    <2>2. KnowsFds'
      BY <1>7 DEF SetNonblocking, KnowsFds, Waiting, threads
    <2> QED
      BY <2>1, <2>2
  <1>3. ASSUME NEW e \in events, Accept(e) PROVE TypeInv'
    <2>1. PICK c \in Backlog :
            IF FreeFds # {}
              THEN /\ fdtab' = [fdtab EXCEPT ![Min(FreeFds)] = c]
                   /\ conn' = [conn EXCEPT ![c] = "open"]
                   /\ cur' = Min(FreeFds) /\ main' = "nonblock"
              ELSE /\ main' = "exited" /\ cur' = cur
                   /\ UNCHANGED <<fdtab, conn>>
      BY <1>3 DEF Accept
    <2>2. FreeFds # {} => Min(FreeFds) \in Fds
      BY LowestFree
    <2>3. c \in Conns
      BY DEF Backlog
    <2>4. TypeOK'
      BY <1>3, <2>1, <2>2, <2>3 DEF Accept, Deal, TypeOK, threads
    <2>5. KnowsFds'
      BY <1>3, <2>1, <2>2 DEF Accept, KnowsFds, Waiting, threads
    <2> QED
      BY <2>4, <2>5
  <1>4. ASSUME NEW e \in events, DealHup(e) PROVE TypeInv'
    <2>1. TypeOK'
      BY <1>4, CloseDoes DEF DealHup, Deal, After, TypeOK, threads
    <2>2. KnowsFds'
      BY <1>4 DEF DealHup, Deal, After, KnowsFds, Waiting, threads
    <2> QED
      BY <2>1, <2>2
  <1>5. ASSUME NEW e \in events, DealFd(e) PROVE TypeInv'
    <2>1. e.fd \in Fds
      BY <1>5 DEF DealFd, TypeOK
    <2>2. TypeOK'
      BY <1>5, <2>1 DEF DealFd, Deal, TypeOK, kernel, threads
    <2>3. KnowsFds'
      BY <1>5, <2>1 DEF DealFd, KnowsFds, Waiting, threads
    <2> QED
      BY <2>2, <2>3
  <1>6. ASSUME NEW w \in Workers, Inject(w) PROVE TypeInv'
    <2> DEFINE i == FirstUnused(jobs[w])
    <2>1. cur \in Fds /\ fdtab[cur] \in Conns \cup {NoConn}
      BY <1>6 DEF Inject, KnowsFds, TypeOK
    <2>2. /\ jobs' \in [Workers -> [Slots -> [used : BOOLEAN, fd : Fds \cup {-1}, start : 0 .. MaxTime]]]
          /\ \A v \in Workers : \A j \in Slots : jobs'[v][j].used => jobs'[v][j].fd \in Fds
      <3>1. CASE i # End
        <4>1. i \in Slots /\ jobs' = [jobs EXCEPT ![w] = Put(jobs[w], i, cur, now)]
          BY <1>6, <3>1, FirstUnusedIsFree DEF Inject
        <4>2. /\ jobs[w] \in [Slots -> [used : BOOLEAN, fd : Fds \cup {-1}, start : 0 .. MaxTime]]
              /\ now \in 0 .. MaxTime
              /\ \A j \in Slots : jobs[w][j].used => jobs[w][j].fd \in Fds
          BY DEF TypeOK, KnowsFds, Waiting
        <4> HIDE DEF i
        <4> DEFINE list == Put(jobs[w], i, cur, now)
        <4>3. /\ list \in [Slots -> [used : BOOLEAN, fd : Fds \cup {-1}, start : 0 .. MaxTime]]
              /\ \A j \in Slots : list[j].used => list[j].fd \in Fds
          <5>1. /\ list \in [Slots -> [used : BOOLEAN, fd : Fds \cup {-1}, start : 0 .. MaxTime]]
                /\ list[i].used /\ list[i].fd = cur
                /\ \A j \in Slots \ {i} : list[j] = jobs[w][j]
            BY <2>1, <4>1, <4>2, PutTyped
          <5> HIDE DEF list
          <5> QED
            BY <2>1, <4>2, <5>1
        <4> HIDE DEF list
        <4> QED
          BY <4>1, <4>3, WriteTyped DEF list
      <3>2. CASE i = End
        <4>1. jobs' = jobs
          BY <1>6, <3>2 DEF Inject
        <4> QED
          BY <4>1 DEF TypeOK, KnowsFds, Waiting
      <3> QED
        BY <3>1, <3>2
    <2>3. /\ cur' \in Fds \cup {-1} /\ main' \in {"wait", "deal", "inject"}
          /\ main' = "inject" => cur' \in Fds
          /\ refused' \subseteq Conns
      BY <1>6, <2>1 DEF Inject, After, TypeOK
    <2>4. TypeOK'
      BY <1>6, <2>2, <2>3 DEF Inject, TypeOK, kernel, threads
    <2>5. KnowsFds'
      BY <1>6, <2>2, <2>3 DEF Inject, KnowsFds, Waiting, threads
    <2> QED
      BY <2>4, <2>5
  <1> QED
    BY <1>1, <1>2, <1>3, <1>4, <1>5, <1>6, <1>7 DEF Main

(* So does a worker.                                                       *)
LEMMA WorkerTyped ==
  ASSUME TypeInv, NEW w \in Workers, Worker(w)
  PROVE  TypeInv'
  <1> USE DEF TypeInv
  <1> DEFINE Lists == [Slots -> [used : BOOLEAN, fd : Fds \cup {-1}, start : 0 .. MaxTime]]
             i == NextUsed(jobs[w], it[w])
  <1>0. /\ it[w] \in Slots /\ 1 \in Slots
        /\ jobs[w] \in Lists
        /\ \A j \in Slots : jobs[w][j].used => jobs[w][j].fd \in Fds
    BY EndIsNoSlot DEF TypeOK, KnowsFds, Waiting
  <1>i. i # End => i \in Slots /\ jobs[w][i].used
    BY <1>0, NextUsedIsFirst
  <1>1. CASE FetchStart(w)
    <2>1. TypeOK'
      BY <1>0, <1>1 DEF FetchStart, Goto, TypeOK, kernel, loop
    <2>2. KnowsFds'
      BY <1>1 DEF FetchStart, Goto, KnowsFds, Waiting, TypeOK, loop
    <2> QED
      BY <2>1, <2>2
  <1>2. CASE FetchNone(w)
    <2>1. TypeOK'
      BY <1>0, <1>2 DEF FetchNone, Goto, TypeOK, kernel, loop
    <2>2. KnowsFds'
      BY <1>2 DEF FetchNone, Goto, KnowsFds, Waiting, TypeOK, loop
    <2> QED
      BY <2>1, <2>2
  <1>3. CASE FetchExpire(w)
    <2>1. /\ i # End /\ Close(jobs[w][i].fd)
          /\ jobs' = [jobs EXCEPT ![w] = Expire(jobs[w], i)]
          /\ it' = [it EXCEPT ![w] = i]
          /\ UNCHANGED <<loop, lock, wpc, job, now, stored, refused>>
      BY <1>3 DEF FetchExpire
    <2>2. i \in Slots
      BY <1>i, <2>1
    <2> HIDE DEF i
    <2>3. /\ jobs' \in [Workers -> Lists]
          /\ \A v \in Workers : \A j \in Slots : jobs'[v][j].used => jobs'[v][j].fd \in Fds
      <3> DEFINE list == Expire(jobs[w], i)
      <3>1. list \in Lists /\ ~list[i].used /\ \A j \in Slots \ {i} : list[j] = jobs[w][j]
        BY <1>0, <2>2, TakeTyped
      <3>2. jobs' = [jobs EXCEPT ![w] = list]
        BY <2>1
      <3> HIDE DEF list
      <3>3. \A j \in Slots : list[j].used => list[j].fd \in Fds
        BY <1>0, <3>1
      <3> QED
        BY <3>1, <3>2, <3>3, WriteTyped
    <2>4. TypeOK'
      BY <2>1, <2>2, <2>3, CloseDoes DEF TypeOK, loop
    <2>5. KnowsFds'
      BY <2>1, <2>3 DEF KnowsFds, Waiting, loop
    <2> QED
      BY <2>4, <2>5
  <1>4. CASE FetchJob(w)
    <2>1. /\ i # End
          /\ jobs' = [jobs EXCEPT ![w] = Take(jobs[w], i)]
          /\ job' = [job EXCEPT ![w] = jobs[w][i].fd]
          /\ lock' = [lock EXCEPT ![w] = "free"]
          /\ it' = [it EXCEPT ![w] = 1]
          /\ wpc' = [wpc EXCEPT ![w] = "run"]
          /\ UNCHANGED <<kernel, loop, now, stored, refused>>
      BY <1>4 DEF FetchJob, Goto
    <2>2. i \in Slots /\ jobs[w][i].fd \in Fds
      BY <1>0, <1>i, <2>1
    <2> HIDE DEF i
    <2>3. /\ jobs' \in [Workers -> Lists]
          /\ \A v \in Workers : \A j \in Slots : jobs'[v][j].used => jobs'[v][j].fd \in Fds
      <3> DEFINE list == Take(jobs[w], i)
      <3>1. list \in Lists /\ ~list[i].used /\ \A j \in Slots \ {i} : list[j] = jobs[w][j]
        BY <1>0, <2>2, TakeTyped
      <3>2. jobs' = [jobs EXCEPT ![w] = list]
        BY <2>1
      <3> HIDE DEF list
      <3>3. \A j \in Slots : list[j].used => list[j].fd \in Fds
        BY <1>0, <3>1
      <3> QED
        BY <3>1, <3>2, <3>3, WriteTyped
    <2>4. TypeOK'
      BY <1>0, <2>1, <2>2, <2>3 DEF TypeOK, kernel, loop
    <2>5. KnowsFds'
      BY <2>1, <2>2, <2>3 DEF KnowsFds, Waiting, TypeOK, loop
    <2> QED
      BY <2>4, <2>5
  <1>5. CASE Run(w)
    <2>1. Read(w) \subseteq unread
      BY DEF Read
    <2>2. Read(w) # {} => (CHOOSE c \in Read(w) : TRUE) \in unread
      BY <2>1
    <2>3. stored' \in Conns \cup {Nothing, Empty}
      BY <1>5, <2>2 DEF Run, TypeOK
    <2>4. TypeOK'
      BY <1>5, <2>3 DEF Run, Goto, TypeOK, loop
    <2>5. KnowsFds'
      BY <1>5 DEF Run, Goto, KnowsFds, Waiting, TypeOK, loop
    <2> QED
      BY <2>4, <2>5
  <1>6. CASE CloseJob(w)
    <2>1. TypeOK'
      BY <1>6, CloseDoes DEF CloseJob, Goto, TypeOK, loop
    <2>2. KnowsFds'
      BY <1>6 DEF CloseJob, Goto, KnowsFds, Waiting, TypeOK, loop
    <2> QED
      BY <2>1, <2>2
  <1>7. CASE Wake(w)
    <2>1. TypeOK'
      BY <1>7 DEF Wake, Goto, TypeOK, kernel, loop
    <2>2. KnowsFds'
      BY <1>7 DEF Wake, Goto, KnowsFds, Waiting, TypeOK, loop
    <2> QED
      BY <2>1, <2>2
  <1> QED
    BY <1>1, <1>2, <1>3, <1>4, <1>5, <1>6, <1>7 DEF Worker, Fetch

(* Every step of every thread, of the clients and of the clock keeps it.   *)
LEMMA TypeStep == TypeInv /\ [Next]_vars => TypeInv'
  <1> SUFFICES ASSUME TypeInv, [Next]_vars PROVE TypeInv'
    OBVIOUS
  <1>1. CASE Tick
    <2>0. now' \in 0 .. MaxTime
      BY <1>1, ServerAssumption DEF Tick, TypeInv, TypeOK
    <2>1. TypeOK'
      BY <1>1, <2>0 DEF Tick, TypeInv, TypeOK, kernel, loop, threads
    <2>2. KnowsFds'
      BY <1>1 DEF Tick, TypeInv, KnowsFds, Waiting, loop, threads
    <2> QED
      BY <2>1, <2>2 DEF TypeInv
  <1>2. CASE UNCHANGED vars
    BY <1>2 DEF vars, TypeInv, TypeOK, KnowsFds, Waiting, kernel, loop, threads
  <1> QED
    BY <1>1, <1>2, ClientTyped, MainTyped, WorkerTyped DEF Next

(* The variables of the server keep their types: the slots hold            *)
(* descriptors and times, and epoll reports only what it watches.          *)
THEOREM ServerTyped == Spec => []TypeOK
  <1>1. Spec => []TypeInv
    BY TypeInit, TypeStep, PTL DEF Spec
  <1> QED
    BY <1>1, PTL DEF TypeInv

------------------------------------------------------------------------------
(* A worker sleeps only when its list is empty *)

(* A step of the main thread fills no slot of a list whose mutex is held.  *)
LEMMA MainKeepsSearch ==
  ASSUME TypeInv, SearchesAll, Main
  PROVE  SearchesAll'
  <1>1. UNCHANGED <<wpc, it, lock>>
    BY DEF Main, EpollWait, SetNonblocking, Add, Accept, DealHup, DealFd, Inject, threads
  <1>2. CASE jobs' = jobs
    BY <1>1, <1>2 DEF SearchesAll, Waiting
  <1>3. ASSUME NEW v \in Workers, Inject(v) PROVE SearchesAll'
    <2>1. lock[v] = "free"
      BY <1>3 DEF Inject, Unlocked
    <2>2. \A w \in Workers \ {v} : jobs'[w] = jobs[w]
      BY <1>3 DEF Inject, TypeInv, TypeOK
    <2> QED
      BY <1>1, <2>1, <2>2 DEF SearchesAll, Waiting
  <1> QED
    BY <1>2, <1>3 DEF Main, EpollWait, SetNonblocking, Add, Accept, DealHup, DealFd

(* A worker's own steps: the search starts at the head of the list, and    *)
(* goes on where it emptied the first used slot.                           *)
LEMMA WorkerKeepsSearch ==
  ASSUME TypeInv, SearchesAll, NEW w \in Workers, Worker(w)
  PROVE  SearchesAll'
  <1> DEFINE i == NextUsed(jobs[w], it[w])
  <1>0. it[w] \in Slots /\ \A j \in Slots : j >= 1
    BY EndIsNoSlot DEF TypeInv, TypeOK
  <1>1. \A v \in Workers \ {w} :
          wpc'[v] = wpc[v] /\ lock'[v] = lock[v] /\ it'[v] = it[v] /\ jobs'[v] = jobs[v]
    BY DEF Worker, Fetch, FetchStart, FetchNone, FetchExpire, FetchJob, Run, CloseJob, Wake,
           Goto, TypeInv, TypeOK
  <1>2. ASSUME wpc'[w] = "scan"
        PROVE  lock'[w] = "held" /\ \A j \in Slots : jobs'[w][j].used => j >= it'[w]
    <2>1. CASE FetchStart(w)
      BY <1>0, <2>1 DEF FetchStart, TypeInv, TypeOK
    <2>2. CASE FetchExpire(w)
      <3>1. /\ i # End /\ wpc[w] = "scan"
            /\ jobs' = [jobs EXCEPT ![w] = Expire(jobs[w], i)]
            /\ it' = [it EXCEPT ![w] = i]
            /\ lock' = lock
        BY <2>2 DEF FetchExpire
      <3>2. \A j \in Slots : jobs[w][j].used /\ j >= it[w] => j >= i
        BY <1>0, <3>1, NextUsedIsFirst
      <3>3. i \in Slots /\ i >= i
        BY <1>0, <3>1, NextUsedIsFirst, EndIsNoSlot
      <3> HIDE DEF i
      <3>4. jobs[w] \in [Slots -> [used : BOOLEAN, fd : Fds \cup {-1}, start : 0 .. MaxTime]]
        BY DEF TypeInv, TypeOK
      <3>5. \A j \in Slots \ {i} : Expire(jobs[w], i)[j] = jobs[w][j]
        BY <3>3, <3>4, TakeTyped
      <3>6. \A j \in Slots \ {i} : jobs'[w][j] = jobs[w][j]
        BY <3>1, <3>5 DEF TypeInv, TypeOK
      <3>7. it'[w] = i /\ lock'[w] = "held"
        BY <3>1 DEF SearchesAll, TypeInv, TypeOK
      <3> QED
        BY <3>1, <3>2, <3>3, <3>6, <3>7 DEF SearchesAll, Waiting
    <2>3. CASE FetchNone(w) \/ FetchJob(w) \/ Run(w) \/ CloseJob(w) \/ Wake(w)
      BY <1>2, <2>3 DEF FetchNone, FetchJob, Run, CloseJob, Wake, Goto, TypeInv, TypeOK
    <2> QED
      BY <2>1, <2>2, <2>3 DEF Worker, Fetch
  <1> QED
    BY <1>1, <1>2 DEF SearchesAll, Waiting

(* No step of another thread moves a search.                               *)
LEMMA SearchStep == TypeInv /\ SearchesAll /\ [Next]_vars => SearchesAll'
  <1> SUFFICES ASSUME TypeInv, SearchesAll, [Next]_vars PROVE SearchesAll'
    OBVIOUS
  <1>1. CASE Client \/ Tick \/ UNCHANGED vars
    BY <1>1 DEF Client, Tick, vars, threads, SearchesAll, Waiting
  <1> QED
    BY <1>1, MainKeepsSearch, WorkerKeepsSearch DEF Next

(* A worker sleeps only when its list is empty.                            *)
LEMMA IdleStep ==
  ASSUME TypeInv, SearchesAll, NEW w \in Workers, FetchNone(w)
  PROVE  Used(jobs[w]) = {}
  <1>1. it[w] \in Slots
    BY DEF TypeInv, TypeOK
  <1>2. wpc[w] = "scan" /\ NextUsed(jobs[w], it[w]) = End
    BY DEF FetchNone
  <1>3. \A j \in Slots : jobs[w][j].used => ~(j >= it[w])
    BY <1>1, <1>2, NextUsedIsFirst
  <1> QED
    BY <1>2, <1>3 DEF SearchesAll, Waiting, Used

(* A worker goes to sleep only when its list is empty, for every number of *)
(* workers and slots: the search never goes back to the head of the list,  *)
(* and needs not, as inject waits for the mutex.                           *)
THEOREM SleepsOnlyWhenIdle == Spec => SleepOnlyWhenIdle
  <1>1. Init => SearchesAll
    BY DEF Init, SearchesAll
  <1>2. Spec => [](TypeInv /\ SearchesAll)
    BY <1>1, TypeInit, TypeStep, SearchStep, PTL DEF Spec
  <1>3. TypeInv /\ SearchesAll /\ [Next]_vars
          => [\A w \in Workers : FetchNone(w) => Used(jobs[w]) = {}]_vars
    BY IdleStep
  <1> QED
    BY <1>2, <1>3, PTL DEF Spec, SleepOnlyWhenIdle

------------------------------------------------------------------------------
(* No connection is forgotten *)

(* What the steps of other threads leave of a descriptor's way.            *)
LEMMA WayKept ==
  ASSUME NEW f, OnItsWay(f),
         f \in ready => f \in ready',
         (\E e \in events : e.fd = f) => \E e \in events' : e.fd = f,
         UNCHANGED <<main, cur, jobs, wpc, job>>
  PROVE  OnItsWay(f)'
  BY DEF OnItsWay, Held, Waiting

(* Before the first connection.                                            *)
LEMMA FdInit == Init => FdInv
  <1> SUFFICES ASSUME Init PROVE FdInv
    OBVIOUS
  <1>1. OneDescriptor /\ BatchDone /\ MessageKept
    BY FdFacts DEF Init, OneDescriptor, BatchDone, MessageKept
  <1>2. NotForgotten
    BY DEF Init, NotForgotten
  <1> QED
    BY <1>1, <1>2 DEF FdInv

(* A client connects, sends, closes or is cut off.                         *)
LEMMA ClientKeepsFds ==
  ASSUME TypeInv, FdInv, Client
  PROVE  FdInv'
  <1> USE DEF FdInv
  <1>0. TypeOK /\ NoConn \notin Conns
    BY FdFacts DEF TypeInv
  <1>1. /\ UNCHANGED <<main, events, cur, todo, jobs, wpc, job, refused, fdtab, watched>>
        /\ ready \subseteq ready'
    BY DEF Client, Connect, Send, HangUp, Reset, Edge, loop, threads
  <1>2. PICK c \in Conns : Connect(c) \/ Send(c) \/ HangUp(c) \/ Reset(c)
    BY DEF Client
  <1>3. OneDescriptor'
    BY <1>0, <1>1, <1>2 DEF Connect, Send, HangUp, Reset, OneDescriptor, TypeOK
  <1>4. MessageKept'
    BY <1>0, <1>1, <1>2
    DEF Connect, Send, HangUp, Reset, OneDescriptor, MessageKept, Closing, TypeOK
  <1>5. BatchDone'
    BY <1>1 DEF BatchDone
  <1>6. ASSUME NEW f \in Fds, fdtab[f] \in sent' PROVE OnItsWay(f)' \/ fdtab[f] \in refused
    <2>1. CASE fdtab[f] \in sent
      BY <1>1, <2>1, WayKept DEF NotForgotten
    <2>2. CASE fdtab[f] \notin sent
      <3>1. Send(c) /\ fdtab[f] = c
        BY <1>2, <1>6, <2>2 DEF Connect, Send, HangUp, Reset
      <3>2. f \in watched \/ (main \in {"nonblock", "add"} /\ cur = f)
        BY <1>0, <3>1 DEF OneDescriptor
      <3>3. f \in watched => f \in ready'
        BY <3>1 DEF Send, Edge, FdOf
      <3> QED
        BY <1>1, <3>2, <3>3 DEF OnItsWay
    <2> QED
      BY <2>1, <2>2
  <1>7. NotForgotten'
    BY <1>1, <1>6 DEF NotForgotten
  <1> QED
    BY <1>3, <1>4, <1>5, <1>7

(* A descriptor is closed: whatever was said about it, its connection is   *)
(* gone, and the others keep theirs.                                       *)
LEMMA CloseKeepsFds ==
  ASSUME TypeInv, FdInv, NEW f, Close(f), main \notin {"nonblock", "add"} \/ (cur' = cur /\ main' = main)
  PROVE  OneDescriptor' /\ \A c \in (sent \ unread)' : conn'[c] \in {"open", "closed"}
  <1>0. TypeOK /\ NoConn \notin Conns
    BY FdFacts DEF TypeInv
  <1>1. /\ \A g, h \in Fds : fdtab[g] # NoConn /\ fdtab[g] = fdtab[h] => g = h
        /\ \A g \in Fds : fdtab[g] # NoConn => fdtab[g] \in Conns /\ conn[fdtab[g]] = "open"
        /\ \A g \in Fds : fdtab[g] # NoConn => g \in watched \/ (main \in {"nonblock", "add"} /\ cur = g)
        /\ \A g \in watched : g \in Fds /\ fdtab[g] # NoConn
        /\ \A c \in sent \ unread : conn[c] \in {"open", "closed"}
    BY <1>0 DEF FdInv, OneDescriptor, MessageKept, TypeOK
  <1>2. /\ sent' = sent /\ sent \subseteq Conns
        /\ \A c \in Conns : conn'[c] = IF f \in Fds /\ c = fdtab[f] THEN "closed" ELSE conn[c]
        /\ \A g \in Fds : fdtab'[g] = IF g = f THEN NoConn ELSE fdtab[g]
        /\ unread' = unread \ (IF f \in Fds THEN {fdtab[f]} ELSE {})
        /\ watched' \subseteq watched
        /\ watched \ {f} \subseteq watched'
        /\ f \in Fds \ FreeFds => f \notin watched'
    BY <1>0, CloseDoes DEF TypeOK
  <1>3. f \in watched' => f \in Fds \ FreeFds
    BY <1>1, <1>2 DEF FreeFds
  <1>4. \A c \in (sent \ unread)' : conn'[c] \in {"open", "closed"}
    BY <1>1, <1>2
  <1> QED
    BY <1>0, <1>1, <1>2, <1>3, <1>4 DEF OneDescriptor

(* The main thread hands what it hears of a descriptor on, from the edge   *)
(* to the event, and from the event to every worker.                       *)
LEMMA WaitKeepsFds ==
  ASSUME TypeInv, FdInv, EpollWait
  PROVE  FdInv'
  <1> USE DEF FdInv
  <1>0. TypeOK /\ main = "wait" /\ main' = "deal" /\ events = {}
    BY DEF TypeInv, EpollWait, BatchDone
  <1>1. UNCHANGED <<conn, unread, sent, fin, rst, fdtab, watched, cur, jobs, wpc, job, refused>>
    BY DEF EpollWait, threads
  <1>2. OneDescriptor' /\ MessageKept' /\ BatchDone'
    BY <1>0, <1>1 DEF OneDescriptor, MessageKept, BatchDone, Closing
  <1>3. ASSUME NEW f \in Fds, fdtab[f] \in sent PROVE OnItsWay(f)' \/ fdtab[f] \in refused
    <2>1. OnItsWay(f) \/ fdtab[f] \in refused
      BY <1>3 DEF NotForgotten
    <2>2. f \in ready => \E e \in events' : e.fd = f
      BY <1>0, BatchIs
    <2> QED
      BY <1>0, <1>1, <2>1, <2>2 DEF OnItsWay, Held, Waiting
  <1>4. NotForgotten'
    BY <1>1, <1>3 DEF NotForgotten
  <1> QED
    BY <1>2, <1>4

(* fcntl changes nothing that is said of a descriptor; when the process    *)
(* exits there, the new one is closed.                                     *)
LEMMA NonblockKeepsFds ==
  ASSUME TypeInv, FdInv, SetNonblocking
  PROVE  FdInv'
  <1> USE DEF FdInv
  <1>0. /\ TypeOK /\ NoConn \notin Conns /\ main = "nonblock"
        /\ main' \in {"add", "exited"} /\ (main' = "exited" => fdtab[cur] = NoConn)
    BY FdFacts DEF TypeInv, SetNonblocking
  <1>1. UNCHANGED <<conn, unread, sent, rst, fdtab, watched, ready, events, cur, jobs, wpc,
                    job, refused>>
    BY DEF SetNonblocking, kernel, threads
  <1>2. OneDescriptor'
    BY <1>0, <1>1 DEF OneDescriptor
  <1>3. MessageKept' /\ BatchDone'
    BY <1>0, <1>1 DEF MessageKept, BatchDone, Closing
  <1>4. NotForgotten'
    <2>1. ASSUME NEW f \in Fds, fdtab[f] \in sent PROVE OnItsWay(f)' \/ fdtab[f] \in refused
      <3>1. main' = "exited" => cur # f
        BY <1>0, <2>1 DEF TypeOK
      <3> QED
        BY <1>0, <1>1, <2>1, <3>1 DEF NotForgotten, OnItsWay, Held, Waiting
    <2> QED
      BY <1>1, <2>1 DEF NotForgotten
  <1> QED
    BY <1>2, <1>3, <1>4

(* Watching a new descriptor reports at once what has arrived on it.       *)
LEMMA AddKeepsFds ==
  ASSUME TypeInv, FdInv, Add
  PROVE  FdInv'
  <1> USE DEF FdInv
  <1>0. /\ TypeOK /\ NoConn \notin Conns /\ cur \in Fds
        /\ main = "add" /\ main' = (IF events = {} THEN "wait" ELSE "deal")
    BY FdFacts DEF TypeInv, KnowsFds, Add, After
  <1>1. UNCHANGED <<conn, unread, sent, fin, rst, fdtab, events, jobs, wpc, job, refused>>
    BY DEF Add, threads
  <1>2. /\ fdtab[cur] # NoConn => watched' = watched \cup {cur}
        /\ fdtab[cur] = NoConn => watched' = watched
        /\ ready \subseteq ready'
        /\ fdtab[cur] # NoConn /\ fdtab[cur] \in unread \cup fin \cup rst => cur \in ready'
    BY DEF Add
  <1>3. OneDescriptor' /\ MessageKept' /\ BatchDone'
    BY <1>0, <1>1, <1>2 DEF OneDescriptor, MessageKept, BatchDone, Closing
  <1>4. ASSUME NEW f \in Fds, fdtab[f] \in sent PROVE OnItsWay(f)' \/ fdtab[f] \in refused
    <2>1. CASE f = cur
      <3>1. f \in ready' \/ Closing(f)
        BY <1>0, <1>2, <1>4, <2>1 DEF MessageKept, TypeOK
      <3> QED
        BY <1>1, <3>1 DEF OnItsWay, Closing
    <2>2. CASE f # cur
      <3>1. OnItsWay(f) \/ fdtab[f] \in refused
        BY <1>4 DEF NotForgotten
      <3> QED
        BY <1>0, <1>1, <1>2, <2>2, <3>1 DEF OnItsWay, Held, Waiting
    <2> QED
      BY <2>1, <2>2
  <1>5. NotForgotten'
    BY <1>1, <1>4 DEF NotForgotten
  <1> QED
    BY <1>3, <1>5

(* The descriptor accept returns is free: nothing names it.                *)
LEMMA AcceptKeepsFds ==
  ASSUME TypeInv, FdInv, NEW e \in events, Accept(e)
  PROVE  FdInv'
  <1> USE DEF FdInv
  <1> DEFINE n == Min(FreeFds)
  <1>0. /\ TypeOK /\ NoConn \notin Conns /\ Listen \notin Fds
        /\ main = "deal" /\ events' = events \ {e} /\ e.fd = Listen
    BY FdFacts DEF TypeInv, Accept, Deal
  <1>1. UNCHANGED <<unread, sent, fin, rst, watched, ready, jobs, wpc, job, refused>>
    BY DEF Accept, threads
  <1>2. PICK c \in Backlog :
          IF FreeFds # {}
            THEN /\ fdtab' = [fdtab EXCEPT ![n] = c]
                 /\ conn' = [conn EXCEPT ![c] = "open"]
                 /\ cur' = n /\ main' = "nonblock"
            ELSE main' = "exited" /\ cur' = cur /\ UNCHANGED <<fdtab, conn>>
    BY DEF Accept
  <1>3. c \in Conns /\ conn[c] = "backlog"
    BY DEF Backlog
  <1>4. FreeFds # {} => n \in Fds /\ fdtab[n] = NoConn
    BY LowestFree
  <1> HIDE DEF n
  <1>a. /\ \A g \in Fds : fdtab'[g] = IF FreeFds # {} /\ g = n THEN c ELSE fdtab[g]
        /\ \A d \in Conns : conn'[d] = IF FreeFds # {} /\ d = c THEN "open" ELSE conn[d]
        /\ FreeFds # {} => cur' = n /\ main' = "nonblock"
        /\ main' # "wait" /\ main' # "deal"
    BY <1>0, <1>2, <1>3, <1>4 DEF TypeOK
  <1>b. /\ \A g \in Fds : fdtab[g] # NoConn => fdtab[g] \in Conns /\ fdtab[g] # c
        /\ sent \subseteq Conns /\ watched \subseteq Fds /\ c # NoConn
        /\ \A g \in watched : fdtab[g] # NoConn
    BY <1>0, <1>3 DEF OneDescriptor, TypeOK
  <1>5. OneDescriptor' /\ BatchDone'
    <2>1. \A g, h \in Fds : fdtab'[g] # NoConn /\ fdtab'[g] = fdtab'[h] => g = h
      BY <1>4, <1>a, <1>b DEF OneDescriptor
    <2>2. \A g \in Fds : fdtab'[g] # NoConn => conn'[fdtab'[g]] = "open"
      BY <1>3, <1>a, <1>b DEF OneDescriptor
    <2>3. \A g \in Fds : fdtab'[g] # NoConn => g \in watched' \/ (main' \in {"nonblock", "add"} /\ cur' = g)
      BY <1>0, <1>1, <1>a, <1>b DEF OneDescriptor
    <2>4. \A g \in watched' : fdtab'[g] # NoConn
      BY <1>1, <1>a, <1>b
    <2> QED
      BY <1>a, <2>1, <2>2, <2>3, <2>4 DEF OneDescriptor, BatchDone
  <1>6. c \in sent => c \in unread
    BY <1>3 DEF MessageKept
  <1>7. MessageKept'
    <2>1. \A d \in sent \ unread : conn'[d] \in {"open", "closed"}
      BY <1>a, <1>b DEF MessageKept
    <2>2. \A g \in Fds : fdtab'[g] \in sent \ (unread \cup rst) => Closing(g)
      BY <1>6, <1>a DEF MessageKept
    <2> QED
      BY <1>1, <2>1, <2>2 DEF MessageKept, Closing
  <1>8. ASSUME NEW f \in Fds, fdtab'[f] \in sent PROVE OnItsWay(f)' \/ fdtab'[f] \in refused
    <2>1. CASE FreeFds # {} /\ f = n
      BY <1>2, <2>1 DEF OnItsWay
    <2>2. CASE ~(FreeFds # {} /\ f = n)
      <3>1. fdtab'[f] = fdtab[f]
        BY <1>0, <1>2, <1>4, <2>2 DEF TypeOK
      <3>2. OnItsWay(f) \/ fdtab[f] \in refused
        BY <1>8, <3>1 DEF NotForgotten
      <3> QED
        BY <1>0, <1>1, <3>1, <3>2 DEF OnItsWay, Held, Waiting
    <2> QED
      BY <2>1, <2>2
  <1>9. NotForgotten'
    BY <1>1, <1>8 DEF NotForgotten
  <1> QED
    BY <1>5, <1>7, <1>9

(* A client that has hung up is closed, its message with it.               *)
LEMMA HupKeepsFds ==
  ASSUME TypeInv, FdInv, NEW e \in events, DealHup(e)
  PROVE  FdInv'
  <1> USE DEF FdInv
  <1> DEFINE f == e.fd
  <1>0. /\ TypeOK /\ NoConn \notin Conns
        /\ main = "deal" /\ events' = events \ {e} /\ Close(f)
        /\ main' = (IF events' = {} THEN "wait" ELSE "deal")
    BY FdFacts DEF TypeInv, DealHup, Deal, After
  <1>1. UNCHANGED <<cur, jobs, wpc, job, refused>>
    BY DEF DealHup, threads
  <1> HIDE DEF f
  <1>2. /\ sent' = sent /\ rst' = rst /\ sent \subseteq Conns
        /\ \A g \in Fds : fdtab'[g] = IF g = f THEN NoConn ELSE fdtab[g]
        /\ unread' = unread \ (IF f \in Fds THEN {fdtab[f]} ELSE {})
        /\ ready \ {f} \subseteq ready'
    BY <1>0, CloseDoes DEF TypeOK
  <1>3. OneDescriptor' /\ \A c \in (sent \ unread)' : conn'[c] \in {"open", "closed"}
    BY <1>0, CloseKeepsFds
  <1>4. MessageKept' /\ BatchDone'
    BY <1>0, <1>1, <1>2, <1>3 DEF MessageKept, OneDescriptor, BatchDone, Closing
  <1>5. ASSUME NEW g \in Fds, fdtab'[g] \in sent PROVE OnItsWay(g)' \/ fdtab'[g] \in refused
    <2>1. g # f /\ fdtab'[g] = fdtab[g]
      BY <1>0, <1>2, <1>5
    <2>2. OnItsWay(g) \/ fdtab[g] \in refused
      BY <1>5, <2>1 DEF NotForgotten
    <2> QED
      BY <1>0, <1>1, <1>2, <2>1, <2>2 DEF OnItsWay, Held, Waiting, f
  <1>6. NotForgotten'
    BY <1>1, <1>2, <1>5 DEF NotForgotten
  <1> QED
    BY <1>3, <1>4, <1>6

(* From the event the descriptor goes on to inject.                        *)
LEMMA FdKeepsFds ==
  ASSUME TypeInv, FdInv, NEW e \in events, DealFd(e)
  PROVE  FdInv'
  <1> USE DEF FdInv
  <1>0. main = "deal" /\ main' = "inject" /\ cur' = e.fd /\ events' = events \ {e}
    BY DEF DealFd, Deal
  <1>1. UNCHANGED <<conn, unread, sent, rst, fdtab, watched, ready, jobs, wpc, job, refused>>
    BY DEF DealFd, kernel, threads
  <1>2. OneDescriptor' /\ MessageKept' /\ BatchDone'
    BY <1>0, <1>1 DEF OneDescriptor, MessageKept, BatchDone, Closing
  <1>3. ASSUME NEW f \in Fds, fdtab[f] \in sent PROVE OnItsWay(f)' \/ fdtab[f] \in refused
    <2>1. OnItsWay(f) \/ fdtab[f] \in refused
      BY <1>3 DEF NotForgotten
    <2> QED
      BY <1>0, <1>1, <2>1 DEF OnItsWay, Held, Waiting
  <1>4. NotForgotten'
    BY <1>1, <1>3 DEF NotForgotten
  <1> QED
    BY <1>2, <1>4

(* A slot is filled, or the connection counted among the refused.          *)
LEMMA InjectKeepsFds ==
  ASSUME TypeInv, FdInv, NEW w \in Workers, Inject(w)
  PROVE  FdInv'
  <1> USE DEF FdInv
  <1> DEFINE i == FirstUnused(jobs[w])
  <1>0. /\ TypeOK /\ cur \in Fds /\ main = "inject" /\ NoConn \notin Conns
        /\ now \in 0 .. MaxTime
        /\ jobs[w] \in [Slots -> [used : BOOLEAN, fd : Fds \cup {-1}, start : 0 .. MaxTime]]
    BY FdFacts DEF TypeInv, KnowsFds, TypeOK, Inject
  <1>1. /\ UNCHANGED <<conn, unread, sent, rst, fdtab, watched, ready, events, wpc, job>>
        /\ main' = "wait" => events = {}
        /\ main' \in {"inject", "wait", "deal"}
        /\ main' = "inject" => cur' = cur
    BY <1>0 DEF Inject, After, kernel, threads
  <1>2. OneDescriptor' /\ MessageKept' /\ BatchDone'
    BY <1>0, <1>1 DEF OneDescriptor, MessageKept, BatchDone, Closing
  <1>3. /\ \A v \in Workers : \A j \in Waiting(v) : j \in Waiting(v)' /\ jobs'[v][j].fd = jobs[v][j].fd
        /\ refused \subseteq refused'
        /\ fdtab[cur] # NoConn => cur \in Held(w)' \/ fdtab[cur] \in refused'
    <2>1. CASE i # End
      <3>1. i \in Slots /\ ~jobs[w][i].used
            /\ jobs' = [jobs EXCEPT ![w] = Put(jobs[w], i, cur, now)] /\ refused' = refused
        BY <2>1, FirstUnusedIsFree DEF Inject
      <3> HIDE DEF i
      <3> DEFINE list == Put(jobs[w], i, cur, now)
      <3>2. list[i].used /\ list[i].fd = cur /\ \A j \in Slots \ {i} : list[j] = jobs[w][j]
        BY <1>0, <3>1, PutTyped
      <3>3. jobs'[w] = list /\ \A v \in Workers \ {w} : jobs'[v] = jobs[v]
        BY <1>0, <3>1 DEF TypeOK
      <3> HIDE DEF list
      <3>4. cur \in Held(w)'
        BY <3>1, <3>2, <3>3 DEF Held, Waiting
      <3> QED
        BY <3>1, <3>2, <3>3, <3>4 DEF Waiting
    <2>2. CASE i = End
      BY <2>2 DEF Inject, Waiting
    <2> QED
      BY <2>1, <2>2
  <1>4. ASSUME NEW f \in Fds, fdtab[f] \in sent PROVE OnItsWay(f)' \/ fdtab[f] \in refused'
    <2>1. OnItsWay(f) \/ fdtab[f] \in refused
      BY <1>4 DEF NotForgotten
    <2>2. fdtab[f] # NoConn
      BY <1>0, <1>4 DEF TypeOK
    <2>3. CASE f = cur
      BY <1>3, <2>2, <2>3 DEF OnItsWay
    <2>4. CASE f # cur /\ OnItsWay(f)
      BY <1>0, <1>1, <1>3, <2>4 DEF OnItsWay, Held
    <2> QED
      BY <1>3, <2>1, <2>3, <2>4
  <1>5. NotForgotten'
    BY <1>1, <1>4 DEF NotForgotten
  <1> QED
    BY <1>2, <1>5

(* A worker's list and job keep a descriptor's way, but for one descriptor *)
(* that is closed.                                                         *)
LEMMA WayThroughWorker ==
  ASSUME FdInv, NEW closed,
         sent' = sent, refused' = refused, events' = events, main' = main, cur' = cur,
         \A g \in Fds : fdtab'[g] \in sent => g # closed /\ fdtab'[g] = fdtab[g],
         ready \ {closed} \subseteq ready',
         \A v \in Workers : \A g \in Fds \ {closed} :
           g \in Held(v) \/ (wpc[v] = "close" /\ job[v] = g)
             => (g \in Held(v) \/ (wpc[v] = "close" /\ job[v] = g))'
  PROVE  NotForgotten'
  <1>1. ASSUME NEW g \in Fds, fdtab'[g] \in sent PROVE OnItsWay(g)' \/ fdtab'[g] \in refused
    <2>1. g # closed /\ fdtab'[g] = fdtab[g]
      BY <1>1
    <2>2. OnItsWay(g) \/ fdtab[g] \in refused
      BY <1>1, <2>1 DEF FdInv, NotForgotten
    <2>3. (\E v \in Workers : g \in Held(v) \/ (wpc[v] = "close" /\ job[v] = g))
            => (\E v \in Workers : g \in Held(v) \/ (wpc[v] = "close" /\ job[v] = g))'
      BY <2>1
    <2> QED
      BY <2>1, <2>2, <2>3 DEF OnItsWay
  <1> QED
    BY <1>1 DEF NotForgotten

(* The steps of a worker that close nothing.                               *)
LEMMA FetchKeepsFds ==
  ASSUME TypeInv, FdInv, NEW w \in Workers,
         FetchStart(w) \/ FetchNone(w) \/ FetchJob(w) \/ Wake(w)
  PROVE  FdInv'
  <1> DEFINE i == NextUsed(jobs[w], it[w])
  <1>0. /\ TypeOK /\ -1 \notin Fds /\ NoConn \notin Conns /\ it[w] \in Slots
        /\ jobs[w] \in [Slots -> [used : BOOLEAN, fd : Fds \cup {-1}, start : 0 .. MaxTime]]
    BY FdFacts DEF TypeInv, TypeOK
  <1>1. UNCHANGED <<conn, unread, sent, rst, fdtab, watched, ready, events, main, cur, refused>>
    BY DEF FetchStart, FetchNone, FetchJob, Wake, kernel, loop
  <1>2. /\ wpc[w] \in {"fetch", "scan", "sleep"} /\ wpc'[w] \in {"fetch", "scan", "run", "sleep"}
        /\ \A v \in Workers \ {w} : wpc'[v] = wpc[v] /\ job'[v] = job[v] /\ jobs'[v] = jobs[v]
    BY <1>0 DEF FetchStart, FetchNone, FetchJob, Wake, Goto, TypeOK
  <1>3. OneDescriptor' /\ MessageKept' /\ BatchDone'
    BY <1>1, <1>2 DEF FdInv, OneDescriptor, MessageKept, BatchDone, Closing
  <1>4. ASSUME NEW g, g \in Held(w) PROVE g \in Held(w)'
    <2>1. PICK k \in Slots : jobs[w][k].used /\ jobs[w][k].fd = g
      BY <1>2, <1>4 DEF Held, Waiting
    <2>2. CASE jobs' = jobs
      BY <2>1, <2>2 DEF Held, Waiting
    <2>3. CASE FetchJob(w)
      <3>1. /\ i # End
            /\ jobs' = [jobs EXCEPT ![w] = Take(jobs[w], i)]
            /\ job'[w] = jobs[w][i].fd /\ wpc'[w] = "run"
        BY <1>0, <2>3 DEF FetchJob, Goto, TypeOK
      <3>2. i \in Slots
        BY <1>0, <3>1, NextUsedIsFirst
      <3> HIDE DEF i
      <3>3. \A j \in Slots \ {i} : Take(jobs[w], i)[j] = jobs[w][j]
        BY <1>0, <3>2, TakeTyped
      <3>4. \A j \in Slots \ {i} : jobs'[w][j] = jobs[w][j]
        BY <1>0, <3>1, <3>3 DEF TypeOK
      <3> QED
        BY <2>1, <3>1, <3>4 DEF Held, Waiting
    <2> QED
      BY <2>2, <2>3 DEF FetchStart, FetchNone, Wake
  <1>5. \A v \in Workers : \A g \in Fds :
          g \in Held(v) \/ (wpc[v] = "close" /\ job[v] = g)
            => (g \in Held(v) \/ (wpc[v] = "close" /\ job[v] = g))'
    BY <1>2, <1>4 DEF Held, Waiting
  <1>6. \A g \in Fds : fdtab'[g] \in sent => g # -1 /\ fdtab'[g] = fdtab[g]
    BY <1>0, <1>1
  <1>7. NotForgotten'
    BY <1>1, <1>5, <1>6, WayThroughWorker
  <1> QED
    BY <1>3, <1>7 DEF FdInv

(* What is read belongs to the descriptor the worker is about to close.    *)
LEMMA RunKeepsFds ==
  ASSUME TypeInv, FdInv, NEW w \in Workers, Run(w)
  PROVE  FdInv'
  <1>0. /\ TypeOK /\ -1 \notin Fds /\ NoConn \notin Conns
        /\ wpc[w] = "run" /\ job[w] \in Fds
    BY FdFacts DEF TypeInv, KnowsFds, Run
  <1>1. /\ UNCHANGED <<conn, sent, rst, fdtab, watched, ready, events, main, cur, jobs, job, refused>>
        /\ unread' = unread \ Read(w)
        /\ wpc' = [wpc EXCEPT ![w] = "close"]
    BY DEF Run, Goto, loop
  <1>2. \A c \in Read(w) : c = fdtab[job[w]] /\ c \in unread
    BY DEF Read
  <1>3. wpc'[w] = "close" /\ \A v \in Workers \ {w} : wpc'[v] = wpc[v]
    BY <1>0, <1>1 DEF TypeOK
  <1>4. OneDescriptor' /\ BatchDone'
    BY <1>1 DEF FdInv, OneDescriptor, BatchDone
  <1>5. MessageKept'
    <2>1. \A c \in sent \ unread' : conn[c] \in {"open", "closed"}
      BY <1>0, <1>1, <1>2 DEF FdInv, OneDescriptor, MessageKept, TypeOK
    <2>2. ASSUME NEW f \in Fds, fdtab[f] \in sent \ (unread' \cup rst) PROVE Closing(f)'
      <3>1. CASE fdtab[f] \in Read(w)
        <4>1. f = job[w]
          BY <1>0, <1>2, <2>2, <3>1 DEF FdInv, OneDescriptor, TypeOK
        <4> QED
          BY <1>1, <1>3, <4>1 DEF Closing
      <3>2. CASE fdtab[f] \notin Read(w)
        <4>1. Closing(f)
          BY <1>1, <2>2, <3>2 DEF FdInv, MessageKept
        <4> QED
          BY <1>0, <1>1, <1>3, <4>1 DEF Closing
      <3> QED
        BY <3>1, <3>2
    <2> QED
      BY <1>1, <2>1, <2>2 DEF MessageKept
  <1>6. \A v \in Workers : \A g \in Fds :
          g \in Held(v) \/ (wpc[v] = "close" /\ job[v] = g)
            => (g \in Held(v) \/ (wpc[v] = "close" /\ job[v] = g))'
    BY <1>0, <1>1, <1>3 DEF Held, Waiting
  <1>7. \A g \in Fds : fdtab'[g] \in sent => g # -1 /\ fdtab'[g] = fdtab[g]
    BY <1>0, <1>1
  <1>8. NotForgotten'
    BY <1>1, <1>6, <1>7, WayThroughWorker
  <1> QED
    BY <1>4, <1>5, <1>8 DEF FdInv

(* A job that is done, or waited too long, is closed.                      *)
LEMMA WorkerClosesFds ==
  ASSUME TypeInv, FdInv, NEW w \in Workers, NEW f,
         \/ FetchExpire(w) /\ f = jobs[w][NextUsed(jobs[w], it[w])].fd
         \/ CloseJob(w) /\ f = job[w]
  PROVE  FdInv'
  <1> DEFINE i == NextUsed(jobs[w], it[w])
  <1>0. /\ TypeOK /\ NoConn \notin Conns /\ sent \subseteq Conns /\ it[w] \in Slots
        /\ jobs[w] \in [Slots -> [used : BOOLEAN, fd : Fds \cup {-1}, start : 0 .. MaxTime]]
    BY FdFacts DEF TypeInv, TypeOK
  <1>1. Close(f) /\ UNCHANGED <<events, main, cur, refused>>
    BY DEF FetchExpire, CloseJob, loop
  <1>2. /\ sent' = sent /\ rst' = rst
        /\ \A g \in Fds : fdtab'[g] = IF g = f THEN NoConn ELSE fdtab[g]
        /\ unread' = unread \ (IF f \in Fds THEN {fdtab[f]} ELSE {})
        /\ ready \ {f} \subseteq ready'
    BY <1>0, <1>1, CloseDoes
  <1>3. OneDescriptor' /\ \A c \in (sent \ unread)' : conn'[c] \in {"open", "closed"}
    BY <1>1, CloseKeepsFds
  <1>4. \A v \in Workers \ {w} : wpc'[v] = wpc[v] /\ job'[v] = job[v] /\ jobs'[v] = jobs[v]
    BY <1>0 DEF FetchExpire, CloseJob, Goto, TypeOK
  <1>5. ASSUME NEW g \in Fds \ {f}
        PROVE  g \in Held(w) \/ (wpc[w] = "close" /\ job[w] = g)
                 => (g \in Held(w) \/ (wpc[w] = "close" /\ job[w] = g))'
    <2>1. CASE FetchExpire(w) /\ f = jobs[w][i].fd
      <3>1. /\ i # End /\ wpc[w] = "scan"
            /\ jobs' = [jobs EXCEPT ![w] = Expire(jobs[w], i)]
            /\ wpc' = wpc /\ job' = job
        BY <2>1 DEF FetchExpire
      <3>2. i \in Slots
        BY <1>0, <3>1, NextUsedIsFirst
      <3> HIDE DEF i
      <3>3. \A j \in Slots \ {i} : jobs'[w][j] = jobs[w][j]
        BY <1>0, <3>1, <3>2, TakeTyped DEF TypeOK
      <3> QED
        BY <2>1, <3>1, <3>3 DEF Held, Waiting
    <2>2. CASE CloseJob(w) /\ f = job[w]
      <3>1. wpc[w] = "close" /\ jobs' = jobs
        BY <2>2 DEF CloseJob
      <3> QED
        BY <2>2, <3>1 DEF Held, Waiting
    <2> QED
      BY <2>1, <2>2
  <1>6. \A v \in Workers : \A g \in Fds \ {f} :
          g \in Held(v) \/ (wpc[v] = "close" /\ job[v] = g)
            => (g \in Held(v) \/ (wpc[v] = "close" /\ job[v] = g))'
    BY <1>4, <1>5 DEF Held, Waiting
  <1>7. \A g \in Fds : fdtab'[g] \in sent => g # f /\ fdtab'[g] = fdtab[g]
    BY <1>0, <1>2
  <1>8. NotForgotten'
    BY <1>1, <1>2, <1>6, <1>7, WayThroughWorker
  <1>9. ASSUME NEW g \in Fds, fdtab'[g] \in sent \ (unread' \cup rst) PROVE Closing(g)'
    <2>1. g # f /\ fdtab'[g] = fdtab[g]
      BY <1>7, <1>9
    <2>2. f \in Fds => fdtab[f] # fdtab[g]
      BY <1>0, <1>9, <2>1 DEF FdInv, OneDescriptor
    <2>3. fdtab[g] \notin unread
      BY <1>2, <1>9, <2>1, <2>2
    <2>4. PICK v \in Workers : wpc[v] = "close" /\ job[v] = g
      BY <1>9, <2>1, <2>3 DEF FdInv, MessageKept, Closing
    <2>5. v # w
      BY <2>1, <2>4 DEF FetchExpire, CloseJob
    <2> QED
      BY <1>4, <2>4, <2>5 DEF Closing
  <1>10. MessageKept'
    BY <1>2, <1>3, <1>9 DEF MessageKept
  <1>11. BatchDone'
    BY <1>1 DEF FdInv, BatchDone
  <1> QED
    BY <1>3, <1>8, <1>10, <1>11 DEF FdInv

(* Together: no step loses the way of a descriptor.                        *)
LEMMA FdStep == TypeInv /\ FdInv /\ [Next]_vars => FdInv'
  <1> SUFFICES ASSUME TypeInv, FdInv, [Next]_vars PROVE FdInv'
    OBVIOUS
  <1>1. CASE Tick \/ UNCHANGED vars
    BY <1>1
    DEF Tick, vars, kernel, loop, threads, FdInv, OneDescriptor, MessageKept, BatchDone,
        NotForgotten, Closing, OnItsWay, Held, Waiting
  <1>2. CASE Main
    BY <1>2, WaitKeepsFds, NonblockKeepsFds, AddKeepsFds, AcceptKeepsFds, HupKeepsFds,
       FdKeepsFds, InjectKeepsFds
    DEF Main
  <1>3. ASSUME NEW w \in Workers, Worker(w) PROVE FdInv'
    <2>1. CASE FetchStart(w) \/ FetchNone(w) \/ FetchJob(w) \/ Wake(w)
      BY <2>1, FetchKeepsFds
    <2>2. CASE Run(w)
      BY <2>2, RunKeepsFds
    <2>3. CASE FetchExpire(w)
      <3> DEFINE f == jobs[w][NextUsed(jobs[w], it[w])].fd
      <3>1. FetchExpire(w) /\ f = jobs[w][NextUsed(jobs[w], it[w])].fd
        BY <2>3
      <3> HIDE DEF f
      <3> QED
        BY <3>1, WorkerClosesFds
    <2>4. CASE CloseJob(w)
      <3> DEFINE f == job[w]
      <3>1. CloseJob(w) /\ f = job[w]
        BY <2>4
      <3> HIDE DEF f
      <3> QED
        BY <3>1, WorkerClosesFds
    <2> QED
      BY <1>3, <2>1, <2>2, <2>3, <2>4 DEF Worker, Fetch
  <1> QED
    BY <1>1, <1>2, <1>3, ClientKeepsFds DEF Next

(* No accepted connection whose message has arrived is forgotten, whatever *)
(* the number of workers: its edge, its event, Run, a slot or a job has    *)
(* its descriptor, or inject turned it down.                               *)
THEOREM NobodyForgotten == Spec => []NotForgotten
  <1>1. Spec => [](TypeInv /\ FdInv)
    BY TypeInit, FdInit, TypeStep, FdStep, PTL DEF Spec
  <1> QED
    BY <1>1, PTL DEF FdInv

------------------------------------------------------------------------------
(* One worker, and clients that stay *)

(* Before the first message.                                               *)
LEMMA OneMessageInit ==
  ASSUME NEW w \in Workers, Init
  PROVE  OneMessage(w)
  <1>1. /\ ready = {} /\ hup = {} /\ events = {} /\ main = "wait" /\ wpc[w] = "fetch"
        /\ stored = Nothing /\ Waiting(w) = {}
    BY DEF Init, Waiting, EmptyList
  <1> QED
    BY <1>1 DEF OneMessage, OnePlace, OneSlot, MessageBehind, AddedIsNew, ClosesRead, NoHup,
                InList, InEvents, Injecting, Running

(* A step that leaves Run, the list and the job alone.                     *)
LEMMA PlacesKept ==
  ASSUME NEW w, UNCHANGED <<main, events, cur, jobs, wpc, job>>
  PROVE  /\ Waiting(w)' = Waiting(w)
         /\ \A f \in Fds : /\ InEvents(f)' <=> InEvents(f)
                           /\ Injecting(f)' <=> Injecting(f)
                           /\ InList(w, f)' <=> InList(w, f)
                           /\ Running(w, f)' <=> Running(w, f)
         /\ OneSlot(w)' <=> OneSlot(w)
  BY DEF Waiting, InEvents, Injecting, InList, Running, OneSlot

(* A message arrives once: nothing has been said about its descriptor.     *)
LEMMA ClientKeepsOne ==
  ASSUME TypeInv, FdInv, NEW w \in Workers, OneMessage(w), Client, Quiet'
  PROVE  OneMessage(w)'
  <1>0. /\ TypeOK /\ NoConn \notin Conns
        /\ main \in {"nonblock", "add"} => cur \in Fds
        /\ \A f \in watched : f \in Fds
    BY FdFacts DEF TypeInv, KnowsFds, TypeOK
  <1>1. UNCHANGED <<main, events, cur, jobs, wpc, job, stored, fdtab, watched>>
    BY DEF Client, Connect, Send, HangUp, Reset, loop, threads
  <1>2. PICK c \in Conns : Connect(c) \/ Send(c)
    BY DEF Client, HangUp, Reset, Quiet
  <1>3. UNCHANGED hup
    BY <1>2 DEF Connect, Send
  <1>4. NoHup' /\ OneSlot(w)' /\ stored' \in sent' \cup {Nothing}
    BY <1>1, <1>2, <1>3, PlacesKept DEF OneMessage, NoHup, Connect, Send
  <1>5. CASE Connect(c)
    <2>1. UNCHANGED <<ready, unread, sent>>
      BY <1>5 DEF Connect
    <2>2. OnePlace(w)' /\ MessageBehind(w)' /\ AddedIsNew(w)' /\ ClosesRead(w)'
      BY <1>0, <1>1, <2>1, PlacesKept DEF OneMessage, OnePlace, MessageBehind, AddedIsNew, ClosesRead
    <2> QED
      BY <1>4, <2>2 DEF OneMessage
  <1>6. CASE Send(c)
    <2>1. /\ c \notin sent /\ sent' = sent \cup {c} /\ unread' = unread \cup {c}
          /\ ready' = ready \cup {f \in watched : fdtab[f] = c}
      BY <1>0, <1>6 DEF Send, Edge, FdOf
    <2>2. \A f \in Fds : fdtab[f] = c => f \notin ready /\ ~InEvents(f) /\ ~Injecting(f)
                                         /\ ~InList(w, f) /\ ~Running(w, f)
      BY <1>0, <2>1 DEF OneMessage, MessageBehind, TypeOK
    <2>3. OnePlace(w)'
      BY <1>0, <1>1, <2>1, <2>2, PlacesKept DEF OneMessage, OnePlace
    <2>4. MessageBehind(w)'
      BY <1>0, <1>1, <2>1, PlacesKept DEF OneMessage, MessageBehind
    <2>5. AddedIsNew(w)'
      BY <1>0, <1>1, <2>1, PlacesKept DEF OneMessage, AddedIsNew
    <2>6. ClosesRead(w)'
      BY <1>1, <2>1 DEF OneMessage, ClosesRead
    <2> QED
      BY <1>4, <2>3, <2>4, <2>5, <2>6 DEF OneMessage
  <1> QED
    BY <1>2, <1>5, <1>6

(* Run carries what it heard on, one place to the next.                    *)
LEMMA WaitKeepsOne ==
  ASSUME TypeInv, FdInv, NEW w \in Workers, OneMessage(w), EpollWait
  PROVE  OneMessage(w)'
  <1>0. TypeOK /\ main = "wait" /\ main' = "deal" /\ events = {} /\ ready' = {} /\ hup' = {}
    BY DEF TypeInv, EpollWait, FdInv, BatchDone
  <1>1. UNCHANGED <<unread, sent, fdtab, watched, cur, jobs, wpc, job, stored>>
    BY DEF EpollWait, threads
  <1>2. /\ \A e \in events' : e.fd \in Fds => e.fd \in ready
        /\ \A e \in events' : ~e.hup
    BY <1>0, BatchIs DEF OneMessage, NoHup
  <1>3. \A f \in Fds : InEvents(f)' => f \in ready
    BY <1>2 DEF InEvents
  <1>4. /\ Waiting(w)' = Waiting(w)
        /\ OneSlot(w)' <=> OneSlot(w)
        /\ \A f \in Fds : (InList(w, f)' <=> InList(w, f)) /\ (Running(w, f)' <=> Running(w, f))
        /\ \A f \in Fds : ~Injecting(f)'
    BY <1>0, <1>1 DEF Waiting, OneSlot, InList, Running, Injecting
  <1>5. OnePlace(w)' /\ MessageBehind(w)'
    BY <1>0, <1>1, <1>3, <1>4 DEF OneMessage, OnePlace, MessageBehind
  <1>6. AddedIsNew(w)' /\ ClosesRead(w)' /\ NoHup'
    BY <1>0, <1>1, <1>2 DEF OneMessage, AddedIsNew, ClosesRead, NoHup
  <1> QED
    BY <1>1, <1>4, <1>5, <1>6 DEF OneMessage

(* A new connection has an empty place in every list.                      *)
LEMMA AcceptKeepsOne ==
  ASSUME TypeInv, FdInv, NEW w \in Workers, OneMessage(w), NEW e \in events, Accept(e)
  PROVE  OneMessage(w)'
  <1> DEFINE n == Min(FreeFds)
  <1>0. /\ TypeOK /\ NoConn \notin Conns /\ unread \subseteq Conns /\ watched \subseteq Fds
        /\ main = "deal" /\ events' = events \ {e} /\ Listen \notin Fds
        /\ wpc[w] = "close" => job[w] \in Fds
    BY FdFacts DEF TypeInv, KnowsFds, TypeOK, Accept, Deal
  <1>1. UNCHANGED <<unread, sent, watched, ready, hup, jobs, wpc, job, stored>>
    BY DEF Accept, threads
  <1>2. FreeFds # {} => n \in Fds /\ fdtab[n] = NoConn
    BY LowestFree
  <1>3. /\ \A g \in Fds : fdtab[g] # NoConn => fdtab'[g] = fdtab[g]
        /\ main' = "nonblock" => FreeFds # {} /\ cur' = n /\ fdtab'[n] # NoConn
        /\ main' # "inject" /\ main' # "add"
    BY <1>0, <1>2 DEF Accept, TypeOK, Backlog
  <1> HIDE DEF n
  <1>4. \A g \in Fds : InEvents(g)' => InEvents(g)
    BY <1>0 DEF InEvents
  <1>5. /\ Waiting(w)' = Waiting(w)
        /\ OneSlot(w)' <=> OneSlot(w)
        /\ \A f \in Fds : (InList(w, f)' <=> InList(w, f)) /\ (Running(w, f)' <=> Running(w, f))
        /\ \A f \in Fds : ~Injecting(f)'
    BY <1>1, <1>3 DEF Waiting, OneSlot, InList, Running, Injecting
  <1>6. OnePlace(w)'
    BY <1>1, <1>4, <1>5 DEF OneMessage, OnePlace
  <1>7. MessageBehind(w)'
    BY <1>0, <1>1, <1>3, <1>4, <1>5 DEF OneMessage, MessageBehind
  <1>8. AddedIsNew(w)'
    <2>1. CASE main' = "nonblock"
      <3>0. PICK f \in Fds : f = n
        BY <1>2, <1>3, <2>1
      <3>1. cur' = f /\ fdtab[f] \notin unread /\ f \notin watched
        BY <1>0, <1>2, <1>3, <2>1, <3>0 DEF FdInv, OneDescriptor
      <3>2. f \notin ready /\ ~InEvents(f)' /\ ~InList(w, f)' /\ ~Running(w, f)'
        BY <1>4, <1>5, <3>1 DEF OneMessage, MessageBehind
      <3>3. ~(wpc[w] = "close" /\ job[w] = f)
        BY <1>0, <1>2, <1>3, <2>1, <3>0 DEF OneMessage, ClosesRead, TypeOK
      <3> QED
        BY <1>1, <1>3, <2>1, <3>0, <3>1, <3>2, <3>3 DEF AddedIsNew, InEvents, InList, Running
    <2>2. CASE main' # "nonblock"
      BY <1>3, <2>2 DEF AddedIsNew
    <2> QED
      BY <2>1, <2>2
  <1>9. ClosesRead(w)' /\ NoHup'
    BY <1>0, <1>1, <1>3 DEF OneMessage, ClosesRead, NoHup, TypeOK
  <1> QED
    BY <1>1, <1>5, <1>6, <1>7, <1>8, <1>9 DEF OneMessage

(* fcntl finds the descriptor open.                                        *)
LEMMA NonblockKeepsOne ==
  ASSUME TypeInv, NEW w \in Workers, OneMessage(w), SetNonblocking
  PROVE  OneMessage(w)' /\ main' # "exited"
  <1>1. /\ main = "nonblock" /\ main' \in {"add", "exited"} /\ cur \in Fds
        /\ UNCHANGED <<unread, sent, fdtab, watched, ready, hup, events, cur, jobs, wpc, job,
                       stored>>
        /\ fdtab[cur] # NoConn => main' # "exited"
    BY DEF SetNonblocking, kernel, threads, TypeInv, KnowsFds
  <1>2. /\ Waiting(w)' = Waiting(w)
        /\ OneSlot(w)' <=> OneSlot(w)
        /\ \A f \in Fds : /\ InList(w, f)' <=> InList(w, f)
                          /\ Running(w, f)' <=> Running(w, f)
                          /\ InEvents(f)' <=> InEvents(f)
                          /\ ~Injecting(f)' /\ ~Injecting(f)
    BY <1>1 DEF Waiting, OneSlot, InList, Running, InEvents, Injecting
  <1>3. OnePlace(w)' /\ MessageBehind(w)'
    BY <1>1, <1>2 DEF OneMessage, OnePlace, MessageBehind
  <1>4. AddedIsNew(w)' /\ ClosesRead(w)' /\ NoHup'
    BY <1>1, <1>2 DEF OneMessage, AddedIsNew, ClosesRead, NoHup
  <1> QED
    BY <1>1, <1>2, <1>3, <1>4 DEF OneMessage, AddedIsNew

(* The first edge of a descriptor that was just added.                     *)
LEMMA AddKeepsOne ==
  ASSUME TypeInv, FdInv, NEW w \in Workers, OneMessage(w), Add, Quiet
  PROVE  OneMessage(w)'
  <1>0. /\ TypeOK /\ NoConn \notin unread /\ cur \in Fds
        /\ main = "add" /\ main' \in {"wait", "deal"}
    BY FdFacts DEF TypeInv, KnowsFds, TypeOK, Add, After
  <1>1. UNCHANGED <<unread, sent, fdtab, events, jobs, wpc, job, stored>>
    BY DEF Add, threads
  <1>2. /\ hup' = hup /\ ready \subseteq ready'
        /\ \A f \in ready' : f \in ready \/ (f = cur /\ fdtab[cur] \in unread)
    BY DEF Add, Quiet
  <1>3. /\ Waiting(w)' = Waiting(w)
        /\ OneSlot(w)' <=> OneSlot(w)
        /\ \A f \in Fds : /\ InList(w, f)' <=> InList(w, f)
                          /\ Running(w, f)' <=> Running(w, f)
                          /\ InEvents(f)' <=> InEvents(f)
        /\ \A f \in Fds : ~Injecting(f)'
    BY <1>0, <1>1 DEF Waiting, OneSlot, InList, Running, InEvents, Injecting
  <1>4. \A f \in Fds : f = cur =>
          ~InEvents(f) /\ ~InList(w, f) /\ ~Running(w, f)
    BY <1>0 DEF OneMessage, AddedIsNew, InEvents, InList, Running
  <1>5. OnePlace(w)' /\ MessageBehind(w)'
    BY <1>0, <1>1, <1>2, <1>3, <1>4 DEF OneMessage, OnePlace, MessageBehind
  <1>6. AddedIsNew(w)' /\ ClosesRead(w)' /\ NoHup'
    BY <1>0, <1>1, <1>2 DEF OneMessage, AddedIsNew, ClosesRead, NoHup
  <1> QED
    BY <1>1, <1>3, <1>5, <1>6 DEF OneMessage

(* The event is used up when its descriptor goes on to inject.             *)
LEMMA FdKeepsOne ==
  ASSUME TypeInv, FdInv, NEW w \in Workers, OneMessage(w), NEW e \in events, DealFd(e)
  PROVE  OneMessage(w)'
  <1>0. /\ TypeOK /\ main = "deal" /\ main' = "inject" /\ cur' = e.fd
        /\ events' = events \ {e} /\ e.fd \in Fds
    BY DEF TypeInv, TypeOK, DealFd, Deal
  <1>1. UNCHANGED <<unread, sent, fdtab, ready, hup, jobs, wpc, job, stored>>
    BY DEF DealFd, kernel, threads
  <1>2. /\ Waiting(w)' = Waiting(w)
        /\ OneSlot(w)' <=> OneSlot(w)
        /\ \A f \in Fds : (InList(w, f)' <=> InList(w, f)) /\ (Running(w, f)' <=> Running(w, f))
        /\ \A f \in Fds : Injecting(f)' => InEvents(f)
    BY <1>0, <1>1 DEF Waiting, OneSlot, InList, Running, Injecting, InEvents
  <1>3. \A d \in events : d.fd = e.fd => d = e
    <2>1. ASSUME NEW d \in events, d.fd = e.fd PROVE d = e
      <3>1. ~d.hup /\ ~e.hup /\ d.hup \in BOOLEAN /\ e.hup \in BOOLEAN
        BY <1>0, <2>1 DEF OneMessage, NoHup, TypeOK
      <3>2. d.hup = e.hup
        BY <3>1
      <3>3. d = [fd |-> d.fd, hup |-> d.hup] /\ e = [fd |-> e.fd, hup |-> e.hup]
        BY <1>0 DEF TypeOK
      <3> QED
        BY <2>1, <3>2, <3>3
    <2> QED
      BY <2>1
  <1>4. \A f \in Fds : InEvents(f)' => InEvents(f) /\ ~Injecting(f)'
    BY <1>0, <1>3 DEF InEvents, Injecting
  <1>5. OnePlace(w)'
    BY <1>1, <1>2, <1>4 DEF OneMessage, OnePlace
  <1>6. MessageBehind(w)'
    BY <1>1, <1>2, <1>4 DEF OneMessage, MessageBehind
  <1>7. AddedIsNew(w)' /\ ClosesRead(w)' /\ NoHup'
    BY <1>0, <1>1 DEF OneMessage, AddedIsNew, ClosesRead, NoHup
  <1> QED
    BY <1>1, <1>2, <1>5, <1>6, <1>7 DEF OneMessage

(* The only worker is the last deal_with_fd reaches.                       *)
LEMMA InjectKeepsOne ==
  ASSUME TypeInv, FdInv, NEW w, Workers = {w}, OneMessage(w), Inject(w)
  PROVE  OneMessage(w)'
  <1> DEFINE i == FirstUnused(jobs[w])
  <1>0. /\ TypeOK /\ cur \in Fds /\ main = "inject" /\ now \in 0 .. MaxTime /\ todo \subseteq {w}
        /\ jobs[w] \in [Slots -> [used : BOOLEAN, fd : Fds \cup {-1}, start : 0 .. MaxTime]]
    BY DEF TypeInv, KnowsFds, TypeOK, Inject
  <1>1. /\ UNCHANGED <<unread, sent, fdtab, ready, hup, events, wpc, job, stored>>
        /\ main' \in {"wait", "deal"}
    BY <1>0 DEF Inject, After, kernel, threads
  <1>2. PICK f \in Fds : f = cur
    BY <1>0
  <1>3. /\ f \notin ready /\ ~InEvents(f) /\ ~InList(w, f) /\ ~Running(w, f)
        /\ fdtab[f] \in unread
    BY <1>0, <1>2 DEF OneMessage, OnePlace, MessageBehind, Injecting
  <1>4. \A g \in Fds : /\ ~Injecting(g)'
                       /\ Running(w, g)' <=> Running(w, g)
                       /\ InEvents(g)' <=> InEvents(g)
    BY <1>1 DEF Injecting, Running, InEvents
  <1>5. OneSlot(w)' /\ \A g \in Fds : InList(w, g)' => InList(w, g) \/ g = f
    <2>1. CASE i # End
      <3>1. /\ i \in Slots /\ ~jobs[w][i].used
            /\ jobs' = [jobs EXCEPT ![w] = Put(jobs[w], i, cur, now)]
        BY <2>1, FirstUnusedIsFree DEF Inject
      <3> HIDE DEF i
      <3> DEFINE list == Put(jobs[w], i, cur, now)
      <3>2. list[i].used /\ list[i].fd = cur /\ \A j \in Slots \ {i} : list[j] = jobs[w][j]
        BY <1>0, <3>1, PutTyped
      <3>3. jobs'[w] = list
        BY <1>0, <3>1 DEF TypeOK
      <3> HIDE DEF list
      <3>4. OneSlot(w)'
        <4>1. \A j \in Slots : j # i /\ jobs[w][j].used => jobs[w][j].fd # cur
          BY <1>2, <1>3 DEF InList, Waiting
        <4> QED
          BY <3>2, <3>3, <4>1 DEF OneMessage, OneSlot, Waiting
      <3>5. \A g \in Fds : InList(w, g)' => InList(w, g) \/ g = f
        BY <1>2, <3>2, <3>3 DEF InList, Waiting
      <3> QED
        BY <3>4, <3>5
    <2>2. CASE i = End
      <3>1. jobs' = jobs
        BY <2>2 DEF Inject
      <3> QED
        BY <3>1 DEF OneMessage, OneSlot, InList, Waiting
    <2> QED
      BY <2>1, <2>2
  <1>6. OnePlace(w)'
    BY <1>1, <1>3, <1>4, <1>5 DEF OneMessage, OnePlace
  <1>7. MessageBehind(w)'
    BY <1>1, <1>3, <1>4, <1>5 DEF OneMessage, MessageBehind
  <1>8. AddedIsNew(w)' /\ ClosesRead(w)' /\ NoHup'
    BY <1>0, <1>1 DEF OneMessage, AddedIsNew, ClosesRead, NoHup
  <1> QED
    BY <1>1, <1>5, <1>6, <1>7, <1>8 DEF OneMessage

(* The worker takes a descriptor out of its list, or leaves the list as it *)
(* is.                                                                     *)
LEMMA FetchKeepsOne ==
  ASSUME TypeInv, FdInv, NEW w \in Workers, OneMessage(w),
         FetchStart(w) \/ FetchNone(w) \/ FetchJob(w) \/ Wake(w)
  PROVE  OneMessage(w)'
  <1> DEFINE i == NextUsed(jobs[w], it[w])
  <1>0. /\ TypeOK /\ it[w] \in Slots
        /\ jobs[w] \in [Slots -> [used : BOOLEAN, fd : Fds \cup {-1}, start : 0 .. MaxTime]]
        /\ \A j \in Slots : jobs[w][j].used => jobs[w][j].fd \in Fds
    BY DEF TypeInv, TypeOK, KnowsFds, Waiting
  <1>1. UNCHANGED <<unread, sent, fdtab, watched, ready, hup, events, main, cur, stored>>
    BY DEF FetchStart, FetchNone, FetchJob, Wake, kernel, loop
  <1>2. \A g \in Fds : (InEvents(g)' <=> InEvents(g)) /\ (Injecting(g)' <=> Injecting(g))
    BY <1>1 DEF InEvents, Injecting
  <1>3. wpc[w] # "run" /\ wpc'[w] # "close"
    BY <1>0 DEF FetchStart, FetchNone, FetchJob, Wake, Goto, TypeOK
  <1>4. /\ OneSlot(w)'
        /\ \A g \in Fds : (InList(w, g) \/ Running(w, g))' => InList(w, g)
        /\ \A g \in Fds : Running(w, g)' => ~InList(w, g)'
    <2>1. CASE FetchJob(w)
      <3>1. /\ i # End
            /\ jobs' = [jobs EXCEPT ![w] = Take(jobs[w], i)]
            /\ job'[w] = jobs[w][i].fd
        BY <1>0, <2>1 DEF FetchJob, TypeOK
      <3>2. i \in Slots /\ jobs[w][i].used
        BY <1>0, <3>1, NextUsedIsFirst
      <3> HIDE DEF i
      <3> DEFINE list == Take(jobs[w], i)
      <3>3. ~list[i].used /\ \A j \in Slots \ {i} : list[j] = jobs[w][j]
        BY <1>0, <3>2, TakeTyped
      <3>4. jobs'[w] = list
        BY <1>0, <3>1 DEF TypeOK
      <3> HIDE DEF list
      <3>5. Waiting(w)' = Waiting(w) \ {i} /\ \A j \in Waiting(w)' : jobs'[w][j] = jobs[w][j]
        BY <3>3, <3>4 DEF Waiting
      <3>6. \A j \in Waiting(w) \ {i} : jobs[w][j].fd # jobs[w][i].fd
        BY <3>2 DEF OneMessage, OneSlot, Waiting
      <3>7. OneSlot(w)'
        BY <3>5 DEF OneMessage, OneSlot
      <3>8. \A g \in Fds : InList(w, g)' => InList(w, g) /\ g # jobs[w][i].fd
        BY <3>5, <3>6 DEF InList
      <3>9. \A g \in Fds : Running(w, g)' => InList(w, g) /\ g = jobs[w][i].fd
        BY <3>1, <3>2 DEF Running, InList, Waiting
      <3> QED
        BY <3>7, <3>8, <3>9
    <2>2. CASE FetchStart(w) \/ FetchNone(w) \/ Wake(w)
      <3>1. jobs' = jobs /\ wpc'[w] # "run"
        BY <1>0, <2>2 DEF FetchStart, FetchNone, Wake, Goto, TypeOK
      <3> QED
        BY <3>1 DEF OneMessage, OneSlot, InList, Running, Waiting
    <2> QED
      BY <2>1, <2>2
  <1>5. OnePlace(w)'
    BY <1>1, <1>2, <1>4 DEF OneMessage, OnePlace
  <1>6. MessageBehind(w)'
    BY <1>1, <1>2, <1>4 DEF OneMessage, MessageBehind
  <1>7. AddedIsNew(w)'
    <2>1. main \in {"nonblock", "add"} => cur \in Fds
      BY DEF TypeInv, KnowsFds
    <2>2. ASSUME main \in {"nonblock", "add"}, NEW f \in Fds, f = cur PROVE AddedIsNew(w)'
      <3>1. ~InList(w, f)' /\ ~Running(w, f)' /\ wpc'[w] # "close"
        BY <1>3, <1>4, <2>2 DEF OneMessage, AddedIsNew
      <3> QED
        BY <1>1, <2>2, <3>1 DEF OneMessage, AddedIsNew, InEvents, InList, Running
    <2> QED
      BY <1>1, <2>1, <2>2 DEF AddedIsNew
  <1>8. ClosesRead(w)' /\ NoHup'
    BY <1>1, <1>3 DEF OneMessage, ClosesRead, NoHup
  <1> QED
    BY <1>1, <1>4, <1>5, <1>6, <1>7, <1>8 DEF OneMessage

(* A job that waited too long is closed with its message.                  *)
LEMMA ExpireKeepsOne ==
  ASSUME TypeInv, FdInv, NEW w \in Workers, OneMessage(w), FetchExpire(w)
  PROVE  OneMessage(w)'
  <1> DEFINE i == NextUsed(jobs[w], it[w])
  <1>0. /\ TypeOK /\ it[w] \in Slots /\ NoConn \notin unread
        /\ jobs[w] \in [Slots -> [used : BOOLEAN, fd : Fds \cup {-1}, start : 0 .. MaxTime]]
        /\ \A j \in Slots : jobs[w][j].used => jobs[w][j].fd \in Fds
    BY FdFacts DEF TypeInv, TypeOK, KnowsFds, Waiting
  <1>1. /\ i # End /\ wpc[w] = "scan" /\ Close(jobs[w][i].fd)
        /\ jobs' = [jobs EXCEPT ![w] = Expire(jobs[w], i)]
        /\ UNCHANGED <<events, main, cur, wpc, job, stored>>
    BY DEF FetchExpire, loop
  <1>2. i \in Slots /\ jobs[w][i].used
    BY <1>0, <1>1, NextUsedIsFirst
  <1> HIDE DEF i
  <1>3. PICK f \in Fds : f = jobs[w][i].fd
    BY <1>0, <1>2
  <1>4. InList(w, f)
    BY <1>2, <1>3 DEF InList, Waiting
  <1>5. fdtab[f] \in unread /\ f \notin ready /\ ~InEvents(f) /\ ~Injecting(f)
    BY <1>4 DEF OneMessage, OnePlace, MessageBehind
  <1>6. /\ sent' = sent
        /\ \A g \in Fds : fdtab'[g] = IF g = f THEN NoConn ELSE fdtab[g]
        /\ unread' = unread \ {fdtab[f]}
        /\ watched' \subseteq watched /\ ready' \subseteq ready /\ hup' \subseteq hup
    BY <1>0, <1>1, <1>3, CloseDoes
  <1>7. \A g \in Fds \ {f} : fdtab[g] \in unread => fdtab'[g] \in unread'
    BY <1>0, <1>5, <1>6 DEF FdInv, OneDescriptor
  <1>8. OneSlot(w)' /\ \A g \in Fds : InList(w, g)' => InList(w, g) /\ g # f
    <2> DEFINE list == Expire(jobs[w], i)
    <2>1. ~list[i].used /\ \A j \in Slots \ {i} : list[j] = jobs[w][j]
      BY <1>0, <1>2, TakeTyped
    <2>2. jobs'[w] = list
      BY <1>0, <1>1 DEF TypeOK
    <2> HIDE DEF list
    <2>3. Waiting(w)' = Waiting(w) \ {i} /\ \A j \in Waiting(w)' : jobs'[w][j] = jobs[w][j]
      BY <2>1, <2>2 DEF Waiting
    <2>4. \A j \in Waiting(w) \ {i} : jobs[w][j].fd # f
      BY <1>2, <1>3 DEF OneMessage, OneSlot, Waiting
    <2>5. OneSlot(w)'
      BY <2>3 DEF OneMessage, OneSlot
    <2> QED
      BY <2>3, <2>4, <2>5 DEF InList
  <1>9. \A g \in Fds : /\ ~Running(w, g)'
                       /\ InEvents(g)' <=> InEvents(g)
                       /\ Injecting(g)' <=> Injecting(g)
    BY <1>1 DEF Running, InEvents, Injecting
  <1>10. OnePlace(w)'
    BY <1>6, <1>8, <1>9 DEF OneMessage, OnePlace
  <1>11. MessageBehind(w)'
    BY <1>5, <1>6, <1>7, <1>8, <1>9 DEF OneMessage, MessageBehind
  <1>12. AddedIsNew(w)'
    <2>1. main \in {"nonblock", "add"} => cur \in Fds
      BY DEF TypeInv, KnowsFds
    <2>2. ASSUME main \in {"nonblock", "add"}, NEW g \in Fds, g = cur PROVE AddedIsNew(w)'
      <3>1. ~InList(w, g)' /\ ~Running(w, g)' /\ g # f
        BY <1>4, <1>8, <1>9, <2>2 DEF OneMessage, AddedIsNew
      <3> QED
        BY <1>1, <1>6, <2>2, <3>1 DEF OneMessage, AddedIsNew, InEvents, InList, Running
    <2> QED
      BY <1>1, <2>1, <2>2 DEF AddedIsNew
  <1>13. ClosesRead(w)' /\ NoHup'
    BY <1>1, <1>6 DEF OneMessage, ClosesRead, NoHup
  <1> QED
    BY <1>1, <1>6, <1>8, <1>10, <1>11, <1>12, <1>13 DEF OneMessage

(* The one read finds the message, and what it finds was sent.             *)
LEMMA RunKeepsOne ==
  ASSUME TypeInv, FdInv, NEW w \in Workers, OneMessage(w), Run(w)
  PROVE  OneMessage(w)'
  <1>0. /\ TypeOK /\ NoConn \notin unread /\ unread \subseteq sent
        /\ wpc[w] = "run" /\ job[w] \in Fds
    BY FdFacts DEF TypeInv, TypeOK, KnowsFds, Run
  <1>1. /\ UNCHANGED <<sent, fdtab, watched, ready, hup, events, main, cur, jobs, job>>
        /\ unread' = unread \ Read(w)
        /\ wpc'[w] = "close"
        /\ stored' = IF stored # Nothing THEN stored
                     ELSE IF Read(w) = {} THEN Empty ELSE CHOOSE c \in Read(w) : TRUE
    BY <1>0 DEF Run, Goto, loop, TypeOK
  <1>2. PICK f \in Fds : f = job[w]
    BY <1>0
  <1>3. Running(w, f)
    BY <1>0, <1>2 DEF Running
  <1>4. /\ fdtab[f] \in unread
        /\ f \notin ready /\ ~InEvents(f) /\ ~Injecting(f) /\ ~InList(w, f)
    BY <1>3 DEF OneMessage, OnePlace, MessageBehind
  <1>5. Read(w) = {fdtab[f]}
    BY <1>2, <1>4 DEF Read
  <1>6. (CHOOSE c \in Read(w) : TRUE) \in sent
    BY <1>0, <1>4, <1>5
  <1>7. stored' \in sent' \cup {Nothing}
    BY <1>1, <1>5, <1>6 DEF OneMessage
  <1>8. \A g \in Fds \ {f} : fdtab[g] \in unread => fdtab[g] \in unread'
    BY <1>0, <1>1, <1>4, <1>5 DEF FdInv, OneDescriptor
  <1>9. /\ Waiting(w)' = Waiting(w) /\ OneSlot(w)'
        /\ \A g \in Fds : /\ ~Running(w, g)'
                          /\ InList(w, g)' <=> InList(w, g)
                          /\ InEvents(g)' <=> InEvents(g)
                          /\ Injecting(g)' <=> Injecting(g)
    BY <1>1 DEF OneMessage, OneSlot, Waiting, Running, InList, InEvents, Injecting
  <1>10. OnePlace(w)'
    BY <1>1, <1>9 DEF OneMessage, OnePlace
  <1>11. MessageBehind(w)'
    BY <1>1, <1>4, <1>8, <1>9 DEF OneMessage, MessageBehind
  <1>12. AddedIsNew(w)'
    <2>1. main \in {"nonblock", "add"} => cur # job[w]
      BY <1>0 DEF OneMessage, AddedIsNew, Running
    <2> QED
      BY <1>1, <2>1 DEF OneMessage, AddedIsNew, InEvents, InList, Running, Waiting
  <1>13. ClosesRead(w)' /\ NoHup'
    BY <1>0, <1>1, <1>2, <1>4, <1>5 DEF OneMessage, ClosesRead, NoHup
  <1> QED
    BY <1>7, <1>9, <1>10, <1>11, <1>12, <1>13 DEF OneMessage

(* The worker closes a descriptor that has been read: nothing more is said *)
(* about it.                                                               *)
LEMMA CloseKeepsOne ==
  ASSUME TypeInv, FdInv, NEW w \in Workers, OneMessage(w), CloseJob(w)
  PROVE  OneMessage(w)'
  <1>0. TypeOK /\ NoConn \notin unread /\ wpc[w] = "close" /\ job[w] \in Fds
    BY FdFacts DEF TypeInv, TypeOK, KnowsFds, CloseJob
  <1>1. /\ UNCHANGED <<events, main, cur, jobs, stored>>
        /\ Close(job[w]) /\ wpc'[w] = "fetch"
    BY <1>0 DEF CloseJob, Goto, loop, TypeOK
  <1>2. PICK f \in Fds : f = job[w]
    BY <1>0
  <1>3. fdtab[f] \in sent \ unread
    BY <1>0, <1>2 DEF OneMessage, ClosesRead
  <1>4. /\ sent' = sent
        /\ \A g \in Fds : fdtab'[g] = IF g = f THEN NoConn ELSE fdtab[g]
        /\ unread' = unread \ {fdtab[f]}
        /\ watched' \subseteq watched /\ ready' \subseteq ready /\ hup' \subseteq hup
    BY <1>0, <1>1, <1>2, CloseDoes
  <1>5. unread' = unread
    BY <1>3, <1>4
  <1>6. /\ Waiting(w)' = Waiting(w) /\ OneSlot(w)'
        /\ \A g \in Fds : /\ ~Running(w, g)'
                          /\ InList(w, g)' <=> InList(w, g)
                          /\ InEvents(g)' <=> InEvents(g)
                          /\ Injecting(g)' <=> Injecting(g)
    BY <1>1 DEF OneMessage, OneSlot, Waiting, Running, InList, InEvents, Injecting
  <1>7. OnePlace(w)'
    BY <1>4, <1>6 DEF OneMessage, OnePlace
  <1>8. MessageBehind(w)'
    BY <1>3, <1>4, <1>5, <1>6 DEF OneMessage, MessageBehind
  <1>9. AddedIsNew(w)'
    <2>1. main \in {"nonblock", "add"} => cur \in Fds /\ cur # f
      BY <1>0, <1>2 DEF OneMessage, AddedIsNew, TypeInv, KnowsFds
    <2> QED
      BY <1>1, <1>4, <2>1 DEF OneMessage, AddedIsNew, InEvents, InList, Running, Waiting
  <1>10. ClosesRead(w)' /\ NoHup'
    BY <1>1, <1>4 DEF OneMessage, ClosesRead, NoHup
  <1> QED
    BY <1>1, <1>4, <1>6, <1>7, <1>8, <1>9, <1>10 DEF OneMessage

(* With one worker, every step keeps one message behind every word.        *)
LEMMA OneMessageStep ==
  ASSUME NEW w, Workers = {w}
  PROVE  TypeInv /\ FdInv /\ QuietInv /\ [Next]_vars => QuietInv'
  <1> SUFFICES ASSUME TypeInv, FdInv, QuietInv, [Next]_vars, Quiet' PROVE OneMessage(w)'
    BY DEF QuietInv
  <1>0. Quiet /\ w \in Workers
    BY DEF Quiet, Next, vars, kernel, Client, Connect, Send, HangUp, Reset, Tick, Main,
           EpollWait, SetNonblocking, Add, Accept, DealHup, DealFd, Inject, Worker, Fetch, FetchStart,
           FetchNone, FetchExpire, FetchJob, Run, CloseJob, Wake, Close
  <1>1. OneMessage(w)
    BY <1>0 DEF QuietInv
  <1>2. CASE Tick \/ UNCHANGED vars
    <2>1. UNCHANGED <<kernel, loop, jobs, threads, stored>>
      BY <1>2 DEF Tick, vars
    <2> QED
      BY <1>1, <2>1
      DEF OneMessage, OnePlace, OneSlot, MessageBehind, AddedIsNew, ClosesRead, NoHup,
          InList, InEvents, Injecting, Running, Waiting, kernel, loop, threads
  <1>3. CASE Client
    BY <1>0, <1>1, <1>3, ClientKeepsOne
  <1>4. CASE Main
    <2>1. ASSUME NEW e \in events, DealHup(e) PROVE FALSE
      BY <1>1, <2>1 DEF DealHup, OneMessage, NoHup
    <2> QED
      BY <1>0, <1>1, <1>4, <2>1, WaitKeepsOne, NonblockKeepsOne, AddKeepsOne,
         AcceptKeepsOne, FdKeepsOne, InjectKeepsOne
      DEF Main
  <1>5. CASE Worker(w)
    BY <1>0, <1>1, <1>5, FetchKeepsOne, ExpireKeepsOne, RunKeepsOne, CloseKeepsOne
    DEF Worker, Fetch
  <1> QED
    BY <1>2, <1>3, <1>4, <1>5 DEF Next

(* The three invariants hold throughout.                                   *)
LEMMA OneWorkerInv ==
  ASSUME NEW w, Workers = {w}
  PROVE  Spec => [](TypeInv /\ FdInv /\ QuietInv)
  <1>1. Init => QuietInv
    BY OneMessageInit DEF QuietInv
  <1> QED
    BY <1>1, TypeInit, FdInit, TypeStep, FdStep, OneMessageStep, PTL DEF Spec

(* With the one worker the program starts, and as long as clients stay, a  *)
(* job stands for one open connection whose message is unread: no          *)
(* descriptor is queued twice or handed to another connection meanwhile.   *)
THEOREM JobsHaveMessages ==
  ASSUME NEW w, Workers = {w}
  PROVE  Spec => []JobHasMessage
  <1>1. TypeInv /\ FdInv /\ QuietInv => JobHasMessage
    <2> SUFFICES ASSUME TypeInv, FdInv, QuietInv, Quiet, NEW v \in Workers
                 PROVE  /\ \A f \in Held(v) : fdtab[f] \in unread
                        /\ \A i, j \in Waiting(v) : jobs[v][i].fd = jobs[v][j].fd => i = j
                        /\ wpc[v] = "run" => \A i \in Waiting(v) : jobs[v][i].fd # job[v]
      BY DEF JobHasMessage
    <2>1. OneMessage(v)
      BY DEF QuietInv
    <2>2. \A f \in Held(v) : f \in Fds /\ (InList(v, f) \/ Running(v, f))
      BY DEF TypeInv, KnowsFds, Held, InList, Running
    <2>3. \A f \in Held(v) : fdtab[f] \in unread
      BY <2>1, <2>2 DEF OneMessage, MessageBehind
    <2>4. wpc[v] = "run" => \A i \in Waiting(v) : jobs[v][i].fd # job[v]
      BY <2>1 DEF TypeInv, KnowsFds, OneMessage, OnePlace, InList, Running
    <2> QED
      BY <2>1, <2>3, <2>4 DEF OneMessage, OneSlot
  <1> QED
    BY <1>1, OneWorkerInv, PTL

(* With one worker, and as long as clients stay, what is stored is a       *)
(* message somebody sent: the one read of a job never comes back empty.    *)
THEOREM WhatIsStoredWasSent ==
  ASSUME NEW w, Workers = {w}
  PROVE  Spec => []StoredWasSent
  <1>1. QuietInv => StoredWasSent
    BY DEF QuietInv, StoredWasSent, OneMessage
  <1> QED
    BY <1>1, OneWorkerInv, PTL

(* With one worker, and as long as clients stay, the process exits only at *)
(* accept, for want of a descriptor: setnonblocking always finds the one   *)
(* it was given open.                                                      *)
THEOREM ExitsOnlyWhenFull ==
  ASSUME NEW w, Workers = {w}
  PROVE  Spec => ExitsOnlyFull
  <1>1. TypeInv /\ QuietInv /\ [Next]_vars
          => [Quiet /\ Alive /\ ~Alive' => FreeFds = {}]_vars
    <2> SUFFICES ASSUME TypeInv, QuietInv, Next, Quiet, Alive, ~Alive'
                 PROVE  FreeFds = {}
      OBVIOUS
    <2>1. OneMessage(w)
      BY DEF QuietInv
    <2>2. ~SetNonblocking
      BY <2>1, NonblockKeepsOne DEF Alive
    <2>3. PICK e \in events : Accept(e)
      BY <2>2
      DEF Next, Client, Tick, Main, EpollWait, Add, DealHup, DealFd, Inject, After, Worker,
          Fetch, FetchStart, FetchNone, FetchExpire, FetchJob, Run, CloseJob, Wake, loop, Alive
    <2> QED
      BY <2>3 DEF Accept, Alive
  <1> QED
    BY <1>1, OneWorkerInv, PTL DEF Spec, ExitsOnlyFull

(* With one worker, and as long as clients stay, a connection whose        *)
(* message is unread is closed only as an expired job.                     *)
THEOREM LosesOnlyToTime ==
  ASSUME NEW x, Workers = {x}
  PROVE  Spec => LostOnlyToTime
  <1>1. TypeInv /\ FdInv /\ QuietInv /\ [Next]_vars
          => [Quiet => \A c \in unread :
                conn[c] = "open" /\ conn'[c] = "closed"
                  => \E w \in Workers : FetchExpire(w)]_vars
    <2> SUFFICES ASSUME TypeInv, FdInv, QuietInv, Next, Quiet, NEW c \in unread,
                        conn[c] = "open", conn'[c] = "closed", ~FetchExpire(x)
                 PROVE  FALSE
      OBVIOUS
    <2>0. /\ TypeOK /\ NoConn \notin Conns /\ c \in Conns /\ unread \subseteq Conns
          /\ wpc[x] = "close" => job[x] \in Fds
      BY FdFacts DEF TypeInv, TypeOK, KnowsFds
    <2>1. OneMessage(x)
      BY DEF QuietInv
    <2>3. PICK f :
            Close(f) /\ ((CloseJob(x) /\ f = job[x]) \/ \E e \in events : DealHup(e))
      <3>1. CASE Client
        BY <2>0, <3>1 DEF Client, Connect, Send, HangUp, Reset, TypeOK
      <3>2. CASE Main
        BY <2>0, <3>2
        DEF Main, EpollWait, SetNonblocking, Add, Accept, DealHup, DealFd, Inject, kernel,
            TypeOK
      <3>3. CASE Worker(x)
        BY <3>3
        DEF Worker, Fetch, FetchStart, FetchNone, FetchJob, Run, CloseJob, Wake, kernel
      <3>4. CASE Tick
        BY <3>4 DEF Tick, kernel
      <3> QED
        BY <3>1, <3>2, <3>3, <3>4 DEF Next
    <2>4. CloseJob(x) /\ f = job[x]
      BY <2>1, <2>3 DEF DealHup, OneMessage, NoHup
    <2>5. f \in Fds /\ fdtab[f] \notin unread
      BY <2>0, <2>1, <2>4 DEF CloseJob, OneMessage, ClosesRead
    <2>6. conn'[c] = conn[c]
      BY <2>0, <2>3, <2>5, CloseDoes
    <2> QED
      BY <2>6
  <1>2. Spec => [](TypeInv /\ FdInv /\ QuietInv)
    BY OneWorkerInv
  <1> QED
    BY <1>1, <1>2, PTL DEF Spec, LostOnlyToTime
=============================================================================
