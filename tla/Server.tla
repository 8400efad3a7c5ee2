------------------------------- MODULE Server -------------------------------
(***************************************************************************)
(* SERVER and WORKER (src/kvs/src/server) with the job of                  *)
(* src/kvs/kvs_server.cc: a main thread waits for socket events, edge      *)
(* triggered, and queues descriptors; each worker thread takes them from   *)
(* its own list, reads the socket once, puts what it read under one key,   *)
(* and closes the descriptor.                                              *)
(*                                                                         *)
(* Descriptors are numbers the kernel hands out again as soon as they are  *)
(* closed (the lowest first); the threads share nothing else but the       *)
(* lists, each under its mutex.  A step is what a thread does between two  *)
(* points where another thread's step can be seen: a system call or a      *)
(* critical section.                                                       *)
(***************************************************************************)
EXTENDS Jobs, Functions

CONSTANTS
  Workers,       \* workers_ of SERVER, in any order
  Conns,         \* connections clients make, each once
  NoConn,        \* a descriptor that is not open
  Fds,           \* descriptors the process may have open besides its own
  MaxTime,       \* bound of the clock
  HangUps,       \* clients that may close after they sent (client.cc)
  Resets         \* connections the network may reset

ASSUME ServerAssumption ==
  /\ Fds \subseteq Nat \ {0} /\ NoConn \notin Conns /\ MaxTime \in Nat
  /\ HangUps \subseteq Conns /\ Resets \subseteq Conns

VARIABLES
  conn,        \* state of each connection as the server's kernel sees it
  unread,      \* connections with a message nobody has read
  sent,        \* connections whose client has sent
  fin, rst,    \* connections the client has closed, or the network broken
  fdtab,       \* connection behind each descriptor
  watched,     \* descriptors added to epoll
  ready,       \* descriptors with an edge not yet reported
  hup,         \* those of them with EPOLLHUP or EPOLLERR
  main,        \* where SERVER::Run is
  events,      \* events_ not dealt with yet; Listen is listen_fd
  cur,         \* the descriptor Run is at (connect_fd or data.fd)
  todo,        \* workers deal_with_fd has not reached
  jobs, lock,  \* jobs_ and lock_ of each worker
  wpc, it, job,\* each worker: where it is, fetch's iterator, its job's fd
  now,         \* time(NULL)
  stored,      \* what the one key of kvs_work holds
  refused      \* connections whose event inject turned down (history)

kernel  == <<conn, unread, sent, fin, rst, fdtab, watched, ready, hup>>
loop    == <<main, events, cur, todo>>
threads == <<wpc, it, job>>
vars    == <<kernel, loop, jobs, lock, threads, now, stored, refused>>

Listen  == 0         \* listen_fd
Nothing == "nothing"
Empty   == "empty"

(* pthread_mutex_lock on lock_ of a worker. *)
NoMutex(w)  == TRUE
Unlocked(w) == lock[w] = "free"

FreeFds == {f \in Fds : fdtab[f] = NoConn}
FdOf(c) == {f \in Fds : fdtab[f] = c}

Init ==
  /\ conn = [c \in Conns |-> "new"]
  /\ unread = {} /\ sent = {} /\ fin = {} /\ rst = {}
  /\ fdtab = [f \in Fds |-> NoConn]
  /\ watched = {} /\ ready = {} /\ hup = {}
  /\ main = "wait" /\ events = {} /\ cur = -1 /\ todo = {}
  /\ jobs = [w \in Workers |-> EmptyList]
  /\ lock = [w \in Workers |-> "free"]
  /\ wpc = [w \in Workers |-> "fetch"]
  /\ it = [w \in Workers |-> 1]
  /\ job = [w \in Workers |-> -1]
  /\ now = 0
  /\ stored = Nothing
  /\ refused = {}

------------------------------------------------------------------------------
(* The kernel and the clients *)

(* close(2): nothing happens when the descriptor is not open.              *)
Close(f) ==
  IF f \in Fds \ FreeFds
    THEN /\ conn' = [conn EXCEPT ![fdtab[f]] = "closed"]
         /\ unread' = unread \ {fdtab[f]}
         /\ fdtab' = [fdtab EXCEPT ![f] = NoConn]
         /\ watched' = watched \ {f}
         /\ ready' = ready \ {f} /\ hup' = hup \ {f}
         /\ UNCHANGED <<sent, fin, rst>>
    ELSE UNCHANGED kernel

(* An edge on a connection whose descriptor epoll watches.                 *)
Edge(c) == ready' = ready \cup (FdOf(c) \cap watched)

Connect(c) ==
  /\ conn[c] = "new"
  /\ conn' = [conn EXCEPT ![c] = "backlog"]
  /\ UNCHANGED <<unread, sent, fin, rst, fdtab, watched, ready, hup>>

Reachable(c) == conn[c] \in {"backlog", "open"} /\ c \notin fin \cup rst

Send(c) ==
  /\ Reachable(c) /\ c \notin sent
  /\ sent' = sent \cup {c} /\ unread' = unread \cup {c}
  /\ Edge(c)
  /\ UNCHANGED <<conn, fin, rst, fdtab, watched, hup>>

(* The client's close arrives as one more edge.                            *)
HangUp(c) ==
  /\ c \in HangUps /\ Reachable(c) /\ c \in sent
  /\ fin' = fin \cup {c}
  /\ Edge(c)
  /\ UNCHANGED <<conn, unread, sent, rst, fdtab, watched, hup>>

(* A reset discards what was not read and reports EPOLLHUP.                *)
Reset(c) ==
  /\ c \in Resets /\ conn[c] = "open" /\ c \notin rst
  /\ rst' = rst \cup {c}
  /\ unread' = unread \ {c}
  /\ Edge(c) /\ hup' = hup \cup (FdOf(c) \cap watched)
  /\ UNCHANGED <<conn, sent, fin, fdtab, watched>>

Client ==
  /\ \E c \in Conns : Connect(c) \/ Send(c) \/ HangUp(c) \/ Reset(c)
  /\ UNCHANGED <<loop, jobs, lock, threads, now, stored, refused>>

Tick ==
  /\ now < MaxTime
  /\ now' = now + 1
  /\ UNCHANGED <<kernel, loop, jobs, lock, threads, stored, refused>>

------------------------------------------------------------------------------
(* SERVER::Run *)

Backlog == {c \in Conns : conn[c] = "backlog"}

(* epoll_wait: what has an edge is reported once; listen_fd is level       *)
(* triggered.  The batch is then dealt with in some order.                 *)
EpollWait ==
  /\ main = "wait"
  /\ ready # {} \/ Backlog # {}
  /\ events' = [fd : ready \ hup, hup : {FALSE}] \cup [fd : hup, hup : {TRUE}]
               \cup (IF Backlog # {} THEN {[fd |-> Listen, hup |-> FALSE]} ELSE {})
  /\ ready' = {} /\ hup' = {}
  /\ main' = "deal"
  /\ UNCHANGED <<conn, unread, sent, fin, rst, fdtab, watched, cur, todo, jobs, lock,
                 threads, now, stored, refused>>

Deal(e) == main = "deal" /\ e \in events /\ events' = events \ {e}
After(rest) == IF rest = {} THEN "wait" ELSE "deal"

(* accept(2): a descriptor for the oldest connection (any: clients are     *)
(* alike); with none left the process exits.                               *)
Accept(e) ==
  /\ Deal(e) /\ e.fd = Listen
  /\ \E c \in Backlog :
       IF FreeFds # {}
         THEN /\ fdtab' = [fdtab EXCEPT ![Min(FreeFds)] = c]
              /\ conn' = [conn EXCEPT ![c] = "open"]
              /\ cur' = Min(FreeFds) /\ main' = "nonblock"
         ELSE /\ main' = "exited" /\ cur' = cur
              /\ UNCHANGED <<fdtab, conn>>
  /\ UNCHANGED <<unread, sent, fin, rst, watched, ready, hup, todo, jobs, lock, threads,
                 now, stored, refused>>

(* setnonblocking: fcntl(2) fails when a worker has closed the descriptor  *)
(* meanwhile, and the process exits.                                       *)
SetNonblocking ==
  /\ main = "nonblock"
  /\ main' = IF fdtab[cur] = NoConn THEN "exited" ELSE "add"
  /\ UNCHANGED <<kernel, events, cur, todo, jobs, lock, threads, now, stored, refused>>

(* EPOLL_CTL_ADD: an edge at once if something has arrived already; an     *)
(* error, which is passed over, if a worker has closed the descriptor now. *)
Add ==
  /\ main = "add"
  /\ IF fdtab[cur] # NoConn
       THEN /\ watched' = watched \cup {cur}
            /\ ready' = IF fdtab[cur] \in unread \cup fin \cup rst
                          THEN ready \cup {cur} ELSE ready
            /\ hup' = IF fdtab[cur] \in rst THEN hup \cup {cur} ELSE hup
       ELSE UNCHANGED <<watched, ready, hup>>
  /\ main' = After(events)
  /\ cur' = -1
  /\ UNCHANGED <<conn, unread, sent, fin, rst, fdtab, events, todo, jobs, lock, threads,
                 now, stored, refused>>

DealHup(e) ==
  /\ Deal(e) /\ e.hup
  /\ Close(e.fd)
  /\ main' = After(events')
  /\ UNCHANGED <<cur, todo, jobs, lock, threads, now, stored, refused>>

(* deal_with_fd goes through every worker.                                 *)
DealFd(e) ==
  /\ Deal(e) /\ e.fd # Listen /\ ~e.hup
  /\ cur' = e.fd /\ todo' = Workers /\ main' = "inject"
  /\ UNCHANGED <<kernel, jobs, lock, threads, now, stored, refused>>

(* JOBS::inject, one critical section; what it returns is not looked at.   *)
Inject(w) ==
  /\ main = "inject" /\ w \in todo
  /\ Unlocked(w)
  /\ LET i == FirstUnused(jobs[w]) IN
       IF i # End
         THEN /\ jobs' = [jobs EXCEPT ![w] = Put(@, i, cur, now)]
              /\ refused' = refused
         ELSE /\ refused' = refused \cup ({fdtab[cur]} \ {NoConn})
              /\ jobs' = jobs
  /\ todo' = todo \ {w}
  /\ IF todo' = {} THEN main' = After(events) /\ cur' = -1 ELSE UNCHANGED <<main, cur>>
  /\ UNCHANGED <<kernel, events, lock, threads, now, stored>>

Main ==
  \/ EpollWait \/ SetNonblocking \/ Add
  \/ \E e \in events : Accept(e) \/ DealHup(e) \/ DealFd(e)
  \/ \E w \in Workers : Inject(w)

------------------------------------------------------------------------------
(* worker_loop *)

Alive == main # "exited"

Goto(w, p) == wpc' = [wpc EXCEPT ![w] = p]

(* JOBS::fetch takes the mutex and starts at the head of the list.         *)
FetchStart(w) ==
  /\ Alive /\ wpc[w] = "fetch" /\ Unlocked(w)
  /\ lock' = [lock EXCEPT ![w] = "held"]
  /\ it' = [it EXCEPT ![w] = 1]
  /\ Goto(w, "scan")
  /\ UNCHANGED <<kernel, loop, jobs, job, now, stored, refused>>

(* No used slot from the iterator on: -1, and the worker sleeps a second.  *)
FetchNone(w) ==
  /\ Alive /\ wpc[w] = "scan" /\ NextUsed(jobs[w], it[w]) = End
  /\ lock' = [lock EXCEPT ![w] = "free"]
  /\ it' = [it EXCEPT ![w] = 1]
  /\ Goto(w, "sleep")
  /\ UNCHANGED <<kernel, loop, jobs, job, now, stored, refused>>

(* A job that waited too long is closed unread, and the search goes on     *)
(* from there with the mutex held.                                         *)
FetchExpire(w) ==
  /\ Alive /\ wpc[w] = "scan"
  /\ LET i == NextUsed(jobs[w], it[w]) IN
       /\ i # End /\ Expired(jobs[w][i], now)
       /\ Close(jobs[w][i].fd)
       /\ jobs' = [jobs EXCEPT ![w] = Expire(@, i)]
       /\ it' = [it EXCEPT ![w] = i]
  /\ UNCHANGED <<loop, lock, wpc, job, now, stored, refused>>

FetchJob(w) ==
  /\ Alive /\ wpc[w] = "scan"
  /\ LET i == NextUsed(jobs[w], it[w]) IN
       /\ i # End /\ ~Expired(jobs[w][i], now)
       /\ jobs' = [jobs EXCEPT ![w] = Take(@, i)]
       /\ job' = [job EXCEPT ![w] = jobs[w][i].fd]
  /\ lock' = [lock EXCEPT ![w] = "free"]
  /\ it' = [it EXCEPT ![w] = 1]
  /\ Goto(w, "run")
  /\ UNCHANGED <<kernel, loop, now, stored, refused>>

(* kvs_work: one read, which may find nothing or fail, then a Put that     *)
(* does not overwrite.                                                     *)
ReadNothing(w) == {}
Read(w) == {c \in unread : fdtab[job[w]] = c}
Run(w) ==
  /\ Alive /\ wpc[w] = "run"
  /\ unread' = unread \ Read(w)
  /\ stored' = IF stored # Nothing THEN stored
               ELSE IF Read(w) = {} THEN Empty ELSE CHOOSE c \in Read(w) : TRUE
  /\ Goto(w, "close")
  /\ UNCHANGED <<conn, sent, fin, rst, fdtab, watched, ready, hup, loop, jobs, lock, it,
                 job, now, refused>>

CloseJob(w) ==
  /\ Alive /\ wpc[w] = "close"
  /\ Close(job[w])
  /\ job' = [job EXCEPT ![w] = -1]
  /\ Goto(w, "fetch")
  /\ UNCHANGED <<loop, jobs, lock, it, now, stored, refused>>

Wake(w) ==
  /\ Alive /\ wpc[w] = "sleep"
  /\ Goto(w, "fetch")
  /\ UNCHANGED <<kernel, loop, jobs, lock, it, job, now, stored, refused>>

Fetch(w) == FetchStart(w) \/ FetchNone(w) \/ FetchExpire(w) \/ FetchJob(w)
Worker(w) == Fetch(w) \/ Run(w) \/ CloseJob(w) \/ Wake(w)

Next == Client \/ Tick \/ Main \/ \E w \in Workers : Worker(w)

(* Threads that can run do, and nobody waits for ever for a mutex whose    *)
(* holder keeps letting it go: a worker holds it for one search and then   *)
(* sleeps a second or works on a job.  Clients and the clock owe nothing.  *)
Fairness ==
  /\ WF_vars(Main)
  /\ \A w \in Workers : SF_vars(Inject(w)) /\ WF_vars(Worker(w))

Spec == Init /\ [][Next]_vars /\ Fairness
=============================================================================
