---------------------------- MODULE ServerProps ----------------------------
(***************************************************************************)
(* What a client of the server relies on, and what the threads rely on     *)
(* each other for.                                                         *)
(***************************************************************************)
EXTENDS Server

TypeOK ==
  /\ conn \in [Conns -> {"new", "backlog", "open", "closed"}]
  /\ unread \subseteq sent /\ sent \subseteq Conns
  /\ fin \subseteq sent /\ rst \subseteq Conns
  /\ fdtab \in [Fds -> Conns \cup {NoConn}]
  /\ watched \subseteq Fds /\ hup \subseteq ready /\ ready \subseteq watched
  /\ main \in {"wait", "deal", "nonblock", "add", "inject", "exited"}
  /\ events \subseteq [fd : Fds \cup {Listen}, hup : BOOLEAN]
  /\ cur \in Fds \cup {-1} /\ todo \subseteq Workers
  /\ jobs \in [Workers -> [Slots -> [used : BOOLEAN, fd : Fds \cup {-1}, start : 0 .. MaxTime]]]
  /\ lock \in [Workers -> {"free", "held"}]
  /\ wpc \in [Workers -> {"fetch", "scan", "run", "close", "sleep"}]
  /\ it \in [Workers -> Slots] /\ job \in [Workers -> Fds \cup {-1}]
  /\ now \in 0 .. MaxTime
  /\ stored \in Conns \cup {Nothing, Empty} /\ refused \subseteq Conns

(* Descriptors waiting in a list, or taken from it and not yet read.       *)
Waiting(w) == {i \in Slots : jobs[w][i].used}
Held(w) == {jobs[w][i].fd : i \in Waiting(w)}
             \cup (IF wpc[w] = "run" THEN {job[w]} ELSE {})

(* As long as no client has hung up and nothing was reset, a job in the    *)
(* list of the one worker stands for exactly one connection, which is open *)
(* and has a message: no descriptor is queued twice, closed behind the     *)
(* queue's back or handed to another connection while it waits.            *)
Quiet == fin \cup rst = {}
JobHasMessage ==
  Quiet => \A w \in Workers :
    /\ \A f \in Held(w) : fdtab[f] \in unread
    /\ \A i, j \in Waiting(w) : jobs[w][i].fd = jobs[w][j].fd => i = j
    /\ wpc[w] = "run" => \A i \in Waiting(w) : jobs[w][i].fd # job[w]

(* As long as clients stay, what the worker stores is a message somebody   *)
(* sent: the one read of kvs_work, which does not look at what read(2)     *)
(* returns, finds one (kvs_server.cc:16-28).                               *)
StoredWasSent == Quiet => stored \in sent \cup {Nothing}

(* A worker goes to sleep only when its list is empty, although the search *)
(* never returns to the head of the list after an expired job (jobs.cc:32: *)
(* "no need to do: it = jobs_.begin()").                                   *)
SleepOnlyWhenIdle ==
  [][\A w \in Workers : FetchNone(w) => Used(jobs[w]) = {}]_vars

(* As long as clients stay, the server exits only for want of descriptors: *)
(* no stale job closes the number accept has just handed out before        *)
(* setnonblocking uses it (server.cc:105-112, 155-158).                    *)
ExitsOnlyFull == [][Quiet /\ Alive /\ ~Alive' => FreeFds = {}]_vars

(* As long as clients stay, only a job that has waited too long closes a   *)
(* connection with its message unread (jobs.cc:42-46): no other job, and   *)
(* no event of the connection that had the number before, ever does.       *)
LostOnlyToTime ==
  [][Quiet => \A c \in unread :
       conn[c] = "open" /\ conn'[c] = "closed" => \E w \in Workers : FetchExpire(w)]_vars

(* No connection is forgotten: what was accepted and has sent has an event *)
(* on its way, a job with some worker, or was refused by a full list.      *)
OnItsWay(f) ==
  \/ f \in ready
  \/ \E e \in events : e.fd = f
  \/ main \in {"nonblock", "add"} /\ cur = f
  \/ main = "inject" /\ cur = f
  \/ \E w \in Workers :
       f \in Held(w) \/ (wpc[w] = "close" /\ job[w] = f)

NotForgotten ==
  \A f \in Fds : fdtab[f] \in sent => OnItsWay(f) \/ fdtab[f] \in refused

=============================================================================
