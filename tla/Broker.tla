-------------------------------- MODULE Broker --------------------------------
(***************************************************************************)
(* The life of the iris event broker inside Icinga (broker.c, and net_bind,*)
(* net_poller, client_init and client_deinit of iris.c).  Icinga loads the *)
(* module, starts its event loop, ends it and unloads the module, and on a *)
(* reload does all of it again in the same process.  iris_hook starts a    *)
(* daemon thread for each event loop; the threads share the globals        *)
(* sockfd, epfd, CLIENTS and NUM_CLIENTS.                                  *)
(*                                                                         *)
(* The n-th thread is n, and so are the listening socket, the epoll        *)
(* instance and the client table it makes.  0 is a global's value before   *)
(* anything is assigned to it: descriptor 0, or a null pointer.            *)
(***************************************************************************)
EXTENDS Integers, FiniteSets

CONSTANTS
  Conn,                 \* connections senders may make
  max_clients,          \* slots of a client table
  MaxStarts,            \* bound: event loops that are started
  WHIMP_OUT_ON_RELOAD,  \* is EVENTLOOPEND compiled to do nothing? (it is)
  ConfigMayFail,        \* may the configuration file be unreadable or wrong?
  StartMayFail,         \* may pthread_create, calloc, bind or epoll fail?
  EndsWhileStarting     \* may Icinga end a loop before its daemon is ready?

ASSUME BoundAssumption == MaxStarts \in Nat /\ max_clients \in Nat
ASSUME FlagAssumption ==
  {WHIMP_OUT_ON_RELOAD, ConfigMayFail, StartMayFail, EndsWhileStarting}
    \subseteq BOOLEAN
\* What is compiled out is modelled for starts that succeed.
ASSUME ShutDownAssumption == ~WHIMP_OUT_ON_RELOAD => ~StartMayFail

VARIABLES
  icinga,      \* "down", "loaded", "running", "ended", or "dead": the process
  registered,  \* is iris_hook registered for PROCESS_DATA?
  starts,      \* threads that were created
  pc,          \* pc[t]: where the daemon thread t is
  tid, sockfd, epfd, CLIENTS, NUM_CLIENTS,   \* the globals
  listening,   \* listening sockets that are open
  polling,     \* epoll instances that are open
  conns,       \* connections that are open
  table,       \* table[t]: connections with a slot in the t-th client table
  misclosed    \* history: close was called on what was not the broker's

globals == <<tid, sockfd, epfd, CLIENTS, NUM_CLIENTS>>
kernel == <<listening, polling, conns>>
vars == <<icinga, registered, starts, pc, globals, kernel, table, misclosed>>

Thread == 1 .. MaxStarts
Alive == icinga # "dead"

Init ==
  /\ icinga = "down" /\ registered = FALSE
  /\ starts = 0 /\ pc = [t \in Thread |-> "none"]
  /\ tid = 0 /\ sockfd = 0 /\ epfd = 0 /\ CLIENTS = 0 /\ NUM_CLIENTS = 0
  /\ listening = {} /\ polling = {} /\ conns = {}
  /\ table = [t \in Thread |-> {}]
  /\ misclosed = FALSE

-----------------------------------------------------------------------------
(***************************************************************************)
(* What Icinga's main thread does, and what the module does in return.     *)
(***************************************************************************)
(* If the callback cannot be registered Icinga drops the module: no step.  *)
nebmodule_init ==
  /\ icinga = "down" /\ starts < MaxStarts
  /\ icinga' = "loaded" /\ registered' = TRUE
  /\ UNCHANGED <<starts, pc, globals, kernel, table, misclosed>>

(* iris_hook, EVENTLOOPSTART: a thread is created, or silently is not.     *)
EventLoopStart ==
  /\ icinga = "loaded" /\ registered
  /\ icinga' = "running"
  /\ starts' = starts + 1
  /\ \/ /\ pc' = [pc EXCEPT ![starts + 1] = "config"]
        /\ tid' = starts + 1
     \/ /\ StartMayFail
        /\ UNCHANGED <<pc, tid>>
  /\ UNCHANGED <<registered, sockfd, epfd, CLIENTS, NUM_CLIENTS>>
  /\ UNCHANGED <<kernel, table, misclosed>>

(* client_deinit closes every descriptor that is in the table. *)
NoneClosed == {}           \* a plausible bug: client_deinit is not called
deinit_closes == IF CLIENTS = 0 THEN {} ELSE table[CLIENTS]
KeptOpen(d, S) == S        \* a plausible bug: the descriptor is not closed
closed(d, S) == S \ {d}

(* iris_hook, EVENTLOOPEND as it is built: nothing is done. *)
WhimpOut ==
  /\ WHIMP_OUT_ON_RELOAD
  /\ UNCHANGED <<pc, kernel, misclosed>>

(* The same without WHIMP_OUT_ON_RELOAD: the thread is cancelled and       *)
(* joined, and the clients and the globals sockfd and epfd are closed.     *)
ShutDown ==
  /\ ~WHIMP_OUT_ON_RELOAD
  /\ pc' = [t \in Thread |-> IF t = tid THEN "gone" ELSE pc[t]]
  /\ conns' = conns \ deinit_closes
  /\ listening' = closed(sockfd, listening)
  /\ polling' = closed(epfd, polling)
  /\ misclosed' = (misclosed \/ sockfd \notin listening \/ epfd \notin polling
                    \/ ~(deinit_closes \subseteq conns))

EventLoopEnd ==
  /\ icinga = "running" /\ registered
  /\ EndsWhileStarting \/ (tid # 0 /\ pc[tid] = "loop")
  /\ icinga' = "ended"
  /\ WhimpOut \/ ShutDown
  /\ UNCHANGED <<registered, starts, globals, table>>

nebmodule_deinit ==
  /\ icinga = "ended"
  /\ icinga' = "down" /\ registered' = FALSE
  /\ UNCHANGED <<starts, pc, globals, kernel, table, misclosed>>

Icinga == nebmodule_init \/ EventLoopStart \/ EventLoopEnd \/ nebmodule_deinit

-----------------------------------------------------------------------------
(***************************************************************************)
(* iris_daemon, the body of thread t.                                      *)
(***************************************************************************)
At(t, label) == Alive /\ pc[t] = label

\* a plausible bug: iris_daemon returns, which ends the thread that starts
\* and leaves the one that serves
ReturnNull ==
  /\ pc' = [t \in Thread |-> IF pc[t] = "loop" THEN "loop" ELSE "gone"]
  /\ UNCHANGED <<icinga, kernel>>

(* exit(2), or a crash: the whole process ends, and its descriptors with it. *)
Exit ==
  /\ icinga' = "dead"
  /\ pc' = [t \in Thread |-> "gone"]
  /\ listening' = {} /\ polling' = {} /\ conns' = {}

Goto(t, label) == pc' = [pc EXCEPT ![t] = label]

\* plausible bugs: client_init left out; net_poller left out; NUM_CLIENTS
\* set to what client_init returns; a port that several sockets may listen on
SkipInit == "bind"
SkipPoller == "loop"
ReturnedCount == -1
PortShared == FALSE

AfterConfig == "init"
AfterBind == "poller"
CountWithoutMemory == NUM_CLIENTS

(* The configuration file is missing or read; a wrong one ends Icinga.     *)
ReadConfig(t) ==
  /\ At(t, "config")
  /\ \/ Goto(t, AfterConfig) /\ UNCHANGED <<icinga, kernel>>
     \/ ConfigMayFail /\ Exit
  /\ UNCHANGED <<registered, starts, globals, table, misclosed>>

(* client_init, whose result is only logged: without memory CLIENTS is     *)
(* null and NUM_CLIENTS keeps its value.                                   *)
client_init(t) ==
  /\ At(t, "init")
  /\ \/ CLIENTS' = t /\ NUM_CLIENTS' = max_clients
     \/ StartMayFail /\ CLIENTS' = 0 /\ NUM_CLIENTS' = CountWithoutMemory
  /\ Goto(t, "bind")
  /\ UNCHANGED <<icinga, registered, starts, tid, sockfd, epfd>>
  /\ UNCHANGED <<kernel, table, misclosed>>

(* net_bind: SO_REUSEADDR does not help while somebody listens. *)
PortTaken == listening # {}

net_bind(t) ==
  /\ At(t, "bind")
  /\ \/ /\ ~PortTaken
        /\ sockfd' = t /\ listening' = listening \cup {t}
        /\ Goto(t, AfterBind)
        /\ UNCHANGED <<icinga, polling, conns>>
     \/ (PortTaken \/ StartMayFail) /\ sockfd' = -1 /\ Exit
  /\ UNCHANGED <<registered, starts, tid, epfd, CLIENTS, NUM_CLIENTS>>
  /\ UNCHANGED <<table, misclosed>>

(* net_poller: an epoll instance for the global sockfd. *)
net_poller(t) ==
  /\ At(t, "poller")
  /\ \/ /\ epfd' = t /\ polling' = polling \cup {t}
        /\ Goto(t, "loop")
        /\ UNCHANGED <<icinga, listening, conns>>
     \/ StartMayFail /\ epfd' = -1 /\ Exit
  /\ UNCHANGED <<registered, starts, tid, sockfd, CLIENTS, NUM_CLIENTS>>
  /\ UNCHANGED <<table, misclosed>>

(* A null CLIENTS with an old NUM_CLIENTS: clients_purge, client_find and  *)
(* so recv_data, client_new and client_close all go through it.            *)
NullTable == CLIENTS = 0 /\ NUM_CLIENTS > 0
New(c) == c \notin conns /\ \A u \in Thread : c \notin table[u]

(* mainloop, as far as it opens and closes connections: a new one gets a   *)
(* slot of the table CLIENTS points to now, or none when that is full.     *)
Accept(t, c) ==
  /\ At(t, "loop") /\ t \in listening
  /\ New(c) /\ ~NullTable
  /\ conns' = conns \cup {c}
  /\ table' = IF CLIENTS # 0 /\ Cardinality(table[CLIENTS]) < NUM_CLIENTS
                THEN [table EXCEPT ![CLIENTS] = @ \cup {c}]
                ELSE table
  /\ UNCHANGED <<icinga, registered, starts, pc, globals>>
  /\ UNCHANGED <<listening, polling, misclosed>>

(* The next event of any connection, new or open, is then the last.        *)
Crash(t) ==
  /\ At(t, "loop") /\ t \in listening /\ NullTable
  /\ \E c \in Conn : New(c) \/ c \in conns
  /\ Exit
  /\ UNCHANGED <<registered, starts, globals, table, misclosed>>

(* client_close finds a connection only in the current table. *)
Close(t, c) ==
  /\ At(t, "loop") /\ CLIENTS # 0 /\ c \in table[CLIENTS]
  /\ conns' = conns \ {c}
  /\ table' = [table EXCEPT ![CLIENTS] = @ \ {c}]
  /\ UNCHANGED <<icinga, registered, starts, pc, globals>>
  /\ UNCHANGED <<listening, polling, misclosed>>

iris_daemon(t) ==
  \/ ReadConfig(t) \/ client_init(t) \/ net_bind(t) \/ net_poller(t)
  \/ Crash(t)
  \/ \E c \in Conn : Accept(t, c) \/ Close(t, c)

Next == Icinga \/ \E t \in Thread : iris_daemon(t)

Starting(t) == ReadConfig(t) \/ client_init(t) \/ net_bind(t) \/ net_poller(t)

(* Threads are scheduled; Icinga and the senders do as they please.        *)
Spec == Init /\ [][Next]_vars /\ \A t \in Thread : WF_vars(Starting(t))

-----------------------------------------------------------------------------
TypeOK ==
  /\ icinga \in {"down", "loaded", "running", "ended", "dead"}
  /\ registered \in BOOLEAN /\ misclosed \in BOOLEAN
  /\ starts \in 0 .. MaxStarts /\ tid \in 0 .. MaxStarts
  /\ pc \in [Thread -> {"none", "config", "init", "bind", "poller", "loop", "gone"}]
  /\ sockfd \in -1 .. MaxStarts /\ epfd \in -1 .. MaxStarts
  /\ CLIENTS \in 0 .. MaxStarts /\ NUM_CLIENTS \in Nat
  /\ listening \subseteq Thread /\ polling \subseteq Thread
  /\ conns \subseteq Conn
  /\ table \in [Thread -> SUBSET Conn]

(* A thread enters mainloop only when the client table, the listening      *)
(* socket and the epoll instance it needs are all there, and its own.      *)
LoopReady ==
  \A t \in Thread : pc[t] = "loop" =>
    CLIENTS = t /\ sockfd = t /\ epfd = t /\ t \in listening /\ t \in polling

(* Two daemon threads never serve at the same time: they would share one   *)
(* client table that has no lock.                                          *)
ServesAlone ==
  \A t, u \in Thread : pc[t] = "loop" /\ pc[u] = "loop" => t = u

(* A reload does not end Icinga (rpm.spec, 1.1.5: "Fix deinit problems, to *)
(* avoid failure on reload / SIGHUP").                                     *)
ReloadSurvives == Alive

(* After EVENTLOOPEND no client connection is open (rpm.spec, 1.1.6:       *)
(* "Close client connections and dealloc memory on EVENTLOOPEND").         *)
EndClosesClients == icinga \in {"ended", "down"} => conns = {}

(* The broker closes its own open descriptors only: never one that is not  *)
(* yet, or no longer, its own.                                             *)
ClosesOwn == ~misclosed

(* A connection whose slot is in a table that CLIENTS no longer points to  *)
(* is known to nobody: recv_data ignores it, and neither its end nor its   *)
(* deadline closes it.  client_init of a second daemon does this to every  *)
(* client of the one that serves.                                          *)
CutOff(c) == c \in conns /\ \E t \in Thread : c \in table[t] /\ CLIENTS # t

(* Clients are cut off only by a daemon whose net_bind is still to come    *)
(* and must find the port taken: the process that cuts them off is about   *)
(* to call exit(2).                                                        *)
CutOffDoomed ==
  (\E c \in Conn : CutOff(c)) => PortTaken /\ \E t \in Thread : pc[t] = "bind"

(* So no connection stays cut off: the end of the process closes it, and   *)
(* its sender is told.                                                     *)
CutOffEnds == \A c \in Conn : CutOff(c) ~> (c \notin conns)
=============================================================================
