------------------------------- MODULE Daemon -------------------------------
(***************************************************************************)
(* One start of the daemon thread, iris_daemon of broker.c up to mainloop: *)
(* the configuration, client_init, net_bind and net_poller of iris.c.      *)
(*                                                                         *)
(* The thread shares the descriptors of the process with the other threads *)
(* of Icinga, the strangers, who open and close descriptors of their own.  *)
(***************************************************************************)
EXTENDS Config

CONSTANTS
  FDs,       \* descriptors are 0 .. FDs - 1
  MaxAddrs,  \* addresses that getaddrinfo may return
  Slots,     \* slots that calloc can provide
  Strangers  \* what strangers open: "file"; "stream", a socket to be connected

ASSUME DaemonAssumption == FDs \in Nat /\ MaxAddrs \in Nat \ {0} /\ Slots \in Nat
ASSUME StrangerAssumption == Strangers \cap {"free", "listener"} = {}

VARIABLES
  pc,           \* "config", "clients", "resolve", "bind", "nonblocking",
                \* "close_on_exec", "listen", "fail", "poller", "loop", "dead"
  NUM_CLIENTS,
  left,         \* addresses not tried yet
  fd,           \* net_bind's fd, which is also what it returns
  used,         \* used[f]: "free", "listener", or a stranger's
  nonblock,     \* descriptors with O_NONBLOCK
  listening,    \* descriptors on which listen succeeded
  bound,        \* history: did a bind succeed?
  harmed        \* history: was a stranger's descriptor changed or closed?

bindVars == <<left, fd, used, nonblock, listening, bound, harmed>>
vars == <<configVars, pc, NUM_CLIENTS, bindVars>>

FD == 0 .. FDs - 1
Free == {f \in FD : used[f] = "free"}
Lowest(f) == f \in Free /\ \A g \in Free : f <= g  \* what the kernel gives out
Open(f) == f \in FD /\ used[f] # "free"
Mine(f) == used[f] = "listener"

Init ==
  /\ ConfigInit
  /\ pc = "config" /\ NUM_CLIENTS = 0
  /\ left = 0 /\ fd = -1 /\ used = [f \in FD |-> "free"]
  /\ nonblock = {} /\ listening = {} /\ bound = FALSE /\ harmed = FALSE

-----------------------------------------------------------------------------
Configure ==
  /\ pc = "config"
  /\ ParseLine \/ ParseEnd
  /\ UNCHANGED <<pc, NUM_CLIENTS, bindVars>>

(* There is no file, and the defaults stand; or it cannot be opened. *)
SkipConfig ==
  /\ pc = "config" /\ file = <<>> /\ rc = -1
  /\ pc' \in {"clients", "dead"}
  /\ UNCHANGED <<configVars, NUM_CLIENTS, bindVars>>

Configured ==
  /\ pc = "config" /\ rc # -1
  /\ pc' = IF rc = 0 THEN "clients" ELSE "dead"
  /\ UNCHANGED <<configVars, NUM_CLIENTS, bindVars>>

(* calloc takes a negative count for a huge one; its failure is logged and *)
(* forgotten.                                                              *)
client_init ==
  /\ pc = "clients"
  /\ pc' = "resolve"
  /\ LET n == int(server.max_clients) IN
       NUM_CLIENTS' = IF 0 <= n /\ n <= Slots THEN n ELSE 0
  /\ UNCHANGED <<configVars, bindVars>>

-----------------------------------------------------------------------------
(* net_bind. *)
getaddrinfo ==
  /\ pc = "resolve"
  /\ \/ pc' = "dead" /\ UNCHANGED left
     \/ pc' = "bind" /\ left' \in 1 .. MaxAddrs
  /\ UNCHANGED <<configVars, NUM_CLIENTS, fd, used, nonblock, listening, bound, harmed>>

\* a plausible bug: a bound socket does not end the search
NoBreak(more) == more

(* Is there another turn, after a bind that succeeded? *)
Continues(more) == FALSE

AfterTry(more) == IF more THEN "bind" ELSE "nonblocking"

(* One turn of the loop.  socket or setsockopt fails; or bind does, and fd *)
(* keeps the number of the socket that is closed; or bind succeeds.        *)
NoSocket ==
  /\ pc = "bind"
  /\ fd' = -1
  /\ left' = left - 1 /\ pc' = AfterTry(left > 1)
  /\ UNCHANGED <<configVars, NUM_CLIENTS, used, nonblock, listening, bound, harmed>>

NotBound ==
  /\ pc = "bind"
  /\ \E f \in FD : Lowest(f) /\ fd' = f
  /\ left' = left - 1 /\ pc' = AfterTry(left > 1)
  /\ UNCHANGED <<configVars, NUM_CLIENTS, used, nonblock, listening, bound, harmed>>

Bound ==
  /\ pc = "bind"
  /\ \E f \in FD : Lowest(f) /\ fd' = f /\ used' = [used EXCEPT ![f] = "listener"]
  /\ bound' = TRUE
  /\ left' = left - 1 /\ pc' = AfterTry(Continues(left > 1))
  /\ UNCHANGED <<configVars, NUM_CLIENTS, nonblock, listening, harmed>>

(* fcntl fails on a descriptor that is not open, and on no other. *)
Nonblocking ==
  /\ pc = "nonblocking"
  /\ IF Open(fd)
     THEN pc' = "close_on_exec" /\ nonblock' = nonblock \cup {fd} /\ harmed' = (harmed \/ ~Mine(fd))
     ELSE pc' = "fail" /\ UNCHANGED <<nonblock, harmed>>
  /\ UNCHANGED <<configVars, NUM_CLIENTS, left, fd, used, listening, bound>>

(* F_SETFL does not know FD_CLOEXEC: nothing is set. *)
CloseOnExec ==
  /\ pc = "close_on_exec"
  /\ pc' = IF Open(fd) THEN "listen" ELSE "fail"
  /\ UNCHANGED <<configVars, NUM_CLIENTS, bindVars>>

Listen ==
  /\ pc = "listen"
  /\ \/ /\ Open(fd) /\ used[fd] \in {"listener", "stream"}
        /\ pc' = "poller" /\ listening' = listening \cup {fd}
        /\ harmed' = (harmed \/ ~Mine(fd))
     \/ pc' = "fail" /\ UNCHANGED <<listening, harmed>>
  /\ UNCHANGED <<configVars, NUM_CLIENTS, left, fd, used, nonblock, bound>>

(* close(fd), for a second time perhaps; then iris_daemon exits. *)
Fail ==
  /\ pc = "fail"
  /\ pc' = "dead"
  /\ IF Open(fd)
     THEN used' = [used EXCEPT ![fd] = "free"] /\ harmed' = (harmed \/ ~Mine(fd))
     ELSE UNCHANGED <<used, harmed>>
  /\ UNCHANGED <<configVars, NUM_CLIENTS, left, fd, nonblock, listening, bound>>

-----------------------------------------------------------------------------
net_poller ==
  /\ pc = "poller"
  /\ \/ pc' = "loop" /\ Open(fd)
     \/ pc' = "dead"
  /\ UNCHANGED <<configVars, NUM_CLIENTS, bindVars>>

StrangerOpens ==
  /\ pc \in {"bind", "nonblocking", "close_on_exec", "listen", "fail", "poller"}
  /\ \E f \in FD, s \in Strangers : Lowest(f) /\ used' = [used EXCEPT ![f] = s]
  /\ UNCHANGED <<configVars, pc, NUM_CLIENTS, left, fd, nonblock, listening, bound, harmed>>

StrangerCloses ==
  /\ pc \in {"bind", "nonblocking", "close_on_exec", "listen", "fail", "poller"}
  /\ \E f \in FD :
       /\ used[f] \in Strangers
       /\ used' = [used EXCEPT ![f] = "free"]
       /\ nonblock' = nonblock \ {f} /\ listening' = listening \ {f}
  /\ UNCHANGED <<configVars, pc, NUM_CLIENTS, left, fd, bound, harmed>>

Next ==
  \/ Configure \/ SkipConfig \/ Configured \/ client_init
  \/ getaddrinfo \/ NoSocket \/ NotBound \/ Bound
  \/ Nonblocking \/ CloseOnExec \/ Listen \/ Fail \/ net_poller
  \/ StrangerOpens \/ StrangerCloses

Spec == Init /\ [][Next]_vars

-----------------------------------------------------------------------------
TypeOK ==
  /\ rc \in -1 .. 5 /\ server.max_clients \in 0 .. 2 ^ Width - 1 /\ MAX_LIFETIME \in Int
  /\ pc \in {"config", "clients", "resolve", "bind", "nonblocking", "close_on_exec", "listen",
             "fail", "poller", "loop", "dead"}
  /\ NUM_CLIENTS \in 0 .. Slots
  /\ left \in 0 .. MaxAddrs /\ fd \in FD \cup {-1}
  /\ used \in [FD -> Strangers \cup {"free", "listener"}]
  /\ nonblock \subseteq FD /\ listening \subseteq FD
  /\ bound \in BOOLEAN /\ harmed \in BOOLEAN

(* A file without overlong lines is accepted exactly if each entry is a    *)
(* comment, blank, or a directive, a space, "=" and a value (a number for  *)
(* the two that want one), and then the last entry for a directive counts  *)
(* (t/60-config.t.c).                                                      *)
ConfigMeans ==
  rc # -1 /\ (\A n \in DOMAIN file : Len(Written(file[n])) <= MaxBuf) =>
    /\ rc = 0 <=> \A n \in DOMAIN file : Ignored(file[n]) \/ Accepted(file[n])
    /\ rc = 0 => /\ \A name \in DOMAIN server : server[name] = Meaning(name)
                 /\ MAX_LIFETIME = server.max_lifetime

(* The loop runs with the slots that the file asks for, if that is an int  *)
(* and memory allows; else with none, or with what uint32_t leaves of it.  *)
Asked ==
  IF Setter("max_clients") = 0 THEN Numbers["16384"] ELSE strtol(file[Setter("max_clients")].value)
TableAsConfigured ==
  pc = "loop" /\ (\A n \in DOMAIN file : Len(Written(file[n])) <= MaxBuf) =>
    /\ 0 <= Asked /\ Asked < 2 ^ (Width - 1) /\ Asked <= Slots => NUM_CLIENTS = Asked
    /\ NUM_CLIENTS \in {0, Asked % 2 ^ Width}

(* Once an address could be bound, the loop runs on a socket of the        *)
(* daemon's own that listens and does not block.                           *)
OwnListener ==
  pc \in {"poller", "loop"} /\ bound => Mine(fd) /\ fd \in listening \cap nonblock

(* No descriptor of a stranger is changed or closed, unless every bind has *)
(* failed.                                                                 *)
HarmOnlyIfNoneBound == harmed => ~bound

(* net_bind fails if every bind does, as t/15-bind.t.c says: "net_bind     *)
(* returns -1 on bind failure".                                            *)
BindFailureReported == pc \in {"poller", "loop"} => bound
=============================================================================
