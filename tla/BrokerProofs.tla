----------------------------- MODULE BrokerProofs -----------------------------
(***************************************************************************)
(* What holds of Broker for every number of starts, slots and connections. *)
(***************************************************************************)
EXTENDS Broker, FiniteSetTheorems, TLAPS

USE BoundAssumption, FlagAssumption, ShutDownAssumption

(* Every step spells out these tuples. *)
USE DEF globals, kernel

-----------------------------------------------------------------------------
(* A module is loaded only while another start is allowed. *)
LoadedBound == icinga = "loaded" => starts < MaxStarts
Typed == TypeOK /\ LoadedBound

LEMMA InitTyped == Init => Typed
<1> SUFFICES ASSUME Init PROVE Typed
  OBVIOUS
<1> USE DEF Init
<1>1. sockfd \in -1 .. MaxStarts /\ epfd \in -1 .. MaxStarts
  OBVIOUS
<1>2. CLIENTS \in 0 .. MaxStarts /\ NUM_CLIENTS \in Nat
  OBVIOUS
<1>3. starts \in 0 .. MaxStarts /\ tid \in 0 .. MaxStarts
  OBVIOUS
<1>4. QED
  BY <1>1, <1>2, <1>3 DEF Typed, TypeOK, LoadedBound

LEMMA IcingaKeepsTyped == ASSUME Typed, Icinga PROVE Typed'
<1> USE DEF Typed, TypeOK, LoadedBound
<1>1. CASE nebmodule_init
  BY <1>1 DEF nebmodule_init
<1>2. CASE EventLoopStart
  BY <1>2 DEF EventLoopStart, Thread
<1>3. CASE EventLoopEnd
  BY <1>3 DEF EventLoopEnd, WhimpOut, ShutDown, closed, deinit_closes
<1>4. CASE nebmodule_deinit
  BY <1>4 DEF nebmodule_deinit
<1>5. QED
  BY <1>1, <1>2, <1>3, <1>4 DEF Icinga

LEMMA ThreadKeepsTyped ==
  ASSUME Typed, NEW t \in Thread, iris_daemon(t) PROVE Typed'
<1> USE DEF Typed, TypeOK, LoadedBound, At, Goto, Exit, Alive
<1>1. CASE ReadConfig(t)
  BY <1>1 DEF ReadConfig, AfterConfig
<1>2. CASE client_init(t)
  BY <1>2 DEF client_init, CountWithoutMemory, Thread
<1>3. CASE net_bind(t)
  <2>1. sockfd' \in -1 .. MaxStarts
    BY <1>3 DEF net_bind, Thread
  <2>2. QED
    BY <1>3, <2>1 DEF net_bind, AfterBind
<1>4. CASE net_poller(t)
  <2>1. epfd' \in -1 .. MaxStarts
    BY <1>4 DEF net_poller, Thread
  <2>2. QED
    BY <1>4, <2>1 DEF net_poller
<1>5. ASSUME NEW c \in Conn, Accept(t, c) PROVE Typed'
  BY <1>5 DEF Accept
<1>6. ASSUME NEW c \in Conn, Close(t, c) PROVE Typed'
  BY <1>6 DEF Close
<1>7. CASE Crash(t)
  BY <1>7 DEF Crash
<1>8. QED
  BY <1>1, <1>2, <1>3, <1>4, <1>5, <1>6, <1>7 DEF iris_daemon

LEMMA NextKeepsTyped == Typed /\ [Next]_vars => Typed'
<1>1. ASSUME Typed, UNCHANGED vars PROVE Typed'
  BY <1>1 DEF vars, Typed, TypeOK, LoadedBound
<1>2. QED
  BY <1>1, IcingaKeepsTyped, ThreadKeepsTyped DEF Next

LEMMA TypedAlways == Spec => []Typed
BY InitTyped, NextKeepsTyped, PTL DEF Spec

(* The globals, the threads and the kernel's state keep their types, for    *)
(* any number of loads.                                                     *)
THEOREM TypeCorrect == Spec => []TypeOK
<1>1. Typed => TypeOK
  BY DEF Typed
<1>2. QED
  BY <1>1, TypedAlways, PTL
-----------------------------------------------------------------------------
(***************************************************************************)
(* One server at a time, in either build.  A thread that got past net_bind *)
(* listens on the socket the global sockfd names, so two of them would be  *)
(* one.  Shutting down closes that socket; it is safe because then every   *)
(* thread that is alive is the one it cancels (LastOnly).                  *)
(***************************************************************************)
Active(t) == pc[t] \notin {"none", "gone"}
Serving(t) == pc[t] \in {"poller", "loop"}

OwnSocket == \A t \in Thread : Serving(t) => sockfd = t /\ t \in listening
LastOnly ==
  ~WHIMP_OUT_ON_RELOAD => \A t \in Thread : Active(t) => t = tid /\ icinga = "running"
Single == OwnSocket /\ LastOnly

LEMMA InitSingle == Init => Single
BY DEF Init, Single, OwnSocket, LastOnly, Active, Serving

LEMMA IcingaKeepsSingle ==
  ASSUME Typed, Single, Icinga PROVE Single'
<1> USE DEF Typed, TypeOK, Single, OwnSocket, LastOnly, Active, Serving
<1>1. CASE nebmodule_init
  BY <1>1 DEF nebmodule_init
<1>2. CASE EventLoopStart
  BY <1>2 DEF EventLoopStart
<1>3. CASE EventLoopEnd
  BY <1>3 DEF EventLoopEnd, WhimpOut, ShutDown, closed
<1>4. CASE nebmodule_deinit
  BY <1>4 DEF nebmodule_deinit
<1>5. QED
  BY <1>1, <1>2, <1>3, <1>4 DEF Icinga

LEMMA ThreadKeepsSingle ==
  ASSUME Typed, Single, NEW t \in Thread, iris_daemon(t) PROVE Single'
<1> USE DEF Typed, TypeOK, Single, OwnSocket, LastOnly, Active, Serving, At, Goto, Exit
<1>1. CASE ReadConfig(t)
  BY <1>1 DEF ReadConfig, AfterConfig
<1>2. CASE client_init(t)
  BY <1>2 DEF client_init
<1>3. CASE net_bind(t)
  BY <1>3 DEF net_bind, AfterBind, PortTaken
<1>4. CASE net_poller(t)
  BY <1>4 DEF net_poller
<1>5. ASSUME NEW c \in Conn, Accept(t, c) PROVE Single'
  BY <1>5 DEF Accept
<1>6. ASSUME NEW c \in Conn, Close(t, c) PROVE Single'
  BY <1>6 DEF Close
<1>7. CASE Crash(t)
  BY <1>7 DEF Crash
<1>8. QED
  BY <1>1, <1>2, <1>3, <1>4, <1>5, <1>6, <1>7 DEF iris_daemon

LEMMA NextKeepsSingle == Typed /\ Single /\ [Next]_vars => Single'
<1>1. ASSUME Single, UNCHANGED vars PROVE Single'
  BY <1>1 DEF vars, Single, OwnSocket, LastOnly, Active, Serving
<1>2. QED
  BY <1>1, IcingaKeepsSingle, ThreadKeepsSingle DEF Next

LEMMA SingleAlways == Spec => []Single
BY InitSingle, NextKeepsSingle, TypedAlways, PTL DEF Spec

(* Two daemon threads never run mainloop at the same time, however often    *)
(* Icinga reloads and whatever fails while a thread starts.                 *)
THEOREM ServesAloneCorrect == Spec => []ServesAlone
<1>1. Single => ServesAlone
  BY DEF Single, OwnSocket, Serving, ServesAlone
<1>2. QED
  BY <1>1, SingleAlways, PTL

-----------------------------------------------------------------------------
(***************************************************************************)
(* The program as built.  A daemon that serves is never stopped, so that   *)
(* every open connection has a thread that serves it (Served), and it      *)
(* listens: each later net_bind finds the port taken.  A table that is     *)
(* replaced under its connections was replaced by a thread that is still   *)
(* before that call (Replaced).                                            *)
(***************************************************************************)
LaterIdle == \A t \in Thread : t > starts => ~Active(t)
Served == conns # {} => \E t \in Thread : pc[t] = "loop"
Replaced == (\E c \in Conn : CutOff(c)) => \E t \in Thread : pc[t] = "bind"
AsBuilt == LaterIdle /\ Served /\ Replaced

LEMMA IcingaKeepsAsBuilt ==
  ASSUME WHIMP_OUT_ON_RELOAD, Typed, AsBuilt, Icinga PROVE AsBuilt'
<1> USE DEF Typed, TypeOK, AsBuilt, LaterIdle, Served, Replaced, CutOff, Active
<1>1. UNCHANGED <<CLIENTS, conns, table>>
  BY DEF Icinga, nebmodule_init, EventLoopStart, EventLoopEnd, WhimpOut, ShutDown,
         nebmodule_deinit
<1>2. UNCHANGED <<pc, starts>> \/ EventLoopStart
  BY DEF Icinga, nebmodule_init, EventLoopEnd, WhimpOut, ShutDown, nebmodule_deinit
<1>3. CASE UNCHANGED <<pc, starts>>
  BY <1>1, <1>3
<1>4. CASE EventLoopStart
  <2>1. starts' = starts + 1 /\ starts + 1 \in Thread
    BY <1>4 DEF EventLoopStart, LoadedBound, Thread
  <2>2. \A t \in Thread : pc'[t] = pc[t] \/ (t = starts + 1 /\ pc'[t] = "config")
    BY <1>4 DEF EventLoopStart
  <2>3. \A t \in Thread : Active(t) => pc'[t] = pc[t]
    BY <2>1, <2>2 DEF Thread
  <2>4. LaterIdle'
    BY <2>1, <2>2 DEF Thread
  <2>5. QED
    BY <1>1, <2>3, <2>4
<1>5. QED
  BY <1>2, <1>3, <1>4

LEMMA ThreadKeepsAsBuilt ==
  ASSUME Typed, Single, AsBuilt, NEW t \in Thread, iris_daemon(t) PROVE AsBuilt'
<1> USE DEF Typed, TypeOK, AsBuilt, LaterIdle, Served, Replaced, CutOff, Active, At, Goto
<1>1. ASSUME Exit, UNCHANGED starts PROVE AsBuilt'
  BY <1>1 DEF Exit
<1>2. CASE ReadConfig(t)
  BY <1>1, <1>2 DEF ReadConfig, AfterConfig
<1>3. CASE client_init(t)
  BY <1>3 DEF client_init
<1>4. CASE net_bind(t)
  <2>1. CASE Exit
    BY <1>1, <1>4, <2>1 DEF net_bind
  <2>2. CASE ~PortTaken
    <3>1. conns = {}
      BY <2>2 DEF PortTaken, Single, OwnSocket, Serving
    <3>2. QED
      BY <1>1, <1>4, <3>1 DEF net_bind, AfterBind
  <2>3. QED
    BY <1>4, <2>1, <2>2 DEF net_bind
<1>5. CASE net_poller(t)
  BY <1>1, <1>5 DEF net_poller
<1>6. ASSUME NEW c \in Conn, Accept(t, c) PROVE AsBuilt'
  <2>1. \A u \in Thread : u # CLIENTS => table'[u] = table[u]
    BY <1>6 DEF Accept
  <2>2. \A u \in Thread : c \notin table[u]
    BY <1>6 DEF Accept, New
  <2>3. \A d \in Conn : CutOff(d)' => CutOff(d)
    BY <1>6, <2>1, <2>2 DEF Accept
  <2>4. QED
    BY <1>6, <2>3 DEF Accept
<1>7. ASSUME NEW c \in Conn, Close(t, c) PROVE AsBuilt'
  <2>1. \A u \in Thread : table'[u] \subseteq table[u]
    BY <1>7 DEF Close
  <2>2. QED
    BY <1>7, <2>1 DEF Close
<1>8. CASE Crash(t)
  BY <1>1, <1>8 DEF Crash
<1>9. QED
  BY <1>2, <1>3, <1>4, <1>5, <1>6, <1>7, <1>8 DEF iris_daemon

(* As built, clients lose their table only to a daemon that is about to     *)
(* find the port taken and end Icinga (iris.c:651, broker.c:110-118), for   *)
(* any number of reloads and whatever fails.                                *)
THEOREM CutOffDoomedCorrect ==
  ASSUME WHIMP_OUT_ON_RELOAD PROVE Spec => []CutOffDoomed
<1>1. Init => AsBuilt
  BY DEF Init, AsBuilt, LaterIdle, Served, Replaced, CutOff, Active
<1>2. Typed /\ Single /\ AsBuilt /\ [Next]_vars => AsBuilt'
  <2>1. ASSUME AsBuilt, UNCHANGED vars PROVE AsBuilt'
    BY <2>1 DEF vars, AsBuilt, LaterIdle, Served, Replaced, CutOff, Active
  <2>2. QED
    BY <2>1, IcingaKeepsAsBuilt, ThreadKeepsAsBuilt DEF Next
<1>3. Single /\ AsBuilt => CutOffDoomed
  BY DEF Single, OwnSocket, Serving, AsBuilt, Served, Replaced, CutOff, CutOffDoomed,
         PortTaken
<1>4. QED
  BY <1>1, <1>2, <1>3, TypedAlways, SingleAlways, PTL DEF Spec

-----------------------------------------------------------------------------
(***************************************************************************)
(* The shut-down code.  With it a start finds nothing of the one before:   *)
(* nobody listens unless a thread serves (QuietPort), the globals belong   *)
(* to the thread that has assigned them (OwnGlobals), its table starts     *)
(* empty (FreshTable) and holds open connections only (OpenTable).         *)
(***************************************************************************)
QuietPort == \A u \in listening : Serving(u)
OwnGlobals ==
  \A t \in Thread :
    /\ pc[t] \in {"bind", "poller", "loop"} => CLIENTS = t
    /\ pc[t] = "loop" => epfd = t /\ t \in polling
NotStarted == \A t \in Thread : t > starts => ~Active(t) /\ table[t] = {}
FreshTable ==
  \A t \in Thread : pc[t] \notin {"loop", "gone"} => table[t] = {}
OpenTable == \A t \in Thread : pc[t] = "loop" => table[t] \subseteq conns
Reloadable == QuietPort /\ OwnGlobals /\ NotStarted /\ FreshTable /\ OpenTable
Sane == Typed /\ Single

LEMMA InitReloadable == Init => Reloadable
BY DEF Init, Reloadable, QuietPort, OwnGlobals, NotStarted, FreshTable, OpenTable, Active,
       Serving, Thread

LEMMA IcingaKeepsReloadable ==
  ASSUME ~WHIMP_OUT_ON_RELOAD, Sane, Reloadable, Icinga PROVE Reloadable'
<1> USE DEF Sane, Typed, TypeOK, Single, LastOnly, Active, Reloadable, QuietPort,
            OwnGlobals, NotStarted, FreshTable, OpenTable, Serving
<1>1. CASE nebmodule_init
  BY <1>1 DEF nebmodule_init
<1>2. CASE EventLoopStart
  <2>1. ~StartMayFail /\ starts + 1 \in Thread /\ table[starts + 1] = {}
    BY <1>2 DEF EventLoopStart, LoadedBound, Thread
  <2>2. pc' = [pc EXCEPT ![starts + 1] = "config"] /\ starts' = starts + 1
    BY <1>2, <2>1 DEF EventLoopStart
  <2>3. UNCHANGED <<sockfd, epfd, CLIENTS, listening, polling, conns, table>>
    BY <1>2 DEF EventLoopStart
  <2>4. \A t \in Thread : pc'[t] = pc[t] \/ (t = starts + 1 /\ pc'[t] = "config")
    BY <2>1, <2>2
  <2>5. NotStarted'
    BY <2>1, <2>2, <2>3 DEF Thread
  <2>6. QuietPort'
    <3>1. \A t \in Thread : ~Active(t)
      BY <1>2 DEF EventLoopStart
    <3>2. QED
      BY <2>3, <3>1
  <2>7. OwnGlobals' /\ OpenTable'
    BY <2>3, <2>4
  <2>8. FreshTable'
    BY <2>1, <2>3, <2>4
  <2>9. QED
    BY <2>5, <2>6, <2>7, <2>8
<1>3. CASE EventLoopEnd
  <2>1. ShutDown /\ UNCHANGED <<starts, globals, table>>
    BY <1>3 DEF EventLoopEnd, WhimpOut
  <2>2. \A t \in Thread : pc'[t] \in {"none", "gone"}
    BY <2>1 DEF ShutDown
  <2>3. listening' = {}
    BY <2>1 DEF ShutDown, closed, OwnSocket
  <2>4. NotStarted'
    BY <2>1 DEF ShutDown, Thread
  <2>5. FreshTable'
    BY <2>1, <2>2 DEF ShutDown
  <2>6. QED
    BY <2>2, <2>3, <2>4, <2>5
<1>4. CASE nebmodule_deinit
  BY <1>4 DEF nebmodule_deinit
<1>5. QED
  BY <1>1, <1>2, <1>3, <1>4 DEF Icinga

LEMMA ThreadKeepsReloadable ==
  ASSUME ~WHIMP_OUT_ON_RELOAD, Sane, Reloadable, NEW t \in Thread, iris_daemon(t)
  PROVE  Reloadable'
<1> USE DEF Sane, Typed, TypeOK, Single, LastOnly, Active, Reloadable, QuietPort,
            OwnGlobals, NotStarted, FreshTable, OpenTable, Serving, At, Goto
<1>1. \A u \in Thread : Active(u) /\ Active(t) => u = t
  OBVIOUS
<1>2. ASSUME Exit, UNCHANGED <<starts, table>>, Active(t) PROVE Reloadable'
  BY <1>2 DEF Exit, Thread
<1>3. CASE ReadConfig(t)
  BY <1>2, <1>3 DEF ReadConfig, AfterConfig
<1>4. CASE client_init(t)
  BY <1>1, <1>4 DEF client_init
<1>5. CASE net_bind(t)
  BY <1>1, <1>2, <1>5 DEF net_bind, AfterBind
<1>6. CASE net_poller(t)
  BY <1>1, <1>2, <1>6 DEF net_poller
<1>7. ASSUME NEW c \in Conn, Accept(t, c) PROVE Reloadable'
  BY <1>1, <1>2, <1>7 DEF Accept
<1>8. ASSUME NEW c \in Conn, Close(t, c) PROVE Reloadable'
  BY <1>1, <1>8 DEF Close
<1>9. CASE Crash(t)
  BY <1>2, <1>9 DEF Crash
<1>10. QED
  BY <1>3, <1>4, <1>5, <1>6, <1>7, <1>8, <1>9 DEF iris_daemon

LEMMA NextKeepsReloadable ==
  ASSUME ~WHIMP_OUT_ON_RELOAD
  PROVE  Sane /\ Reloadable /\ [Next]_vars => Reloadable'
<1>1. ASSUME Reloadable, UNCHANGED vars PROVE Reloadable'
  BY <1>1 DEF vars, Reloadable, QuietPort, OwnGlobals, NotStarted, FreshTable,
              OpenTable, Serving, Active
<1>2. QED
  BY <1>1, IcingaKeepsReloadable, ThreadKeepsReloadable DEF Next

LEMMA ReloadableAlways ==
  ASSUME ~WHIMP_OUT_ON_RELOAD PROVE Spec => [](Sane /\ Reloadable)
<1>1. Typed /\ Single => Sane
  BY DEF Sane
<1>2. QED
  BY <1>1, InitReloadable, NextKeepsReloadable, TypedAlways, SingleAlways, PTL DEF Spec

(* With the shut-down code, mainloop is entered only with a client table,   *)
(* a socket and an epoll instance that are open and the thread's own.       *)
THEOREM LoopReadyCorrect ==
  ASSUME ~WHIMP_OUT_ON_RELOAD PROVE Spec => []LoopReady
<1>1. Sane /\ Reloadable => LoopReady
  BY DEF Sane, Single, OwnSocket, Serving, Reloadable, OwnGlobals, LoopReady
<1>2. QED
  BY <1>1, ReloadableAlways, PTL

LEMMA NextKeepsAlive ==
  ASSUME ~WHIMP_OUT_ON_RELOAD, ~ConfigMayFail
  PROVE  Sane /\ Reloadable /\ Alive /\ [Next]_vars => Alive'
<1> SUFFICES ASSUME Sane, Reloadable, Alive, [Next]_vars PROVE Alive'
  OBVIOUS
<1> USE DEF Alive, Sane, Reloadable
<1>1. CASE UNCHANGED vars
  BY <1>1 DEF vars
<1>2. CASE Icinga
  BY <1>2 DEF Icinga, nebmodule_init, EventLoopStart, EventLoopEnd, nebmodule_deinit
<1>3. ASSUME NEW t \in Thread, iris_daemon(t) PROVE Alive'
  <2>1. CASE ReadConfig(t) \/ client_init(t) \/ net_poller(t)
    BY <2>1 DEF ReadConfig, client_init, net_poller
  <2>2. CASE net_bind(t)
    <3>1. ~PortTaken
      BY <2>2 DEF net_bind, At, PortTaken, QuietPort, Serving, Single, LastOnly,
                  Active, Typed, TypeOK
    <3>2. QED
      BY <2>2, <3>1 DEF net_bind
  <2>3. ASSUME NEW c \in Conn, Accept(t, c) \/ Close(t, c) PROVE Alive'
    BY <2>3 DEF Accept, Close
  <2>4. ~Crash(t)
    BY DEF Crash, NullTable, At, OwnGlobals, Thread
  <2>5. QED
    BY <1>3, <2>1, <2>2, <2>3, <2>4 DEF iris_daemon
<1>4. QED
  BY <1>1, <1>2, <1>3 DEF Next

(* With the shut-down code no number of reloads ends Icinga, even if an     *)
(* event loop ends before its daemon is ready.                              *)
THEOREM ReloadSurvivesCorrect ==
  ASSUME ~WHIMP_OUT_ON_RELOAD, ~ConfigMayFail PROVE Spec => []ReloadSurvives
<1>1. Init => Alive
  BY DEF Init, Alive
<1>2. Alive => ReloadSurvives
  BY DEF ReloadSurvives
<1>3. QED
  BY <1>1, <1>2, NextKeepsAlive, ReloadableAlways, PTL DEF Spec

LEMMA NextKeepsClosesOwn ==
  ASSUME ~WHIMP_OUT_ON_RELOAD, ~EndsWhileStarting
  PROVE  Sane /\ Reloadable /\ ClosesOwn /\ [Next]_vars => ClosesOwn'
<1> SUFFICES ASSUME Sane, Reloadable, ClosesOwn, [Next]_vars PROVE ClosesOwn'
  OBVIOUS
<1> USE DEF ClosesOwn
<1>1. CASE EventLoopEnd
  <2>1. tid \in Thread /\ pc[tid] = "loop" /\ ShutDown
    BY <1>1 DEF EventLoopEnd, WhimpOut, Sane, Typed, TypeOK, Thread
  <2>2. /\ sockfd = tid /\ tid \in listening /\ epfd = tid /\ tid \in polling
        /\ CLIENTS = tid /\ table[tid] \subseteq conns
    BY <2>1 DEF Sane, Single, OwnSocket, Serving, Reloadable, OwnGlobals, OpenTable
  <2>3. deinit_closes \subseteq conns
    BY <2>1, <2>2 DEF deinit_closes, Thread
  <2>4. QED
    BY <2>1, <2>2, <2>3 DEF ShutDown
<1>2. CASE UNCHANGED misclosed
  BY <1>2
<1>3. QED
  BY <1>1, <1>2 DEF Next, Icinga, nebmodule_init, EventLoopStart, nebmodule_deinit,
       iris_daemon, ReadConfig, client_init, net_bind, net_poller, Accept, Crash, Close, vars

(* With the shut-down code, an event loop that ends after its daemon was    *)
(* ready closes open descriptors of the broker and no others.               *)
THEOREM ClosesOwnCorrect ==
  ASSUME ~WHIMP_OUT_ON_RELOAD, ~EndsWhileStarting PROVE Spec => []ClosesOwn
<1>1. Init => ClosesOwn
  BY DEF Init, ClosesOwn
<1>2. QED
  BY <1>1, NextKeepsClosesOwn, ReloadableAlways, PTL DEF Spec

-----------------------------------------------------------------------------
(***************************************************************************)
(* Clients at the end of an event loop.  With a slot for every connection  *)
(* each open one is in the table of the thread that serves, and that table *)
(* is the one client_deinit goes through.                                  *)
(***************************************************************************)
Counted ==
  \A t \in Thread : pc[t] \in {"bind", "poller", "loop"} => NUM_CLIENTS = max_clients
Tabled == \A c \in conns : \E t \in Thread : pc[t] = "loop" /\ c \in table[t]
Enough == IsFiniteSet(Conn) /\ Cardinality(Conn) <= max_clients

LEMMA FreeSlot ==
  ASSUME Enough, NEW S \in SUBSET Conn, NEW c \in Conn, c \notin S
  PROVE  Cardinality(S) < max_clients
<1>1. /\ Cardinality(S) <= Cardinality(Conn)
      /\ Cardinality(Conn) = Cardinality(S) => Conn = S
      /\ IsFiniteSet(S)
  BY FS_Subset DEF Enough
<1>2. Cardinality(S) \in Nat /\ Cardinality(Conn) \in Nat
  BY <1>1, FS_CardinalityType DEF Enough
<1>3. QED
  BY <1>1, <1>2 DEF Enough

LEMMA ThreadKeepsTabled ==
  ASSUME ~WHIMP_OUT_ON_RELOAD, Enough, Sane, Reloadable, Counted, Tabled,
         NEW t \in Thread, iris_daemon(t)
  PROVE  Counted' /\ Tabled'
<1> USE DEF Counted, Tabled, At, Goto, Sane, Typed, TypeOK
<1>1. \A u \in Thread : Active(u) /\ Active(t) => u = t
  BY DEF Single, LastOnly
<1>2. ASSUME Exit PROVE Counted' /\ Tabled'
  BY <1>2 DEF Exit
<1>3. CASE ReadConfig(t)
  BY <1>2, <1>3 DEF ReadConfig, AfterConfig
<1>4. CASE client_init(t)
  BY <1>1, <1>4 DEF client_init, Active
<1>5. CASE net_bind(t)
  BY <1>2, <1>5 DEF net_bind, AfterBind
<1>6. CASE net_poller(t)
  BY <1>2, <1>6 DEF net_poller
<1>7. ASSUME NEW c \in Conn, Accept(t, c) PROVE Counted' /\ Tabled'
  <2>1. /\ pc[t] = "loop" /\ CLIENTS = t /\ CLIENTS # 0
        /\ table[t] \in SUBSET Conn /\ c \notin table[t]
    BY <1>7 DEF Accept, New, Reloadable, OwnGlobals, Thread
  <2>2. Cardinality(table[t]) < NUM_CLIENTS
    BY <2>1, FreeSlot
  <2>3. /\ conns' = conns \cup {c} /\ UNCHANGED <<pc, globals>>
        /\ table' = [table EXCEPT ![t] = @ \cup {c}]
    BY <1>7, <2>1, <2>2 DEF Accept
  <2>4. \A u \in Thread : table[u] \subseteq table'[u]
    BY <2>3
  <2>5. c \in table'[t]
    BY <2>3
  <2>6. QED
    BY <2>1, <2>3, <2>4, <2>5
<1>8. ASSUME NEW c \in Conn, Close(t, c) PROVE Counted' /\ Tabled'
  <2>1. /\ pc[t] = "loop" /\ CLIENTS \in Thread
        /\ conns' = conns \ {c} /\ UNCHANGED <<pc, globals>>
        /\ table' = [table EXCEPT ![CLIENTS] = @ \ {c}]
    BY <1>8 DEF Close, Thread
  <2>2. \A u \in Thread, d \in conns' : d \in table[u] => d \in table'[u]
    BY <2>1
  <2>3. QED
    BY <2>1, <2>2
<1>9. CASE Crash(t)
  BY <1>2, <1>9 DEF Crash
<1>10. QED
  BY <1>3, <1>4, <1>5, <1>6, <1>7, <1>8, <1>9 DEF iris_daemon

LEMMA IcingaKeepsTabled ==
  ASSUME ~WHIMP_OUT_ON_RELOAD, Sane, Reloadable, Counted, Tabled, Icinga
  PROVE  Counted' /\ Tabled'
<1> USE DEF Counted, Tabled, Sane, Typed, TypeOK
<1>1. CASE nebmodule_init
  BY <1>1 DEF nebmodule_init
<1>2. CASE EventLoopStart
  <2>1. \A t \in Thread : ~Active(t)
    BY <1>2 DEF EventLoopStart, Single, LastOnly
  <2>2. conns = {}
    BY <2>1 DEF Active
  <2>3. \A t \in Thread : pc'[t] = pc[t] \/ pc'[t] = "config"
    BY <1>2 DEF EventLoopStart
  <2>4. QED
    BY <1>2, <2>2, <2>3 DEF EventLoopStart
<1>3. CASE EventLoopEnd
  <2>1. ShutDown /\ UNCHANGED <<globals, table>>
    BY <1>3 DEF EventLoopEnd, WhimpOut
  <2>2. \A t \in Thread : pc'[t] \in {"none", "gone"}
    BY <2>1 DEF ShutDown, Single, LastOnly, Active
  <2>3. \A c \in conns : c \in deinit_closes
    BY DEF Reloadable, OwnGlobals, deinit_closes, Thread
  <2>4. QED
    BY <2>1, <2>2, <2>3 DEF ShutDown
<1>4. CASE nebmodule_deinit
  BY <1>4 DEF nebmodule_deinit
<1>5. QED
  BY <1>1, <1>2, <1>3, <1>4 DEF Icinga

LEMMA TabledAlways ==
  ASSUME ~WHIMP_OUT_ON_RELOAD, Enough PROVE Spec => []Tabled
<1>1. Init => Counted /\ Tabled
  BY DEF Init, Counted, Tabled
<1>2. Sane /\ Reloadable /\ Counted /\ Tabled /\ [Next]_vars => Counted' /\ Tabled'
  <2>1. ASSUME Counted, Tabled, UNCHANGED vars PROVE Counted' /\ Tabled'
    BY <2>1 DEF vars, Counted, Tabled
  <2>2. QED
    BY <2>1, IcingaKeepsTabled, ThreadKeepsTabled DEF Next
<1>3. QED
  BY <1>1, <1>2, ReloadableAlways, PTL DEF Spec

(* With the shut-down code and a slot for every connection, no client stays *)
(* open when an event loop has ended.                                       *)
THEOREM EndClosesClientsCorrect ==
  ASSUME ~WHIMP_OUT_ON_RELOAD, Enough PROVE Spec => []EndClosesClients
<1>1. Sane /\ Tabled => EndClosesClients
  BY DEF Sane, Single, LastOnly, Active, Tabled, EndClosesClients
<1>2. QED
  BY <1>1, TabledAlways, ReloadableAlways, PTL
=============================================================================
