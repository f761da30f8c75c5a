------------------------------ MODULE EventLoop ------------------------------
(***************************************************************************)
(* The daemon thread of the iris event broker (iris.c): an edge-triggered  *)
(* epoll loop over one listening socket and the client connections, a      *)
(* fixed table of client slots with a deadline each, and recv_data, which  *)
(* reassembles fixed-size PDUs from each connection and submits them.      *)
(*                                                                         *)
(* Around it stand the senders (connect, write, half-close, reset), the    *)
(* clock, and the parts of Linux the loop leans on: the accept queue, the  *)
(* receive queue of each socket, the descriptor numbers, which are reused  *)
(* as soon as they are closed, and epoll's list of ready descriptors,      *)
(* which an EPOLLET event leaves as soon as it is reported.                *)
(***************************************************************************)
EXTENDS Integers, Sequences, FiniteSets

CONSTANTS
  Conn,             \* the connections senders make during the run
  FD,               \* descriptor numbers the process can have for them
  Listener,         \* sockfd
  NoFd,             \* -1, the fd of a free slot
  NoConn,           \* what a closed descriptor refers to
  NoByte,           \* a zeroed byte of a slot's buffer
  NUM_CLIENTS,      \* slots in CLIENTS
  MAX_LIFETIME,     \* ticks of the clock a client may stay
  IRIS_EPOLL_MAXFD, \* events one epoll_wait can return
  PduSize,          \* sizeof(struct pdu)
  Bogus,            \* <<c, k>>: pdu_unpack rejects the k-th PDU of c
  HookResults,      \* what iris_call_recv_data may return after recv_data
  ErrAlone,         \* may epoll report an error without EPOLLIN?
  SetupMayFail,     \* may accept, fcntl or epoll_ctl fail on a connection?
  MaxPdus,          \* bound: PDUs one sender sends
  MaxTime           \* bound: ticks of the clock

ASSUME TableAssumption == NUM_CLIENTS \in Nat /\ MAX_LIFETIME \in Nat
ASSUME FdAssumption == Listener \notin FD /\ NoFd \notin FD /\ NoFd # Listener
ASSUME ConnAssumption == NoConn \notin Conn
ASSUME StreamAssumption == PduSize \in Nat \ {0} /\ Bogus \subseteq Conn \X Nat
ASSUME BoundAssumption == MaxPdus \in Nat /\ MaxTime \in Nat
ASSUME FlagAssumption == ErrAlone \in BOOLEAN /\ SetupMayFail \in BOOLEAN
ASSUME HookAssumption == HookResults \subseteq Int

VARIABLES
  peer,     \* peer[c]: "idle", "open", "eof" (half-closed) or "reset"
  backlog,  \* connections waiting in the accept queue
  wr,       \* wr[c]: bytes of c that reached this host
  rd,       \* rd[c]: bytes of c that read() has returned
  sock,     \* sock[f]: the connection descriptor f refers to
  ready,    \* descriptors on epoll's ready list
  clock,    \* CLOCK_MONOTONIC
  pc,       \* where the daemon thread is
  events,   \* events of the current batch that are still to be dispatched
  cur,      \* the descriptor recv_data works on
  fd, offset, pdu, deadline,  \* the members of CLIENTS[i]
  taken,    \* history: taken[c] PDUs of c were completed
  results,  \* history: PDUs of c given to iris_call_submit_result
  why,      \* history: why the broker closed c, "live" while it has not
  born      \* history: the time c was accepted

netVars == <<peer, backlog, wr, rd, sock, ready, clock>>
loopVars == <<pc, events, cur>>
tableVars == <<fd, offset, pdu, deadline>>
histVars == <<taken, results, why, born>>
vars == <<netVars, loopVars, tableVars, histVars>>

Slot == 0 .. NUM_CLIENTS - 1
Pos == 0 .. PduSize - 1
Blank == [b \in Pos |-> NoByte]

(* The k-th PDU of c as it lies in a buffer, byte by byte. *)
PduBytes(c, k) == [b \in Pos |-> <<c, PduSize * k + b>>]

Init ==
  /\ peer = [c \in Conn |-> "idle"]
  /\ backlog = {}
  /\ wr = [c \in Conn |-> 0]
  /\ rd = [c \in Conn |-> 0]
  /\ sock = [f \in FD |-> NoConn]
  /\ ready = {}
  /\ clock = 0
  /\ pc = "wait"
  /\ events = {}
  /\ cur = NoFd
  /\ fd = [i \in Slot |-> NoFd]            \* client_init
  /\ offset = [i \in Slot |-> 0]
  /\ pdu = [i \in Slot |-> Blank]
  /\ deadline = [i \in Slot |-> 0]
  /\ taken = [c \in Conn |-> 0]
  /\ results = [c \in Conn |-> <<>>]
  /\ why = [c \in Conn |-> "live"]
  /\ born = [c \in Conn |-> 0]

-----------------------------------------------------------------------------
(***************************************************************************)
(* The senders and the clock.                                              *)
(***************************************************************************)
Open(c) == \E f \in FD : sock[f] = c
FdsOf(c) == {f \in FD : sock[f] = c}
Finished(c) == peer[c] \in {"eof", "reset"}

(* poll() on a descriptor: accept would return a connection, or read would *)
(* return data, end of file or an error.                                   *)
Readable(f) ==
  \/ f = Listener /\ backlog # {}
  \/ /\ f \in FD
     /\ \E c \in Conn : sock[f] = c /\ (rd[c] < wr[c] \/ Finished(c))

(* A reset connection with an empty receive queue polls as an error only.  *)
ErrorOnly(f) ==
  /\ ErrAlone /\ f \in FD
  /\ \E c \in Conn : sock[f] = c /\ peer[c] = "reset" /\ rd[c] = wr[c]

Connect(c) ==
  /\ peer[c] = "idle"
  /\ peer' = [peer EXCEPT ![c] = "open"]
  /\ backlog' = backlog \cup {c}
  /\ ready' = ready \cup {Listener}
  /\ UNCHANGED <<wr, rd, sock, clock, loopVars, tableVars, histVars>>

(* What happens to c from outside, while the broker's host still has it;   *)
(* epoll hears of it if the connection has been accepted.                  *)
FromPeer(c) ==
  /\ c \in backlog \/ Open(c)
  /\ ready' = ready \cup FdsOf(c)
  /\ UNCHANGED <<backlog, rd, sock, clock, loopVars, tableVars, histVars>>

Write(c) ==
  /\ peer[c] = "open"
  /\ wr[c] < PduSize * MaxPdus
  /\ wr' = [wr EXCEPT ![c] = @ + 1]
  /\ FromPeer(c)
  /\ UNCHANGED peer

Shutdown(c) ==
  /\ peer[c] = "open"
  /\ peer' = [peer EXCEPT ![c] = "eof"]
  /\ FromPeer(c)
  /\ UNCHANGED wr

Reset(c) ==
  /\ peer[c] \in {"open", "eof"}
  /\ peer' = [peer EXCEPT ![c] = "reset"]
  /\ FromPeer(c)
  /\ UNCHANGED wr

Tick ==
  /\ clock < MaxTime
  /\ clock' = clock + 1
  /\ UNCHANGED <<peer, backlog, wr, rd, sock, ready>>
  /\ UNCHANGED <<loopVars, tableVars, histVars>>

-----------------------------------------------------------------------------
(***************************************************************************)
(* The client table.                                                       *)
(***************************************************************************)
(* client_find: the first slot that holds descriptor f. *)
Found(table, f, i) == table[i] = f /\ \A j \in Slot : j < i => table[j] # f
Absent(table, f) == \A i \in Slot : table[i] # f

\* plausible bugs: the slot keeps its fd, offset or deadline; the deadline
\* is compared with > alone
KeepsSlot(f) == f
KeepsOffset(old) == old
KeepsDeadline(old) == old
past_strictly(now, d) == now > d

ClosedSlot(f) == NoFd                    \* client_close: c->fd = -1
NewOffset(old) == 0                      \* client_new: c->offset = 0
NewDeadline(old) == clock + MAX_LIFETIME
past_deadline(now, d) == now >= d

(* The slots clients_purge closes. *)
Expired == {i \in Slot : fd[i] # NoFd /\ past_deadline(clock, deadline[i])}

(* client_close on the slots S, for the reason r, as it leaves CLIENTS[].fd,*)
(* the descriptors, epoll's list, and the history; slots hold distinct     *)
(* descriptors (TableOK), so client_close finds the slot it is called for. *)
FdWithout(S) == [i \in Slot |-> IF i \in S THEN ClosedSlot(fd[i]) ELSE fd[i]]
FdsIn(S) == {fd[i] : i \in S}
SockWithout(S) == [f \in FD |-> IF f \in FdsIn(S) THEN NoConn ELSE sock[f]]
WhyWithout(S, r) ==
  [c \in Conn |-> IF \E f \in FdsIn(S) : sock[f] = c THEN r ELSE why[c]]

-----------------------------------------------------------------------------
(***************************************************************************)
(* mainloop.                                                               *)
(***************************************************************************)
(* epoll_wait: every ready descriptor is polled; the batch leaves the list *)
(* (EPOLLET), and so do those that poll empty.                             *)
StillReady(active, batch) == active \ batch

EpollWait ==
  /\ pc = "wait"
  /\ LET active == {f \in ready : Readable(f)} IN
     \E batch \in SUBSET active \ {{}} :
       /\ Cardinality(batch) <= IRIS_EPOLL_MAXFD
       /\ batch = active \/ Cardinality(batch) = IRIS_EPOLL_MAXFD
       /\ \E alone \in SUBSET {f \in batch : ErrorOnly(f)} :
            events' = {[fd |-> f, epollin |-> f \notin alone] : f \in batch}
       /\ ready' = StillReady(active, batch)
  /\ pc' = "dispatch"
  /\ UNCHANGED <<peer, backlog, wr, rd, sock, clock, cur, tableVars, histVars>>

BatchDone ==
  /\ pc = "dispatch" /\ events = {}
  /\ pc' = "wait"
  /\ UNCHANGED <<netVars, events, cur, tableVars, histVars>>

(* CONNECT event: the listening socket is recognised first. *)
ConnectEvent ==
  /\ pc = "dispatch"
  /\ \E e \in events : e.fd = Listener /\ events' = events \ {e}
  /\ pc' = "accept"
  /\ UNCHANGED <<netVars, cur, tableVars, histVars>>

(* DATA event: whatever else is reported with EPOLLIN. *)
DataEvent ==
  /\ pc = "dispatch"
  /\ \E e \in events :
       /\ e.fd # Listener /\ e.epollin
       /\ events' = events \ {e}
       /\ cur' = e.fd
  /\ pc' = "recv"
  /\ UNCHANGED <<netVars, tableVars, histVars>>

(* Unhandled activity: the descriptor is closed if a slot holds it. *)
UnhandledEvent ==
  /\ pc = "dispatch"
  /\ \E e \in events :
       /\ e.fd # Listener /\ ~e.epollin
       /\ events' = events \ {e}
       /\ LET S == {i \in Slot : fd[i] = e.fd} IN
            /\ fd' = FdWithout(S)
            /\ sock' = SockWithout(S)
            /\ ready' = ready \ FdsIn(S)
            /\ why' = WhyWithout(S, "unhandled")
  /\ UNCHANGED <<peer, backlog, wr, rd, clock, pc, cur>>
  /\ UNCHANGED <<offset, pdu, deadline, taken, results, born>>

-----------------------------------------------------------------------------
(***************************************************************************)
(* net_accept, called until it returns -1.  Every call begins with         *)
(* clients_purge, so each outcome below starts from the purged table.      *)
(***************************************************************************)
purgedFd == FdWithout(Expired)
purgedSock == SockWithout(Expired)
purgedReady == ready \ FdsIn(Expired)
purgedWhy == WhyWithout(Expired, "deadline")

OneAccept == "dispatch"   \* a plausible bug: one net_accept per event

AfterAccept == "accept"   \* while (net_accept(...) >= 0)
AfterFailure == "dispatch"

(* accept fails and no connection is taken from the queue. *)
NothingAccepted ==
  /\ fd' = purgedFd /\ sock' = purgedSock
  /\ ready' = purgedReady /\ why' = purgedWhy
  /\ pc' = AfterFailure
  /\ UNCHANGED <<peer, backlog, wr, rd, clock, events, cur>>
  /\ UNCHANGED <<offset, pdu, deadline, taken, results, born>>

(* EAGAIN: no more pending connections. *)
AcceptDrained ==
  /\ pc = "accept" /\ backlog = {}
  /\ NothingAccepted

(* EMFILE, ENFILE, ENOMEM, ...: the connections stay in the queue. *)
AcceptFails ==
  /\ pc = "accept" /\ backlog # {}
  /\ SetupMayFail \/ \A f \in FD : purgedSock[f] # NoConn
  /\ NothingAccepted

(* accept returns c, and nonblocking or epoll_ctl fails: c is closed. *)
SetupFails ==
  /\ pc = "accept" /\ SetupMayFail
  /\ \E f \in FD : purgedSock[f] = NoConn
  /\ \E c \in backlog :
       /\ backlog' = backlog \ {c}
       /\ why' = [purgedWhy EXCEPT ![c] = "setup"]
  /\ fd' = purgedFd /\ sock' = purgedSock /\ ready' = purgedReady
  /\ pc' = AfterFailure
  /\ UNCHANGED <<peer, wr, rd, clock, events, cur>>
  /\ UNCHANGED <<offset, pdu, deadline, taken, results, born>>

(* accept returns c as descriptor f, any number that is free: Icinga's     *)
(* other threads hold some too.  EPOLL_CTL_ADD reports f at once if it is  *)
(* readable already.                                                       *)
Registered(f, c) == IF rd[c] < wr[c] \/ Finished(c) THEN {f} ELSE {}

Accepted(f, c) ==
  /\ pc = "accept" /\ c \in backlog /\ purgedSock[f] = NoConn
  /\ backlog' = backlog \ {c}
  /\ sock' = [purgedSock EXCEPT ![f] = c]
  /\ ready' = purgedReady \cup Registered(f, c)
  /\ born' = [born EXCEPT ![c] = clock]
  /\ why' = purgedWhy
  /\ pc' = AfterAccept
  /\ UNCHANGED <<peer, wr, rd, clock, events, cur, taken, results>>

(* client_new finds a free slot ... *)
AcceptClient(f, c) ==
  /\ Accepted(f, c)
  /\ \E i \in Slot :
       /\ Found(purgedFd, NoFd, i)
       /\ fd' = [purgedFd EXCEPT ![i] = f]
       /\ offset' = [offset EXCEPT ![i] = NewOffset(@)]
       /\ pdu' = [pdu EXCEPT ![i] = Blank]
       /\ deadline' = [deadline EXCEPT ![i] = NewDeadline(@)]

(* ... or returns NULL: the connection stays open and registered, without  *)
(* a client, and net_accept still returns its descriptor.                  *)
AcceptOrphan(f, c) ==
  /\ Accepted(f, c)
  /\ Absent(purgedFd, NoFd)
  /\ fd' = purgedFd
  /\ UNCHANGED <<offset, pdu, deadline>>

net_accept ==
  \/ AcceptDrained
  \/ AcceptFails
  \/ SetupFails
  \/ \E f \in FD, c \in backlog : AcceptClient(f, c) \/ AcceptOrphan(f, c)

-----------------------------------------------------------------------------
(***************************************************************************)
(* recv_data(cur), one turn of its loop per action.                        *)
(***************************************************************************)
\* plausible bugs: errno left as the last EAGAIN set it, or overwritten
\* after it; the whole buffer asked for whatever it holds; recv_data
\* returning after a part or after a whole PDU
StaleErrno == "EAGAIN"
LostErrno == "0"
WholeBuffer(start) == PduSize
ReturnEarly == "dispatch"

ErrnoReset == "0"         \* errno = 0 before the first read
WouldBlock == "EAGAIN"
Room(start) == PduSize - start
AfterPartial == "recv"    \* continue
AfterPdu == "recv"        \* the end of the loop's body

(* pdu_read on connection c: read until the buffer is full or read returns *)
(* nothing.  An error discards the bytes of this call, and EAGAIN does not.*)
Got(c, start) == IF wr[c] - rd[c] < Room(start) THEN wr[c] - rd[c] ELSE Room(start)

\* a plausible bug: an error discards a PDU that is complete, too
pdu_read_error_first(c, start) ==
  LET got == Got(c, start) IN
  IF peer[c] = "reset" THEN [len |-> -1, errno |-> "ECONNRESET"]
  ELSE IF got = Room(start) \/ peer[c] = "eof"
    THEN [len |-> got, errno |-> ErrnoReset]
  ELSE [len |-> got, errno |-> WouldBlock]

pdu_read(c, start) ==
  LET got == Got(c, start) IN
  IF got = Room(start) \/ peer[c] = "eof" THEN [len |-> got, errno |-> ErrnoReset]
  ELSE IF peer[c] = "reset" THEN [len |-> -1, errno |-> "ECONNRESET"]
  ELSE [len |-> got, errno |-> WouldBlock]

(* The bytes it leaves in the buffer of slot i. *)
Filled(i, c, got) ==
  [b \in Pos |-> IF b < offset[i] \/ b >= offset[i] + got
                   THEN pdu[i][b]
                   ELSE <<c, rd[c] + (b - offset[i])>>]

(* iris_call_recv_data returns, and a nonzero value ends mainloop. *)
Return ==
  \E r \in HookResults : pc' = IF r = 0 THEN "dispatch" ELSE "done"

(* No slot holds the descriptor. *)
RecvUnknown ==
  /\ pc = "recv" /\ Absent(fd, cur)
  /\ Return
  /\ UNCHANGED <<netVars, events, cur, tableVars, histVars>>

Receiving(i, c) == pc = "recv" /\ Found(fd, cur, i) /\ sock[cur] = c

(* Nothing to read for now: wait for the next event. *)
RecvNothing(i, c) ==
  /\ Receiving(i, c)
  /\ LET r == pdu_read(c, offset[i]) IN r.len <= 0 /\ r.errno = "EAGAIN"
  /\ Return
  /\ UNCHANGED <<netVars, events, cur, tableVars, histVars>>

(* End of file or an error: the connection is closed. *)
RecvClose(i, c) ==
  /\ Receiving(i, c)
  /\ LET r == pdu_read(c, offset[i]) IN r.len <= 0 /\ r.errno # "EAGAIN"
  /\ rd' = [rd EXCEPT ![c] = @ + Got(c, offset[i])]
  /\ fd' = FdWithout({i}) /\ sock' = SockWithout({i})
  /\ ready' = ready \ FdsIn({i}) /\ why' = WhyWithout({i}, "peer")
  /\ Return
  /\ UNCHANGED <<peer, backlog, wr, clock, events, cur>>
  /\ UNCHANGED <<offset, pdu, deadline, taken, results, born>>

(* Some of a PDU: try for the rest of it. *)
RecvPartial(i, c) ==
  LET len == pdu_read(c, offset[i]).len IN
  /\ Receiving(i, c)
  /\ len > 0 /\ offset[i] + len < PduSize
  /\ rd' = [rd EXCEPT ![c] = @ + len]
  /\ pdu' = [pdu EXCEPT ![i] = Filled(i, c, len)]
  /\ offset' = [offset EXCEPT ![i] = @ + len]
  /\ pc' = AfterPartial
  /\ UNCHANGED <<peer, backlog, wr, sock, ready, clock, events, cur>>
  /\ UNCHANGED <<fd, deadline, histVars>>

(* iris_call_submit_result: a buffer that pdu_unpack accepts is the PDU of *)
(* some sender, byte for byte, and its result goes to Icinga.              *)
\* a plausible bug: the result of pdu_unpack is not looked at
AcceptsAny(buf, c, k) == buf = PduBytes(c, k)

Accepts(buf, c, k) == buf = PduBytes(c, k) /\ <<c, k>> \notin Bogus

Submit(buf) ==
  IF \E c \in Conn, k \in 0 .. MaxPdus - 1 : Accepts(buf, c, k)
    THEN \E c \in Conn, k \in 0 .. MaxPdus - 1 :
           /\ Accepts(buf, c, k)
           /\ results' = [results EXCEPT ![c] = Append(@, k)]
    ELSE UNCHANGED results

(* The whole PDU: it is submitted or discarded, and the buffer cleared.    *)
\* a plausible bug: what the last read left over, forgetting earlier ones
LeftOver(len) == len - PduSize

AfterComplete(len) == 0   \* c->offset = 0

RecvComplete(i, c) ==
  LET len == pdu_read(c, offset[i]).len IN
  /\ Receiving(i, c)
  /\ len > 0 /\ offset[i] + len >= PduSize
  /\ rd' = [rd EXCEPT ![c] = @ + len]
  /\ Submit(Filled(i, c, len))
  /\ pdu' = [pdu EXCEPT ![i] = Blank]
  /\ offset' = [offset EXCEPT ![i] = AfterComplete(len)]
  /\ taken' = [taken EXCEPT ![c] = @ + 1]
  /\ pc' = AfterPdu
  /\ UNCHANGED <<peer, backlog, wr, sock, ready, clock, events, cur>>
  /\ UNCHANGED <<fd, deadline, why, born>>

recv_data ==
  \/ RecvUnknown
  \/ \E i \in Slot, c \in Conn :
       \/ RecvNothing(i, c) \/ RecvClose(i, c)
       \/ RecvPartial(i, c) \/ RecvComplete(i, c)

-----------------------------------------------------------------------------
mainloop ==
  \/ EpollWait \/ BatchDone
  \/ ConnectEvent \/ DataEvent \/ UnhandledEvent
  \/ net_accept
  \/ recv_data

Environment ==
  \/ Tick
  \/ \E c \in Conn : Connect(c) \/ Write(c) \/ Shutdown(c) \/ Reset(c)

Next == mainloop \/ Environment

(* The thread runs whenever it can; nobody makes the senders do anything.  *)
Spec == Init /\ [][Next]_vars /\ WF_vars(mainloop)

-----------------------------------------------------------------------------
(***************************************************************************)
(* Safety.                                                                 *)
(***************************************************************************)
Status == {"idle", "open", "eof", "reset"}
Reason == {"live", "peer", "unhandled", "deadline", "setup"}
Control == {"wait", "dispatch", "accept", "recv", "done"}
Byte == (Conn \X Nat) \cup {NoByte}

(* Every variable of the loop has the type iris.h gives it.                *)
TypeOK ==
  /\ peer \in [Conn -> Status]
  /\ backlog \subseteq Conn
  /\ wr \in [Conn -> Nat] /\ rd \in [Conn -> Nat]
  /\ sock \in [FD -> Conn \cup {NoConn}]
  /\ ready \subseteq FD \cup {Listener}
  /\ clock \in Nat
  /\ pc \in Control
  /\ events \subseteq [fd : FD \cup {Listener}, epollin : BOOLEAN]
  /\ cur \in FD \cup {NoFd}
  /\ fd \in [Slot -> FD \cup {NoFd}]
  /\ offset \in [Slot -> Nat]
  /\ pdu \in [Slot -> [Pos -> Byte]]
  /\ deadline \in [Slot -> Nat]
  /\ taken \in [Conn -> Nat]
  /\ results \in [Conn -> Seq(Nat)]
  /\ why \in [Conn -> Reason]
  /\ born \in [Conn -> Nat]

(* The client table, the descriptors and the accept queue never disagree:  *)
(* a slot holds an open descriptor, no two slots hold the same one, no two *)
(* descriptors refer to one connection, and a connection is queued, open   *)
(* or closed but never two of these.  client_close relies on it when it    *)
(* closes the first slot whose fd matches.                                 *)
SlotsOpen == \A i \in Slot : fd[i] # NoFd => sock[fd[i]] # NoConn
SlotsDistinct == \A i, j \in Slot : fd[i] = fd[j] /\ fd[i] # NoFd => i = j
SocketsDistinct == \A f, g \in FD : sock[f] = sock[g] /\ sock[f] # NoConn => f = g
QueuedIsNew ==
  \A c \in backlog : ~Open(c) /\ why[c] = "live" /\ peer[c] # "idle"
OpenIsLive ==
  \A f \in FD : sock[f] # NoConn => why[sock[f]] = "live" /\ peer[sock[f]] # "idle"
TableOK ==
  SlotsOpen /\ SlotsDistinct /\ SocketsDistinct /\ QueuedIsNew /\ OpenIsLive

(* Every client's buffer holds exactly the bytes of its own stream that    *)
(* follow its last complete PDU, whatever the sizes of the reads were and  *)
(* whoever had the slot or the descriptor before.                          *)
Framing ==
  \A i \in Slot : fd[i] # NoFd =>
    LET c == sock[fd[i]] IN
    /\ offset[i] < PduSize
    /\ rd[c] = PduSize * taken[c] + offset[i]
    /\ \A b \in Pos : b < offset[i] => pdu[i][b] = <<c, PduSize * taken[c] + b>>

(* Edge-triggered events are not lost: while a client's connection can be  *)
(* read, epoll will report it, or has reported it in this batch, or        *)
(* recv_data is reading it.  Otherwise it would wait for a next byte that  *)
(* may never come.                                                         *)
Attended(f) ==
  \/ f \in ready
  \/ \E e \in events : e.fd = f
  \/ pc = "recv" /\ cur = f
NoClientForgotten ==
  \A f \in FD :
    Readable(f) /\ (\E i \in Slot : fd[i] = f) /\ pc # "done" => Attended(f)

(* The same for the listening socket: as long as a connection is queued,   *)
(* an event for it is due or net_accept is being called.                   *)
NoPendingForgotten ==
  backlog # {} /\ pc # "done" =>
    \/ Listener \in ready
    \/ \E e \in events : e.fd = Listener
    \/ pc = "accept"

(* A connection that ended by itself was drained: recv_data closed it only *)
(* after it had taken every whole PDU that had arrived.                    *)
EofDrains ==
  \A c \in Conn : why[c] = "peer" =>
    PduSize * taken[c] <= wr[c] /\ wr[c] < PduSize * (taken[c] + 1)

(* The broker closes a connection as ended or as failed only if its sender *)
(* did end or reset it, in spite of events that are still to be dispatched *)
(* when their descriptor is closed and given to someone else.              *)
CloseJustified ==
  \A c \in Conn : why[c] \in {"peer", "unhandled"} => Finished(c)

(***************************************************************************)
(* What no step may do.                                                    *)
(***************************************************************************)
(* net_accept leaves no connection open past its deadline: a stalled       *)
(* sender is pruned when somebody else connects.                           *)
Overdue(f) == sock[f] \in Conn /\ clock >= born[sock[f]] + MAX_LIFETIME
StalledPruned ==
  [][net_accept => \A f \in FD : Overdue(f) => sock'[f] # sock[f]]_vars

(* A connection is closed for its age only when its lifetime has passed. *)
DeadlineKept ==
  [][\A c \in Conn : why[c] = "live" /\ why'[c] = "deadline" =>
        clock >= born[c] + MAX_LIFETIME]_vars

(***************************************************************************)
(* What the loop must do, provided that its thread keeps running.          *)
(***************************************************************************)
(* A connection that its sender ended or reset is closed. *)
FinishedClosed ==
  \A c \in Conn : (Open(c) /\ Finished(c)) ~> ~Open(c)

(* What has arrived is read, unless the connection is closed first. *)
ArrivedRead ==
  \A c \in Conn : (Open(c) /\ rd[c] < wr[c]) ~> (~Open(c) \/ rd[c] = wr[c])

(* A queued connection is accepted. *)
PendingAccepted == \A c \in Conn : (c \in backlog) ~> (c \notin backlog)

(***************************************************************************)
(* The loop implements ResultDelivery.                                     *)
(***************************************************************************)
D == INSTANCE ResultDelivery
       WITH written <- wr, gone <- {c \in Conn : why[c] # "live"}

(* Every step of the loop takes a PDU, drops connections, or changes       *)
(* nothing the senders were promised.                                      *)
Delivery == D!Spec

(* Exactly the acceptable PDUs that were consumed reach Icinga, once each  *)
(* and in the order in which they were sent.                               *)
ResultsDelivered == D!Delivered
=============================================================================
