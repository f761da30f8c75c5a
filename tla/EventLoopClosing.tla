-------------------------- MODULE EventLoopClosing --------------------------
(***************************************************************************)
(* More that holds of EventLoop for every number of connections and slots: *)
(* why the loop closes a connection, and that it accepts the queued ones.  *)
(***************************************************************************)
EXTENDS EventLoopProofs, FiniteSetTheorems

USE TableAssumption, FdAssumption, ConnAssumption, StreamAssumption,
    BoundAssumption, FlagAssumption, HookAssumption

(***************************************************************************)
(* Closing.  What is over stays as it was: nobody reads or writes a closed *)
(* connection, or closes it again for another reason.                      *)
(***************************************************************************)
LEMMA ClosingOthers ==
  ASSUME Base, NEW c \in Conn, why[c] # "live",
         NEW S \in SUBSET Slot, \A i \in S : fd[i] \in FD, NEW r
  PROVE  WhyWithout(S, r)[c] = why[c]
<1>1. ASSUME NEW i \in S PROVE sock[fd[i]] # c
  BY DEF Base, SoundNow, Sound
<1>. QED BY <1>1 DEF WhyWithout, FdsIn

LEMMA PurgeOthers ==
  ASSUME Base, NEW c \in Conn, why[c] # "live" PROVE purgedWhy[c] = why[c]
<1>1. Expired \in SUBSET Slot /\ \A i \in Expired : fd[i] \in FD
  BY DEF Base, Typed, TypeOK, Expired
<1>. QED BY <1>1, ClosingOthers DEF purgedWhy

(* The connection that recv_data works on. *)
LEMMA ReceivingOpen ==
  ASSUME Base, NEW i \in Slot, NEW c \in Conn, Receiving(i, c)
  PROVE  fd[i] = cur /\ cur \in FD /\ sock[cur] = c /\ why[c] = "live"
BY DEF Receiving, Found, Base, Typed, ReceivingFd, SoundNow, Sound

LEMMA ClosedStays ==
  ASSUME Base, [Next]_vars, NEW c \in Conn, why[c] # "live"
  PROVE  /\ wr'[c] = wr[c] /\ taken'[c] = taken[c] /\ why'[c] = why[c]
         /\ Finished(c) => Finished(c)'
<1> USE DEF netVars, loopVars, tableVars, histVars
<1>1. CASE Environment \/ UNCHANGED vars
  <2>1. ASSUME NEW d \in Conn, FromPeer(d) PROVE d # c
    BY <2>1 DEF FromPeer, Open, Base, SoundNow, Sound
  <2>2. ASSUME NEW d \in Conn, Connect(d) PROVE d # c
    BY <2>2 DEF Connect, Base, SoundNow, Sound
  <2>3. UNCHANGED <<taken, why>>
    BY <1>1 DEF Environment, Tick, Connect, Write, Shutdown, Reset, FromPeer, vars
  <2>4. wr'[c] = wr[c] /\ peer'[c] = peer[c]
    BY <1>1, <2>1, <2>2 DEF Environment, Tick, Connect, Write, Shutdown, Reset, vars,
                            Base, Typed, TypeOK
  <2>. QED BY <2>3, <2>4 DEF Finished
<1>2. CASE mainloop
  <2>1. UNCHANGED <<wr, peer>>
    BY <1>2, ZenonT(40) DEF mainloop, EpollWait, BatchDone, ConnectEvent, DataEvent, UnhandledEvent,
           net_accept, AcceptDrained, AcceptFails, NothingAccepted, SetupFails, AcceptClient,
           AcceptOrphan, Accepted, recv_data, RecvUnknown, RecvNothing, RecvClose,
           RecvPartial, RecvComplete
  <2>2. taken'[c] = taken[c]
    <3>1. ASSUME NEW i \in Slot, NEW d \in Conn, RecvComplete(i, d)
          PROVE  d # c /\ taken'[c] = taken[c]
      BY <3>1, ReceivingOpen DEF RecvComplete, Base, Typed, TypeOK
    <3>. QED
      BY <1>2, <3>1, ZenonT(40) DEF mainloop, EpollWait, BatchDone, ConnectEvent, DataEvent,
           UnhandledEvent, net_accept, AcceptDrained, AcceptFails, NothingAccepted,
           SetupFails, AcceptClient, AcceptOrphan, Accepted, recv_data, RecvUnknown,
           RecvNothing, RecvClose, RecvPartial
  <2>3. why'[c] = why[c]
    <3>1. CASE UNCHANGED why
      BY <3>1
    <3>2. CASE UnhandledEvent
      <4>1. PICK e \in events : /\ e.fd # Listener
                                /\ why' = WhyWithout({i \in Slot : fd[i] = e.fd}, "unhandled")
        BY <3>2 DEF UnhandledEvent
      <4>2. e.fd \in FD
        BY <4>1 DEF Base, Typed, TypeOK
      <4> DEFINE S == {i \in Slot : fd[i] = e.fd}
      <4>3. S \in SUBSET Slot /\ \A i \in S : fd[i] \in FD
        BY <4>2
      <4>4. why' = WhyWithout(S, "unhandled")
        BY <4>1
      <4> HIDE DEF S
      <4>. QED BY <4>3, <4>4, ClosingOthers
    <3>3. CASE why' = purgedWhy
      BY <3>3, PurgeOthers
    <3>4. CASE SetupFails
      <4>1. PICK d \in backlog : why' = [purgedWhy EXCEPT ![d] = "setup"]
        BY <3>4 DEF SetupFails
      <4>2. d # c
        BY DEF Base, SoundNow, Sound
      <4>. QED BY <4>1, <4>2, PurgeOthers DEF purgedWhy, WhyWithout
    <3>5. ASSUME NEW i \in Slot, NEW d \in Conn, RecvClose(i, d) PROVE why'[c] = why[c]
      <4> DEFINE S == {i}
      <4>1. S \in SUBSET Slot /\ (\A j \in S : fd[j] \in FD) /\ why' = WhyWithout(S, "peer")
        BY <3>5, ReceivingOpen DEF RecvClose
      <4> HIDE DEF S
      <4>. QED BY <4>1, ClosingOthers
    <3>6. \/ UNCHANGED why \/ UnhandledEvent \/ why' = purgedWhy \/ SetupFails
          \/ \E i \in Slot, d \in Conn : RecvClose(i, d)
      BY <1>2 DEF mainloop, net_accept, recv_data, EpollWait, BatchDone, ConnectEvent,
           DataEvent, AcceptDrained, AcceptFails, NothingAccepted, AcceptClient,
           AcceptOrphan, Accepted, RecvUnknown, RecvNothing, RecvPartial, RecvComplete
    <3>. QED BY <3>1, <3>2, <3>3, <3>4, <3>5, <3>6
  <2>. QED BY <2>1, <2>2, <2>3 DEF Finished
<1>. QED BY <1>1, <1>2 DEF Next

(* recv_data closes a connection when pdu_read has nothing for it, at the  *)
(* end of file or after a reset (iris.c:602-612); by then it has taken     *)
(* every whole PDU.                                                        *)
LEMMA RecvCloseDrains ==
  ASSUME Base, FramingNow, NEW i \in Slot, NEW c \in Conn, RecvClose(i, c)
  PROVE  /\ Finished(c)
         /\ PduSize * taken[c] <= wr[c] /\ wr[c] < PduSize * (taken[c] + 1)
<1> DEFINE o == offset[i]
           got == Got(c, o)
<1>1. /\ o \in Nat /\ o < PduSize /\ taken[c] \in Nat
      /\ wr[c] \in Nat /\ rd[c] \in Nat /\ rd[c] <= wr[c]
  BY DEF Base, Typed, TypeOK, OffsetSmall, ReadArrived
<1>2. rd[c] = PduSize * taken[c] + o
  BY ReceivingOpen DEF RecvClose, FramingNow, Framed
<1>3. got \in Nat /\ (got # Room(o) => got = wr[c] - rd[c])
  BY <1>1 DEF Got, Room
<1>4. pdu_read(c, o).len <= 0 /\ pdu_read(c, o).errno # "EAGAIN"
  BY DEF RecvClose
<1>5. Room(o) \in Nat /\ Room(o) > 0
  BY <1>1 DEF Room
<1> HIDE DEF got, o
<1>6. got # Room(o)
  BY <1>3, <1>4, <1>5 DEF pdu_read, got
<1>7. Finished(c)
  BY <1>4, <1>6 DEF pdu_read, got, Finished, WouldBlock
<1>8. got < Room(o)
  BY <1>1, <1>3, <1>5, <1>6 DEF Got, got
<1>9. wr[c] < PduSize * taken[c] + PduSize
  BY <1>1, <1>2, <1>3, <1>6, <1>8 DEF Room
<1>10. PduSize * (taken[c] + 1) = PduSize * taken[c] + PduSize
  BY <1>1
<1>. QED BY <1>1, <1>2, <1>7, <1>9, <1>10

(* Only recv_data closes a connection as ended by its peer. *)
LEMMA OnlyRecvCloses ==
  ASSUME Base, [Next]_vars, NEW c \in Conn, why[c] # "peer", why'[c] = "peer"
  PROVE  why[c] = "live" /\ taken'[c] = taken[c] /\ wr'[c] = wr[c] /\ peer'[c] = peer[c]
         /\ \E i \in Slot : RecvClose(i, c)
<1> USE DEF netVars, loopVars, tableVars, histVars
<1>1. why[c] = "live"
  BY ClosedStays
<1>2. purgedWhy[c] # "peer"
  BY <1>1 DEF purgedWhy, WhyWithout
<1>3. ~SetupFails
  <2>1. ASSUME NEW d \in backlog, why' = [purgedWhy EXCEPT ![d] = "setup"] PROVE FALSE
    BY <1>2, <2>1 DEF purgedWhy, WhyWithout
  <2>. QED BY <2>1 DEF SetupFails
<1>4. ~UnhandledEvent
  BY <1>1 DEF UnhandledEvent, WhyWithout
<1>5. PICK i \in Slot, d \in Conn : RecvClose(i, d)
  BY <1>1, <1>2, <1>3, <1>4 DEF Next, Environment, Tick, Connect, Write, Shutdown, Reset,
         FromPeer, vars, mainloop, net_accept, recv_data, EpollWait, BatchDone, ConnectEvent,
         DataEvent, AcceptDrained, AcceptFails, NothingAccepted, AcceptClient, AcceptOrphan,
         Accepted, RecvUnknown, RecvNothing, RecvPartial, RecvComplete
<1>6. d = c
  BY <1>1, <1>5, ReceivingOpen DEF RecvClose, WhyWithout, FdsIn
<1>. QED BY <1>1, <1>5, <1>6 DEF RecvClose

LEMMA NextKeepsDrained == Base /\ FramingNow /\ EofDrains /\ [Next]_vars => EofDrains'
<1>. SUFFICES ASSUME Base, FramingNow, EofDrains, [Next]_vars, NEW c \in Conn, why'[c] = "peer"
              PROVE  PduSize * taken'[c] <= wr'[c] /\ wr'[c] < PduSize * (taken'[c] + 1)
  BY DEF EofDrains
<1>1. CASE why[c] = "peer"
  BY <1>1, ClosedStays DEF EofDrains
<1>2. CASE why[c] # "peer"
  BY <1>2, OnlyRecvCloses, RecvCloseDrains
<1>. QED BY <1>1, <1>2

(* A connection that ended by itself had been drained, however its bytes   *)
(* were cut into reads and whatever happened to the slots around it.       *)
THEOREM EofDrainsCorrect == Spec => []EofDrains
<1>1. Init => EofDrains
  BY DEF Init, EofDrains
<1>. QED BY <1>1, NextKeepsDrained, BaseAlways, FramingAlways, PTL DEF Spec

(* Without error-only events nothing is closed as unhandled. *)
JustNow ==
  /\ CloseJustified
  /\ \A e \in events : e.epollin
  /\ \A c \in Conn : why[c] # "unhandled"

LEMMA NextKeepsJust ==
  ASSUME ~ErrAlone PROVE Base /\ FramingNow /\ JustNow /\ [Next]_vars => JustNow'
<1>. SUFFICES ASSUME Base, FramingNow, JustNow, [Next]_vars PROVE JustNow'
  OBVIOUS
<1> USE DEF netVars, loopVars, tableVars, histVars
<1>1. ~UnhandledEvent
  BY DEF UnhandledEvent, JustNow
<1>2. ASSUME NEW e \in events' PROVE e.epollin
  <2>1. CASE EpollWait
    <3>1. PICK batch : \E alone \in SUBSET {f \in batch : ErrorOnly(f)} :
                         events' = {[fd |-> f, epollin |-> f \notin alone] : f \in batch}
      BY <2>1 DEF EpollWait
    <3>2. PICK alone \in SUBSET {f \in batch : ErrorOnly(f)} :
                 events' = {[fd |-> f, epollin |-> f \notin alone] : f \in batch}
      BY <3>1
    <3>3. PICK f \in batch : e = [fd |-> f, epollin |-> f \notin alone]
      BY <3>2
    <3>4. f \notin alone
      BY DEF ErrorOnly
    <3>5. e.epollin = (f \notin alone)
      BY <3>3, Zenon
    <3>. QED BY <3>4, <3>5
  <2>2. CASE events' \subseteq events
    BY <2>2 DEF JustNow
  <2>3. EpollWait \/ events' \subseteq events
    BY ZenonT(40) DEF Next, Environment, Tick, Connect, Write, Shutdown, Reset, FromPeer, vars, mainloop,
       net_accept, recv_data, BatchDone, ConnectEvent, DataEvent, UnhandledEvent,
       AcceptDrained, AcceptFails, NothingAccepted, SetupFails, AcceptClient, AcceptOrphan,
       Accepted, RecvUnknown, RecvNothing, RecvClose, RecvPartial, RecvComplete
  <2>. QED BY <2>1, <2>2, <2>3
<1>3. ASSUME NEW c \in Conn PROVE why'[c] # "unhandled"
  <2>1. why[c] # "unhandled" /\ purgedWhy[c] # "unhandled"
    BY DEF JustNow, purgedWhy, WhyWithout
  <2>2. CASE SetupFails
    BY <2>1, <2>2 DEF SetupFails, purgedWhy, WhyWithout
  <2>3. ASSUME NEW i \in Slot, NEW d \in Conn, RecvClose(i, d) PROVE why'[c] # "unhandled"
    BY <2>1, <2>3 DEF RecvClose, WhyWithout
  <2>. QED
    BY <1>1, <2>1, <2>2, <2>3 DEF Next, Environment, Tick, Connect, Write, Shutdown, Reset,
       FromPeer, vars, mainloop, net_accept, recv_data, EpollWait, BatchDone, ConnectEvent,
       DataEvent, AcceptDrained, AcceptFails, NothingAccepted, AcceptClient, AcceptOrphan,
       Accepted, RecvUnknown, RecvNothing, RecvPartial, RecvComplete
<1>4. ASSUME NEW c \in Conn, why'[c] = "peer" PROVE Finished(c)'
  <2>1. CASE why[c] = "peer"
    BY <2>1, ClosedStays DEF JustNow, CloseJustified
  <2>2. CASE why[c] # "peer"
    BY <1>4, <2>2, OnlyRecvCloses, RecvCloseDrains DEF Finished
  <2>. QED BY <2>1, <2>2
<1>. QED BY <1>2, <1>3, <1>4 DEF JustNow, CloseJustified

(* If epoll reports no error without EPOLLIN, the broker closes as ended   *)
(* only what its sender ended or reset: an event that is still in the      *)
(* batch when its descriptor changes hands does no harm.                   *)
THEOREM CloseJustifiedCorrect == ASSUME ~ErrAlone PROVE Spec => []CloseJustified
<1>1. Init => JustNow
  BY DEF Init, JustNow, CloseJustified
<1>2. JustNow => CloseJustified
  BY DEF JustNow
<1>. QED BY <1>1, <1>2, NextKeepsJust, BaseAlways, FramingAlways, PTL DEF Spec

-----------------------------------------------------------------------------
(***************************************************************************)
(* Accepting.  net_accept is called until the queue is empty, so that no   *)
(* connection waits for an event that has been used up.                    *)
(***************************************************************************)
PendingNow == NoPendingForgotten /\ BatchUsed

(* A descriptor is left for a queued connection. *)
LEMMA DescriptorLeft ==
  ASSUME Base, IsFiniteSet(FD), IsFiniteSet(Conn), Cardinality(Conn) <= Cardinality(FD),
         NEW c \in backlog
  PROVE  \E f \in FD : purgedSock[f] = NoConn
<1>. SUFFICES ASSUME \A f \in FD : purgedSock[f] # NoConn PROVE FALSE
  OBVIOUS
<1>1. c \in Conn /\ \A f \in FD : sock[f] # c
  BY DEF Base, Typed, TypeOK, SoundNow, Sound
<1>2. \A f \in FD : sock[f] # NoConn
  BY DEF purgedSock, SockWithout
<1>3. sock \in [FD -> Conn \ {c}]
  BY <1>1, <1>2 DEF Base, Typed, TypeOK
<1>4. IsFiniteSet(Conn \ {c}) /\ Cardinality(Conn \ {c}) = Cardinality(Conn) - 1
  BY <1>1, FS_RemoveElement
<1>5. Cardinality(Conn) \in Nat /\ Cardinality(FD) \in Nat
  BY FS_CardinalityType
<1>6. PICK f, g \in FD : f # g /\ sock[f] = sock[g]
  BY <1>3, <1>4, <1>5, FS_PigeonHole
<1>. QED BY <1>2, <1>6 DEF Base, SoundNow, Sound

LEMMA LoopKeepsPending ==
  ASSUME ~SetupMayFail, Base, PendingNow, mainloop,
         IsFiniteSet(FD), IsFiniteSet(Conn), Cardinality(Conn) <= Cardinality(FD)
  PROVE  PendingNow'
<1> USE DEF netVars, loopVars, tableVars, histVars
<1>1. CASE EpollWait
  <2>1. UNCHANGED backlog /\ events = {} /\ pc = "wait" /\ pc' = "dispatch"
    BY <1>1 DEF EpollWait, PendingNow, BatchUsed
  <2>2. ASSUME backlog # {} PROVE Listener \in ready' \/ \E e \in events' : e.fd = Listener
    <3>1. Listener \in ready /\ Readable(Listener)
      BY <2>1, <2>2 DEF PendingNow, NoPendingForgotten, Readable
    <3>2. PICK batch \in SUBSET {g \in ready : Readable(g)} :
            /\ \E alone \in SUBSET {g \in batch : ErrorOnly(g)} :
                 events' = {[fd |-> g, epollin |-> g \notin alone] : g \in batch}
            /\ ready' = {g \in ready : Readable(g)} \ batch
      BY <1>1 DEF EpollWait, StillReady
    <3>3. CASE Listener \in batch
      <4>1. PICK alone \in SUBSET {g \in batch : ErrorOnly(g)} :
              events' = {[fd |-> g, epollin |-> g \notin alone] : g \in batch}
        BY <3>2
      <4>2. [fd |-> Listener, epollin |-> Listener \notin alone] \in events'
        BY <3>3, <4>1
      <4>. QED BY <4>2
    <3>4. CASE Listener \notin batch
      BY <3>1, <3>2, <3>4
    <3>. QED BY <3>3, <3>4
  <2>. QED BY <2>1, <2>2 DEF PendingNow, NoPendingForgotten, BatchUsed
<1>2. CASE BatchDone \/ ConnectEvent
  BY <1>2 DEF BatchDone, ConnectEvent, PendingNow, NoPendingForgotten, BatchUsed
<1>3. CASE DataEvent
  <2>1. PICK e \in events : e.fd # Listener /\ events' = events \ {e}
    BY <1>3 DEF DataEvent
  <2>2. UNCHANGED <<backlog, ready>> /\ pc = "dispatch" /\ pc' = "recv"
    BY <1>3 DEF DataEvent
  <2>. QED BY <2>1, <2>2 DEF PendingNow, NoPendingForgotten, BatchUsed
<1>4. ASSUME NEW S \in SUBSET Slot PROVE Listener \notin FdsIn(S)
  BY DEF FdsIn, Base, Typed, TypeOK
<1>5. CASE UnhandledEvent
  <2>1. PICK e \in events : /\ e.fd # Listener /\ events' = events \ {e}
                            /\ ready' = ready \ FdsIn({i \in Slot : fd[i] = e.fd})
    BY <1>5 DEF UnhandledEvent
  <2>2. Listener \in ready => Listener \in ready'
    BY <1>4, <2>1
  <2>3. UNCHANGED <<backlog, pc>> /\ pc = "dispatch"
    BY <1>5 DEF UnhandledEvent
  <2>. QED BY <2>1, <2>2, <2>3 DEF PendingNow, NoPendingForgotten, BatchUsed
<1>6. CASE net_accept
  <2>1. ~AcceptFails /\ ~SetupFails
    BY DescriptorLeft DEF AcceptFails, SetupFails
  <2>2. CASE AcceptDrained
    BY <2>2 DEF AcceptDrained, NothingAccepted, AfterFailure, PendingNow, NoPendingForgotten,
            BatchUsed
  <2>3. ASSUME NEW f \in FD, NEW c \in backlog, Accepted(f, c) PROVE PendingNow'
    BY <2>3 DEF Accepted, AfterAccept, PendingNow, NoPendingForgotten, BatchUsed
  <2>. QED BY <1>6, <2>1, <2>2, <2>3 DEF net_accept, AcceptClient, AcceptOrphan
<1>7. CASE recv_data
  <2>1. UNCHANGED <<backlog, events>> /\ pc = "recv" /\ pc' # "wait"
    BY <1>7, ZenonT(40) DEF recv_data, RecvUnknown, RecvNothing, RecvClose, RecvPartial, RecvComplete,
           Return, Receiving, AfterPartial, AfterPdu
  <2>2. Listener \in ready => Listener \in ready'
    <3>1. ASSUME NEW i \in Slot, NEW c \in Conn, RecvClose(i, c)
          PROVE  Listener \in ready => Listener \in ready'
      <4>1. {i} \in SUBSET Slot /\ ready' = ready \ FdsIn({i})
        BY <3>1 DEF RecvClose
      <4>. QED BY <1>4, <4>1
    <3>. QED BY <1>7, <3>1 DEF recv_data, RecvUnknown, RecvNothing, RecvPartial, RecvComplete
  <2>. QED BY <2>1, <2>2 DEF PendingNow, NoPendingForgotten, BatchUsed
<1>. QED BY <1>1, <1>2, <1>3, <1>5, <1>6, <1>7 DEF mainloop

(* While accept and epoll_ctl succeed and descriptors last, no queued      *)
(* connection is forgotten by the edge-triggered loop (iris.c:544-553).    *)
THEOREM NoPendingForgottenCorrect ==
  ASSUME ~SetupMayFail, IsFiniteSet(FD), IsFiniteSet(Conn), Cardinality(Conn) <= Cardinality(FD)
  PROVE  Spec => []NoPendingForgotten
<1>1. Init => PendingNow
  BY DEF Init, PendingNow, NoPendingForgotten, BatchUsed
<1>2. Base /\ PendingNow /\ Environment => PendingNow'
  BY DEF Environment, Tick, Connect, Write, Shutdown, Reset, FromPeer, loopVars,
         PendingNow, NoPendingForgotten, BatchUsed
<1>3. Base /\ PendingNow /\ [Next]_vars => PendingNow'
  <2>1. ASSUME PendingNow, UNCHANGED vars PROVE PendingNow'
    BY <2>1 DEF vars, netVars, loopVars, PendingNow, NoPendingForgotten, BatchUsed
  <2>. QED BY <1>2, <2>1, LoopKeepsPending DEF Next
<1>4. PendingNow => NoPendingForgotten
  BY DEF PendingNow
<1>. QED BY <1>1, <1>3, <1>4, BaseAlways, PTL DEF Spec

-----------------------------------------------------------------------------
(***************************************************************************)
(* The deadline.  A slot's deadline is the lifetime after its connection   *)
(* was accepted, and clients_purge closes nothing before it.               *)
(***************************************************************************)
DeadlineNow ==
  \A i \in Slot : fd[i] # NoFd => deadline[i] = born[sock[fd[i]]] + MAX_LIFETIME

(* A step that only closes keeps it. *)
LEMMA ClosingKeepsDeadline ==
  ASSUME DeadlineNow, UNCHANGED <<deadline, born>>,
         \A i \in Slot : fd'[i] # NoFd => fd'[i] = fd[i] /\ sock'[fd[i]] = sock[fd[i]]
  PROVE  DeadlineNow'
BY DEF DeadlineNow

LEMMA AcceptKeepsDeadline ==
  ASSUME Base, DeadlineNow, NEW f \in FD, NEW c \in backlog,
         AcceptClient(f, c) \/ AcceptOrphan(f, c)
  PROVE  DeadlineNow'
<1>1. /\ purgedFd \in [Slot -> FD \cup {NoFd}]
      /\ purgedSock \in [FD -> Conn \cup {NoConn}]
      /\ deadline \in [Slot -> Nat] /\ born \in [Conn -> Nat] /\ c \in Conn
  BY CloseTyped DEF Base, Typed, TypeOK, Reason, purgedFd, purgedSock
<1>2. /\ purgedSock[f] = NoConn /\ sock' = [purgedSock EXCEPT ![f] = c]
      /\ born' = [born EXCEPT ![c] = clock]
  BY DEF AcceptClient, AcceptOrphan, Accepted
<1>3. ASSUME NEW i \in Slot, purgedFd[i] # NoFd
      PROVE  /\ purgedFd[i] = fd[i] /\ fd[i] \in FD /\ fd[i] # f
             /\ sock'[fd[i]] = sock[fd[i]]
             /\ born'[sock'[fd[i]]] + MAX_LIFETIME = deadline[i]
  <2>1. purgedFd[i] = fd[i] /\ fd[i] \in FD /\ purgedSock[fd[i]] = sock[fd[i]]
    BY <1>1, <1>3, PurgeOnlyCloses
  <2>2. sock[fd[i]] \in Conn /\ sock[fd[i]] # c
    BY <1>3, <2>1 DEF Base, Typed, TypeOK, SoundNow, Sound
  <2>. QED BY <1>1, <1>2, <1>3, <2>1, <2>2 DEF DeadlineNow
<1>4. CASE AcceptOrphan(f, c)
  <2>1. fd' = purgedFd /\ UNCHANGED deadline
    BY <1>4 DEF AcceptOrphan
  <2>. QED BY <1>3, <2>1 DEF DeadlineNow
<1>5. CASE AcceptClient(f, c)
  <2>1. PICK j \in Slot : /\ fd' = [purgedFd EXCEPT ![j] = f]
                          /\ deadline' = [deadline EXCEPT ![j] = clock + MAX_LIFETIME]
    BY <1>5 DEF AcceptClient, NewDeadline
  <2>2. ASSUME NEW i \in Slot, fd'[i] # NoFd
        PROVE  deadline'[i] = born'[sock'[fd'[i]]] + MAX_LIFETIME
    BY <1>1, <1>2, <1>3, <2>1, <2>2
  <2>. QED BY <2>2 DEF DeadlineNow
<1>. QED BY <1>4, <1>5

LEMMA NextKeepsDeadline == Base /\ DeadlineNow /\ [Next]_vars => DeadlineNow'
<1>. SUFFICES ASSUME Base, DeadlineNow, [Next]_vars PROVE DeadlineNow'
  OBVIOUS
<1> USE DEF netVars, loopVars, tableVars, histVars
<1>1. CASE UNCHANGED <<fd, sock, deadline, born>>
  BY <1>1, ClosingKeepsDeadline
<1>2. CASE UnhandledEvent
  <2>1. PICK e \in events : LET S == {i \in Slot : fd[i] = e.fd} IN
          e.fd # Listener /\ fd' = FdWithout(S) /\ sock' = SockWithout(S)
    BY <1>2 DEF UnhandledEvent
  <2> DEFINE S == {i \in Slot : fd[i] = e.fd}
  <2>2. e.fd \in FD
    BY <2>1 DEF Base, Typed, TypeOK
  <2>3. S \in SUBSET Slot /\ \A i \in S : fd[i] \in FD
    BY <2>2
  <2>4. fd' = FdWithout(S) /\ sock' = SockWithout(S)
    BY <2>1
  <2> HIDE DEF S
  <2>. QED BY <1>2, <2>3, <2>4, OthersKeepSlot, ClosingKeepsDeadline DEF UnhandledEvent
<1>3. CASE fd' = purgedFd /\ sock' = purgedSock /\ UNCHANGED <<deadline, born>>
  BY <1>3, PurgeOnlyCloses, ClosingKeepsDeadline
<1>4. ASSUME NEW f \in FD, NEW c \in backlog, AcceptClient(f, c) \/ AcceptOrphan(f, c)
      PROVE  DeadlineNow'
  BY <1>4, AcceptKeepsDeadline
<1>5. ASSUME NEW i \in Slot, NEW c \in Conn, RecvClose(i, c) PROVE DeadlineNow'
  <2> DEFINE S == {i}
  <2>1. S \in SUBSET Slot /\ \A j \in S : fd[j] \in FD
    BY <1>5, ReceivingOpen DEF RecvClose
  <2>2. fd' = FdWithout(S) /\ sock' = SockWithout(S) /\ UNCHANGED <<deadline, born>>
    BY <1>5 DEF RecvClose
  <2> HIDE DEF S
  <2>. QED BY <2>1, <2>2, OthersKeepSlot, ClosingKeepsDeadline
<1>6. \/ UNCHANGED <<fd, sock, deadline, born>>
      \/ UnhandledEvent
      \/ fd' = purgedFd /\ sock' = purgedSock /\ UNCHANGED <<deadline, born>>
      \/ \E f \in FD, c \in backlog : AcceptClient(f, c) \/ AcceptOrphan(f, c)
      \/ \E i \in Slot, c \in Conn : RecvClose(i, c)
  BY DEF Next, Environment, Tick, Connect, Write, Shutdown, Reset, FromPeer, vars, mainloop,
         net_accept, recv_data, EpollWait, BatchDone, ConnectEvent, DataEvent, AcceptDrained,
         AcceptFails, NothingAccepted, SetupFails, RecvUnknown, RecvNothing, RecvPartial,
         RecvComplete
<1>. QED BY <1>1, <1>2, <1>3, <1>4, <1>5, <1>6

LEMMA DeadlineAlways == Spec => []DeadlineNow
<1>1. Init => DeadlineNow
  BY DEF Init, DeadlineNow
<1>. QED BY <1>1, NextKeepsDeadline, BaseAlways, PTL DEF Spec

(* Only clients_purge closes a connection as overdue. *)
LEMMA OnlyPurgeExpires ==
  ASSUME Base, [Next]_vars, NEW c \in Conn, why[c] = "live", why'[c] = "deadline"
  PROVE  \E i \in Expired : sock[fd[i]] = c
<1> USE DEF netVars, loopVars, tableVars, histVars
<1>1. ASSUME purgedWhy[c] = "deadline" PROVE \E i \in Expired : sock[fd[i]] = c
  BY <1>1 DEF purgedWhy, WhyWithout, FdsIn
<1>2. CASE SetupFails
  <2>1. PICK d \in backlog : why' = [purgedWhy EXCEPT ![d] = "setup"]
    BY <1>2 DEF SetupFails
  <2>2. purgedWhy[c] = "deadline"
    BY <2>1 DEF purgedWhy, WhyWithout
  <2>. QED BY <1>1, <2>2
<1>3. ~UnhandledEvent
  BY DEF UnhandledEvent, WhyWithout
<1>4. ASSUME NEW i \in Slot, NEW d \in Conn, RecvClose(i, d) PROVE FALSE
  BY <1>4 DEF RecvClose, WhyWithout
<1>. QED
  BY <1>1, <1>2, <1>3, <1>4 DEF Next, Environment, Tick, Connect, Write, Shutdown, Reset,
     FromPeer, vars, mainloop, net_accept, recv_data, EpollWait, BatchDone, ConnectEvent,
     DataEvent, AcceptDrained, AcceptFails, NothingAccepted, AcceptClient, AcceptOrphan,
     Accepted, RecvUnknown, RecvNothing, RecvPartial, RecvComplete

(* clients_purge (iris.c:735-750) closes no connection before MAX_LIFETIME *)
(* has passed since client_new gave it a slot, whoever had the slot before *)
(* and whatever its deadline was.                                          *)
THEOREM DeadlineKeptCorrect == Spec => DeadlineKept
<1>1. ASSUME Base, DeadlineNow, [Next]_vars, NEW c \in Conn, why[c] = "live", why'[c] = "deadline"
      PROVE  clock >= born[c] + MAX_LIFETIME
  <2>1. PICK i \in Slot : fd[i] # NoFd /\ past_deadline(clock, deadline[i]) /\ sock[fd[i]] = c
    BY <1>1, OnlyPurgeExpires DEF Expired
  <2>. QED BY <1>1, <2>1 DEF DeadlineNow, past_deadline
<1>2. Base /\ DeadlineNow /\ [Next]_vars =>
        [\A c \in Conn : why[c] = "live" /\ why'[c] = "deadline" =>
           clock >= born[c] + MAX_LIFETIME]_vars
  BY <1>1
<1>. QED BY <1>2, BaseAlways, DeadlineAlways, PTL DEF Spec, DeadlineKept

-----------------------------------------------------------------------------
(***************************************************************************)
(* The orphans.  With a slot for every descriptor the table is never full, *)
(* and nobody is accepted without one.                                     *)
(***************************************************************************)
(* Every open descriptor has its client. *)
Owned(f) == \E i \in Slot : fd[i] = f
NoOrphan == \A f \in FD : sock[f] # NoConn => Owned(f)

(* Closing slots closes their descriptors, and no others lose theirs. *)
LEMMA ClosingKeepsOwners ==
  ASSUME NoOrphan, NEW S \in SUBSET Slot
  PROVE  \A f \in FD : SockWithout(S)[f] # NoConn => \E i \in Slot : FdWithout(S)[i] = f
<1>. SUFFICES ASSUME NEW f \in FD, SockWithout(S)[f] # NoConn
              PROVE  \E i \in Slot : FdWithout(S)[i] = f
  OBVIOUS
<1>1. f \notin FdsIn(S) /\ sock[f] # NoConn
  BY DEF SockWithout
<1>2. PICK i \in Slot : fd[i] = f
  BY <1>1 DEF NoOrphan, Owned
<1>3. i \notin S
  BY <1>1, <1>2 DEF FdsIn
<1>. QED BY <1>2, <1>3 DEF FdWithout

LEMMA PurgeKeepsOwners ==
  ASSUME NoOrphan
  PROVE  \A f \in FD : purgedSock[f] # NoConn => \E i \in Slot : purgedFd[i] = f
<1>1. Expired \in SUBSET Slot
  BY DEF Expired
<1>. QED BY <1>1, ClosingKeepsOwners DEF purgedSock, purgedFd

(* A table with a slot for every descriptor has one left for a new one. *)
LEMMA SlotLeft ==
  ASSUME IsFiniteSet(FD), Cardinality(FD) <= NUM_CLIENTS, Base,
         NEW f \in FD, purgedSock[f] = NoConn
  PROVE  ~Absent(purgedFd, NoFd)
<1>. SUFFICES ASSUME Absent(purgedFd, NoFd) PROVE FALSE
  OBVIOUS
<1>1. purgedFd \in [Slot -> FD \cup {NoFd}] /\ Sound(purgedFd, purgedSock, purgedWhy, backlog, peer)
  BY CloseTyped, PurgeSound DEF Base, Typed, TypeOK, Reason, purgedFd
<1>2. \A i \in Slot : purgedFd[i] \in FD \ {f}
  BY <1>1 DEF Absent, Sound
<1>3. purgedFd \in [Slot -> FD \ {f}]
  BY <1>1, <1>2
<1>4. IsFiniteSet(FD \ {f}) /\ Cardinality(FD \ {f}) = Cardinality(FD) - 1
  BY FS_RemoveElement
<1>5. Cardinality(FD) \in Nat
  BY FS_CardinalityType
<1>6. IsFiniteSet(Slot) /\ Cardinality(Slot) = NUM_CLIENTS
  <2>1. NUM_CLIENTS - 1 \in Int /\ 0 \in Int
    OBVIOUS
  <2>2. NUM_CLIENTS > 0 \/ NUM_CLIENTS = 0
    OBVIOUS
  <2>3. IsFiniteSet(Slot) /\ Cardinality(Slot) = IF 0 > NUM_CLIENTS - 1 THEN 0 ELSE NUM_CLIENTS - 1 - 0 + 1
    BY <2>1, FS_Interval DEF Slot
  <2>. QED BY <2>2, <2>3
<1>7. PICK i, j \in Slot : i # j /\ purgedFd[i] = purgedFd[j]
  BY <1>3, <1>4, <1>5, <1>6, FS_PigeonHole
<1>. QED BY <1>1, <1>2, <1>7 DEF Sound

LEMMA NextKeepsOwners ==
  ASSUME IsFiniteSet(FD), Cardinality(FD) <= NUM_CLIENTS
  PROVE  Base /\ NoOrphan /\ [Next]_vars => NoOrphan'
<1>. SUFFICES ASSUME Base, NoOrphan, [Next]_vars PROVE NoOrphan'
  OBVIOUS
<1> USE DEF netVars, loopVars, tableVars, histVars
<1>1. CASE UNCHANGED <<fd, sock>>
  BY <1>1 DEF NoOrphan, Owned
<1>2. ASSUME NEW S \in SUBSET Slot, fd' = FdWithout(S), sock' = SockWithout(S) PROVE NoOrphan'
  BY <1>2, ClosingKeepsOwners DEF NoOrphan, Owned
<1>3. CASE fd' = purgedFd /\ sock' = purgedSock
  BY <1>3, PurgeKeepsOwners DEF NoOrphan, Owned
<1>4. ASSUME NEW f \in FD, NEW c \in backlog, AcceptClient(f, c) PROVE NoOrphan'
  <2>1. purgedFd \in [Slot -> FD \cup {NoFd}] /\ purgedSock \in [FD -> Conn \cup {NoConn}]
    BY CloseTyped DEF Base, Typed, TypeOK, Reason, purgedFd, purgedSock
  <2>2. PICK j \in Slot : purgedFd[j] = NoFd /\ fd' = [purgedFd EXCEPT ![j] = f]
    BY <1>4 DEF AcceptClient, Found
  <2>3. sock' = [purgedSock EXCEPT ![f] = c]
    BY <1>4 DEF AcceptClient, Accepted
  <2>4. ASSUME NEW g \in FD, sock'[g] # NoConn PROVE \E i \in Slot : fd'[i] = g
    <3>1. CASE g = f
      BY <2>1, <2>2, <3>1
    <3>2. CASE g # f
      <4>1. PICK i \in Slot : purgedFd[i] = g
        BY <2>1, <2>3, <2>4, <3>2, PurgeKeepsOwners
      <4>2. i # j
        BY <2>2, <4>1
      <4>. QED BY <2>1, <2>2, <4>1, <4>2
    <3>. QED BY <3>1, <3>2
  <2>. QED BY <2>4 DEF NoOrphan, Owned
<1>5. ASSUME NEW f \in FD, NEW c \in backlog, AcceptOrphan(f, c) PROVE FALSE
  BY <1>5, SlotLeft DEF AcceptOrphan, Accepted
<1>6. \/ UNCHANGED <<fd, sock>>
      \/ \E S \in SUBSET Slot : fd' = FdWithout(S) /\ sock' = SockWithout(S)
      \/ fd' = purgedFd /\ sock' = purgedSock
      \/ \E f \in FD, c \in backlog : AcceptClient(f, c) \/ AcceptOrphan(f, c)
  <2>1. ASSUME UnhandledEvent
        PROVE  \E S \in SUBSET Slot : fd' = FdWithout(S) /\ sock' = SockWithout(S)
    BY <2>1 DEF UnhandledEvent
  <2>2. ASSUME NEW i \in Slot, NEW c \in Conn, RecvClose(i, c)
        PROVE  \E S \in SUBSET Slot : fd' = FdWithout(S) /\ sock' = SockWithout(S)
    BY <2>2 DEF RecvClose
  <2>. QED
    BY <2>1, <2>2 DEF Next, Environment, Tick, Connect, Write, Shutdown, Reset, FromPeer, vars,
       mainloop, net_accept, recv_data, EpollWait, BatchDone, ConnectEvent, DataEvent,
       AcceptDrained, AcceptFails, NothingAccepted, SetupFails, RecvUnknown, RecvNothing,
       RecvPartial, RecvComplete
<1>. QED BY <1>1, <1>2, <1>3, <1>4, <1>5, <1>6

(* With a slot for every descriptor the process can have, no stalled       *)
(* sender survives the next net_accept (iris.c:410, 735-750), however      *)
(* slots and descriptors were reused.  The condition is what the Orphans   *)
(* run lacks.                                                              *)
THEOREM StalledPrunedCorrect ==
  ASSUME IsFiniteSet(FD), Cardinality(FD) <= NUM_CLIENTS PROVE Spec => StalledPruned
<1>1. ASSUME Base, DeadlineNow, NoOrphan, net_accept, NEW f \in FD, Overdue(f)
      PROVE  sock'[f] # sock[f]
  <2>1. sock[f] \in Conn /\ clock >= born[sock[f]] + MAX_LIFETIME
    BY <1>1 DEF Overdue
  <2>2. PICK i \in Slot : fd[i] = f
    BY <1>1, <2>1 DEF NoOrphan, Owned
  <2>3. i \in Expired
    BY <1>1, <2>1, <2>2 DEF Expired, past_deadline, DeadlineNow
  <2>4. purgedSock[f] = NoConn
    BY <2>2, <2>3 DEF purgedSock, SockWithout, FdsIn
  <2>5. ASSUME NEW g \in FD, NEW c \in backlog, Accepted(g, c) PROVE sock'[f] # sock[f]
    <3>1. c # sock[f]
      BY <1>1, <2>1 DEF Base, SoundNow, Sound
    <3>2. purgedSock \in [FD -> Conn \cup {NoConn}]
      BY <1>1, CloseTyped DEF Base, Typed, TypeOK, Reason, purgedSock
    <3>. QED BY <2>1, <2>4, <2>5, <3>1, <3>2 DEF Accepted
  <2>6. sock' = purgedSock \/ \E g \in FD, c \in backlog : Accepted(g, c)
    BY <1>1 DEF net_accept, AcceptDrained, AcceptFails, NothingAccepted, SetupFails,
           AcceptClient, AcceptOrphan
  <2>. QED BY <2>1, <2>4, <2>5, <2>6
<1>2. Init => NoOrphan
  BY DEF Init, NoOrphan
<1>3. Base /\ DeadlineNow /\ NoOrphan =>
        [net_accept => \A f \in FD : Overdue(f) => sock'[f] # sock[f]]_vars
  BY <1>1
<1>. QED
  BY <1>2, <1>3, NextKeepsOwners, BaseAlways, DeadlineAlways, PTL DEF Spec, StalledPruned
=============================================================================
