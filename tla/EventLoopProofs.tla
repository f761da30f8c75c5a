--------------------------- MODULE EventLoopProofs ---------------------------
(***************************************************************************)
(* What holds of EventLoop for every number of connections, descriptors    *)
(* and slots, every PDU size and every lifetime.                           *)
(***************************************************************************)
EXTENDS EventLoop, TLAPS

USE TableAssumption, FdAssumption, ConnAssumption, StreamAssumption,
    BoundAssumption, FlagAssumption, HookAssumption

(* Types alone are not inductive: that rd stays a natural number depends on *)
(* reads never overrunning a buffer or the bytes that arrived, and on        *)
(* recv_data being called for a descriptor.                                 *)
OffsetSmall == \A i \in Slot : offset[i] < PduSize
ReadArrived == \A c \in Conn : rd[c] <= wr[c]
ReceivingFd == pc = "recv" => cur \in FD
Typed == TypeOK /\ OffsetSmall /\ ReadArrived /\ ReceivingFd

LEMMA InitTyped == Init => Typed
BY DEF Init, Typed, TypeOK, OffsetSmall, ReadArrived, ReceivingFd, Slot, Pos, Blank, Byte,
       Status, Reason, Control

LEMMA PeersKeepTyped ==
  ASSUME Typed, Environment PROVE Typed'
<1> USE DEF Typed, TypeOK, OffsetSmall, ReadArrived, ReceivingFd, netVars, loopVars,
            tableVars, histVars, Status
<1>1. CASE Tick
  BY <1>1 DEF Tick
<1>2. ASSUME NEW c \in Conn, Connect(c) PROVE Typed'
  BY <1>2 DEF Connect
<1>3. ASSUME NEW c \in Conn, Write(c) PROVE Typed'
  BY <1>3 DEF Write, FromPeer, FdsOf
<1>4. ASSUME NEW c \in Conn, Shutdown(c) PROVE Typed'
  BY <1>4 DEF Shutdown, FromPeer, FdsOf
<1>5. ASSUME NEW c \in Conn, Reset(c) PROVE Typed'
  BY <1>5 DEF Reset, FromPeer, FdsOf
<1>6. QED
  BY <1>1, <1>2, <1>3, <1>4, <1>5 DEF Environment

-----------------------------------------------------------------------------
(* What closing the slots of S leaves is of the right type. *)
LEMMA CloseTyped ==
  ASSUME Typed, NEW S, NEW r \in Reason
  PROVE  /\ FdWithout(S) \in [Slot -> FD \cup {NoFd}]
         /\ SockWithout(S) \in [FD -> Conn \cup {NoConn}]
         /\ WhyWithout(S, r) \in [Conn -> Reason]
         /\ ready \ FdsIn(S) \subseteq FD \cup {Listener}
BY DEF Typed, TypeOK, FdWithout, SockWithout, WhyWithout, ClosedSlot

LEMMA DispatchKeepsTyped ==
  ASSUME Typed,
         EpollWait \/ BatchDone \/ ConnectEvent \/ DataEvent \/ UnhandledEvent
  PROVE  Typed'
<1> USE DEF Typed, TypeOK, OffsetSmall, ReadArrived, ReceivingFd, netVars, loopVars,
            tableVars, histVars, Control
<1>1. CASE EpollWait
  <2>1. PICK batch \in SUBSET {f \in ready : Readable(f)} :
          /\ \E alone \in SUBSET {f \in batch : ErrorOnly(f)} :
               events' = {[fd |-> f, epollin |-> f \notin alone] : f \in batch}
          /\ ready' = StillReady({f \in ready : Readable(f)}, batch)
    BY <1>1 DEF EpollWait
  <2>2. events' \subseteq [fd : FD \cup {Listener}, epollin : BOOLEAN]
    <3>1. batch \subseteq FD \cup {Listener}
      OBVIOUS
    <3>2. \A f \in batch : \A alone :
            [fd |-> f, epollin |-> f \notin alone]
              \in [fd : FD \cup {Listener}, epollin : BOOLEAN]
      <4>1. \A f, alone : (f \notin alone) \in BOOLEAN
        OBVIOUS
      <4>2. QED
        BY <3>1, <4>1
    <3>3. PICK alone \in SUBSET {f \in batch : ErrorOnly(f)} :
            events' = {[fd |-> f, epollin |-> f \notin alone] : f \in batch}
      BY <2>1
    <3>4. ASSUME NEW e \in events'
          PROVE  e \in [fd : FD \cup {Listener}, epollin : BOOLEAN]
      <4>1. PICK f \in batch : e = [fd |-> f, epollin |-> f \notin alone]
        BY <3>3
      <4>2. QED
        BY <3>2, <4>1
    <3>5. QED
      BY <3>4
  <2>3. ready' \subseteq FD \cup {Listener}
    BY <2>1 DEF StillReady
  <2>4. QED
    BY <1>1, <2>2, <2>3 DEF EpollWait
<1>2. CASE BatchDone
  BY <1>2 DEF BatchDone
<1>3. CASE ConnectEvent
  BY <1>3 DEF ConnectEvent
<1>4. CASE DataEvent
  BY <1>4 DEF DataEvent
<1>5. CASE UnhandledEvent
  <2>1. PICK S \in SUBSET Slot :
          /\ fd' = FdWithout(S)
          /\ sock' = SockWithout(S)
          /\ ready' = ready \ FdsIn(S)
          /\ why' = WhyWithout(S, "unhandled")
    BY <1>5 DEF UnhandledEvent
  <2>2. "unhandled" \in Reason
    BY DEF Reason
  <2>3. events' \subseteq events
    BY <1>5 DEF UnhandledEvent
  <2>4. QED
    BY <1>5, <2>1, <2>2, <2>3, CloseTyped DEF UnhandledEvent
<1>6. QED
  BY <1>1, <1>2, <1>3, <1>4, <1>5

LEMMA AcceptKeepsTyped ==
  ASSUME Typed, net_accept PROVE Typed'
<1> USE DEF Typed, TypeOK, OffsetSmall, ReadArrived, ReceivingFd, Control
<1>1. /\ purgedFd \in [Slot -> FD \cup {NoFd}]
      /\ purgedSock \in [FD -> Conn \cup {NoConn}]
      /\ purgedWhy \in [Conn -> Reason]
      /\ purgedReady \subseteq FD \cup {Listener}
  BY CloseTyped DEF purgedFd, purgedSock, purgedWhy, purgedReady, Reason
<1>2. CASE NothingAccepted
  BY <1>1, <1>2 DEF NothingAccepted, AfterFailure
<1>3. CASE SetupFails
  BY <1>1, <1>3 DEF SetupFails, AfterFailure, Reason
<1>4. ASSUME NEW f \in FD, NEW c \in backlog, AcceptClient(f, c) PROVE Typed'
  <2>1. Blank \in [Pos -> Byte]
    BY DEF Blank, Byte
  <2>2. PICK i \in Slot :
          /\ fd' = [purgedFd EXCEPT ![i] = f]
          /\ offset' = [offset EXCEPT ![i] = 0]
          /\ pdu' = [pdu EXCEPT ![i] = Blank]
          /\ deadline' = [deadline EXCEPT ![i] = clock + MAX_LIFETIME]
    BY <1>4 DEF AcceptClient, NewOffset, NewDeadline
  <2>3. /\ fd' \in [Slot -> FD \cup {NoFd}]
        /\ offset' \in [Slot -> Nat]
        /\ \A j \in Slot : offset'[j] < PduSize
        /\ pdu' \in [Slot -> [Pos -> Byte]]
        /\ deadline' \in [Slot -> Nat]
    BY <1>1, <2>1, <2>2
  <2>4. Accepted(f, c)
    BY <1>4 DEF AcceptClient
  <2>5. QED
    BY <1>1, <2>3, <2>4 DEF Accepted, Registered, AfterAccept
<1>5. ASSUME NEW f \in FD, NEW c \in backlog, AcceptOrphan(f, c) PROVE Typed'
  BY <1>1, <1>5 DEF AcceptOrphan, Accepted, Registered, AfterAccept
<1>6. QED
  BY <1>2, <1>3, <1>4, <1>5 DEF net_accept, AcceptDrained, AcceptFails

(* A read returns no more than what arrived and what the buffer holds. *)
LEMMA GotBounds ==
  ASSUME Typed, NEW i \in Slot, NEW c \in Conn
  PROVE  LET got == Got(c, offset[i]) IN
         /\ got \in Nat
         /\ rd[c] + got <= wr[c]
         /\ offset[i] + got <= PduSize
BY DEF Typed, TypeOK, OffsetSmall, ReadArrived, Got, Room

LEMMA ReadLen ==
  ASSUME Typed, NEW i \in Slot, NEW c \in Conn
  PROVE  LET len == pdu_read(c, offset[i]).len IN
         len > 0 => len = Got(c, offset[i])
BY GotBounds DEF pdu_read

LEMMA FilledTyped ==
  ASSUME Typed, NEW i \in Slot, NEW c \in Conn, NEW got \in Nat
  PROVE  Filled(i, c, got) \in [Pos -> Byte]
<1>1. ASSUME NEW b \in Pos, ~(b < offset[i] \/ b >= offset[i] + got)
      PROVE  <<c, rd[c] + (b - offset[i])>> \in Conn \X Nat
  BY <1>1 DEF Typed, TypeOK, Pos
<1>2. QED
  BY <1>1 DEF Typed, TypeOK, Filled, Byte

LEMMA SubmitTyped ==
  ASSUME Typed, NEW buf, Submit(buf) PROVE results' \in [Conn -> Seq(Nat)]
<1>1. results \in [Conn -> Seq(Nat)]
  BY DEF Typed, TypeOK
<1>2. CASE UNCHANGED results
  BY <1>1, <1>2
<1>3. ASSUME NEW c \in Conn, NEW k \in 0 .. MaxPdus - 1,
             results' = [results EXCEPT ![c] = Append(@, k)]
      PROVE  results' \in [Conn -> Seq(Nat)]
  <2>1. Append(results[c], k) \in Seq(Nat)
    BY <1>1
  <2>2. QED
    BY <1>1, <1>3, <2>1
<1>4. QED
  BY <1>2, <1>3 DEF Submit

LEMMA RecvKeepsTyped ==
  ASSUME Typed, recv_data PROVE Typed'
<1> USE DEF Typed, TypeOK, OffsetSmall, ReadArrived, ReceivingFd, Control, netVars,
            tableVars, histVars
<1>1. ASSUME Return PROVE pc' \in Control \ {"recv"}
  BY <1>1 DEF Return
<1>2. CASE RecvUnknown
  BY <1>1, <1>2 DEF RecvUnknown
<1>3. ASSUME NEW i \in Slot, NEW c \in Conn, RecvNothing(i, c) PROVE Typed'
  BY <1>1, <1>3 DEF RecvNothing
<1>4. ASSUME NEW i \in Slot, NEW c \in Conn, RecvClose(i, c) PROVE Typed'
  <2>1. "peer" \in Reason
    BY DEF Reason
  <2> DEFINE got == Got(c, offset[i])
  <2>0. got \in Nat /\ rd[c] + got <= wr[c] /\ rd' = [rd EXCEPT ![c] = @ + got]
    BY <1>4, GotBounds DEF RecvClose
  <2> HIDE DEF got
  <2>2. /\ rd' \in [Conn -> Nat]
        /\ \A d \in Conn : rd'[d] <= wr[d]
    BY <2>0
  <2>3. /\ fd' \in [Slot -> FD \cup {NoFd}]
        /\ sock' \in [FD -> Conn \cup {NoConn}]
        /\ ready' \subseteq FD \cup {Listener}
        /\ why' \in [Conn -> Reason]
    BY <1>4, <2>1, CloseTyped DEF RecvClose
  <2>4. pc' \in Control \ {"recv"}
    BY <1>1, <1>4 DEF RecvClose
  <2>5. /\ UNCHANGED <<peer, backlog, wr, clock, events, cur>>
        /\ UNCHANGED <<offset, pdu, deadline, taken, results, born>>
    BY <1>4 DEF RecvClose
  <2>6. QED
    BY <2>2, <2>3, <2>4, <2>5
<1>5. ASSUME NEW i \in Slot, NEW c \in Conn, RecvPartial(i, c) PROVE Typed'
  <2> DEFINE len == Got(c, offset[i])
  <2>1. /\ rd' = [rd EXCEPT ![c] = @ + len]
        /\ pdu' = [pdu EXCEPT ![i] = Filled(i, c, len)]
        /\ offset' = [offset EXCEPT ![i] = @ + len]
        /\ offset[i] + len < PduSize
    BY <1>5, ReadLen DEF RecvPartial
  <2>2. len \in Nat /\ rd[c] + len <= wr[c]
    BY GotBounds
  <2>3. Filled(i, c, len) \in [Pos -> Byte]
    BY <2>2, FilledTyped
  <2> HIDE DEF len
  <2>4. /\ rd' \in [Conn -> Nat]
        /\ \A d \in Conn : rd'[d] <= wr[d]
        /\ offset' \in [Slot -> Nat]
        /\ \A j \in Slot : offset'[j] < PduSize
        /\ pdu' \in [Slot -> [Pos -> Byte]]
    BY <2>1, <2>2, <2>3
  <2>5. QED
    BY <1>5, <2>4 DEF RecvPartial, AfterPartial, Receiving
<1>6. ASSUME NEW i \in Slot, NEW c \in Conn, RecvComplete(i, c) PROVE Typed'
  <2> DEFINE len == Got(c, offset[i])
  <2>1. /\ rd' = [rd EXCEPT ![c] = @ + len]
        /\ Submit(Filled(i, c, len))
        /\ pdu' = [pdu EXCEPT ![i] = Blank]
        /\ offset' = [offset EXCEPT ![i] = 0]
    BY <1>6, ReadLen DEF RecvComplete, AfterComplete
  <2>2. len \in Nat /\ rd[c] + len <= wr[c]
    BY GotBounds
  <2>3. Blank \in [Pos -> Byte]
    BY DEF Blank, Byte
  <2>4. results' \in [Conn -> Seq(Nat)]
    BY <2>1, SubmitTyped
  <2> HIDE DEF len
  <2>5. /\ rd' \in [Conn -> Nat]
        /\ \A d \in Conn : rd'[d] <= wr[d]
        /\ offset' \in [Slot -> Nat]
        /\ \A j \in Slot : offset'[j] < PduSize
        /\ pdu' \in [Slot -> [Pos -> Byte]]
    BY <2>1, <2>2, <2>3
  <2>6. /\ taken' = [taken EXCEPT ![c] = @ + 1]
        /\ pc = "recv" /\ pc' = "recv"
        /\ UNCHANGED <<peer, backlog, wr, sock, ready, clock, events, cur>>
        /\ UNCHANGED <<fd, deadline, why, born>>
    BY <1>6 DEF RecvComplete, AfterPdu, Receiving
  <2>7. taken' \in [Conn -> Nat] /\ cur' \in FD
    BY <2>6
  <2>8. QED
    BY <2>4, <2>5, <2>6, <2>7
<1>7. QED
  BY <1>2, <1>3, <1>4, <1>5, <1>6 DEF recv_data

LEMMA NextKeepsTyped == Typed /\ [Next]_vars => Typed'
<1>1. ASSUME Typed, UNCHANGED vars PROVE Typed'
  BY <1>1 DEF vars, netVars, loopVars, tableVars, histVars, Typed, TypeOK,
              OffsetSmall, ReadArrived, ReceivingFd
<1>2. QED
  BY <1>1, PeersKeepTyped, DispatchKeepsTyped, AcceptKeepsTyped, RecvKeepsTyped
     DEF Next, mainloop

LEMMA TypedAlways == Spec => []Typed
BY InitTyped, NextKeepsTyped, PTL DEF Spec

(* The state of the loop and of the client table keeps its types, for any   *)
(* number of connections, descriptors and slots.                            *)
THEOREM TypeCorrect == Spec => []TypeOK
<1>1. Typed => TypeOK
  BY DEF Typed
<1>2. QED
  BY <1>1, TypedAlways, PTL

-----------------------------------------------------------------------------
(***************************************************************************)
(* The client table.  net_accept purges the table and then uses it, so its *)
(* invariant is stated of any table F, descriptors K, close reasons W and  *)
(* accept queue Q; idle connections are added to make it inductive.        *)
(***************************************************************************)
Sound(F, K, W, Q, P) ==
  /\ \A i \in Slot : F[i] # NoFd => K[F[i]] # NoConn
  /\ \A i, j \in Slot : F[i] = F[j] /\ F[i] # NoFd => i = j
  /\ \A f, g \in FD : K[f] = K[g] /\ K[f] # NoConn => f = g
  /\ \A c \in Q : W[c] = "live" /\ P[c] # "idle" /\ \A f \in FD : K[f] # c
  /\ \A f \in FD : K[f] # NoConn => W[K[f]] = "live" /\ P[K[f]] # "idle"
  /\ \A c \in Conn : P[c] = "idle" => W[c] = "live"

SoundNow == Sound(fd, sock, why, backlog, peer)

LEMMA SoundIsTableOK == SoundNow => TableOK
BY DEF SoundNow, Sound, TableOK, SlotsOpen, SlotsDistinct, SocketsDistinct,
       QueuedIsNew, OpenIsLive, Open

LEMMA InitSound == Init => SoundNow
BY DEF Init, SoundNow, Sound

(* client_close and clients_purge keep it, *)
LEMMA CloseSound ==
  ASSUME Typed, SoundNow, NEW S \in SUBSET Slot, \A i \in S : fd[i] \in FD, NEW r
  PROVE  Sound(FdWithout(S), SockWithout(S), WhyWithout(S, r), backlog, peer)
<1> DEFINE F == FdWithout(S)
           K == SockWithout(S)
           W == WhyWithout(S, r)
<1> USE DEF Typed, TypeOK, SoundNow, Sound
<1>1. \A i \in Slot : F[i] = IF i \in S THEN NoFd ELSE fd[i]
  BY DEF FdWithout, ClosedSlot
<1>2. \A f \in FD : K[f] = IF f \in FdsIn(S) THEN NoConn ELSE sock[f]
  BY DEF SockWithout
<1>3. \A c \in Conn : W[c] # why[c] =>
        \E f \in FD : f \in FdsIn(S) /\ sock[f] = c
  BY DEF WhyWithout, FdsIn
<1>4. \A i \in Slot : F[i] # NoFd =>
        F[i] = fd[i] /\ F[i] \in FD /\ F[i] \notin FdsIn(S)
  <2>1. ASSUME NEW i \in Slot, F[i] # NoFd, fd[i] \in FdsIn(S) PROVE FALSE
    <3>1. PICK j \in S : fd[j] = fd[i]
      BY <2>1 DEF FdsIn
    <3>2. QED
      BY <1>1, <2>1, <3>1
  <2>2. QED
    BY <1>1, <2>1
<1> HIDE DEF F, K, W
<1>5. \A c \in Conn : W[c] # why[c] =>
        why[c] = "live" /\ peer[c] # "idle" /\ c \notin backlog
  BY <1>3
<1>6. \A f \in FD : K[f] # NoConn => W[K[f]] = "live"
  BY <1>2, <1>3
<1>7. Sound(F, K, W, backlog, peer)
  BY <1>1, <1>2, <1>4, <1>5, <1>6
<1>8. QED
  BY <1>7 DEF F, K, W

(* and so does handing a free descriptor and a free slot to the connection *)
(* that accept returns, or a free descriptor alone.                        *)
LEMMA AcceptSound ==
  ASSUME NEW F \in [Slot -> FD \cup {NoFd}], NEW K \in [FD -> Conn \cup {NoConn}],
         NEW W, NEW Q \in SUBSET Conn, NEW P, Sound(F, K, W, Q, P),
         NEW c \in Q, NEW f \in FD, K[f] = NoConn
  PROVE  /\ Sound(F, [K EXCEPT ![f] = c], W, Q \ {c}, P)
         /\ \A i \in Slot : F[i] = NoFd =>
              Sound([F EXCEPT ![i] = f], [K EXCEPT ![f] = c], W, Q \ {c}, P)
<1> DEFINE L == [K EXCEPT ![f] = c]
<1> USE DEF Sound
<1>1. \A g \in FD : L[g] = IF g = f THEN c ELSE K[g]
  OBVIOUS
<1>2. \A i \in Slot : F[i] # f
  OBVIOUS
<1> HIDE DEF L
<1>3. Sound(F, L, W, Q \ {c}, P)
  BY <1>1, <1>2
<1>4. ASSUME NEW i \in Slot, F[i] = NoFd
      PROVE  Sound([F EXCEPT ![i] = f], L, W, Q \ {c}, P)
  <2> DEFINE G == [F EXCEPT ![i] = f]
  <2>1. \A j \in Slot : G[j] = IF j = i THEN f ELSE F[j]
    OBVIOUS
  <2> HIDE DEF G
  <2>2. QED
    BY <1>1, <1>2, <1>3, <2>1 DEF G
<1>5. QED
  BY <1>3, <1>4 DEF L

LEMMA PurgeSound ==
  ASSUME Typed, SoundNow
  PROVE  Sound(purgedFd, purgedSock, purgedWhy, backlog, peer)
<1>1. Expired \in SUBSET Slot /\ \A i \in Expired : fd[i] \in FD
  BY DEF Typed, TypeOK, Expired
<1>2. QED
  BY <1>1, CloseSound DEF purgedFd, purgedSock, purgedWhy

LEMMA PeersKeepSound ==
  ASSUME Typed, SoundNow, Environment PROVE SoundNow'
<1> USE DEF Typed, TypeOK, SoundNow, Sound, loopVars, tableVars, histVars
<1>1. CASE Tick
  BY <1>1 DEF Tick
<1>2. ASSUME NEW c \in Conn, Connect(c) PROVE SoundNow'
  BY <1>2 DEF Connect
<1>3. ASSUME NEW c \in Conn, Write(c) PROVE SoundNow'
  BY <1>3 DEF Write, FromPeer
<1>4. ASSUME NEW c \in Conn, Shutdown(c) PROVE SoundNow'
  BY <1>4 DEF Shutdown, FromPeer
<1>5. ASSUME NEW c \in Conn, Reset(c) PROVE SoundNow'
  BY <1>5 DEF Reset, FromPeer
<1>6. QED
  BY <1>1, <1>2, <1>3, <1>4, <1>5 DEF Environment

LEMMA LoopKeepsSound ==
  ASSUME Typed, SoundNow, mainloop PROVE SoundNow'
<1>1. ASSUME UNCHANGED <<fd, sock, why, backlog, peer>> PROVE SoundNow'
  BY <1>1 DEF SoundNow, Sound
<1>2. CASE EpollWait
  BY <1>1, <1>2 DEF EpollWait, tableVars, histVars
<1>3. CASE BatchDone \/ ConnectEvent \/ DataEvent \/ RecvUnknown
  BY <1>1, <1>3 DEF BatchDone, ConnectEvent, DataEvent, RecvUnknown,
                    netVars, tableVars, histVars
<1>4. CASE UnhandledEvent
  <2>1. PICK e \in events : e.fd # Listener /\
          LET S == {i \in Slot : fd[i] = e.fd} IN
            /\ fd' = FdWithout(S)
            /\ sock' = SockWithout(S)
            /\ why' = WhyWithout(S, "unhandled")
    BY <1>4 DEF UnhandledEvent
  <2>2. e.fd \in FD
    BY <2>1 DEF Typed, TypeOK
  <2>3. Sound(fd', sock', why', backlog, peer)
    BY <2>1, <2>2, CloseSound
  <2>4. QED
    BY <1>4, <2>3 DEF UnhandledEvent, SoundNow
<1>5. CASE NothingAccepted
  BY <1>5, PurgeSound DEF NothingAccepted, SoundNow
<1>6. CASE SetupFails
  <2>1. PICK c \in backlog : /\ backlog' = backlog \ {c}
                             /\ why' = [purgedWhy EXCEPT ![c] = "setup"]
    BY <1>6 DEF SetupFails
  <2>2. purgedWhy \in [Conn -> Reason] /\ c \in Conn
    BY CloseTyped DEF Typed, TypeOK, Reason, purgedWhy
  <2>3. \A d \in Conn : why'[d] = IF d = c THEN "setup" ELSE purgedWhy[d]
    BY <2>1, <2>2
  <2>4. purgedSock \in [FD -> Conn \cup {NoConn}] /\ backlog \subseteq Conn
    BY CloseTyped DEF Typed, TypeOK, Reason, purgedSock
  <2>5. Sound(purgedFd, purgedSock, why', backlog', peer)
    BY <2>1, <2>3, <2>4, PurgeSound DEF Sound
  <2>6. QED
    BY <1>6, <2>5 DEF SetupFails, SoundNow
<1>7. ASSUME NEW f \in FD, NEW c \in backlog, AcceptClient(f, c) \/ AcceptOrphan(f, c)
      PROVE  SoundNow'
  <2>1. /\ purgedFd \in [Slot -> FD \cup {NoFd}]
        /\ purgedSock \in [FD -> Conn \cup {NoConn}]
        /\ backlog \in SUBSET Conn
    BY CloseTyped DEF Typed, TypeOK, Reason, purgedFd, purgedSock
  <2>2. /\ purgedSock[f] = NoConn /\ sock' = [purgedSock EXCEPT ![f] = c]
        /\ why' = purgedWhy /\ backlog' = backlog \ {c} /\ peer' = peer
    BY <1>7 DEF AcceptClient, AcceptOrphan, Accepted
  <2>3. \/ fd' = purgedFd
        \/ \E i \in Slot : purgedFd[i] = NoFd /\ fd' = [purgedFd EXCEPT ![i] = f]
    BY <1>7 DEF AcceptClient, AcceptOrphan, Found
  <2>4. /\ Sound(purgedFd, sock', why', backlog', peer)
        /\ \A i \in Slot : purgedFd[i] = NoFd =>
             Sound([purgedFd EXCEPT ![i] = f], sock', why', backlog', peer)
    <3>1. Sound(purgedFd, purgedSock, purgedWhy, backlog, peer)
      BY PurgeSound
    <3>2. /\ Sound(purgedFd, [purgedSock EXCEPT ![f] = c], purgedWhy,
                   backlog \ {c}, peer)
          /\ \A i \in Slot : purgedFd[i] = NoFd =>
               Sound([purgedFd EXCEPT ![i] = f], [purgedSock EXCEPT ![f] = c],
                     purgedWhy, backlog \ {c}, peer)
      BY ONLY <2>1, <2>2, <3>1, AcceptSound
    <3>3. QED
      BY ONLY <2>2, <3>2
  <2>5. Sound(fd', sock', why', backlog', peer')
    BY ONLY <2>2, <2>3, <2>4
  <2>6. QED
    BY <2>5 DEF SoundNow
<1>8. ASSUME NEW i \in Slot, NEW c \in Conn, RecvClose(i, c) PROVE SoundNow'
  <2>1. {i} \in SUBSET Slot /\ fd[i] \in FD
    BY <1>8 DEF RecvClose, Receiving, Found, Typed, ReceivingFd
  <2>2. Sound(FdWithout({i}), SockWithout({i}), WhyWithout({i}, "peer"), backlog, peer)
    BY <2>1, CloseSound
  <2>3. QED
    BY <1>8, <2>2 DEF RecvClose, SoundNow
<1>9. ASSUME NEW i \in Slot, NEW c \in Conn,
             RecvNothing(i, c) \/ RecvPartial(i, c) \/ RecvComplete(i, c)
      PROVE  SoundNow'
  BY <1>1, <1>9 DEF RecvNothing, RecvPartial, RecvComplete, netVars, tableVars,
                    histVars
<1>10. QED
  BY <1>2, <1>3, <1>4, <1>5, <1>6, <1>7, <1>8, <1>9
     DEF mainloop, net_accept, recv_data, AcceptDrained, AcceptFails

LEMMA NextKeepsSound == Typed /\ SoundNow /\ [Next]_vars => SoundNow'
<1>1. ASSUME SoundNow, UNCHANGED vars PROVE SoundNow'
  BY <1>1 DEF vars, netVars, tableVars, histVars, SoundNow, Sound
<1>2. QED
  BY <1>1, PeersKeepSound, LoopKeepsSound DEF Next

LEMMA SoundAlways == Spec => []SoundNow
BY InitSound, NextKeepsSound, TypedAlways, PTL DEF Spec

(* The client table, the descriptors and the accept queue never disagree:  *)
(* client_find, client_new and client_close always act on the one slot     *)
(* that is meant.                                                          *)
THEOREM TableCorrect == Spec => []TableOK
BY SoundIsTableOK, SoundAlways, PTL

-----------------------------------------------------------------------------
(***************************************************************************)
(* Framing.  A connection that is queued, or that nobody has made yet, has *)
(* not been read: so a new client starts at the first byte of its stream.  *)
(***************************************************************************)
Framed(i) ==
  fd[i] # NoFd =>
    LET c == sock[fd[i]] IN
    /\ rd[c] = PduSize * taken[c] + offset[i]
    /\ \A b \in Pos : b < offset[i] => pdu[i][b] = <<c, PduSize * taken[c] + b>>
Unread == \A c \in Conn : why[c] = "live" /\ ~Open(c) => rd[c] = 0 /\ taken[c] = 0
FramingNow == (\A i \in Slot : Framed(i)) /\ Unread

Base == Typed /\ SoundNow

LEMMA BaseAlways == Spec => []Base
BY TypedAlways, SoundAlways, PTL DEF Base

LEMMA FramingNowIsFraming == Typed /\ FramingNow => Framing
BY DEF FramingNow, Framed, Framing, Typed, OffsetSmall

LEMMA InitFraming == Init => FramingNow
BY DEF Init, FramingNow, Framed, Unread

(* Steps that neither read nor accept keep it: they only close.            *)
LEMMA ClosingKeepsFraming ==
  ASSUME Base, FramingNow,
         \A i \in Slot : fd'[i] # NoFd => fd'[i] = fd[i] /\ sock'[fd[i]] = sock[fd[i]],
         \A c \in Conn : why'[c] = "live" =>
           why[c] = "live" /\ \A f \in FD : sock[f] = c => sock'[f] = c,
         UNCHANGED <<offset, pdu, taken, rd>>
  PROVE  FramingNow'
<1>1. ASSUME NEW i \in Slot PROVE Framed(i)'
  BY <1>1 DEF FramingNow, Framed
<1>2. Unread'
  BY DEF FramingNow, Unread, Open
<1>3. QED
  BY <1>1, <1>2 DEF FramingNow

(* What client_close and clients_purge do is such a step. *)
LEMMA OthersKeepSlot ==
  ASSUME Base, NEW S \in SUBSET Slot, \A i \in S : fd[i] \in FD
  PROVE  \A i \in Slot : FdWithout(S)[i] # NoFd =>
           FdWithout(S)[i] = fd[i] /\ SockWithout(S)[fd[i]] = sock[fd[i]]
<1> SUFFICES ASSUME NEW i \in Slot, FdWithout(S)[i] # NoFd
             PROVE  FdWithout(S)[i] = fd[i] /\ SockWithout(S)[fd[i]] = sock[fd[i]]
  OBVIOUS
<1>1. i \notin S /\ FdWithout(S)[i] = fd[i] /\ fd[i] \in FD
  BY DEF FdWithout, ClosedSlot, Base, Typed, TypeOK
<1>2. fd[i] \notin FdsIn(S)
  <2>1. ASSUME NEW j \in S, fd[j] = fd[i] PROVE FALSE
    BY <1>1, <2>1 DEF Base, SoundNow, Sound
  <2>2. QED
    BY <2>1 DEF FdsIn
<1>3. QED
  BY <1>1, <1>2 DEF SockWithout

LEMMA LiveKeepSocket ==
  ASSUME NEW S, NEW r, r # "live"
  PROVE  \A c \in Conn : WhyWithout(S, r)[c] = "live" =>
           why[c] = "live" /\ \A f \in FD : sock[f] = c => SockWithout(S)[f] = c
BY DEF WhyWithout, SockWithout

LEMMA PurgeOnlyCloses ==
  ASSUME Base
  PROVE  /\ \A i \in Slot : purgedFd[i] # NoFd =>
              purgedFd[i] = fd[i] /\ purgedSock[fd[i]] = sock[fd[i]]
         /\ \A c \in Conn : purgedWhy[c] = "live" =>
              why[c] = "live" /\ \A f \in FD : sock[f] = c => purgedSock[f] = c
<1>1. Expired \in SUBSET Slot /\ \A i \in Expired : fd[i] \in FD
  BY DEF Base, Typed, TypeOK, Expired
<1>2. QED
  BY <1>1, OthersKeepSlot, LiveKeepSocket DEF purgedFd, purgedSock, purgedWhy

LEMMA PeersKeepFraming ==
  ASSUME Base, FramingNow, Environment PROVE FramingNow'
<1>1. UNCHANGED <<fd, sock, why, offset, pdu, taken, rd>>
  BY DEF Environment, Tick, Connect, Write, Shutdown, Reset, FromPeer,
         tableVars, histVars
<1>2. QED
  BY <1>1, ClosingKeepsFraming

(* A client accepted as f gets a slot with an empty buffer.                *)
LEMMA AcceptKeepsFraming ==
  ASSUME Base, FramingNow, NEW f \in FD, NEW c \in backlog,
         AcceptClient(f, c) \/ AcceptOrphan(f, c)
  PROVE  FramingNow'
<1>1. /\ purgedFd \in [Slot -> FD \cup {NoFd}]
      /\ purgedSock \in [FD -> Conn \cup {NoConn}]
      /\ offset \in [Slot -> Nat] /\ pdu \in [Slot -> [Pos -> Byte]]
      /\ c \in Conn
  BY CloseTyped DEF Base, Typed, TypeOK, Reason, purgedFd, purgedSock
<1>2. /\ purgedSock[f] = NoConn /\ sock' = [purgedSock EXCEPT ![f] = c]
      /\ why' = purgedWhy /\ UNCHANGED <<taken, rd>>
  BY DEF AcceptClient, AcceptOrphan, Accepted
<1>3. rd[c] = 0 /\ taken[c] = 0
  BY <1>1 DEF Base, SoundNow, Sound, FramingNow, Unread, Open
<1>4. Unread'
  <2>1. ASSUME NEW d \in Conn, why'[d] = "live", NEW g \in FD, sock[g] = d
        PROVE  sock'[g] = d
    <3>1. purgedSock[g] = d /\ g # f
      BY <1>2, <2>1, PurgeOnlyCloses
    <3>2. QED
      BY <1>1, <1>2, <3>1
  <2>2. \A d \in Conn : why'[d] = "live" => why[d] = "live"
    BY <1>2, PurgeOnlyCloses
  <2>3. QED
    BY <1>2, <2>1, <2>2 DEF FramingNow, Unread, Open
<1>5. ASSUME NEW i \in Slot, purgedFd[i] # NoFd
      PROVE  purgedFd[i] = fd[i] /\ fd[i] # f /\ sock'[fd[i]] = sock[fd[i]]
  <2>1. fd[i] \in FD /\ fd[i] # NoFd /\ purgedSock[fd[i]] = sock[fd[i]]
    BY <1>1, <1>5, PurgeOnlyCloses
  <2>2. sock[fd[i]] # NoConn
    BY <2>1 DEF Base, SoundNow, Sound
  <2>3. QED
    BY <1>1, <1>2, <1>5, <2>1, <2>2, PurgeOnlyCloses
<1>6. CASE AcceptOrphan(f, c)
  <2>1. fd' = purgedFd /\ UNCHANGED <<offset, pdu>>
    BY <1>6 DEF AcceptOrphan
  <2>2. ASSUME NEW i \in Slot PROVE Framed(i)'
    BY <1>2, <1>5, <2>1 DEF FramingNow, Framed
  <2>3. QED
    BY <1>4, <2>2 DEF FramingNow
<1>7. CASE AcceptClient(f, c)
  <2>1. PICK i \in Slot : /\ purgedFd[i] = NoFd
                          /\ fd' = [purgedFd EXCEPT ![i] = f]
                          /\ offset' = [offset EXCEPT ![i] = 0]
                          /\ pdu' = [pdu EXCEPT ![i] = Blank]
    BY <1>7 DEF AcceptClient, Found, NewOffset
  <2>2. Framed(i)'
    <3>1. fd'[i] = f /\ offset'[i] = 0 /\ sock'[f] = c
      BY <1>1, <1>2, <2>1
    <3>2. QED
      BY <1>2, <1>3, <3>1 DEF Framed, Pos
  <2>3. ASSUME NEW j \in Slot, j # i PROVE Framed(j)'
    <3>1. fd'[j] = purgedFd[j] /\ offset'[j] = offset[j] /\ pdu'[j] = pdu[j]
      BY <1>1, <2>1, <2>3
    <3>2. QED
      BY <1>2, <1>5, <3>1 DEF FramingNow, Framed
  <2>4. QED
    BY <1>4, <2>2, <2>3 DEF FramingNow
<1>8. QED
  BY <1>6, <1>7

(* recv_data appends what it read to the buffer of the client, and starts  *)
(* over after a whole PDU; no other client is touched.                     *)
LEMMA RecvOthers ==
  ASSUME Base, FramingNow, NEW i \in Slot, NEW c \in Conn, Receiving(i, c),
         UNCHANGED <<fd, sock, why>>,
         \A d \in Conn : d # c => rd'[d] = rd[d] /\ taken'[d] = taken[d],
         \A j \in Slot : j # i => offset'[j] = offset[j] /\ pdu'[j] = pdu[j]
  PROVE  /\ fd[i] = cur /\ cur \in FD /\ sock[cur] = c /\ fd[i] # NoFd
         /\ rd[c] = PduSize * taken[c] + offset[i]
         /\ Framed(i)' => FramingNow'
<1>1. fd[i] = cur /\ cur \in FD /\ sock[cur] = c /\ fd[i] # NoFd
  BY DEF Receiving, Found, Base, Typed, ReceivingFd
<1>2. rd[c] = PduSize * taken[c] + offset[i]
  BY <1>1 DEF FramingNow, Framed
<1>3. ASSUME NEW j \in Slot, j # i PROVE Framed(j)'
  <2>1. CASE fd[j] = NoFd
    BY <2>1 DEF Framed
  <2>2. CASE fd[j] # NoFd
    <3>1. fd[j] \in FD /\ fd[j] # fd[i] /\ sock[fd[j]] \in Conn
      BY <1>1, <1>3, <2>2 DEF Base, Typed, TypeOK, SoundNow, Sound
    <3>2. sock[fd[j]] # c
      BY <1>1, <3>1 DEF Base, SoundNow, Sound
    <3>3. QED
      BY <1>3, <3>1, <3>2 DEF FramingNow, Framed
  <2>3. QED
    BY <2>1, <2>2
<1>4. Unread'
  <2>1. Open(c)'
    BY <1>1 DEF Open
  <2>2. QED
    BY <2>1 DEF FramingNow, Unread, Open
<1>5. QED
  BY <1>1, <1>2, <1>3, <1>4 DEF FramingNow

LEMMA RecvPartialKeepsFraming ==
  ASSUME Base, FramingNow, NEW i \in Slot, NEW c \in Conn, RecvPartial(i, c)
  PROVE  FramingNow'
<1> DEFINE len == Got(c, offset[i])
           buf == Filled(i, c, len)
<1>1. /\ Receiving(i, c)
      /\ rd' = [rd EXCEPT ![c] = @ + len]
      /\ pdu' = [pdu EXCEPT ![i] = buf]
      /\ offset' = [offset EXCEPT ![i] = @ + len]
      /\ UNCHANGED <<fd, sock, why, taken>>
  BY ReadLen DEF RecvPartial, Base, histVars
<1>2. len \in Nat
  BY GotBounds DEF Base
<1>3. \A b \in Pos : buf[b] = IF b < offset[i] \/ b >= offset[i] + len
                                THEN pdu[i][b]
                                ELSE <<c, rd[c] + (b - offset[i])>>
  BY DEF Filled
<1> HIDE DEF len, buf
<1>4. /\ rd \in [Conn -> Nat] /\ offset \in [Slot -> Nat]
      /\ pdu \in [Slot -> [Pos -> Byte]] /\ taken \in [Conn -> Nat]
  BY DEF Base, Typed, TypeOK
<1>5. /\ \A d \in Conn : d # c => rd'[d] = rd[d] /\ taken'[d] = taken[d]
      /\ \A j \in Slot : j # i => offset'[j] = offset[j] /\ pdu'[j] = pdu[j]
      /\ rd'[c] = rd[c] + len /\ offset'[i] = offset[i] + len /\ pdu'[i] = buf
  BY <1>1, <1>4
<1>6. /\ fd[i] = cur /\ sock[cur] = c /\ fd[i] # NoFd
      /\ rd[c] = PduSize * taken[c] + offset[i]
      /\ Framed(i)' => FramingNow'
  BY <1>1, <1>5, RecvOthers
<1>7. PduSize * taken[c] \in Nat
  BY <1>4
<1>8. ASSUME NEW b \in Pos, b < offset[i] + len
      PROVE  buf[b] = <<c, PduSize * taken[c] + b>>
  <2>1. b \in Int /\ offset[i] \in Nat
    BY <1>4 DEF Pos
  <2>2. CASE b < offset[i]
    BY <1>3, <1>6, <2>2 DEF FramingNow, Framed
  <2>3. CASE ~(b < offset[i])
    <3>1. rd[c] + (b - offset[i]) = PduSize * taken[c] + b
      BY <1>6, <1>7, <2>1
    <3>2. ~(b >= offset[i] + len)
      BY <1>2, <1>8, <2>1
    <3>3. buf[b] = <<c, rd[c] + (b - offset[i])>>
      BY <1>3, <2>3, <3>2
    <3>4. QED
      BY <3>1, <3>3
  <2>4. QED
    BY <2>2, <2>3
<1>9. rd'[c] = PduSize * taken[c] + offset'[i]
  BY <1>2, <1>4, <1>5, <1>6, <1>7
<1>10. Framed(i)'
  BY <1>1, <1>5, <1>6, <1>8, <1>9 DEF Framed
<1>11. QED
  BY <1>6, <1>10

(* A PDU is complete exactly when the buffer is full. *)
LEMMA RecvCompleteFills ==
  ASSUME Base, FramingNow, NEW i \in Slot, NEW c \in Conn, RecvComplete(i, c)
  PROVE  LET len == Got(c, offset[i]) IN
         /\ len \in Nat /\ offset[i] + len = PduSize
         /\ rd[c] + len = PduSize * (taken[c] + 1)
         /\ rd' = [rd EXCEPT ![c] = @ + len]
         /\ taken' = [taken EXCEPT ![c] = @ + 1]
         /\ pdu' = [pdu EXCEPT ![i] = Blank]
         /\ offset' = [offset EXCEPT ![i] = 0]
         /\ UNCHANGED <<fd, sock, why, wr>>
         /\ FramingNow'
<1> DEFINE len == Got(c, offset[i])
<1>1. /\ Receiving(i, c) /\ offset[i] + len >= PduSize
      /\ rd' = [rd EXCEPT ![c] = @ + len]
      /\ taken' = [taken EXCEPT ![c] = @ + 1]
      /\ pdu' = [pdu EXCEPT ![i] = Blank]
      /\ offset' = [offset EXCEPT ![i] = 0]
      /\ UNCHANGED <<fd, sock, why, wr>>
  BY ReadLen DEF RecvComplete, Base, AfterComplete
<1>2. len \in Nat /\ offset[i] + len <= PduSize
  BY GotBounds DEF Base
<1> HIDE DEF len
<1>3. /\ rd \in [Conn -> Nat] /\ offset \in [Slot -> Nat]
      /\ pdu \in [Slot -> [Pos -> Byte]] /\ taken \in [Conn -> Nat]
  BY DEF Base, Typed, TypeOK
<1>4. offset[i] + len = PduSize
  <2>1. offset[i] \in Nat /\ offset[i] + len >= PduSize
    BY <1>1, <1>3
  <2>2. QED
    BY <1>2, <2>1
<1>5. /\ \A d \in Conn : d # c => rd'[d] = rd[d] /\ taken'[d] = taken[d]
      /\ \A j \in Slot : j # i => offset'[j] = offset[j] /\ pdu'[j] = pdu[j]
      /\ rd'[c] = rd[c] + len /\ offset'[i] = 0 /\ taken'[c] = taken[c] + 1
  BY <1>1, <1>3
<1>6. /\ fd[i] = cur /\ sock[cur] = c /\ fd[i] # NoFd
      /\ rd[c] = PduSize * taken[c] + offset[i]
      /\ Framed(i)' => FramingNow'
  BY <1>1, <1>5, RecvOthers
<1>7. PduSize * taken[c] \in Nat /\ PduSize * (taken[c] + 1) = PduSize * taken[c] + PduSize
  BY <1>3
<1>8. rd[c] + len = PduSize * (taken[c] + 1)
  BY <1>2, <1>3, <1>4, <1>6, <1>7
<1>9. Framed(i)'
  <2>1. rd'[c] = PduSize * taken'[c] + offset'[i]
    BY <1>5, <1>7, <1>8
  <2>2. \A b \in Pos : ~(b < offset'[i])
    BY <1>5 DEF Pos
  <2>3. QED
    BY <1>1, <1>6, <2>1, <2>2 DEF Framed
<1>10. QED
  BY <1>1, <1>2, <1>4, <1>6, <1>8, <1>9 DEF len

LEMMA LoopKeepsFraming ==
  ASSUME Base, FramingNow, mainloop PROVE FramingNow'
<1> DEFINE closing ==
      /\ \A i \in Slot : fd'[i] # NoFd => fd'[i] = fd[i] /\ sock'[fd[i]] = sock[fd[i]]
      /\ \A c \in Conn : why'[c] = "live" =>
           why[c] = "live" /\ \A f \in FD : sock[f] = c => sock'[f] = c
<1>1. ASSUME closing, UNCHANGED <<offset, pdu, taken, rd>> PROVE FramingNow'
  BY <1>1, ClosingKeepsFraming
<1>2. ASSUME UNCHANGED <<fd, sock, why>> PROVE closing
  BY <1>2
<1>3. CASE EpollWait \/ BatchDone \/ ConnectEvent \/ DataEvent \/ RecvUnknown
  BY <1>1, <1>2, <1>3 DEF EpollWait, BatchDone, ConnectEvent, DataEvent,
                          RecvUnknown, netVars, tableVars, histVars
<1>4. CASE UnhandledEvent
  <2>1. PICK e \in events : e.fd # Listener /\
          LET S == {i \in Slot : fd[i] = e.fd} IN
            /\ fd' = FdWithout(S)
            /\ sock' = SockWithout(S)
            /\ why' = WhyWithout(S, "unhandled")
    BY <1>4 DEF UnhandledEvent
  <2>2. e.fd \in FD
    BY <2>1 DEF Base, Typed, TypeOK
  <2> DEFINE S == {i \in Slot : fd[i] = e.fd}
  <2>3. S \in SUBSET Slot /\ \A i \in S : fd[i] \in FD
    BY <2>2
  <2>4. fd' = FdWithout(S) /\ sock' = SockWithout(S) /\ why' = WhyWithout(S, "unhandled")
    BY <2>1
  <2> HIDE DEF S
  <2>5. closing
    BY <2>3, <2>4, OthersKeepSlot, LiveKeepSocket
  <2>6. QED
    BY <1>1, <1>4, <2>5 DEF UnhandledEvent
<1>5. CASE NothingAccepted
  BY <1>1, <1>5, PurgeOnlyCloses DEF NothingAccepted
<1>6. CASE SetupFails
  <2>1. PICK c \in backlog : why' = [purgedWhy EXCEPT ![c] = "setup"]
    BY <1>6 DEF SetupFails
  <2>2. purgedWhy \in [Conn -> Reason]
    BY CloseTyped DEF Base, Typed, TypeOK, Reason, purgedWhy
  <2>3. \A d \in Conn : why'[d] = "live" => purgedWhy[d] = "live"
    BY <2>1, <2>2
  <2>4. closing
    BY <1>6, <2>3, PurgeOnlyCloses DEF SetupFails
  <2>5. QED
    BY <1>1, <1>6, <2>4 DEF SetupFails
<1>7. ASSUME NEW f \in FD, NEW c \in backlog, AcceptClient(f, c) \/ AcceptOrphan(f, c)
      PROVE  FramingNow'
  BY <1>7, AcceptKeepsFraming
<1>8. ASSUME NEW i \in Slot, NEW c \in Conn, RecvNothing(i, c) PROVE FramingNow'
  BY <1>1, <1>2, <1>8 DEF RecvNothing, netVars, tableVars, histVars
<1>9. ASSUME NEW i \in Slot, NEW c \in Conn, RecvClose(i, c) PROVE FramingNow'
  <2>1. /\ fd' = FdWithout({i}) /\ sock' = SockWithout({i})
        /\ why' = WhyWithout({i}, "peer")
        /\ UNCHANGED <<offset, pdu, taken>>
        /\ \A d \in Conn : d # c => rd'[d] = rd[d]
        /\ fd[i] = cur /\ sock[cur] = c /\ cur \in FD
    BY <1>9 DEF RecvClose, Receiving, Found, Base, Typed, TypeOK, ReceivingFd
  <2>2. closing
    <3> DEFINE S == {i}
    <3>1. /\ S \in SUBSET Slot /\ \A j \in S : fd[j] \in FD
          /\ fd' = FdWithout(S) /\ sock' = SockWithout(S)
          /\ why' = WhyWithout(S, "peer")
      BY <2>1
    <3> HIDE DEF S
    <3>2. QED
      BY <3>1, OthersKeepSlot, LiveKeepSocket
  <2>3. ASSUME NEW j \in Slot, fd'[j] # NoFd PROVE sock[fd[j]] # c
    <3>1. fd'[j] = fd[j] /\ j # i
      BY <2>1, <2>2, <2>3 DEF FdWithout, ClosedSlot
    <3>2. fd[j] # cur /\ fd[j] \in FD
      BY <2>1, <2>3, <3>1 DEF Base, SoundNow, Sound, Typed, TypeOK
    <3>3. QED
      BY <2>1, <3>2 DEF Base, SoundNow, Sound
  <2>4. ASSUME NEW j \in Slot PROVE Framed(j)'
    <3>1. CASE fd'[j] = NoFd
      BY <3>1 DEF Framed
    <3>2. CASE fd'[j] # NoFd
      <4>1. fd[j] \in FD /\ sock[fd[j]] \in Conn /\ fd'[j] = fd[j]
        BY <2>2, <3>2 DEF Base, SoundNow, Sound, Typed, TypeOK
      <4>2. sock'[fd'[j]] = sock[fd[j]] /\ sock[fd[j]] # c /\ fd[j] # NoFd
        BY <2>2, <2>3, <3>2, <4>1
      <4>3. rd'[sock[fd[j]]] = rd[sock[fd[j]]]
        BY <2>1, <4>1, <4>2
      <4>4. Framed(j)
        BY DEF FramingNow
      <4>5. QED
        BY <2>1, <4>1, <4>2, <4>3, <4>4 DEF Framed
    <3>3. QED
      BY <3>1, <3>2
  <2>5. Unread'
    <3>1. why'[c] # "live"
      BY <2>1 DEF WhyWithout, FdsIn
    <3>2. QED
      BY <2>1, <2>2, <3>1, ZenonT(40) DEF FramingNow, Unread, Open
  <2>6. QED
    BY <2>4, <2>5 DEF FramingNow
<1>10. ASSUME NEW i \in Slot, NEW c \in Conn, RecvPartial(i, c) \/ RecvComplete(i, c)
       PROVE  FramingNow'
  BY <1>10, RecvPartialKeepsFraming, RecvCompleteFills
<1>11. QED
  BY <1>3, <1>4, <1>5, <1>6, <1>7, <1>8, <1>9, <1>10
     DEF mainloop, net_accept, recv_data, AcceptDrained, AcceptFails

LEMMA NextKeepsFraming == Base /\ FramingNow /\ [Next]_vars => FramingNow'
<1>1. ASSUME Base, FramingNow, UNCHANGED vars PROVE FramingNow'
  BY <1>1, ClosingKeepsFraming DEF vars, netVars, tableVars, histVars
<1>2. QED
  BY <1>1, PeersKeepFraming, LoopKeepsFraming DEF Next

LEMMA FramingAlways == Spec => []FramingNow
BY InitFraming, NextKeepsFraming, BaseAlways, PTL DEF Spec

(* Each client's buffer holds the bytes of its own stream that follow its  *)
(* last whole PDU, for any PDU size and any sizes of the reads.            *)
THEOREM FramingCorrect == Spec => []Framing
BY FramingNowIsFraming, FramingAlways, TypedAlways, PTL

-----------------------------------------------------------------------------
(***************************************************************************)
(* The loop implements ResultDelivery: what it submits is what was sent.   *)
(***************************************************************************)
(* Different PDUs of a stream occupy different bytes of it. *)
LEMMA TimesLess ==
  ASSUME NEW a \in Nat, NEW b \in Nat, a < b
  PROVE  PduSize * a < PduSize * b
<1>1. PduSize * (a + 1) = PduSize * a + PduSize /\ PduSize * a \in Nat
  OBVIOUS
<1>2. PICK d \in Nat : b = a + 1 + d
  <2>1. b - (a + 1) \in Nat /\ b = a + 1 + (b - (a + 1))
    OBVIOUS
  <2>2. QED
    BY <2>1
<1>3. PduSize * b = PduSize * (a + 1) + PduSize * d /\ PduSize * d \in Nat
  BY <1>2
<1>4. QED
  BY <1>1, <1>3

LEMMA PduBytesInjective ==
  ASSUME NEW c \in Conn, NEW d \in Conn, NEW t \in Nat, NEW k \in Nat,
         PduBytes(c, t) = PduBytes(d, k)
  PROVE  c = d /\ t = k
<1>1. 0 \in Pos
  BY DEF Pos
<1>2. PduBytes(c, t)[0] = <<c, PduSize * t + 0>>
  BY <1>1 DEF PduBytes
<1>3. PduBytes(d, k)[0] = <<d, PduSize * k + 0>>
  BY <1>1 DEF PduBytes
<1>4. c = d /\ PduSize * t + 0 = PduSize * k + 0
  BY <1>2, <1>3
<1>5. PduSize * t \in Nat /\ PduSize * k \in Nat
  OBVIOUS
<1>6. PduSize * t = PduSize * k
  BY <1>4, <1>5
<1>7. ~(t < k) /\ ~(k < t)
  BY <1>5, <1>6, TimesLess
<1>8. QED
  BY <1>4, <1>7

(* A sender sends at most MaxPdus PDUs. *)
Bounded == \A c \in Conn : wr[c] <= PduSize * MaxPdus

LEMMA BoundedAlways == Spec => []Bounded
<1>1. Init => Bounded
  BY DEF Init, Bounded
<1>2. ASSUME Base, Bounded, [Next]_vars PROVE Bounded'
  <2>1. wr \in [Conn -> Nat] /\ PduSize * MaxPdus \in Nat
    BY <1>2 DEF Base, Typed, TypeOK
  <2>2. ASSUME NEW c \in Conn, Write(c) PROVE Bounded'
    BY <1>2, <2>1, <2>2 DEF Bounded, Write
  <2>3. CASE UNCHANGED wr
    BY <1>2, <2>3 DEF Bounded
  <2>4. \/ UNCHANGED wr
        \/ \E c \in Conn : Write(c)
    BY <1>2, ZenonT(40) DEF Next, mainloop, net_accept, recv_data, Environment, vars, netVars,
       Tick, Connect, Shutdown, Reset, EpollWait, BatchDone, ConnectEvent,
       DataEvent, UnhandledEvent, AcceptDrained, AcceptFails, NothingAccepted,
       SetupFails, AcceptClient, AcceptOrphan, Accepted, RecvUnknown, RecvNothing,
       RecvClose, RecvPartial, RecvComplete
  <2>5. QED
    BY <2>2, <2>3, <2>4
<1>3. QED
  BY <1>1, <1>2, BaseAlways, PTL DEF Spec

(* The buffer of a complete PDU is that PDU of its sender, so that its      *)
(* result is submitted unless it is bogus, and no other result is.         *)
LEMMA CompleteIsNextPdu ==
  ASSUME Base, FramingNow, NEW i \in Slot, NEW c \in Conn, RecvComplete(i, c)
  PROVE  Filled(i, c, Got(c, offset[i])) = PduBytes(c, taken[c])
<1> DEFINE len == Got(c, offset[i])
<1>1. len \in Nat /\ offset[i] + len = PduSize /\ rd[c] + len = PduSize * (taken[c] + 1)
  BY RecvCompleteFills
<1>2. /\ rd[c] \in Nat /\ offset[i] \in Nat /\ taken[c] \in Nat
      /\ PduSize * taken[c] \in Nat
  BY DEF Base, Typed, TypeOK
<1>3. fd[i] # NoFd /\ sock[fd[i]] = c
  BY DEF RecvComplete, Receiving, Found, Base, Typed, ReceivingFd
<1>4. /\ rd[c] = PduSize * taken[c] + offset[i]
      /\ \A b \in Pos : b < offset[i] => pdu[i][b] = <<c, PduSize * taken[c] + b>>
  BY <1>3 DEF FramingNow, Framed
<1> HIDE DEF len
<1>5. ASSUME NEW b \in Pos
      PROVE  (IF b < offset[i] \/ b >= offset[i] + len
                THEN pdu[i][b] ELSE <<c, rd[c] + (b - offset[i])>>)
              = <<c, PduSize * taken[c] + b>>
  <2>1. b \in Int /\ ~(b >= offset[i] + len)
    BY <1>1 DEF Pos
  <2>2. rd[c] + (b - offset[i]) = PduSize * taken[c] + b
    BY <1>2, <1>4, <2>1
  <2>3. QED
    BY <1>4, <2>1, <2>2
<1>6. Filled(i, c, len) = PduBytes(c, taken[c])
  BY <1>5 DEF Filled, PduBytes
<1>7. QED
  BY <1>6 DEF len

LEMMA SubmitsNextPdu ==
  ASSUME Base, NEW c \in Conn, taken[c] \in 0 .. MaxPdus - 1,
         Submit(PduBytes(c, taken[c]))
  PROVE  results' = IF <<c, taken[c]>> \in Bogus
                      THEN results
                      ELSE [results EXCEPT ![c] = Append(@, taken[c])]
<1> DEFINE buf == PduBytes(c, taken[c])
<1>1. \A d \in Conn, k \in 0 .. MaxPdus - 1 :
        Accepts(buf, d, k) <=> d = c /\ k = taken[c] /\ <<c, taken[c]>> \notin Bogus
  BY PduBytesInjective DEF Accepts
<1> HIDE DEF buf
<1>2. Submit(buf)
  BY DEF buf
<1>3. CASE <<c, taken[c]>> \in Bogus
  BY <1>1, <1>2, <1>3 DEF Submit
<1>4. CASE <<c, taken[c]>> \notin Bogus
  BY <1>1, <1>2, <1>4 DEF Submit
<1>5. QED
  BY <1>3, <1>4

LEMMA CompleteTakes ==
  ASSUME Base, FramingNow, Bounded, NEW i \in Slot, NEW c \in Conn, RecvComplete(i, c)
  PROVE  D!Take(c)
<1> DEFINE len == Got(c, offset[i])
<1>1. /\ rd[c] + len = PduSize * (taken[c] + 1)
      /\ taken' = [taken EXCEPT ![c] = @ + 1]
      /\ UNCHANGED <<why, wr>>
  BY RecvCompleteFills
<1>2. rd[c] + len <= wr[c]
  BY GotBounds DEF Base
<1> HIDE DEF len
<1>3. PduSize * (taken[c] + 1) <= wr[c]
  BY <1>1, <1>2
<1>4. /\ wr[c] <= PduSize * MaxPdus /\ taken[c] \in Nat /\ wr[c] \in Nat
      /\ PduSize * (taken[c] + 1) \in Nat /\ PduSize * MaxPdus \in Nat
  BY DEF Bounded, Base, Typed, TypeOK
<1>5. ~(PduSize * MaxPdus < PduSize * (taken[c] + 1))
  BY <1>3, <1>4
<1>6. ~(MaxPdus < taken[c] + 1)
  BY <1>4, <1>5, TimesLess
<1>7. taken[c] \in 0 .. MaxPdus - 1
  BY <1>4, <1>6
<1>8. Submit(PduBytes(c, taken[c]))
  <2>1. Submit(Filled(i, c, Got(c, offset[i])))
    BY ReadLen DEF RecvComplete, Base
  <2>2. QED
    BY <2>1, CompleteIsNextPdu
<1>9. why[c] = "live"
  <2>1. sock[cur] = c /\ cur \in FD
    BY DEF RecvComplete, Receiving, Base, Typed, ReceivingFd
  <2>2. QED
    BY <2>1 DEF Base, SoundNow, Sound
<1>10. results' = IF <<c, taken[c]>> \in Bogus
                    THEN results
                    ELSE [results EXCEPT ![c] = Append(@, taken[c])]
  BY <1>7, <1>8, SubmitsNextPdu
<1>11. QED
  BY <1>1, <1>3, <1>9, <1>10 DEF D!Take

(* Steps that leave the streams and the results alone can only drop.       *)
LEMMA DropOrStutter ==
  ASSUME UNCHANGED <<wr, taken, results>>,
         \A c \in Conn : why'[c] = "live" => why[c] = "live"
  PROVE  D!Next
<1> DEFINE gone == {c \in Conn : why[c] # "live"}
           S == {c \in Conn : why'[c] # "live"} \ gone
<1>1. S \in SUBSET (Conn \ gone)
  OBVIOUS
<1>2. {c \in Conn : why'[c] # "live"} = gone \cup S
  OBVIOUS
<1> HIDE DEF S
<1>3. \E T \in SUBSET (Conn \ gone) : D!Drop(T)
  BY <1>1, <1>2 DEF D!Drop
<1>4. QED
  BY <1>3 DEF D!Next

LEMMA WriteWrites ==
  ASSUME Base, NEW c \in Conn, Write(c) PROVE D!Write(c)
<1>1. why[c] = "live"
  BY DEF Write, FromPeer, Open, Base, SoundNow, Sound
<1>2. QED
  BY <1>1 DEF Write, FromPeer, histVars, D!Write

LEMMA WhyOnce ==
  ASSUME Base, mainloop, NEW c \in Conn, why'[c] = "live" PROVE why[c] = "live"
<1>1. CASE UNCHANGED why
  BY <1>1
<1>2. CASE UnhandledEvent
  BY <1>2 DEF UnhandledEvent, WhyWithout
<1>3. CASE why' = purgedWhy
  BY <1>3 DEF purgedWhy, WhyWithout
<1>4. CASE SetupFails
  <2>1. purgedWhy \in [Conn -> Reason]
    BY CloseTyped DEF Base, Typed, TypeOK, Reason, purgedWhy
  <2>2. purgedWhy[c] = "live"
    BY <1>4, <2>1 DEF SetupFails
  <2>3. QED
    BY <2>2 DEF purgedWhy, WhyWithout
<1>5. ASSUME NEW i \in Slot, NEW d \in Conn, RecvClose(i, d) PROVE why[c] = "live"
  BY <1>5 DEF RecvClose, WhyWithout
<1>6. \/ UNCHANGED why \/ UnhandledEvent \/ why' = purgedWhy \/ SetupFails
      \/ \E i \in Slot, d \in Conn : RecvClose(i, d)
  BY DEF mainloop, net_accept, recv_data, histVars, EpollWait, BatchDone,
         ConnectEvent, DataEvent, AcceptDrained, AcceptFails, NothingAccepted,
         AcceptClient, AcceptOrphan, Accepted, RecvUnknown, RecvNothing,
         RecvPartial, RecvComplete
<1>7. QED
  BY <1>1, <1>2, <1>3, <1>4, <1>5, <1>6

LEMMA StepRefines ==
  ASSUME Base, FramingNow, Bounded, [Next]_vars PROVE [D!Next]_(D!vars)
<1>1. CASE UNCHANGED vars
  BY <1>1 DEF vars, netVars, histVars, D!vars
<1>2. ASSUME NEW i \in Slot, NEW c \in Conn, RecvComplete(i, c) PROVE D!Next
  BY <1>2, CompleteTakes DEF D!Next
<1>3. ASSUME NEW c \in Conn, Write(c) PROVE D!Next
  BY <1>3, WriteWrites DEF D!Next
<1>4. CASE mainloop /\ ~\E i \in Slot, c \in Conn : RecvComplete(i, c)
  <2>1. UNCHANGED <<wr, taken, results>>
    BY <1>4 DEF mainloop, net_accept, recv_data, netVars, histVars, EpollWait,
         BatchDone, ConnectEvent, DataEvent, UnhandledEvent, AcceptDrained,
         AcceptFails, NothingAccepted, SetupFails, AcceptClient, AcceptOrphan,
         Accepted, RecvUnknown, RecvNothing, RecvClose, RecvPartial
  <2>2. QED
    BY <1>4, <2>1, WhyOnce, DropOrStutter
<1>5. CASE Environment /\ ~\E c \in Conn : Write(c)
  <2>1. UNCHANGED <<wr, taken, results, why>>
    BY <1>5 DEF Environment, Tick, Connect, Shutdown, Reset, FromPeer, histVars
  <2>2. QED
    BY <2>1, DropOrStutter
<1>6. QED
  BY <1>1, <1>2, <1>3, <1>4, <1>5 DEF Next, mainloop, recv_data, Environment

(* The event loop implements ResultDelivery, for any number of connections, *)
(* descriptors and slots, whatever fails and in whatever order events come. *)
THEOREM Refinement == Spec => Delivery
<1>1. Init => D!Init
  BY DEF Init, D!Init
<1>2. QED
  BY <1>1, StepRefines, BaseAlways, FramingAlways, BoundedAlways, PTL
     DEF Spec, Delivery, D!Spec

(* What ResultDelivery promises therefore holds of the loop.               *)
P == INSTANCE ResultDeliveryProofs
       WITH written <- wr, gone <- {c \in Conn : why[c] # "live"}

(* Every acceptable PDU that recv_data completes is submitted to Icinga     *)
(* exactly once, in the order its sender sent it, and nothing else is.      *)
THEOREM ResultsCorrect == Spec => []ResultsDelivered
<1>1. D!Init => P!Init
  BY DEF D!Init, P!Init
<1>2. [D!Next]_(D!vars) => [P!Next]_(P!vars)
  BY DEF D!Next, P!Next, D!vars, P!vars, D!Write, P!Write, D!Take, P!Take,
         D!Drop, P!Drop
<1>3. P!Delivered => ResultsDelivered
  BY DEF P!Delivered, P!WholePdus, P!InOrder, P!NoneInvented, P!NoneLost,
         ResultsDelivered, D!Delivered, D!WholePdus, D!InOrder, D!NoneInvented,
         D!NoneLost
<1>4. P!Spec => []P!Delivered
  BY P!DeliveredCorrect
<1>5. QED
  BY <1>1, <1>2, <1>3, <1>4, Refinement, PTL DEF Delivery, D!Spec, P!Spec

-----------------------------------------------------------------------------
(***************************************************************************)
(* No lost wakeups.  The invariant is stated per descriptor; that a batch  *)
(* is used up before the next epoll_wait makes it inductive.               *)
(***************************************************************************)
HasSlot(f) == \E i \in Slot : fd[i] = f
Cared(f) == Readable(f) /\ HasSlot(f) /\ pc # "done" => Attended(f)
BatchUsed == pc = "wait" => events = {}
WakeupNow == (\A f \in FD : Cared(f)) /\ BatchUsed

LEMMA WakeupIsNoClientForgotten == WakeupNow => NoClientForgotten
BY DEF WakeupNow, Cared, HasSlot, NoClientForgotten

LEMMA InitWakeup == Init => WakeupNow
BY DEF Init, WakeupNow, Cared, BatchUsed, Readable

(* A descriptor stays cared for by a step that neither makes it readable    *)
(* nor gives it a slot, and that forgets nothing about it.                  *)
LEMMA StaysCared ==
  ASSUME WakeupNow, NEW f \in FD,
         Readable(f)' /\ HasSlot(f)' /\ pc' # "done" =>
           Readable(f) /\ HasSlot(f) /\ pc # "done" /\ (Attended(f) => Attended(f)')
  PROVE  Cared(f)'
BY DEF WakeupNow, Cared

LEMMA PeersKeepWakeup ==
  ASSUME Base, WakeupNow, Environment PROVE WakeupNow'
<1> USE DEF netVars, loopVars, tableVars, histVars
<1>1. /\ UNCHANGED <<fd, sock, rd, pc, cur, events>> /\ ready \subseteq ready'
  BY DEF Environment, Tick, Connect, Write, Shutdown, Reset, FromPeer
<1>2. ASSUME NEW f \in FD PROVE Cared(f)'
  <2>1. Attended(f) => Attended(f)'
    BY <1>1 DEF Attended
  <2>2. HasSlot(f)' = HasSlot(f)
    BY <1>1 DEF HasSlot
  <2>3. CASE Readable(f)' => Readable(f)
    BY <1>1, <2>1, <2>2, <2>3, StaysCared
  <2>4. CASE Readable(f)' /\ ~Readable(f)
    <3>1. PICK c \in Conn : /\ sock[f] = c
                            /\ rd'[c] < wr'[c] \/ Finished(c)'
                            /\ ~(rd[c] < wr[c] \/ Finished(c))
      BY <1>1, <2>4, FdAssumption DEF Readable
    <3>2. FdsOf(c) \subseteq ready'
      <4>1. ASSUME NEW d \in Conn, Connect(d) PROVE d # c
        BY <3>1, <4>1 DEF Connect, Base, SoundNow, Sound
      <4>2. ASSUME NEW d \in Conn, Write(d) \/ Shutdown(d) \/ Reset(d), d # c
            PROVE  FALSE
        BY <3>1, <4>2 DEF Write, Shutdown, Reset, FromPeer, Finished, Base, Typed, TypeOK
      <4>3. ASSUME NEW d \in Conn, Connect(d), d # c PROVE FALSE
        BY <3>1, <4>3 DEF Connect, Finished, Base, Typed, TypeOK
      <4>4. ~Tick
        BY <3>1 DEF Tick, Finished
      <4>5. QED
        BY <4>1, <4>2, <4>3, <4>4 DEF Environment, Write, Shutdown, Reset, FromPeer
    <3>3. f \in FdsOf(c)
      BY <3>1 DEF FdsOf
    <3>4. QED
      BY <3>2, <3>3 DEF Cared, Attended
  <2>5. QED
    BY <2>3, <2>4
<1>3. BatchUsed'
  BY <1>1 DEF WakeupNow, BatchUsed
<1>4. QED
  BY <1>2, <1>3 DEF WakeupNow

LEMMA DispatchKeepsWakeup ==
  ASSUME Base, WakeupNow,
         EpollWait \/ BatchDone \/ ConnectEvent \/ DataEvent \/ UnhandledEvent
  PROVE  WakeupNow'
<1> USE DEF netVars, loopVars, tableVars, histVars
<1>1. BatchUsed'
  BY DEF BatchUsed, EpollWait, BatchDone, ConnectEvent, DataEvent, UnhandledEvent
<1>2. ASSUME NEW f \in FD PROVE Cared(f)'
  <2>1. CASE EpollWait
    <3>1. UNCHANGED <<fd, sock, rd, wr, peer, backlog>> /\ pc = "wait" /\ events = {}
      BY <2>1 DEF EpollWait, WakeupNow, BatchUsed
    <3>2. Readable(f)' = Readable(f) /\ HasSlot(f)' = HasSlot(f)
      BY <3>1 DEF Readable, HasSlot, Finished
    <3>3. ASSUME Readable(f), HasSlot(f) PROVE Attended(f)'
      <4>1. f \in ready
        BY <3>1, <3>3 DEF WakeupNow, Cared, Attended
      <4>2. PICK batch \in SUBSET {g \in ready : Readable(g)} :
              /\ \E alone \in SUBSET {g \in batch : ErrorOnly(g)} :
                   events' = {[fd |-> g, epollin |-> g \notin alone] : g \in batch}
              /\ ready' = {g \in ready : Readable(g)} \ batch
        BY <2>1 DEF EpollWait, StillReady
      <4>3. CASE f \in batch
        <5>1. PICK alone \in SUBSET {g \in batch : ErrorOnly(g)} :
                events' = {[fd |-> g, epollin |-> g \notin alone] : g \in batch}
          BY <4>2
        <5>2. [fd |-> f, epollin |-> f \notin alone] \in events'
          BY <4>3, <5>1
        <5>3. QED
          BY <5>2 DEF Attended
      <4>4. CASE f \notin batch
        BY <3>3, <4>1, <4>2, <4>4 DEF Attended
      <4>5. QED
        BY <4>3, <4>4
    <3>4. QED
      BY <3>2, <3>3 DEF Cared
  <2>2. CASE BatchDone
    BY <2>2, StaysCared DEF BatchDone, Readable, HasSlot, Finished, Attended
  <2>3. CASE ConnectEvent
    <3>1. PICK e \in events : e.fd = Listener /\ events' = events \ {e}
      BY <2>3 DEF ConnectEvent
    <3>2. UNCHANGED <<fd, sock, rd, wr, peer, backlog, ready>> /\ pc = "dispatch"
      BY <2>3 DEF ConnectEvent
    <3>3. Attended(f) => Attended(f)'
      BY <3>1, <3>2, FdAssumption DEF Attended
    <3>4. QED
      BY <3>2, <3>3, StaysCared DEF Readable, HasSlot, Finished
  <2>4. CASE DataEvent
    <3>1. PICK e \in events : events' = events \ {e} /\ cur' = e.fd
      BY <2>4 DEF DataEvent
    <3>2. /\ UNCHANGED <<fd, sock, rd, wr, peer, backlog, ready>>
          /\ pc = "dispatch" /\ pc' = "recv"
      BY <2>4 DEF DataEvent
    <3>3. Attended(f) => Attended(f)'
      BY <3>1, <3>2 DEF Attended
    <3>4. QED
      BY <3>2, <3>3, StaysCared DEF Readable, HasSlot, Finished
  <2>5. CASE UnhandledEvent
    <3>1. PICK e \in events :
            /\ events' = events \ {e}
            /\ LET S == {i \in Slot : fd[i] = e.fd} IN
                 /\ fd' = FdWithout(S)
                 /\ sock' = SockWithout(S)
                 /\ ready' = ready \ FdsIn(S)
      BY <2>5 DEF UnhandledEvent
    <3>2. UNCHANGED <<rd, wr, peer, backlog, pc, cur>> /\ pc = "dispatch"
      BY <2>5 DEF UnhandledEvent
    <3> DEFINE S == {i \in Slot : fd[i] = e.fd}
    <3>3. HasSlot(f)' => f # e.fd /\ HasSlot(f)
      BY <3>1 DEF HasSlot, FdWithout, ClosedSlot
    <3>4. f # e.fd => f \notin FdsIn(S)
      BY DEF FdsIn
    <3>5. ASSUME HasSlot(f)' PROVE (Readable(f)' => Readable(f)) /\ (Attended(f) => Attended(f)')
      <4>1. sock'[f] = sock[f] /\ (f \in ready => f \in ready') /\ f # e.fd
        BY <3>1, <3>3, <3>4, <3>5 DEF SockWithout
      <4>2. QED
        BY <3>1, <3>2, <4>1 DEF Readable, Attended, Finished
    <3>6. QED
      BY <3>2, <3>3, <3>5, StaysCared
  <2>6. QED
    BY <2>1, <2>2, <2>3, <2>4, <2>5
<1>3. QED
  BY <1>1, <1>2 DEF WakeupNow

(* A purged descriptor has no slot until it is given out again. *)
LEMMA PurgeKeepsCared ==
  ASSUME Base, NEW f \in FD, \E i \in Slot : purgedFd[i] = f
  PROVE  /\ HasSlot(f) /\ purgedSock[f] = sock[f] /\ sock[f] # NoConn
         /\ (f \in ready => f \in purgedReady)
<1>1. PICK i \in Slot : purgedFd[i] = f
  OBVIOUS
<1>2. i \notin Expired /\ fd[i] = f
  BY <1>1 DEF purgedFd, FdWithout, ClosedSlot
<1>3. f \notin FdsIn(Expired)
  <2>1. ASSUME NEW j \in Expired, fd[j] = f PROVE FALSE
    BY <1>2, <2>1 DEF Expired, Base, SoundNow, Sound
  <2>2. QED
    BY <2>1 DEF FdsIn
<1>4. QED
  BY <1>2, <1>3 DEF HasSlot, purgedSock, purgedReady, SockWithout, Base, SoundNow, Sound

LEMMA AcceptKeepsWakeup ==
  ASSUME Base, WakeupNow, net_accept PROVE WakeupNow'
<1>1. pc = "accept" /\ pc' # "wait" /\ UNCHANGED <<wr, rd, peer, events, cur>>
  BY DEF net_accept, AcceptDrained, AcceptFails, NothingAccepted, SetupFails,
         AcceptClient, AcceptOrphan, Accepted, AfterAccept, AfterFailure
<1>2. ASSUME NEW f \in FD, \E i \in Slot : purgedFd[i] = f,
             sock'[f] = purgedSock[f], purgedReady \subseteq ready'
      PROVE  Cared(f)'
  <2>1. /\ HasSlot(f) /\ sock'[f] = sock[f] /\ (f \in ready => f \in ready')
    BY <1>2, PurgeKeepsCared
  <2>2. Readable(f)' => Readable(f)
    BY <1>1, <2>1, FdAssumption DEF Readable, Finished
  <2>3. Attended(f) => Attended(f)'
    BY <1>1, <2>1 DEF Attended
  <2>4. QED
    BY <1>1, <2>1, <2>2, <2>3, StaysCared
<1>3. ASSUME fd' = purgedFd, sock' = purgedSock, ready' = purgedReady
      PROVE  \A f \in FD : Cared(f)'
  <2>1. ASSUME NEW f \in FD, HasSlot(f)' PROVE Cared(f)'
    BY <1>2, <1>3, <2>1 DEF HasSlot
  <2>2. QED
    BY <2>1 DEF Cared
<1>4. ASSUME NEW g \in FD, NEW c \in backlog, AcceptClient(g, c) \/ AcceptOrphan(g, c)
      PROVE  \A f \in FD : Cared(f)'
  <2>1. /\ purgedSock[g] = NoConn /\ sock' = [purgedSock EXCEPT ![g] = c]
        /\ ready' = purgedReady \cup Registered(g, c)
    BY <1>4 DEF AcceptClient, AcceptOrphan, Accepted
  <2>2. \A i \in Slot : fd'[i] = purgedFd[i] \/ fd'[i] = g
    <3>1. purgedFd \in [Slot -> FD \cup {NoFd}]
      BY CloseTyped DEF Base, Typed, TypeOK, Reason, purgedFd
    <3>2. QED
      BY <1>4, <3>1 DEF AcceptClient, AcceptOrphan
  <2>3. purgedSock \in [FD -> Conn \cup {NoConn}]
    BY CloseTyped DEF Base, Typed, TypeOK, Reason, purgedSock
  <2>4. Cared(g)'
    <3>1. sock'[g] = c
      BY <2>1, <2>3
    <3>2. Readable(g)' => g \in ready'
      BY <1>1, <2>1, <3>1, FdAssumption DEF Readable, Registered, Finished
    <3>3. QED
      BY <3>2 DEF Cared, Attended
  <2>5. ASSUME NEW f \in FD, f # g, HasSlot(f)' PROVE Cared(f)'
    <3>1. \E i \in Slot : purgedFd[i] = f
      BY <2>2, <2>5 DEF HasSlot
    <3>2. sock'[f] = purgedSock[f] /\ purgedReady \subseteq ready'
      BY <2>1, <2>3, <2>5
    <3>3. QED
      BY <1>2, <3>1, <3>2
  <2>6. QED
    BY <2>4, <2>5 DEF Cared
<1>5. \A f \in FD : Cared(f)'
  BY <1>3, <1>4 DEF net_accept, AcceptDrained, AcceptFails, NothingAccepted, SetupFails
<1>6. QED
  BY <1>1, <1>5 DEF WakeupNow, BatchUsed

(* recv_data leaves its connection only when it is closed, has no slot, or  *)
(* has nothing to read.                                                     *)
LEMMA NothingMeansDrained ==
  ASSUME Base, NEW i \in Slot, NEW c \in Conn, RecvNothing(i, c)
  PROVE  ~Readable(cur)
<1>1. sock[cur] = c /\ cur \in FD
  BY DEF RecvNothing, Receiving, Base, Typed, ReceivingFd
<1>2. LET r == pdu_read(c, offset[i]) IN r.len <= 0 /\ r.errno = "EAGAIN"
  BY DEF RecvNothing
<1>3. ~Finished(c) /\ Got(c, offset[i]) <= 0 /\ Got(c, offset[i]) # Room(offset[i])
  BY <1>2 DEF pdu_read, Finished, ErrnoReset
<1>4. rd[c] \in Nat /\ wr[c] \in Nat /\ rd[c] <= wr[c]
  BY DEF Base, Typed, TypeOK, ReadArrived
<1>5. ~(rd[c] < wr[c])
  <2>1. Room(offset[i]) \in Nat
    BY DEF Room, Base, Typed, TypeOK, OffsetSmall
  <2>2. QED
    BY <1>3, <1>4, <2>1 DEF Got
<1>6. QED
  BY <1>1, <1>3, <1>5, FdAssumption DEF Readable

LEMMA RecvKeepsWakeup ==
  ASSUME Base, WakeupNow, recv_data PROVE WakeupNow'
<1> USE DEF netVars, tableVars, histVars
<1>1. /\ pc = "recv" /\ pc' # "wait"
      /\ UNCHANGED <<wr, peer, backlog, events, cur>>
  <2>1. Return => pc' # "wait"
    BY DEF Return
  <2>2. CASE RecvUnknown
    BY <2>1, <2>2 DEF RecvUnknown
  <2>3. ASSUME NEW i \in Slot, NEW c \in Conn, RecvNothing(i, c) \/ RecvClose(i, c)
        PROVE  /\ pc = "recv" /\ pc' # "wait"
               /\ UNCHANGED <<wr, peer, backlog, events, cur>>
    BY <2>1, <2>3 DEF RecvNothing, RecvClose, Receiving
  <2>4. ASSUME NEW i \in Slot, NEW c \in Conn, RecvPartial(i, c) \/ RecvComplete(i, c)
        PROVE  /\ pc = "recv" /\ pc' # "wait"
               /\ UNCHANGED <<wr, peer, backlog, events, cur>>
    BY <2>4 DEF RecvPartial, RecvComplete, Receiving, AfterPartial, AfterPdu
  <2>5. QED
    BY <2>2, <2>3, <2>4 DEF recv_data
<1>2. ASSUME NEW f \in FD PROVE Cared(f)'
  <2>1. CASE RecvUnknown
    <3>1. UNCHANGED <<fd, sock, rd, ready>> /\ ~HasSlot(cur)
      BY <2>1 DEF RecvUnknown, Absent, HasSlot
    <3>2. f # cur => (Attended(f) => Attended(f)')
      BY <1>1, <3>1 DEF Attended
    <3>3. HasSlot(f)' = HasSlot(f) /\ Readable(f)' = Readable(f)
      BY <1>1, <3>1 DEF HasSlot, Readable, Finished
    <3>4. QED
      BY <1>1, <3>1, <3>2, <3>3, StaysCared
  <2>2. ASSUME NEW i \in Slot, NEW c \in Conn, RecvNothing(i, c) PROVE Cared(f)'
    <3>1. UNCHANGED <<fd, sock, rd, ready>> /\ ~Readable(cur)
      BY <2>2, NothingMeansDrained DEF RecvNothing
    <3>2. f # cur => (Attended(f) => Attended(f)')
      BY <1>1, <3>1 DEF Attended
    <3>3. HasSlot(f)' = HasSlot(f) /\ Readable(f)' = Readable(f)
      BY <1>1, <3>1 DEF HasSlot, Readable, Finished
    <3>4. QED
      BY <1>1, <3>1, <3>2, <3>3, StaysCared
  <2>3. ASSUME NEW i \in Slot, NEW c \in Conn, RecvClose(i, c) PROVE Cared(f)'
    <3>1. /\ fd' = FdWithout({i}) /\ sock' = SockWithout({i})
          /\ ready' = ready \ FdsIn({i})
          /\ \A d \in Conn : d # c => rd'[d] = rd[d]
          /\ fd[i] = cur /\ cur \in FD /\ sock[cur] = c
      BY <2>3 DEF RecvClose, Receiving, Found, Base, Typed, TypeOK, ReceivingFd
    <3>2. FdsIn({i}) = {cur}
      BY <3>1 DEF FdsIn
    <3>3. CASE f = cur
      <4>1. sock'[f] = NoConn
        BY <3>1, <3>2, <3>3 DEF SockWithout
      <4>2. QED
        BY <4>1, FdAssumption, ConnAssumption DEF Cared, Readable
    <3>4. CASE f # cur
      <4>1. sock'[f] = sock[f] /\ (f \in ready => f \in ready')
        BY <3>1, <3>2, <3>4 DEF SockWithout
      <4>2. sock[f] # c
        BY <3>1, <3>4 DEF Base, SoundNow, Sound
      <4>3. Readable(f)' => Readable(f)
        BY <1>1, <3>1, <4>1, <4>2, FdAssumption DEF Readable, Finished
      <4>4. HasSlot(f)' => HasSlot(f)
        BY <3>1 DEF HasSlot, FdWithout, ClosedSlot
      <4>5. Attended(f) => Attended(f)'
        BY <1>1, <3>4, <4>1 DEF Attended
      <4>6. QED
        BY <1>1, <4>3, <4>4, <4>5, StaysCared
    <3>5. QED
      BY <3>3, <3>4
  <2>4. ASSUME NEW i \in Slot, NEW c \in Conn, RecvPartial(i, c) \/ RecvComplete(i, c)
        PROVE  Cared(f)'
    <3>1. /\ UNCHANGED <<fd, sock, ready>> /\ pc' = "recv"
          /\ \A d \in Conn : d # c => rd'[d] = rd[d]
          /\ sock[cur] = c
      BY <2>4 DEF RecvPartial, RecvComplete, Receiving, AfterPartial, AfterPdu,
                  Base, Typed, TypeOK
    <3>2. CASE f = cur
      BY <1>1, <3>1, <3>2 DEF Cared, Attended
    <3>3. CASE f # cur
      <4>1. sock[f] # c
        BY <1>1, <3>1, <3>3 DEF Base, SoundNow, Sound, Typed, TypeOK, ReceivingFd
      <4>2. Readable(f)' => Readable(f)
        BY <1>1, <3>1, <4>1, FdAssumption DEF Readable, Finished
      <4>3. Attended(f) => Attended(f)'
        BY <1>1, <3>1 DEF Attended
      <4>4. HasSlot(f)' = HasSlot(f)
        BY <3>1 DEF HasSlot
      <4>5. QED
        BY <1>1, <4>2, <4>3, <4>4, StaysCared
    <3>4. QED
      BY <3>2, <3>3
  <2>5. QED
    BY <2>1, <2>2, <2>3, <2>4 DEF recv_data
<1>3. QED
  BY <1>1, <1>2 DEF WakeupNow, BatchUsed

LEMMA NextKeepsWakeup == Base /\ WakeupNow /\ [Next]_vars => WakeupNow'
<1>1. ASSUME WakeupNow, UNCHANGED vars PROVE WakeupNow'
  BY <1>1 DEF vars, netVars, loopVars, tableVars, histVars, WakeupNow, Cared,
              Readable, Finished, HasSlot, Attended, BatchUsed
<1>2. QED
  BY <1>1, PeersKeepWakeup, DispatchKeepsWakeup, AcceptKeepsWakeup, RecvKeepsWakeup
     DEF Next, mainloop

(* Edge-triggered events are never lost: a client that can be read is on    *)
(* epoll's list, in the current batch, or being read.                       *)
THEOREM NoClientForgottenCorrect == Spec => []NoClientForgotten
<1>1. Spec => []WakeupNow
  BY InitWakeup, NextKeepsWakeup, BaseAlways, PTL DEF Spec
<1>2. QED
  BY <1>1, WakeupIsNoClientForgotten, PTL
=============================================================================
