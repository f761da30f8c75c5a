---------------------------- MODULE DaemonProofs ----------------------------
(***************************************************************************)
(* Proofs about Daemon, for every configuration file, number of addresses  *)
(* and behaviour of the strangers: what net_bind does to descriptors, and  *)
(* what the configuration can leave in the members that are numbers.       *)
(***************************************************************************)
EXTENDS Daemon, ScanProofs, FiniteSetTheorems

Searching == {"config", "clients", "resolve", "bind"}
Setup == {"close_on_exec", "listen", "poller", "loop"}

FdType ==
  /\ fd \in FD \cup {-1}
  /\ used \in [FD -> Strangers \cup {"free", "listener"}]
  /\ nonblock \subseteq FD /\ listening \subseteq FD
  /\ bound \in BOOLEAN /\ harmed \in BOOLEAN

(* While net_bind searches nothing has happened; afterwards, and until it  *)
(* gives up, fd is the socket that was bound, and each step adds to what   *)
(* holds of it.  Strangers open free descriptors and close their own, and  *)
(* so that socket stays the daemon's.                                      *)
BindInv ==
  /\ FdType
  /\ pc \in Searching => ~bound /\ ~harmed
  /\ bound => ~harmed
  /\ bound /\ pc # "dead" => fd \in FD /\ Mine(fd)
  /\ bound /\ pc \in Setup => fd \in nonblock
  /\ bound /\ pc \in {"poller", "loop"} => fd \in listening

LEMMA InitBindInv == Init => BindInv
<1>. SUFFICES ASSUME Init PROVE BindInv
  OBVIOUS
<1>1. used \in [FD -> Strangers \cup {"free", "listener"}]
  BY DEF Init
<1>. QED BY <1>1 DEF Init, BindInv, FdType, Searching, Setup

LEMMA StepBindInv == BindInv /\ [Next]_vars => BindInv'
<1>. SUFFICES ASSUME BindInv, [Next]_vars PROVE BindInv'
  OBVIOUS
<1>. USE DEF BindInv, FdType, Searching, Setup, Mine, bindVars
<1>1. CASE Configure \/ SkipConfig \/ Configured
  BY <1>1 DEF Configure, SkipConfig, Configured
<1>2. CASE client_init
  BY <1>2 DEF client_init
<1>3. CASE getaddrinfo
  BY <1>3 DEF getaddrinfo
<1>4. CASE NoSocket
  BY <1>4 DEF NoSocket, AfterTry
<1>5. CASE NotBound
  BY <1>5 DEF NotBound, AfterTry
<1>6. CASE Bound
  BY <1>6 DEF Bound, AfterTry, Continues
<1>7. CASE Nonblocking
  BY <1>7 DEF Nonblocking, Open
<1>8. CASE CloseOnExec
  BY <1>8 DEF CloseOnExec
<1>9. CASE Listen
  <2>1. UNCHANGED <<fd, used, nonblock, bound>> /\ pc = "listen"
    BY <1>9 DEF Listen
  <2>2. CASE pc' = "fail" /\ UNCHANGED <<listening, harmed>>
    BY <2>1, <2>2
  <2>3. CASE /\ Open(fd) /\ pc' = "poller" /\ listening' = listening \cup {fd}
             /\ harmed' = (harmed \/ ~Mine(fd))
    BY <2>1, <2>3 DEF Open
  <2>. QED BY <1>9, <2>2, <2>3 DEF Listen
<1>10. CASE Fail
  BY <1>10 DEF Fail, Open
<1>11. CASE net_poller
  BY <1>11 DEF net_poller
<1>12. CASE StrangerOpens
  BY <1>12 DEF StrangerOpens, Lowest, Free
<1>13. CASE StrangerCloses
  BY <1>13, StrangerAssumption DEF StrangerCloses
<1>14. CASE UNCHANGED vars
  BY <1>14 DEF vars
<1>. QED
  BY <1>1, <1>2, <1>3, <1>4, <1>5, <1>6, <1>7, <1>8, <1>9, <1>10, <1>11, <1>12, <1>13, <1>14
     DEF Next

LEMMA AlwaysBindInv == Spec => []BindInv
  BY InitBindInv, StepBindInv, PTL DEF Spec

(* What OwnListener says of net_bind (iris.c:326-386) holds for every      *)
(* number of descriptors and addresses, whatever the strangers do.         *)
THEOREM ListenerIsOwn == Spec => []OwnListener
<1>1. BindInv => OwnListener
  BY DEF BindInv, FdType, OwnListener, Setup, Mine
<1>. QED BY <1>1, AlwaysBindInv, PTL

(* A bind that succeeds keeps net_bind's calls on fd (iris.c:368-384) away *)
(* from the descriptors of other threads.                                  *)
THEOREM BoundDoesNoHarm == Spec => []HarmOnlyIfNoneBound
<1>1. BindInv => HarmOnlyIfNoneBound
  BY DEF BindInv, FdType, HarmOnlyIfNoneBound
<1>. QED BY <1>1, AlwaysBindInv, PTL

-----------------------------------------------------------------------------
(***************************************************************************)
(* TypeOK.  A number in the file goes through strtol and into a member of  *)
(* struct server before it is looked at, and from there into NUM_CLIENTS.  *)
(* What the provers do not know of powers of two is counted.               *)
(***************************************************************************)
LEMMA PowerType == ASSUME NEW n \in Nat PROVE 2 ^ n \in Nat \ {0}
<1> DEFINE S == SUBSET (1 .. n)
<1>1. IsFiniteSet(1 .. n) /\ Cardinality(1 .. n) = n
  BY FS_Interval
<1>2. IsFiniteSet(S) /\ Cardinality(S) = 2 ^ n
  BY <1>1, FS_SUBSET
<1>3. {} \in S
  OBVIOUS
<1> HIDE DEF S
<1>4. S # {}
  BY <1>3
<1>. QED BY <1>2, <1>4, FS_CardinalityType, FS_EmptySet

LEMMA WordType == ASSUME NEW n \in Int PROVE uint32_t(n) \in 0 .. 2 ^ Width - 1
<1> DEFINE m == 2 ^ Width
<1>1. m \in Nat \ {0}
  BY WidthAssumption, PowerType
<1> HIDE DEF m
<1>2. n % m \in 0 .. m - 1
  BY <1>1
<1>. QED BY <1>2 DEF uint32_t, m

LEMMA IntType == ASSUME NEW u \in 0 .. 2 ^ Width - 1 PROVE int(u) \in Int
<1> DEFINE m == 2 ^ Width
<1>1. m \in Nat \ {0}
  BY WidthAssumption, PowerType
<1> HIDE DEF m
<1>2. u \in Int /\ u - m \in Int
  BY <1>1 DEF m
<1>. QED BY <1>2 DEF int, m

LEMMA StrtolType == \A value : strtol(value) \in Int
BY NumbersAssumption DEF strtol, IsNumber

ServerType ==
  /\ {"max_clients", "max_lifetime"} \subseteq DOMAIN server
  /\ server.max_clients \in 0 .. 2 ^ Width - 1 /\ server.max_lifetime \in Int

ConfigType ==
  /\ ServerType
  /\ rc \in -1 .. 5 /\ MAX_LIFETIME \in Int

LEMMA ConfigInitType == ConfigInit => ConfigType
<1>. SUFFICES ASSUME ConfigInit PROVE ConfigType
  OBVIOUS
<1>1. Numbers["16384"] \in Int /\ Numbers["20"] \in Int
  BY NumbersAssumption
<1>2. uint32_t(Numbers["16384"]) \in 0 .. 2 ^ Width - 1
  BY <1>1, WordType
<1>3. server = Defaults(MAX_LIFETIME) /\ MAX_LIFETIME = Numbers["20"] /\ rc = -1
  BY DEF ConfigInit
<1>. QED BY <1>1, <1>2, <1>3 DEF ConfigType, ServerType, Defaults

LEMMA ResultType == \A line : Result(line) \in 0 .. 5
BY DEF Result

(* A directive leaves the members that are numbers numbers of their width. *)
LEMMA SetType ==
  ASSUME NEW s, {"max_clients", "max_lifetime"} \subseteq DOMAIN s,
         s.max_clients \in 0 .. 2 ^ Width - 1, s.max_lifetime \in Int,
         NEW name, NEW value
  PROVE  LET t == Set(s, name, value) IN
         /\ {"max_clients", "max_lifetime"} \subseteq DOMAIN t
         /\ t.max_clients \in 0 .. 2 ^ Width - 1 /\ t.max_lifetime \in Int
<1> DEFINE n == strtol(value)
           u == uint32_t(n)
<1>1. n \in Int
  BY StrtolType
<1>2. u \in 0 .. 2 ^ Width - 1
  BY <1>1, WordType
<1> HIDE DEF n, u
<1>3. \/ Set(s, name, value) = [s EXCEPT !.port = value]
      \/ Set(s, name, value) = [s EXCEPT !.max_clients = u]
      \/ Set(s, name, value) = [s EXCEPT !.max_lifetime = n]
      \/ Set(s, name, value) = [s EXCEPT !.syslog_ident = value]
      \/ Set(s, name, value) = [s EXCEPT !.syslog_facility = Lower(value)]
      \/ Set(s, name, value) = s
  BY DEF Set, n, u
<1>. QED BY <1>1, <1>2, <1>3

LEMMA ParseType == ConfigType /\ (ParseLine \/ ParseEnd) => ConfigType'
<1>. SUFFICES ASSUME ConfigType, ParseLine \/ ParseEnd PROVE ConfigType'
  OBVIOUS
<1>1. CASE ParseLine
  <2>1. PICK line \in {fgets(unread)} :
          IF Skipped(line)
          THEN UNCHANGED <<server, MAX_LIFETIME, rc>>
          ELSE /\ rc' = IF Result(line) = 0 THEN -1 ELSE Result(line)
               /\ server' = IF Result(line) \in 1 .. 3 THEN server
                            ELSE Set(server, Name(line), ValueOf(line))
               /\ MAX_LIFETIME' = IF Name(line) = <<"max_lifetime">> /\ Result(line) = 0
                                  THEN server'.max_lifetime ELSE MAX_LIFETIME
    BY <1>1 DEF ParseLine
  <2>2. CASE Skipped(line)
    BY <2>1, <2>2 DEF ConfigType, ServerType
  <2>3. CASE ~Skipped(line)
    <3>1. rc' \in -1 .. 5
      BY <2>1, <2>3, ResultType
    <3>2. ServerType'
      <4>1. CASE server' = server
        BY <4>1 DEF ConfigType, ServerType
      <4>2. CASE server' = Set(server, Name(line), ValueOf(line))
        BY <4>2, SetType DEF ConfigType, ServerType
      <4>. QED BY <2>1, <2>3, <4>1, <4>2
    <3>3. MAX_LIFETIME' \in Int
      BY <2>1, <2>3, <3>2 DEF ConfigType, ServerType
    <3>. QED BY <3>1, <3>2, <3>3 DEF ConfigType
  <2>. QED BY <2>2, <2>3
<1>2. CASE ParseEnd
  BY <1>2 DEF ParseEnd, ConfigType, ServerType
<1>. QED BY <1>1, <1>2

TypeInv ==
  /\ ConfigType /\ FdType
  /\ pc \in {"config", "clients", "resolve", "bind", "nonblocking", "close_on_exec", "listen",
             "fail", "poller", "loop", "dead"}
  /\ NUM_CLIENTS \in 0 .. Slots
  /\ left \in 0 .. MaxAddrs /\ (pc = "bind" => left # 0)

LEMMA InitTypeInv == Init => TypeInv
<1>. SUFFICES ASSUME Init PROVE TypeInv
  OBVIOUS
<1>1. ConfigType
  BY ConfigInitType DEF Init
<1>2. FdType
  BY InitBindInv DEF BindInv
<1>. QED BY <1>1, <1>2, DaemonAssumption DEF Init, TypeInv

LEMMA StepTypeInv == BindInv /\ BindInv' /\ TypeInv /\ [Next]_vars => TypeInv'
<1>. SUFFICES ASSUME BindInv', TypeInv, [Next]_vars PROVE TypeInv'
  OBVIOUS
<1>1. FdType'
  BY DEF BindInv
<1>2. ASSUME UNCHANGED configVars PROVE ConfigType'
  BY <1>2 DEF TypeInv, ConfigType, ServerType, configVars
<1>3. CASE Configure
  BY <1>1, <1>3, ParseType DEF Configure, bindVars, TypeInv
<1>4. CASE SkipConfig \/ Configured \/ CloseOnExec \/ net_poller
  BY <1>1, <1>2, <1>4 DEF SkipConfig, Configured, CloseOnExec, net_poller, bindVars, TypeInv
<1>5. CASE client_init
  <2>1. int(server.max_clients) \in Int
    BY IntType DEF TypeInv, ConfigType, ServerType
  <2>2. NUM_CLIENTS' \in 0 .. Slots
    <3> DEFINE n == int(server.max_clients)
    <3>1. NUM_CLIENTS' = IF 0 <= n /\ n <= Slots THEN n ELSE 0
      BY <1>5 DEF client_init
    <3>2. n \in Int
      BY <2>1
    <3> HIDE DEF n
    <3>. QED BY <3>1, <3>2, DaemonAssumption
  <2>. QED BY <1>1, <1>2, <1>5, <2>2 DEF client_init, bindVars, TypeInv
<1>6. CASE getaddrinfo
  BY <1>1, <1>2, <1>6, DaemonAssumption DEF getaddrinfo, TypeInv
<1>7. CASE NoSocket \/ NotBound \/ Bound
  <2>1. left' \in 0 .. MaxAddrs
    BY <1>7, DaemonAssumption DEF NoSocket, NotBound, Bound, TypeInv
  <2>2. pc' \in {"bind", "nonblocking"} /\ (pc' = "bind" => left' # 0)
    BY <1>7, DaemonAssumption DEF NoSocket, NotBound, Bound, AfterTry, Continues, TypeInv
  <2>. QED BY <1>1, <1>2, <1>7, <2>1, <2>2 DEF NoSocket, NotBound, Bound, TypeInv
<1>8. CASE Nonblocking \/ Listen \/ Fail
  <2>1. pc' \in {"close_on_exec", "poller", "fail", "dead"}
    BY <1>8 DEF Nonblocking, Listen, Fail
  <2>2. UNCHANGED <<configVars, NUM_CLIENTS, left>>
    BY <1>8 DEF Nonblocking, Listen, Fail
  <2>. QED BY <1>1, <1>2, <2>1, <2>2 DEF TypeInv
<1>9. CASE StrangerOpens \/ StrangerCloses
  BY <1>1, <1>2, <1>9 DEF StrangerOpens, StrangerCloses, TypeInv
<1>10. CASE UNCHANGED vars
  BY <1>1, <1>2, <1>10 DEF vars, bindVars, TypeInv
<1>. QED BY <1>3, <1>4, <1>5, <1>6, <1>7, <1>8, <1>9, <1>10 DEF Next

(* TypeOK, for every file, width of an int and size of the table: a number *)
(* of the file is cut to the width of its member (iris.c:160-175), and     *)
(* NUM_CLIENTS is one that calloc could provide (iris.c:649-661), however  *)
(* the file was malformed.                                                 *)
THEOREM TypeCorrect == Spec => []TypeOK
<1>1. TypeInv => TypeOK
  BY DEF TypeInv, ConfigType, ServerType, FdType, TypeOK
<1>. QED BY <1>1, AlwaysBindInv, InitTypeInv, StepTypeInv, PTL DEF Spec

-----------------------------------------------------------------------------
(***************************************************************************)
(* The two places where the configuration is kept twice: the lifetime is   *)
(* in struct server and in MAX_LIFETIME, which the deadlines are made      *)
(* from; the size of the table is in struct server and in NUM_CLIENTS.     *)
(***************************************************************************)
Prepared == {"resolve", "bind", "nonblocking", "close_on_exec", "listen", "fail", "poller", "loop"}

SlotsFor(u) == IF 0 <= int(u) /\ int(u) <= Slots THEN int(u) ELSE 0

TwiceInv ==
  /\ rc \in {-1, 0} => MAX_LIFETIME = server.max_lifetime
  /\ pc \in Prepared => NUM_CLIENTS = SlotsFor(server.max_clients)

LEMMA ParseKeepsLifetime ==
  ASSUME ConfigType, rc = -1 => MAX_LIFETIME = server.max_lifetime, ParseLine \/ ParseEnd
  PROVE  rc' \in {-1, 0} => MAX_LIFETIME' = server'.max_lifetime
<1>1. CASE ParseEnd
  BY <1>1 DEF ParseEnd
<1>2. CASE ParseLine
  <2>1. rc = -1 /\ MAX_LIFETIME = server.max_lifetime
    BY <1>2 DEF ParseLine
  <2>2. PICK line \in {fgets(unread)} :
          IF Skipped(line)
          THEN UNCHANGED <<server, MAX_LIFETIME, rc>>
          ELSE /\ rc' = IF Result(line) = 0 THEN -1 ELSE Result(line)
               /\ server' = IF Result(line) \in 1 .. 3 THEN server
                            ELSE Set(server, Name(line), ValueOf(line))
               /\ MAX_LIFETIME' = IF Name(line) = <<"max_lifetime">> /\ Result(line) = 0
                                  THEN server'.max_lifetime ELSE MAX_LIFETIME
    BY <1>2 DEF ParseLine
  <2>3. CASE Skipped(line)
    BY <2>1, <2>2, <2>3
  <2>4. CASE ~Skipped(line) /\ Result(line) # 0
    BY <2>2, <2>4, ResultType
  <2>5. CASE ~Skipped(line) /\ Result(line) = 0
    <3>1. CASE Name(line) = <<"max_lifetime">>
      BY <2>2, <2>5, <3>1
    <3>2. CASE Name(line) # <<"max_lifetime">>
      <4>1. server' = Set(server, Name(line), ValueOf(line)) /\ MAX_LIFETIME' = MAX_LIFETIME
        BY <2>2, <2>5, <3>2
      <4> DEFINE name == Name(line)
                 value == ValueOf(line)
                 u == uint32_t(strtol(value))
                 l == Lower(value)
      <4>2. name # <<"max_lifetime">> /\ server' = Set(server, name, value)
        BY <3>2, <4>1
      <4> HIDE DEF name, value, u, l
      <4>3. \/ server' = [server EXCEPT !.port = value]
            \/ server' = [server EXCEPT !.max_clients = u]
            \/ server' = [server EXCEPT !.syslog_ident = value]
            \/ server' = [server EXCEPT !.syslog_facility = l]
            \/ server' = server
        BY <4>2 DEF Set, u, l
      <4>4. server'.max_lifetime = server.max_lifetime
        BY <4>3 DEF ConfigType, ServerType
      <4>. QED BY <2>1, <4>1, <4>4
    <3>. QED BY <3>1, <3>2
  <2>. QED BY <2>3, <2>4, <2>5
<1>. QED BY <1>1, <1>2

LEMMA StepTwiceInv == TypeInv /\ TwiceInv /\ [Next]_vars => TwiceInv'
<1>. SUFFICES ASSUME TypeInv, TwiceInv, [Next]_vars PROVE TwiceInv'
  OBVIOUS
<1>1. CASE Configure
  BY <1>1, ParseKeepsLifetime DEF Configure, TypeInv, TwiceInv, Prepared
<1>2. CASE client_init
  <2>1. UNCHANGED configVars /\ NUM_CLIENTS' = SlotsFor(server.max_clients)
    BY <1>2 DEF client_init, SlotsFor
  <2>. QED BY <2>1 DEF configVars, TwiceInv
<1>3. ASSUME UNCHANGED configVars, UNCHANGED NUM_CLIENTS, pc' \in Prepared => pc \in Prepared
      PROVE  TwiceInv'
  BY <1>3 DEF configVars, TwiceInv
<1>4. CASE SkipConfig \/ Configured
  BY <1>3, <1>4 DEF SkipConfig, Configured, Prepared
<1>5. CASE getaddrinfo \/ NoSocket \/ NotBound \/ Bound
  BY <1>3, <1>5 DEF getaddrinfo, NoSocket, NotBound, Bound, AfterTry, Prepared
<1>6. CASE Nonblocking \/ CloseOnExec \/ Listen \/ Fail \/ net_poller
  BY <1>3, <1>6 DEF Nonblocking, CloseOnExec, Listen, Fail, net_poller, Prepared
<1>7. CASE StrangerOpens \/ StrangerCloses \/ UNCHANGED vars
  BY <1>3, <1>7 DEF StrangerOpens, StrangerCloses, vars, bindVars, Prepared
<1>. QED BY <1>1, <1>2, <1>4, <1>5, <1>6, <1>7 DEF Next

LEMMA AlwaysTwiceInv == Spec => [](TypeInv /\ TwiceInv)
<1>1. Init => TwiceInv
  BY DEF Init, ConfigInit, Defaults, TwiceInv, Prepared
<1>. QED BY <1>1, AlwaysBindInv, InitTypeInv, StepTypeInv, StepTwiceInv, PTL DEF Spec

(* A configuration that was accepted gives clients the lifetime that       *)
(* struct server has (iris.c:168-175): a number that parse_config refuses  *)
(* reaches the member, but never an accepted configuration.                *)
LifetimeAgrees == rc = 0 => MAX_LIFETIME = server.max_lifetime
THEOREM LifetimeAgreesCorrect == Spec => []LifetimeAgrees
<1>1. TwiceInv => LifetimeAgrees
  BY DEF TwiceInv, LifetimeAgrees
<1>. QED BY <1>1, AlwaysTwiceInv, PTL

(* The loop runs with the slots that struct server asks for, if that is an *)
(* int and memory allows, and else with none (broker.c:111, iris.c:649-661):*)
(* a count that is negative as an int is never taken for a large table.    *)
TableAsAsked ==
  pc = "loop" =>
    NUM_CLIENTS = IF server.max_clients < 2 ^ (Width - 1) /\ server.max_clients <= Slots
                  THEN server.max_clients ELSE 0

LEMMA TableIs == TypeInv /\ TwiceInv => TableAsAsked
<1>. SUFFICES ASSUME TypeInv, TwiceInv, pc = "loop"
              PROVE  NUM_CLIENTS = IF /\ server.max_clients < 2 ^ (Width - 1)
                                      /\ server.max_clients <= Slots
                                   THEN server.max_clients ELSE 0
  BY DEF TableAsAsked
<1> DEFINE u == server.max_clients
           m == 2 ^ Width
           h == 2 ^ (Width - 1)
<1>1. m \in Nat \ {0} /\ h \in Nat \ {0}
  BY WidthAssumption, PowerType
<1>2. u \in 0 .. m - 1
  BY DEF TypeInv, ConfigType, ServerType
<1>3. NUM_CLIENTS = SlotsFor(u)
  BY DEF TwiceInv, Prepared
<1>4. int(u) = IF u < h THEN u ELSE u - m
  BY DEF int
<1>5. Slots \in Nat
  BY DaemonAssumption
<1> HIDE DEF u, m, h
<1>6. NUM_CLIENTS = IF u < h /\ u <= Slots THEN u ELSE 0
  BY <1>1, <1>2, <1>3, <1>4, <1>5 DEF SlotsFor
<1>. QED BY <1>6 DEF u, h

(* So for every file, every width of an int and every memory.              *)
THEOREM TableAsAskedCorrect == Spec => []TableAsAsked
BY TableIs, AlwaysTwiceInv, PTL

-----------------------------------------------------------------------------
(***************************************************************************)
(* What a file means: first what parse_config makes of one line, which is  *)
(* the text of an entry, part by part.                                     *)
(***************************************************************************)
Eqs(e) == IF e.eq THEN <<EQ>> ELSE <<>>
FromTail(e) == e.tail \o <<NL>>
FromValue(e) == e.value \o FromTail(e)
FromPad(e) == e.pad \o FromValue(e)
FromEq(e) == Eqs(e) \o FromPad(e)
FromGap(e) == e.gap \o FromEq(e)
FromName(e) == e.name \o FromGap(e)

LEMMA Tokens ==
  /\ {NL} \in Bytes /\ {EQ} \in Bytes /\ White \in Bytes /\ White \cup {EQ} \in Bytes
  /\ <<NL>> \in Line /\ <<EQ>> \in Line /\ <<>> \in Line
  /\ SP # NL /\ SP # EQ /\ NL # EQ /\ HASH # SP /\ HASH # NL /\ HASH # EQ
BY NamesAssumption DEF Bytes, White, Line, SP, NL, EQ, HASH

LEMMA SpacesAre ==
  ASSUME NEW s \in Seq({SP})
  PROVE  s \in Line /\ AllIn(s, White) /\ Avoids(s, {NL}) /\ Avoids(s, {EQ})
<1>1. \A i \in 1 .. Len(s) : s[i] = SP
  BY ElementOfSeq
<1>2. s \in Line
  BY SeqMonotonic, NamesAssumption DEF Line
<1>. QED BY <1>1, <1>2, Tokens DEF AllIn, Avoids, White

LEMMA OthersAre ==
  ASSUME NEW A, NEW s \in Seq(STRING \ A)
  PROVE  /\ s \in Line /\ Avoids(s, A)
         /\ s # <<>> => Head(s) = s[1] /\ s[1] \notin A
<1>1. \A i \in 1 .. Len(s) : s[i] \notin A
  BY ElementOfSeq
<1>2. s \in Line
  BY SeqMonotonic DEF Line
<1>3. s # <<>> => Head(s) = s[1] /\ s[1] \notin A
  BY <1>1, EmptySeq
<1>. QED BY <1>1, <1>2, <1>3 DEF Avoids

LEMMA EntryParts ==
  ASSUME NEW e \in Entry
  PROVE  /\ e.indent \in Line /\ e.name \in Line /\ e.gap \in Line /\ Eqs(e) \in Line
         /\ e.pad \in Line /\ e.value \in Line /\ e.tail \in Line
         /\ FromTail(e) \in Line /\ FromValue(e) \in Line /\ FromPad(e) \in Line
         /\ FromEq(e) \in Line /\ FromGap(e) \in Line /\ FromName(e) \in Line
<1>1. /\ e.indent \in Line /\ e.name \in Line /\ e.gap \in Line /\ Eqs(e) \in Line
      /\ e.pad \in Line /\ e.value \in Line /\ e.tail \in Line
  BY SpacesAre, OthersAre, Tokens DEF Entry, Eqs
<1>2. FromTail(e) \in Line
  BY <1>1, Tokens, JoinedLine DEF FromTail
<1>3. FromValue(e) \in Line
  BY <1>1, <1>2, JoinedLine DEF FromValue
<1>4. FromPad(e) \in Line
  BY <1>1, <1>3, JoinedLine DEF FromPad
<1>5. FromEq(e) \in Line
  BY <1>1, <1>4, JoinedLine DEF FromEq
<1>6. FromGap(e) \in Line
  BY <1>1, <1>5, JoinedLine DEF FromGap
<1>7. FromName(e) \in Line
  BY <1>1, <1>6, JoinedLine DEF FromName
<1>. QED BY <1>1, <1>2, <1>3, <1>4, <1>5, <1>6, <1>7

(* Up to its newline an entry has no newline, and fgets takes it whole.    *)
UpToNL(e) == e.indent \o e.name \o e.gap \o Eqs(e) \o e.pad \o e.value \o e.tail

LEMMA WrittenIs ==
  ASSUME NEW e \in Entry
  PROVE  /\ Written(e) = e.indent \o FromName(e)
         /\ Written(e) = UpToNL(e) \o <<NL>>
         /\ UpToNL(e) \in Line /\ Avoids(UpToNL(e), {NL})
<1>1. /\ e.indent \in Line /\ e.name \in Line /\ e.gap \in Line /\ Eqs(e) \in Line
      /\ e.pad \in Line /\ e.value \in Line /\ e.tail \in Line /\ <<NL>> \in Line
  BY EntryParts, Tokens
<1>2. /\ Avoids(e.indent, {NL}) /\ Avoids(e.name, {NL}) /\ Avoids(e.gap, {NL})
      /\ Avoids(Eqs(e), {NL}) /\ Avoids(e.pad, {NL}) /\ Avoids(e.value, {NL})
      /\ Avoids(e.tail, {NL})
  <2>1. Avoids(e.indent, {NL}) /\ Avoids(e.pad, {NL})
    BY SpacesAre DEF Entry
  <2>2. Avoids(e.gap, {NL}) /\ Avoids(e.value, {NL}) /\ Avoids(e.tail, {NL})
    BY OthersAre DEF Entry
  <2>3. Avoids(e.name, {NL})
    <3>1. e.name \in Seq(STRING \ {SP, NL, EQ})
      BY DEF Entry
    <3>2. Avoids(e.name, {SP, NL, EQ})
      BY <3>1, OthersAre
    <3>. QED BY <3>2 DEF Avoids
  <2>4. Avoids(Eqs(e), {NL})
    BY Tokens DEF Eqs, Avoids
  <2>. QED BY <2>1, <2>2, <2>3, <2>4
<1>3. Written(e) = e.indent \o FromName(e)
  <2>1. Written(e) = Glue(Glue(Glue(Glue(Glue(Glue(Glue(e.indent, e.name), e.gap), Eqs(e)),
                                             e.pad), e.value), e.tail), <<NL>>)
    BY DEF Written, Glue, Eqs
  <2>2. e.indent \o FromName(e)
          = Glue(e.indent, Glue(e.name, Glue(e.gap, Glue(Eqs(e), Glue(e.pad,
              Glue(e.value, Glue(e.tail, <<NL>>)))))))
    BY DEF FromName, FromGap, FromEq, FromPad, FromValue, FromTail, Glue
  <2>3. Glue(Glue(Glue(Glue(Glue(Glue(Glue(e.indent, e.name), e.gap), Eqs(e)),
                                 e.pad), e.value), e.tail), <<NL>>)
          = Glue(e.indent, Glue(e.name, Glue(e.gap, Glue(Eqs(e), Glue(e.pad,
              Glue(e.value, Glue(e.tail, <<NL>>)))))))
    <3>1. PICK a \in Line, b \in Line, c \in Line, d \in Line :
            a = e.indent /\ b = e.name /\ c = e.gap /\ d = Eqs(e)
      BY <1>1, Zenon
    <3>2. PICK f \in Line, g \in Line, h \in Line, k \in Line :
            f = e.pad /\ g = e.value /\ h = e.tail /\ k = <<NL>>
      BY <1>1, Zenon
    <3>3. Glue(Glue(Glue(Glue(Glue(Glue(Glue(a, b), c), d), f), g), h), k)
            = Glue(a, Glue(b, Glue(c, Glue(d, Glue(f, Glue(g, Glue(h, k)))))))
      <4>1. /\ Glue(a, b) \in Line /\ Glue(Glue(a, b), c) \in Line
            /\ Glue(Glue(Glue(a, b), c), d) \in Line
            /\ Glue(Glue(Glue(Glue(a, b), c), d), f) \in Line
            /\ Glue(Glue(Glue(Glue(Glue(a, b), c), d), f), g) \in Line
        BY GlueAssociative
      <4>2. /\ Glue(h, k) \in Line /\ Glue(g, Glue(h, k)) \in Line
            /\ Glue(f, Glue(g, Glue(h, k))) \in Line
            /\ Glue(d, Glue(f, Glue(g, Glue(h, k)))) \in Line
            /\ Glue(c, Glue(d, Glue(f, Glue(g, Glue(h, k))))) \in Line
        BY GlueAssociative
      <4>. QED BY <4>1, <4>2, GlueAssociative
    <3>. QED BY <3>1, <3>2, <3>3, Zenon
  <2>. QED BY <2>1, <2>2, <2>3, Zenon
<1>4. Written(e) = UpToNL(e) \o <<NL>>
  BY DEF Written, UpToNL, Eqs
<1>5. UpToNL(e) \in Line /\ Avoids(UpToNL(e), {NL})
  <2> DEFINE b == e.indent \o e.name
             c == b \o e.gap
             d == c \o Eqs(e)
             f == d \o e.pad
             g == f \o e.value
             h == g \o e.tail
  <2>1. UpToNL(e) = h
    BY DEF UpToNL
  <2>2. b \in Line /\ Avoids(b, {NL})
    BY <1>1, <1>2, JoinedLine, JoinAvoids
  <2> HIDE DEF b
  <2>3. c \in Line /\ Avoids(c, {NL})
    BY <1>1, <1>2, <2>2, JoinedLine, JoinAvoids
  <2> HIDE DEF c
  <2>4. d \in Line /\ Avoids(d, {NL})
    BY <1>1, <1>2, <2>3, JoinedLine, JoinAvoids
  <2> HIDE DEF d
  <2>5. f \in Line /\ Avoids(f, {NL})
    BY <1>1, <1>2, <2>4, JoinedLine, JoinAvoids
  <2> HIDE DEF f
  <2>6. g \in Line /\ Avoids(g, {NL})
    BY <1>1, <1>2, <2>5, JoinedLine, JoinAvoids
  <2> HIDE DEF g
  <2>7. h \in Line /\ Avoids(h, {NL})
    BY <1>1, <1>2, <2>6, JoinedLine, JoinAvoids
  <2> HIDE DEF h
  <2>. QED BY <2>1, <2>7
<1>. QED BY <1>3, <1>4, <1>5

LEMMA FgetsReads ==
  ASSUME NEW v \in Line, Avoids(v, {NL}), NEW u \in Line,
         NEW w, w = v \o <<NL>>, Len(w) <= MaxBuf
  PROVE  /\ fgets(w \o u) = w
         /\ SubSeq(w \o u, Len(w) + 1, Len(w \o u)) = u
<1> DEFINE x == w \o u
           I == {i \in 1 .. Len(x) : x[i] = NL}
           n == IF I # {} THEN Min(I) ELSE 0
           m == IF n = 0 THEN Len(x) ELSE n
<1>1. w \in Line /\ Len(w) = Len(v) + 1 /\ Len(v) \in Nat /\ w[Len(v) + 1] = NL
  <2>1. /\ v \o <<NL>> \in Line /\ Len(v \o <<NL>>) = Len(v) + Len(<<NL>>) /\ Len(v) \in Nat
        /\ \A i \in 1 .. Len(<<NL>>) : (v \o <<NL>>)[Len(v) + i] = <<NL>>[i]
    BY Tokens, JoinedLine
  <2>2. Len(<<NL>>) = 1 /\ <<NL>>[1] = NL
    OBVIOUS
  <2>. QED BY <2>1, <2>2
<1>2. \A i \in 1 .. Len(v) : w[i] # NL
  <2>1. \A i \in 1 .. Len(v) : (v \o <<NL>>)[i] = v[i]
    BY Tokens, JoinedLine
  <2>. QED BY <2>1 DEF Avoids
<1>3. /\ x \in Line /\ Len(x) = Len(w) + Len(u) /\ Len(u) \in Nat
      /\ \A i \in 1 .. Len(w) : x[i] = w[i]
  BY <1>1, JoinedLine
<1>4. Len(v) + 1 \in I /\ I \subseteq Nat
  BY <1>1, <1>3
<1>5. \A i \in I : Len(v) + 1 <= i
  BY <1>1, <1>2, <1>3
<1>6. n = Len(v) + 1
  <2> HIDE DEF I
  <2>. QED BY <1>4, <1>5, MinIs
<1>7. fgets(x) = SubSeq(x, 1, IF m < MaxBuf THEN m ELSE MaxBuf)
  BY DEF fgets, SelectInSeq
<1> HIDE DEF n, x
<1>8. m = Len(w)
  BY <1>1, <1>6
<1>9. (IF m < MaxBuf THEN m ELSE MaxBuf) = Len(w)
  BY <1>1, <1>8, WidthAssumption
<1>10. SubSeq(x, 1, Len(w)) = w /\ SubSeq(x, Len(w) + 1, Len(x)) = u
  BY <1>1, SplitLine DEF x
<1>. QED BY <1>7, <1>9, <1>10 DEF x

-----------------------------------------------------------------------------
LEMMA White2 == \A x : x \in White <=> x = SP \/ x = NL
BY DEF White

(* The end of an entry: its tail and the newline. *)
LEMMA TailStarts ==
  ASSUME NEW e \in Entry, Divided(e)
  PROVE  /\ FromTail(e) # <<>> /\ FromTail(e)[1] \in White
         /\ e.name # <<>> /\ (e.gap = <<>> \/ ~e.eq) => Avoids(FromPad(e), {EQ})
         /\ FromTail(e) \in Line /\ FromValue(e) \in Line /\ FromPad(e) \in Line
         /\ e.value \in Line /\ e.tail \in Line /\ e.pad \in Line
<1>1. /\ e.pad \in Line /\ e.value \in Line /\ e.tail \in Line
      /\ FromTail(e) \in Line /\ FromValue(e) \in Line /\ FromPad(e) \in Line
  BY EntryParts
<1>2. ASSUME e.name # <<>>, e.gap = <<>> \/ ~e.eq PROVE Avoids(FromPad(e), {EQ})
  <2>1. Avoids(e.tail, {EQ}) /\ Avoids(e.value, {EQ}) /\ Avoids(e.pad, {EQ})
    BY <1>2, OthersAre, SpacesAre DEF Divided, Entry
  <2>2. Avoids(<<NL>>, {EQ})
    BY Tokens DEF Avoids
  <2>3. Avoids(FromTail(e), {EQ})
    BY <1>1, <2>1, <2>2, Tokens, JoinAvoids DEF FromTail
  <2>4. Avoids(FromValue(e), {EQ})
    BY <1>1, <2>1, <2>3, JoinAvoids DEF FromValue
  <2>. QED BY <1>1, <2>1, <2>4, JoinAvoids DEF FromPad
<1>3. FromTail(e) # <<>> /\ FromTail(e)[1] \in White
  <2>1. CASE e.tail = <<>>
    <3>1. FromTail(e) = <<NL>>
      BY <2>1, Tokens, ConcatEmptySeq DEF FromTail, Line
    <3>. QED BY <3>1 DEF White
  <2>2. CASE e.tail # <<>>
    <3>1. Head(e.tail) = SP
      BY <2>2 DEF Divided
    <3>2. /\ (e.tail \o <<NL>>)[1] = e.tail[1] /\ e.tail \o <<NL>> # <<>>
          /\ Head(e.tail) = e.tail[1]
      BY <1>1, <2>2, Tokens, TailOfJoin
    <3>. QED BY <3>1, <3>2 DEF FromTail, White
  <2>. QED BY <2>1, <2>2
<1>. QED BY <1>1, <1>2, <1>3

(* What stands behind the "=" is read as the value. *)
LEMMA ValueRead ==
  ASSUME NEW e \in Entry, Divided(e)
  PROVE  Before[From[FromPad(e)][White]][White] = e.value
<1>1. /\ e.value \in Line /\ e.pad \in Line /\ AllIn(e.pad, White)
      /\ FromTail(e) \in Line /\ FromValue(e) \in Line /\ FromPad(e) \in Line
      /\ White \in Bytes /\ <<>> \in Line
  BY TailStarts, SpacesAre, Tokens DEF Entry
<1>2. Avoids(e.value, White) /\ (e.value # <<>> => e.value[1] \notin White)
  <2>1. e.value \in Seq(STRING \ {SP, NL})
    BY DEF Divided
  <2>2. Avoids(e.value, {SP, NL}) /\ (e.value # <<>> => e.value[1] \notin {SP, NL})
    BY <2>1, OthersAre
  <2>. QED BY <2>2 DEF Avoids, White
<1>3. CASE e.value # <<>>
  <2>1. FromValue(e) # <<>> /\ FromValue(e)[1] = e.value[1]
    BY <1>1, <1>3, TailOfJoin DEF FromValue
  <2>2. From[FromPad(e)][White] = FromValue(e)
    BY <1>1, <1>2, <1>3, <2>1, FromSkips DEF FromPad
  <2>3. StartsIn(FromTail(e), White)
    BY TailStarts DEF StartsIn
  <2>4. Before[FromValue(e)][White] = e.value
    BY <1>1, <1>2, <2>3, BeforeStops DEF FromValue
  <2>. QED BY <2>2, <2>4
<1>4. CASE e.value = <<>>
  <2>1. e.tail = <<>>
    BY <1>4 DEF Divided
  <2>2. FromTail(e) = <<NL>>
    BY <2>1, Tokens, ConcatEmptySeq DEF FromTail, Line
  <2>3. FromValue(e) = <<NL>>
    BY <1>4, <2>2, Tokens, ConcatEmptySeq DEF FromValue, Line
  <2>4. AllIn(<<NL>>, White)
    BY DEF AllIn, White
  <2>5. AllIn(FromPad(e), White)
    BY <1>1, <2>3, <2>4, Tokens, JoinAllIn DEF FromPad
  <2>6. FromPad(e) \o <<>> = FromPad(e)
    BY <1>1, ConcatEmptySeq DEF Line
  <2>7. From[FromPad(e) \o <<>>][White] = <<>>
    BY <1>1, <2>5, FromSkips
  <2>8. <<>> \o <<>> = <<>> /\ Avoids(<<>>, White) /\ StartsIn(<<>>, White)
    BY <1>1, ConcatEmptySeq DEF Avoids, StartsIn, Line
  <2>9. Before[<<>> \o <<>>][White] = <<>>
    BY <1>1, <2>8, BeforeStops
  <2>. QED BY <1>4, <2>6, <2>7, <2>8, <2>9
<1>. QED BY <1>3, <1>4

(* Where an entry has a name, that is what the parser finds first.         *)
LEMMA NameFound ==
  ASSUME NEW e \in Entry, e.name # <<>>
  PROVE  /\ From[Written(e)][White] = FromName(e)
         /\ FromName(e) # <<>> /\ Head(FromName(e)) = Head(e.name)
         /\ Avoids(e.name, White \cup {EQ})
<1>1. /\ e.indent \in Line /\ AllIn(e.indent, White) /\ e.name \in Line
      /\ FromGap(e) \in Line /\ FromName(e) \in Line /\ White \in Bytes
  BY EntryParts, SpacesAre, Tokens DEF Entry
<1>2. Avoids(e.name, White \cup {EQ}) /\ e.name[1] \notin White
  <2>1. e.name \in Seq(STRING \ {SP, NL, EQ})
    BY DEF Entry
  <2>2. Avoids(e.name, {SP, NL, EQ}) /\ e.name[1] \notin {SP, NL, EQ}
    BY <2>1, OthersAre
  <2>. QED BY <2>2 DEF Avoids, White
<1>3. /\ FromName(e)[1] = e.name[1] /\ FromName(e) # <<>>
      /\ Head(FromName(e)) = e.name[1] /\ Head(e.name) = e.name[1]
  BY <1>1, TailOfJoin DEF FromName
<1>4. From[e.indent \o FromName(e)][White] = FromName(e)
  BY <1>1, <1>2, <1>3, FromSkips
<1>. QED BY <1>2, <1>3, <1>4, WrittenIs

(* parse_config skips comments and blank lines (iris.c:124-127), and       *)
(* nothing else.                                                           *)
LEMMA SkippedIs ==
  ASSUME NEW e \in Entry, Comment(e) \/ Divided(e)
  PROVE  Skipped(Written(e)) <=> Ignored(e)
<1>1. CASE e.name # <<>>
  <2>1. Skipped(Written(e)) <=> Head(e.name) = HASH
    BY <1>1, NameFound DEF Skipped
  <2>. QED BY <1>1, <2>1 DEF Ignored, Comment
<1>2. CASE e.name = <<>>
  <2>1. Divided(e) /\ e.gap = <<>>
    BY <1>2 DEF Comment, Divided
  <2>2. /\ e.indent \in Line /\ AllIn(e.indent, White) /\ FromEq(e) \in Line
        /\ FromPad(e) \in Line /\ White \in Bytes
    BY EntryParts, SpacesAre, Tokens DEF Entry
  <2>3. FromName(e) = FromEq(e)
    BY <1>2, <2>1, <2>2, ConcatEmptySeq DEF FromName, FromGap, Line
  <2>4. CASE e.eq
    <3>1. FromEq(e) = <<EQ>> \o FromPad(e)
      BY <2>4 DEF FromEq, Eqs
    <3>2. FromEq(e) # <<>> /\ FromEq(e)[1] = EQ /\ Head(FromEq(e)) = EQ
      BY <2>2, <3>1, Tokens, TailOfJoin
    <3>3. From[e.indent \o FromEq(e)][White] = FromEq(e)
      BY <2>2, <3>2, Tokens, FromSkips DEF White
    <3>4. From[Written(e)][White] = FromEq(e)
      BY <2>3, <3>3, WrittenIs
    <3>. QED BY <1>2, <2>4, <3>2, <3>4, Tokens DEF Skipped, Ignored, Comment
  <2>5. CASE ~e.eq
    <3>1. FromEq(e) = FromPad(e)
      BY <2>2, <2>5, ConcatEmptySeq DEF FromEq, Eqs, Line
    <3>2. e.value = <<>> /\ e.tail = <<>>
      BY <1>2, <2>1, <2>5 DEF Divided
    <3>3. FromValue(e) = <<NL>>
      BY <3>2, Tokens, ConcatEmptySeq DEF FromValue, FromTail, Line
    <3>4. e.pad \in Line /\ AllIn(e.pad, White) /\ AllIn(<<NL>>, White)
      <4>1. AllIn(<<NL>>, White)
        BY DEF AllIn, White
      <4>. QED BY <4>1, SpacesAre DEF Entry
    <3>5. AllIn(FromPad(e), White)
      BY <3>3, <3>4, Tokens, JoinAllIn DEF FromPad
    <3>6. AllIn(e.indent \o FromPad(e), White) /\ e.indent \o FromPad(e) \in Line
      BY <2>2, <3>5, JoinAllIn, JoinedLine
    <3>7. Written(e) = e.indent \o FromPad(e)
      BY <2>3, <3>1, WrittenIs
    <3>8. AllIn(Written(e), White) /\ Written(e) \in Line /\ Written(e) \o <<>> = Written(e)
      BY <3>6, <3>7, ConcatEmptySeq DEF Line
    <3>9. From[Written(e) \o <<>>][White] = <<>>
      BY <2>2, <3>8, Tokens, FromSkips
    <3>. QED BY <1>2, <2>5, <3>8, <3>9 DEF Skipped, Ignored
  <2>. QED BY <2>4, <2>5
<1>. QED BY <1>1, <1>2

-----------------------------------------------------------------------------
Complete(e) == e.name # <<>> /\ e.gap # <<>> /\ e.eq /\ e.value # <<>>

LEMMA NoEquals ==
  ASSUME NEW line, Avoids(AfterName(line), {EQ}), AfterName(line) \in Line
  PROVE  ~HasEquals(line)
<1>1. DOMAIN AfterName(line) = 1 .. Len(AfterName(line))
  BY DEF Line
<1>. QED BY <1>1 DEF HasEquals, Avoids

(* What parse_config finds on the line of an entry whose name is followed  *)
(* by a gap (iris.c:129-144).                                              *)
LEMMA GapEndsName ==
  ASSUME NEW e \in Entry, Divided(e), e.name # <<>>, e.gap # <<>>
  PROVE  /\ Name(Written(e)) = e.name
         /\ AfterName(Written(e)) = Tail(e.gap) \o FromEq(e)
         /\ Tail(e.gap) \in Line /\ Avoids(Tail(e.gap), {EQ})
<1> DEFINE end == White \cup {EQ}
<1>1. /\ e.name \in Line /\ e.gap \in Line /\ FromEq(e) \in Line /\ FromGap(e) \in Line
      /\ end \in Bytes
  BY EntryParts, Tokens
<1> DEFINE a == From[Written(e)][White]
<1>2. a = e.name \o FromGap(e) /\ Avoids(e.name, end)
  BY NameFound DEF FromName
<1>3. Head(e.gap) \in {SP, EQ} /\ Tail(e.gap) \in Seq(STRING \ {NL, EQ})
  BY DEF Divided
<1>4. Tail(e.gap) \in Line /\ Avoids(Tail(e.gap), {EQ})
  <2>1. Tail(e.gap) \in Line /\ Avoids(Tail(e.gap), {NL, EQ})
    BY <1>3, OthersAre
  <2>. QED BY <2>1 DEF Avoids
<1>5. /\ FromGap(e)[1] = Head(e.gap) /\ FromGap(e) # <<>>
      /\ Tail(FromGap(e)) = Tail(e.gap) \o FromEq(e)
  BY <1>1, TailOfJoin DEF FromGap
<1>6. FromGap(e)[1] \in end
  BY <1>3, <1>5 DEF White
<1> HIDE DEF end, a
<1>7. Before[a][end] = e.name /\ Behind[a][end] = Tail(FromGap(e))
  <2>1. PICK s \in Line, t \in Line, w \in Line : s = e.name /\ t = FromGap(e) /\ w = a
    BY <1>1, <1>2, JoinedLine
  <2>2. CutAt(w, s, t, end)
    BY <1>2, <1>5, <1>6, <2>1 DEF CutAt, StartsIn
  <2>3. Before[w][end] = s /\ Behind[w][end] = Tail(t)
    BY <1>1, <2>2, StopsAt
  <2>. QED BY <2>1, <2>3
<1>8. a # e.name
  BY <1>1, <1>2, <1>5, ConcatEqualIffEmpty DEF Line
<1>9. Name(Written(e)) = e.name
  BY <1>7, <1>8 DEF Name, end, a
<1>. QED BY <1>4, <1>5, <1>7, <1>9 DEF AfterName, end, a

(* Where an entry has its "=", the rest begins with it.                    *)
LEMMA EqStarts ==
  ASSUME NEW e \in Entry, e.eq
  PROVE  /\ FromEq(e) = <<EQ>> \o FromPad(e) /\ FromEq(e) \in Line /\ FromPad(e) \in Line
         /\ FromEq(e) # <<>> /\ FromEq(e)[1] = EQ /\ Tail(FromEq(e)) = FromPad(e)
<1>1. FromPad(e) \in Line /\ FromEq(e) \in Line /\ FromEq(e) = <<EQ>> \o FromPad(e)
  BY EntryParts DEF FromEq, Eqs
<1>2. /\ FromEq(e)[1] = <<EQ>>[1] /\ FromEq(e) # <<>>
      /\ Tail(FromEq(e)) = Tail(<<EQ>>) \o FromPad(e)
  BY <1>1, Tokens, TailOfJoin
<1>3. Tail(<<EQ>>) = <<>> /\ <<EQ>>[1] = EQ
  OBVIOUS
<1>4. <<>> \o FromPad(e) = FromPad(e)
  BY <1>1, ConcatEmptySeq DEF Line
<1>. QED BY <1>1, <1>2, <1>3, <1>4

LEMMA CompleteRead ==
  ASSUME NEW e \in Entry, Divided(e), Complete(e)
  PROVE  /\ Name(Written(e)) = e.name
         /\ HasEquals(Written(e)) /\ ValueOf(Written(e)) = e.value
<1>1. /\ Name(Written(e)) = e.name
      /\ AfterName(Written(e)) = Tail(e.gap) \o FromEq(e)
      /\ Tail(e.gap) \in Line /\ Avoids(Tail(e.gap), {EQ})
  BY GapEndsName DEF Complete
<1> DEFINE t == Tail(e.gap)
           line == Written(e)
<1>2. FromPad(e) \in Line /\ FromEq(e) \in Line
  BY EqStarts DEF Complete
<1>3. FromEq(e) # <<>> /\ FromEq(e)[1] = EQ /\ Tail(FromEq(e)) = FromPad(e)
  BY EqStarts DEF Complete
<1> HIDE DEF t
<1>4. Behind[AfterName(line)][{EQ}] = FromPad(e)
  <2>1. PICK end \in Bytes : end = {EQ}
    BY Tokens
  <2>2. PICK u \in Line, w \in Line : u = FromEq(e) /\ w = AfterName(line)
    BY <1>1, <1>2, JoinedLine DEF t
  <2>3. t \in Line /\ CutAt(w, t, u, end)
    BY <1>1, <1>3, <2>1, <2>2 DEF t, CutAt, StartsIn
  <2>4. Behind[w][end] = Tail(u)
    BY <2>3, StopsAt
  <2>. QED BY <1>3, <2>1, <2>2, <2>4
<1>5. ValueOf(line) = e.value
  BY <1>4, ValueRead DEF ValueOf
<1>6. HasEquals(line)
  <2>1. /\ t \o FromEq(e) \in Line /\ Len(t \o FromEq(e)) = Len(t) + Len(FromEq(e))
        /\ Len(t) \in Nat /\ Len(FromEq(e)) \in Nat
        /\ \A i \in 1 .. Len(FromEq(e)) : (t \o FromEq(e))[Len(t) + i] = FromEq(e)[i]
    BY <1>1, <1>2, JoinedLine DEF t
  <2>2. Len(FromEq(e)) # 0
    BY <1>2, <1>3, NonEmpty
  <2>3. (t \o FromEq(e))[Len(t) + 1] = EQ /\ Len(t) + 1 \in 1 .. Len(t \o FromEq(e))
    BY <1>3, <2>1, <2>2
  <2>4. DOMAIN (t \o FromEq(e)) = 1 .. Len(t \o FromEq(e))
    BY <2>1 DEF Line
  <2>. QED BY <1>1, <2>3, <2>4 DEF HasEquals, t
<1>. QED BY <1>1, <1>5, <1>6

(* parse_config refuses the line of an entry that is not complete: nothing *)
(* ends the name, no "=" is found, or no value (iris.c:129-151).           *)
LEMMA IncompleteRefused ==
  ASSUME NEW e \in Entry, Divided(e), ~Ignored(e), ~Complete(e)
  PROVE  Result(Written(e)) \in 1 .. 3
<1> DEFINE line == Written(e)
<1>1. /\ e.indent \in Line /\ e.name \in Line /\ FromPad(e) \in Line /\ FromEq(e) \in Line
      /\ FromGap(e) \in Line
      /\ e.name # <<>> /\ (e.gap = <<>> \/ ~e.eq) => Avoids(FromPad(e), {EQ})
  BY EntryParts, TailStarts
<1>2. ASSUME ~HasEquals(line) PROVE Result(line) \in 1 .. 3
  <2>1. CASE Name(line) = <<>>
    BY <2>1 DEF Result
  <2>2. CASE Name(line) # <<>>
    <3>1. Result(line) = 2
      BY <1>2, <2>2 DEF Result, HasEquals, Given
    <3>. QED BY <3>1
  <2>. QED BY <2>1, <2>2
<1>3. CASE e.name = <<>>
  <2>1. e.eq /\ e.gap = <<>>
    BY <1>3 DEF Ignored, Divided
  <2>2. FromName(e) = <<EQ>> \o FromPad(e)
    BY <1>1, <1>3, <2>1, ConcatEmptySeq DEF FromName, FromGap, FromEq, Eqs, Line
  <2>3. FromName(e) # <<>> /\ FromName(e)[1] = EQ /\ FromName(e) \in Line
    BY <1>1, <2>2, Tokens, TailOfJoin, JoinedLine
  <2>4. AllIn(e.indent, White) /\ EQ \notin White
    BY SpacesAre, Tokens DEF Entry, White
  <2>5. From[line][White] = FromName(e)
    BY <1>1, <2>3, <2>4, Tokens, FromSkips, WrittenIs
  <2>6. <<>> \o FromName(e) = FromName(e) /\ Avoids(<<>>, White \cup {EQ})
    BY <2>3, ConcatEmptySeq DEF Avoids, Line
  <2>7. Before[<<>> \o FromName(e)][White \cup {EQ}] = <<>>
    BY <2>3, <2>6, Tokens, BeforeStops, ZenonT(40) DEF StartsIn
  <2>8. Name(line) = <<>>
    BY <2>5, <2>6, <2>7 DEF Name
  <2>. QED BY <2>8 DEF Result
<1>4. CASE e.name # <<>> /\ e.gap # <<>>
  <2>1. /\ Name(line) = e.name /\ AfterName(line) = Tail(e.gap) \o FromEq(e)
        /\ Tail(e.gap) \in Line /\ Avoids(Tail(e.gap), {EQ})
    BY <1>4, GapEndsName
  <2>2. CASE ~e.eq
    <3>1. FromEq(e) = FromPad(e)
      BY <1>1, <2>2, ConcatEmptySeq DEF FromEq, Eqs, Line
    <3>2. Avoids(AfterName(line), {EQ}) /\ AfterName(line) \in Line
      <4>1. PICK s \in Line, t \in Line : s = Tail(e.gap) /\ t = FromPad(e)
        BY <1>1, <2>1
      <4>2. Avoids(s \o t, {EQ}) /\ s \o t \in Line
        BY <1>1, <1>4, <2>1, <2>2, <4>1, JoinAvoids, JoinedLine
      <4>. QED BY <2>1, <3>1, <4>1, <4>2
    <3>. QED BY <1>2, <3>2, NoEquals
  <2>3. CASE e.eq
    <3>1. e.value = <<>>
      BY <1>4, <2>3 DEF Complete
    <3>2. FromEq(e) # <<>> /\ FromEq(e)[1] = EQ /\ Tail(FromEq(e)) = FromPad(e)
      BY <2>3, EqStarts
    <3>3. Behind[AfterName(line)][{EQ}] = FromPad(e)
      <4>1. PICK end \in Bytes : end = {EQ}
        BY Tokens
      <4>2. PICK s \in Line, t \in Line, w \in Line :
              s = Tail(e.gap) /\ t = FromEq(e) /\ w = AfterName(line)
        BY <1>1, <2>1, JoinedLine
      <4>3. CutAt(w, s, t, end)
        BY <2>1, <3>2, <4>1, <4>2 DEF CutAt, StartsIn
      <4>4. Behind[w][end] = Tail(t)
        BY <4>3, StopsAt
      <4>. QED BY <3>2, <4>1, <4>2, <4>4
    <3>4. ValueOf(line) = <<>>
      BY <3>1, <3>3, ValueRead DEF ValueOf
    <3>5. ASSUME HasEquals(line) PROVE Result(line) = 3
      BY <1>4, <2>1, <3>4, <3>5 DEF Result, Given
    <3>. QED BY <1>2, <3>5
  <2>. QED BY <2>2, <2>3
<1>5. CASE e.name # <<>> /\ e.gap = <<>>
  <2>1. From[line][White] = e.name \o FromGap(e) /\ Avoids(e.name, White \cup {EQ})
    BY <1>5, NameFound DEF FromName
  <2>2. FromGap(e) = FromEq(e)
    BY <1>1, <1>5, ConcatEmptySeq DEF FromGap, Line
  <2>3. CASE e.eq
    <3>1. FromEq(e) # <<>> /\ FromEq(e)[1] = EQ /\ Tail(FromEq(e)) = FromPad(e)
      BY <2>3, EqStarts
    <3>2. Behind[From[line][White]][White \cup {EQ}] = FromPad(e)
      <4>1. PICK end \in Bytes : end = White \cup {EQ}
        BY Tokens
      <4>2. PICK s \in Line, t \in Line : s = e.name /\ t = FromEq(e)
        BY <1>1
      <4>3. PICK w \in Line : w = s \o t
        BY JoinedLine
      <4>4. CutAt(w, s, t, end)
        BY <2>1, <3>1, <4>1, <4>2, <4>3 DEF CutAt, StartsIn
      <4>5. Behind[w][end] = Tail(t)
        BY <4>4, StopsAt
      <4>. QED BY <2>1, <2>2, <3>1, <4>1, <4>2, <4>3, <4>5
    <3>. QED BY <1>1, <1>2, <1>5, <3>2, NoEquals DEF AfterName
  <2>4. CASE ~e.eq
    <3>1. FromEq(e) = FromPad(e)
      BY <1>1, <2>4, ConcatEmptySeq DEF FromEq, Eqs, Line
    <3>2. Avoids(e.name, {EQ})
      BY <2>1 DEF Avoids
    <3>3. e.name \o FromPad(e) \in Line /\ Avoids(e.name \o FromPad(e), {EQ})
      BY <1>1, <1>5, <3>2, JoinedLine, JoinAvoids
    <3>4. AfterName(line) = Behind[e.name \o FromPad(e)][White \cup {EQ}]
      BY <2>1, <2>2, <3>1 DEF AfterName
    <3>5. Avoids(AfterName(line), {EQ}) /\ AfterName(line) \in Line
      BY <3>3, <3>4, Tokens, BehindAvoids, BehindIsLine
    <3>. QED BY <1>2, <3>5, NoEquals
  <2>. QED BY <2>3, <2>4
<1>. QED BY <1>3, <1>4, <1>5

(* What parse_config makes of the line of an entry is what the entry       *)
(* means.                                                                  *)
LEMMA EntryRead ==
  ASSUME NEW e \in Entry, Comment(e) \/ Divided(e), ~Ignored(e)
  PROVE  /\ Result(Written(e)) = 0 <=> Accepted(e)
         /\ Accepted(e) => Name(Written(e)) = e.name /\ ValueOf(Written(e)) = e.value
<1> DEFINE line == Written(e)
<1>1. Divided(e)
  BY DEF Ignored
<1>2. CASE ~Complete(e)
  <2>1. Result(line) \in 1 .. 3
    BY <1>1, <1>2, IncompleteRefused
  <2>. QED BY <1>2, <2>1 DEF Accepted, Complete
<1>3. CASE Complete(e)
  <2>1. Name(line) = e.name /\ HasEquals(line) /\ ValueOf(line) = e.value
    BY <1>1, <1>3, CompleteRead
  <2>2. e.name # <<>> /\ e.gap # <<>> /\ e.eq /\ e.value # <<>>
    BY <1>3 DEF Complete
  <2>3. Given(line)
    BY <2>1, <2>2 DEF Given
  <2>4. Accepted(e) <=> (e.name \in {<<"max_clients">>, <<"max_lifetime">>} => ~BadNumber(e.value))
    BY <2>2 DEF Accepted
  <2>5. <<"max_clients">> # <<"max_lifetime">>
    OBVIOUS
  <2>6. CASE e.name = <<"max_clients">> /\ BadNumber(e.value)
    BY <2>1, <2>2, <2>3, <2>4, <2>5, <2>6 DEF Result
  <2>7. CASE e.name = <<"max_lifetime">> /\ BadNumber(e.value)
    BY <2>1, <2>2, <2>3, <2>4, <2>5, <2>7 DEF Result
  <2>8. CASE e.name \in {<<"max_clients">>, <<"max_lifetime">>} => ~BadNumber(e.value)
    BY <2>1, <2>2, <2>3, <2>4, <2>8 DEF Result
  <2>. QED BY <2>1, <2>6, <2>7, <2>8
<1>. QED BY <1>2, <1>3

-----------------------------------------------------------------------------
Members == {"port", "max_clients", "max_lifetime", "syslog_ident", "syslog_facility"}

(* What a directive's value is in its member. *)
Meant(name, v) ==
  CASE name = "max_clients" -> uint32_t(strtol(v))
    [] name = "max_lifetime" -> strtol(v)
    [] name = "syslog_facility" -> Lower(v)
    [] OTHER -> v

LEMMA SetMember ==
  ASSUME server = [m \in Members |-> server[m]], NEW e \in Entry
  PROVE  Set(server, e.name, e.value)
           = [m \in Members |-> IF e.name = <<m>> THEN Meant(m, e.value) ELSE server[m]]
<1> DEFINE name == e.name
           value == e.value
           t == Set(server, name, value)
           r == [m \in Members |-> IF name = <<m>> THEN Meant(m, value) ELSE server[m]]
<1>1. \A a, b : <<a>> = <<b>> => a = b
  OBVIOUS
<1>2. ASSUME NEW k \in Members, name = <<k>>, t = [server EXCEPT ![k] = Meant(k, value)]
      PROVE  t = r
  <2>1. \A m \in Members : name = <<m>> <=> m = k
    BY <1>1, <1>2
  <2> HIDE DEF t
  <2>. QED BY <1>2, <2>1
<1>3. CASE name = <<"port">>
  <2>1. t = [server EXCEPT !["port"] = Meant("port", value)]
    BY <1>3 DEF Set, Meant
  <2>. QED BY <1>2, <1>3, <2>1 DEF Members
<1>4. CASE name = <<"max_clients">>
  <2>1. t = [server EXCEPT !["max_clients"] = Meant("max_clients", value)]
    BY <1>4 DEF Set, Meant
  <2>. QED BY <1>2, <1>4, <2>1 DEF Members
<1>5. CASE name = <<"max_lifetime">>
  <2>1. t = [server EXCEPT !["max_lifetime"] = Meant("max_lifetime", value)]
    BY <1>5 DEF Set, Meant
  <2>. QED BY <1>2, <1>5, <2>1 DEF Members
<1>6. CASE name = <<"syslog_ident">>
  <2>1. t = [server EXCEPT !["syslog_ident"] = Meant("syslog_ident", value)]
    BY <1>6 DEF Set, Meant
  <2>. QED BY <1>2, <1>6, <2>1 DEF Members
<1>7. CASE name = <<"syslog_facility">>
  <2>1. t = [server EXCEPT !["syslog_facility"] = Meant("syslog_facility", value)]
    BY <1>7 DEF Set, Meant
  <2>. QED BY <1>2, <1>7, <2>1 DEF Members
<1>8. ASSUME \A m \in Members : name # <<m>> PROVE t = r
  <2>1. t = server
    BY <1>8 DEF Set, Members
  <2>2. r = [m \in Members |-> server[m]]
    BY <1>8
  <2> HIDE DEF t, r
  <2>. QED BY <2>1, <2>2
<1>9. \A m \in Members : m = "port" \/ m = "max_clients" \/ m = "max_lifetime"
                          \/ m = "syslog_ident" \/ m = "syslog_facility"
  BY DEF Members
<1>10. ASSUME NEW m \in Members, name = <<m>> PROVE t = r
  BY <1>3, <1>4, <1>5, <1>6, <1>7, <1>9, <1>10
<1> HIDE DEF t, r
<1>11. t = r
  BY <1>8, <1>10
<1>. QED BY <1>11 DEF t, r

(* The value that the first k entries leave in a member: that of the last  *)
(* one that sets it, or the default.                                       *)
SetBy(m, k, x) ==
  \/ (\A n \in 1 .. k : file[n].name # <<m>>) /\ x = Defaults(Numbers["20"])[m]
  \/ \E n \in 1 .. k : /\ file[n].name = <<m>> /\ x = Meant(m, file[n].value)
                       /\ \A j \in n + 1 .. k : file[j].name # <<m>>

LEMMA SetByNext ==
  ASSUME NEW k \in Nat, NEW m, NEW x, SetBy(m, k, x), NEW y,
         y = IF file[k + 1].name = <<m>> THEN Meant(m, file[k + 1].value) ELSE x
  PROVE  SetBy(m, k + 1, y)
<1>1. CASE file[k + 1].name = <<m>>
  <2>1. k + 1 \in 1 .. k + 1 /\ \A j \in (k + 1) + 1 .. k + 1 : file[j].name # <<m>>
    OBVIOUS
  <2>. QED BY <1>1, <2>1 DEF SetBy
<1>2. CASE file[k + 1].name # <<m>>
  <2>1. CASE (\A n \in 1 .. k : file[n].name # <<m>>) /\ x = Defaults(Numbers["20"])[m]
    <3>1. \A n \in 1 .. k + 1 : file[n].name # <<m>>
      <4>1. \A n \in 1 .. k + 1 : n \in 1 .. k \/ n = k + 1
        OBVIOUS
      <4>. QED BY <1>2, <2>1, <4>1
    <3>. QED BY <1>2, <2>1, <3>1 DEF SetBy
  <2>2. ASSUME NEW n \in 1 .. k, file[n].name = <<m>>, x = Meant(m, file[n].value),
               \A j \in n + 1 .. k : file[j].name # <<m>>
        PROVE  SetBy(m, k + 1, y)
    <3>1. n \in 1 .. k + 1 /\ \A j \in n + 1 .. k + 1 : j \in n + 1 .. k \/ j = k + 1
      OBVIOUS
    <3>2. \A j \in n + 1 .. k + 1 : file[j].name # <<m>>
      BY <1>2, <2>2, <3>1
    <3>. QED BY <1>2, <2>2, <3>1, <3>2 DEF SetBy
  <2>. QED BY <2>1, <2>2 DEF SetBy
<1>. QED BY <1>1, <1>2

-----------------------------------------------------------------------------
(***************************************************************************)
(* The invariant: as long as parse_config runs, it has read some first     *)
(* entries of the file, none of them in error, and struct server is what   *)
(* they mean.                                                              *)
(***************************************************************************)
Fits == \A n \in DOMAIN file : Len(Written(file[n])) <= MaxBuf
Parts == [n \in DOMAIN file |-> Written(file[n])]
Text == FlattenSeq(Parts)
Good(e) == Ignored(e) \/ Accepted(e)

MeansFirst(k) ==
  /\ \A n \in 1 .. k : Good(file[n])
  /\ server = [m \in Members |-> server[m]]
  /\ \A m \in Members : SetBy(m, k, server[m])
HasRead(k) == \E cut : Cut(Text, Parts, cut) /\ unread = After(Text, cut[k])

FileInv ==
  /\ file \in Files
  /\ Fits =>
       /\ rc = -1 => \E k \in 0 .. Len(file) : HasRead(k) /\ MeansFirst(k)
       /\ rc = 0 => MeansFirst(Len(file))
       /\ rc \notin {-1, 0} => \E n \in DOMAIN file : ~Good(file[n])

LEMMA FileIs ==
  ASSUME file \in Files
  PROVE  /\ Len(file) \in Nat /\ DOMAIN file = 1 .. Len(file)
         /\ Parts \in Seq(Line) /\ Len(Parts) = Len(file)
         /\ \A n \in DOMAIN file : /\ file[n] \in Entry /\ Parts[n] = Written(file[n])
                                   /\ Comment(file[n]) \/ Divided(file[n])
<1>1. file \in Seq(Entry) /\ \A n \in DOMAIN file : Comment(file[n]) \/ Divided(file[n])
  BY FilesAssumption
<1>2. Len(file) \in Nat /\ DOMAIN file = 1 .. Len(file) /\ \A n \in DOMAIN file : file[n] \in Entry
  BY <1>1
<1>3. \A n \in 1 .. Len(file) : Written(file[n]) \in Line
  <2>1. ASSUME NEW e \in Entry PROVE Written(e) \in Line
    <3>1. PICK s \in Line, t \in Line : Written(e) = s \o t
      BY WrittenIs, Tokens
    <3>. QED BY <3>1, JoinedLine
  <2>. QED BY <1>2, <2>1
<1>4. Parts = [n \in 1 .. Len(file) |-> Written(file[n])]
  BY <1>2 DEF Parts
<1>5. Parts \in Seq(Line) /\ Len(Parts) = Len(file)
  <2>1. Parts \in [1 .. Len(file) -> Line]
    BY <1>3, <1>4
  <2>. QED BY <1>2, <2>1
<1>. QED BY <1>1, <1>2, <1>4, <1>5

LEMMA InitFileInv == Init => FileInv
<1>. SUFFICES ASSUME Init PROVE FileInv
  OBVIOUS
<1>1. /\ file \in Files /\ unread = Text /\ rc = -1
      /\ server = Defaults(Numbers["20"])
  BY DEF Init, ConfigInit, Text, Parts
<1>2. Len(file) \in Nat /\ Parts \in Seq(Line) /\ Len(Parts) = Len(file) /\ Len(Parts) \in Nat
  BY <1>1, FileIs
<1>3. HasRead(0)
  <2>1. PICK cut : Cut(Text, Parts, cut)
    BY <1>2, FlattenIsCut DEF Text
  <2>2. After(Text, cut[0]) = Text
    BY <1>2, <2>1, CutEnds
  <2>. QED BY <1>1, <2>1, <2>2 DEF HasRead
<1>4. MeansFirst(0)
  <2>1. Defaults(Numbers["20"]) = [m \in Members |-> Defaults(Numbers["20"])[m]]
    BY DEF Defaults, Members
  <2>2. \A m \in Members : SetBy(m, 0, server[m])
    BY <1>1 DEF SetBy
  <2>. QED BY <1>1, <2>1, <2>2 DEF MeansFirst
<1>. QED BY <1>1, <1>2, <1>3, <1>4 DEF FileInv

LEMMA SameFile ==
  ASSUME file' = file
  PROVE  /\ Parts' = Parts /\ Text' = Text /\ Fits' = Fits
         /\ \A m, k, x : SetBy(m, k, x)' = SetBy(m, k, x)
<1>1. Parts' = Parts
  BY DEF Parts
<1>. QED BY <1>1 DEF Text, Fits, SetBy

(* Where the entries end, and what the next one is. *)
LEMMA NextEntry ==
  ASSUME file \in Files, Fits, NEW k \in 0 .. Len(file), HasRead(k)
  PROVE  /\ k = Len(file) => unread = <<>>
         /\ k # Len(file) =>
              /\ unread # <<>> /\ fgets(unread) = Written(file[k + 1])
              /\ \A rest : rest = SubSeq(unread, Len(Written(file[k + 1])) + 1, Len(unread)) =>
                   \E cut : Cut(Text, Parts, cut) /\ rest = After(Text, cut[k + 1])
<1>1. /\ Len(file) \in Nat /\ DOMAIN file = 1 .. Len(file)
      /\ Parts \in Seq(Line) /\ Len(Parts) = Len(file) /\ k \in Nat
  BY FileIs
<1>2. PICK cut : Cut(Text, Parts, cut) /\ unread = After(Text, cut[k])
  BY DEF HasRead
<1>3. CASE k = Len(file)
  BY <1>1, <1>2, <1>3, CutEnds
<1>4. CASE k # Len(file)
  <2> DEFINE e == file[k + 1]
  <2>1. k < Len(Parts) /\ k + 1 \in DOMAIN file
    <3>1. PICK l \in Nat : l = Len(file)
      BY <1>1
    <3>2. k \in 0 .. l /\ k # l
      BY <1>4, <3>1
    <3>3. k < l /\ k + 1 \in 1 .. l
      BY <3>2
    <3>. QED BY <1>1, <3>1, <3>3
  <2>2. e \in Entry /\ Parts[k + 1] = Written(e) /\ Len(Written(e)) <= MaxBuf
    BY <2>1, FileIs DEF Fits
  <2>3. PICK u \in Line : u = After(Text, cut[k + 1]) /\ unread = Written(e) \o u
    <3>1. /\ After(Text, cut[k]) = Parts[k + 1] \o After(Text, cut[k + 1])
          /\ After(Text, cut[k + 1]) \in Line
      <4>1. /\ Parts \in Seq(Line) /\ Text \in Line /\ cut \in [0 .. Len(Parts) -> Nat]
            /\ Cut(Text, Parts, cut) /\ k \in Nat /\ k < Len(Parts)
        BY <1>1, <1>2, <2>1 DEF Cut
      <4> HIDE DEF e
      <4>. QED BY ONLY <4>1, CutNext
    <3>. QED BY <1>2, <2>2, <3>1
  <2> HIDE DEF e
  <2>4. PICK v \in Line, w \in Line : w = Written(e) /\ w = v \o <<NL>> /\ Avoids(v, {NL})
    <3>1. UpToNL(e) \in Line /\ Avoids(UpToNL(e), {NL}) /\ Written(e) = UpToNL(e) \o <<NL>>
      BY <2>2, WrittenIs
    <3>. QED BY <3>1, Tokens, JoinedLine
  <2>5. fgets(w \o u) = w /\ SubSeq(w \o u, Len(w) + 1, Len(w \o u)) = u
    BY <2>2, <2>4, FgetsReads
  <2>6. w \o u # <<>>
    <3>1. Len(w) = Len(v) + Len(<<NL>>) /\ Len(v) \in Nat /\ Len(<<NL>>) = 1
      BY <2>4, Tokens, JoinedLine
    <3>2. w # <<>>
      BY <3>1, <2>4, NonEmpty
    <3>. QED BY <2>4, <3>2, TailOfJoin
  <2>. QED BY <1>2, <1>4, <2>3, <2>4, <2>5, <2>6 DEF e
<1>. QED BY <1>3, <1>4

(* An entry that parse_config skips sets nothing. *)
LEMMA IgnoredSetsNothing ==
  ASSUME NEW e, Ignored(e), NEW m \in Members PROVE e.name # <<m>>
<1>1. Head(<<m>>) = m /\ <<m>> # <<>> /\ m # HASH
  BY DEF Members, HASH
<1>. QED BY <1>1 DEF Ignored, Comment

LEMMA LineMeans ==
  ASSUME FileInv, Fits, ParseLine
  PROVE  FileInv'
<1>1. file \in Files /\ file' = file /\ rc = -1 /\ unread # <<>>
  BY DEF FileInv, ParseLine
<1>2. PICK k \in 0 .. Len(file) : HasRead(k) /\ MeansFirst(k)
  BY <1>1 DEF FileInv
<1>3. Len(file) \in Nat /\ DOMAIN file = 1 .. Len(file)
  BY <1>1, FileIs
<1>4. k # Len(file)
  BY <1>1, <1>2, NextEntry
<1>5. k \in Nat /\ k + 1 \in DOMAIN file /\ k + 1 \in 0 .. Len(file)
  <2>1. PICK l \in Nat : l = Len(file)
    BY <1>3
  <2>2. k \in 0 .. l /\ k # l
    BY <1>4, <2>1
  <2>3. k \in Nat /\ k + 1 \in 1 .. l /\ k + 1 \in 0 .. l
    BY <2>2
  <2>. QED BY <1>3, <2>1, <2>3
<1> DEFINE e == file[k + 1]
           line == Written(e)
<1>6. e \in Entry /\ (Comment(e) \/ Divided(e))
  BY <1>1, <1>5, FileIs
<1>7. fgets(unread) = line
  BY <1>1, <1>2, <1>4, NextEntry
<1>8. /\ unread' = SubSeq(unread, Len(line) + 1, Len(unread))
      /\ IF Skipped(line)
         THEN UNCHANGED <<server, MAX_LIFETIME, rc>>
         ELSE /\ rc' = IF Result(line) = 0 THEN -1 ELSE Result(line)
              /\ server' = IF Result(line) \in 1 .. 3 THEN server
                           ELSE Set(server, Name(line), ValueOf(line))
  BY <1>7 DEF ParseLine
<1>9. HasRead(k + 1)'
  <2>1. \E cut : Cut(Text, Parts, cut) /\ unread' = After(Text, cut[k + 1])
    BY <1>1, <1>2, <1>4, <1>8, NextEntry
  <2>2. Text' = Text /\ Parts' = Parts
    BY <1>1, SameFile
  <2>. QED BY <2>1, <2>2 DEF HasRead
<1>10. \A n \in 1 .. k + 1 : n \in 1 .. k \/ n = k + 1
  BY <1>5
<1>11. /\ \A n \in 1 .. k : Good(file[n])
       /\ server = [m \in Members |-> server[m]]
       /\ \A m \in Members : SetBy(m, k, server[m])
  BY <1>2 DEF MeansFirst
<1> HIDE DEF e, line
<1>12. ASSUME Good(e), server' = [m \in Members |-> server'[m]], rc' = -1,
              \A m \in Members :
                server'[m] = IF e.name = <<m>> THEN Meant(m, e.value) ELSE server[m]
       PROVE  FileInv'
  <2>1. \A n \in 1 .. k + 1 : Good(file[n])
    BY <1>10, <1>11, <1>12 DEF e
  <2>2. \A m \in Members : SetBy(m, k + 1, server'[m])
    BY <1>5, <1>11, <1>12, SetByNext DEF e
  <2>3. MeansFirst(k + 1)'
    <3>1. \A m \in Members : SetBy(m, k + 1, server[m])'
      BY <1>1, <2>2 DEF SetBy
    <3>. QED BY <1>1, <1>12, <2>1, <3>1 DEF MeansFirst
  <2>. QED BY <1>1, <1>5, <1>9, <1>12, <2>3 DEF FileInv
<1>13. CASE Ignored(e)
  <2>1. Skipped(line)
    BY <1>6, <1>13, SkippedIs DEF line
  <2>2. server' = server /\ rc' = -1
    BY <1>1, <1>8, <2>1
  <2>3. \A m \in Members : e.name # <<m>>
    BY <1>13, IgnoredSetsNothing
  <2>. QED BY <1>11, <1>12, <1>13, <2>2, <2>3 DEF Good
<1>14. CASE ~Ignored(e) /\ Accepted(e)
  <2>1. ~Skipped(line) /\ Result(line) = 0 /\ Name(line) = e.name /\ ValueOf(line) = e.value
    BY <1>6, <1>14, SkippedIs, EntryRead DEF line
  <2>2. rc' = -1 /\ server' = Set(server, e.name, e.value)
    BY <1>8, <2>1
  <2>3. server' = [m \in Members |-> IF e.name = <<m>> THEN Meant(m, e.value) ELSE server[m]]
    BY <1>6, <1>11, <2>2, SetMember
  <2>. QED BY <1>12, <1>14, <2>2, <2>3 DEF Good
<1>15. CASE ~Ignored(e) /\ ~Accepted(e)
  <2>1. ~Skipped(line) /\ Result(line) # 0 /\ Result(line) \in 0 .. 5
    BY <1>6, <1>15, SkippedIs, EntryRead, ResultType DEF line
  <2>2. rc' \notin {-1, 0}
    BY <1>8, <2>1
  <2>3. \E n \in DOMAIN file : ~Good(file[n])
    BY <1>5, <1>15 DEF Good, e
  <2>. QED BY <1>1, <2>2, <2>3 DEF FileInv
<1>. QED BY <1>13, <1>14, <1>15

LEMMA EndMeans ==
  ASSUME FileInv, Fits, ParseEnd
  PROVE  FileInv'
<1>1. file \in Files /\ rc = -1 /\ unread = <<>> /\ rc' = 0 /\ file' = file /\ server' = server
  BY DEF FileInv, ParseEnd
<1>2. PICK k \in 0 .. Len(file) : HasRead(k) /\ MeansFirst(k)
  BY <1>1 DEF FileInv
<1>3. MeansFirst(Len(file))
  BY <1>1, <1>2, NextEntry
<1>4. MeansFirst(Len(file))'
  BY <1>1, <1>3 DEF MeansFirst, SetBy
<1>. QED BY <1>1, <1>4 DEF FileInv

LEMMA StepFileInv == FileInv /\ [Next]_vars => FileInv'
<1>. SUFFICES ASSUME FileInv, [Next]_vars PROVE FileInv'
  OBVIOUS
<1>1. CASE UNCHANGED configVars
  <2>1. file' = file /\ unread' = unread /\ server' = server /\ rc' = rc
    BY <1>1 DEF configVars
  <2>2. Text' = Text /\ Parts' = Parts /\ Fits' = Fits
    BY <2>1, SameFile
  <2>3. ASSUME NEW k PROVE (HasRead(k)' = HasRead(k)) /\ (MeansFirst(k)' = MeansFirst(k))
    BY <2>1, <2>2 DEF HasRead, MeansFirst, SetBy
  <2>. QED BY <2>1, <2>2, <2>3 DEF FileInv
<1>2. CASE Configure
  <2>1. CASE Fits
    BY <1>2, <2>1, LineMeans, EndMeans DEF Configure
  <2>2. CASE ~Fits
    <3>1. file' = file
      BY <1>2 DEF Configure, ParseLine, ParseEnd
    <3>2. Fits' = Fits
      BY <3>1, SameFile
    <3>. QED BY <2>2, <3>1, <3>2 DEF FileInv
  <2>. QED BY <2>1, <2>2
<1>. QED BY <1>1, <1>2
     DEF Next, vars, SkipConfig, Configured, client_init, getaddrinfo, NoSocket, NotBound, Bound,
         Nonblocking, CloseOnExec, Listen, Fail, net_poller, StrangerOpens, StrangerCloses

LEMMA AlwaysFileInv == Spec => []FileInv
BY InitFileInv, StepFileInv, PTL DEF Spec

LEMMA MeaningIs ==
  ASSUME file \in Files, NEW m \in Members, NEW x, SetBy(m, Len(file), x)
  PROVE  x = Meaning(m)
<1> DEFINE S == {n \in DOMAIN file : file[n].name = <<m>>}
<1>1. PICK l \in Nat : l = Len(file) /\ DOMAIN file = 1 .. l
  BY FileIs
<1>2. CASE (\A n \in 1 .. l : file[n].name # <<m>>) /\ x = Defaults(Numbers["20"])[m]
  <2>1. S = {}
    BY <1>1, <1>2
  <2>2. Setter(m) = 0
    BY <2>1 DEF Setter
  <2>. QED BY <1>2, <2>2 DEF Meaning
<1>3. ASSUME NEW n \in 1 .. l, file[n].name = <<m>>, x = Meant(m, file[n].value),
             \A j \in n + 1 .. l : file[j].name # <<m>>
      PROVE  x = Meaning(m)
  <2>1. n \in S /\ S \subseteq Nat /\ S # {}
    BY <1>1, <1>3
  <2>2. \A j \in S : j <= n
    <3>1. \A j \in 1 .. l : j <= n \/ j \in n + 1 .. l
      OBVIOUS
    <3>. QED BY <1>1, <1>3, <3>1
  <2>3. Setter(m) = IF S = {} THEN 0 ELSE Max(S)
    BY DEF Setter
  <2> HIDE DEF S
  <2>4. Max(S) = n
    BY <2>1, <2>2, MaxIs
  <2>5. Setter(m) = n /\ n # 0
    BY <2>1, <2>3, <2>4
  <2>. QED BY <1>3, <2>5 DEF Meaning, Meant
<1>. QED BY <1>1, <1>2, <1>3 DEF SetBy

(* ConfigMeans: for every file, of any number of entries, whose lines fit  *)
(* the buffer of parse_config (iris.c:110-189), what the loop over lines   *)
(* and pointers accepts, and what it leaves in struct server, is what the  *)
(* entries mean one by one.                                                *)
THEOREM ConfigMeansCorrect == Spec => []ConfigMeans
<1>1. FileInv /\ TwiceInv => ConfigMeans
  <2>. SUFFICES ASSUME FileInv, TwiceInv, rc # -1, Fits
                PROVE  /\ rc = 0 <=> \A n \in DOMAIN file : Good(file[n])
                       /\ rc = 0 => /\ \A name \in DOMAIN server : server[name] = Meaning(name)
                                    /\ MAX_LIFETIME = server.max_lifetime
    BY DEF ConfigMeans, Fits, Good
  <2>1. file \in Files /\ DOMAIN file = 1 .. Len(file)
    BY FileIs DEF FileInv
  <2>2. CASE rc = 0
    <3>1. MeansFirst(Len(file))
      BY <2>2 DEF FileInv
    <3>2. DOMAIN server = Members
      BY <3>1 DEF MeansFirst
    <3>3. \A m \in Members : server[m] = Meaning(m)
      BY <2>1, <3>1, MeaningIs DEF MeansFirst
    <3>4. MAX_LIFETIME = server.max_lifetime
      BY <2>2 DEF TwiceInv
    <3>. QED BY <2>1, <2>2, <3>1, <3>2, <3>3, <3>4 DEF MeansFirst
  <2>3. CASE rc # 0
    BY <2>3 DEF FileInv
  <2>. QED BY <2>2, <2>3
<1>. QED BY <1>1, AlwaysTwiceInv, AlwaysFileInv, PTL

-----------------------------------------------------------------------------
(* The daemon goes on after the whole file was accepted, or without one.   *)
StartInv == pc \in Prepared \cup {"clients"} => rc = 0 \/ (rc = -1 /\ file = <<>>)

LEMMA StepStartInv == StartInv /\ [Next]_vars => StartInv'
<1>. SUFFICES ASSUME StartInv, [Next]_vars PROVE StartInv'
  OBVIOUS
<1>1. CASE Configure \/ SkipConfig \/ Configured
  BY <1>1 DEF Configure, SkipConfig, Configured, configVars, StartInv, Prepared
<1>2. ASSUME UNCHANGED configVars,
             pc' \in Prepared \cup {"clients"} => pc \in Prepared \cup {"clients"}
      PROVE  StartInv'
  BY <1>2 DEF configVars, StartInv
<1>3. CASE client_init \/ getaddrinfo \/ NoSocket \/ NotBound \/ Bound
  BY <1>2, <1>3 DEF client_init, getaddrinfo, NoSocket, NotBound, Bound, AfterTry, Prepared
<1>4. CASE Nonblocking \/ CloseOnExec \/ Listen \/ Fail \/ net_poller
  BY <1>2, <1>4 DEF Nonblocking, CloseOnExec, Listen, Fail, net_poller, Prepared
<1>5. CASE StrangerOpens \/ StrangerCloses \/ UNCHANGED vars
  BY <1>2, <1>5 DEF StrangerOpens, StrangerCloses, vars, Prepared
<1>. QED BY <1>1, <1>3, <1>4, <1>5 DEF Next

LEMMA AlwaysStartInv == Spec => []StartInv
<1>1. Init => StartInv
  BY DEF Init, ConfigInit, StartInv, Prepared
<1>. QED BY <1>1, StepStartInv, PTL DEF Spec

LEMMA PowerGrows == 2 ^ (Width - 1) <= 2 ^ Width
<1> DEFINE a == 1 .. Width - 1
           b == 1 .. Width
<1>1. Width - 1 \in Nat /\ Width \in Nat
  BY WidthAssumption
<1>2. /\ IsFiniteSet(a) /\ Cardinality(a) = Width - 1
      /\ IsFiniteSet(b) /\ Cardinality(b) = Width
  BY <1>1, FS_Interval
<1>3. a \subseteq b
  BY <1>1
<1> HIDE DEF a, b
<1>4. /\ Cardinality(SUBSET a) = 2 ^ (Width - 1)
      /\ IsFiniteSet(SUBSET b) /\ Cardinality(SUBSET b) = 2 ^ Width
  BY <1>2, FS_SUBSET
<1>5. SUBSET a \subseteq SUBSET b
  BY <1>3
<1>. QED BY <1>4, <1>5, FS_Subset

(* Division leaves a number that is less than the divisor as it is. *)
LEMMA SmallRemainder ==
  ASSUME NEW a \in Nat, NEW m \in Nat \ {0}, a < m PROVE a % m = a
<1>1. a % m \in 0 .. m - 1 /\ a = m * (a \div m) + (a % m) /\ a \div m \in Int
  OBVIOUS
<1>2. PICK q \in Int, r \in 0 .. m - 1 : q = a \div m /\ r = a % m /\ a = m * q + r
  BY <1>1
<1>3. q <= 0
  <2>1. ASSUME q >= 1 PROVE FALSE
    <3>1. m * q >= m
      BY <2>1
    <3>2. m * q \in Int
      OBVIOUS
    <3>. QED BY <1>2, <3>1, <3>2
  <2>. QED BY <2>1
<1>4. q >= 0
  <2>1. ASSUME q <= -1 PROVE FALSE
    <3>1. m * q <= -m
      BY <2>1
    <3>2. m * q \in Int
      OBVIOUS
    <3>. QED BY <1>2, <3>1, <3>2
  <2>. QED BY <2>1
<1>5. q = 0
  BY <1>3, <1>4
<1>. QED BY <1>2, <1>5

LEMMA AskedIs ==
  ASSUME file \in Files, MeansFirst(Len(file))
  PROVE  Asked \in Int /\ server.max_clients = uint32_t(Asked)
<1>1. server["max_clients"] = Meaning("max_clients")
  BY MeaningIs DEF MeansFirst, Members
<1>2. Asked \in Int
  BY StrtolType, NumbersAssumption DEF Asked
<1>3. CASE Setter("max_clients") = 0
  BY <1>1, <1>2, <1>3 DEF Meaning, Asked, Defaults
<1>4. CASE Setter("max_clients") # 0
  BY <1>1, <1>2, <1>4 DEF Meaning, Asked
<1>. QED BY <1>3, <1>4

(* TableAsConfigured: the size that the file asks for goes through strtol, *)
(* a uint32_t, an int and calloc (iris.c:160-166, broker.c:111,            *)
(* iris.c:649-661), and is the size of the table or leaves it empty.       *)
THEOREM TableAsConfiguredCorrect == Spec => []TableAsConfigured
<1>1. TypeInv /\ TwiceInv /\ FileInv /\ StartInv => TableAsConfigured
  <2>. SUFFICES ASSUME TypeInv, TwiceInv, FileInv, StartInv, pc = "loop", Fits
                PROVE  /\ 0 <= Asked /\ Asked < 2 ^ (Width - 1) /\ Asked <= Slots
                             => NUM_CLIENTS = Asked
                       /\ NUM_CLIENTS \in {0, Asked % 2 ^ Width}
    BY DEF TableAsConfigured, Fits
  <2>1. MeansFirst(Len(file))
    <3>1. CASE rc = 0
      BY <3>1 DEF FileInv
    <3>2. CASE rc = -1 /\ file = <<>>
      <4>1. Len(file) = 0
        BY <3>2
      <4>2. PICK k \in 0 .. 0 : MeansFirst(k)
        BY <3>2, <4>1 DEF FileInv
      <4>. QED BY <4>1, <4>2
    <3>. QED BY <3>1, <3>2 DEF StartInv, Prepared
  <2>2. Asked \in Int /\ server.max_clients = uint32_t(Asked)
    BY <2>1, AskedIs DEF FileInv
  <2>3. PICK a \in Int, m \in Nat \ {0}, h \in Nat \ {0} :
          a = Asked /\ m = 2 ^ Width /\ h = 2 ^ (Width - 1) /\ h <= m
    BY <2>2, WidthAssumption, PowerType, PowerGrows
  <2>4. NUM_CLIENTS = IF a % m < h /\ a % m <= Slots THEN a % m ELSE 0
    <3>1. TableAsAsked
      BY TableIs
    <3>. QED BY <2>2, <2>3, <3>1 DEF TableAsAsked, uint32_t
  <2>5. ASSUME 0 <= a, a < h PROVE a % m = a
    BY <2>3, <2>5, SmallRemainder
  <2>6. a % m \in Int
    BY <2>3
  <2>7. NUM_CLIENTS \in {0, a % m}
    BY <2>4
  <2>8. 0 <= a /\ a < h /\ a <= Slots => NUM_CLIENTS = a
    BY <2>4, <2>5
  <2>. QED BY <2>3, <2>7, <2>8
<1>. QED BY <1>1, AlwaysTwiceInv, AlwaysFileInv, AlwaysStartInv, PTL
=============================================================================
