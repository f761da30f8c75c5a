------------------------------- MODULE Config -------------------------------
(***************************************************************************)
(* The configuration file: server_init, parse_config_file and parse_config *)
(* of iris.c.                                                              *)
(*                                                                         *)
(* The file is a sequence of entries: spaces, a directive, what stands     *)
(* between it and the "=", that "=" or none, spaces, a value, and the rest *)
(* of the line.  Words are not taken apart.                                *)
(***************************************************************************)
EXTENDS Scan

CONSTANTS
  MaxBuf,      \* bytes that one fgets can return: 8190
  Width,       \* bits of uint32_t and of int
  Files,       \* what the configuration file may hold
  Numbers,     \* Numbers[w]: what strtol makes of a word that begins with digits
  OutOfRange   \* words for which it sets errno

ASSUME WidthAssumption == MaxBuf \in Nat \ {0} /\ Width \in Nat \ {0}
ASSUME NumbersAssumption ==
  {"16384", "20"} \subseteq DOMAIN Numbers /\ \A w \in DOMAIN Numbers : Numbers[w] \in Int

VARIABLES
  file,         \* the entries
  unread,       \* the bytes not read yet
  server,       \* struct server
  MAX_LIFETIME,
  rc            \* what parse_config returned; -1 while it has not

configVars == <<file, unread, server, MAX_LIFETIME, rc>>

SP == "space"
NL == "newline"
EQ == "="
HASH == "#"
White == {SP, NL}

ASSUME NamesAssumption == {SP, NL, EQ, HASH} \subseteq STRING  \* true, but unknown to the provers

(* An entry that is no comment is divided where the parser divides it.     *)
Entry == [indent : Seq({SP}), name : Seq(STRING \ {SP, NL, EQ}), gap : Seq(STRING \ {NL}),
          eq : BOOLEAN, pad : Seq({SP}), value : Seq(STRING \ {NL}), tail : Seq(STRING \ {NL})]
Comment(e) == e.name # <<>> /\ Head(e.name) = HASH
Divided(e) ==
  /\ e.name = <<>> => e.gap = <<>> /\ (e.eq \/ e.value = <<>>)
  /\ e.gap # <<>> => Head(e.gap) \in {SP, EQ} /\ Tail(e.gap) \in Seq(STRING \ {NL, EQ})
  /\ e.value \in Seq(STRING \ {SP, NL})
  /\ e.name # <<>> /\ (e.gap = <<>> \/ ~e.eq) =>
       e.value \in Seq(STRING \ {EQ}) /\ e.tail \in Seq(STRING \ {EQ})
  /\ e.tail # <<>> => e.value # <<>> /\ Head(e.tail) = SP
ASSUME FilesAssumption ==
  \A f \in Files : f \in Seq(Entry) /\ \A n \in DOMAIN f : Comment(f[n]) \/ Divided(f[n])

\* plausible bugs: the member is a long; or as narrow as timeout is
long(n) == n
uint8_t(n) == n % 2 ^ (Width - 2)

uint32_t(n) == n % 2 ^ Width
int(u) == IF u < 2 ^ (Width - 1) THEN u ELSE u - 2 ^ Width  \* of a uint32_t

Defaults(lifetime) ==  \* server_init
  [port |-> <<"5668">>, max_clients |-> uint32_t(Numbers["16384"]), max_lifetime |-> lifetime,
   syslog_ident |-> <<"iris">>, syslog_facility |-> <<"daemon">>]

-----------------------------------------------------------------------------
(* What fgets returns: a line with its newline, or as much as fits. *)
fgets(s) ==
  LET n == SelectInSeq(s, LAMBDA b : b = NL)
      m == IF n = 0 THEN Len(s) ELSE n
  IN SubSeq(s, 1, IF m < MaxBuf THEN m ELSE MaxBuf)

\* a plausible bug: a comment is not skipped
BlankOnly(line) == From[line][White] = <<>>

Skipped(line) == From[line][White] = <<>> \/ Head(From[line][White]) = HASH

(* The directive and what is behind the byte that ends it; <<>> if nothing *)
(* ends it.  The "=" is looked for there.                                  *)
Name(line) ==
  LET a == From[line][White] IN
  IF Before[a][White \cup {EQ}] = a THEN <<>> ELSE Before[a][White \cup {EQ}]
AfterName(line) == Behind[From[line][White]][White \cup {EQ}]
HasEquals(line) == \E k \in DOMAIN AfterName(line) : AfterName(line)[k] = EQ
ValueOf(line) == Before[From[Behind[AfterName(line)][{EQ}]][White]][White]
Given(line) == HasEquals(line) /\ ValueOf(line) # <<>>

(* strtol stops at what is no digit, and returns 0 if it stops at once; it *)
(* sets errno for a number out of range.                                   *)
IsNumber(value) == Head(value) \in DOMAIN Numbers
strtol(value) == IF IsNumber(value) THEN Numbers[Head(value)] ELSE 0
BadNumber(value) == ~IsNumber(value) \/ Head(value) \in OutOfRange
Lower(value) == [k \in DOMAIN value |-> IF value[k] = "LOCAL3" THEN "local3" ELSE value[k]]

Result(line) ==
  CASE Name(line) = <<>> -> 1
    [] Name(line) # <<>> /\ ~HasEquals(line) -> 2
    [] Name(line) # <<>> /\ HasEquals(line) /\ ValueOf(line) = <<>> -> 3
    [] Name(line) = <<"max_clients">> /\ Given(line) /\ BadNumber(ValueOf(line)) -> 4
    [] Name(line) = <<"max_lifetime">> /\ Given(line) /\ BadNumber(ValueOf(line)) -> 5
    [] OTHER -> 0

(* The member that a directive sets, and to what; others are ignored. *)
Set(s, name, value) ==
  CASE name = <<"port">> -> [s EXCEPT !.port = value]
    [] name = <<"max_clients">> -> [s EXCEPT !.max_clients = uint32_t(strtol(value))]
    [] name = <<"max_lifetime">> -> [s EXCEPT !.max_lifetime = strtol(value)]
    [] name = <<"syslog_ident">> -> [s EXCEPT !.syslog_ident = value]
    [] name = <<"syslog_facility">> -> [s EXCEPT !.syslog_facility = Lower(value)]
    [] OTHER -> s

(* One turn of the while loop.  A number is stored before it is looked at. *)
ParseLine ==
  /\ rc = -1 /\ unread # <<>>
  /\ \E line \in {fgets(unread)} :
       /\ unread' = SubSeq(unread, Len(line) + 1, Len(unread))
       /\ IF Skipped(line)
          THEN UNCHANGED <<server, MAX_LIFETIME, rc>>
          ELSE /\ rc' = IF Result(line) = 0 THEN -1 ELSE Result(line)
               /\ server' = IF Result(line) \in 1 .. 3 THEN server
                            ELSE Set(server, Name(line), ValueOf(line))
               /\ MAX_LIFETIME' = IF Name(line) = <<"max_lifetime">> /\ Result(line) = 0
                                  THEN server'.max_lifetime ELSE MAX_LIFETIME
  /\ UNCHANGED file

ParseEnd ==
  /\ rc = -1 /\ unread = <<>>
  /\ rc' = 0
  /\ UNCHANGED <<file, unread, server, MAX_LIFETIME>>

-----------------------------------------------------------------------------
(* An entry: indent, name, gap, eq, pad, value and tail. *)
Written(e) == e.indent \o e.name \o e.gap \o (IF e.eq THEN <<EQ>> ELSE <<>>)
             \o e.pad \o e.value \o e.tail \o <<NL>>

ConfigInit ==
  /\ file \in Files
  /\ unread = FlattenSeq([n \in DOMAIN file |-> Written(file[n])])
  /\ MAX_LIFETIME = Numbers["20"]
  /\ server = Defaults(MAX_LIFETIME)
  /\ rc = -1

-----------------------------------------------------------------------------
(* What an entry means: nothing, a setting, or an error. *)
Ignored(e) ==
  \/ e.name = <<>> /\ ~e.eq
  \/ Comment(e)
Accepted(e) ==
  /\ e.name # <<>> /\ e.gap # <<>> /\ e.eq /\ e.value # <<>>
  /\ e.name \in {<<"max_clients">>, <<"max_lifetime">>} => ~BadNumber(e.value)

(* The last entry that sets a directive, or 0. *)
Setter(name) ==
  LET S == {n \in DOMAIN file : file[n].name = <<name>>} IN IF S = {} THEN 0 ELSE Max(S)
Meaning(name) ==
  LET v == file[Setter(name)].value IN
  CASE Setter(name) = 0 -> Defaults(Numbers["20"])[name]
    [] Setter(name) # 0 /\ name = "max_clients" -> uint32_t(strtol(v))
    [] Setter(name) # 0 /\ name = "max_lifetime" -> strtol(v)
    [] Setter(name) # 0 /\ name = "syslog_facility" -> Lower(v)
    [] OTHER -> v
=============================================================================
