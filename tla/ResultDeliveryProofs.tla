------------------------- MODULE ResultDeliveryProofs -------------------------
(***************************************************************************)
(* The promise of ResultDelivery holds of its specification.               *)
(***************************************************************************)
EXTENDS ResultDelivery, TLAPS

Good == TypeOK /\ Delivered

(* Whatever k is appended, the rest of the sequence stays, and k is last.  *)
LEMMA AppendAt ==
  ASSUME NEW s \in Seq(Nat), NEW k \in Nat
  PROVE  /\ Append(s, k) \in Seq(Nat)
         /\ DOMAIN Append(s, k) = (DOMAIN s) \cup {Len(s) + 1}
         /\ DOMAIN s = 1 .. Len(s) /\ Len(s) \in Nat
         /\ \A n \in DOMAIN s : Append(s, k)[n] = s[n]
         /\ Append(s, k)[Len(s) + 1] = k
OBVIOUS

(* The promise to one connection: s are the results of its first t PDUs.   *)
Promise(c, s, t) ==
  /\ \A m, n \in DOMAIN s : m < n => s[m] < s[n]
  /\ \A n \in DOMAIN s : s[n] < t /\ <<c, s[n]>> \notin Bogus
  /\ \A k \in 0 .. t - 1 : <<c, k>> \notin Bogus => \E n \in DOMAIN s : s[n] = k

LEMMA PromiseSkip ==
  ASSUME NEW c \in Conn, NEW t \in Nat, NEW s \in Seq(Nat), Promise(c, s, t),
         <<c, t>> \in Bogus
  PROVE  Promise(c, s, t + 1)
<1>1. \A n \in DOMAIN s : s[n] \in Nat
  OBVIOUS
<1>2. \A n \in DOMAIN s : s[n] < t /\ <<c, s[n]>> \notin Bogus
  BY DEF Promise
<1>3. ASSUME NEW n \in DOMAIN s PROVE s[n] < t + 1
  <2>1. s[n] \in Nat /\ s[n] < t
    BY <1>1, <1>2
  <2>2. QED
    BY <2>1
<1>4. ASSUME NEW k \in 0 .. t + 1 - 1, <<c, k>> \notin Bogus
      PROVE  \E n \in DOMAIN s : s[n] = k
  <2>1. k # t
    BY <1>4
  <2>2. k \in 0 .. t - 1
    BY <2>1
  <2>3. QED
    BY <1>4, <2>2 DEF Promise
<1>5. QED
  BY <1>2, <1>3, <1>4 DEF Promise

LEMMA PromiseSubmit ==
  ASSUME NEW c \in Conn, NEW t \in Nat, NEW s \in Seq(Nat), Promise(c, s, t),
         <<c, t>> \notin Bogus
  PROVE  Promise(c, Append(s, t), t + 1)
<1> DEFINE r == Append(s, t)
           last == Len(s) + 1
<1>1. /\ DOMAIN r = (DOMAIN s) \cup {last}
      /\ DOMAIN s = 1 .. Len(s) /\ Len(s) \in Nat
      /\ \A n \in DOMAIN s : r[n] = s[n] /\ r[n] \in Nat /\ n < last
      /\ r[last] = t
  BY AppendAt
<1> HIDE DEF r
<1>2. \A n \in DOMAIN s : r[n] < t /\ <<c, r[n]>> \notin Bogus
  BY <1>1 DEF Promise
<1>3. ASSUME NEW m \in DOMAIN r, NEW n \in DOMAIN r, m < n PROVE r[m] < r[n]
  <2>1. CASE n = last
    <3>1. m \in DOMAIN s
      BY <1>1, <1>3, <2>1
    <3>2. QED
      BY <1>1, <1>2, <2>1, <3>1
  <2>2. CASE n # last
    <3>1. n \in DOMAIN s /\ m \in DOMAIN s
      BY <1>1, <1>3, <2>2
    <3>2. QED
      BY <1>1, <1>3, <3>1 DEF Promise
  <2>3. QED
    BY <2>1, <2>2
<1>4. ASSUME NEW n \in DOMAIN r PROVE r[n] < t + 1 /\ <<c, r[n]>> \notin Bogus
  <2>1. CASE n = last
    <3>1. r[n] = t
      BY <1>1, <2>1
    <3>2. QED
      BY <3>1
  <2>2. CASE n \in DOMAIN s
    <3>1. r[n] \in Nat /\ r[n] < t /\ <<c, r[n]>> \notin Bogus
      BY <1>1, <1>2, <2>2
    <3>2. QED
      BY <3>1
  <2>3. QED
    BY <1>1, <2>1, <2>2
<1>5. ASSUME NEW k \in 0 .. t + 1 - 1, <<c, k>> \notin Bogus
      PROVE  \E n \in DOMAIN r : r[n] = k
  <2>1. k = t \/ k \in 0 .. t - 1
    BY <1>5
  <2>2. QED
    BY <1>1, <1>5, <2>1 DEF Promise
<1>6. Promise(c, r, t + 1)
  BY <1>3, <1>4, <1>5 DEF Promise
<1>7. QED
  BY <1>6 DEF r

LEMMA PromiseToAll ==
  InOrder /\ NoneInvented /\ NoneLost
    <=> \A c \in Conn : Promise(c, results[c], taken[c])
BY DEF InOrder, NoneInvented, NoneLost, Promise

(* Consuming the next PDU of c keeps the promise to c, and the others'.    *)
LEMMA TakeKeepsGood ==
  ASSUME PduSize \in Nat, Good, NEW c \in Conn, Take(c) PROVE Good'
<1>1. /\ taken[c] \in Nat /\ results[c] \in Seq(Nat)
      /\ taken \in [Conn -> Nat] /\ results \in [Conn -> Seq(Nat)]
  BY DEF Good, TypeOK
<1>2. Promise(c, results[c], taken[c])
  BY PromiseToAll DEF Good, Delivered
<1>3. PICK r \in Seq(Nat) : /\ results' = [results EXCEPT ![c] = r]
                            /\ Promise(c, r, taken[c] + 1)
  <2>1. CASE <<c, taken[c]>> \in Bogus
    <3>1. results' = [results EXCEPT ![c] = results[c]]
      BY <1>1, <2>1 DEF Take
    <3>2. QED
      BY <1>1, <1>2, <2>1, <3>1, PromiseSkip
  <2>2. CASE <<c, taken[c]>> \notin Bogus
    <3>1. results' = [results EXCEPT ![c] = Append(results[c], taken[c])]
      BY <1>1, <2>2 DEF Take
    <3>2. Append(results[c], taken[c]) \in Seq(Nat)
      BY <1>1
    <3>3. QED
      BY <1>1, <1>2, <2>2, <3>1, <3>2, PromiseSubmit
  <2>3. QED
    BY <2>1, <2>2
<1>4. /\ results'[c] = r /\ taken'[c] = taken[c] + 1
      /\ \A d \in Conn : d # c => results'[d] = results[d] /\ taken'[d] = taken[d]
      /\ PduSize * (taken[c] + 1) <= written[c] /\ written' = written /\ gone' = gone
  BY <1>1, <1>3 DEF Take
<1>5. TypeOK'
  BY <1>1, <1>3, <1>4 DEF Good, TypeOK, Take
<1>6. WholePdus'
  BY <1>4 DEF Good, Delivered, WholePdus
<1>7. \A d \in Conn : Promise(d, results'[d], taken'[d])
  BY <1>3, <1>4, PromiseToAll DEF Good, Delivered
<1>8. QED
  BY <1>5, <1>6, <1>7 DEF Good, Delivered, InOrder, NoneInvented, NoneLost, Promise

LEMMA WriteKeepsGood ==
  ASSUME PduSize \in Nat, Good, NEW c \in Conn, Write(c) PROVE Good'
<1>1. TypeOK'
  BY DEF Good, TypeOK, Write
<1>2. UNCHANGED <<taken, results>>
  BY DEF Write
<1>3. \A d \in Conn : written'[d] = written[d] \/ written'[d] = written[d] + 1
  BY DEF Good, TypeOK, Write
<1>4. \A d \in Conn : PduSize * taken[d] \in Nat /\ written[d] \in Nat
  BY DEF Good, TypeOK
<1>5. WholePdus'
  BY <1>2, <1>3, <1>4 DEF Good, Delivered, WholePdus
<1>6. QED
  BY <1>1, <1>2, <1>5 DEF Good, Delivered, InOrder, NoneInvented, NoneLost

LEMMA GoodAlways == ASSUME PduSize \in Nat PROVE Spec => []Good
<1>1. Init => Good
  BY DEF Init, Good, TypeOK, Delivered, WholePdus, InOrder, NoneInvented, NoneLost
<1>2. ASSUME Good, [Next]_vars PROVE Good'
  <2>1. ASSUME NEW S \in SUBSET (Conn \ gone), Drop(S) PROVE Good'
    BY <1>2, <2>1 DEF Drop, Good, TypeOK, Delivered, WholePdus, InOrder,
                      NoneInvented, NoneLost
  <2>2. CASE UNCHANGED vars
    BY <1>2, <2>2 DEF vars, Good, TypeOK, Delivered, WholePdus, InOrder,
                      NoneInvented, NoneLost
  <2>3. QED
    BY <1>2, <2>1, <2>2, TakeKeepsGood, WriteKeepsGood DEF Next
<1>3. QED
  BY <1>1, <1>2, PTL DEF Spec

(* Every acceptable PDU that was consumed is submitted exactly once, in     *)
(* the order sent, and nothing else is.                                     *)
THEOREM DeliveredCorrect == ASSUME PduSize \in Nat PROVE Spec => []Delivered
<1>1. Good => Delivered
  BY DEF Good
<1>2. QED
  BY <1>1, GoodAlways, PTL
=============================================================================
