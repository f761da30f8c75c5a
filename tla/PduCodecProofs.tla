--------------------------- MODULE PduCodecProofs ---------------------------
(***************************************************************************)
(* Proofs about PduCodec, for every width of a member, every byte order    *)
(* and every clock: what htonl and ntohl do to a word between two hosts,   *)
(* which timestamps pdu_unpack accepts, and, by CodecInv, the way of one   *)
(* PDU from its sender through the bytes on the wire to the broker.        *)
(***************************************************************************)
EXTENDS PduCodec, SequenceTheorems, FiniteSetTheorems, WellFoundedInduction, TLAPS

Byte == SUBSET (0 .. 7)

(* Where byte k of n stands in a word. *)
Place(k, n, order) == 8 * (IF order = "little" THEN k - 1 ELSE n - k)

LEMMA DivMod ==
  ASSUME NEW x \in Nat
  PROVE  x % 8 \in 0 .. 7 /\ x \div 8 \in Nat /\ x = 8 * (x \div 8) + (x % 8)
  OBVIOUS

LEMMA StoredByte ==
  ASSUME NEW n \in Nat, NEW word \in SUBSET Nat, NEW order \in Orders, NEW k \in 1 .. n
  PROVE  Store(word, n, order)[k] = {b \in 0 .. 7 : b + Place(k, n, order) \in word}
<1> DEFINE p == Place(k, n, order)
<1>1. p \in Nat
  BY DEF Place
<1>2. Store(word, n, order)[k] = LowByte(ShiftRight(word, p))
  BY DEF Store, Place
<1> HIDE DEF p
<1>3. ASSUME NEW b \in 0 .. 7
      PROVE  b \in ShiftRight(word, p) <=> b + p \in word
  BY <1>1 DEF ShiftRight
<1>. QED BY <1>1, <1>2, <1>3 DEF LowByte, p

LEMMA StoreType ==
  ASSUME NEW n \in Nat, NEW word \in SUBSET Nat, NEW order \in Orders
  PROVE  Store(word, n, order) \in [1 .. n -> Byte]
<1> DEFINE m == Store(word, n, order)
<1>1. \A k \in 1 .. n : m[k] \in Byte
  BY StoredByte DEF Byte
<1>2. m = [k \in 1 .. n |-> m[k]]
  BY DEF Store
<1> HIDE DEF m
<1>. QED BY <1>1, <1>2 DEF m

LEMMA LoadedBit ==
  ASSUME NEW n \in Nat, NEW m \in [1 .. n -> Byte], NEW order \in Orders, NEW x
  PROVE  x \in Load(m, order) <=>
           \E k \in 1 .. n : \E b \in m[k] : x = b + Place(k, n, order)
<1>1. Len(m) = n
  BY SeqDef, LenProperties
<1>. QED BY <1>1 DEF Load, Place

LEMMA LoadType ==
  ASSUME NEW n \in Nat, NEW m \in [1 .. n -> Byte], NEW order \in Orders
  PROVE  Load(m, order) \in SUBSET Nat
  BY LoadedBit DEF Place, Byte

(* Bytes that make a word are the bytes of that word.                      *)
LEMMA StoreLoad ==
  ASSUME NEW n \in Nat, NEW m \in [1 .. n -> Byte], NEW order \in Orders
  PROVE  Store(Load(m, order), n, order) = m
<1> DEFINE w == Load(m, order)
<1>1. w \in SUBSET Nat
  BY LoadType
<1>2. ASSUME NEW k \in 1 .. n, NEW b \in 0 .. 7
      PROVE  b + Place(k, n, order) \in w <=> b \in m[k]
  <2>1. ASSUME NEW j \in 1 .. n, NEW c \in m[j],
               b + Place(k, n, order) = c + Place(j, n, order)
        PROVE  b \in m[k]
    <3>1. c \in 0 .. 7
      BY DEF Byte
    <3>2. j = k /\ b = c
      BY <2>1, <3>1 DEF Place
    <3>. QED BY <3>2
  <2>. QED BY <2>1, LoadedBit
<1> HIDE DEF w
<1>3. ASSUME NEW k \in 1 .. n PROVE Store(w, n, order)[k] = m[k]
  <2>1. m[k] \subseteq 0 .. 7
    BY DEF Byte
  <2>2. m[k] = {b \in 0 .. 7 : b + Place(k, n, order) \in w}
    BY <1>2, <2>1
  <2>. QED BY <1>1, <2>2, StoredByte
<1>. QED BY <1>1, <1>3, StoreType DEF w

(* And a word of n bytes is the word that its bytes make.                  *)
LEMMA LoadStore ==
  ASSUME NEW n \in Nat, NEW word \in SUBSET (0 .. 8 * n - 1), NEW order \in Orders
  PROVE  Load(Store(word, n, order), order) = word
<1> DEFINE m == Store(word, n, order)
<1>0. word \in SUBSET Nat
  OBVIOUS
<1>1. m \in [1 .. n -> Byte]
  BY <1>0, StoreType
<1>2. \A k \in 1 .. n : m[k] = {b \in 0 .. 7 : b + Place(k, n, order) \in word}
  BY <1>0, StoredByte
<1> HIDE DEF m
<1>3. ASSUME NEW x \in Load(m, order) PROVE x \in word
  BY <1>1, <1>2, LoadedBit
<1>4. ASSUME NEW x \in word PROVE x \in Load(m, order)
  <2> DEFINE k == IF order = "little" THEN x \div 8 + 1 ELSE n - x \div 8
  <2>1. x \in 0 .. 8 * n - 1
    OBVIOUS
  <2>2. x % 8 \in 0 .. 7 /\ x \div 8 \in 0 .. n - 1 /\ x = 8 * (x \div 8) + (x % 8)
    <3>1. x \in Nat /\ x < 8 * n
      BY <2>1
    <3>2. x % 8 \in 0 .. 7 /\ x \div 8 \in Nat /\ x = 8 * (x \div 8) + (x % 8)
      BY <3>1, DivMod
    <3>. QED BY <3>1, <3>2
  <2>3. k \in 1 .. n /\ (x % 8) + Place(k, n, order) = x
    BY <2>2 DEF Place
  <2>4. x % 8 \in m[k]
    BY <1>2, <2>2, <2>3
  <2>. QED BY <1>1, <2>3, <2>4, LoadedBit
<1>. QED BY <1>3, <1>4 DEF m

-----------------------------------------------------------------------------
(* The mirror image of n bytes, read in the other order, is the same word. *)
LEMMA Mirror ==
  ASSUME NEW n \in Nat, NEW m \in [1 .. n -> Byte], NEW mirror \in [1 .. n -> Byte],
         \A k \in 1 .. n : mirror[k] = m[n + 1 - k]
  PROVE  Load(mirror, "little") = Load(m, "big")
<1>0. "little" \in Orders /\ "big" \in Orders
  BY DEF Orders
<1>1. ASSUME NEW k \in 1 .. n
      PROVE  /\ n + 1 - k \in 1 .. n /\ n + 1 - (n + 1 - k) = k
             /\ Place(k, n, "big") = Place(n + 1 - k, n, "little")
  BY DEF Place
<1>2. ASSUME NEW x, NEW k \in 1 .. n, NEW b \in m[k], x = b + Place(k, n, "big")
      PROVE  x \in Load(mirror, "little")
  <2>1. b \in mirror[n + 1 - k] /\ x = b + Place(n + 1 - k, n, "little")
    BY <1>1, <1>2
  <2>. QED BY <1>1, <2>1, <1>0, LoadedBit
<1>3. ASSUME NEW x, NEW k \in 1 .. n, NEW b \in mirror[k], x = b + Place(k, n, "little")
      PROVE  x \in Load(m, "big")
  <2>1. b \in m[n + 1 - k] /\ x = b + Place(n + 1 - k, n, "big")
    BY <1>1, <1>3 DEF Place
  <2>. QED BY <1>1, <2>1, <1>0, LoadedBit
<1>4. ASSUME NEW x PROVE x \in Load(mirror, "little") <=> x \in Load(m, "big")
  <2>1. x \in Load(m, "big") <=> \E k \in 1 .. n : \E b \in m[k] : x = b + Place(k, n, "big")
    BY <1>0, LoadedBit
  <2>2. x \in Load(mirror, "little") <=>
          \E k \in 1 .. n : \E b \in mirror[k] : x = b + Place(k, n, "little")
    BY <1>0, LoadedBit
  <2>. QED BY <1>2, <1>3, <2>1, <2>2
<1>. QED BY <1>4

(* htonl on the sender and ntohl on the broker (iris.c:271-273, 300-302)   *)
(* give the broker the sender's word, in a member of any width n and for   *)
(* any byte orders: the bytes between are those of the word, the most      *)
(* significant first.                                                      *)
THEOREM MemberSurvives ==
  ASSUME NEW n \in Nat, NEW word \in SUBSET (0 .. 8 * n - 1),
         NEW sender \in Orders, NEW broker \in Orders
  PROVE  LET bytes == Store(NetworkOrder(word, n, sender), n, sender) IN
           /\ bytes = Store(word, n, "big")
           /\ NetworkOrder(Load(bytes, broker), n, broker) = word
<1> DEFINE m == Store(word, n, "big")
           bytes == Store(NetworkOrder(word, n, sender), n, sender)
           read == Load(m, broker)
           mirror == Store(read, n, "big")
<1>0. "little" \in Orders /\ "big" \in Orders /\ word \in SUBSET Nat
  BY DEF Orders
<1>1. m \in [1 .. n -> Byte]
  BY <1>0, StoreType
<1>2. bytes = m
  BY <1>0, <1>1, StoreLoad DEF NetworkOrder
<1>3. read \in SUBSET Nat
  BY <1>0, <1>1, LoadType
<1>4. mirror \in [1 .. n -> Byte]
  BY <1>0, <1>3, StoreType
<1>5. Load(m, "big") = word
  BY <1>0, LoadStore
<1>6. NetworkOrder(read, n, broker) = Load(mirror, broker)
  BY DEF NetworkOrder
<1> HIDE DEF m
<1>7. ASSUME broker = "big" PROVE NetworkOrder(read, n, broker) = word
  BY <1>0, <1>1, <1>2, <1>5, <1>6, <1>7, StoreLoad
<1>8. ASSUME broker = "little" PROVE NetworkOrder(read, n, broker) = word
  <2>1. ASSUME NEW k \in 1 .. n PROVE mirror[k] = m[n + 1 - k]
    <3>1. /\ n + 1 - k \in 1 .. n
          /\ Place(n + 1 - k, n, "little") = Place(k, n, "big")
      BY DEF Place
    <3> HIDE DEF read
    <3>2. mirror[k] = {b \in 0 .. 7 : b + Place(k, n, "big") \in read}
      BY <1>0, <1>3, StoredByte
    <3>3. Store(read, n, "little")[n + 1 - k] = {b \in 0 .. 7 : b + Place(k, n, "big") \in read}
      BY <1>0, <1>3, <3>1, StoredByte
    <3>4. Store(read, n, "little") = m
      BY <1>0, <1>1, <1>8, StoreLoad DEF read
    <3>. QED BY <3>2, <3>3, <3>4
  <2> HIDE DEF mirror
  <2>2. Load(mirror, "little") = word
    BY <1>1, <1>4, <1>5, <2>1, Mirror
  <2>. QED BY <1>6, <1>8, <2>2
<1>9. NetworkOrder(read, n, broker) = word
  BY <1>7, <1>8 DEF Orders
<1>10. NetworkOrder(Load(bytes, broker), n, broker) = word
  BY <1>2, <1>9
<1>. QED BY <1>2, <1>10 DEF m

-----------------------------------------------------------------------------
(***************************************************************************)
(* Numbers and their bits.  What the provers do not know of the powers of  *)
(* two is counted: there are 2^n sets of n elements.                       *)
(***************************************************************************)
LEMMA Subsets ==
  ASSUME NEW n \in Nat
  PROVE  IsFiniteSet(SUBSET (1 .. n)) /\ Cardinality(SUBSET (1 .. n)) = 2 ^ n
<1>1. IsFiniteSet(1 .. n) /\ Cardinality(1 .. n) = n
  BY FS_Interval
<1>. QED BY <1>1, FS_SUBSET

LEMMA PowerType == ASSUME NEW n \in Nat PROVE 2 ^ n \in Nat \ {0}
<1> DEFINE S == SUBSET (1 .. n)
<1>2. IsFiniteSet(S) /\ Cardinality(S) = 2 ^ n
  BY Subsets
<1>3. {} \in S
  OBVIOUS
<1> HIDE DEF S
<1>4. S # {}
  BY <1>3
<1>. QED BY <1>2, <1>4, FS_CardinalityType, FS_EmptySet

LEMMA PowerStep == ASSUME NEW n \in Nat PROVE 2 ^ (n + 1) = 2 * 2 ^ n
<1> DEFINE A == SUBSET (1 .. n)
           B == {T \cup {n + 1} : T \in A}
           f == [T \in A |-> T \cup {n + 1}]
<1>1. IsFiniteSet(A) /\ Cardinality(A) = 2 ^ n
  BY Subsets
<1>2. Cardinality(SUBSET (1 .. n + 1)) = 2 ^ (n + 1)
  <2>1. n + 1 \in Nat
    OBVIOUS
  <2>. QED BY <2>1, Subsets
<1>3. f \in Bijection(A, B)
  <2>1. \A T \in A : n + 1 \notin T
    OBVIOUS
  <2>2. \A S, T \in A : f[S] = f[T] => S = T
    BY <2>1
  <2>3. f \in [A -> B] /\ \A t \in B : \E T \in A : f[T] = t
    OBVIOUS
  <2>. QED BY <2>2, <2>3 DEF Bijection, Injection, Surjection, IsInjective
<1>4. SUBSET (1 .. n + 1) = A \cup B
  <2>1. ASSUME NEW T \in SUBSET (1 .. n + 1), T \notin A PROVE T \in B
    <3>1. n + 1 \in T /\ T \ {n + 1} \in A
      BY <2>1
    <3>2. T = (T \ {n + 1}) \cup {n + 1}
      BY <3>1
    <3>. QED BY <3>1, <3>2
  <2>2. ASSUME NEW T \in A \cup B PROVE T \in SUBSET (1 .. n + 1)
    <3>1. 1 .. n \subseteq 1 .. n + 1 /\ n + 1 \in 1 .. n + 1
      OBVIOUS
    <3>. QED BY <2>2, <3>1
  <2> HIDE DEF A, B
  <2>. QED BY <2>1, <2>2
<1>5. A \cap B = {}
  <2>1. (\A T \in A : n + 1 \notin T) /\ (\A T \in B : n + 1 \in T)
    OBVIOUS
  <2> HIDE DEF A, B
  <2>. QED BY <2>1
<1> HIDE DEF A, B, f
<1>6. IsFiniteSet(B) /\ Cardinality(B) = Cardinality(A)
  BY <1>1, <1>3, FS_Bijection DEF ExistsBijection
<1>7. Cardinality(A \cup B) = Cardinality(A) + Cardinality(B) - 0
  BY <1>1, <1>5, <1>6, FS_Union, FS_EmptySet
<1>8. Cardinality(A) \in Nat /\ Cardinality(A \cup B) = 2 ^ (n + 1)
  BY <1>1, <1>2, <1>4, FS_CardinalityType
<1>9. Cardinality(A \cup B) = 2 * Cardinality(A)
  BY <1>6, <1>7, <1>8
<1>. QED BY <1>1, <1>8, <1>9

LEMMA NumberBelow ==
  ASSUME NEW m \in Nat, NEW n \in Nat, NEW x \in Nat \ {0}, m < x, n < x
  PROVE  m \div x = n \div x
<1>1. m \div x = 0 /\ n \div x = 0
  OBVIOUS
<1>. QED BY <1>1

LEMMA Halve ==
  ASSUME NEW m \in Nat, NEW x \in Nat \ {0}
  PROVE  m \div x \in Nat /\ m \div x = 2 * (m \div (2 * x)) + ((m \div x) % 2)
<1>1. m \div x \in Nat /\ (m \div x) \div 2 = m \div (2 * x)
  OBVIOUS
<1> DEFINE q == m \div x
<1> HIDE DEF q
<1>2. q \in Nat => q = 2 * (q \div 2) + (q % 2)
  OBVIOUS
<1>. QED BY <1>1, <1>2 DEF q

LEMMA SameParity ==
  ASSUME NEW x \in Nat, NEW y \in Nat, NEW d,
         x = 2 * d + (x % 2), y = 2 * d + (y % 2), x % 2 = 1 <=> y % 2 = 1
  PROVE  x = y
<1>1. x % 2 \in {0, 1} /\ y % 2 \in {0, 1}
  OBVIOUS
<1>2. x % 2 = y % 2
  BY <1>1
<1>. QED BY <1>2

(* A number has the bits of no other: from above, each shift of two        *)
(* numbers with the same bits is the same, down to the shift by 0.  P[b]   *)
(* is 2^b.                                                                 *)
LEMMA ShiftsAgree ==
  ASSUME NEW P \in [Nat -> Nat \ {0}], P[0] = 1, \A b \in Nat : P[b + 1] = 2 * P[b],
         NEW w \in Nat, NEW m \in Nat, NEW n \in Nat, m < P[w], n < P[w],
         \A b \in 0 .. w - 1 : (m \div P[b]) % 2 = 1 <=> (n \div P[b]) % 2 = 1
  PROVE  m = n
<1> DEFINE I == {b \in 0 .. w : m \div P[b] = n \div P[b]}
           R == OpToRel(<, Nat)
<1>1. w \in I
  BY NumberBelow, SMTT(20)
<1>2. PICK b \in I : \A c \in I : ~(<<c, b>> \in R)
  <2>1. I \subseteq 0 .. w /\ I # {}
    BY <1>1, Zenon
  <2> HIDE DEF I
  <2>2. I \subseteq Nat
    BY <2>1
  <2>. QED BY <2>1, <2>2, WFMin, NatLessThanWellFounded
<1>3. CASE b = 0
  <2>1. m \div 1 = n \div 1
    BY <1>3
  <2>. QED BY <2>1
<1>4. CASE b # 0
  <2> DEFINE c == b - 1
  <2>1. c \in 0 .. w - 1 /\ c \in Nat /\ b = c + 1
    BY <1>4
  <2>2. m \div (2 * P[c]) = n \div (2 * P[c])
    BY <2>1
  <2>3. (m \div P[c]) % 2 = 1 <=> (n \div P[c]) % 2 = 1
    BY <2>1
  <2> HIDE DEF c
  <2>4. /\ m \div P[c] \in Nat
        /\ m \div P[c] = 2 * (m \div (2 * P[c])) + ((m \div P[c]) % 2)
    BY <2>1, Halve
  <2>5. /\ n \div P[c] \in Nat
        /\ n \div P[c] = 2 * (n \div (2 * P[c])) + ((n \div P[c]) % 2)
    BY <2>1, Halve
  <2>6. m \div P[c] = n \div P[c]
    BY <2>2, <2>3, <2>4, <2>5, SameParity, ZenonT(40)
  <2>7. c \in I /\ <<c, b>> \in R
    BY <2>1, <2>6 DEF OpToRel
  <2>. QED BY <1>2, <2>7
<1>. QED BY <1>3, <1>4

LEMMA BitsTellApart ==
  ASSUME NEW w \in Nat, NEW m \in 0 .. 2 ^ w - 1, NEW n \in 0 .. 2 ^ w - 1,
         Bits(m, w) = Bits(n, w)
  PROVE  m = n
<1> DEFINE P == [b \in Nat |-> 2 ^ b]
<1>1. P \in [Nat -> Nat \ {0}]
  BY PowerType
<1>2. P[0] = 1
  OBVIOUS
<1>3. ASSUME NEW b \in Nat PROVE P[b + 1] = 2 * P[b]
  <2>1. b + 1 \in Nat
    OBVIOUS
  <2>. QED BY <2>1, PowerStep
<1>4. ASSUME NEW b \in 0 .. w - 1
      PROVE  (m \div P[b]) % 2 = 1 <=> (n \div P[b]) % 2 = 1
  <2>1. P[b] = 2 ^ b
    OBVIOUS
  <2>2. (b \in Bits(m, w) <=> (m \div 2 ^ b) % 2 = 1) /\ (b \in Bits(n, w) <=> (n \div 2 ^ b) % 2 = 1)
    BY Zenon DEF Bits
  <2> HIDE DEF P
  <2>. QED BY <2>1, <2>2
<1>5. m \in Nat /\ n \in Nat /\ m < P[w] /\ n < P[w]
  BY PowerType
<1> HIDE DEF P
<1>. QED BY <1>1, <1>2, <1>3, <1>4, <1>5, ShiftsAgree

LEMMA NumberOfBits ==
  ASSUME NEW w \in Nat, NEW n \in 0 .. 2 ^ w - 1
  PROVE  Number(Bits(n, w), w) = n
BY BitsTellApart DEF Number

LEMMA WrapType == Wrap \in Nat \ {0}
BY WidthAssumption, PowerType DEF Wrap

-----------------------------------------------------------------------------
(* Before the timestamp wraps pdu_unpack (iris.c:309-320) refuses for its  *)
(* age exactly what is more than MaxAge away from the broker's clock.      *)
THEOREM AgeBeforeWrap ==
  ASSUME NEW ts \in 0 .. Wrap - 1, NEW now \in 0 .. Wrap - 1
  PROVE  ~outdated(age(ts, now)) <=> now - ts <= MaxAge /\ ts - now <= MaxAge
<1>1. now % Wrap = now
  BY WrapType
<1>. QED BY <1>1, AgeAssumption, WrapType DEF age, outdated

(* After it, the same lines accept exactly the timestamps that are ahead   *)
(* of the clock modulo Wrap: a fresh PDU, with ts = now % Wrap, is refused *)
(* whatever the limit.                                                     *)
THEOREM AgeAfterWrap ==
  ASSUME NEW ts \in 0 .. Wrap - 1, NEW now \in Nat, now >= Wrap
  PROVE  ~outdated(age(ts, now)) <=> ts > now % Wrap
<1>1. now % Wrap \in 0 .. Wrap - 1
  BY WrapType
<1>2. now - (now % Wrap) >= Wrap
  BY WrapType
<1>3. CASE ts > now % Wrap
  BY <1>1, <1>3, AgeAssumption, WrapType DEF age, outdated
<1>4. CASE ts <= now % Wrap
  BY <1>1, <1>2, <1>4, AgeAssumption, WrapType DEF age, outdated
<1>. QED BY <1>1, <1>3, <1>4

-----------------------------------------------------------------------------
(***************************************************************************)
(* The PDU on the wire.                                                    *)
(***************************************************************************)
Bytes(n) == [1 .. n -> Byte]

LEMMA BytesAreSeq ==
  ASSUME NEW n \in Nat, NEW s \in Bytes(n) PROVE s \in Seq(Byte) /\ Len(s) = n
BY SeqDef, LenProperties DEF Bytes

LEMMA Joined ==
  ASSUME NEW j \in Nat, NEW k \in Nat, NEW s \in Bytes(j), NEW t \in Bytes(k)
  PROVE  /\ s \o t \in Bytes(j + k)
         /\ \A i \in 1 .. j : (s \o t)[i] = s[i]
         /\ \A i \in 1 .. k : (s \o t)[j + i] = t[i]
<1>1. s \in Seq(Byte) /\ t \in Seq(Byte) /\ Len(s) = j /\ Len(t) = k
  BY BytesAreSeq
<1>2. /\ s \o t \in Seq(Byte) /\ Len(s \o t) = j + k
      /\ \A i \in 1 .. j + k : (s \o t)[i] = IF i <= j THEN s[i] ELSE t[i - j]
  BY <1>1, ConcatProperties
<1>3. s \o t \in Bytes(j + k)
  BY <1>2, LenProperties DEF Bytes
<1>4. \A i \in 1 .. j : i \in 1 .. j + k /\ i <= j
  OBVIOUS
<1>5. \A i \in 1 .. k : j + i \in 1 .. j + k /\ ~(j + i <= j) /\ (j + i) - j = i
  OBVIOUS
<1>. QED BY <1>2, <1>3, <1>4, <1>5

LEMMA Part ==
  ASSUME NEW n \in Nat, NEW m \in Bytes(n), NEW f \in 1 .. n + 1, NEW l \in f - 1 .. n
  PROVE  /\ SubSeq(m, f, l) \in Bytes(l - f + 1)
         /\ \A x \in 1 .. l - f + 1 : SubSeq(m, f, l)[x] = m[f + x - 1]
<1> DEFINE s == SubSeq(m, f, l)
<1>1. \A x \in f .. l : m[x] \in Byte
  BY DEF Bytes
<1>2. /\ s \in Seq(Byte) /\ Len(s) = l - f + 1
      /\ \A x \in 1 .. l - f + 1 : s[x] = m[f + x - 1]
  BY <1>1, SubSeqProperties
<1> HIDE DEF s
<1>3. s \in Bytes(l - f + 1)
  BY <1>2, LenProperties DEF Bytes
<1>. QED BY <1>2, <1>3 DEF s

LEMMA SameBytes ==
  ASSUME NEW k \in Nat, NEW x \in Bytes(k), NEW y \in Bytes(k), \A i \in 1 .. k : x[i] = y[i]
  PROVE  x = y
BY DEF Bytes

(* What struct pdu is made of comes out of it as it went in. *)
Packed(c, t, v, r, b) == c \o t \o v \o r \o b

Parts(s, T, B, c, t, v, r, b) ==
  /\ s \in Bytes(8 + T + B) /\ Len(s) = 8 + T + B
  /\ SubSeq(s, 1, 4) = c
  /\ SubSeq(s, 5, 4 + T) = t
  /\ SubSeq(s, 5 + T, 6 + T) = v
  /\ SubSeq(s, 7 + T, 8 + T) = r
  /\ SubSeq(s, 9 + T, Len(s)) = b

LEMMA PackedParts ==
  ASSUME NEW T \in Nat, NEW B \in Nat, NEW c \in Bytes(4), NEW t \in Bytes(T),
         NEW v \in Bytes(2), NEW r \in Bytes(2), NEW b \in Bytes(B),
         NEW s, s = Packed(c, t, v, r, b)
  PROVE  Parts(s, T, B, c, t, v, r, b)
<1> DEFINE n == 8 + T + B
           m1 == c \o t
           m2 == m1 \o v
           m3 == m2 \o r
           m == m3 \o b
<1>1. /\ m1 \in Bytes(4 + T)
      /\ \A i \in 1 .. 4 : m1[i] = c[i]
      /\ \A i \in 1 .. T : m1[4 + i] = t[i]
  BY Joined
<1> HIDE DEF m1
<1>2. /\ m2 \in Bytes(6 + T)
      /\ \A i \in 1 .. 4 + T : m2[i] = m1[i]
      /\ \A i \in 1 .. 2 : m2[4 + T + i] = v[i]
  <2>1. 4 + T \in Nat /\ 2 \in Nat /\ (4 + T) + 2 = 6 + T
    OBVIOUS
  <2>. QED BY <1>1, <2>1, Joined, ZenonT(40)
<1> HIDE DEF m2
<1>3. /\ m3 \in Bytes(8 + T)
      /\ \A i \in 1 .. 6 + T : m3[i] = m2[i]
      /\ \A i \in 1 .. 2 : m3[6 + T + i] = r[i]
  <2> DEFINE j == 6 + T
  <2>1. j \in Nat /\ 2 \in Nat /\ j + 2 = 8 + T
    OBVIOUS
  <2>2. m2 \in Bytes(j)
    BY <1>2
  <2> HIDE DEF j
  <2>3. /\ m3 \in Bytes(j + 2)
        /\ \A i \in 1 .. j : m3[i] = m2[i]
        /\ \A i \in 1 .. 2 : m3[j + i] = r[i]
    BY <2>1, <2>2, Joined, ZenonT(40)
  <2>. QED BY <2>1, <2>3 DEF j
<1> HIDE DEF m3
<1>4. /\ m \in Bytes(n) /\ n \in Nat
      /\ \A i \in 1 .. 8 + T : m[i] = m3[i]
      /\ \A i \in 1 .. B : m[8 + T + i] = b[i]
  <2> DEFINE j == 8 + T
  <2>1. j \in Nat /\ m3 \in Bytes(j)
    BY <1>3
  <2> HIDE DEF j
  <2>2. /\ m \in Bytes(j + B) /\ \A i \in 1 .. j : m[i] = m3[i]
        /\ \A i \in 1 .. B : m[j + i] = b[i]
    BY <2>1, Joined, ZenonT(40)
  <2>3. m \in Bytes((8 + T) + B) /\ (8 + T) + B = n /\ n \in Nat
    BY <2>2 DEF j
  <2>4. m \in Bytes(n)
    BY <2>3
  <2>. QED BY <2>2, <2>3, <2>4 DEF j
<1>5. s = m
  BY DEF Packed, m, m3, m2, m1
<1> HIDE DEF m, n
<1>6. Len(m) = n
  BY <1>4, BytesAreSeq
<1>7. SubSeq(m, 1, 4) = c
  <2> DEFINE f == 1
             l == 4
             k == 4
  <2>1. \A i \in 1 .. k : m[f + i - 1] = c[i]
    BY <1>1, <1>2, <1>3, <1>4
  <2>2. f \in 1 .. n + 1 /\ l \in f - 1 .. n /\ k \in Nat /\ k = l - f + 1 /\ c \in Bytes(k)
    BY DEF n
  <2> HIDE DEF f, l, k
  <2>3. /\ SubSeq(m, f, l) \in Bytes(l - f + 1)
        /\ \A i \in 1 .. l - f + 1 : SubSeq(m, f, l)[i] = m[f + i - 1]
    BY <1>4, <2>2, Part
  <2>4. SubSeq(m, f, l) \in Bytes(k) /\ \A i \in 1 .. k : SubSeq(m, f, l)[i] = c[i]
    BY <2>1, <2>2, <2>3
  <2>5. SubSeq(m, f, l) = c
    BY <2>2, <2>4, SameBytes
  <2>. QED BY <2>5 DEF f, l
<1>8. SubSeq(m, 5, 4 + T) = t
  <2> DEFINE f == 5
             l == 4 + T
             k == T
  <2>1. \A i \in 1 .. k : m[f + i - 1] = t[i]
    BY <1>1, <1>2, <1>3, <1>4
  <2>2. f \in 1 .. n + 1 /\ l \in f - 1 .. n /\ k \in Nat /\ k = l - f + 1 /\ t \in Bytes(k)
    BY DEF n
  <2> HIDE DEF f, l, k
  <2>3. /\ SubSeq(m, f, l) \in Bytes(l - f + 1)
        /\ \A i \in 1 .. l - f + 1 : SubSeq(m, f, l)[i] = m[f + i - 1]
    BY <1>4, <2>2, Part
  <2>4. SubSeq(m, f, l) \in Bytes(k) /\ \A i \in 1 .. k : SubSeq(m, f, l)[i] = t[i]
    BY <2>1, <2>2, <2>3
  <2>5. SubSeq(m, f, l) = t
    BY <2>2, <2>4, SameBytes
  <2>. QED BY <2>5 DEF f, l
<1>9. SubSeq(m, 5 + T, 6 + T) = v
  <2> DEFINE f == 5 + T
             l == 6 + T
             k == 2
  <2>1. \A i \in 1 .. k : m[f + i - 1] = v[i]
    BY <1>2, <1>3, <1>4
  <2>2. f \in 1 .. n + 1 /\ l \in f - 1 .. n /\ k \in Nat /\ k = l - f + 1 /\ v \in Bytes(k)
    BY DEF n
  <2> HIDE DEF f, l, k
  <2>3. /\ SubSeq(m, f, l) \in Bytes(l - f + 1)
        /\ \A i \in 1 .. l - f + 1 : SubSeq(m, f, l)[i] = m[f + i - 1]
    BY <1>4, <2>2, Part
  <2>4. SubSeq(m, f, l) \in Bytes(k) /\ \A i \in 1 .. k : SubSeq(m, f, l)[i] = v[i]
    BY <2>1, <2>2, <2>3
  <2>5. SubSeq(m, f, l) = v
    BY <2>2, <2>4, SameBytes
  <2>. QED BY <2>5 DEF f, l
<1>10. SubSeq(m, 7 + T, 8 + T) = r
  <2> DEFINE f == 7 + T
             l == 8 + T
             k == 2
  <2>1. \A i \in 1 .. k : m[f + i - 1] = r[i]
    BY <1>3, <1>4
  <2>2. f \in 1 .. n + 1 /\ l \in f - 1 .. n /\ k \in Nat /\ k = l - f + 1 /\ r \in Bytes(k)
    BY DEF n
  <2> HIDE DEF f, l, k
  <2>3. /\ SubSeq(m, f, l) \in Bytes(l - f + 1)
        /\ \A i \in 1 .. l - f + 1 : SubSeq(m, f, l)[i] = m[f + i - 1]
    BY <1>4, <2>2, Part
  <2>4. SubSeq(m, f, l) \in Bytes(k) /\ \A i \in 1 .. k : SubSeq(m, f, l)[i] = r[i]
    BY <2>1, <2>2, <2>3
  <2>5. SubSeq(m, f, l) = r
    BY <2>2, <2>4, SameBytes
  <2>. QED BY <2>5 DEF f, l
<1>11. SubSeq(m, 9 + T, 8 + T + B) = b
  <2> DEFINE f == 9 + T
             l == 8 + T + B
             k == B
  <2>1. \A i \in 1 .. k : m[f + i - 1] = b[i]
    BY <1>4
  <2>2. f \in 1 .. n + 1 /\ l \in f - 1 .. n /\ k \in Nat /\ k = l - f + 1 /\ b \in Bytes(k)
    BY DEF n
  <2> HIDE DEF f, l, k
  <2>3. /\ SubSeq(m, f, l) \in Bytes(l - f + 1)
        /\ \A i \in 1 .. l - f + 1 : SubSeq(m, f, l)[i] = m[f + i - 1]
    BY <1>4, <2>2, Part
  <2>4. SubSeq(m, f, l) \in Bytes(k) /\ \A i \in 1 .. k : SubSeq(m, f, l)[i] = b[i]
    BY <2>1, <2>2, <2>3
  <2>5. SubSeq(m, f, l) = b
    BY <2>2, <2>4, SameBytes
  <2>. QED BY <2>5 DEF f, l
<1>. QED BY <1>4, <1>5, <1>6, <1>7, <1>8, <1>9, <1>10, <1>11 DEF n, Parts
LEMMA LoadWord ==
  ASSUME NEW n \in Nat, NEW m \in Bytes(n), NEW order \in Orders
  PROVE  Load(m, order) \in Word(8 * n)
<1>1. ASSUME NEW k \in 1 .. n, NEW b \in m[k]
      PROVE  b + Place(k, n, order) \in 0 .. 8 * n - 1
  <2>1. b \in 0 .. 7
    BY DEF Bytes, Byte
  <2>. QED BY <2>1 DEF Place
<1>2. \A x \in Load(m, order) : x \in 0 .. 8 * n - 1
  BY <1>1, LoadedBit DEF Bytes
<1>. QED BY <1>2 DEF Word

LEMMA StoreBytes ==
  ASSUME NEW n \in Nat, NEW word \in Word(8 * n), NEW order \in Orders
  PROVE  Store(word, n, order) \in Bytes(n)
<1>1. word \in SUBSET Nat
  BY DEF Word
<1>. QED BY <1>1, StoreType DEF Bytes

LEMMA NetworkWord ==
  ASSUME NEW n \in Nat, NEW word \in Word(8 * n), NEW order \in Orders
  PROVE  NetworkOrder(word, n, order) \in Word(8 * n)
BY StoreBytes, LoadWord DEF NetworkOrder, Orders

(* Four bytes of 0 are a word of 0 in every order. *)
LEMMA Zeroed ==
  ASSUME NEW n \in Nat, NEW order \in Orders
  PROVE  /\ {} \in Word(8 * n)
         /\ Store({}, n, order) = Store({}, n, "big")
         /\ NetworkOrder({}, n, order) = {}
<1>1. "big" \in Orders /\ {} \in SUBSET Nat /\ {} \in Word(8 * n)
  BY DEF Orders, Word
<1>2. ASSUME NEW o \in Orders
      PROVE  Store({}, n, o) \in Bytes(n) /\ \A k \in 1 .. n : Store({}, n, o)[k] = {}
  BY <1>1, StoredByte, StoreType DEF Bytes
<1>3. ASSUME NEW o \in Orders PROVE Store({}, n, o) = [k \in 1 .. n |-> {}]
  <2> DEFINE s == Store({}, n, o)
  <2>1. s \in Bytes(n) /\ \A k \in 1 .. n : s[k] = {}
    BY <1>2
  <2> HIDE DEF s
  <2>2. s = [k \in 1 .. n |-> {}]
    BY <2>1 DEF Bytes
  <2>. QED BY <2>2 DEF s
<1>4. \A x : x \notin Load(Store({}, n, "big"), order)
  BY <1>1, <1>2, LoadedBit DEF Bytes
<1>5. Store({}, n, order) = Store({}, n, "big")
  BY <1>1, <1>3
<1>. QED BY <1>1, <1>4, <1>5 DEF NetworkOrder

(* struct pdu, and its bytes with every member's most significant first. *)
Pdu == [crc32 : Word(32), ts : Word(8 * TsBytes), version : Word(16), rc : Word(16),
        body : Bytes(BodyLen)]
OnWire(p) ==
  Packed(Store(p.crc32, 4, "big"), Store(p.ts, TsBytes, "big"), Store(p.version, 2, "big"),
         Store(p.rc, 2, "big"), p.body)
Blank(p) == [p EXCEPT !.crc32 = {}]
Checksum(p) == uint32_t(crc32(OnWire(Blank(p))))

LEMMA Widths ==
  /\ 4 \in Nat /\ 8 * 4 = 32 /\ 2 \in Nat /\ 8 * 2 = 16
  /\ TsBytes \in Nat /\ BodyLen \in Nat /\ PduLen = 8 + TsBytes + BodyLen
  /\ "big" \in Orders
BY WidthAssumption DEF PduLen, Orders

LEMMA ChecksumType == ASSUME NEW p PROVE Checksum(p) \in Word(32)
BY DEF Checksum, uint32_t, Ones, Word

LEMMA OnWireParts ==
  ASSUME NEW p \in Pdu
  PROVE  LET m == OnWire(p) IN
         /\ m \in Bytes(PduLen) /\ Len(m) = PduLen
         /\ SubSeq(m, 1, 4) = Store(p.crc32, 4, "big")
         /\ SubSeq(m, 5, 4 + TsBytes) = Store(p.ts, TsBytes, "big")
         /\ SubSeq(m, 5 + TsBytes, 6 + TsBytes) = Store(p.version, 2, "big")
         /\ SubSeq(m, 7 + TsBytes, 8 + TsBytes) = Store(p.rc, 2, "big")
         /\ SubSeq(m, 9 + TsBytes, Len(m)) = p.body
<1>1. /\ p.crc32 \in Word(8 * 4) /\ p.ts \in Word(8 * TsBytes)
      /\ p.version \in Word(8 * 2) /\ p.rc \in Word(8 * 2) /\ p.body \in Bytes(BodyLen)
  BY Widths DEF Pdu
<1>2. /\ Store(p.crc32, 4, "big") \in Bytes(4) /\ Store(p.ts, TsBytes, "big") \in Bytes(TsBytes)
      /\ Store(p.version, 2, "big") \in Bytes(2) /\ Store(p.rc, 2, "big") \in Bytes(2)
  BY <1>1, Widths, StoreBytes
<1> DEFINE c == Store(p.crc32, 4, "big")
           t == Store(p.ts, TsBytes, "big")
           v == Store(p.version, 2, "big")
           r == Store(p.rc, 2, "big")
           b == p.body
<1>3. c \in Bytes(4) /\ t \in Bytes(TsBytes) /\ v \in Bytes(2) /\ r \in Bytes(2) /\ b \in Bytes(BodyLen)
  BY <1>1, <1>2
<1>4. OnWire(p) = Packed(c, t, v, r, b)
  BY DEF OnWire
<1> HIDE DEF c, t, v, r, b
<1> DEFINE m == OnWire(p)
<1> HIDE DEF m
<1>5. /\ m \in Bytes(8 + TsBytes + BodyLen) /\ Len(m) = 8 + TsBytes + BodyLen
      /\ SubSeq(m, 1, 4) = c /\ SubSeq(m, 5, 4 + TsBytes) = t
      /\ SubSeq(m, 5 + TsBytes, 6 + TsBytes) = v /\ SubSeq(m, 7 + TsBytes, 8 + TsBytes) = r
      /\ SubSeq(m, 9 + TsBytes, Len(m)) = b
  <2>1. m = Packed(c, t, v, r, b)
    BY <1>4 DEF m
  <2>2. PICK T \in Nat, B \in Nat : T = TsBytes /\ B = BodyLen
    BY Widths
  <2>3. t \in Bytes(T) /\ b \in Bytes(B)
    BY <1>3, <2>2
  <2>4. Parts(m, T, B, c, t, v, r, b)
    BY <1>3, <2>1, <2>3, PackedParts
  <2>. QED BY <2>2, <2>4 DEF Parts
<1>. QED BY <1>5, Widths DEF c, t, v, r, b, m

(* The members after htons and htonl: their image is the same on hosts of  *)
(* either byte order.                                                      *)
LEMMA ImageOnWire ==
  ASSUME NEW p \in Pdu, NEW order \in Orders
  PROVE  Image([crc32   |-> NetworkOrder(p.crc32, 4, order),
                ts      |-> NetworkOrder(p.ts, TsBytes, order),
                version |-> NetworkOrder(p.version, 2, order),
                rc      |-> NetworkOrder(p.rc, 2, order),
                body    |-> p.body], order) = OnWire(p)
<1>1. /\ p.crc32 \in SUBSET (0 .. 8 * 4 - 1) /\ p.ts \in SUBSET (0 .. 8 * TsBytes - 1)
      /\ p.version \in SUBSET (0 .. 8 * 2 - 1) /\ p.rc \in SUBSET (0 .. 8 * 2 - 1)
  BY Widths DEF Pdu, Word
<1>2. ASSUME NEW n \in Nat, NEW word \in SUBSET (0 .. 8 * n - 1)
      PROVE  Store(NetworkOrder(word, n, order), n, order) = Store(word, n, "big")
  <2>1. order \in Orders
    OBVIOUS
  <2>. QED BY ONLY <2>1, n \in Nat, word \in SUBSET (0 .. 8 * n - 1), MemberSurvives
<1>3. Store(NetworkOrder(p.crc32, 4, order), 4, order) = Store(p.crc32, 4, "big")
  BY ONLY <1>1, <1>2, Widths
<1>4. Store(NetworkOrder(p.ts, TsBytes, order), TsBytes, order) = Store(p.ts, TsBytes, "big")
  BY ONLY <1>1, <1>2, Widths
<1>5. /\ Store(NetworkOrder(p.version, 2, order), 2, order) = Store(p.version, 2, "big")
      /\ Store(NetworkOrder(p.rc, 2, order), 2, order) = Store(p.rc, 2, "big")
  BY ONLY <1>1, <1>2, Widths
<1>. QED BY <1>3, <1>4, <1>5 DEF Image, OnWire, Packed

(* pdu_pack puts the same bytes on the wire on hosts of either byte order. *)
LEMMA SealedOnWire ==
  ASSUME NEW p \in Pdu, NEW order \in Orders
  PROVE  Image(Sealed(p, order), order) = OnWire([p EXCEPT !.crc32 = Checksum(p)])
<1> DEFINE q == [crc32   |-> {},
                 ts      |-> NetworkOrder(p.ts, TsBytes, order),
                 version |-> NetworkOrder(p.version, 2, order),
                 rc      |-> NetworkOrder(p.rc, 2, order),
                 body    |-> p.body]
           s == [p EXCEPT !.crc32 = Checksum(p)]
<1>1. Blank(p) \in Pdu /\ s \in Pdu
  BY ChecksumType, Widths, Zeroed DEF Pdu, Blank
<1>2. Image(q, order) = OnWire(Blank(p))
  <2>1. q = [crc32   |-> NetworkOrder(Blank(p).crc32, 4, order),
             ts      |-> NetworkOrder(Blank(p).ts, TsBytes, order),
             version |-> NetworkOrder(Blank(p).version, 2, order),
             rc      |-> NetworkOrder(Blank(p).rc, 2, order),
             body    |-> Blank(p).body]
    BY Widths, Zeroed DEF Blank, Pdu
  <2>. QED BY <1>1, <2>1, ImageOnWire
<1>3. Sealed(p, order) = [crc32   |-> NetworkOrder(s.crc32, 4, order),
                          ts      |-> NetworkOrder(s.ts, TsBytes, order),
                          version |-> NetworkOrder(s.version, 2, order),
                          rc      |-> NetworkOrder(s.rc, 2, order),
                          body    |-> s.body]
  <2>1. Sealed(p, order) = [q EXCEPT !.crc32 = NetworkOrder(uint32_t(crc32(Image(q, order))), 4, order)]
    BY DEF Sealed
  <2>2. Sealed(p, order) = [q EXCEPT !.crc32 = NetworkOrder(Checksum(p), 4, order)]
    BY <1>2, <2>1 DEF Checksum
  <2>. QED BY <2>2 DEF Pdu
<1>. QED BY <1>1, <1>3, ImageOnWire
LEMMA PduMembers ==
  ASSUME NEW p \in Pdu
  PROVE  /\ p.crc32 \in Word(8 * 4) /\ p.ts \in Word(8 * TsBytes)
         /\ p.version \in Word(8 * 2) /\ p.rc \in Word(8 * 2) /\ p.body \in Bytes(BodyLen)
BY Widths DEF Pdu

(* What a host of either byte order makes of a member that came over the   *)
(* wire: its bytes are still those, and ntohs or ntohl gives the word.     *)
LEMMA MemberRead ==
  ASSUME NEW n \in Nat, NEW word \in Word(8 * n), NEW order \in Orders
  PROVE  LET m == Store(word, n, "big") IN
         /\ Store(Load(m, order), n, order) = m
         /\ NetworkOrder(Load(m, order), n, order) = word
<1>1. Store(word, n, "big") \in [1 .. n -> Byte]
  BY StoreBytes, Widths DEF Bytes
<1>2. word \in SUBSET (0 .. 8 * n - 1)
  BY DEF Word
<1>3. Store(NetworkOrder(word, n, order), n, order) = Store(word, n, "big")
  BY <1>2, MemberSurvives
<1>4. NetworkOrder(Load(Store(NetworkOrder(word, n, order), n, order), order), n, order) = word
  BY <1>2, MemberSurvives
<1>. QED BY <1>1, <1>3, <1>4, StoreLoad

LEMMA StructOfWire ==
  ASSUME NEW p \in Pdu, NEW order \in Orders
  PROVE  Struct(OnWire(p), order) =
           [crc32   |-> Load(Store(p.crc32, 4, "big"), order),
            ts      |-> Load(Store(p.ts, TsBytes, "big"), order),
            version |-> Load(Store(p.version, 2, "big"), order),
            rc      |-> Load(Store(p.rc, 2, "big"), order),
            body    |-> p.body]
BY OnWireParts DEF Struct

(* pdu_unpack, on a host of either byte order, takes the checksum of what  *)
(* is on the wire and compares it with the one that is there; where they   *)
(* agree the members are those that were packed.                           *)
LEMMA UnpackOnWire ==
  ASSUME NEW p \in Pdu, NEW order \in Orders, NEW now
  PROVE  LET u == pdu_unpack(OnWire(p), now, order) IN
         /\ Checksum(p) # p.crc32 => u.verdict = "mismatch"
         /\ Checksum(p) = p.crc32 =>
              u = [pdu |-> p,
                   verdict |-> IF p.version # IRIS_PROTOCOL_VERSION THEN "version"
                               ELSE IF outdated(age(Number(p.ts, 8 * TsBytes), now)) THEN "age"
                               ELSE "good"]
<1> DEFINE s == Struct(OnWire(p), order)
           q == [crc32   |-> NetworkOrder(s.crc32, 4, order),
                 ts      |-> NetworkOrder(s.ts, TsBytes, order),
                 version |-> NetworkOrder(s.version, 2, order),
                 rc      |-> NetworkOrder(s.rc, 2, order),
                 body    |-> s.body]
           blank == [s EXCEPT !.crc32 = {}]
<1>1. s = [crc32   |-> Load(Store(p.crc32, 4, "big"), order),
           ts      |-> Load(Store(p.ts, TsBytes, "big"), order),
           version |-> Load(Store(p.version, 2, "big"), order),
           rc      |-> Load(Store(p.rc, 2, "big"), order),
           body    |-> p.body]
  BY StructOfWire
<1> HIDE DEF s
<1>2. /\ Store(s.ts, TsBytes, order) = Store(p.ts, TsBytes, "big")
      /\ Store(s.version, 2, order) = Store(p.version, 2, "big")
      /\ Store(s.rc, 2, order) = Store(p.rc, 2, "big")
  BY <1>1, PduMembers, Widths, MemberRead
<1>3. /\ q.crc32 = p.crc32 /\ q.ts = p.ts /\ q.version = p.version
      /\ q.rc = p.rc /\ q.body = p.body
  BY <1>1, PduMembers, Widths, MemberRead
<1>4. q = p
  BY <1>3 DEF Pdu
<1>5. Image(blank, order) = OnWire(Blank(p))
  <2>1. /\ Blank(p).crc32 = {} /\ Blank(p).ts = p.ts /\ Blank(p).version = p.version
        /\ Blank(p).rc = p.rc /\ Blank(p).body = p.body
    BY DEF Blank, Pdu
  <2>2. /\ blank.crc32 = {} /\ blank.ts = s.ts /\ blank.version = s.version
        /\ blank.rc = s.rc /\ blank.body = p.body
    BY <1>1
  <2>3. Store({}, 4, order) = Store({}, 4, "big")
    BY Widths, Zeroed
  <2> HIDE DEF blank
  <2>. QED BY <1>2, <2>1, <2>2, <2>3 DEF Image, OnWire, Packed
<1>6. uint32_t(crc32(Image(blank, order))) = Checksum(p) /\ q.crc32 = p.crc32
  BY <1>3, <1>5 DEF Checksum
<1>7. pdu_unpack(OnWire(p), now, order) =
        [pdu |-> IF uint32_t(crc32(Image(blank, order))) # q.crc32 THEN [s EXCEPT !.crc32 = q.crc32] ELSE q,
         verdict |-> IF uint32_t(crc32(Image(blank, order))) # q.crc32 THEN "mismatch"
                     ELSE IF q.version # IRIS_PROTOCOL_VERSION THEN "version"
                     ELSE IF outdated(age(Number(q.ts, 8 * TsBytes), now)) THEN "age"
                     ELSE "good"]
  BY DEF pdu_unpack, s
<1> HIDE DEF q, blank
<1>. QED BY <1>4, <1>6, <1>7

(* Whatever arrives, what pdu_unpack leaves is a struct pdu. *)
LEMMA UnpackType ==
  ASSUME NEW m \in Bytes(PduLen), NEW order \in Orders, NEW now
  PROVE  /\ pdu_unpack(m, now, order).pdu \in Pdu
         /\ pdu_unpack(m, now, order).verdict \in {"mismatch", "version", "age", "good"}
<1> DEFINE s == Struct(m, order)
           q == [crc32   |-> NetworkOrder(s.crc32, 4, order),
                 ts      |-> NetworkOrder(s.ts, TsBytes, order),
                 version |-> NetworkOrder(s.version, 2, order),
                 rc      |-> NetworkOrder(s.rc, 2, order),
                 body    |-> s.body]
<1>1. PICK T \in Nat, B \in Nat, n \in Nat :
        T = TsBytes /\ B = BodyLen /\ n = PduLen /\ n = 8 + T + B
  BY Widths
<1>2. m \in Bytes(n) /\ Len(m) = n
  BY <1>1, BytesAreSeq
<1>3. /\ SubSeq(m, 1, 4) \in Bytes(4)
      /\ SubSeq(m, 5, 4 + T) \in Bytes(T)
      /\ SubSeq(m, 5 + T, 6 + T) \in Bytes(2)
      /\ SubSeq(m, 7 + T, 8 + T) \in Bytes(2)
      /\ SubSeq(m, 9 + T, n) \in Bytes(B)
  <2>1. ASSUME NEW f \in 1 .. n + 1, NEW l \in f - 1 .. n, NEW k \in Nat, k = l - f + 1
        PROVE  SubSeq(m, f, l) \in Bytes(k)
    BY <1>2, <2>1, Part
  <2>2. SubSeq(m, 1, 4) \in Bytes(4)
    BY <1>1, <2>1
  <2>3. SubSeq(m, 5, 4 + T) \in Bytes(T)
    BY <1>1, <2>1
  <2>4. SubSeq(m, 5 + T, 6 + T) \in Bytes(2)
    BY <1>1, <2>1
  <2>5. SubSeq(m, 7 + T, 8 + T) \in Bytes(2)
    BY <1>1, <2>1
  <2>6. SubSeq(m, 9 + T, n) \in Bytes(B)
    BY <1>1, <2>1
  <2>. QED BY <2>2, <2>3, <2>4, <2>5, <2>6
<1>4. s \in Pdu
  <2>1. /\ Load(SubSeq(m, 1, 4), order) \in Word(8 * 4)
        /\ Load(SubSeq(m, 5, 4 + TsBytes), order) \in Word(8 * TsBytes)
        /\ Load(SubSeq(m, 5 + TsBytes, 6 + TsBytes), order) \in Word(8 * 2)
        /\ Load(SubSeq(m, 7 + TsBytes, 8 + TsBytes), order) \in Word(8 * 2)
        /\ SubSeq(m, 9 + TsBytes, Len(m)) \in Bytes(BodyLen)
    BY <1>1, <1>2, <1>3, Widths, LoadWord
  <2>. QED BY <2>1, Widths DEF Struct, Pdu
<1> HIDE DEF s
<1>5. q \in Pdu
  <2>1. /\ NetworkOrder(s.crc32, 4, order) \in Word(8 * 4)
        /\ NetworkOrder(s.ts, TsBytes, order) \in Word(8 * TsBytes)
        /\ NetworkOrder(s.version, 2, order) \in Word(8 * 2)
        /\ NetworkOrder(s.rc, 2, order) \in Word(8 * 2)
        /\ s.body \in Bytes(BodyLen)
    BY <1>4, PduMembers, Widths, NetworkWord
  <2>. QED BY <2>1, Widths DEF Pdu
<1>6. q.crc32 \in Word(32) /\ [s EXCEPT !.crc32 = q.crc32] \in Pdu
  <2>1. q.crc32 \in Word(32)
    BY <1>5 DEF Pdu
  <2> HIDE DEF q
  <2>. QED BY <1>4, <2>1 DEF Pdu
<1> DEFINE sum == uint32_t(crc32(Image([s EXCEPT !.crc32 = {}], order)))
<1>7. pdu_unpack(m, now, order) =
        [pdu |-> IF sum # q.crc32 THEN [s EXCEPT !.crc32 = q.crc32] ELSE q,
         verdict |-> IF sum # q.crc32 THEN "mismatch"
                     ELSE IF q.version # IRIS_PROTOCOL_VERSION THEN "version"
                     ELSE IF outdated(age(Number(q.ts, 8 * TsBytes), now)) THEN "age"
                     ELSE "good"]
  BY DEF pdu_unpack, s
<1> HIDE DEF q, sum
<1>. QED BY <1>5, <1>6, <1>7
-----------------------------------------------------------------------------
(***************************************************************************)
(* The way of one PDU.  Nothing that RoundTrip and AgeWindow speak of can  *)
(* be seen while the PDU is under way, so the invariant says what its      *)
(* bytes are, those that were packed but for the bits that were flipped,   *)
(* and that what the broker read is pdu_unpack of those bytes at that      *)
(* time.                                                                   *)
(***************************************************************************)
(* The bytes of a PDU when the bits in flip are flipped on the way. *)
Flip(m, flip) == [k \in 1 .. Len(m) |-> Xor(m[k], {b \in 0 .. 7 : 8 * (k - 1) + b \in flip})]

LEMMA FlipType ==
  ASSUME NEW n \in Nat, NEW m \in Bytes(n), NEW flip
  PROVE  Flip(m, flip) \in Bytes(n) /\ (flip = {} => Flip(m, flip) = m)
<1>1. Len(m) = n
  BY BytesAreSeq
<1>2. ASSUME NEW k \in 1 .. n
      PROVE  /\ Xor(m[k], {b \in 0 .. 7 : 8 * (k - 1) + b \in flip}) \in Byte
             /\ flip = {} => Xor(m[k], {b \in 0 .. 7 : 8 * (k - 1) + b \in flip}) = m[k]
  BY DEF Bytes, Byte, Xor
<1>. QED BY <1>1, <1>2 DEF Bytes, Flip
SealedPdu(p, now) == [Stamped(p, now) EXCEPT !.crc32 = Checksum(Stamped(p, now))]

CodecInv ==
  /\ hosts \in [sender : Orders, broker : Orders]
  /\ packet \in [version : Version, rc : Code, body : Body]
  /\ at \in {"sender", "wire", "broker", "read"}
  /\ clock \in Nat /\ sent \in Nat
  /\ at = "sender" => wire = <<>> /\ flipped = {}
  /\ at # "sender" =>
       /\ wire \in Bytes(PduLen)
       /\ wire = Flip(OnWire(SealedPdu(packet, sent)), flipped)
  /\ flipped = {} \/ (at # "wire" /\ \E t \in Trip : flipped = t.flip)
  /\ at = "wire" => clock = sent
  /\ at # "read" => pdu = Nothing /\ verdict = "none"
  /\ at = "read" =>
       /\ pdu = pdu_unpack(wire, clock, hosts.broker).pdu
       /\ verdict = pdu_unpack(wire, clock, hosts.broker).verdict

LEMMA StampedType ==
  ASSUME NEW p \in [version : Version, rc : Code, body : Body], NEW now \in Nat
  PROVE  /\ Stamped(p, now) \in Pdu /\ SealedPdu(p, now) \in Pdu
         /\ SealedPdu(p, now).crc32 = Checksum(SealedPdu(p, now))
         /\ SealedPdu(p, now).ts = Bits(now % Wrap, 8 * TsBytes)
         /\ SealedPdu(p, now).version = p.version
         /\ SealedPdu(p, now).rc = p.rc /\ SealedPdu(p, now).body = p.body
<1> DEFINE s == Stamped(p, now)
           q == SealedPdu(p, now)
<1>1. Bits(now % Wrap, 8 * TsBytes) \in Word(8 * TsBytes)
  BY DEF Bits, Word
<1>2. p.version \in Word(16) /\ p.rc \in Word(16) /\ p.body \in Bytes(BodyLen)
  <2>1. Word(8) = Byte
    BY DEF Word, Byte
  <2>. QED BY <2>1, PacketAssumption DEF Bytes
<1>3. {} \in Word(32)
  BY DEF Word
<1>4. s \in Pdu
  BY <1>1, <1>2, <1>3 DEF Stamped, Pdu
<1>5. q = [s EXCEPT !.crc32 = Checksum(s)]
  BY DEF SealedPdu
<1>6. /\ s.ts = Bits(now % Wrap, 8 * TsBytes) /\ s.version = p.version
      /\ s.rc = p.rc /\ s.body = p.body
  BY DEF Stamped
<1> HIDE DEF s, q
<1>7. q \in Pdu
  BY <1>4, <1>5, ChecksumType DEF Pdu
<1>8. Blank(q) = Blank(s) /\ q.crc32 = Checksum(s)
  BY <1>4, <1>5 DEF Blank, Pdu
<1>9. q.ts = s.ts /\ q.version = s.version /\ q.rc = s.rc /\ q.body = s.body
  BY <1>4, <1>5 DEF Pdu
<1>10. q.crc32 = Checksum(q)
  BY <1>8 DEF Checksum
<1>. QED BY <1>4, <1>6, <1>7, <1>9, <1>10 DEF s, q

LEMMA CodecInit == Init => CodecInv
<1> SUFFICES ASSUME Init PROVE CodecInv
  OBVIOUS
<1>1. clock \in Nat /\ sent \in Nat
  BY TripAssumption DEF Init
<1>. QED BY <1>1 DEF Init, CodecInv

(* Both senders put the same bytes on the wire: packed is how Pack or      *)
(* PackOther fills the struct.                                             *)
LEMMA PackedIsOnWire ==
  ASSUME CodecInv, NEW order \in Orders
  PROVE  /\ Image(Sealed(Stamped(packet, clock), order), order)
              = OnWire(SealedPdu(packet, clock))
         /\ packet.version = IRIS_PROTOCOL_VERSION =>
              pdu_pack(packet, clock, order) = Sealed(Stamped(packet, clock), order)
         /\ OnWire(SealedPdu(packet, clock)) \in Bytes(PduLen)
<1>1. packet \in [version : Version, rc : Code, body : Body] /\ clock \in Nat
  BY DEF CodecInv
<1>2. Stamped(packet, clock) \in Pdu /\ SealedPdu(packet, clock) \in Pdu
  BY <1>1, StampedType
<1>3. Image(Sealed(Stamped(packet, clock), order), order) = OnWire(SealedPdu(packet, clock))
  BY <1>2, SealedOnWire DEF SealedPdu
<1>4. ASSUME packet.version = IRIS_PROTOCOL_VERSION
      PROVE  [Stamped(packet, clock) EXCEPT !.version = IRIS_PROTOCOL_VERSION]
               = Stamped(packet, clock)
  BY <1>4 DEF Stamped
<1>. QED BY <1>2, <1>3, <1>4, OnWireParts DEF pdu_pack

LEMMA CodecNext == CodecInv /\ [Next]_vars => CodecInv'
<1> SUFFICES ASSUME CodecInv, [Next]_vars PROVE CodecInv'
  OBVIOUS
<1>0. hosts.sender \in Orders /\ hosts.broker \in Orders
  BY DEF CodecInv
<1>1. ASSUME Pack \/ PackOther PROVE CodecInv'
  <2>1. wire' = OnWire(SealedPdu(packet, clock)) /\ wire' \in Bytes(PduLen)
    BY <1>0, <1>1, PackedIsOnWire DEF Pack, PackOther
  <2>2. flipped = {} /\ wire' = Flip(wire', {})
    <3>1. flipped = {}
      BY <1>1 DEF CodecInv, Pack, PackOther
    <3>2. PICK n \in Nat : n = PduLen
      BY Widths
    <3>. QED BY <2>1, <3>1, <3>2, FlipType
  <2>3. /\ at = "sender" /\ at' = "wire" /\ sent' = clock
        /\ UNCHANGED <<hosts, packet, clock, flipped, pdu, verdict>>
    BY <1>1 DEF Pack, PackOther
  <2>. QED BY <2>1, <2>2, <2>3 DEF CodecInv
<1>2. ASSUME Transit PROVE CodecInv'
  <2>1. PICK t \in Trip :
          /\ clock + t.skew >= 0 /\ clock' = clock + t.skew /\ flipped' = t.flip
          /\ wire' = Flip(wire, t.flip)
    BY <1>2 DEF Transit, Flip
  <2>2. clock' \in Nat
    BY <2>1, TripAssumption DEF CodecInv
  <2>3. wire' \in Bytes(PduLen) /\ wire = OnWire(SealedPdu(packet, sent))
    <3> DEFINE m == OnWire(SealedPdu(packet, sent))
    <3>1. PICK n \in Nat : n = PduLen
      BY Widths
    <3>2. wire \in Bytes(n) /\ wire = Flip(m, {})
      BY <1>2, <3>1 DEF CodecInv, Transit
    <3>3. m \in Bytes(n)
      BY <3>1, StampedType, OnWireParts DEF CodecInv
    <3> HIDE DEF m
    <3>4. wire = m
      BY <3>2, <3>3, FlipType
    <3>5. wire' \in Bytes(n)
      BY <2>1, <3>2, FlipType
    <3>. QED BY <3>1, <3>4, <3>5 DEF m
  <2>5. /\ at = "wire" /\ at' = "broker"
        /\ UNCHANGED <<hosts, packet, sent, pdu, verdict>>
    BY <1>2 DEF Transit
  <2>. QED BY <2>1, <2>2, <2>3, <2>5 DEF CodecInv
<1>3. ASSUME Unpack PROVE CodecInv'
  BY <1>3 DEF CodecInv, Unpack
<1>4. ASSUME UNCHANGED vars PROVE CodecInv'
  BY <1>4 DEF CodecInv, vars
<1>. QED BY <1>1, <1>2, <1>3, <1>4 DEF Next

THEOREM CodecInvariant == Spec => []CodecInv
BY CodecInit, CodecNext, PTL DEF Spec
(* TypeOK.  The members of what pdu_unpack leaves are words of their own   *)
(* width whatever arrived (iris.c:280-324), and no bit outside the PDU is  *)
(* ever flipped.                                                           *)
LEMMA FlippedType == CodecInv => flipped \in Word(8 * PduLen)
BY TripAssumption DEF CodecInv, Word

LEMMA CodecInvTypes == CodecInv => TypeOK
<1> SUFFICES ASSUME CodecInv PROVE TypeOK
  OBVIOUS
<1>1. wire \in Seq(Word(8)) /\ flipped \in Word(8 * Len(wire))
  <2>1. CASE at = "sender"
    BY <2>1 DEF CodecInv, Word
  <2>2. CASE at # "sender"
    <3>1. PICK n \in Nat : n = PduLen
      BY Widths
    <3>2. wire \in Bytes(n) /\ flipped \in Word(8 * n)
      BY <2>2, <3>1, FlippedType DEF CodecInv
    <3>3. wire \in Seq(Byte) /\ Len(wire) = n
      BY <3>2, BytesAreSeq
    <3>4. Word(8) = Byte
      BY DEF Word, Byte
    <3>. QED BY <3>2, <3>3, <3>4
  <2>. QED BY <2>1, <2>2
<1>2. /\ pdu.crc32 \in Word(32) /\ pdu.ts \in Word(8 * TsBytes)
      /\ pdu.version \in Word(16) /\ pdu.rc \in Word(16)
      /\ verdict \in {"none", "mismatch", "version", "age", "good"}
  <2>1. CASE at # "read"
    <3>1. \A w : {} \in Word(w)
      BY DEF Word
    <3>2. pdu = Nothing /\ verdict = "none"
      BY <2>1 DEF CodecInv
    <3>. QED BY <3>1, <3>2 DEF Nothing
  <2>2. CASE at = "read"
    <3>1. wire \in Bytes(PduLen) /\ hosts.broker \in Orders
      BY <2>2 DEF CodecInv
    <3>2. pdu \in Pdu /\ verdict \in {"mismatch", "version", "age", "good"}
      BY <2>2, <3>1, UnpackType DEF CodecInv
    <3>. QED BY <3>2 DEF Pdu
  <2>. QED BY <2>1, <2>2
<1>. QED BY <1>1, <1>2 DEF CodecInv, TypeOK

THEOREM TypeCorrect == Spec => []TypeOK
BY CodecInvariant, CodecInvTypes, PTL

LEMMA PackedBytes == CodecInv => OnWire(SealedPdu(packet, sent)) \in Bytes(PduLen)
BY StampedType, OnWireParts DEF CodecInv

LEMMA UndamagedWire ==
  ASSUME CodecInv, at # "sender", flipped = {}
  PROVE  wire = OnWire(SealedPdu(packet, sent))
<1>1. PICK n \in Nat : n = PduLen
  BY Widths
<1>2. OnWire(SealedPdu(packet, sent)) \in Bytes(n)
  BY <1>1, PackedBytes
<1>. QED BY <1>2, FlipType DEF CodecInv

(* What the broker has read of a PDU that was not damaged.                 *)
LEMMA IntactRead ==
  ASSUME CodecInv, Intact
  PROVE  /\ pdu = SealedPdu(packet, sent)
         /\ verdict = IF packet.version # IRIS_PROTOCOL_VERSION THEN "version"
                      ELSE IF outdated(age(sent % Wrap, clock)) THEN "age"
                      ELSE "good"
<1> DEFINE p == SealedPdu(packet, sent)
<1>1. wire = OnWire(p) /\ hosts.broker \in Orders
  BY UndamagedWire DEF CodecInv, Intact
<1>2. packet \in [version : Version, rc : Code, body : Body] /\ sent \in Nat
  BY DEF CodecInv
<1>3. /\ p \in Pdu /\ p.crc32 = Checksum(p)
      /\ p.ts = Bits(sent % Wrap, 8 * TsBytes) /\ p.version = packet.version
  BY <1>2, StampedType
<1>4. Number(p.ts, 8 * TsBytes) = sent % Wrap
  <2>1. PICK w \in Nat : w = 8 * TsBytes
    BY Widths
  <2>2. sent % Wrap \in 0 .. 2 ^ w - 1
    BY <1>2, <2>1, WrapType DEF Wrap
  <2>3. Number(Bits(sent % Wrap, w), w) = sent % Wrap
    BY <2>2, NumberOfBits
  <2>. QED BY <1>3, <2>1, <2>3
<1> HIDE DEF p
<1>5. pdu_unpack(wire, clock, hosts.broker) =
        [pdu |-> p,
         verdict |-> IF p.version # IRIS_PROTOCOL_VERSION THEN "version"
                     ELSE IF outdated(age(Number(p.ts, 8 * TsBytes), clock)) THEN "age"
                     ELSE "good"]
  BY <1>1, <1>3, UnpackOnWire
<1>. QED BY <1>3, <1>4, <1>5 DEF CodecInv, Intact, p

(* RoundTrip, for structs of every width and hosts of any byte orders:     *)
(* what pdu_pack sealed (iris.c:267-278) passes the checksum of pdu_unpack *)
(* (iris.c:288-302), which gives back the version, the return code and the *)
(* strings.                                                                *)
THEOREM RoundTripCorrect == Spec => []RoundTrip
<1>1. CodecInv => RoundTrip
  <2> SUFFICES ASSUME CodecInv, Intact
               PROVE  /\ verdict # "mismatch"
                      /\ [version |-> pdu.version, rc |-> pdu.rc, body |-> pdu.body] = packet
                      /\ verdict = "version" <=> packet.version # IRIS_PROTOCOL_VERSION
    BY DEF RoundTrip
  <2>1. packet \in [version : Version, rc : Code, body : Body] /\ sent \in Nat
    BY DEF CodecInv
  <2>2. pdu.version = packet.version /\ pdu.rc = packet.rc /\ pdu.body = packet.body
    BY <2>1, IntactRead, StampedType
  <2>3. [version |-> pdu.version, rc |-> pdu.rc, body |-> pdu.body] = packet
    BY <2>1, <2>2
  <2>4. /\ verdict # "mismatch"
        /\ verdict = "version" <=> packet.version # IRIS_PROTOCOL_VERSION
    BY IntactRead
  <2>. QED BY <2>3, <2>4
<1>. QED BY CodecInvariant, <1>1, PTL

(* AgeWindow, for every width of the timestamp and every limit: which      *)
(* clocks make pdu_unpack (iris.c:309-320) refuse an undamaged PDU for its *)
(* age, before and after the timestamp wraps.                              *)
THEOREM AgeWindowCorrect == Spec => []AgeWindow
<1>1. CodecInv => AgeWindow
  <2> SUFFICES ASSUME CodecInv, Intact, verdict # "version"
               PROVE  /\ sent < Wrap /\ clock < Wrap =>
                           (verdict = "good" <=> clock - sent <= MaxAge /\ sent - clock <= MaxAge)
                      /\ clock >= Wrap => (verdict = "good" <=> sent % Wrap > clock % Wrap)
    BY DEF AgeWindow
  <2>1. clock \in Nat /\ sent \in Nat /\ sent % Wrap \in 0 .. Wrap - 1
    BY WrapType DEF CodecInv
  <2>2. verdict = "good" <=> ~outdated(age(sent % Wrap, clock))
    BY IntactRead
  <2>3. ASSUME sent < Wrap, clock < Wrap
        PROVE  verdict = "good" <=> clock - sent <= MaxAge /\ sent - clock <= MaxAge
    <3>1. sent \in 0 .. Wrap - 1 /\ clock \in 0 .. Wrap - 1 /\ sent % Wrap = sent
      BY <2>1, <2>3, WrapType
    <3>. QED BY <2>2, <3>1, AgeBeforeWrap
  <2>4. ASSUME clock >= Wrap
        PROVE  verdict = "good" <=> sent % Wrap > clock % Wrap
    BY <2>1, <2>2, <2>4, AgeAfterWrap
  <2>. QED BY <2>3, <2>4
<1>. QED BY CodecInvariant, <1>1, PTL

Join(s, t) == s \o t

LEMMA JoinAssociative ==
  ASSUME NEW S, NEW s \in Seq(S), NEW t \in Seq(S), NEW u \in Seq(S)
  PROVE  Join(s, t) \in Seq(S) /\ Join(Join(s, t), u) = Join(s, Join(t, u))
<1>1. s \o t \in Seq(S)
  BY ConcatProperties
<1>2. (s \o t) \o u = s \o (t \o u)
  BY ConcatAssociative
<1>. QED BY <1>1, <1>2 DEF Join

LEMMA Regrouped ==
  ASSUME NEW S, NEW c \in Seq(S), NEW t \in Seq(S), NEW v \in Seq(S), NEW r \in Seq(S),
         NEW b \in Seq(S)
  PROVE  Packed(c, t, v, r, b) = Join(c, Join(Join(Join(t, v), r), b))
<1>1. Packed(c, t, v, r, b) = Join(Join(Join(Join(c, t), v), r), b)
  BY DEF Packed, Join
<1>2. Join(t, v) \in Seq(S) /\ Join(Join(t, v), r) \in Seq(S)
  BY JoinAssociative
<1>3. Join(Join(c, t), v) = Join(c, Join(t, v))
  BY JoinAssociative
<1>4. Join(Join(c, Join(t, v)), r) = Join(c, Join(Join(t, v), r))
  BY <1>2, JoinAssociative
<1>5. Join(Join(c, Join(Join(t, v), r)), b) = Join(c, Join(Join(Join(t, v), r), b))
  BY <1>2, JoinAssociative
<1>. QED BY <1>1, <1>3, <1>4, <1>5

(* ClientsAgree, for every packet, every width and hosts of either byte    *)
(* order: what send_iris puts on the wire (iris.c:267-278) is what         *)
(* send_iris.pl:80-98 puts there.                                          *)
THEOREM ClientsAgreeCorrect == Spec => []ClientsAgree
<1>1. CodecInv => ClientsAgree
  <2> SUFFICES ASSUME CodecInv, at = "wire", packet.version = IRIS_PROTOCOL_VERSION
               PROVE  wire = perl_pack(packet, clock)
    BY DEF ClientsAgree
  <2> DEFINE s == Stamped(packet, clock)
             zero == Store({}, 4, "big")
             t == Store(s.ts, TsBytes, "big")
             v == Store(s.version, 2, "big")
             r == Store(s.rc, 2, "big")
             b == s.body
             sum == Store(Checksum(s), 4, "big")
             rest == Join(Join(Join(t, v), r), b)
  <2>1. packet \in [version : Version, rc : Code, body : Body] /\ clock \in Nat
    BY DEF CodecInv
  <2>2. s \in Pdu
    BY <2>1, StampedType
  <2>3. /\ zero \in Seq(Byte) /\ t \in Seq(Byte) /\ v \in Seq(Byte) /\ r \in Seq(Byte)
        /\ b \in Seq(Byte) /\ sum \in Seq(Byte)
    <3>1. /\ zero \in Bytes(4) /\ t \in Bytes(TsBytes) /\ v \in Bytes(2) /\ r \in Bytes(2)
          /\ b \in Bytes(BodyLen) /\ sum \in Bytes(4)
      BY <2>2, PduMembers, ChecksumType, Zeroed, Widths, StoreBytes
    <3> HIDE DEF zero, t, v, r, b, sum
    <3>. QED BY <3>1, Widths, BytesAreSeq
  <2>4. OnWire(Blank(s)) = Packed(zero, t, v, r, b)
    BY <2>2 DEF OnWire, Blank, Pdu
  <2>5. OnWire(SealedPdu(packet, clock)) = Packed(sum, t, v, r, b)
    BY <2>2 DEF OnWire, SealedPdu, Pdu
  <2>6. perl_pack(packet, clock) =
          Store(uint32_t(crc32(Join(zero, rest))), 4, "big") \o rest
    BY DEF perl_pack, Stamped, Join
  <2>7. Join(zero, rest) = OnWire(Blank(s))
    <3> HIDE DEF zero, t, v, r, b, sum, s
    <3>. QED BY <2>3, <2>4, Regrouped
  <2>8. perl_pack(packet, clock) = Join(sum, rest)
    BY <2>6, <2>7 DEF Checksum, Join
  <2>9. Join(sum, rest) = Packed(sum, t, v, r, b)
    <3> HIDE DEF zero, t, v, r, b, sum, s
    <3>. QED BY <2>3, Regrouped
  <2>10. wire = OnWire(SealedPdu(packet, clock))
    BY UndamagedWire DEF CodecInv
  <2>. QED BY <2>5, <2>8, <2>9, <2>10
<1>. QED BY CodecInvariant, <1>1, PTL
-----------------------------------------------------------------------------
(***************************************************************************)
(* crc32.  A word is the set of its bits, so that the bit i of a xor b is  *)
(* in one of a and b and not in both, and the bit i of a shifted by n is   *)
(* the bit i + n of a.                                                     *)
(***************************************************************************)
LEMMA XorBit ==
  ASSUME NEW a, NEW b, NEW i
  PROVE  i \in Xor(a, b) <=> ~(i \in a <=> i \in b)
BY DEF Xor

LEMMA XorWord ==
  ASSUME NEW w, NEW a \in Word(w), NEW b \in Word(w)
  PROVE  Xor(a, b) \in Word(w)
BY DEF Xor, Word

LEMMA ShiftBit ==
  ASSUME NEW a \in SUBSET Nat, NEW n \in Nat, NEW i
  PROVE  i \in ShiftRight(a, n) <=> i \in Nat /\ i + n \in a
<1>1. ASSUME i \in ShiftRight(a, n) PROVE i \in Nat /\ i + n \in a
  <2>1. PICK b \in a : b >= n /\ i = b - n
    BY <1>1 DEF ShiftRight
  <2>2. b \in Nat
    OBVIOUS
  <2>3. i \in Nat /\ i + n = b
    BY <2>1, <2>2
  <2>. QED BY <2>1, <2>3
<1>2. ASSUME i \in Nat, i + n \in a PROVE i \in ShiftRight(a, n)
  <2>1. i + n >= n /\ i = (i + n) - n
    BY <1>2
  <2>. QED BY <1>2, <2>1 DEF ShiftRight
<1>. QED BY <1>1, <1>2

LEMMA ShiftWord ==
  ASSUME NEW w \in Nat, NEW a \in Word(w), NEW n \in Nat
  PROVE  ShiftRight(a, n) \in Word(w)
<1>1. a \in SUBSET Nat
  BY DEF Word
<1>2. ASSUME NEW i \in ShiftRight(a, n) PROVE i \in 0 .. w - 1
  <2>1. i \in Nat /\ i + n \in 0 .. w - 1
    BY <1>1, <1>2, ShiftBit DEF Word
  <2>. QED BY <2>1
<1>. QED BY <1>2 DEF Word

LEMMA PolynomialType ==
  Polynomial \in Word(32) /\ 31 \in Polynomial /\ Ones \in Word(32) /\ 32 \in Nat
BY DEF Polynomial, Ones, Word

(* One bit of the division.  Whether the polynomial is taken off shows in  *)
(* bit 31 of the result.                                                   *)
LEMMA DividedBit ==
  ASSUME NEW r \in Word(32), NEW n, NEW bits
  PROVE  /\ Divided(r, n \in bits) \in Word(32)
         /\ \A i \in Nat :
              i \in Divided(r, n \in bits)
                <=> ~(i + 1 \in r <=> i \in Polynomial /\ ~(0 \in r <=> n \in bits))
         /\ 31 \in Divided(r, n \in bits) <=> ~(0 \in r <=> n \in bits)
<1>1. r \in SUBSET Nat /\ 1 \in Nat /\ 32 \in Nat
  BY DEF Word
<1> DEFINE s == ShiftRight(r, 1)
<1>2. s \in Word(32) /\ \A i \in Nat : i \in s <=> i + 1 \in r
  BY <1>1, ShiftWord, ShiftBit
<1>3. 31 \notin s
  <2>1. 31 \in Nat /\ 31 + 1 \notin r
    BY DEF Word
  <2>. QED BY <1>2, <2>1
<1> HIDE DEF s
<1>4. CASE 0 \in r <=> n \in bits
  <2>1. Divided(r, n \in bits) = s
    BY <1>4 DEF Divided, s
  <2>. QED BY <1>2, <1>3, <1>4, <2>1
<1>5. CASE ~(0 \in r <=> n \in bits)
  <2>1. Divided(r, n \in bits) = Xor(s, Polynomial)
    BY <1>5 DEF Divided, s
  <2>2. Divided(r, n \in bits) \in Word(32)
    BY <1>2, <2>1, PolynomialType, XorWord
  <2>3. \A i : i \in Divided(r, n \in bits) <=> ~(i \in s <=> i \in Polynomial)
    BY <2>1, XorBit
  <2>4. 31 \in Divided(r, n \in bits)
    BY <1>3, <2>3, PolynomialType
  <2>. QED BY <1>2, <1>5, <2>2, <2>3, <2>4
<1>. QED BY <1>4, <1>5

LEMMA ShiftedIsDivided == ASSUME NEW r PROVE Shifted(r) = Divided(r, 0 \in {})
BY DEF Shifted, Divided

LEMMA UpTo ==
  ASSUME NEW n \in Nat, NEW S, 0 \in S, \A i \in 0 .. n - 1 : i \in S => i + 1 \in S
  PROVE  \A i \in 0 .. n : i \in S
<1> DEFINE I == {i \in 0 .. n : i \notin S}
           R == OpToRel(<, Nat)
<1>1. SUFFICES ASSUME I # {} PROVE FALSE
  OBVIOUS
<1>2. I \subseteq Nat
  OBVIOUS
<1>3. PICK m \in I : \A k \in I : ~(<<k, m>> \in R)
  <2> HIDE DEF I
  <2>. QED BY <1>1, <1>2, WFMin, NatLessThanWellFounded
<1>4. m \in 0 .. n /\ m \notin S /\ m # 0
  OBVIOUS
<1>5. m - 1 \in 0 .. n - 1 /\ m - 1 \in Nat /\ m \in Nat /\ m - 1 < m /\ (m - 1) + 1 = m
  BY <1>4
<1>6. <<m - 1, m>> \in R
  BY <1>5 DEF OpToRel
<1>7. m - 1 \notin I
  BY <1>3, <1>6
<1>8. m - 1 \in S
  BY <1>5, <1>7
<1>. QED BY <1>4, <1>5, <1>8

(* A loop of n turns, each of which makes one word of another, has a run.  *)
Runs(f, n, S, first, turn) ==
  /\ f \in [0 .. n -> S] /\ f[0] = first
  /\ \A i \in 1 .. n : f[i] = turn[i][f[i - 1]]

LEMMA LoopRuns ==
  ASSUME NEW S, NEW first \in S, NEW n \in Nat, NEW turn \in [1 .. n -> [S -> S]]
  PROVE  \E f : Runs(f, n, S, first, turn)
<1> DEFINE T == {m \in 0 .. n : \E f : Runs(f, m, S, first, turn)}
<1>1. 0 \in T
  <2> DEFINE f == [i \in 0 .. 0 |-> first]
  <2>1. Runs(f, 0, S, first, turn)
    BY DEF Runs
  <2>. QED BY <2>1
<1>2. ASSUME NEW m \in 0 .. n - 1, m \in T PROVE m + 1 \in T
  <2>1. PICK f : Runs(f, m, S, first, turn)
    BY <1>2
  <2> DEFINE k == m + 1
             g == [i \in 0 .. k |-> IF i = k THEN turn[k][f[m]] ELSE f[i]]
  <2>2. k \in 1 .. n /\ k \in 0 .. n /\ m \in 0 .. m /\ k - 1 = m /\ 0 # k
    OBVIOUS
  <2>3. f[m] \in S /\ turn[k] \in [S -> S]
    BY <2>1, <2>2 DEF Runs
  <2>4. turn[k][f[m]] \in S
    BY <2>3
  <2>5. \A i \in 0 .. k : i # k => i \in 0 .. m
    OBVIOUS
  <2>6. g \in [0 .. k -> S]
    BY <2>1, <2>4, <2>5 DEF Runs
  <2>7. g[0] = first
    BY <2>1, <2>2 DEF Runs
  <2>8. ASSUME NEW i \in 1 .. k PROVE g[i] = turn[i][g[i - 1]]
    <3>1. CASE i = k
      <4>1. g[i - 1] = f[m]
        BY <2>2, <3>1
      <4>. QED BY <3>1, <4>1
    <3>2. CASE i # k
      <4>1. i \in 1 .. m /\ i - 1 \in 0 .. k /\ i - 1 # k /\ i \in 0 .. k
        BY <3>2
      <4>2. g[i] = f[i] /\ g[i - 1] = f[i - 1]
        BY <3>2, <4>1
      <4>. QED BY <2>1, <4>1, <4>2 DEF Runs
    <3>. QED BY <3>1, <3>2
  <2> HIDE DEF g
  <2>9. Runs(g, k, S, first, turn)
    BY <2>6, <2>7, <2>8 DEF Runs
  <2>. QED BY <2>2, <2>9
<1>3. \A m \in 0 .. n : m \in T
  <2> HIDE DEF T
  <2>. QED BY <1>1, <1>2, UpTo
<1>. QED BY <1>3

(* An entry of the table is what eight shifts make of its index.           *)
LEMMA TableEntry ==
  ASSUME NEW byte \in Byte
  PROVE  \E t : /\ t \in [0 .. 8 -> Word(32)] /\ t[0] = byte
                /\ \A j \in 1 .. 8 : t[j] = Divided(t[j - 1], 0 \in {})
                /\ CRC32[byte] = t[8]
<1> DEFINE W == Word(32)
           turn == [j \in 1 .. 8 |-> [r \in W |-> Shifted(r)]]
           L(t) == t = [j \in 0 .. 8 |-> IF j = 0 THEN byte ELSE Shifted(t[j - 1])]
           t == CHOOSE u : L(u)
<1>1. byte \in W /\ byte \in Word(8)
  BY DEF Byte, Word
<1>2. \A r \in W : Shifted(r) \in W
  BY ShiftedIsDivided, DividedBit
<1> HIDE DEF W
<1>3. turn \in [1 .. 8 -> [W -> W]]
  BY <1>2
<1>4. PICK f : Runs(f, 8, W, byte, turn)
  <2> HIDE DEF turn
  <2>. QED BY <1>1, <1>3, LoopRuns
<1>5. f \in [0 .. 8 -> W] /\ f[0] = byte /\ \A j \in 1 .. 8 : f[j] = Shifted(f[j - 1])
  <2>1. f \in [0 .. 8 -> W] /\ f[0] = byte /\ \A j \in 1 .. 8 : f[j] = turn[j][f[j - 1]]
    BY <1>4 DEF Runs
  <2>2. \A j \in 1 .. 8 : j - 1 \in 0 .. 8
    OBVIOUS
  <2>. QED BY <2>1, <2>2
<1>6. L(f)
  BY <1>5
<1>7. L(t)
  <2> HIDE DEF L
  <2>. QED BY <1>6
<1> HIDE DEF t
<1>8. \A j \in 0 .. 8 : t[j] = f[j]
  <2> DEFINE T == {j \in 0 .. 8 : t[j] = f[j]}
  <2>1. 0 \in T
    BY <1>5, <1>7
  <2>2. ASSUME NEW j \in 0 .. 7, j \in T PROVE j + 1 \in T
    <3>1. j + 1 \in 0 .. 8 /\ j + 1 \in 1 .. 8 /\ j + 1 # 0 /\ (j + 1) - 1 = j
      OBVIOUS
    <3>2. t[j + 1] = Shifted(t[j]) /\ f[j + 1] = Shifted(f[j])
      BY <1>5, <1>7, <3>1
    <3>. QED BY <2>2, <3>1, <3>2
  <2>3. \A j \in 0 .. 8 : j \in T
    <3> HIDE DEF T
    <3>. QED BY <2>1, <2>2, UpTo
  <2>. QED BY <2>3
<1>9. CRC32[byte] = t[8]
  BY <1>1 DEF CRC32, t
<1>10. CRC32[byte] = f[8]
  BY <1>8, <1>9
<1>11. \A j \in 1 .. 8 : f[j] = Divided(f[j - 1], 0 \in {})
  BY <1>5, ShiftedIsDivided
<1>. QED BY <1>5, <1>10, <1>11 DEF W

(* Eight bits of the division are one look into the table: after j of them *)
(* the remainder is what is left of the byte and of the upper bits of the  *)
(* old remainder, and what j shifts have made of the table's index.        *)
LEMMA ByteDivided ==
  ASSUME NEW r \in Word(32), NEW c \in Byte,
         NEW d \in [0 .. 8 -> Word(32)], d[0] = r,
         \A j \in 1 .. 8 : d[j] = Divided(d[j - 1], j - 1 \in c)
  PROVE  d[8] = Updated(r, c)
<1> DEFINE x == LowByte(Xor(r, c))
<1>1. \A i : i \in x <=> i \in 0 .. 7 /\ ~(i \in r <=> i \in c)
  BY XorBit DEF LowByte
<1>2. x \in Byte
  BY <1>1 DEF Byte
<1> HIDE DEF x
<1>3. PICK t : /\ t \in [0 .. 8 -> Word(32)] /\ t[0] = x
               /\ \A j \in 1 .. 8 : t[j] = Divided(t[j - 1], 0 \in {})
               /\ CRC32[x] = t[8]
  BY <1>2, TableEntry
<1> DEFINE Upper(i) == i >= 8 /\ i \in r
           T == {j \in 0 .. 8 : \A i \in Nat :
                   i \in d[j] <=> ((i \in t[j] <=> i + j \in c) <=> Upper(i + j))}
<1>4. 0 \in T
  <2>1. ASSUME NEW i \in Nat
        PROVE  i \in r <=> ((i \in x <=> i \in c) <=> Upper(i))
    <3>1. CASE i \in 0 .. 7
      BY <1>1, <3>1
    <3>2. CASE i \notin 0 .. 7
      BY <1>1, <3>2 DEF Byte
    <3>. QED BY <3>1, <3>2
  <2>2. \A i \in Nat : i + 0 = i
    OBVIOUS
  <2>. QED BY <1>3, <2>1, <2>2
<1>5. ASSUME NEW j \in 0 .. 7, j \in T PROVE j + 1 \in T
  <2> DEFINE k == j + 1
  <2>1. k \in 0 .. 8 /\ k \in 1 .. 8 /\ k - 1 = j /\ j \in 0 .. 8 /\ j \in Nat
    OBVIOUS
  <2>2. d[k] = Divided(d[j], j \in c) /\ t[k] = Divided(t[j], 0 \in {})
    BY <1>3, <2>1
  <2>3. d[j] \in Word(32) /\ t[j] \in Word(32)
    BY <1>3, <2>1
  <2>4. \A i \in Nat : /\ i \in d[k] <=> ~(i + 1 \in d[j] <=> i \in Polynomial /\ ~(0 \in d[j] <=> j \in c))
                       /\ i \in t[k] <=> ~(i + 1 \in t[j] <=> i \in Polynomial /\ 0 \in t[j])
    <3> HIDE DEF k
    <3>1. \A i \in Nat : i \in Divided(d[j], j \in c)
                           <=> ~(i + 1 \in d[j] <=> i \in Polynomial /\ ~(0 \in d[j] <=> j \in c))
      BY <2>3, DividedBit, Zenon
    <3>2. \A i \in Nat : i \in Divided(t[j], 0 \in {})
                           <=> ~(i + 1 \in t[j] <=> i \in Polynomial /\ ~(0 \in t[j] <=> 0 \in {}))
      BY <2>3, DividedBit, Zenon
    <3>. QED BY <2>2, <3>1, <3>2, Zenon
  <2>5. \A i \in Nat : i \in d[j] <=> ((i \in t[j] <=> i + j \in c) <=> Upper(i + j))
    BY <1>5
  <2>6. ~(0 \in d[j] <=> j \in c) <=> 0 \in t[j]
    <3>1. 0 + j = j /\ ~Upper(j) /\ 0 \in Nat
      BY <2>1
    <3>2. 0 \in d[j] <=> ((0 \in t[j] <=> 0 + j \in c) <=> Upper(0 + j))
      BY <2>5
    <3> HIDE DEF Upper
    <3>3. 0 \in d[j] <=> ((0 \in t[j] <=> j \in c) <=> Upper(j))
      BY <3>1, <3>2
    <3>. QED BY <3>1, <3>3
  <2>7. ASSUME NEW i \in Nat
        PROVE  i \in d[k] <=> ((i \in t[k] <=> i + k \in c) <=> Upper(i + k))
    <3>1. i + 1 \in Nat /\ (i + 1) + j = i + k
      OBVIOUS
    <3>2. i + 1 \in d[j] <=> ((i + 1 \in t[j] <=> (i + 1) + j \in c) <=> Upper((i + 1) + j))
      BY <2>5, <3>1
    <3> HIDE DEF Upper, k
    <3>3. i + 1 \in d[j] <=> ((i + 1 \in t[j] <=> i + k \in c) <=> Upper(i + k))
      BY <3>1, <3>2
    <3>. QED BY <2>4, <2>6, <3>3
  <2>. QED BY <2>1, <2>7
<1>6. 8 \in T
  <2>1. \A j \in 0 .. 8 : j \in T
    <3> HIDE DEF T
    <3>. QED BY <1>4, <1>5, UpTo
  <2>. QED BY <2>1
<1> DEFINE s == ShiftRight(r, 8)
<1>7. Updated(r, c) = Xor(s, t[8])
  BY <1>3 DEF Updated, x
<1>8. s \in Word(32) /\ \A i \in Nat : i \in s <=> i + 8 \in r
  <2>1. r \in SUBSET Nat /\ 8 \in Nat /\ 32 \in Nat
    BY DEF Word
  <2>. QED BY <2>1, ShiftBit, ShiftWord
<1> HIDE DEF s
<1>9. ASSUME NEW i \in Nat PROVE i \in d[8] <=> i \in Xor(s, t[8])
  <2>1. i \in d[8] <=> ((i \in t[8] <=> i + 8 \in c) <=> Upper(i + 8))
    BY <1>6
  <2>2. i + 8 \notin c /\ (Upper(i + 8) <=> i \in s)
    BY <1>8 DEF Byte
  <2> HIDE DEF Upper
  <2>. QED BY <2>1, <2>2, XorBit
<1>10. d[8] \in Word(32) /\ Xor(s, t[8]) \in Word(32)
  BY <1>3, <1>8, XorWord
<1>. QED BY <1>7, <1>9, <1>10 DEF Word

LEMMA Crc32Run ==
  ASSUME NEW n \in Nat, NEW buf \in Bytes(n)
  PROVE  \E f : /\ f \in [0 .. n -> Word(32)] /\ f[0] = Ones
                /\ \A i \in 1 .. n : f[i] = Updated(f[i - 1], buf[i])
                /\ crc32(buf) = Xor(Ones, f[n])
<1> DEFINE W == Word(32)
           turn == [i \in 1 .. n |-> [r \in W |-> Updated(r, buf[i])]]
           L(t) == t = [i \in 0 .. n |-> IF i = 0 THEN Ones ELSE Updated(t[i - 1], buf[i])]
           t == CHOOSE u : L(u)
<1>1. Ones \in W
  BY PolynomialType
<1>2. \A r \in W : \A i \in 1 .. n : Updated(r, buf[i]) \in W
  <2> SUFFICES ASSUME NEW r \in W, NEW i \in 1 .. n PROVE Updated(r, buf[i]) \in W
    OBVIOUS
  <2>1. LowByte(Xor(r, buf[i])) \in Byte
    BY DEF LowByte, Byte
  <2>2. CRC32[LowByte(Xor(r, buf[i]))] \in W
    <3> HIDE DEF W
    <3>1. PICK u : u \in [0 .. 8 -> W] /\ CRC32[LowByte(Xor(r, buf[i]))] = u[8]
      BY <2>1, TableEntry DEF W
    <3>. QED BY <3>1
  <2>3. ShiftRight(r, 8) \in W
    BY PolynomialType, ShiftWord
  <2>. QED BY <2>2, <2>3, PolynomialType, XorWord DEF Updated
<1> HIDE DEF W
<1>3. turn \in [1 .. n -> [W -> W]]
  BY <1>2
<1>4. PICK f : Runs(f, n, W, Ones, turn)
  <2> HIDE DEF turn
  <2>. QED BY <1>1, <1>3, LoopRuns
<1>5. f \in [0 .. n -> W] /\ f[0] = Ones /\ \A i \in 1 .. n : f[i] = Updated(f[i - 1], buf[i])
  <2>1. f \in [0 .. n -> W] /\ f[0] = Ones /\ \A i \in 1 .. n : f[i] = turn[i][f[i - 1]]
    BY <1>4 DEF Runs
  <2>2. \A i \in 1 .. n : i - 1 \in 0 .. n
    OBVIOUS
  <2>. QED BY <2>1, <2>2
<1>6. L(f)
  BY <1>5
<1>7. L(t)
  <2> HIDE DEF L
  <2>. QED BY <1>6
<1>8. crc32(buf) = Xor(Ones, t[n])
  <2>1. Len(buf) = n
    BY BytesAreSeq
  <2>. QED BY <2>1 DEF crc32, t
<1> HIDE DEF t
<1>9. \A i \in 0 .. n : t[i] = f[i]
  <2> DEFINE T == {i \in 0 .. n : t[i] = f[i]}
  <2>1. 0 \in T
    BY <1>5, <1>7
  <2>2. ASSUME NEW i \in 0 .. n - 1, i \in T PROVE i + 1 \in T
    <3>1. i + 1 \in 0 .. n /\ i + 1 \in 1 .. n /\ i + 1 # 0 /\ (i + 1) - 1 = i
      OBVIOUS
    <3>2. t[i + 1] = Updated(t[i], buf[i + 1]) /\ f[i + 1] = Updated(f[i], buf[i + 1])
      BY <1>5, <1>7, <3>1
    <3>. QED BY <2>2, <3>1, <3>2
  <2>3. \A i \in 0 .. n : i \in T
    <3> HIDE DEF T
    <3>. QED BY <2>1, <2>2, UpTo
  <2>. QED BY <2>3
<1>10. crc32(buf) = Xor(Ones, f[n])
  BY <1>8, <1>9
<1>. QED BY <1>5, <1>10 DEF W

(* r is a division of n bits, those in bits being 1. *)
Division(r, n, bits) ==
  /\ r \in [0 .. n -> Word(32)] /\ r[0] = Ones
  /\ \A i \in 1 .. n : r[i] = Divided(r[i - 1], i \in bits)

LEMMA RemainderRun ==
  ASSUME NEW n \in Nat, NEW buf \in Bytes(n)
  PROVE  \E r : Division(r, 8 * n, OneBits(buf)) /\ Remainder(buf) = Xor(Ones, r[8 * n])
<1> DEFINE W == Word(32)
           N == 8 * n
           bits == OneBits(buf)
           turn == [i \in 1 .. N |-> [r \in W |-> Divided(r, i \in bits)]]
           L(t) == t = [i \in 0 .. N |-> IF i = 0 THEN Ones ELSE Divided(t[i - 1], i \in bits)]
           t == CHOOSE u : L(u)
<1>1. Ones \in W /\ N \in Nat
  BY PolynomialType
<1>2. \A r \in W : \A i \in 1 .. N : Divided(r, i \in bits) \in W
  BY DividedBit
<1>3. Remainder(buf) = Xor(Ones, t[N])
  <2>1. Len(buf) = n
    BY BytesAreSeq
  <2>. QED BY <2>1 DEF Remainder, t
<1> HIDE DEF W, bits, N
<1>4. turn \in [1 .. N -> [W -> W]]
  BY <1>2
<1>5. PICK f : Runs(f, N, W, Ones, turn)
  <2> HIDE DEF turn
  <2>. QED BY <1>1, <1>4, LoopRuns
<1>6. f \in [0 .. N -> W] /\ f[0] = Ones /\ \A i \in 1 .. N : f[i] = Divided(f[i - 1], i \in bits)
  <2>1. f \in [0 .. N -> W] /\ f[0] = Ones /\ \A i \in 1 .. N : f[i] = turn[i][f[i - 1]]
    BY <1>5 DEF Runs
  <2>2. \A i \in 1 .. N : i - 1 \in 0 .. N
    BY <1>1
  <2>. QED BY <2>1, <2>2
<1>7. L(f)
  BY <1>6
<1>8. L(t)
  <2> HIDE DEF L
  <2>. QED BY <1>7
<1> HIDE DEF t
<1>9. \A i \in 0 .. N : t[i] = f[i]
  <2> DEFINE T == {i \in 0 .. N : t[i] = f[i]}
  <2>1. 0 \in T
    BY <1>1, <1>6, <1>8
  <2>2. ASSUME NEW i \in 0 .. N - 1, i \in T PROVE i + 1 \in T
    <3>1. i + 1 \in 0 .. N /\ i + 1 \in 1 .. N /\ i + 1 # 0 /\ (i + 1) - 1 = i
      BY <1>1
    <3>2. t[i + 1] = Divided(t[i], i + 1 \in bits) /\ f[i + 1] = Divided(f[i], i + 1 \in bits)
      BY <1>6, <1>8, <3>1
    <3>. QED BY <2>2, <3>1, <3>2
  <2>3. \A i \in 0 .. N : i \in T
    <3> HIDE DEF T
    <3>. QED BY <1>1, <2>1, <2>2, UpTo
  <2>. QED BY <2>3
<1>10. Remainder(buf) = Xor(Ones, f[N])
  BY <1>1, <1>3, <1>9
<1>11. Division(f, N, bits)
  BY <1>6 DEF Division, W
<1>. QED BY <1>10, <1>11 DEF N, bits

(* What crc32 computes with its table, a byte at a time (iris.c:25-54), is *)
(* the checksum as it is defined, for every buffer.                        *)
THEOREM Crc32IsRemainder ==
  ASSUME NEW n \in Nat, NEW buf \in Bytes(n)
  PROVE  crc32(buf) = Remainder(buf)
<1>1. PICK f : /\ f \in [0 .. n -> Word(32)] /\ f[0] = Ones
               /\ \A i \in 1 .. n : f[i] = Updated(f[i - 1], buf[i])
               /\ crc32(buf) = Xor(Ones, f[n])
  BY Crc32Run
<1>2. PICK r : Division(r, 8 * n, OneBits(buf)) /\ Remainder(buf) = Xor(Ones, r[8 * n])
  BY RemainderRun
<1>3. /\ r \in [0 .. 8 * n -> Word(32)] /\ r[0] = Ones
      /\ \A i \in 1 .. 8 * n : r[i] = Divided(r[i - 1], i \in OneBits(buf))
  BY <1>2 DEF Division
<1> DEFINE T == {i \in 0 .. n : r[8 * i] = f[i]}
<1>4. 0 \in T
  BY <1>1, <1>3
<1>5. ASSUME NEW i \in 0 .. n - 1, i \in T PROVE i + 1 \in T
  <2> DEFINE d == [j \in 0 .. 8 |-> r[8 * i + j]]
  <2>1. /\ i + 1 \in 1 .. n /\ (i + 1) - 1 = i /\ i \in 0 .. n
        /\ 8 * i + 0 = 8 * i /\ 8 * i + 8 = 8 * (i + 1)
    OBVIOUS
  <2>2. \A j \in 0 .. 8 : 8 * i + j \in 0 .. 8 * n
    OBVIOUS
  <2>3. d \in [0 .. 8 -> Word(32)] /\ d[0] = f[i] /\ d[8] = r[8 * (i + 1)]
    BY <1>3, <1>5, <2>1, <2>2
  <2>4. buf[i + 1] \in Byte /\ f[i] \in Word(32)
    BY <1>1, <2>1 DEF Bytes
  <2>5. ASSUME NEW j \in 1 .. 8
        PROVE  d[j] = Divided(d[j - 1], j - 1 \in buf[i + 1])
    <3> DEFINE k == 8 * i + j
    <3>1. j \in 0 .. 8 /\ j - 1 \in 0 .. 8 /\ k \in 1 .. 8 * n /\ k - 1 = 8 * i + (j - 1)
      BY <2>1
    <3>2. d[j] = r[k] /\ d[j - 1] = r[k - 1]
      BY <3>1
    <3>3. (k - 1) % 8 = j - 1 /\ (k - 1) \div 8 = i
      BY <3>1
    <3>4. Len(buf) = n
      BY BytesAreSeq
    <3> HIDE DEF k, d
    <3>5. k \in OneBits(buf) <=> j - 1 \in buf[i + 1]
      BY <3>1, <3>3, <3>4 DEF OneBits
    <3>6. r[k] = Divided(r[k - 1], k \in OneBits(buf))
      BY <1>3, <3>1
    <3>. QED BY <3>2, <3>5, <3>6 DEF Divided
  <2> HIDE DEF d
  <2>6. d[8] = Updated(f[i], buf[i + 1])
    BY <2>3, <2>4, <2>5, ByteDivided
  <2>7. f[i + 1] = Updated(f[i], buf[i + 1])
    BY <1>1, <2>1
  <2>8. r[8 * (i + 1)] = f[i + 1] /\ i + 1 \in 0 .. n
    BY <2>3, <2>6, <2>7
  <2>. QED BY <2>8, Zenon
<1>6. \A i \in 0 .. n : i \in T
  <2> HIDE DEF T
  <2>. QED BY <1>4, <1>5, UpTo
<1>7. r[8 * n] = f[n]
  BY <1>6
<1>. QED BY <1>1, <1>2, <1>7

-----------------------------------------------------------------------------
(***************************************************************************)
(* Which damage the checksum shows.  Two divisions that begin and end with *)
(* the same remainder, of messages that differ in 32 consecutive bits at   *)
(* most, are divisions of the same message: going back from the end of     *)
(* those bits the remainders differ in the lowest k bits at most, so that  *)
(* going forward from their beginning no difference in bit 31 can appear.  *)
(***************************************************************************)
LEMMA SameBefore ==
  ASSUME NEW x \in Word(32), NEW y \in Word(32), NEW n, NEW B, NEW C, n \in B <=> n \in C,
         Divided(x, n \in B) = Divided(y, n \in C)
  PROVE  x = y
<1> DEFINE a == Divided(x, n \in B)
           b == Divided(y, n \in C)
<1>1. /\ \A i \in Nat : i \in a <=> ~(i + 1 \in x <=> i \in Polynomial /\ ~(0 \in x <=> n \in B))
      /\ 31 \in a <=> ~(0 \in x <=> n \in B)
  BY DividedBit
<1>2. /\ \A i \in Nat : i \in b <=> ~(i + 1 \in y <=> i \in Polynomial /\ ~(0 \in y <=> n \in C))
      /\ 31 \in b <=> ~(0 \in y <=> n \in C)
  BY DividedBit
<1>3. a = b
  OBVIOUS
<1> HIDE DEF a, b
<1>4. 0 \in x <=> 0 \in y
  BY <1>1, <1>2, <1>3
<1>5. \A i \in Nat : i + 1 \in x <=> i + 1 \in y
  BY <1>1, <1>2, <1>3, <1>4
<1>6. ASSUME NEW i \in Nat PROVE i \in x <=> i \in y
  <2>1. CASE i = 0
    BY <1>4, <2>1
  <2>2. CASE i # 0
    <3>1. i - 1 \in Nat /\ (i - 1) + 1 = i
      BY <2>2
    <3>. QED BY <1>5, <3>1
  <2>. QED BY <2>1, <2>2
<1>7. x \in SUBSET Nat /\ y \in SUBSET Nat
  BY DEF Word
<1>. QED BY <1>6, <1>7

(* Words that differ in their lowest k bits at most. *)
AlmostSame(x, y, k) == Xor(x, y) \subseteq 0 .. k - 1

LEMMA AlmostSameBefore ==
  ASSUME NEW x \in Word(32), NEW y \in Word(32), NEW n, NEW B, NEW C, NEW k \in 0 .. 31,
         NEW a, NEW b, a = Divided(x, n \in B), b = Divided(y, n \in C),
         AlmostSame(a, b, k)
  PROVE  AlmostSame(x, y, k + 1)
<1>1. /\ \A i \in Nat : i \in a <=> ~(i + 1 \in x <=> i \in Polynomial /\ ~(0 \in x <=> n \in B))
      /\ 31 \in a <=> ~(0 \in x <=> n \in B)
  BY DividedBit
<1>2. /\ \A i \in Nat : i \in b <=> ~(i + 1 \in y <=> i \in Polynomial /\ ~(0 \in y <=> n \in C))
      /\ 31 \in b <=> ~(0 \in y <=> n \in C)
  BY DividedBit
<1>3. \A i : i \notin 0 .. k - 1 => (i \in a <=> i \in b)
  BY XorBit DEF AlmostSame
<1>4. ~(0 \in x <=> n \in B) <=> ~(0 \in y <=> n \in C)
  <2>1. 31 \notin 0 .. k - 1
    OBVIOUS
  <2>. QED BY <1>1, <1>2, <1>3, <2>1
<1>5. ASSUME NEW i \in Nat, i \notin 0 .. k - 1 PROVE i + 1 \in x <=> i + 1 \in y
  BY <1>1, <1>2, <1>3, <1>4, <1>5
<1>6. ASSUME NEW i \in Xor(x, y) PROVE i \in 0 .. k
  <2>1. i \in Nat /\ ~(i \in x <=> i \in y)
    BY <1>6, XorBit DEF Xor, Word
  <2>2. CASE i = 0
    BY <2>2
  <2>3. CASE i # 0
    <3>1. i - 1 \in Nat /\ (i - 1) + 1 = i
      BY <2>1, <2>3
    <3>2. i - 1 \in 0 .. k - 1
      BY <1>5, <2>1, <3>1
    <3>. QED BY <2>1, <3>2
  <2>. QED BY <2>2, <2>3
<1>. QED BY <1>6 DEF AlmostSame

LEMMA SameAfter ==
  ASSUME NEW x \in Word(32), NEW n, NEW B, NEW C,
         AlmostSame(Divided(x, n \in B), Divided(x, n \in C), 31)
  PROVE  (n \in B <=> n \in C) /\ Divided(x, n \in B) = Divided(x, n \in C)
<1>1. (31 \in Divided(x, n \in B) <=> ~(0 \in x <=> n \in B)) /\ (31 \in Divided(x, n \in C) <=> ~(0 \in x <=> n \in C))
  BY DividedBit
<1>2. 31 \in Divided(x, n \in B) <=> 31 \in Divided(x, n \in C)
  <2>1. 31 \notin Xor(Divided(x, n \in B), Divided(x, n \in C))
    BY DEF AlmostSame
  <2>. QED BY <2>1, XorBit
<1>3. n \in B <=> n \in C
  BY <1>1, <1>2
<1>. QED BY <1>3 DEF Divided

LEMMA SameDivision ==
  ASSUME NEW N \in Nat, NEW B, NEW C, NEW r, NEW q, Division(r, N, B), Division(q, N, C),
         NEW s \in 0 .. N,
         \A i \in 1 .. N : i \notin s + 1 .. s + 32 => (i \in B <=> i \in C),
         r[N] = q[N]
  PROVE  \A i \in 1 .. N : i \in B <=> i \in C
<1>1. /\ \A i \in 0 .. N : r[i] \in Word(32) /\ q[i] \in Word(32)
      /\ r[0] = q[0]
      /\ \A i \in 1 .. N : r[i] = Divided(r[i - 1], i \in B) /\ q[i] = Divided(q[i - 1], i \in C)
  BY DEF Division
<1>2. PICK e \in s .. N : e <= s + 32 /\ \A i \in e + 1 .. N : i \in B <=> i \in C
  <2>1. CASE s + 32 <= N
    <3>1. s + 32 \in s .. N /\ \A i \in (s + 32) + 1 .. N : i \in 1 .. N /\ i \notin s + 1 .. s + 32
      BY <2>1
    <3>. QED BY <3>1
  <2>2. CASE s + 32 > N
    <3>1. N \in s .. N /\ N + 1 .. N = {}
      OBVIOUS
    <3>. QED BY <2>2, <3>1
  <2>. QED BY <2>1, <2>2
<1>3. r[s] = q[s]
  <2> DEFINE T == {i \in 0 .. s : r[i] = q[i]}
  <2>1. 0 \in T
    BY <1>1
  <2>2. ASSUME NEW i \in 0 .. s - 1, i \in T PROVE i + 1 \in T
    <3>1. i + 1 \in 0 .. s /\ i + 1 \in 1 .. N /\ (i + 1) - 1 = i /\ i + 1 \notin s + 1 .. s + 32
      OBVIOUS
    <3>2. r[i + 1] = Divided(r[i], i + 1 \in B) /\ q[i + 1] = Divided(q[i], i + 1 \in C)
      BY <1>1, <3>1
    <3>3. i + 1 \in B <=> i + 1 \in C
      BY <3>1
    <3>4. r[i + 1] = q[i + 1]
      BY <2>2, <3>2, <3>3 DEF Divided
    <3>. QED BY <3>1, <3>4
  <2>3. \A i \in 0 .. s : i \in T
    <3> HIDE DEF T
    <3>. QED BY <2>1, <2>2, UpTo
  <2>. QED BY <2>3
<1>4. r[e] = q[e]
  <2> DEFINE T == {k \in 0 .. N - e : r[N - k] = q[N - k]}
  <2>1. 0 \in T
    OBVIOUS
  <2>2. ASSUME NEW k \in 0 .. N - e - 1, k \in T PROVE k + 1 \in T
    <3> DEFINE i == N - k
    <3>1. /\ k + 1 \in 0 .. N - e /\ i \in e + 1 .. N /\ i \in 1 .. N /\ i - 1 \in 0 .. N
          /\ N - (k + 1) = i - 1
      OBVIOUS
    <3>2. r[i] = q[i]
      BY <2>2
    <3> HIDE DEF i
    <3>3. i \in B <=> i \in C
      BY <1>2, <3>1
    <3>4. Divided(r[i - 1], i \in B) = Divided(q[i - 1], i \in C)
      BY <1>1, <3>1, <3>2
    <3>5. r[i - 1] \in Word(32) /\ q[i - 1] \in Word(32)
      BY <1>1, <3>1
    <3>6. r[i - 1] = q[i - 1]
      BY <3>3, <3>4, <3>5, SameBefore
    <3>. QED BY <3>1, <3>6
  <2>3. \A k \in 0 .. N - e : k \in T
    <3> HIDE DEF T
    <3>1. N - e \in Nat /\ \A k \in 0 .. (N - e) - 1 : k \in T => k + 1 \in T
      BY <2>2
    <3>. QED BY <2>1, <3>1, UpTo
  <2>4. N - e \in 0 .. N - e /\ N - (N - e) = e
    OBVIOUS
  <2>5. r[N - (N - e)] = q[N - (N - e)]
    BY <2>3, <2>4
  <2>. QED BY <2>4, <2>5
<1>5. \A k \in 0 .. e - s : AlmostSame(r[e - k], q[e - k], k)
  <2> DEFINE T == {k \in 0 .. e - s : AlmostSame(r[e - k], q[e - k], k)}
  <2>1. 0 \in T
    <3>1. Xor(r[e], q[e]) = {} /\ e - 0 = e /\ 0 \in 0 .. e - s
      BY <1>4 DEF Xor
    <3>. QED BY <3>1 DEF AlmostSame
  <2>2. ASSUME NEW k \in 0 .. e - s - 1, k \in T PROVE k + 1 \in T
    <3> DEFINE i == e - k
    <3>1. /\ k + 1 \in 0 .. e - s /\ i \in 1 .. N /\ i - 1 \in 0 .. N /\ k \in 0 .. 31
          /\ e - (k + 1) = i - 1
      BY <1>2
    <3>2. AlmostSame(r[i], q[i], k)
      BY <2>2
    <3> HIDE DEF i
    <3>3. r[i] = Divided(r[i - 1], i \in B) /\ q[i] = Divided(q[i - 1], i \in C)
      BY <1>1, <3>1
    <3>4. r[i - 1] \in Word(32) /\ q[i - 1] \in Word(32)
      BY <1>1, <3>1
    <3>5. AlmostSame(r[i - 1], q[i - 1], k + 1)
      BY <3>1, <3>2, <3>3, <3>4, AlmostSameBefore
    <3>. QED BY <3>1, <3>5
  <2>3. \A k \in 0 .. e - s : k \in T
    <3> HIDE DEF T
    <3>1. e - s \in Nat /\ \A k \in 0 .. (e - s) - 1 : k \in T => k + 1 \in T
      BY <2>2
    <3>. QED BY <2>1, <3>1, UpTo
  <2>. QED BY <2>3
<1>6. \A j \in 0 .. e - s : r[s + j] = q[s + j] /\ (j # 0 => (s + j \in B <=> s + j \in C))
  <2> DEFINE T == {j \in 0 .. e - s : r[s + j] = q[s + j] /\ (j # 0 => (s + j \in B <=> s + j \in C))}
  <2>1. 0 \in T
    BY <1>3
  <2>2. ASSUME NEW j \in 0 .. e - s - 1, j \in T PROVE j + 1 \in T
    <3> DEFINE i == s + (j + 1)
               k == e - i
    <3>1. /\ j + 1 \in 0 .. e - s /\ i \in 1 .. N /\ i - 1 \in 0 .. N /\ i - 1 = s + j
          /\ k \in 0 .. e - s /\ e - k = i /\ 0 .. k - 1 \subseteq 0 .. 30
      BY <1>2
    <3>2. r[i - 1] = q[i - 1]
      BY <2>2, <3>1
    <3> HIDE DEF i, k
    <3>3. AlmostSame(r[i], q[i], 31)
      <4>1. AlmostSame(r[i], q[i], k)
        BY <1>5, <3>1
      <4>. QED BY <3>1, <4>1 DEF AlmostSame
    <3>4. AlmostSame(Divided(r[i - 1], i \in B), Divided(r[i - 1], i \in C), 31)
      BY <1>1, <3>1, <3>2, <3>3
    <3>5. r[i - 1] \in Word(32)
      BY <1>1, <3>1
    <3>6. (i \in B <=> i \in C) /\ Divided(r[i - 1], i \in B) = Divided(r[i - 1], i \in C)
      BY <3>4, <3>5, SameAfter
    <3>7. r[i] = q[i]
      BY <1>1, <3>1, <3>2, <3>6
    <3>. QED BY <3>1, <3>6, <3>7 DEF i
  <2>3. \A j \in 0 .. e - s : j \in T
    <3> HIDE DEF T
    <3>1. e - s \in Nat /\ \A j \in 0 .. (e - s) - 1 : j \in T => j + 1 \in T
      BY <2>2
    <3>. QED BY <2>1, <3>1, UpTo
  <2>. QED BY <2>3
<1>7. ASSUME NEW i \in 1 .. N PROVE i \in B <=> i \in C
  <2>1. CASE i <= s
    BY <2>1
  <2>2. CASE i > e
    <3>1. i \in e + 1 .. N
      BY <2>2
    <3>. QED BY <1>2, <3>1
  <2>3. CASE i > s /\ i <= e
    <3>1. i - s \in 0 .. e - s /\ i - s # 0 /\ s + (i - s) = i
      BY <2>3
    <3>2. s + (i - s) \in B <=> s + (i - s) \in C
      BY <1>6, <3>1
    <3>. QED BY <3>1, <3>2
  <2>. QED BY <2>1, <2>2, <2>3
<1>. QED BY <1>7

-----------------------------------------------------------------------------
(***************************************************************************)
(* The checksum on the wire.                                               *)
(***************************************************************************)
LEMMA ClearedType ==
  ASSUME NEW n \in Nat, NEW m \in Bytes(n)
  PROVE  /\ Cleared(m) \in Bytes(n)
         /\ \A k \in 1 .. n : Cleared(m)[k] = IF k <= 4 THEN {} ELSE m[k]
<1>1. Len(m) = n
  BY BytesAreSeq
<1>. QED BY <1>1 DEF Cleared, Bytes, Byte

LEMMA ClearedOnWire ==
  ASSUME NEW p \in Pdu
  PROVE  Cleared(OnWire(p)) = OnWire(Blank(p))
<1> DEFINE t == Store(p.ts, TsBytes, "big")
           v == Store(p.version, 2, "big")
           r == Store(p.rc, 2, "big")
           b == p.body
           c == Store(p.crc32, 4, "big")
           zero == Store({}, 4, "big")
           rest == Join(Join(Join(t, v), r), b)
<1>1. /\ t \in Bytes(TsBytes) /\ v \in Bytes(2) /\ r \in Bytes(2) /\ b \in Bytes(BodyLen)
      /\ c \in Bytes(4) /\ zero \in Bytes(4)
  BY PduMembers, Zeroed, Widths, StoreBytes
<1>2. \A k \in 1 .. 4 : zero[k] = {}
  <2>1. {} \in SUBSET Nat
    OBVIOUS
  <2>. QED BY <2>1, StoredByte, Widths
<1>3. OnWire(p) = Packed(c, t, v, r, b) /\ OnWire(Blank(p)) = Packed(zero, t, v, r, b)
  BY DEF OnWire, Blank, Pdu
<1> HIDE DEF t, v, r, b, c, zero
<1>4. /\ t \in Seq(Byte) /\ v \in Seq(Byte) /\ r \in Seq(Byte) /\ b \in Seq(Byte)
      /\ c \in Seq(Byte) /\ zero \in Seq(Byte)
  BY <1>1, Widths, BytesAreSeq
<1>5. OnWire(p) = Join(c, rest) /\ OnWire(Blank(p)) = Join(zero, rest) /\ rest \in Seq(Byte)
  <2>1. OnWire(p) = Join(c, rest) /\ OnWire(Blank(p)) = Join(zero, rest)
    BY <1>3, <1>4, Regrouped
  <2>2. Join(t, v) \in Seq(Byte)
    BY <1>4, JoinAssociative
  <2>3. Join(Join(t, v), r) \in Seq(Byte)
    BY <1>4, <2>2, JoinAssociative
  <2>4. rest \in Seq(Byte)
    BY <1>4, <2>3, JoinAssociative
  <2>. QED BY <2>1, <2>4
<1> HIDE DEF rest
<1>6. PICK k \in Nat : rest \in Bytes(k)
  BY <1>5, LenProperties DEF Bytes
<1>7. PICK n \in Nat : n = 4 + k
  OBVIOUS
<1>8. /\ Join(c, rest) \in Bytes(n) /\ Join(zero, rest) \in Bytes(n)
      /\ \A i \in 1 .. 4 : Join(zero, rest)[i] = {}
      /\ \A i \in 1 .. k : Join(c, rest)[4 + i] = rest[i] /\ Join(zero, rest)[4 + i] = rest[i]
  <2>1. /\ Join(c, rest) \in Bytes(4 + k) /\ Join(zero, rest) \in Bytes(4 + k)
        /\ \A i \in 1 .. 4 : Join(zero, rest)[i] = zero[i]
        /\ \A i \in 1 .. k : Join(c, rest)[4 + i] = rest[i] /\ Join(zero, rest)[4 + i] = rest[i]
    <3>1. ASSUME NEW x \in Bytes(4)
          PROVE  /\ x \o rest \in Bytes(4 + k)
                 /\ \A i \in 1 .. 4 : (x \o rest)[i] = x[i]
                 /\ \A i \in 1 .. k : (x \o rest)[4 + i] = rest[i]
      BY <1>6, Widths, Joined, ZenonT(30)
    <3>. QED BY <1>1, <3>1 DEF Join
  <2>. QED BY <1>2, <1>7, <2>1
<1>9. ASSUME NEW i \in 1 .. n PROVE Cleared(Join(c, rest))[i] = Join(zero, rest)[i]
  <2>1. Cleared(Join(c, rest))[i] = IF i <= 4 THEN {} ELSE Join(c, rest)[i]
    BY <1>8, ClearedType
  <2>2. CASE i <= 4
    BY <1>8, <2>1, <2>2
  <2>3. CASE i > 4
    <3>1. i - 4 \in 1 .. k /\ 4 + (i - 4) = i
      BY <1>7, <2>3
    <3>2. Join(c, rest)[4 + (i - 4)] = Join(zero, rest)[4 + (i - 4)]
      BY <1>8, <3>1
    <3>. QED BY <2>1, <2>3, <3>1, <3>2
  <2>. QED BY <2>2, <2>3
<1>10. Cleared(Join(c, rest)) \in Bytes(n)
  BY <1>8, ClearedType
<1>. QED BY <1>5, <1>8, <1>9, <1>10, SameBytes

LEMMA RemainderType ==
  ASSUME NEW n \in Nat, NEW buf \in Bytes(n) PROVE Remainder(buf) \in Word(32)
<1>1. PICK r : Division(r, 8 * n, OneBits(buf)) /\ Remainder(buf) = Xor(Ones, r[8 * n])
  BY RemainderRun
<1>2. r[8 * n] \in Word(32)
  BY <1>1 DEF Division
<1>. QED BY <1>1, <1>2, PolynomialType, XorWord

LEMMA ChecksumOnWire ==
  ASSUME NEW p \in Pdu
  PROVE  /\ Checksum(p) = Remainder(Cleared(OnWire(p)))
         /\ Load(SubSeq(OnWire(p), 1, 4), "big") = p.crc32
<1>1. PICK n \in Nat : n = PduLen
  BY Widths
<1>2. OnWire(p) \in Bytes(n) /\ SubSeq(OnWire(p), 1, 4) = Store(p.crc32, 4, "big")
  BY <1>1, OnWireParts
<1>3. Cleared(OnWire(p)) \in Bytes(n)
  BY <1>2, ClearedType
<1>4. crc32(OnWire(Blank(p))) = Remainder(Cleared(OnWire(p)))
  BY <1>3, ClearedOnWire, Crc32IsRemainder
<1>5. Remainder(Cleared(OnWire(p))) \subseteq Ones
  BY <1>3, RemainderType DEF Word, Ones
<1>6. Checksum(p) = Remainder(Cleared(OnWire(p)))
  BY <1>4, <1>5 DEF Checksum, uint32_t
<1>7. p.crc32 \in SUBSET (0 .. 8 * 4 - 1)
  BY DEF Pdu, Word
<1>. QED BY <1>2, <1>6, <1>7, LoadStore, Widths

(* Any bytes of the right number are those of some struct pdu.             *)
LEMMA SamePart ==
  ASSUME NEW n \in Nat, NEW m \in Bytes(n), NEW w \in Bytes(n),
         NEW f \in 1 .. n + 1, NEW l \in f - 1 .. n, SubSeq(m, f, l) = SubSeq(w, f, l)
  PROVE  \A i \in f .. l : m[i] = w[i]
<1> SUFFICES ASSUME NEW i \in f .. l PROVE m[i] = w[i]
  OBVIOUS
<1> DEFINE x == i - f + 1
<1>1. x \in 1 .. l - f + 1 /\ f + x - 1 = i
  OBVIOUS
<1> HIDE DEF x
<1>2. SubSeq(m, f, l)[x] = m[f + x - 1] /\ SubSeq(w, f, l)[x] = w[f + x - 1]
  BY <1>1, Part
<1>. QED BY <1>1, <1>2

LEMMA EveryWire ==
  ASSUME NEW m \in Bytes(PduLen)
  PROVE  \E p \in Pdu : OnWire(p) = m
<1>1. PICK T \in Nat, B \in Nat, n \in Nat :
        T = TsBytes /\ B = BodyLen /\ n = PduLen /\ n = 8 + T + B
  BY Widths
<1>2. m \in Bytes(n) /\ Len(m) = n
  BY <1>1, BytesAreSeq
<1> DEFINE c == SubSeq(m, 1, 4)
           t == SubSeq(m, 5, 4 + T)
           v == SubSeq(m, 5 + T, 6 + T)
           r == SubSeq(m, 7 + T, 8 + T)
           b == SubSeq(m, 9 + T, n)
           p == [crc32 |-> Load(c, "big"), ts |-> Load(t, "big"), version |-> Load(v, "big"),
                 rc |-> Load(r, "big"), body |-> b]
<1>3. c \in Bytes(4) /\ t \in Bytes(T) /\ v \in Bytes(2) /\ r \in Bytes(2) /\ b \in Bytes(B)
  <2>1. ASSUME NEW f \in 1 .. n + 1, NEW l \in f - 1 .. n, NEW k \in Nat, k = l - f + 1
        PROVE  SubSeq(m, f, l) \in Bytes(k)
    BY <1>2, <2>1, Part
  <2>2. c \in Bytes(4)
    BY <1>1, <2>1
  <2>3. t \in Bytes(T)
    BY <1>1, <2>1
  <2>4. v \in Bytes(2)
    BY <1>1, <2>1
  <2>5. r \in Bytes(2)
    BY <1>1, <2>1
  <2>6. b \in Bytes(B)
    BY <1>1, <2>1
  <2>. QED BY <2>2, <2>3, <2>4, <2>5, <2>6
<1> HIDE DEF c, t, v, r, b
<1>4. p \in Pdu
  <2>1. /\ Load(c, "big") \in Word(8 * 4) /\ Load(t, "big") \in Word(8 * TsBytes)
        /\ Load(v, "big") \in Word(8 * 2) /\ Load(r, "big") \in Word(8 * 2)
    BY <1>1, <1>3, Widths, LoadWord
  <2>. QED BY <1>1, <1>3, <2>1, Widths DEF Pdu
<1>5. /\ Store(p.crc32, 4, "big") = c /\ Store(p.ts, T, "big") = t
      /\ Store(p.version, 2, "big") = v /\ Store(p.rc, 2, "big") = r
  BY <1>3, Widths, StoreLoad DEF Bytes
<1> DEFINE w == OnWire(p)
<1>6. w = Packed(c, t, v, r, b)
  BY <1>1, <1>5 DEF OnWire
<1> HIDE DEF p, w
<1>7. Parts(w, T, B, c, t, v, r, b)
  BY <1>3, <1>6, PackedParts
<1>8. w \in Bytes(n) /\ Len(w) = n
  BY <1>1, <1>7 DEF Parts
<1>9. ASSUME NEW i \in 1 .. n PROVE w[i] = m[i]
  <2>1. \A f \in 1 .. n + 1 : \A l \in f - 1 .. n :
          SubSeq(w, f, l) = SubSeq(m, f, l) => \A j \in f .. l : w[j] = m[j]
    BY <1>2, <1>8, SamePart
  <2>2. SubSeq(w, 1, 4) = SubSeq(m, 1, 4) /\ SubSeq(w, 5, 4 + T) = SubSeq(m, 5, 4 + T)
    BY <1>7 DEF Parts, c, t
  <2>3. SubSeq(w, 5 + T, 6 + T) = SubSeq(m, 5 + T, 6 + T)
    BY <1>7 DEF Parts, v
  <2>4. SubSeq(w, 7 + T, 8 + T) = SubSeq(m, 7 + T, 8 + T)
    BY <1>7 DEF Parts, r
  <2>5. SubSeq(w, 9 + T, n) = SubSeq(m, 9 + T, n)
    BY <1>7, <1>8 DEF Parts, b
  <2>6. CASE i \in 1 .. 4
    BY <1>1, <2>1, <2>2, <2>6
  <2>7. CASE i \in 5 .. 4 + T
    BY <1>1, <2>1, <2>2, <2>7
  <2>8. CASE i \in 5 + T .. 6 + T
    BY <1>1, <2>1, <2>3, <2>8
  <2>9. CASE i \in 7 + T .. 8 + T
    BY <1>1, <2>1, <2>4, <2>9
  <2>10. CASE i \in 9 + T .. n
    BY <1>1, <2>1, <2>5, <2>10
  <2>. QED BY <1>1, <2>6, <2>7, <2>8, <2>9, <2>10
<1>10. w = m
  BY <1>2, <1>8, <1>9, SameBytes
<1>. QED BY <1>4, <1>10 DEF w

LEMMA Refused ==
  ASSUME NEW m \in Bytes(PduLen), NEW order \in Orders, NEW now,
         Load(SubSeq(m, 1, 4), "big") # Remainder(Cleared(m))
  PROVE  pdu_unpack(m, now, order).verdict = "mismatch"
<1>1. PICK p \in Pdu : OnWire(p) = m
  BY EveryWire
<1>2. Checksum(p) # p.crc32
  BY <1>1, ChecksumOnWire
<1>. QED BY <1>1, <1>2, UnpackOnWire

LEMMA FlippedBits ==
  ASSUME NEW n \in Nat, NEW m \in Bytes(n), NEW flip, NEW x \in 1 .. 8 * n
  PROVE  x \in OneBits(Flip(m, flip)) <=> ~(x \in OneBits(m) <=> x - 1 \in flip)
<1> DEFINE k == (x - 1) \div 8 + 1
           b == (x - 1) % 8
           w == Flip(m, flip)
<1>1. x - 1 \in Nat /\ x - 1 < 8 * n
  OBVIOUS
<1>2. b \in 0 .. 7 /\ k \in 1 .. n /\ 8 * (k - 1) + b = x - 1
  BY <1>1
<1>3. Len(m) = n /\ Len(w) = n
  BY FlipType, BytesAreSeq
<1>4. w[k] = Xor(m[k], {c \in 0 .. 7 : 8 * (k - 1) + c \in flip})
  BY <1>2, <1>3 DEF Flip
<1>5. (x \in OneBits(w) <=> b \in w[k]) /\ (x \in OneBits(m) <=> b \in m[k])
  BY <1>3 DEF OneBits
<1> HIDE DEF b, k, w
<1>6. b \in w[k] <=> ~(b \in m[k] <=> b \in {c \in 0 .. 7 : 8 * (k - 1) + c \in flip})
  BY <1>4, XorBit
<1>7. b \in {c \in 0 .. 7 : 8 * (k - 1) + c \in flip} <=> x - 1 \in flip
  BY <1>2
<1>. QED BY <1>5, <1>6, <1>7 DEF w

(* A checksum of 32 bits shows every burst of 32 bits or less. *)
LEMMA BurstShows ==
  ASSUME NEW n \in Nat, NEW buf \in Bytes(n), NEW s \in Nat,
         NEW flip \in SUBSET (0 .. 8 * n - 1), flip # {}, flip \subseteq s .. s + 31
  PROVE  Remainder(Flip(buf, flip)) # Remainder(buf)
<1> DEFINE w == Flip(buf, flip)
           N == 8 * n
           B == OneBits(w)
           C == OneBits(buf)
<1>1. w \in Bytes(n) /\ N \in Nat
  BY FlipType
<1>2. \A i \in 1 .. N : i \in B <=> ~(i \in C <=> i - 1 \in flip)
  BY FlippedBits
<1> SUFFICES ASSUME Remainder(w) = Remainder(buf) PROVE FALSE
  OBVIOUS
<1> HIDE DEF w, N
<1>3. PICK r : Division(r, N, B) /\ Remainder(w) = Xor(Ones, r[N])
  BY <1>1, RemainderRun DEF N
<1>4. PICK q : Division(q, N, C) /\ Remainder(buf) = Xor(Ones, q[N])
  BY RemainderRun DEF N
<1>5. r[N] = q[N]
  <2>1. Xor(Ones, r[N]) = Xor(Ones, q[N])
    BY <1>3, <1>4
  <2>2. ASSUME NEW i PROVE i \in r[N] <=> i \in q[N]
    <3>1. i \in Xor(Ones, r[N]) <=> ~(i \in Ones <=> i \in r[N])
      BY XorBit
    <3>2. i \in Xor(Ones, q[N]) <=> ~(i \in Ones <=> i \in q[N])
      BY XorBit
    <3>. QED BY <2>1, <3>1, <3>2
  <2>3. r[N] \in Word(32) /\ q[N] \in Word(32)
    BY <1>1, <1>3, <1>4 DEF Division
  <2>. QED BY <2>2, <2>3 DEF Word
<1>6. PICK x \in flip : x \in 0 .. N - 1
  BY DEF N
<1>7. s \in 0 .. N /\ x + 1 \in 1 .. N /\ (x + 1) - 1 = x
  BY <1>6, <1>1
<1>8. \A i \in 1 .. N : i \notin s + 1 .. s + 32 => (i \in B <=> i \in C)
  <2> SUFFICES ASSUME NEW i \in 1 .. N, i \notin s + 1 .. s + 32 PROVE i \in B <=> i \in C
    OBVIOUS
  <2>1. i - 1 \notin s .. s + 31
    BY <1>1
  <2>. QED BY <1>2, <2>1
<1> HIDE DEF B, C
<1>9. \A i \in 1 .. N : i \in B <=> i \in C
  BY <1>1, <1>3, <1>4, <1>5, <1>7, <1>8, SameDivision
<1>. QED BY <1>2, <1>6, <1>7, <1>9

(* Flipped bits that lie all in the checksum leave the rest alone, and     *)
(* those that lie all behind it leave the checksum alone.                  *)
LEMMA FlippedSum ==
  ASSUME NEW n \in Nat, n >= 4, NEW m \in Bytes(n),
         NEW flip, flip \subseteq 0 .. 31, flip # {}
  PROVE  /\ Cleared(Flip(m, flip)) = Cleared(m)
         /\ SubSeq(Flip(m, flip), 1, 4) # SubSeq(m, 1, 4)
<1> DEFINE w == Flip(m, flip)
<1>1. w \in Bytes(n) /\ Len(m) = n
  BY FlipType, BytesAreSeq
<1>2. \A k \in 1 .. n : w[k] = Xor(m[k], {b \in 0 .. 7 : 8 * (k - 1) + b \in flip})
  BY <1>1 DEF Flip
<1> HIDE DEF w
<1>3. ASSUME NEW k \in 1 .. n, k > 4 PROVE w[k] = m[k]
  <2>1. {b \in 0 .. 7 : 8 * (k - 1) + b \in flip} = {}
    BY <1>3
  <2>. QED BY <1>2, <2>1 DEF Xor
<1>4. ASSUME NEW k \in 1 .. n PROVE Cleared(w)[k] = Cleared(m)[k]
  <2>1. /\ Cleared(w)[k] = IF k <= 4 THEN {} ELSE w[k]
        /\ Cleared(m)[k] = IF k <= 4 THEN {} ELSE m[k]
    BY <1>1, ClearedType
  <2>. QED BY <1>3, <2>1
<1>5. Cleared(w) = Cleared(m)
  BY <1>1, <1>4, ClearedType, SameBytes
<1>6. PICK x \in flip : x \in 0 .. 31
  OBVIOUS
<1> DEFINE k == x \div 8 + 1
           b == x % 8
<1>7. k \in 1 .. 4 /\ b \in 0 .. 7 /\ 8 * (k - 1) + b = x
  BY <1>6
<1> HIDE DEF k, b
<1>8. w[k] # m[k]
  <2> DEFINE F == {c \in 0 .. 7 : 8 * (k - 1) + c \in flip}
  <2>1. k \in 1 .. n /\ b \in F
    BY <1>6, <1>7
  <2>2. w[k] = Xor(m[k], F)
    BY <1>2, <2>1
  <2> HIDE DEF F
  <2>3. b \in w[k] <=> ~(b \in m[k] <=> b \in F)
    BY <2>2, XorBit
  <2>. QED BY <2>1, <2>3
<1>9. SubSeq(w, 1, 4) # SubSeq(m, 1, 4)
  <2> SUFFICES ASSUME SubSeq(w, 1, 4) = SubSeq(m, 1, 4) PROVE FALSE
    OBVIOUS
  <2>1. 1 \in 1 .. n + 1 /\ 4 \in 1 - 1 .. n
    OBVIOUS
  <2>2. \A i \in 1 .. 4 : w[i] = m[i]
    BY <1>1, <2>1, SamePart
  <2>. QED BY <1>7, <1>8, <2>2
<1>. QED BY <1>5, <1>9 DEF w

LEMMA FlippedRest ==
  ASSUME NEW n \in Nat, n >= 4, NEW m \in Bytes(n),
         NEW flip, \A x \in flip : x \in Nat /\ x >= 32
  PROVE  /\ Cleared(Flip(m, flip)) = Flip(Cleared(m), flip)
         /\ SubSeq(Flip(m, flip), 1, 4) = SubSeq(m, 1, 4)
<1> DEFINE w == Flip(m, flip)
           c == Cleared(m)
           F(k) == {b \in 0 .. 7 : 8 * (k - 1) + b \in flip}
<1>1. w \in Bytes(n) /\ c \in Bytes(n) /\ Len(m) = n /\ Len(c) = n
  BY ClearedType, FlipType, BytesAreSeq
<1>2. \A k \in 1 .. n : w[k] = Xor(m[k], F(k)) /\ Flip(c, flip)[k] = Xor(c[k], F(k))
  BY <1>1 DEF Flip
<1> HIDE DEF w, c
<1>3. \A k \in 1 .. 4 : F(k) = {}
  OBVIOUS
<1> HIDE DEF F
<1>4. \A k \in 1 .. n : k <= 4 => k \in 1 .. 4
  OBVIOUS
<1>5. ASSUME NEW k \in 1 .. n PROVE Cleared(w)[k] = Flip(c, flip)[k]
  <2>1. /\ Cleared(w)[k] = IF k <= 4 THEN {} ELSE w[k]
        /\ c[k] = IF k <= 4 THEN {} ELSE m[k]
    BY <1>1, ClearedType DEF c
  <2>2. CASE k <= 4
    <3>1. Xor({}, {}) = {}
      BY DEF Xor
    <3>. QED BY <1>2, <1>3, <1>4, <2>1, <2>2, <3>1
  <2>3. CASE ~(k <= 4)
    BY <1>2, <2>1, <2>3
  <2>. QED BY <2>2, <2>3
<1>6. Cleared(w) \in Bytes(n) /\ Flip(c, flip) \in Bytes(n)
  BY <1>1, ClearedType, FlipType
<1>7. Cleared(w) = Flip(c, flip)
  BY <1>5, <1>6, SameBytes
<1>8. SubSeq(w, 1, 4) = SubSeq(m, 1, 4)
  <2>1. 1 \in 1 .. n + 1 /\ 4 \in 1 - 1 .. n /\ 4 - 1 + 1 = 4 /\ \A x \in 1 .. 4 : x \in 1 .. n /\ 1 + x - 1 = x
    OBVIOUS
  <2>2. ASSUME NEW x \in 1 .. 4 PROVE w[x] = m[x]
    <3>1. w[x] = Xor(m[x], {})
      BY <1>2, <1>3, <2>1
    <3>. QED BY <3>1 DEF Xor
  <2>3. ASSUME NEW y \in Bytes(n)
        PROVE  SubSeq(y, 1, 4) \in Bytes(4) /\ \A x \in 1 .. 4 : SubSeq(y, 1, 4)[x] = y[x]
    <3>1. /\ SubSeq(y, 1, 4) \in Bytes(4 - 1 + 1)
          /\ \A x \in 1 .. 4 - 1 + 1 : SubSeq(y, 1, 4)[x] = y[1 + x - 1]
      BY <2>1, Part
    <3>. QED BY <2>1, <3>1
  <2>. QED BY <1>1, <2>2, <2>3, Widths, SameBytes
<1>. QED BY <1>7, <1>8 DEF w, c

(* The damage that is sure to show: bits of the checksum itself, or 32     *)
(* consecutive bits behind it, or some of them.                            *)
Burst(flip) == flip \subseteq 0 .. 31 \/ \E s \in Nat : s >= 32 /\ flip \subseteq s .. s + 31

LEMMA SealedSum ==
  ASSUME CodecInv
  PROVE  LET m == OnWire(SealedPdu(packet, sent)) IN
         Load(SubSeq(m, 1, 4), "big") = Remainder(Cleared(m))
<1>1. packet \in [version : Version, rc : Code, body : Body] /\ sent \in Nat
  BY DEF CodecInv
<1>. QED BY <1>1, StampedType, ChecksumOnWire

LEMMA BurstRefused ==
  ASSUME CodecInv, at = "read", flipped # {}, Burst(flipped)
  PROVE  verdict = "mismatch"
<1> DEFINE m == OnWire(SealedPdu(packet, sent))
<1>1. PICK n \in Nat : n = PduLen /\ n >= 4
  BY Widths
<1>2. m \in Bytes(n) /\ wire \in Bytes(n) /\ wire = Flip(m, flipped)
  BY <1>1, PackedBytes DEF CodecInv
<1>3. Load(SubSeq(m, 1, 4), "big") = Remainder(Cleared(m))
  BY SealedSum
<1>4. flipped \in SUBSET (0 .. 8 * n - 1)
  BY <1>1, FlippedType DEF Word
<1> HIDE DEF m
<1>5. Load(SubSeq(wire, 1, 4), "big") # Remainder(Cleared(wire))
  <2>1. CASE flipped \subseteq 0 .. 31
    <3>1. Cleared(wire) = Cleared(m) /\ SubSeq(wire, 1, 4) # SubSeq(m, 1, 4)
      BY <1>1, <1>2, <2>1, FlippedSum
    <3>2. ASSUME NEW y \in Bytes(n)
          PROVE  Store(Load(SubSeq(y, 1, 4), "big"), 4, "big") = SubSeq(y, 1, 4)
      <4>1. 1 \in 1 .. n + 1 /\ 4 \in 1 - 1 .. n /\ 4 - 1 + 1 = 4
        BY <1>1
      <4>2. SubSeq(y, 1, 4) \in Bytes(4 - 1 + 1)
        BY <4>1, Part
      <4>. QED BY <4>1, <4>2, Widths, StoreLoad DEF Bytes
    <3>3. Load(SubSeq(wire, 1, 4), "big") # Load(SubSeq(m, 1, 4), "big")
      BY <1>2, <3>1, <3>2
    <3>. QED BY <1>3, <3>1, <3>3
  <2>2. ASSUME NEW s \in Nat, s >= 32, flipped \subseteq s .. s + 31
        PROVE  Load(SubSeq(wire, 1, 4), "big") # Remainder(Cleared(wire))
    <3>1. \A x \in flipped : x \in Nat /\ x >= 32
      BY <2>2
    <3>2. Cleared(wire) = Flip(Cleared(m), flipped) /\ SubSeq(wire, 1, 4) = SubSeq(m, 1, 4)
      BY <1>1, <1>2, <3>1, FlippedRest
    <3>3. Cleared(m) \in Bytes(n)
      BY <1>2, ClearedType
    <3>4. Remainder(Flip(Cleared(m), flipped)) # Remainder(Cleared(m))
      BY <1>4, <2>2, <3>3, BurstShows
    <3>. QED BY <1>3, <3>2, <3>4
  <2>. QED BY <2>1, <2>2 DEF Burst
<1>6. wire \in Bytes(PduLen) /\ hosts.broker \in Orders
  BY <1>1, <1>2 DEF CodecInv
<1>. QED BY <1>5, <1>6, Refused DEF CodecInv

(* Whatever packet is sent and whatever may happen on the way, the broker  *)
(* refuses (iris.c:288-298) every PDU that was damaged in its checksum     *)
(* alone, or by a burst of up to 32 bits behind it.                        *)
THEOREM BurstsRefused ==
  Spec => [](at = "read" /\ flipped # {} /\ Burst(flipped) => verdict = "mismatch")
BY CodecInvariant, BurstRefused, PTL

(* ChecksumGuards, where the damage that can happen is of that kind: the   *)
(* checksum on the wire (iris.c:275-276) is the CRC-32 of the PDU with a   *)
(* zero checksum, and no damaged PDU passes.                               *)
THEOREM ChecksumGuardsCorrect ==
  ASSUME \A t \in Trip : Burst(t.flip)
  PROVE  Spec => []ChecksumGuards
<1>1. CodecInv => ChecksumGuards
  <2> SUFFICES ASSUME CodecInv PROVE ChecksumGuards
    OBVIOUS
  <2>1. ASSUME at = "wire"
        PROVE  Load(SubSeq(wire, 1, 4), "big") = Remainder(Cleared(wire))
    <3>1. wire = OnWire(SealedPdu(packet, sent))
      BY <2>1, UndamagedWire DEF CodecInv
    <3>. QED BY <3>1, SealedSum
  <2>2. ASSUME at = "read", flipped # {} PROVE verdict = "mismatch"
    <3>1. Burst(flipped)
      BY <2>2 DEF CodecInv
    <3>. QED BY <2>2, <3>1, BurstRefused
  <2>. QED BY <2>1, <2>2 DEF ChecksumGuards
<1>. QED BY CodecInvariant, <1>1, PTL
=============================================================================
