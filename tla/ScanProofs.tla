----------------------------- MODULE ScanProofs -----------------------------
(***************************************************************************)
(* Lemmas about the scans of Scan, and about texts that are laid out from  *)
(* parts: where a scan stops in them, and what it leaves.                  *)
(***************************************************************************)
EXTENDS Scan, SequenceTheorems, WellFoundedInduction, TLAPS

LEMMA Least ==
  ASSUME NEW I, I \subseteq Nat, I # {} PROVE \E i \in I : \A j \in I : i <= j
<1> DEFINE R == OpToRel(<, Nat)
<1>1. PICK i \in I : \A j \in I : ~(<<j, i>> \in R)
  BY WFMin, NatLessThanWellFounded
<1>2. \A j \in I : i <= j
  <2>1. SUFFICES ASSUME NEW j \in I PROVE i <= j
    OBVIOUS
  <2>2. i \in Nat /\ j \in Nat
    OBVIOUS
  <2>3. j < i => <<j, i>> \in R
    BY <2>2 DEF OpToRel
  <2> HIDE DEF R
  <2>. QED BY <1>1, <2>2, <2>3
<1>. QED BY <1>2

LEMMA Greatest ==
  ASSUME NEW n \in Nat, NEW I, I \subseteq 1 .. n, I # {} PROVE \E i \in I : \A j \in I : i >= j
<1> DEFINE J == {n - i : i \in I}
<1>1. J \subseteq Nat /\ J # {}
  <2>1. \A i \in I : n - i \in Nat
    OBVIOUS
  <2>2. PICK i \in I : TRUE
    OBVIOUS
  <2>3. n - i \in J
    OBVIOUS
  <2>. QED BY <2>1, <2>3
<1>2. PICK j \in J : \A k \in J : j <= k
  <2> HIDE DEF J
  <2>. QED BY <1>1, Least
<1>3. PICK i \in I : j = n - i
  BY <1>2
<1>4. ASSUME NEW k \in I PROVE i >= k
  <2>1. n - k \in J /\ i \in 1 .. n /\ k \in 1 .. n
    OBVIOUS
  <2>. QED BY <1>2, <1>3, <2>1
<1>. QED BY <1>4

LEMMA MinIsMember ==
  ASSUME NEW I, I \subseteq Nat, I # {} PROVE Min(I) \in I
BY Least DEF Min

LEMMA MaxIsMember ==
  ASSUME NEW n \in Nat, NEW I, I \subseteq 1 .. n, I # {} PROVE Max(I) \in I
BY Greatest DEF Max

LEMMA AsSeq ==
  ASSUME NEW S, NEW n \in Nat, NEW g \in [1 .. n -> S]
  PROVE  g \in Seq(S) /\ Len(g) = n /\ \A i \in 1 .. n : g[i] \in S
<1>1. g \in Seq(S)
  BY SeqDef
<1>2. DOMAIN g = 1 .. n /\ DOMAIN g = 1 .. Len(g) /\ Len(g) \in Nat
  BY <1>1, LenProperties
<1>. QED BY <1>1, <1>2

LEMMA Around ==
  ASSUME NEW S, NEW f \in Seq(S), NEW m \in 1 .. Len(f)
  PROVE  /\ SubSeq(f, 1, m - 1) \in Seq(S) /\ Len(SubSeq(f, 1, m - 1)) = m - 1
         /\ \A n \in 1 .. m - 1 : SubSeq(f, 1, m - 1)[n] = f[n]
         /\ SubSeq(f, m + 1, Len(f)) \in Seq(S) /\ Len(SubSeq(f, m + 1, Len(f))) = Len(f) - m
         /\ \A n \in 1 .. Len(f) - m : SubSeq(f, m + 1, Len(f))[n] = f[m + n]
<1>1. PICK k \in Nat : k = Len(f) /\ m \in 1 .. k
  OBVIOUS
<1>2. \A n \in 1 .. k : f[n] \in S
  BY <1>1, ElementOfSeq
<1> DEFINE g == SubSeq(f, 1, m - 1)
           l == SubSeq(f, m + 1, k)
<1>3. /\ g \in Seq(S) /\ Len(g) = m - 1
      /\ \A n \in 1 .. m - 1 : g[n] = f[n]
  <2>1. /\ g \in Seq(S) /\ Len(g) = (IF 1 <= m - 1 THEN m - 1 - 1 + 1 ELSE 0)
        /\ \A n \in 1 .. m - 1 - 1 + 1 : g[n] = f[1 + n - 1]
    BY <1>1, <1>2, SubSeqProperties
  <2>2. ASSUME NEW n \in 1 .. m - 1 PROVE g[n] = f[n]
    <3>1. n \in 1 .. m - 1 - 1 + 1 /\ 1 + n - 1 = n
      BY <1>1
    <3> HIDE DEF g
    <3>. QED BY <2>1, <3>1
  <2> HIDE DEF g
  <2>. QED BY <1>1, <2>1, <2>2
<1>4. /\ l \in Seq(S) /\ Len(l) = k - m
      /\ \A n \in 1 .. k - m : l[n] = f[m + n]
  <2>1. /\ l \in Seq(S) /\ Len(l) = (IF m + 1 <= k THEN k - (m + 1) + 1 ELSE 0)
        /\ \A n \in 1 .. k - (m + 1) + 1 : l[n] = f[m + 1 + n - 1]
    BY <1>1, <1>2, SubSeqProperties
  <2>2. ASSUME NEW n \in 1 .. k - m PROVE l[n] = f[m + n]
    <3>1. n \in 1 .. k - (m + 1) + 1 /\ m + 1 + n - 1 = m + n
      BY <1>1
    <3> HIDE DEF l
    <3>. QED BY <2>1, <3>1
  <2> HIDE DEF l
  <2>. QED BY <1>1, <2>1, <2>2
<1>. QED BY <1>1, <1>3, <1>4

LEMMA FrontOf ==
  ASSUME NEW S, NEW f \in Seq(S), NEW m \in 1 .. Len(f)
  PROVE  /\ SubSeq(f, 1, m - 1) \in Seq(S) /\ Len(SubSeq(f, 1, m - 1)) = m - 1
         /\ \A n \in 1 .. m - 1 : SubSeq(f, 1, m - 1)[n] = f[n]
BY Around

LEMMA BackOf ==
  ASSUME NEW S, NEW f \in Seq(S), NEW m \in 1 .. Len(f)
  PROVE  /\ SubSeq(f, m + 1, Len(f)) \in Seq(S) /\ Len(SubSeq(f, m + 1, Len(f))) = Len(f) - m
         /\ \A n \in 1 .. Len(f) - m : SubSeq(f, m + 1, Len(f))[n] = f[m + n]
BY Around

(* A sequence is a prefix, and a suffix, of the sequences made with it. *)
LEMMA PrefixIs ==
  ASSUME NEW S, NEW s \in Seq(S), NEW t \in Seq(S), Len(s) <= Len(t),
         \A i \in 1 .. Len(s) : s[i] = t[i]
  PROVE  IsPrefix(s, t)
<1>1. PICK k \in Nat, l \in Nat : k = Len(s) /\ l = Len(t) /\ k <= l
  OBVIOUS
<1>2. \A i \in 1 .. k : s[i] \in S /\ t[i] \in S
  BY <1>1, ElementOfSeq
<1>3. /\ SubSeq(s, 1, k) \in Seq(S) /\ Len(SubSeq(s, 1, k)) = IF 1 <= k THEN k - 1 + 1 ELSE 0
      /\ \A i \in 1 .. k - 1 + 1 : SubSeq(s, 1, k)[i] = s[1 + i - 1]
  BY <1>2, SubSeqProperties
<1>4. /\ SubSeq(t, 1, k) \in Seq(S) /\ Len(SubSeq(t, 1, k)) = IF 1 <= k THEN k - 1 + 1 ELSE 0
      /\ \A i \in 1 .. k - 1 + 1 : SubSeq(t, 1, k)[i] = t[1 + i - 1]
  BY <1>2, SubSeqProperties
<1> DEFINE u == SubSeq(s, 1, k)
           v == SubSeq(t, 1, k)
<1> HIDE DEF u, v
<1>5. u \in Seq(S) /\ v \in Seq(S) /\ Len(u) = k /\ Len(v) = k
  BY <1>3, <1>4 DEF u, v
<1>6. \A i \in 1 .. k : u[i] = s[i] /\ v[i] = t[i]
  BY <1>3, <1>4 DEF u, v
<1>7. u = v
  BY <1>1, <1>5, <1>6, SeqEqual
<1>. QED BY <1>1, <1>7 DEF IsPrefix, u, v

LEMMA PrefixOfJoin == ASSUME NEW S, NEW s \in Seq(S), NEW t \in Seq(S) PROVE IsPrefix(s, s \o t)
<1> DEFINE w == s \o t
<1>1. PICK k \in Nat, l \in Nat : k = Len(s) /\ l = Len(t)
  OBVIOUS
<1>2. w \in Seq(S) /\ Len(w) = k + l /\ \A i \in 1 .. k + l : w[i] = IF i <= k THEN s[i] ELSE t[i - k]
  BY <1>1, ConcatProperties
<1> HIDE DEF w
<1>3. Len(s) <= Len(w) /\ \A i \in 1 .. Len(s) : s[i] = w[i]
  BY <1>1, <1>2
<1>4. IsPrefix(s, w)
  BY <1>2, <1>3, PrefixIs
<1>. QED BY <1>4 DEF w

LEMMA ReverseIs ==
  ASSUME NEW S, NEW s \in Seq(S)
  PROVE  /\ Reverse(s) \in Seq(S) /\ Len(Reverse(s)) = Len(s)
         /\ \A i \in 1 .. Len(s) : Reverse(s)[i] = s[Len(s) - i + 1]
<1>1. PICK k \in Nat : k = Len(s)
  OBVIOUS
<1> DEFINE u == [i \in 1 .. k |-> s[(k - i) + 1]]
<1>2. u \in [1 .. k -> S]
  <2>1. ASSUME NEW i \in 1 .. k PROVE s[(k - i) + 1] \in S
    BY <1>1, ElementOfSeq
  <2>. QED BY <2>1
<1>3. \A i \in 1 .. k : u[i] = s[(k - i) + 1]
  OBVIOUS
<1>4. Reverse(s) = u
  BY <1>1 DEF Reverse
<1> HIDE DEF u
<1>5. u \in Seq(S) /\ Len(u) = k
  BY <1>2, AsSeq
<1>. QED BY <1>1, <1>3, <1>4, <1>5

LEMMA SuffixOfJoin == ASSUME NEW S, NEW s \in Seq(S), NEW t \in Seq(S) PROVE IsSuffix(t, s \o t)
<1> DEFINE w == s \o t
<1>1. PICK k \in Nat, l \in Nat : k = Len(s) /\ l = Len(t)
  OBVIOUS
<1>2. w \in Seq(S) /\ Len(w) = k + l /\ \A i \in 1 .. k + l : w[i] = IF i <= k THEN s[i] ELSE t[i - k]
  BY <1>1, ConcatProperties
<1> HIDE DEF w
<1>3. PICK u \in Seq(S) : u = Reverse(t) /\ Len(u) = l /\ \A i \in 1 .. l : u[i] = t[l - i + 1]
  BY <1>1, ReverseIs
<1>4. PICK v \in Seq(S) :
        v = Reverse(w) /\ Len(v) = k + l /\ \A i \in 1 .. k + l : v[i] = w[k + l - i + 1]
  <2>1. /\ Reverse(w) \in Seq(S) /\ Len(Reverse(w)) = Len(w)
        /\ \A i \in 1 .. Len(w) : Reverse(w)[i] = w[Len(w) - i + 1]
    BY <1>2, ReverseIs
  <2>2. PICK v \in Seq(S) : v = Reverse(w)
    BY <2>1
  <2>. QED BY <1>2, <2>1, <2>2
<1>5. Len(u) <= Len(v)
  BY <1>3, <1>4
<1>6. ASSUME NEW i \in 1 .. l PROVE u[i] = v[i]
  <2>1. PICK j \in Nat : j = k + l - i + 1 /\ j \in 1 .. k + l /\ ~(j <= k) /\ j - k = l - i + 1
    OBVIOUS
  <2>2. v[i] = w[j]
    BY <1>4, <2>1
  <2>3. w[j] = t[l - i + 1]
    BY <1>2, <2>1
  <2>. QED BY <1>3, <2>2, <2>3
<1>7. IsPrefix(u, v)
  BY <1>3, <1>5, <1>6, PrefixIs
<1>. QED BY <1>3, <1>4, <1>7 DEF IsSuffix, w

(* A sequence is what stands before its m-th member, that member, and what *)
(* stands behind it.                                                       *)
LEMMA Splits ==
  ASSUME NEW S, NEW f \in Seq(S), NEW m \in 1 .. Len(f)
  PROVE  f = SubSeq(f, 1, m - 1) \o (<<f[m]>> \o SubSeq(f, m + 1, Len(f)))
<1>1. PICK k \in Nat : k = Len(f) /\ m \in 1 .. k
  OBVIOUS
<1> DEFINE g == SubSeq(f, 1, m - 1)
           h == SubSeq(f, m + 1, Len(f))
           o == <<f[m]>>
           r == o \o h
           w == g \o r
<1>2. g \in Seq(S) /\ Len(g) = m - 1 /\ \A n \in 1 .. m - 1 : g[n] = f[n]
  BY Around
<1>3. h \in Seq(S) /\ Len(h) = k - m /\ \A n \in 1 .. k - m : h[n] = f[m + n]
  <2>1. h \in Seq(S) /\ Len(h) = Len(f) - m /\ \A n \in 1 .. Len(f) - m : h[n] = f[m + n]
    BY Around
  <2> HIDE DEF h
  <2>. QED BY <1>1, <2>1
<1>4. o \in Seq(S) /\ Len(o) = 1 /\ o[1] = f[m]
  <2>1. PICK e \in S : e = f[m]
    BY ElementOfSeq
  <2>2. <<e>> \in Seq(S) /\ Len(<<e>>) = 1 /\ <<e>>[1] = e
    OBVIOUS
  <2>. QED BY <2>1, <2>2
<1> HIDE DEF g, h, o
<1>5. /\ r \in Seq(S) /\ Len(r) = 1 + (k - m)
      /\ \A n \in 1 .. 1 + (k - m) : r[n] = IF n <= 1 THEN o[n] ELSE h[n - 1]
  <2>1. /\ r \in Seq(S) /\ Len(r) = Len(o) + Len(h)
        /\ \A n \in 1 .. Len(o) + Len(h) : r[n] = IF n <= Len(o) THEN o[n] ELSE h[n - Len(o)]
    BY <1>3, <1>4, ConcatProperties
  <2> HIDE DEF r
  <2>. QED BY <1>3, <1>4, <2>1
<1> HIDE DEF r
<1>6. /\ w \in Seq(S) /\ Len(w) = (m - 1) + (1 + (k - m))
      /\ \A n \in 1 .. (m - 1) + (1 + (k - m)) : w[n] = IF n <= m - 1 THEN g[n] ELSE r[n - (m - 1)]
  <2>1. /\ w \in Seq(S) /\ Len(w) = Len(g) + Len(r)
        /\ \A n \in 1 .. Len(g) + Len(r) : w[n] = IF n <= Len(g) THEN g[n] ELSE r[n - Len(g)]
    BY <1>2, <1>5, ConcatProperties
  <2> HIDE DEF w
  <2>. QED BY <1>2, <1>5, <2>1
<1> HIDE DEF w
<1>7. Len(w) = Len(f)
  BY <1>1, <1>6
<1>8. ASSUME NEW n \in 1 .. k PROVE w[n] = f[n]
  <2>1. n \in 1 .. (m - 1) + (1 + (k - m))
    BY <1>1
  <2>2. CASE n <= m - 1
    BY <1>1, <1>2, <1>6, <2>1, <2>2
  <2>3. CASE n = m
    <3>1. n - (m - 1) = 1 /\ ~(n <= m - 1) /\ 1 \in 1 .. 1 + (k - m)
      BY <1>1, <2>3
    <3>. QED BY <1>4, <1>5, <1>6, <2>1, <2>3, <3>1
  <2>4. CASE n > m
    <3>1. PICK j \in 1 .. 1 + (k - m) : j = n - (m - 1) /\ ~(j <= 1) /\ j - 1 \in 1 .. k - m /\ m + (j - 1) = n
      BY <1>1, <2>4
    <3>2. w[n] = r[j]
      <4>1. w[n] = IF n <= m - 1 THEN g[n] ELSE r[n - (m - 1)]
        BY <1>6, <2>1
      <4>2. ~(n <= m - 1)
        BY <1>1, <2>4
      <4>. QED BY <3>1, <4>1, <4>2
    <3>3. r[j] = h[j - 1]
      BY <1>5, <3>1
    <3>. QED BY <1>3, <3>1, <3>2, <3>3
  <2>. QED BY <1>1, <2>2, <2>3, <2>4
<1>9. w = f
  BY <1>1, <1>6, <1>7, <1>8, SeqEqual
<1>. QED BY <1>9, Zenon DEF g, h, o, r, w

LEMMA PartOfLine ==
  ASSUME NEW s \in Line, NEW f \in Nat \ {0}, NEW l \in Nat, l <= Len(s)
  PROVE  /\ SubSeq(s, f, l) \in Line
         /\ Len(SubSeq(s, f, l)) = IF f <= l THEN l - f + 1 ELSE 0
<1>1. \A k \in f .. l : s[k] \in STRING
  BY DEF Line
<1>. QED BY <1>1, SubSeqProperties DEF Line

(* What the four scans leave of a line is a line that is not longer. *)
LEMMA BeforeIsLine ==
  ASSUME NEW s \in Line, NEW end \in Bytes
  PROVE  Before[s][end] \in Line /\ Len(Before[s][end]) <= Len(s)
<1> DEFINE I == {i \in 1 .. Len(s) : s[i] \in end}
           n == IF I # {} THEN Min(I) ELSE 0
<1>1. Len(s) \in Nat
  BY DEF Line
<1>2. n \in 0 .. Len(s)
  BY <1>1, MinIsMember
<1>3. Before[s][end] = IF n = 0 THEN s ELSE SubSeq(s, 1, n - 1)
  BY DEF Before, SelectInSeq
<1> HIDE DEF n
<1>. QED BY <1>1, <1>2, <1>3, PartOfLine

LEMMA BehindIsLine ==
  ASSUME NEW s \in Line, NEW end \in Bytes
  PROVE  Behind[s][end] \in Line
<1> DEFINE I == {i \in 1 .. Len(s) : s[i] \in end}
           n == IF I # {} THEN Min(I) ELSE 0
<1>1. Len(s) \in Nat /\ <<>> \in Line
  BY DEF Line
<1>2. n \in 0 .. Len(s)
  BY <1>1, MinIsMember, SMTT(20)
<1>3. Behind[s][end] = IF n = 0 THEN <<>> ELSE SubSeq(s, n + 1, Len(s))
  BY DEF Behind, SelectInSeq
<1> HIDE DEF n
<1>. QED BY <1>1, <1>2, <1>3, PartOfLine

LEMMA TrimmedIsLine ==
  ASSUME NEW s \in Line, NEW drop \in Bytes
  PROVE  Trimmed[s][drop] \in Line
<1> DEFINE I == {i \in 1 .. Len(s) : s[i] \notin drop}
           n == IF I # {} THEN Max(I) ELSE 0
<1>1. Len(s) \in Nat
  BY DEF Line
<1>2. n \in 0 .. Len(s)
  <2>1. PICK l \in Nat : l = Len(s)
    BY <1>1
  <2>2. I # {} => Max(I) \in I
    BY <2>1, MaxIsMember
  <2> HIDE DEF I
  <2>3. I \subseteq 1 .. l
    BY <2>1 DEF I
  <2>4. CASE I = {}
    BY <1>1, <2>4
  <2>5. CASE I # {}
    <3>1. Max(I) \in 1 .. l
      BY <2>2, <2>3, <2>5
    <3>2. n = Max(I)
      BY <2>5
    <3>. QED BY <2>1, <3>1, <3>2
  <2>. QED BY <2>4, <2>5
<1>3. Trimmed[s][drop] = SubSeq(s, 1, n)
  BY DEF Trimmed, SelectLastInSeq
<1> HIDE DEF n
<1>. QED BY <1>1, <1>2, <1>3, PartOfLine

LEMMA FromIsLine ==
  ASSUME NEW s \in Line, NEW drop \in Bytes
  PROVE  From[s][drop] \in Line
<1> DEFINE I == {i \in 1 .. Len(s) : s[i] \notin drop}
           n == IF I # {} THEN Min(I) ELSE 0
<1>1. Len(s) \in Nat /\ <<>> \in Line
  BY DEF Line
<1>2. n \in 0 .. Len(s)
  <2>1. I # {} => Min(I) \in I
    BY <1>1, MinIsMember
  <2>2. I \subseteq 1 .. Len(s)
    OBVIOUS
  <2> HIDE DEF I
  <2>3. CASE I = {}
    BY <1>1, <2>3
  <2>4. CASE I # {}
    <3>1. Min(I) \in 1 .. Len(s)
      BY <2>1, <2>2, <2>4
    <3>2. n = Min(I)
      BY <2>4
    <3>. QED BY <1>1, <3>1, <3>2
  <2>. QED BY <2>3, <2>4
<1>3. From[s][drop] = IF n = 0 THEN <<>> ELSE SubSeq(s, n, Len(s))
  BY DEF From, SelectInSeq
<1> HIDE DEF n
<1>. QED BY <1>1, <1>2, <1>3, PartOfLine

-----------------------------------------------------------------------------
(***************************************************************************)
(* Scans of a text of two parts, the second of which begins where the scan *)
(* stops.                                                                  *)
(***************************************************************************)
LEMMA MinIs ==
  ASSUME NEW I, I \subseteq Nat, NEW m \in I, \A i \in I : m <= i
  PROVE  Min(I) = m
<1>1. Min(I) \in I /\ \A i \in I : Min(I) <= i
  BY DEF Min
<1>2. Min(I) \in Nat /\ m \in Nat /\ m <= Min(I) /\ Min(I) <= m
  BY <1>1
<1>. QED BY <1>2

LEMMA MaxIs ==
  ASSUME NEW I, I \subseteq Nat, NEW m \in I, \A i \in I : i <= m
  PROVE  Max(I) = m
<1>1. Max(I) \in I /\ \A i \in I : Max(I) >= i
  BY DEF Max
<1>2. Max(I) \in Nat /\ m \in Nat /\ m <= Max(I) /\ Max(I) <= m
  BY <1>1
<1>. QED BY <1>2

LEMMA JoinedLine ==
  ASSUME NEW s \in Line, NEW t \in Line
  PROVE  /\ s \o t \in Line /\ Len(s \o t) = Len(s) + Len(t)
         /\ Len(s) \in Nat /\ Len(t) \in Nat
         /\ \A i \in 1 .. Len(s) : (s \o t)[i] = s[i]
         /\ \A i \in 1 .. Len(t) : (s \o t)[Len(s) + i] = t[i]
<1>1. Len(s) \in Nat /\ Len(t) \in Nat
  BY DEF Line
<1>2. /\ s \o t \in Line /\ Len(s \o t) = Len(s) + Len(t)
      /\ \A i \in 1 .. Len(s) + Len(t) : (s \o t)[i] = IF i <= Len(s) THEN s[i] ELSE t[i - Len(s)]
  BY ConcatProperties DEF Line
<1>. QED BY <1>1, <1>2

LEMMA JoinAssociative ==
  ASSUME NEW s \in Line, NEW t \in Line, NEW u \in Line
  PROVE  (s \o t) \o u = s \o (t \o u)
BY ConcatAssociative DEF Line

LEMMA SplitLine ==
  ASSUME NEW s \in Line, NEW t \in Line
  PROVE  /\ SubSeq(s \o t, 1, Len(s)) = s
         /\ SubSeq(s \o t, Len(s) + 1, Len(s \o t)) = t
<1> DEFINE w == s \o t
           l == Len(s)
           m == Len(t)
<1>1. /\ w \in Line /\ Len(w) = l + m /\ l \in Nat /\ m \in Nat
      /\ \A i \in 1 .. l : w[i] = s[i]
      /\ \A i \in 1 .. m : w[l + i] = t[i]
  BY JoinedLine
<1>2. \A i \in 1 .. l + m : w[i] \in STRING
  BY <1>1 DEF Line
<1> HIDE DEF w
<1>3. /\ SubSeq(w, 1, l) \in Line /\ Len(SubSeq(w, 1, l)) = l
      /\ \A i \in 1 .. l : SubSeq(w, 1, l)[i] = w[i]
  BY <1>1, <1>2, SubSeqProperties DEF Line
<1>4. /\ SubSeq(w, l + 1, l + m) \in Line /\ Len(SubSeq(w, l + 1, l + m)) = m
      /\ \A i \in 1 .. m : SubSeq(w, l + 1, l + m)[i] = w[l + i]
  BY <1>1, <1>2, SubSeqProperties DEF Line
<1>5. SubSeq(w, 1, l) = s
  BY <1>1, <1>3, SeqEqual DEF Line
<1>6. SubSeq(w, l + 1, l + m) = t
  BY <1>1, <1>4, SeqEqual DEF Line
<1>. QED BY <1>1, <1>5, <1>6 DEF w

(* No byte of s is in A. *)
Avoids(s, A) == \A i \in 1 .. Len(s) : s[i] \notin A
StartsIn(s, A) == s # <<>> => s[1] \in A

LEMMA NonEmpty == ASSUME NEW s \in Line PROVE s = <<>> <=> Len(s) = 0
  BY EmptySeq DEF Line

LEMMA BeforeStops ==
  ASSUME NEW s \in Line, NEW t \in Line, NEW end \in Bytes, Avoids(s, end), StartsIn(t, end)
  PROVE  /\ Before[s \o t][end] = s
         /\ Behind[s \o t][end] = IF t = <<>> THEN <<>> ELSE Tail(t)
<1> DEFINE w == s \o t
           l == Len(s)
           I == {i \in 1 .. Len(w) : w[i] \in end}
           n == IF I # {} THEN Min(I) ELSE 0
<1>1. /\ w \in Line /\ Len(w) = l + Len(t) /\ l \in Nat /\ Len(t) \in Nat
      /\ \A i \in 1 .. l : w[i] = s[i]
      /\ \A i \in 1 .. Len(t) : w[l + i] = t[i]
  BY JoinedLine
<1>2. \A i \in 1 .. l : w[i] \notin end
  BY <1>1 DEF Avoids
<1>3. Before[w][end] = IF n = 0 THEN w ELSE SubSeq(w, 1, n - 1)
  BY <1>1 DEF Before, SelectInSeq
<1>4. Behind[w][end] = IF n = 0 THEN <<>> ELSE SubSeq(w, n + 1, Len(w))
  BY <1>1 DEF Behind, SelectInSeq
<1>5. CASE t = <<>>
  <2>1. Len(w) = l
    BY <1>1, <1>5, NonEmpty
  <2>2. n = 0
    BY <1>2, <2>1
  <2>3. w = s
    BY <1>5, ConcatEmptySeq DEF Line
  <2> HIDE DEF w, n
  <2>. QED BY <1>3, <1>4, <1>5, <2>2, <2>3 DEF w
<1>6. CASE t # <<>>
  <2>1. Len(t) >= 1 /\ w[l + 1] \in end
    BY <1>1, <1>6, NonEmpty DEF StartsIn
  <2>2. l + 1 \in I /\ I \subseteq Nat
    BY <1>1, <2>1
  <2>3. \A i \in I : l + 1 <= i
    BY <1>1, <1>2
  <2>4. n = l + 1
    <3> HIDE DEF I
    <3>. QED BY <2>2, <2>3, MinIs
  <2> HIDE DEF w, n
  <2>5. Before[w][end] = SubSeq(w, 1, l) /\ Behind[w][end] = SubSeq(w, l + 2, Len(w))
    BY <1>1, <1>3, <1>4, <2>4
  <2>6. SubSeq(w, l + 2, Len(w)) = Tail(t)
    <3> DEFINE u == SubSeq(w, l + 2, Len(w))
    <3>1. /\ Tail(t) \in Line /\ Len(Tail(t)) = Len(t) - 1
          /\ \A i \in 1 .. Len(t) - 1 : Tail(t)[i] = t[i + 1]
      BY <1>6, HeadTailProperties DEF Line
    <3>2. \A i \in l + 2 .. Len(w) : w[i] \in STRING
      BY <1>1 DEF Line
    <3>3. /\ u \in Line /\ Len(u) = Len(t) - 1
          /\ \A i \in 1 .. Len(t) - 1 : u[i] = w[l + 2 + i - 1]
      <4>1. /\ l + 2 \in Int /\ Len(w) \in Int /\ Len(w) - (l + 2) + 1 = Len(t) - 1
            /\ (IF l + 2 <= Len(w) THEN Len(w) - (l + 2) + 1 ELSE 0) = Len(t) - 1
        <5>1. Len(w) = l + Len(t) /\ l \in Nat /\ Len(t) \in Nat /\ Len(t) >= 1
          BY <1>1, <2>1
        <5>2. PICK a \in Nat, b \in Nat : a = l /\ b = Len(t)
          BY <5>1
        <5>3. /\ a + 2 \in Int /\ a + b \in Int /\ (a + b) - (a + 2) + 1 = b - 1
              /\ (IF a + 2 <= a + b THEN (a + b) - (a + 2) + 1 ELSE 0) = b - 1
          BY <5>1, <5>2
        <5>. QED BY <5>1, <5>2, <5>3
      <4>2. /\ u \in Seq(STRING)
            /\ Len(u) = IF l + 2 <= Len(w) THEN Len(w) - (l + 2) + 1 ELSE 0
            /\ \A i \in 1 .. Len(w) - (l + 2) + 1 : u[i] = w[l + 2 + i - 1]
        BY <3>2, <4>1, SubSeqProperties
      <4> HIDE DEF u
      <4>. QED BY <4>1, <4>2 DEF Line
    <3>4. \A i \in 1 .. Len(t) - 1 : u[i] = Tail(t)[i]
      <4>1. ASSUME NEW i \in 1 .. Len(t) - 1 PROVE w[l + 2 + i - 1] = t[i + 1]
        <5>1. i + 1 \in 1 .. Len(t) /\ l + 2 + i - 1 = l + (i + 1)
          BY <1>1
        <5>. QED BY <1>1, <5>1
      <4>. QED BY <3>1, <3>3, <4>1
    <3> HIDE DEF u
    <3>. QED BY <3>1, <3>3, <3>4, SeqEqual DEF Line, u
  <2>7. SubSeq(w, 1, l) = s
    BY SplitLine DEF w
  <2>. QED BY <1>6, <2>5, <2>6, <2>7 DEF w
<1>. QED BY <1>5, <1>6

(* The text is cut there: what ends the first part is the first byte of    *)
(* the second.                                                             *)
CutAt(w, s, t, end) == w = s \o t /\ t # <<>> /\ Avoids(s, end) /\ StartsIn(t, end)

LEMMA StopsAt ==
  ASSUME NEW w \in Line, NEW s \in Line, NEW t \in Line, NEW end \in Bytes,
         CutAt(w, s, t, end)
  PROVE  Before[w][end] = s /\ Behind[w][end] = Tail(t)
<1>1. /\ Before[s \o t][end] = s
      /\ Behind[s \o t][end] = IF t = <<>> THEN <<>> ELSE Tail(t)
  BY BeforeStops DEF CutAt
<1>. QED BY <1>1 DEF CutAt

(* Every byte of s is in A. *)
AllIn(s, A) == \A i \in 1 .. Len(s) : s[i] \in A

LEMMA FromSkips ==
  ASSUME NEW s \in Line, NEW t \in Line, NEW drop \in Bytes,
         AllIn(s, drop), t # <<>> => t[1] \notin drop
  PROVE  From[s \o t][drop] = t
<1> DEFINE w == s \o t
           l == Len(s)
           I == {i \in 1 .. Len(w) : w[i] \notin drop}
           n == IF I # {} THEN Min(I) ELSE 0
<1>1. /\ w \in Line /\ Len(w) = l + Len(t) /\ l \in Nat /\ Len(t) \in Nat
      /\ \A i \in 1 .. l : w[i] = s[i]
      /\ \A i \in 1 .. Len(t) : w[l + i] = t[i]
  BY JoinedLine
<1>2. \A i \in 1 .. l : w[i] \in drop
  BY <1>1 DEF AllIn
<1>3. From[w][drop] = IF n = 0 THEN <<>> ELSE SubSeq(w, n, Len(w))
  BY <1>1 DEF From, SelectInSeq
<1>4. CASE t = <<>>
  <2>1. Len(w) = l
    BY <1>1, <1>4, NonEmpty
  <2>2. n = 0
    BY <1>2, <2>1
  <2> HIDE DEF w, n
  <2>. QED BY <1>3, <1>4, <2>2 DEF w
<1>5. CASE t # <<>>
  <2>1. Len(t) >= 1 /\ w[l + 1] \notin drop
    BY <1>1, <1>5, NonEmpty
  <2>2. l + 1 \in I /\ I \subseteq Nat
    BY <1>1, <2>1
  <2>3. \A i \in I : l + 1 <= i
    BY <1>1, <1>2
  <2>4. n = l + 1
    <3> HIDE DEF I
    <3>. QED BY <2>2, <2>3, MinIs
  <2> HIDE DEF w, n
  <2>5. From[w][drop] = SubSeq(w, l + 1, Len(w))
    BY <1>1, <1>3, <2>4
  <2>. QED BY <2>5, SplitLine DEF w
<1>. QED BY <1>4, <1>5

LEMMA JoinAvoids ==
  ASSUME NEW s \in Line, NEW t \in Line, NEW A, Avoids(s, A), Avoids(t, A)
  PROVE  Avoids(s \o t, A)
<1>1. /\ Len(s \o t) = Len(s) + Len(t) /\ Len(s) \in Nat /\ Len(t) \in Nat
      /\ \A i \in 1 .. Len(s) : (s \o t)[i] = s[i]
      /\ \A i \in 1 .. Len(t) : (s \o t)[Len(s) + i] = t[i]
  BY JoinedLine
<1> DEFINE w == s \o t
<1> HIDE DEF w
<1>2. PICK a \in Nat, b \in Nat : a = Len(s) /\ b = Len(t) /\ Len(w) = a + b
  BY <1>1 DEF w
<1>3. ASSUME NEW i \in 1 .. a + b PROVE w[i] \notin A
  <2>1. CASE i <= a
    <3>1. i \in 1 .. a
      BY <2>1
    <3>2. w[i] = s[i]
      BY <1>1, <1>2, <3>1 DEF w
    <3>. QED BY <1>2, <3>1, <3>2 DEF Avoids
  <2>2. CASE i > a
    <3>1. i - a \in 1 .. b /\ a + (i - a) = i
      BY <2>2
    <3>2. w[a + (i - a)] = t[i - a]
      BY <1>1, <1>2, <3>1 DEF w
    <3>. QED BY <1>2, <3>1, <3>2 DEF Avoids
  <2>. QED BY <2>1, <2>2
<1>. QED BY <1>2, <1>3 DEF Avoids, w

LEMMA PartsAvoid ==
  ASSUME NEW s \in Line, NEW t \in Line, NEW A, Avoids(s \o t, A)
  PROVE  Avoids(s, A) /\ Avoids(t, A)
<1> DEFINE w == s \o t
<1>1. /\ Len(w) = Len(s) + Len(t) /\ Len(s) \in Nat /\ Len(t) \in Nat
      /\ \A i \in 1 .. Len(s) : w[i] = s[i]
      /\ \A i \in 1 .. Len(t) : w[Len(s) + i] = t[i]
  BY JoinedLine
<1>2. \A i \in 1 .. Len(w) : w[i] \notin A
  BY DEF Avoids
<1> HIDE DEF w
<1>3. ASSUME NEW i \in 1 .. Len(s) PROVE s[i] \notin A
  <2>1. i \in 1 .. Len(w)
    BY <1>1
  <2>. QED BY <1>1, <1>2, <2>1
<1>4. ASSUME NEW i \in 1 .. Len(t) PROVE t[i] \notin A
  <2>1. Len(s) + i \in 1 .. Len(w)
    BY <1>1
  <2>. QED BY <1>1, <1>2, <2>1
<1>. QED BY <1>3, <1>4 DEF Avoids

LEMMA LastOfJoin ==
  ASSUME NEW s \in Line, NEW t \in Line, t # <<>>
  PROVE  s \o t # <<>> /\ (s \o t)[Len(s \o t)] = t[Len(t)]
<1>1. /\ s \o t \in Line /\ Len(s \o t) = Len(s) + Len(t) /\ Len(s) \in Nat /\ Len(t) \in Nat
      /\ \A i \in 1 .. Len(t) : (s \o t)[Len(s) + i] = t[i]
  BY JoinedLine
<1>2. Len(t) # 0 /\ Len(t) \in 1 .. Len(t)
  BY <1>1, NonEmpty
<1>3. Len(s \o t) # 0
  BY <1>1, <1>2
<1>. QED BY <1>1, <1>2, <1>3, NonEmpty

LEMMA JoinAllIn ==
  ASSUME NEW s \in Line, NEW t \in Line, NEW A, AllIn(s, A), AllIn(t, A)
  PROVE  AllIn(s \o t, A)
<1>1. Avoids(s, STRING \ A) /\ Avoids(t, STRING \ A)
  BY DEF Avoids, AllIn
<1>2. Avoids(s \o t, STRING \ A) /\ s \o t \in Seq(STRING)
  BY <1>1, JoinAvoids, JoinedLine DEF Line
<1>. QED BY <1>2 DEF Avoids, AllIn

(* What Before and Behind leave has no byte that the text did not have.    *)
LEMMA BehindAvoids ==
  ASSUME NEW s \in Line, NEW end \in Bytes, NEW A, Avoids(s, A)
  PROVE  Avoids(Behind[s][end], A)
<1> DEFINE I == {i \in 1 .. Len(s) : s[i] \in end}
           n == IF I # {} THEN Min(I) ELSE 0
           t == SubSeq(s, n + 1, Len(s))
<1>1. Len(s) \in Nat
  BY DEF Line
<1>2. n \in 0 .. Len(s)
  <2>1. I \subseteq 1 .. Len(s) /\ I \subseteq Nat
    BY <1>1
  <2> HIDE DEF I
  <2>2. I # {} => Min(I) \in I
    BY <2>1, MinIsMember
  <2>3. n = IF I # {} THEN Min(I) ELSE 0
    OBVIOUS
  <2> HIDE DEF n
  <2>4. CASE I = {}
    BY <1>1, <2>3, <2>4
  <2>5. CASE I # {}
    <3>1. Min(I) \in 1 .. Len(s) /\ n = Min(I)
      BY <2>1, <2>2, <2>3, <2>5
    <3>. QED BY <1>1, <3>1
  <2>. QED BY <2>4, <2>5
<1>3. Behind[s][end] = IF n = 0 THEN <<>> ELSE t
  BY DEF Behind, SelectInSeq
<1> HIDE DEF n
<1>4. /\ Len(t) = IF n + 1 <= Len(s) THEN Len(s) - (n + 1) + 1 ELSE 0
      /\ \A i \in 1 .. Len(s) - (n + 1) + 1 : t[i] = s[(n + 1) + i - 1]
  <2>1. \A i \in n + 1 .. Len(s) : s[i] \in STRING
    BY <1>1, <1>2 DEF Line
  <2>. QED BY <1>1, <1>2, <2>1, SubSeqProperties
<1> HIDE DEF t
<1>5. Avoids(t, A)
  <2>1. PICK a \in Nat, l \in Nat : a = n /\ l = Len(s) /\ a <= l
    BY <1>1, <1>2
  <2>2. ASSUME NEW i \in 1 .. Len(t) PROVE t[i] \notin A
    <3>1. Len(t) = l - a
      BY <1>4, <2>1
    <3>2. i \in 1 .. l - (a + 1) + 1 /\ (a + 1) + i - 1 \in 1 .. l
      BY <2>1, <3>1
    <3>3. t[i] = s[(a + 1) + i - 1]
      BY <1>4, <2>1, <3>2
    <3>. QED BY <2>1, <3>2, <3>3 DEF Avoids
  <2>. QED BY <2>2 DEF Avoids
<1>6. Avoids(<<>>, A)
  BY DEF Avoids
<1>. QED BY <1>3, <1>5, <1>6

LEMMA TailOfJoin ==
  ASSUME NEW s \in Line, NEW t \in Line, s # <<>>
  PROVE  /\ (s \o t)[1] = s[1] /\ s \o t # <<>>
         /\ Head(s \o t) = s[1] /\ Head(s) = s[1]
         /\ Tail(s) \in Line /\ Tail(s \o t) = Tail(s) \o t
<1> DEFINE w == s \o t
           u == Tail(s)
<1>1. /\ w \in Line /\ Len(w) = Len(s) + Len(t) /\ Len(s) \in Nat /\ Len(t) \in Nat
      /\ \A i \in 1 .. Len(s) : w[i] = s[i]
      /\ \A i \in 1 .. Len(t) : w[Len(s) + i] = t[i]
  BY JoinedLine
<1>2. Len(s) # 0
  BY NonEmpty
<1> HIDE DEF w
<1>3. w # <<>> /\ w[1] = s[1]
  BY <1>1, <1>2, NonEmpty
<1>4. /\ u \in Line /\ Len(u) = Len(s) - 1
      /\ \A i \in 1 .. Len(u) : u[i] = s[i + 1]
  BY HeadTailProperties DEF Line
<1>5. /\ Tail(w) \in Line /\ Len(Tail(w)) = Len(w) - 1
      /\ \A i \in 1 .. Len(Tail(w)) : Tail(w)[i] = w[i + 1]
  BY <1>1, <1>3, HeadTailProperties DEF Line
<1>6. /\ u \o t \in Line /\ Len(u \o t) = Len(u) + Len(t)
      /\ \A i \in 1 .. Len(u) : (u \o t)[i] = u[i]
      /\ \A i \in 1 .. Len(t) : (u \o t)[Len(u) + i] = t[i]
  BY <1>4, JoinedLine
<1> DEFINE v == u \o t
<1> HIDE DEF u, v
<1>7. PICK a \in Nat, b \in Nat : a + 1 = Len(s) /\ b = Len(t)
  <2>1. Len(s) - 1 \in Nat /\ (Len(s) - 1) + 1 = Len(s)
    BY <1>1, <1>2
  <2>. QED BY <1>1, <2>1
<1>8. Len(u) = a /\ Len(v) = a + b /\ Len(Tail(w)) = a + b
  BY <1>1, <1>4, <1>5, <1>6, <1>7 DEF v
<1>9. ASSUME NEW i \in 1 .. a + b PROVE Tail(w)[i] = v[i]
  <2>1. Tail(w)[i] = w[i + 1]
    BY <1>5, <1>8
  <2>2. CASE i <= a
    <3>1. i \in 1 .. a /\ i + 1 \in 1 .. a + 1
      BY <2>2
    <3>2. v[i] = u[i] /\ u[i] = s[i + 1] /\ w[i + 1] = s[i + 1]
      BY <1>1, <1>4, <1>6, <1>7, <1>8, <3>1 DEF v
    <3>. QED BY <2>1, <3>2
  <2>3. CASE i > a
    <3>1. PICK k \in 1 .. b : a + k = i /\ (a + 1) + k = i + 1
      <4>1. i - a \in 1 .. b /\ a + (i - a) = i /\ (a + 1) + (i - a) = i + 1
        BY <2>3
      <4>. QED BY <4>1
    <3>2. v[a + k] = t[k]
      BY <1>6, <1>7, <1>8 DEF v
    <3>3. w[(a + 1) + k] = t[k]
      BY <1>1, <1>7
    <3>4. v[i] = t[k] /\ w[i + 1] = t[k]
      BY <3>1, <3>2, <3>3
    <3>. QED BY <2>1, <3>4
  <2>4. i <= a \/ i > a
    OBVIOUS
  <2>. QED BY <2>2, <2>3, <2>4, Zenon
<1>10. Tail(w) = v
  BY <1>5, <1>6, <1>8, <1>9, SeqEqual DEF Line, v
<1>11. Head(w) = w[1] /\ Head(s) = s[1]
  OBVIOUS
<1>. QED BY <1>3, <1>4, <1>10, <1>11 DEF u, v, w

(* Eight parts, grouped from the left and from the right.                  *)
Glue(s, t) == s \o t

LEMMA GlueAssociative ==
  ASSUME NEW s \in Line, NEW t \in Line, NEW u \in Line
  PROVE  Glue(s, t) \in Line /\ Glue(Glue(s, t), u) = Glue(s, Glue(t, u))
BY ConcatProperties, ConcatAssociative DEF Glue, Line

LEMMA GlueFour ==
  ASSUME NEW s \in Line, NEW t \in Line, NEW u \in Line, NEW v \in Line
  PROVE  /\ Glue(t, u) \in Line /\ Glue(s, Glue(t, u)) \in Line
         /\ Glue(Glue(s, Glue(t, u)), v) = Glue(s, Glue(t, Glue(u, v)))
<1>1. Glue(t, u) \in Line
  BY GlueAssociative
<1>2. Glue(s, Glue(t, u)) \in Line
  BY <1>1, GlueAssociative
<1>3. Glue(Glue(t, u), v) = Glue(t, Glue(u, v))
  BY GlueAssociative
<1>4. Glue(Glue(s, Glue(t, u)), v) = Glue(s, Glue(Glue(t, u), v))
  BY <1>1, GlueAssociative
<1>. QED BY <1>1, <1>2, <1>3, <1>4

-----------------------------------------------------------------------------
(***************************************************************************)
(* A text flattened from parts.  The library's induction theorem takes an  *)
(* operator; this one takes a set.                                         *)
(***************************************************************************)
LEMMA UpTo ==
  ASSUME NEW n \in Nat, NEW S, 0 \in S, \A i \in 0 .. n - 1 : i \in S => i + 1 \in S
  PROVE  \A i \in 0 .. n : i \in S
<1> DEFINE I == {i \in 0 .. n : i \notin S}
           R == OpToRel(<, Nat)
<1>1. SUFFICES ASSUME I # {} PROVE FALSE
  OBVIOUS
<1>2. I \subseteq Nat
  OBVIOUS
<1>3. PICK m \in I : \A k \in I : ~(<<k, m>> \in R)
  <2> HIDE DEF I
  <2>. QED BY <1>1, <1>2, WFMin, NatLessThanWellFounded
<1>4. m \in 0 .. n /\ m \notin S /\ m # 0
  OBVIOUS
<1>5. m - 1 \in 0 .. n - 1 /\ m - 1 \in Nat /\ m \in Nat /\ m - 1 < m /\ (m - 1) + 1 = m
  BY <1>4
<1>6. <<m - 1, m>> \in R
  BY <1>5 DEF OpToRel
<1>7. m - 1 \notin I
  BY <1>3, <1>6
<1>8. m - 1 \in S
  BY <1>5, <1>7
<1>. QED BY <1>4, <1>5, <1>8

(* g[i] is what flattening makes of the first i parts, and cut[i] is its   *)
(* length.                                                                 *)
Built(parts, n, g, cut) ==
  /\ g \in [1 .. n -> Line] /\ cut \in [0 .. n -> Nat] /\ cut[0] = 0
  /\ \A i \in 1 .. n : g[i] = IF i = 1 THEN parts[i] ELSE g[i - 1] \o parts[i]
  /\ \A i \in 1 .. n : Len(g[i]) = cut[i] /\ cut[i] = cut[i - 1] + Len(parts[i])
  /\ \A i \in 1 .. n : \A j \in 1 .. i :
       cut[j] <= cut[i] /\ \A x \in 1 .. Len(parts[j]) : g[i][cut[j - 1] + x] = parts[j][x]

LEMMA BuildNext ==
  ASSUME NEW parts \in Seq(Line), NEW n \in Nat, n < Len(parts),
         NEW g, NEW cut, Built(parts, n, g, cut)
  PROVE  \E h, c : Built(parts, n + 1, h, c)
<1> DEFINE p == parts[n + 1]
           w == IF n = 0 THEN p ELSE g[n] \o p
           h == [i \in 1 .. n + 1 |-> IF i <= n THEN g[i] ELSE w]
           c == [i \in 0 .. n + 1 |-> IF i <= n THEN cut[i] ELSE cut[n] + Len(p)]
<1>1. Len(parts) \in Nat /\ n + 1 \in 1 .. Len(parts)
  OBVIOUS
<1>2. p \in Line /\ Len(p) \in Nat
  BY <1>1, ElementOfSeq DEF Line
<1>3. /\ g \in [1 .. n -> Line] /\ cut \in [0 .. n -> Nat] /\ cut[0] = 0
      /\ \A i \in 1 .. n : g[i] = IF i = 1 THEN parts[i] ELSE g[i - 1] \o parts[i]
      /\ \A i \in 1 .. n : Len(g[i]) = cut[i] /\ cut[i] = cut[i - 1] + Len(parts[i])
      /\ \A i \in 1 .. n : \A j \in 1 .. i :
           cut[j] <= cut[i] /\ \A x \in 1 .. Len(parts[j]) : g[i][cut[j - 1] + x] = parts[j][x]
  BY DEF Built
<1>4. /\ w \in Line /\ Len(w) = cut[n] + Len(p) /\ cut[n] \in Nat
      /\ \A x \in 1 .. Len(p) : w[cut[n] + x] = p[x]
      /\ n # 0 => \A x \in 1 .. cut[n] : w[x] = g[n][x]
  <2>1. CASE n = 0
    BY <1>2, <1>3, <2>1
  <2>2. CASE n # 0
    <3>1. g[n] \in Line /\ Len(g[n]) = cut[n] /\ cut[n] \in Nat
      BY <1>3, <2>2
    <3>2. w = g[n] \o p
      BY <2>2
    <3> DEFINE u == g[n]
    <3> HIDE DEF u, p, w
    <3>3. u \in Line /\ Len(u) = cut[n] /\ cut[n] \in Nat /\ w = u \o p
      BY <3>1, <3>2 DEF u
    <3>4. /\ u \o p \in Line /\ Len(u \o p) = Len(u) + Len(p)
          /\ \A x \in 1 .. Len(u) : (u \o p)[x] = u[x]
          /\ \A x \in 1 .. Len(p) : (u \o p)[Len(u) + x] = p[x]
      BY <1>2, <3>3, JoinedLine
    <3>5. \A x \in 1 .. cut[n] : w[x] = g[n][x]
      BY <3>3, <3>4 DEF u
    <3>6. \A x \in 1 .. Len(p) : w[cut[n] + x] = p[x]
      BY <3>3, <3>4
    <3>. QED BY <3>3, <3>4, <3>5, <3>6
  <2>. QED BY <2>1, <2>2
<1>5. \A i \in 1 .. n : h[i] = g[i] /\ c[i] = cut[i] /\ c[i - 1] = cut[i - 1]
  OBVIOUS
<1>6. h[n + 1] = w /\ c[n + 1] = cut[n] + Len(p) /\ c[n] = cut[n] /\ c[0] = 0
  BY <1>3
<1>7. h \in [1 .. n + 1 -> Line] /\ c \in [0 .. n + 1 -> Nat]
  <2>1. \A i \in 1 .. n + 1 : h[i] \in Line
    BY <1>3, <1>4
  <2>2. \A i \in 0 .. n + 1 : c[i] \in Nat
    BY <1>2, <1>3, <1>4
  <2>. QED BY <2>1, <2>2
<1>8. \A i \in 1 .. n + 1 : h[i] = IF i = 1 THEN parts[i] ELSE h[i - 1] \o parts[i]
  <2> SUFFICES ASSUME NEW i \in 1 .. n + 1
               PROVE  h[i] = IF i = 1 THEN parts[i] ELSE h[i - 1] \o parts[i]
    OBVIOUS
  <2>1. CASE i = n + 1
    <3>1. CASE n = 0
      BY <1>6, <2>1, <3>1
    <3>2. CASE n # 0
      <4>1. h[n] = g[n]
        BY <1>5, <3>2
      <4>2. i # 1 /\ i - 1 = n
        BY <2>1, <3>2
      <4>. QED BY <1>6, <2>1, <3>2, <4>1, <4>2
    <3>. QED BY <3>1, <3>2
  <2>2. CASE i # n + 1
    <3>1. i \in 1 .. n /\ (i # 1 => i - 1 \in 1 .. n)
      BY <2>2
    <3> HIDE DEF h
    <3>. QED BY <1>3, <1>5, <3>1
  <2>. QED BY <2>1, <2>2
<1> HIDE DEF p, w, h, c
<1>9. \A i \in 1 .. n + 1 : Len(h[i]) = c[i] /\ c[i] = c[i - 1] + Len(parts[i])
  <2> SUFFICES ASSUME NEW i \in 1 .. n + 1
               PROVE  Len(h[i]) = c[i] /\ c[i] = c[i - 1] + Len(parts[i])
    OBVIOUS
  <2>1. CASE i = n + 1
    <3>1. i - 1 = n /\ parts[i] = p
      BY <2>1 DEF p
    <3>. QED BY <1>4, <1>6, <2>1, <3>1
  <2>2. CASE i # n + 1
    <3>1. i \in 1 .. n
      BY <2>2
    <3>2. h[i] = g[i] /\ c[i] = cut[i] /\ c[i - 1] = cut[i - 1]
      BY <1>5, <3>1
    <3>3. Len(g[i]) = cut[i] /\ cut[i] = cut[i - 1] + Len(parts[i])
      BY <1>3, <3>1
    <3>. QED BY <3>2, <3>3
  <2>. QED BY <2>1, <2>2
<1>10. ASSUME NEW i \in 1 .. n + 1, NEW j \in 1 .. i
       PROVE  c[j] <= c[i] /\ \A x \in 1 .. Len(parts[j]) : h[i][c[j - 1] + x] = parts[j][x]
  <2>1. CASE i # n + 1
    <3>1. i \in 1 .. n /\ j \in 1 .. n
      BY <2>1
    <3>2. h[i] = g[i] /\ c[i] = cut[i] /\ c[j] = cut[j] /\ c[j - 1] = cut[j - 1]
      BY <1>5, <3>1
    <3>3. cut[j] <= cut[i] /\ \A x \in 1 .. Len(parts[j]) : g[i][cut[j - 1] + x] = parts[j][x]
      BY <1>3, <3>1
    <3>. QED BY <3>2, <3>3
  <2>2. CASE i = n + 1 /\ j = n + 1
    <3>1. j - 1 = n /\ parts[j] = p
      BY <2>2 DEF p
    <3>2. h[i] = w /\ c[j - 1] = cut[n] /\ c[i] \in Nat
      BY <1>6, <1>7, <2>2, <3>1
    <3>3. ASSUME NEW x \in 1 .. Len(parts[j]) PROVE h[i][c[j - 1] + x] = parts[j][x]
      BY <1>4, <3>1, <3>2
    <3>4. c[j] <= c[i]
      BY <2>2, <3>2
    <3>. QED BY <3>3, <3>4
  <2>3. CASE i = n + 1 /\ j # n + 1
    <3>1. j \in 1 .. n /\ n \in 1 .. n /\ j \in 1 .. n
      BY <2>3
    <3>2. /\ cut[j] <= cut[n]
          /\ \A x \in 1 .. Len(parts[j]) : g[n][cut[j - 1] + x] = parts[j][x]
      BY <1>3, <3>1
    <3>3. cut[j] = cut[j - 1] + Len(parts[j]) /\ cut[j - 1] \in Nat /\ cut[j] \in Nat
      BY <1>3, <3>1
    <3>4. Len(parts[j]) \in Nat
      <4>1. j \in 1 .. Len(parts)
        BY <1>1, <3>1
      <4>. QED BY <4>1, ElementOfSeq DEF Line
    <3>5. c[j] = cut[j] /\ c[j - 1] = cut[j - 1] /\ h[i] = w /\ c[i] = cut[n] + Len(p)
      BY <1>5, <1>6, <2>3, <3>1
    <3>6. ASSUME NEW x \in 1 .. Len(parts[j]) PROVE w[cut[j - 1] + x] = parts[j][x]
      <4>1. cut[j - 1] + x \in 1 .. cut[n]
        <5>1. PICK a \in Nat, b \in Nat, k \in Nat :
                a = cut[j - 1] /\ b = Len(parts[j]) /\ k = cut[n]
          BY <1>4, <3>3, <3>4
        <5>2. a + b <= k /\ x \in 1 .. b
          BY <3>2, <3>3, <5>1
        <5>3. a + x \in 1 .. k
          BY <5>2
        <5>. QED BY <5>1, <5>3
      <4>2. w[cut[j - 1] + x] = g[n][cut[j - 1] + x]
        BY <1>4, <3>1, <4>1
      <4>. QED BY <3>2, <4>2
    <3>. QED BY <1>2, <1>4, <3>2, <3>3, <3>5, <3>6
  <2>. QED BY <2>1, <2>2, <2>3
<1>11. Built(parts, n + 1, h, c)
  BY <1>6, <1>7, <1>8, <1>9, <1>10 DEF Built
<1>. QED BY <1>11

(* The text is the parts, one behind the other, cut at cut.                *)
Cut(text, parts, cut) ==
  /\ text \in Line /\ cut \in [0 .. Len(parts) -> Nat]
  /\ cut[0] = 0 /\ cut[Len(parts)] = Len(text)
  /\ \A j \in 1 .. Len(parts) :
       /\ cut[j] = cut[j - 1] + Len(parts[j]) /\ cut[j] <= Len(text)
       /\ \A x \in 1 .. Len(parts[j]) : text[cut[j - 1] + x] = parts[j][x]

Flat(parts) ==
  CHOOSE f : f = [i \in 1 .. Len(parts) |-> IF i = 1 THEN parts[i] ELSE f[i - 1] \o parts[i]]

LEMMA FlattenIsCut ==
  ASSUME NEW parts \in Seq(Line)
  PROVE  \E cut : Cut(FlattenSeq(parts), parts, cut)
<1>1. PICK n \in Nat : n = Len(parts)
  OBVIOUS
<1>2. CASE n = 0
  <2>1. parts = <<>> /\ FlattenSeq(parts) = parts
    <3>1. Len(parts) = 0
      BY <1>1, <1>2
    <3>. QED BY <3>1, EmptySeq DEF FlattenSeq
  <2>2. Cut(<<>>, <<>>, [i \in 0 .. 0 |-> 0])
    <3>1. <<>> \in Line /\ Len(<<>>) = 0
      BY DEF Line
    <3>. QED BY <3>1 DEF Cut
  <2>. QED BY <2>1, <2>2
<1>3. CASE n # 0
  <2> DEFINE S == {i \in 0 .. n : \E g, cut : Built(parts, i, g, cut)}
  <2>1. 0 \in S
    <3>1. Built(parts, 0, [i \in 1 .. 0 |-> <<>>], [i \in 0 .. 0 |-> 0])
      BY DEF Built
    <3>. QED BY <3>1
  <2>2. ASSUME NEW i \in 0 .. n - 1, i \in S PROVE i + 1 \in S
    <3>1. PICK g, cut : Built(parts, i, g, cut)
      BY <2>2
    <3>2. i \in Nat /\ i < Len(parts) /\ i + 1 \in 0 .. n
      BY <1>1
    <3>. QED BY <3>1, <3>2, BuildNext
  <2>3. n \in S
    <3> HIDE DEF S
    <3>1. \A i \in 0 .. n : i \in S
      BY <2>1, <2>2, UpTo
    <3>. QED BY <3>1
  <2>4. PICK g, cut : Built(parts, n, g, cut)
    BY <2>3
  <2>5. g = [i \in 1 .. n |-> IF i = 1 THEN parts[i] ELSE g[i - 1] \o parts[i]]
    BY <2>4 DEF Built
  <2> DEFINE f == Flat(parts)
  <2>6. f = [i \in 1 .. n |-> IF i = 1 THEN parts[i] ELSE f[i - 1] \o parts[i]]
    BY <1>1, <2>5 DEF Flat
  <2>7. FlattenSeq(parts) = f[n]
    BY <1>1, <1>3 DEF FlattenSeq, Flat
  <2>8. f[n] = g[n]
    <3> HIDE DEF f
    <3> DEFINE T == {i \in 0 .. n : i = 0 \/ f[i] = g[i]}
    <3>1. 0 \in T
      OBVIOUS
    <3>2. ASSUME NEW i \in 0 .. n - 1, i \in T PROVE i + 1 \in T
      <4>1. i + 1 \in 1 .. n /\ (i + 1) - 1 = i
        OBVIOUS
      <4>2. /\ f[i + 1] = IF i + 1 = 1 THEN parts[i + 1] ELSE f[(i + 1) - 1] \o parts[i + 1]
            /\ g[i + 1] = IF i + 1 = 1 THEN parts[i + 1] ELSE g[(i + 1) - 1] \o parts[i + 1]
        BY <2>5, <2>6, <4>1
      <4>. QED BY <3>2, <4>1, <4>2
    <3>3. \A i \in 0 .. n : i \in T
      <4> HIDE DEF T
      <4>. QED BY <3>1, <3>2, UpTo
    <3>. QED BY <1>3, <3>3
  <2>9. Cut(g[n], parts, cut)
    <3>1. n \in 1 .. n
      BY <1>3
    <3>2. g[n] \in Line /\ Len(g[n]) = cut[n]
      BY <2>4, <3>1 DEF Built
    <3>3. \A j \in 1 .. n :
            /\ cut[j] = cut[j - 1] + Len(parts[j]) /\ cut[j] <= cut[n]
            /\ \A x \in 1 .. Len(parts[j]) : g[n][cut[j - 1] + x] = parts[j][x]
      BY <2>4, <3>1 DEF Built
    <3>4. cut \in [0 .. n -> Nat] /\ cut[0] = 0
      BY <2>4 DEF Built
    <3>. QED BY <1>1, <3>2, <3>3, <3>4 DEF Cut
  <2>. QED BY <2>7, <2>8, <2>9
<1>. QED BY <1>2, <1>3

(* What is left of a text behind its first n bytes. *)
After(text, n) == SubSeq(text, n + 1, Len(text))

LEMMA AfterIsLine ==
  ASSUME NEW text \in Line, NEW n \in Nat PROVE After(text, n) \in Line
<1>1. Len(text) \in Nat /\ n + 1 \in Int
  BY DEF Line
<1>2. \A i \in n + 1 .. Len(text) : text[i] \in STRING
  BY <1>1 DEF Line
<1>. QED BY <1>1, <1>2, SubSeqProperties DEF After, Line

LEMMA CutNext ==
  ASSUME NEW parts \in Seq(Line), NEW text \in Line, NEW cut \in [0 .. Len(parts) -> Nat],
         Cut(text, parts, cut), NEW k \in Nat, k < Len(parts)
  PROVE  /\ After(text, cut[k]) = parts[k + 1] \o After(text, cut[k + 1])
         /\ parts[k + 1] \in Line
         /\ After(text, cut[k + 1]) \in Line
<1> DEFINE w == parts[k + 1]
<1>1. /\ k + 1 \in 1 .. Len(parts) /\ k \in 0 .. Len(parts) /\ k + 1 \in 0 .. Len(parts)
      /\ (k + 1) - 1 = k
  OBVIOUS
<1>2. w \in Line /\ Len(w) \in Nat
  BY <1>1, ElementOfSeq DEF Line
<1>3. text \in Line /\ Len(text) \in Nat /\ cut[k] \in Nat /\ cut[k + 1] \in Nat
  <2>1. text \in Line /\ cut \in [0 .. Len(parts) -> Nat]
    BY DEF Cut
  <2>2. cut[k] \in Nat /\ cut[k + 1] \in Nat
    <3> HIDE DEF w
    <3>. QED BY <1>1, <2>1
  <2>. QED BY <2>1, <2>2 DEF Line
<1>4. /\ cut[k + 1] = cut[k] + Len(w) /\ cut[k + 1] <= Len(text)
      /\ \A x \in 1 .. Len(w) : text[cut[k] + x] = w[x]
  BY <1>1 DEF Cut
<1> HIDE DEF w
<1>5. PICK a \in Nat, b \in Nat, l \in Nat, m \in Nat :
        a = cut[k] /\ b = cut[k + 1] /\ l = Len(text) /\ m = Len(w)
  BY <1>2, <1>3
<1>6. b = a + m /\ b <= l
  BY <1>4, <1>5
<1>7. SubSeq(text, a + 1, b) = w
  <2>1. a + 1 \in Int /\ b \in Int /\ b - (a + 1) + 1 = m /\ (a + 1 <= b <=> m # 0)
    BY <1>6
  <2>2. \A i \in a + 1 .. b : text[i] \in STRING
    BY <1>3, <1>5, <1>6 DEF Line
  <2> DEFINE v == SubSeq(text, a + 1, b)
  <2>3. /\ v \in Line /\ Len(v) = IF a + 1 <= b THEN b - (a + 1) + 1 ELSE 0
        /\ \A i \in 1 .. b - (a + 1) + 1 : v[i] = text[(a + 1) + i - 1]
    BY <2>1, <2>2, SubSeqProperties DEF Line
  <2>4. Len(v) = m
    BY <2>1, <2>3
  <2>5. ASSUME NEW i \in 1 .. m PROVE v[i] = w[i]
    <3>1. i \in 1 .. b - (a + 1) + 1 /\ (a + 1) + i - 1 = a + i
      BY <2>1
    <3>2. v[i] = text[a + i]
      BY <2>3, <3>1
    <3>. QED BY <1>4, <1>5, <3>2
  <2> HIDE DEF v
  <2>. QED BY <1>2, <1>5, <2>3, <2>4, <2>5, SeqEqual DEF Line, v
<1>8. SubSeq(text, a + 1, b) \o SubSeq(text, b + 1, l) = SubSeq(text, a + 1, l)
  <2>1. a + 1 \in 1 .. Len(text) + 1 /\ b \in (a + 1) - 1 .. Len(text) /\ l \in b .. Len(text)
    BY <1>5, <1>6
  <2>. QED BY <1>3, <2>1, ConcatAdjacentSubSeq DEF Line
<1>9. After(text, a) = w \o After(text, b)
  BY <1>5, <1>7, <1>8 DEF After
<1>10. After(text, b) \in Line
  BY <1>3, AfterIsLine
<1>. QED BY <1>2, <1>5, <1>9, <1>10 DEF w

LEMMA CutEnds ==
  ASSUME NEW parts, NEW text, NEW cut, Cut(text, parts, cut), Len(parts) \in Nat
  PROVE  /\ After(text, cut[0]) = text
         /\ After(text, cut[Len(parts)]) = <<>>
<1>1. text \in Seq(STRING) /\ Len(text) \in Nat /\ cut[0] = 0 /\ cut[Len(parts)] = Len(text)
  BY DEF Cut, Line
<1>2. SubSeq(text, 1, Len(text)) = text
  BY <1>1, SubSeqFull
<1>3. SubSeq(text, Len(text) + 1, Len(text)) = <<>>
  BY <1>1, SubSeqEmpty
<1>. QED BY <1>1, <1>2, <1>3 DEF After

-----------------------------------------------------------------------------
(***************************************************************************)
(* Flattening: of no sequence, of one, and of one sequence of sequences    *)
(* behind another.                                                         *)
(***************************************************************************)
Flattens(parts, n, g) ==
  g = [i \in 1 .. n |-> IF i = 1 THEN parts[i] ELSE g[i - 1] \o parts[i]]

LEMMA FlattenAs ==
  ASSUME NEW S, NEW parts \in Seq(Seq(S)), NEW n \in Nat \ {0}, n = Len(parts),
         NEW g, Flattens(parts, n, g)
  PROVE  FlattenSeq(parts) = g[n]
<1> DEFINE f == Flat(parts)
           T == {i \in 0 .. n : i = 0 \/ f[i] = g[i]}
<1>1. g = [i \in 1 .. n |-> IF i = 1 THEN parts[i] ELSE g[i - 1] \o parts[i]]
  BY DEF Flattens
<1>2. f = [i \in 1 .. n |-> IF i = 1 THEN parts[i] ELSE f[i - 1] \o parts[i]]
  BY <1>1 DEF Flat
<1>3. FlattenSeq(parts) = f[n]
  BY DEF FlattenSeq, Flat
<1> HIDE DEF f
<1>4. 0 \in T
  OBVIOUS
<1>5. ASSUME NEW i \in 0 .. n - 1, i \in T PROVE i + 1 \in T
  <2>1. i + 1 \in 1 .. n /\ (i + 1) - 1 = i
    OBVIOUS
  <2>2. /\ f[i + 1] = IF i + 1 = 1 THEN parts[i + 1] ELSE f[(i + 1) - 1] \o parts[i + 1]
        /\ g[i + 1] = IF i + 1 = 1 THEN parts[i + 1] ELSE g[(i + 1) - 1] \o parts[i + 1]
    BY <1>1, <1>2, <2>1
  <2>. QED BY <1>5, <2>1, <2>2
<1>6. \A i \in 0 .. n : i \in T
  <2> HIDE DEF T
  <2>. QED BY <1>4, <1>5, UpTo
<1>. QED BY <1>3, <1>6

LEMMA FlattenExists ==
  ASSUME NEW S, NEW parts \in Seq(Seq(S)), NEW n \in 1 .. Len(parts)
  PROVE  \E g : Flattens(parts, n, g) /\ g[n] \in Seq(S)
<1> DEFINE T == {i \in 0 .. n : i = 0 \/ \E g : Flattens(parts, i, g) /\ g[i] \in Seq(S)}
<1>1. 0 \in T
  OBVIOUS
<1>2. ASSUME NEW i \in 0 .. n - 1, i \in T PROVE i + 1 \in T
  <2>1. i + 1 \in 1 .. n /\ (i + 1) - 1 = i /\ parts[i + 1] \in Seq(S)
    BY ElementOfSeq
  <2>2. CASE i = 0
    <3> DEFINE g == [j \in 1 .. 1 |-> parts[j]]
    <3>1. Flattens(parts, 1, g) /\ g[1] \in Seq(S)
      BY <2>1, <2>2 DEF Flattens
    <3>. QED BY <2>1, <2>2, <3>1
  <2>3. CASE i # 0
    <3>1. PICK g : Flattens(parts, i, g) /\ g[i] \in Seq(S)
      BY <1>2, <2>3
    <3> DEFINE h == [j \in 1 .. i + 1 |-> IF j <= i THEN g[j] ELSE g[i] \o parts[i + 1]]
    <3>2. g = [j \in 1 .. i |-> IF j = 1 THEN parts[j] ELSE g[j - 1] \o parts[j]]
      BY <3>1 DEF Flattens
    <3>3. ASSUME NEW j \in 1 .. i + 1
          PROVE  h[j] = IF j = 1 THEN parts[j] ELSE h[j - 1] \o parts[j]
      <4>1. CASE j <= i
        <5>1. j \in 1 .. i /\ (j # 1 => j - 1 \in 1 .. i /\ j - 1 <= i)
          BY <4>1
        <5>2. h[j] = g[j] /\ (j # 1 => h[j - 1] = g[j - 1])
          BY <5>1
        <5>3. g[j] = IF j = 1 THEN parts[j] ELSE g[j - 1] \o parts[j]
          BY <3>2, <5>1
        <5> HIDE DEF h
        <5>. QED BY <5>2, <5>3
      <4>2. CASE j = i + 1
        <5>1. j # 1 /\ j - 1 = i /\ ~(j <= i) /\ i \in 1 .. i + 1 /\ i <= i
          BY <2>3, <4>2
        <5>2. h[j] = g[i] \o parts[j] /\ h[i] = g[i]
          BY <4>2, <5>1
        <5> HIDE DEF h
        <5>. QED BY <5>1, <5>2
      <4>. QED BY <4>1, <4>2
    <3>4. h = [j \in 1 .. i + 1 |-> IF j = 1 THEN parts[j] ELSE h[j - 1] \o parts[j]]
      <4> DEFINE e(j) == IF j = 1 THEN parts[j] ELSE h[j - 1] \o parts[j]
      <4>1. h = [j \in 1 .. i + 1 |-> h[j]]
        OBVIOUS
      <4> HIDE DEF h
      <4>. QED BY <3>3, <4>1
    <3>5. h[i + 1] \in Seq(S)
      <4>1. h[i + 1] = g[i] \o parts[i + 1]
        <5>1. i + 1 \in 1 .. i + 1 /\ ~(i + 1 <= i)
          BY <2>3
        <5>. QED BY <5>1
      <4>. QED BY <2>1, <3>1, <4>1, ConcatProperties
    <3> HIDE DEF h
    <3>6. Flattens(parts, i + 1, h)
      BY <3>4 DEF Flattens
    <3>. QED BY <2>1, <3>5, <3>6
  <2>. QED BY <2>2, <2>3
<1>3. \A i \in 0 .. n : i \in T
  <2> HIDE DEF T
  <2>1. n \in Nat
    OBVIOUS
  <2>. QED BY <1>1, <1>2, <2>1, UpTo
<1>4. n \in 0 .. n /\ n # 0
  OBVIOUS
<1>. QED BY <1>3, <1>4

LEMMA FlattenNone == FlattenSeq(<<>>) = <<>>
BY DEF FlattenSeq

LEMMA FlattenType ==
  ASSUME NEW S, NEW parts \in Seq(Seq(S))
  PROVE  FlattenSeq(parts) \in Seq(S)
<1>1. CASE parts = <<>>
  BY <1>1, FlattenNone, EmptySeq
<1>2. CASE parts # <<>>
  <2>1. PICK n \in Nat \ {0} : n = Len(parts)
    BY <1>2, EmptySeq
  <2>2. PICK g : Flattens(parts, n, g) /\ g[n] \in Seq(S)
    BY <2>1, FlattenExists
  <2>. QED BY <2>1, <2>2, FlattenAs
<1>. QED BY <1>1, <1>2

LEMMA FlattenAppend ==
  ASSUME NEW S, NEW parts \in Seq(Seq(S)), NEW p \in Seq(S)
  PROVE  FlattenSeq(Append(parts, p)) = FlattenSeq(parts) \o p
<1> DEFINE more == Append(parts, p)
<1>1. PICK n \in Nat : n = Len(parts)
  OBVIOUS
<1>2. /\ more \in Seq(Seq(S)) /\ Len(more) = n + 1 /\ more[n + 1] = p
      /\ \A i \in 1 .. n : more[i] = parts[i]
  BY <1>1, AppendProperties
<1> HIDE DEF more
<1>3. n + 1 \in 1 .. Len(more) /\ n + 1 \in Nat \ {0}
  BY <1>2
<1>4. PICK h : Flattens(more, n + 1, h)
  BY <1>2, <1>3, FlattenExists
<1>5. FlattenSeq(more) = h[n + 1]
  BY <1>2, <1>3, <1>4, FlattenAs
<1>6. h = [i \in 1 .. n + 1 |-> IF i = 1 THEN more[i] ELSE h[i - 1] \o more[i]]
  BY <1>4 DEF Flattens
<1>7. h[n + 1] = IF n + 1 = 1 THEN more[n + 1] ELSE h[(n + 1) - 1] \o more[n + 1]
  <2>1. n + 1 \in 1 .. n + 1
    OBVIOUS
  <2>. QED BY <1>6, <2>1
<1>8. CASE n = 0
  <2>1. parts = <<>>
    BY <1>1, <1>8, EmptySeq
  <2>. QED BY <1>2, <1>5, <1>7, <1>8, <2>1, FlattenNone, ConcatEmptySeq DEF more
<1>9. CASE n # 0
  <2> DEFINE g == [i \in 1 .. n |-> h[i]]
  <2>1. ASSUME NEW i \in 1 .. n PROVE g[i] = IF i = 1 THEN parts[i] ELSE g[i - 1] \o parts[i]
    <3>1. /\ i \in 1 .. n + 1 /\ g[i] = h[i] /\ (i # 1 => i - 1 \in 1 .. n)
          /\ more[i] = parts[i]
      BY <1>2
    <3>2. i # 1 => g[i - 1] = h[i - 1]
      BY <3>1
    <3>3. h[i] = IF i = 1 THEN more[i] ELSE h[i - 1] \o more[i]
      BY <1>6, <3>1
    <3> HIDE DEF g
    <3>. QED BY <3>1, <3>2, <3>3
  <2>2. Flattens(parts, n, g)
    <3>1. g = [i \in 1 .. n |-> g[i]]
      OBVIOUS
    <3> HIDE DEF g
    <3>. QED BY <2>1, <3>1 DEF Flattens
  <2>3. g[n] = h[n] /\ (n + 1) - 1 = n /\ n + 1 # 1
    BY <1>9
  <2> HIDE DEF g
  <2>4. FlattenSeq(parts) = g[n]
    BY <1>1, <1>9, <2>2, FlattenAs
  <2>. QED BY <1>2, <1>5, <1>7, <2>3, <2>4 DEF more
<1>. QED BY <1>8, <1>9

LEMMA FlattenOne ==
  ASSUME NEW S, NEW p \in Seq(S)
  PROVE  FlattenSeq(<<p>>) = p
<1>1. <<>> \in Seq(Seq(S)) /\ Append(<<>>, p) = <<p>>
  OBVIOUS
<1>2. FlattenSeq(Append(<<>>, p)) = FlattenSeq(<<>>) \o p
  BY <1>1, FlattenAppend
<1>. QED BY <1>1, <1>2, FlattenNone, ConcatEmptySeq

LEMMA FlattenConcat ==
  ASSUME NEW S, NEW parts \in Seq(Seq(S)), NEW more \in Seq(Seq(S))
  PROVE  FlattenSeq(parts \o more) = FlattenSeq(parts) \o FlattenSeq(more)
<1> DEFINE first(i) == SubSeq(more, 1, i)
           T == {i \in 0 .. Len(more) :
                   FlattenSeq(parts \o first(i)) = FlattenSeq(parts) \o FlattenSeq(first(i))}
<1>1. PICK n \in Nat : n = Len(more)
  OBVIOUS
<1>2. 0 \in T
  <2>1. first(0) = <<>> /\ FlattenSeq(parts) \in Seq(S)
    BY FlattenType, SubSeqEmpty
  <2>2. parts \o <<>> = parts /\ FlattenSeq(parts) \o <<>> = FlattenSeq(parts)
    BY <2>1, ConcatEmptySeq
  <2>3. 0 \in 0 .. Len(more)
    BY <1>1
  <2>4. FlattenSeq(parts \o first(0)) = FlattenSeq(parts) \o FlattenSeq(first(0))
    BY <2>1, <2>2, FlattenNone
  <2>. QED BY <2>3, <2>4
<1>3. ASSUME NEW i \in 0 .. n - 1, i \in T PROVE i + 1 \in T
  <2> DEFINE m == first(i)
             p == more[i + 1]
  <2>1. p \in Seq(S) /\ i + 1 \in 0 .. n /\ i + 1 \in 1 .. Len(more)
    BY <1>1, ElementOfSeq
  <2>2. m \in Seq(Seq(S))
    <3>1. \A k \in 1 .. i : more[k] \in Seq(S)
      BY <1>1, ElementOfSeq
    <3>. QED BY <3>1, SubSeqProperties
  <2>3. first(i + 1) = m \o <<p>>
    <3>1. 1 \in 1 .. Len(more) /\ i + 1 \in 1 .. Len(more) /\ (i + 1) - 1 = i
      BY <2>1
    <3>2. SubSeq(more, 1, i + 1) = SubSeq(more, 1, (i + 1) - 1) \o <<more[i + 1]>>
      BY <3>1, SubSeqRecursiveSecond
    <3>. QED BY <3>1, <3>2
  <2>4. FlattenSeq(parts \o m) = FlattenSeq(parts) \o FlattenSeq(m)
    BY <1>3
  <2> HIDE DEF m, p
  <2>5. first(i + 1) = Append(m, p) /\ parts \o first(i + 1) = Append(parts \o m, p)
    <3>1. Append(m, p) = m \o <<p>> /\ <<p>> \in Seq(Seq(S)) /\ parts \o m \in Seq(Seq(S))
      BY <2>1, <2>2, AppendIsConcat, ConcatProperties
    <3>2. Append(parts \o m, p) = (parts \o m) \o <<p>>
      BY <2>1, <3>1, AppendIsConcat
    <3>3. (parts \o m) \o <<p>> = parts \o (m \o <<p>>)
      <4> DEFINE Q == Seq(S)
      <4>1. parts \in Seq(Q) /\ m \in Seq(Q) /\ <<p>> \in Seq(Q)
        BY <2>2, <3>1
      <4> HIDE DEF Q
      <4>. QED BY ONLY <4>1, ConcatAssociative
    <3> HIDE DEF first
    <3>. QED BY <2>3, <3>1, <3>2, <3>3
  <2> HIDE DEF first
  <2>6. FlattenSeq(first(i + 1)) = FlattenSeq(m) \o p
    BY <2>1, <2>2, <2>5, FlattenAppend
  <2>7. FlattenSeq(parts \o first(i + 1)) = (FlattenSeq(parts) \o FlattenSeq(m)) \o p
    <3>1. parts \o m \in Seq(Seq(S))
      BY <2>2, ConcatProperties
    <3>. QED BY <2>1, <2>4, <2>5, <3>1, FlattenAppend
  <2>8. FlattenSeq(parts) \in Seq(S) /\ FlattenSeq(m) \in Seq(S)
    BY <2>2, FlattenType
  <2>9. (FlattenSeq(parts) \o FlattenSeq(m)) \o p = FlattenSeq(parts) \o (FlattenSeq(m) \o p)
    <3>1. PICK a \in Seq(S), b \in Seq(S), c \in Seq(S) :
            a = FlattenSeq(parts) /\ b = FlattenSeq(m) /\ c = p
      BY <2>1, <2>8
    <3>2. (a \o b) \o c = a \o (b \o c)
      BY ConcatAssociative
    <3>. QED BY <3>1, <3>2
  <2>. QED BY <1>1, <2>1, <2>6, <2>7, <2>9
<1>4. \A i \in 0 .. n : i \in T
  <2> HIDE DEF T
  <2>. QED BY <1>2, <1>3, UpTo
<1>5. n \in T /\ first(n) = more
  BY <1>1, <1>4, SubSeqFull
<1> HIDE DEF first
<1>. QED BY <1>5

-----------------------------------------------------------------------------
(***************************************************************************)
(* Where the scans cut a text.                                             *)
(***************************************************************************)
LEMMA Divided2 ==
  ASSUME NEW s \in Line, NEW n \in 0 .. Len(s)
  PROVE  /\ SubSeq(s, 1, n) \in Line /\ SubSeq(s, n + 1, Len(s)) \in Line
         /\ s = SubSeq(s, 1, n) \o SubSeq(s, n + 1, Len(s))
         /\ Len(SubSeq(s, 1, n)) = n /\ Len(SubSeq(s, n + 1, Len(s))) = Len(s) - n
         /\ \A i \in 1 .. n : SubSeq(s, 1, n)[i] = s[i]
         /\ \A i \in 1 .. Len(s) - n : SubSeq(s, n + 1, Len(s))[i] = s[n + i]
<1>1. PICK l \in Nat : l = Len(s)
  BY DEF Line
<1>2. n \in Nat /\ n \in 0 .. l
  BY <1>1
<1>3. \A i \in 1 .. l : s[i] \in STRING
  BY <1>1 DEF Line
<1>4. /\ SubSeq(s, 1, n) \in Line /\ Len(SubSeq(s, 1, n)) = n
      /\ \A i \in 1 .. n : SubSeq(s, 1, n)[i] = s[i]
  BY <1>2, <1>3, SubSeqProperties DEF Line
<1>5. /\ SubSeq(s, n + 1, l) \in Line /\ Len(SubSeq(s, n + 1, l)) = l - n
      /\ \A i \in 1 .. l - n : SubSeq(s, n + 1, l)[i] = s[n + i]
  BY <1>2, <1>3, SubSeqProperties DEF Line
<1>6. SubSeq(s, 1, n) \o SubSeq(s, n + 1, l) = SubSeq(s, 1, l) /\ SubSeq(s, 1, l) = s
  <2>1. 1 \in 1 .. Len(s) + 1 /\ n \in 1 - 1 .. Len(s) /\ l \in n .. Len(s)
    BY <1>1, <1>2
  <2>. QED BY <1>1, <2>1, ConcatAdjacentSubSeq, SubSeqFull DEF Line
<1>. QED BY <1>1, <1>4, <1>5, <1>6

LEMMA BeforeCuts ==
  ASSUME NEW s \in Line, NEW end \in Bytes
  PROVE  \E b \in Line, c \in Line :
           /\ s = b \o c /\ Avoids(b, end) /\ StartsIn(c, end)
           /\ Before[s][end] = b
           /\ Behind[s][end] = IF c = <<>> THEN <<>> ELSE Tail(c)
<1> DEFINE I == {i \in 1 .. Len(s) : s[i] \in end}
<1>1. ASSUME I = {} PROVE \E b \in Line, c \in Line : s = b \o c /\ Avoids(b, end) /\ StartsIn(c, end)
  <2>1. s = s \o <<>> /\ <<>> \in Line
    BY ConcatEmptySeq, EmptySeq DEF Line
  <2>2. Avoids(s, end) /\ StartsIn(<<>>, end)
    BY <1>1 DEF Avoids, StartsIn
  <2>. QED BY <2>1, <2>2
<1>2. ASSUME I # {} PROVE \E b \in Line, c \in Line : s = b \o c /\ Avoids(b, end) /\ StartsIn(c, end)
  <2>1. PICK l \in Nat : l = Len(s)
    BY DEF Line
  <2>2. PICK n \in I : \A j \in I : n <= j
    <3>1. I \subseteq Nat
      BY <2>1
    <3> HIDE DEF I
    <3>. QED BY <1>2, <3>1, Least
  <2>3. n \in 1 .. l /\ s[n] \in end /\ n - 1 \in 0 .. l /\ n - 1 \in 0 .. Len(s)
    BY <2>1
  <2> DEFINE b == SubSeq(s, 1, n - 1)
             c == SubSeq(s, (n - 1) + 1, Len(s))
  <2>4. /\ b \in Line /\ c \in Line /\ s = b \o c /\ Len(b) = n - 1 /\ Len(c) = l - (n - 1)
        /\ \A i \in 1 .. n - 1 : b[i] = s[i]
        /\ \A i \in 1 .. l - (n - 1) : c[i] = s[(n - 1) + i]
    BY <2>1, <2>3, Divided2
  <2> HIDE DEF b, c
  <2>5. Avoids(b, end)
    <3>1. ASSUME NEW i \in 1 .. n - 1 PROVE s[i] \notin end
      <4>1. i \in 1 .. Len(s) /\ ~(n <= i)
        BY <2>1, <2>3
      <4>. QED BY <2>2, <4>1
    <3>. QED BY <2>4, <3>1 DEF Avoids
  <2>6. c[1] = s[n]
    <3>1. 1 \in 1 .. l - (n - 1) /\ (n - 1) + 1 = n
      BY <2>3
    <3>. QED BY <2>4, <3>1
  <2>. QED BY <2>3, <2>4, <2>5, <2>6 DEF StartsIn
<1>3. PICK b \in Line, c \in Line : s = b \o c /\ Avoids(b, end) /\ StartsIn(c, end)
  BY <1>1, <1>2
<1>4. /\ Before[b \o c][end] = b
      /\ Behind[b \o c][end] = IF c = <<>> THEN <<>> ELSE Tail(c)
  BY <1>3, BeforeStops
<1>5. Before[s][end] = b /\ Behind[s][end] = IF c = <<>> THEN <<>> ELSE Tail(c)
  BY <1>3, <1>4
<1>. QED BY <1>3, <1>5

LEMMA FromCuts ==
  ASSUME NEW s \in Line, NEW drop \in Bytes
  PROVE  \E a \in Line, b \in Line :
           /\ s = a \o b /\ AllIn(a, drop) /\ (b # <<>> => b[1] \notin drop)
           /\ From[s][drop] = b
<1> DEFINE I == {i \in 1 .. Len(s) : s[i] \notin drop}
<1>1. ASSUME I = {} PROVE \E a \in Line, b \in Line :
                 s = a \o b /\ AllIn(a, drop) /\ (b # <<>> => b[1] \notin drop)
  <2>1. s = s \o <<>> /\ <<>> \in Line
    BY ConcatEmptySeq, EmptySeq DEF Line
  <2>2. AllIn(s, drop)
    BY <1>1 DEF AllIn
  <2>. QED BY <2>1, <2>2
<1>2. ASSUME I # {} PROVE \E a \in Line, b \in Line :
                 s = a \o b /\ AllIn(a, drop) /\ (b # <<>> => b[1] \notin drop)
  <2>1. PICK l \in Nat : l = Len(s)
    BY DEF Line
  <2>2. PICK n \in I : \A j \in I : n <= j
    <3>1. I \subseteq Nat
      BY <2>1
    <3> HIDE DEF I
    <3>. QED BY <1>2, <3>1, Least
  <2>3. n \in 1 .. l /\ s[n] \notin drop /\ n - 1 \in 0 .. l /\ n - 1 \in 0 .. Len(s)
    BY <2>1
  <2> DEFINE a == SubSeq(s, 1, n - 1)
             b == SubSeq(s, (n - 1) + 1, Len(s))
  <2>4. /\ a \in Line /\ b \in Line /\ s = a \o b /\ Len(a) = n - 1 /\ Len(b) = l - (n - 1)
        /\ \A i \in 1 .. n - 1 : a[i] = s[i]
        /\ \A i \in 1 .. l - (n - 1) : b[i] = s[(n - 1) + i]
    BY <2>1, <2>3, Divided2
  <2> HIDE DEF a, b
  <2>5. AllIn(a, drop)
    <3>1. ASSUME NEW i \in 1 .. n - 1 PROVE s[i] \in drop
      <4>1. i \in 1 .. Len(s) /\ ~(n <= i)
        BY <2>1, <2>3
      <4>. QED BY <2>2, <4>1
    <3>. QED BY <2>4, <3>1 DEF AllIn
  <2>6. b[1] = s[n]
    <3>1. 1 \in 1 .. l - (n - 1) /\ (n - 1) + 1 = n
      BY <2>3
    <3>. QED BY <2>4, <3>1
  <2>. QED BY <2>3, <2>4, <2>5, <2>6
<1>3. PICK a \in Line, b \in Line : s = a \o b /\ AllIn(a, drop) /\ (b # <<>> => b[1] \notin drop)
  BY <1>1, <1>2
<1>4. From[a \o b][drop] = b
  BY <1>3, FromSkips
<1>5. From[s][drop] = b
  BY <1>3, <1>4
<1>. QED BY <1>3, <1>5

(* Trimmed stops at the last byte that is not in drop. *)
EndsOutside(s, drop) == s # <<>> => s[Len(s)] \notin drop

LEMMA TrimmedStops ==
  ASSUME NEW s \in Line, NEW t \in Line, NEW drop \in Bytes, EndsOutside(s, drop), AllIn(t, drop)
  PROVE  Trimmed[s \o t][drop] = s
<1> DEFINE w == s \o t
           l == Len(s)
           I == {i \in 1 .. Len(w) : w[i] \notin drop}
           n == IF I # {} THEN Max(I) ELSE 0
<1>1. /\ w \in Line /\ Len(w) = l + Len(t) /\ l \in Nat /\ Len(t) \in Nat
      /\ \A i \in 1 .. l : w[i] = s[i]
      /\ \A i \in 1 .. Len(t) : w[l + i] = t[i]
  BY JoinedLine
<1>2. Trimmed[w][drop] = SubSeq(w, 1, n)
  BY <1>1 DEF Trimmed, SelectLastInSeq
<1>3. PICK a \in Nat, b \in Nat : a = l /\ b = Len(t)
  BY <1>1
<1>4. ASSUME NEW i \in I PROVE i \in 1 .. a
  <2>1. i \in 1 .. a + b /\ w[i] \notin drop
    BY <1>1, <1>3
  <2>2. CASE i > a
    <3>1. i - a \in 1 .. b /\ a + (i - a) = i
      BY <2>1, <2>2
    <3>2. w[a + (i - a)] = t[i - a]
      BY <1>1, <1>3, <3>1
    <3>. QED BY <1>3, <2>1, <3>1, <3>2 DEF AllIn
  <2>. QED BY <2>1, <2>2
<1>5. n = a
  <2>1. CASE s = <<>>
    <3>1. a = 0
      BY <1>3, <2>1, NonEmpty
    <3>2. I = {}
      <4> HIDE DEF I
      <4>. QED BY <1>4, <3>1
    <3>. QED BY <3>1, <3>2
  <2>2. CASE s # <<>>
    <3>1. a # 0 /\ a \in 1 .. a
      BY <1>3, <2>2, NonEmpty
    <3>2. a \in I
      <4>1. w[a] = s[a] /\ s[a] \notin drop
        BY <1>1, <1>3, <2>2, <3>1 DEF EndsOutside
      <4>2. a \in 1 .. Len(w)
        BY <1>1, <1>3, <3>1
      <4>. QED BY <4>1, <4>2
    <3>3. I \subseteq Nat /\ \A i \in I : i <= a
      <4> HIDE DEF I
      <4>. QED BY <1>4
    <3>4. n = Max(I)
      BY <3>2
    <3> HIDE DEF I, n
    <3>. QED BY <3>2, <3>3, <3>4, MaxIs
  <2>. QED BY <2>1, <2>2
<1> HIDE DEF n, w
<1>. QED BY <1>2, <1>3, <1>5, SplitLine DEF w

LEMMA TrimmedCuts ==
  ASSUME NEW s \in Line, NEW drop \in Bytes
  PROVE  \E b \in Line, c \in Line :
           /\ s = b \o c /\ EndsOutside(b, drop) /\ AllIn(c, drop)
           /\ Trimmed[s][drop] = b
<1> DEFINE I == {i \in 1 .. Len(s) : s[i] \notin drop}
<1>1. ASSUME I = {} PROVE \E b \in Line, c \in Line : s = b \o c /\ EndsOutside(b, drop) /\ AllIn(c, drop)
  <2>1. s = <<>> \o s /\ <<>> \in Line
    BY ConcatEmptySeq, EmptySeq DEF Line
  <2>2. EndsOutside(<<>>, drop) /\ AllIn(s, drop)
    BY <1>1 DEF EndsOutside, AllIn
  <2>. QED BY <2>1, <2>2
<1>2. ASSUME I # {} PROVE \E b \in Line, c \in Line : s = b \o c /\ EndsOutside(b, drop) /\ AllIn(c, drop)
  <2>1. PICK l \in Nat : l = Len(s)
    BY DEF Line
  <2>2. PICK n \in I : \A j \in I : n >= j
    <3>1. I \subseteq 1 .. l
      BY <2>1
    <3> HIDE DEF I
    <3>. QED BY <1>2, <3>1, Greatest
  <2>3. n \in 1 .. l /\ s[n] \notin drop /\ n \in 0 .. Len(s)
    BY <2>1
  <2> DEFINE b == SubSeq(s, 1, n)
             c == SubSeq(s, n + 1, Len(s))
  <2>4. /\ b \in Line /\ c \in Line /\ s = b \o c /\ Len(b) = n /\ Len(c) = l - n
        /\ \A i \in 1 .. n : b[i] = s[i]
        /\ \A i \in 1 .. l - n : c[i] = s[n + i]
    BY <2>1, <2>3, Divided2
  <2> HIDE DEF b, c
  <2>5. AllIn(c, drop)
    <3>1. ASSUME NEW i \in 1 .. l - n PROVE s[n + i] \in drop
      <4>1. n + i \in 1 .. Len(s) /\ ~(n >= n + i)
        BY <2>1, <2>3
      <4>. QED BY <2>2, <4>1
    <3>. QED BY <2>4, <3>1 DEF AllIn
  <2>6. EndsOutside(b, drop)
    BY <2>3, <2>4 DEF EndsOutside
  <2>. QED BY <2>4, <2>5, <2>6
<1>3. PICK b \in Line, c \in Line : s = b \o c /\ EndsOutside(b, drop) /\ AllIn(c, drop)
  BY <1>1, <1>2
<1>4. Trimmed[b \o c][drop] = b
  BY <1>3, TrimmedStops
<1>5. Trimmed[s][drop] = b
  BY <1>3, <1>4
<1>. QED BY <1>3, <1>5

=============================================================================
