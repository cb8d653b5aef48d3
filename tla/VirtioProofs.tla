------------------------------ MODULE VirtioProofs ------------------------------
(***************************************************************************)
(* Proofs about Virtio, for any sizes of the queues that divide the range  *)
(* of their positions, any number of items and any room for them.          *)
(***************************************************************************)
EXTENDS Virtio, SequenceTheorems, FiniteSetTheorems, TLAPS

-------------------------------------------------------------------------------
(* Division.                                                               *)
LEMMA DivMod ==
  ASSUME NEW x \in Int, NEW S \in Nat, S > 0
  PROVE  x = S * (x \div S) + (x % S) /\ x \div S \in Int /\ x % S \in 0..(S - 1)
OBVIOUS

LEMMA DivisionUnique ==
  ASSUME NEW S \in Nat, S > 0, NEW k \in Int, NEW j \in Int,
         NEW r \in 0..(S - 1), NEW t \in 0..(S - 1), S * k + r = S * j + t
  PROVE  k = j /\ r = t
<1>1. S * (k - j) = t - r
  OBVIOUS
<1>2. CASE k - j >= 1
  <2>1. S * (k - j) >= S
    BY <1>2
  <2> QED
    BY <2>1, <1>1
<1>3. CASE k - j <= -1
  <2>1. S * (k - j) <= -S
    BY <1>3
  <2> QED
    BY <2>1, <1>1
<1>4. CASE k = j
  BY <1>4
<1> QED
  BY <1>2, <1>3, <1>4

LEMMA RemainderIs ==
  ASSUME NEW S \in Nat, S > 0, NEW k \in Int, NEW r \in 0..(S - 1)
  PROVE  (S * k + r) % S = r
<1> DEFINE x == S * k + r
<1>1. x \in Int
  OBVIOUS
<1> HIDE DEF x
<1>2. x = S * (x \div S) + (x % S) /\ x \div S \in Int /\ x % S \in 0..(S - 1)
  BY <1>1, DivMod
<1>3. S * k + r = S * (x \div S) + (x % S)
  BY <1>2 DEF x
<1> QED
  BY <1>2, <1>3, DivisionUnique DEF x

(* A multiple of the divisor changes nothing.                              *)
LEMMA RemainderPlus ==
  ASSUME NEW S \in Nat, S > 0, NEW m \in Int, NEW x \in Int
  PROVE  (x + S * m) % S = x % S
<1> DEFINE k == x \div S
           r == x % S
<1>1. x = S * k + r /\ k \in Int /\ r \in 0..(S - 1)
  BY DivMod
<1> HIDE DEF k, r
<1>2. x + S * m = S * (k + m) + r
  BY <1>1
<1>3. (x + S * m) % S = r
  BY <1>1, <1>2, RemainderIs
<1> QED
  BY <1>3 DEF r

(* Numbers less than S apart leave different remainders.                   *)
LEMMA RemaindersApart ==
  ASSUME NEW S \in Nat, S > 0, NEW x \in Int, NEW i \in 1..(S - 1)
  PROVE  (x + i) % S # x % S
<1> DEFINE k == x \div S
           j == (x + i) \div S
           r == x % S
<1>1. x = S * k + r /\ k \in Int /\ r \in 0..(S - 1)
  BY DivMod
<1>2. x + i = S * j + ((x + i) % S) /\ j \in Int
  BY DivMod
<1> HIDE DEF k, j, r
<1> SUFFICES ASSUME (x + i) % S = r PROVE FALSE
  BY DEF r
<1>3. S * (j - k) + 0 = S * 0 + i
  BY <1>1, <1>2
<1> QED
  BY <1>3, <1>1, <1>2, DivisionUnique

-------------------------------------------------------------------------------
(* Positions, of a queue of S whose positions wrap at W.                   *)
Sizes(W, S) == S \in Nat \ {0} /\ W \in Nat /\ S < W /\ W % S = 0
Slot(W, S, p, i) == ((p + i - 1) % W) % S

LEMMA SlotIs ==
  ASSUME NEW W, NEW S, Sizes(W, S), NEW p \in Int, NEW i \in Int
  PROVE  Slot(W, S, p, i) = (p + i - 1) % S /\ Slot(W, S, p, i) \in 0..(S - 1)
<1>0. S \in Nat /\ S > 0 /\ W \in Nat /\ W > 1
  BY DEF Sizes
<1> DEFINE x == p + i - 1
           k == x \div W
           m == W \div S
<1>1. x = W * k + (x % W) /\ k \in Int /\ x % W \in 0..(W - 1)
  BY DivMod DEF Sizes
<1>2. W = S * m /\ m \in Int
  BY DivMod DEF Sizes
<1>3. x \in Int
  OBVIOUS
<1> HIDE DEF x, k, m
<1>4. x = (x % W) + S * (m * k) /\ m * k \in Int
  BY <1>1, <1>2 DEF Sizes
<1>5. ((x % W) + S * (m * k)) % S = (x % W) % S
  <2>1. \A a, b \in Int : (a + S * b) % S = a % S
    BY <1>0, RemainderPlus, Zenon
  <2>2. x % W \in Int
    BY <1>1 DEF Sizes
  <2> QED
    BY <1>4, <2>1, <2>2
<1>6. x % S = (x % W) % S
  BY <1>4, <1>5
<1>7. x % S \in 0..(S - 1)
  BY <1>3, DivMod DEF Sizes
<1> QED
  BY <1>6, <1>7 DEF Slot, x

LEMMA SlotsApart ==
  ASSUME NEW W, NEW S, Sizes(W, S), NEW p \in Int, NEW i \in Int, NEW j \in Int,
         i < j, j - i < S
  PROVE  Slot(W, S, p, i) # Slot(W, S, p, j)
<1>1. ((p + i - 1) + (j - i)) % S # (p + i - 1) % S
  BY RemaindersApart DEF Sizes
<1>2. (p + i - 1) + (j - i) = p + j - 1
  OBVIOUS
<1> QED
  BY <1>1, <1>2, SlotIs

LEMMA SlotNext ==
  ASSUME NEW W, NEW S, Sizes(W, S), NEW p \in 0..(W - 1), NEW i \in Int
  PROVE  Slot(W, S, (p + 1) % W, i) = Slot(W, S, p, i + 1)
<1>0. S \in Nat /\ S > 0 /\ W \in Nat /\ W > 1
  BY DEF Sizes
<1> DEFINE m == W \div S
<1>1. W = S * m /\ m \in Int
  BY DivMod DEF Sizes
<1> HIDE DEF m
<1>2. (p + 1) % W = p + 1 \/ (p + 1) % W = p + 1 - W
  BY DEF Sizes
<1>3. ((p + i) + S * (-m)) % S = (p + i) % S
  <2>1. \A a, b \in Int : (a + S * b) % S = a % S
    BY <1>0, RemainderPlus, Zenon
  <2>2. -m \in Int /\ p + i \in Int
    BY <1>1
  <2> QED
    BY <2>1, <2>2
<1>4. (p + i) + S * (-m) = p + i - W
  BY <1>1 DEF Sizes
<1>5. (((p + 1) % W) + i - 1) % S = (p + i) % S
  BY <1>2, <1>3, <1>4 DEF Sizes
<1>6. (p + 1) % W \in Int
  BY <1>2 DEF Sizes
<1> QED
  BY <1>5, <1>6, SlotIs

(* How far one position is from another.                                   *)
LEMMA Distance ==
  ASSUME NEW W \in Nat, W > 1, NEW from \in 0..(W - 1), NEW to \in 0..(W - 1)
  PROVE  /\ (to - from) % W \in 0..(W - 1)
         /\ (to - from) % W = 0 <=> to = from
         /\ from + ((to - from) % W) = to \/ from + ((to - from) % W) = to + W
         /\ (to + 1) % W \in 0..(W - 1)
         /\ ((to - from) % W) + 1 < W => (((to + 1) % W) - from) % W = ((to - from) % W) + 1
         /\ to # from => (to - ((from + 1) % W)) % W = ((to - from) % W) - 1
<1>1. CASE to >= from
  <2>1. (to - from) % W = to - from
    BY <1>1
  <2>2. (to + 1) % W = IF to + 1 = W THEN 0 ELSE to + 1
    OBVIOUS
  <2>3. to - from + 1 < W => (((to + 1) % W) - from) % W = to - from + 1
    BY <1>1, <2>2
  <2>4. to # from => (from + 1) % W = from + 1 /\ (to - (from + 1)) % W = to - from - 1
    BY <1>1
  <2> QED
    BY <1>1, <2>1, <2>2, <2>3, <2>4
<1>2. CASE to < from
  <2>1. (to - from) % W = to - from + W
    BY <1>2
  <2>2. (to + 1) % W = to + 1
    BY <1>2
  <2>3. to - from + W + 1 < W => (to + 1 - from) % W = to - from + W + 1
    BY <1>2
  <2>4. (from + 1) % W = IF from + 1 = W THEN 0 ELSE from + 1
    OBVIOUS
  <2>5. (to - ((from + 1) % W)) % W = to - from + W - 1
    BY <1>2, <2>4
  <2> QED
    BY <1>2, <2>1, <2>2, <2>3, <2>5
<1> QED
  BY <1>1, <1>2

LEMMA SlotAtEnd ==
  ASSUME NEW W, NEW S, Sizes(W, S), NEW from \in 0..(W - 1), NEW to \in 0..(W - 1)
  PROVE  Slot(W, S, from, ((to - from) % W) + 1) = to % S
<1>0. S \in Nat /\ S > 0 /\ W \in Nat /\ W > 1
  BY DEF Sizes
<1> DEFINE m == W \div S
           n == (to - from) % W
<1>1. W = S * m /\ m \in Int
  BY DivMod DEF Sizes
<1>2. n \in Int /\ (from + n = to \/ from + n = to + W)
  <2>1. n \in 0..(W - 1) /\ (from + n = to \/ from + n = to + W)
    BY <1>0, Distance, ZenonT(60)
  <2> QED
    BY <1>0, <2>1
<1> HIDE DEF m, n
<1>3. (to + S * m) % S = to % S
  <2>1. \A a, b \in Int : (a + S * b) % S = a % S
    BY <1>0, RemainderPlus, Zenon
  <2> QED
    BY <1>1, <2>1
<1>4. (from + n) % S = to % S
  BY <1>1, <1>2, <1>3
<1>5. Slot(W, S, from, n + 1) = (from + n) % S
  <2>1. Slot(W, S, from, n + 1) = (from + (n + 1) - 1) % S
    BY <1>2, SlotIs
  <2>2. from + (n + 1) - 1 = from + n
    BY <1>2
  <2> QED
    BY <2>1, <2>2
<1> QED
  BY <1>4, <1>5 DEF n

-------------------------------------------------------------------------------
(* Part of a ring, from one position up to another.                        *)
Span(W, S, f, from, to) == [i \in 1..((to - from) % W) |-> f[Slot(W, S, from, i)]]

Spans(s, W, S, X, f, from, n) ==
  s \in Seq(X) /\ Len(s) = n /\ \A i \in 1..n : s[i] = f[Slot(W, S, from, i)]

LEMMA SpanType ==
  ASSUME NEW W, NEW S, Sizes(W, S), NEW X, NEW f \in [0..(S - 1) -> X],
         NEW from \in 0..(W - 1), NEW to \in 0..(W - 1)
  PROVE  Spans(Span(W, S, f, from, to), W, S, X, f, from, (to - from) % W)
<1> DEFINE n == (to - from) % W
           s == Span(W, S, f, from, to)
<1>1. n \in Nat
  <2>1. W \in Nat /\ W > 1
    BY DEF Sizes
  <2>2. n \in 0..(W - 1)
    BY <2>1, Distance, Zenon
  <2> QED
    BY <2>1, <2>2
<1>2. \A i \in 1..n : Slot(W, S, from, i) \in 0..(S - 1)
  <2>1. \A i \in Int : Slot(W, S, from, i) \in 0..(S - 1)
    <3>1. W \in Nat /\ from \in Int
      BY DEF Sizes
    <3> QED
      BY <3>1, SlotIs, Zenon
  <2> QED
    BY <1>1, <2>1
<1>3. s = [i \in 1..n |-> f[Slot(W, S, from, i)]]
  BY DEF Span
<1> HIDE DEF n, s
<1>4. s \in [1..n -> X]
  BY <1>2, <1>3
<1>5. s \in Seq(X)
  BY <1>1, <1>4, SeqDef
<1>6. Len(s) = n
  BY <1>1, <1>4, <1>5, LenProperties
<1> QED
  BY <1>3, <1>5, <1>6 DEF n, s, Spans

(* One more at the end,                                                    *)
Written(g, f, i, x) == g = [f EXCEPT ![i] = x]
Grows(W, S, f, g, from, to, x) ==
  Span(W, S, g, from, (to + 1) % W) = Append(Span(W, S, f, from, to), x)

LEMMA WrittenType ==
  ASSUME NEW D, NEW X, NEW f \in [D -> X], NEW i, NEW x \in X, NEW g, Written(g, f, i, x)
  PROVE  g \in [D -> X]
  BY DEF Written

LEMMA SpanGrows ==
  ASSUME NEW W, NEW S, Sizes(W, S), NEW X, NEW f \in [0..(S - 1) -> X],
         NEW from \in 0..(W - 1), NEW to \in 0..(W - 1), NEW x \in X,
         Len(Span(W, S, f, from, to)) < S,
         NEW g, Written(g, f, to % S, x)
  PROVE  Grows(W, S, f, g, from, to, x)
<1> DEFINE n == (to - from) % W
           s == Span(W, S, f, from, to)
           t == Span(W, S, g, from, (to + 1) % W)
<1>0. S \in Nat /\ S > 0 /\ W \in Nat /\ W > 1 /\ S < W
  BY DEF Sizes
<1>1. /\ s \in Seq(X) /\ Len(s) = n
      /\ \A i \in 1..n : s[i] = f[Slot(W, S, from, i)]
  <2>1. Spans(s, W, S, X, f, from, n)
    BY SpanType, Zenon
  <2> QED
    BY <2>1 DEF Spans
<1>2. n \in 0..(W - 1) /\ (to + 1) % W \in 0..(W - 1)
  BY <1>0, Distance, Zenon
<1>3. n + 1 < W
  BY <1>0, <1>1, <1>2
<1>4. (((to + 1) % W) - from) % W = n + 1
  BY <1>0, <1>3, Distance, Zenon
<1>5. g \in [0..(S - 1) -> X]
  BY DEF Written
<1>6. /\ t \in Seq(X) /\ Len(t) = n + 1
      /\ \A i \in 1..(n + 1) : t[i] = g[Slot(W, S, from, i)]
  <2>1. Spans(t, W, S, X, g, from, (((to + 1) % W) - from) % W)
    BY <1>2, <1>5, SpanType, Zenon
  <2> QED
    BY <1>4, <2>1 DEF Spans
<1>7. Slot(W, S, from, n + 1) = to % S
  BY SlotAtEnd
<1>8. \A i \in 1..n : Slot(W, S, from, i) # to % S
  BY <1>0, <1>1, <1>2, <1>7, SlotsApart
<1>9. \A i \in Int : Slot(W, S, from, i) \in 0..(S - 1)
  <2>1. from \in Int
    BY <1>0
  <2> QED
    BY <2>1, SlotIs, Zenon
<1>10. to % S \in 0..(S - 1)
  BY <1>0
<1> HIDE DEF n, s, t
<1>11. \A i \in 1..n : t[i] = s[i]
  BY <1>1, <1>2, <1>6, <1>8, <1>9 DEF Written
<1>12. t[n + 1] = x
  BY <1>2, <1>6, <1>7, <1>10 DEF Written
<1>13. t = Append(s, x)
  BY <1>1, <1>2, <1>6, <1>11, <1>12, AppendProperties, SeqEqual
<1> QED
  BY <1>13 DEF s, t, Grows

(* and one less at its beginning, whatever becomes of its slot.            *)
SameBut(g, f, S, i) == \A j \in 0..(S - 1) : j # i => g[j] = f[j]
Shrinks(W, S, f, g, from, to) ==
  /\ Span(W, S, f, from, to) # <<>>
  /\ Head(Span(W, S, f, from, to)) = f[from % S]
  /\ Span(W, S, f, from, to)[1] = f[from % S]
  /\ Span(W, S, g, (from + 1) % W, to) = Tail(Span(W, S, f, from, to))

LEMMA SpanShrinks ==
  ASSUME NEW W, NEW S, Sizes(W, S), NEW X, NEW f \in [0..(S - 1) -> X],
         NEW g \in [0..(S - 1) -> X],
         NEW from \in 0..(W - 1), NEW to \in 0..(W - 1), from # to,
         Len(Span(W, S, f, from, to)) <= S,
         SameBut(g, f, S, from % S)
  PROVE  Shrinks(W, S, f, g, from, to)
<1> DEFINE n == (to - from) % W
           s == Span(W, S, f, from, to)
           t == Span(W, S, g, (from + 1) % W, to)
<1>0. S \in Nat /\ S > 0 /\ W \in Nat /\ W > 1 /\ S < W
  BY DEF Sizes
<1>1. /\ s \in Seq(X) /\ Len(s) = n
      /\ \A i \in 1..n : s[i] = f[Slot(W, S, from, i)]
  <2>1. Spans(s, W, S, X, f, from, n)
    BY SpanType, Zenon
  <2> QED
    BY <2>1 DEF Spans
<1>2. n \in 0..(W - 1) /\ n # 0 /\ (from + 1) % W \in 0..(W - 1)
  BY <1>0, Distance, Zenon
<1>3. (to - ((from + 1) % W)) % W = n - 1
  BY <1>0, Distance, Zenon
<1>4. /\ t \in Seq(X) /\ Len(t) = n - 1
      /\ \A i \in 1..(n - 1) : t[i] = g[Slot(W, S, (from + 1) % W, i)]
  <2>1. Spans(t, W, S, X, g, (from + 1) % W, (to - ((from + 1) % W)) % W)
    BY <1>2, SpanType, Zenon
  <2> QED
    BY <1>3, <2>1 DEF Spans
<1>5. Slot(W, S, from, 1) = from % S
  BY <1>0, SlotIs
<1>6. \A i \in Int : Slot(W, S, (from + 1) % W, i) = Slot(W, S, from, i + 1)
  BY SlotNext
<1>7. \A i \in Int : Slot(W, S, from, i) \in 0..(S - 1)
  <2>1. from \in Int
    BY <1>0
  <2> QED
    BY <2>1, SlotIs, Zenon
<1>8. \A i \in 1..(n - 1) : Slot(W, S, from, i + 1) # from % S
  BY <1>0, <1>1, <1>2, <1>5, SlotsApart
<1> HIDE DEF n, s, t
<1>9. ASSUME NEW i \in 1..(n - 1) PROVE t[i] = s[i + 1]
  <2> DEFINE j == Slot(W, S, from, i + 1)
  <2>1. i \in Int /\ i + 1 \in Int /\ i + 1 \in 1..n
    BY <1>2
  <2>2. t[i] = g[j] /\ s[i + 1] = f[j]
    BY <1>1, <1>4, <1>6, <2>1
  <2>3. j \in 0..(S - 1) /\ j # from % S
    BY <1>7, <1>8, <2>1
  <2> QED
    BY <2>2, <2>3 DEF SameBut
<1>10. s # <<>> /\ s[1] = f[from % S]
  BY <1>1, <1>2, <1>5
<1>11. Tail(s) \in Seq(X) /\ Len(Tail(s)) = n - 1 /\ \A i \in 1..(n - 1) : Tail(s)[i] = s[i + 1]
  BY <1>1, <1>10, HeadTailProperties
<1>12. t = Tail(s)
  BY <1>2, <1>4, <1>9, <1>11, SeqEqual
<1>13. Head(s) = s[1]
  BY <1>1, <1>10
<1> QED
  BY <1>10, <1>12, <1>13 DEF s, t, Shrinks

-------------------------------------------------------------------------------
(* Chains offered, held and returned: no chain is in two places.           *)
Distinct(s) == \A i, j \in DOMAIN s : i # j => s[i] # s[j]
Apart(s, t) == \A i \in DOMAIN s, j \in DOMAIN t : s[i] # t[j]
Sound(o, h, r) ==
  /\ Distinct(o) /\ Distinct(h) /\ Distinct(r)
  /\ Apart(o, h) /\ Apart(o, r) /\ Apart(h, r)

(* So there are no more than there are heads.                              *)
LEMMA DistinctBound ==
  ASSUME NEW n \in Nat, NEW s \in Seq(0..(n - 1)), Distinct(s)
  PROVE  Len(s) <= n
<1>1. Len(s) \in Nat /\ s \in [1..Len(s) -> 0..(n - 1)] /\ DOMAIN s = 1..Len(s)
  BY LenProperties
<1>2. IsFiniteSet(0..(n - 1)) /\ Cardinality(0..(n - 1)) = n
  BY FS_Interval
<1>3. IsFiniteSet(1..Len(s)) /\ Cardinality(1..Len(s)) = Len(s)
  <2>1. \A m \in Nat : IsFiniteSet(1..m) /\ Cardinality(1..m) = m
    BY FS_Interval, SMTT(40)
  <2> QED
    BY <1>1, <2>1
<1> SUFFICES ASSUME n < Len(s) PROVE FALSE
  BY <1>1
<1>4. \E k, l \in 1..Len(s) : k # l /\ s[k] = s[l]
  BY <1>1, <1>2, <1>3, FS_PigeonHole
<1> QED
  BY <1>1, <1>4 DEF Distinct

LEMMA DistinctJoined ==
  ASSUME NEW X, NEW s \in Seq(X), NEW t \in Seq(X), Distinct(s), Distinct(t), Apart(s, t)
  PROVE  Distinct(s \o t) /\ s \o t \in Seq(X) /\ Len(s \o t) = Len(s) + Len(t)
<1>1. /\ s \o t \in Seq(X) /\ Len(s \o t) = Len(s) + Len(t)
      /\ \A i \in 1..(Len(s) + Len(t)) : (s \o t)[i] = IF i <= Len(s) THEN s[i] ELSE t[i - Len(s)]
  BY ConcatProperties
<1>2. /\ Len(s) \in Nat /\ Len(t) \in Nat /\ DOMAIN s = 1..Len(s) /\ DOMAIN t = 1..Len(t)
      /\ DOMAIN (s \o t) = 1..(Len(s) + Len(t))
  BY <1>1, LenProperties
<1>3. ASSUME NEW i \in 1..(Len(s) + Len(t)), NEW j \in 1..(Len(s) + Len(t)), i < j
      PROVE  (s \o t)[i] # (s \o t)[j]
  <2>1. CASE j <= Len(s)
    <3>1. (s \o t)[i] = s[i] /\ (s \o t)[j] = s[j] /\ i \in 1..Len(s) /\ j \in 1..Len(s)
      BY <1>1, <1>2, <1>3, <2>1
    <3> QED
      BY <1>2, <1>3, <3>1 DEF Distinct
  <2>2. CASE i <= Len(s) /\ Len(s) < j
    <3>1. (s \o t)[i] = s[i] /\ (s \o t)[j] = t[j - Len(s)] /\ i \in 1..Len(s) /\ j - Len(s) \in 1..Len(t)
      BY <1>1, <1>2, <1>3, <2>2
    <3> QED
      BY <1>2, <3>1 DEF Apart
  <2>3. CASE Len(s) < i
    <3>1. /\ (s \o t)[i] = t[i - Len(s)] /\ (s \o t)[j] = t[j - Len(s)]
          /\ i - Len(s) \in 1..Len(t) /\ j - Len(s) \in 1..Len(t) /\ i - Len(s) # j - Len(s)
      BY <1>1, <1>2, <1>3, <2>3
    <3> QED
      BY <1>2, <3>1 DEF Distinct
  <2> QED
    BY <1>2, <1>3, <2>1, <2>2, <2>3
<1>4. Distinct(s \o t)
  <2> SUFFICES ASSUME NEW i \in 1..(Len(s) + Len(t)), NEW j \in 1..(Len(s) + Len(t)), i # j
               PROVE  (s \o t)[i] # (s \o t)[j]
    BY <1>2 DEF Distinct
  <2>1. i < j \/ j < i
    BY <1>2
  <2> QED
    BY <1>3, <2>1
<1> QED
  BY <1>1, <1>4

LEMMA SoundBound ==
  ASSUME NEW n \in Nat, NEW o \in Seq(0..(n - 1)), NEW h \in Seq(0..(n - 1)), NEW r \in Seq(0..(n - 1)),
         Sound(o, h, r)
  PROVE  Len(o) + Len(h) + Len(r) <= n
<1>1. Distinct(h \o r) /\ h \o r \in Seq(0..(n - 1)) /\ Len(h \o r) = Len(h) + Len(r)
  BY DistinctJoined DEF Sound
<1>2. \A i \in DOMAIN (h \o r) : \/ \E k \in DOMAIN h : (h \o r)[i] = h[k]
                                \/ \E k \in DOMAIN r : (h \o r)[i] = r[k]
  <2>1. /\ DOMAIN (h \o r) = 1..(Len(h) + Len(r)) /\ DOMAIN h = 1..Len(h) /\ DOMAIN r = 1..Len(r)
        /\ Len(h) \in Nat /\ Len(r) \in Nat
        /\ \A i \in 1..(Len(h) + Len(r)) : (h \o r)[i] = IF i <= Len(h) THEN h[i] ELSE r[i - Len(h)]
    BY <1>1, LenProperties, ConcatProperties
  <2> SUFFICES ASSUME NEW i \in 1..(Len(h) + Len(r))
               PROVE  (\E k \in DOMAIN h : (h \o r)[i] = h[k]) \/ (\E k \in DOMAIN r : (h \o r)[i] = r[k])
    BY <2>1
  <2>2. CASE i <= Len(h)
    <3>1. (h \o r)[i] = h[i] /\ i \in DOMAIN h
      BY <2>1, <2>2
    <3> QED
      BY <3>1
  <2>3. CASE Len(h) < i
    <3>1. (h \o r)[i] = r[i - Len(h)] /\ i - Len(h) \in DOMAIN r
      BY <2>1, <2>3
    <3> QED
      BY <3>1
  <2> QED
    BY <2>1, <2>2, <2>3
<1>3. Apart(o, h \o r)
  BY <1>2 DEF Sound, Apart
<1>4. Distinct(o \o (h \o r)) /\ o \o (h \o r) \in Seq(0..(n - 1)) /\ Len(o \o (h \o r)) = Len(o) + (Len(h) + Len(r))
  BY <1>1, <1>3, DistinctJoined DEF Sound
<1>5. Len(o \o (h \o r)) <= n
  BY <1>4, DistinctBound
<1> QED
  BY <1>4, <1>5, LenProperties

LEMMA RemoveAtFirst ==
  ASSUME NEW X, NEW h \in Seq(X), h # <<>>
  PROVE  RemoveAt(h, 1) = Tail(h)
<1>1. SubSeq(h, 1, 0) = <<>>
  BY SubSeqEmpty
<1>2. SubSeq(h, 2, Len(h)) = Tail(h)
  BY TailIsSubSeq
<1>3. Tail(h) \in Seq(X)
  OBVIOUS
<1>4. <<>> \o Tail(h) = Tail(h)
  BY <1>3, ConcatEmptySeq
<1> QED
  BY <1>1, <1>2, <1>4 DEF RemoveAt

LEMMA RemoveAtLast ==
  ASSUME NEW X, NEW h \in Seq(X), NEW x \in X
  PROVE  RemoveAt(Append(h, x), Len(h) + 1) = h
<1> DEFINE s == Append(h, x)
<1>1. s \in Seq(X) /\ Len(s) = Len(h) + 1 /\ \A i \in 1..Len(h) : s[i] = h[i]
  BY AppendProperties
<1> HIDE DEF s
<1>2. SubSeq(s, Len(h) + 2, Len(s)) = <<>>
  BY <1>1, SubSeqEmpty
<1>3. SubSeq(s, 1, Len(h)) = h
  <2>1. Len(h) \in Nat /\ \A i \in 1..Len(h) : s[i] \in X
    BY <1>1
  <2>2. /\ SubSeq(s, 1, Len(h)) \in Seq(X)
        /\ Len(SubSeq(s, 1, Len(h))) = Len(h)
        /\ \A i \in 1..Len(h) : SubSeq(s, 1, Len(h))[i] = s[i]
    BY <2>1, SubSeqProperties
  <2> QED
    BY <1>1, <2>2, SeqEqual
<1>4. h \o <<>> = h
  BY ConcatEmptySeq
<1>5. Len(h) + 1 - 1 = Len(h) /\ Len(h) + 1 + 1 = Len(h) + 2
  OBVIOUS
<1> QED
  BY <1>2, <1>3, <1>4, <1>5 DEF RemoveAt, s

LEMMA SoundOffer ==
  ASSUME NEW X, NEW o \in Seq(X), NEW h \in Seq(X), NEW r \in Seq(X), Sound(o, h, r),
         NEW c \in X, c \notin Range(o) \cup Range(h) \cup Range(r)
  PROVE  Sound(Append(o, c), h, r)
<1>1. /\ DOMAIN Append(o, c) = 1..(Len(o) + 1) /\ Append(o, c)[Len(o) + 1] = c
      /\ \A i \in 1..Len(o) : Append(o, c)[i] = o[i]
      /\ Len(o) \in Nat /\ DOMAIN o = 1..Len(o)
  BY AppendProperties, LenProperties
<1>2. /\ \A i \in DOMAIN o : o[i] # c
      /\ \A i \in DOMAIN h : h[i] # c
      /\ \A i \in DOMAIN r : r[i] # c
  BY DEF Range
<1>3. Distinct(Append(o, c))
  BY <1>1, <1>2 DEF Sound, Distinct
<1>4. Apart(Append(o, c), h) /\ Apart(Append(o, c), r)
  BY <1>1, <1>2 DEF Sound, Apart
<1> QED
  BY <1>3, <1>4 DEF Sound

LEMMA SoundTake ==
  ASSUME NEW X, NEW o \in Seq(X), NEW h \in Seq(X), NEW r \in Seq(X), Sound(o, h, r), o # <<>>
  PROVE  Sound(Tail(o), Append(h, Head(o)), r)
<1>1. /\ Len(o) \in Nat \ {0} /\ DOMAIN o = 1..Len(o) /\ Head(o) = o[1] /\ Head(o) \in X
      /\ DOMAIN Tail(o) = 1..(Len(o) - 1)
      /\ \A i \in 1..(Len(o) - 1) : Tail(o)[i] = o[i + 1]
  BY EmptySeq, HeadTailProperties, LenProperties
<1>2. /\ DOMAIN Append(h, Head(o)) = 1..(Len(h) + 1) /\ Append(h, Head(o))[Len(h) + 1] = o[1]
      /\ \A i \in 1..Len(h) : Append(h, Head(o))[i] = h[i]
      /\ Len(h) \in Nat /\ DOMAIN h = 1..Len(h)
  BY <1>1, AppendProperties, LenProperties
<1>3. Distinct(Tail(o))
  BY <1>1 DEF Sound, Distinct
<1>4. Distinct(Append(h, Head(o)))
  BY <1>1, <1>2 DEF Sound, Distinct, Apart
<1>5. Apart(Tail(o), Append(h, Head(o)))
  BY <1>1, <1>2, SMTT(40) DEF Sound, Distinct, Apart
<1>6. Apart(Tail(o), r) /\ Apart(Append(h, Head(o)), r)
  BY <1>1, <1>2 DEF Sound, Apart
<1> QED
  BY <1>3, <1>4, <1>5, <1>6 DEF Sound

LEMMA SoundReap ==
  ASSUME NEW X, NEW o \in Seq(X), NEW h \in Seq(X), NEW r \in Seq(X), Sound(o, h, r), r # <<>>
  PROVE  Sound(o, h, Tail(r))
<1>1. /\ Len(r) \in Nat \ {0} /\ DOMAIN r = 1..Len(r)
      /\ DOMAIN Tail(r) = 1..(Len(r) - 1)
      /\ \A i \in 1..(Len(r) - 1) : Tail(r)[i] = r[i + 1]
  BY EmptySeq, HeadTailProperties, LenProperties
<1> QED
  BY <1>1 DEF Sound, Distinct, Apart

(* A chain is returned: the first of those held, or the last.              *)
LEMMA SoundReturnFirst ==
  ASSUME NEW X, NEW o \in Seq(X), NEW h \in Seq(X), NEW r \in Seq(X), Sound(o, h, r), h # <<>>
  PROVE  Sound(o, Tail(h), Append(r, h[1]))
<1>1. /\ Len(h) \in Nat \ {0} /\ DOMAIN h = 1..Len(h) /\ h[1] \in X
      /\ DOMAIN Tail(h) = 1..(Len(h) - 1)
      /\ \A i \in 1..(Len(h) - 1) : Tail(h)[i] = h[i + 1]
  BY EmptySeq, HeadTailProperties, LenProperties
<1>2. /\ DOMAIN Append(r, h[1]) = 1..(Len(r) + 1) /\ Append(r, h[1])[Len(r) + 1] = h[1]
      /\ \A k \in 1..Len(r) : Append(r, h[1])[k] = r[k]
      /\ Len(r) \in Nat /\ DOMAIN r = 1..Len(r)
  BY <1>1, AppendProperties, LenProperties
<1>3. Distinct(Tail(h))
  BY <1>1 DEF Sound, Distinct
<1>4. Distinct(Append(r, h[1]))
  BY <1>1, <1>2 DEF Sound, Distinct, Apart
<1>5. Apart(o, Tail(h)) /\ Apart(o, Append(r, h[1]))
  BY <1>1, <1>2, SMTT(40) DEF Sound, Apart
<1>6. Apart(Tail(h), Append(r, h[1]))
  BY <1>1, <1>2 DEF Sound, Distinct, Apart
<1> QED
  BY <1>3, <1>4, <1>5, <1>6 DEF Sound

LEMMA SoundReturnLast ==
  ASSUME NEW X, NEW o \in Seq(X), NEW h \in Seq(X), NEW x \in X, NEW r \in Seq(X),
         Sound(o, Append(h, x), r)
  PROVE  Sound(o, h, Append(r, x))
<1>1. /\ Len(h) \in Nat /\ DOMAIN h = 1..Len(h)
      /\ DOMAIN Append(h, x) = 1..(Len(h) + 1) /\ Append(h, x)[Len(h) + 1] = x
      /\ \A i \in 1..Len(h) : Append(h, x)[i] = h[i]
  BY AppendProperties, LenProperties
<1>2. /\ DOMAIN Append(r, x) = 1..(Len(r) + 1) /\ Append(r, x)[Len(r) + 1] = x
      /\ \A k \in 1..Len(r) : Append(r, x)[k] = r[k]
      /\ Len(r) \in Nat /\ DOMAIN r = 1..Len(r)
  BY AppendProperties, LenProperties
<1>3. Distinct(h)
  BY <1>1 DEF Sound, Distinct
<1>4. Distinct(Append(r, x))
  BY <1>1, <1>2 DEF Sound, Distinct, Apart
<1>5. Apart(o, h) /\ Apart(o, Append(r, x))
  BY <1>1, <1>2 DEF Sound, Apart
<1>6. Apart(h, Append(r, x))
  BY <1>1, <1>2, SMTT(40) DEF Sound, Distinct, Apart
<1> QED
  BY <1>3, <1>4, <1>5, <1>6 DEF Sound
-------------------------------------------------------------------------------
(* The types, and the rings as sequences.                                  *)
Slots == [head : Int, item : Int, told : BOOLEAN]
Entries(q) == [head : Heads(q), item : Int, told : BOOLEAN]
RingType(q) == [availIdx : Positions(q), avail : [Heads(q) -> Heads(q)],
                usedIdx : Positions(q), used : [Heads(q) -> Slots]]

RingsType ==
  /\ DOMAIN rings = Queue /\ DOMAIN lastAvail = Queue /\ DOMAIN lastUsed = Queue
  /\ \A q \in Queue : rings[q] \in RingType(q) /\ lastAvail[q] \in Positions(q) /\ lastUsed[q] \in Positions(q)

WorkType ==
  /\ device \in DeviceKinds /\ ready \in BOOLEAN /\ doing \in Queues \cup {"none", "point"}
  /\ hand # None => doing \in Queues /\ hand \in Heads(doing)
  /\ completed \in BOOLEAN /\ (completed => doing \in Queues)
  /\ doing = "point" => device = "input"
  /\ DOMAIN periods = Streams /\ \A s \in Streams : periods[s] \in Seq(Heads(s))

LEMMA Constants ==
  ASSUME NEW q \in Queue
  PROVE  /\ Sizes(Wrap[q], Size[q]) /\ Heads(q) = 0..(Size[q] - 1) /\ Positions(q) = 0..(Wrap[q] - 1)
         /\ Size[q] \in Nat \ {0} /\ Wrap[q] \in Nat /\ 0 \in Heads(q) /\ 0 \in Positions(q)
         /\ None \notin Heads(q) /\ Heads(q) \subseteq Int /\ \A n \in Int : n % Size[q] \in Heads(q)
  BY VirtioAssumption DEF Sizes, Heads, Positions, None

LEMMA SpansNow ==
  ASSUME NEW q
  PROVE  /\ Offered(q) = Span(Wrap[q], Size[q], rings[q].avail, lastAvail[q], rings[q].availIdx)
         /\ Returned(q) = Span(Wrap[q], Size[q], rings[q].used, lastUsed[q], rings[q].usedIdx)
         /\ Offered(q)' = Span(Wrap[q], Size[q], rings'[q].avail, lastAvail'[q], rings'[q].availIdx)
         /\ Returned(q)' = Span(Wrap[q], Size[q], rings'[q].used, lastUsed'[q], rings'[q].usedIdx)
  BY DEF Offered, Returned, Ahead, Span, Slot

LEMMA RingSequences ==
  ASSUME RingsType, NEW q \in Queue
  PROVE  Offered(q) \in Seq(Heads(q)) /\ Returned(q) \in Seq(Slots)
<1>1. /\ rings[q].avail \in [0..(Size[q] - 1) -> Heads(q)] /\ rings[q].used \in [0..(Size[q] - 1) -> Slots]
      /\ rings[q].availIdx \in 0..(Wrap[q] - 1) /\ rings[q].usedIdx \in 0..(Wrap[q] - 1)
      /\ lastAvail[q] \in 0..(Wrap[q] - 1) /\ lastUsed[q] \in 0..(Wrap[q] - 1)
  BY Constants DEF RingsType, RingType
<1>2. Sizes(Wrap[q], Size[q])
  BY Constants
<1>3. Spans(Span(Wrap[q], Size[q], rings[q].avail, lastAvail[q], rings[q].availIdx), Wrap[q], Size[q], Heads(q),
            rings[q].avail, lastAvail[q], (rings[q].availIdx - lastAvail[q]) % Wrap[q])
  BY <1>1, <1>2, SpanType, Zenon
<1>4. Spans(Span(Wrap[q], Size[q], rings[q].used, lastUsed[q], rings[q].usedIdx), Wrap[q], Size[q], Slots,
            rings[q].used, lastUsed[q], (rings[q].usedIdx - lastUsed[q]) % Wrap[q])
  BY <1>1, <1>2, SpanType, Zenon
<1> QED
  BY <1>3, <1>4, SpansNow, Zenon DEF Spans

(* A queue's sequences are empty where its positions are equal.            *)
LEMMA EmptyRings ==
  ASSUME RingsType, NEW q \in Queue
  PROVE  /\ Offered(q) # <<>> <=> lastAvail[q] # rings[q].availIdx
         /\ Returned(q) # <<>> <=> lastUsed[q] # rings[q].usedIdx
<1>1. /\ rings[q].avail \in [0..(Size[q] - 1) -> Heads(q)] /\ rings[q].used \in [0..(Size[q] - 1) -> Slots]
      /\ rings[q].availIdx \in 0..(Wrap[q] - 1) /\ rings[q].usedIdx \in 0..(Wrap[q] - 1)
      /\ lastAvail[q] \in 0..(Wrap[q] - 1) /\ lastUsed[q] \in 0..(Wrap[q] - 1)
  BY Constants DEF RingsType, RingType
<1>2. Sizes(Wrap[q], Size[q]) /\ Wrap[q] \in Nat /\ Wrap[q] > 1
  BY Constants DEF Sizes
<1>3. Spans(Span(Wrap[q], Size[q], rings[q].avail, lastAvail[q], rings[q].availIdx), Wrap[q], Size[q], Heads(q),
            rings[q].avail, lastAvail[q], (rings[q].availIdx - lastAvail[q]) % Wrap[q])
  BY <1>1, <1>2, SpanType, Zenon
<1>4. Spans(Span(Wrap[q], Size[q], rings[q].used, lastUsed[q], rings[q].usedIdx), Wrap[q], Size[q], Slots,
            rings[q].used, lastUsed[q], (rings[q].usedIdx - lastUsed[q]) % Wrap[q])
  BY <1>1, <1>2, SpanType, Zenon
<1>5. /\ Offered(q) \in Seq(Heads(q)) /\ Len(Offered(q)) = (rings[q].availIdx - lastAvail[q]) % Wrap[q]
      /\ Returned(q) \in Seq(Slots) /\ Len(Returned(q)) = (rings[q].usedIdx - lastUsed[q]) % Wrap[q]
  BY <1>3, <1>4, SpansNow, Zenon DEF Spans
<1>6. /\ (rings[q].availIdx - lastAvail[q]) % Wrap[q] = 0 <=> rings[q].availIdx = lastAvail[q]
      /\ (rings[q].usedIdx - lastUsed[q]) % Wrap[q] = 0 <=> rings[q].usedIdx = lastUsed[q]
  BY <1>1, <1>2, Distance, Zenon
<1>7. Offered(q) = <<>> <=> Len(Offered(q)) = 0
  BY <1>5, EmptySeq, Zenon
<1>8. Returned(q) = <<>> <=> Len(Returned(q)) = 0
  BY <1>5, EmptySeq, Zenon
<1> QED
  BY <1>5, <1>6, <1>7, <1>8, Zenon

LEMMA RingsStay ==
  ASSUME NEW q, rings'[q] = rings[q], lastAvail'[q] = lastAvail[q], lastUsed'[q] = lastUsed[q]
  PROVE  Offered(q)' = Offered(q) /\ Returned(q)' = Returned(q)
  BY SpansNow, Zenon

(* What complete() does to the rings,                                      *)
LEMMA CompleteRings ==
  ASSUME RingsType, NEW q \in Queue, NEW head \in Int, NEW item \in Int, NEW told \in BOOLEAN,
         Complete(q, head, item, told), UNCHANGED <<lastAvail, lastUsed>>, Len(Returned(q)) < Size[q]
  PROVE  /\ RingsType'
         /\ Offered(q)' = Offered(q)
         /\ Returned(q)' = Append(Returned(q), [head |-> head, item |-> item, told |-> told])
         /\ \A r \in Queue \ {q} : Offered(r)' = Offered(r) /\ Returned(r)' = Returned(r)
<1> DEFINE e == [head |-> head, item |-> item, told |-> told]
           i == rings[q].usedIdx % Size[q]
<1>0. /\ Sizes(Wrap[q], Size[q]) /\ Heads(q) = 0..(Size[q] - 1) /\ Positions(q) = 0..(Wrap[q] - 1)
      /\ Wrap[q] \in Nat /\ Wrap[q] > 1
  <2>1. /\ Sizes(Wrap[q], Size[q]) /\ Heads(q) = 0..(Size[q] - 1) /\ Positions(q) = 0..(Wrap[q] - 1)
        /\ Wrap[q] \in Nat
    BY Constants, Zenon
  <2> QED
    BY <2>1 DEF Sizes
<1>1. /\ rings[q] \in RingType(q) /\ lastAvail[q] \in Positions(q) /\ lastUsed[q] \in Positions(q)
      /\ DOMAIN rings = Queue
  BY DEF RingsType
<1>2. /\ rings[q].used \in [0..(Size[q] - 1) -> Slots] /\ rings[q].avail \in [Heads(q) -> Heads(q)]
      /\ rings[q].usedIdx \in 0..(Wrap[q] - 1) /\ rings[q].availIdx \in Positions(q)
      /\ lastUsed[q] \in 0..(Wrap[q] - 1)
  BY <1>0, <1>1 DEF RingType
<1>3. e \in Slots
  BY DEF Slots
<1>4. (rings[q].usedIdx + 1) % Wrap[q] \in Positions(q)
  BY <1>0, <1>2
<1>5. /\ rings'[q] = [rings[q] EXCEPT !.used[i] = e, !.usedIdx = (@ + 1) % Wrap[q]]
      /\ DOMAIN rings' = Queue
      /\ \A r \in Queue \ {q} : rings'[r] = rings[r]
  BY <1>1 DEF Complete
<1> HIDE DEF e, i
<1>6. /\ rings'[q].used = [rings[q].used EXCEPT ![i] = e]
      /\ rings'[q].usedIdx = (rings[q].usedIdx + 1) % Wrap[q]
      /\ rings'[q].avail = rings[q].avail /\ rings'[q].availIdx = rings[q].availIdx
  BY <1>1, <1>5 DEF RingType
<1>7. rings'[q] \in RingType(q)
  <2>1. rings'[q].used \in [Heads(q) -> Slots] /\ rings'[q].usedIdx \in Positions(q)
    BY <1>0, <1>2, <1>3, <1>4, <1>6
  <2>2. DOMAIN rings'[q] = DOMAIN rings[q]
    BY <1>5
  <2> QED
    BY <1>1, <1>5, <1>6, <2>1, <2>2 DEF RingType
<1>8. RingsType'
  BY <1>5, <1>7 DEF RingsType
<1>9. Len(Span(Wrap[q], Size[q], rings[q].used, lastUsed[q], rings[q].usedIdx)) < Size[q]
  BY SpansNow, Zenon
<1>10. Span(Wrap[q], Size[q], rings'[q].used, lastUsed[q], (rings[q].usedIdx + 1) % Wrap[q])
       = Append(Span(Wrap[q], Size[q], rings[q].used, lastUsed[q], rings[q].usedIdx), e)
  <2>1. Written(rings'[q].used, rings[q].used, rings[q].usedIdx % Size[q], e)
    BY <1>6 DEF Written, i
  <2>2. Grows(Wrap[q], Size[q], rings[q].used, rings'[q].used, lastUsed[q], rings[q].usedIdx, e)
    BY <1>0, <1>2, <1>3, <1>9, <2>1, SpanGrows, Zenon
  <2> QED
    BY <2>2 DEF Grows
<1>11. Returned(q)' = Append(Returned(q), e)
  BY <1>6, <1>10, SpansNow, Zenon DEF i
<1>12. Offered(q)' = Offered(q)
  BY <1>6, SpansNow, ZenonT(60)
<1>13. \A r \in Queue \ {q} : Offered(r)' = Offered(r) /\ Returned(r)' = Returned(r)
  BY <1>5, RingsStay, Zenon
<1> QED
  BY <1>8, <1>11, <1>12, <1>13, Zenon DEF e

(* what taking a chain does,                                               *)
LEMMA TakeRings ==
  ASSUME RingsType, NEW q \in Queue, lastAvail[q] # rings[q].availIdx,
         lastAvail' = [lastAvail EXCEPT ![q] = (@ + 1) % Wrap[q]], UNCHANGED <<rings, lastUsed>>,
         Len(Offered(q)) <= Size[q]
  PROVE  /\ RingsType'
         /\ Offered(q) # <<>> /\ Offered(q)' = Tail(Offered(q))
         /\ rings[q].avail[lastAvail[q] % Size[q]] = Head(Offered(q))
         /\ Returned(q)' = Returned(q)
         /\ \A r \in Queue \ {q} : Offered(r)' = Offered(r) /\ Returned(r)' = Returned(r)
<1>0. /\ Sizes(Wrap[q], Size[q]) /\ Heads(q) = 0..(Size[q] - 1) /\ Positions(q) = 0..(Wrap[q] - 1)
      /\ Wrap[q] \in Nat /\ Wrap[q] > 1
  <2>1. /\ Sizes(Wrap[q], Size[q]) /\ Heads(q) = 0..(Size[q] - 1) /\ Positions(q) = 0..(Wrap[q] - 1)
        /\ Wrap[q] \in Nat
    BY Constants, Zenon
  <2> QED
    BY <2>1 DEF Sizes
<1>1. /\ rings[q] \in RingType(q) /\ lastAvail[q] \in Positions(q) /\ DOMAIN lastAvail = Queue
  BY DEF RingsType
<1>2. /\ rings[q].avail \in [0..(Size[q] - 1) -> Heads(q)]
      /\ rings[q].availIdx \in 0..(Wrap[q] - 1) /\ lastAvail[q] \in 0..(Wrap[q] - 1)
  BY <1>0, <1>1 DEF RingType
<1>3. /\ lastAvail'[q] = (lastAvail[q] + 1) % Wrap[q] /\ DOMAIN lastAvail' = Queue
      /\ \A r \in Queue \ {q} : lastAvail'[r] = lastAvail[r]
  BY <1>1
<1>4. lastAvail'[q] \in Positions(q)
  BY <1>0, <1>2, <1>3
<1>5. RingsType'
  BY <1>3, <1>4 DEF RingsType
<1>6. SameBut(rings[q].avail, rings[q].avail, Size[q], lastAvail[q] % Size[q])
  BY DEF SameBut
<1>7. Len(Span(Wrap[q], Size[q], rings[q].avail, lastAvail[q], rings[q].availIdx)) <= Size[q]
  BY SpansNow, Zenon
<1>8. Shrinks(Wrap[q], Size[q], rings[q].avail, rings[q].avail, lastAvail[q], rings[q].availIdx)
  BY <1>0, <1>2, <1>6, <1>7, SpanShrinks, Zenon
<1>9. /\ Offered(q) # <<>> /\ Offered(q)' = Tail(Offered(q))
      /\ rings[q].avail[lastAvail[q] % Size[q]] = Head(Offered(q))
  BY <1>3, <1>8, SpansNow DEF Shrinks
<1>10. Returned(q)' = Returned(q)
  BY SpansNow
<1>11. \A r \in Queue \ {q} : Offered(r)' = Offered(r) /\ Returned(r)' = Returned(r)
  BY <1>3, SpansNow
<1> QED
  BY <1>5, <1>9, <1>10, <1>11, Zenon

(* what offering one does,                                                 *)
LEMMA OfferRings ==
  ASSUME RingsType, NEW q \in Queue, NEW h \in Heads(q),
         rings' = [rings EXCEPT ![q].avail[rings[q].availIdx % Size[q]] = h,
                                ![q].availIdx = (@ + 1) % Wrap[q]],
         UNCHANGED <<lastAvail, lastUsed>>, Len(Offered(q)) < Size[q]
  PROVE  /\ RingsType'
         /\ Offered(q)' = Append(Offered(q), h)
         /\ Returned(q)' = Returned(q)
         /\ \A r \in Queue \ {q} : Offered(r)' = Offered(r) /\ Returned(r)' = Returned(r)
<1> DEFINE i == rings[q].availIdx % Size[q]
<1>0. /\ Sizes(Wrap[q], Size[q]) /\ Heads(q) = 0..(Size[q] - 1) /\ Positions(q) = 0..(Wrap[q] - 1)
      /\ Wrap[q] \in Nat /\ Wrap[q] > 1
  <2>1. /\ Sizes(Wrap[q], Size[q]) /\ Heads(q) = 0..(Size[q] - 1) /\ Positions(q) = 0..(Wrap[q] - 1)
        /\ Wrap[q] \in Nat
    BY Constants, Zenon
  <2> QED
    BY <2>1 DEF Sizes
<1>1. /\ rings[q] \in RingType(q) /\ lastAvail[q] \in Positions(q) /\ lastUsed[q] \in Positions(q)
      /\ DOMAIN rings = Queue
  BY DEF RingsType
<1>2. /\ rings[q].used \in [Heads(q) -> Slots] /\ rings[q].avail \in [0..(Size[q] - 1) -> Heads(q)]
      /\ rings[q].availIdx \in 0..(Wrap[q] - 1) /\ rings[q].usedIdx \in Positions(q)
      /\ lastAvail[q] \in 0..(Wrap[q] - 1)
  BY <1>0, <1>1 DEF RingType
<1>4. (rings[q].availIdx + 1) % Wrap[q] \in Positions(q)
  BY <1>0, <1>2
<1>5. /\ rings'[q] = [rings[q] EXCEPT !.avail[i] = h, !.availIdx = (@ + 1) % Wrap[q]]
      /\ DOMAIN rings' = Queue
      /\ \A r \in Queue \ {q} : rings'[r] = rings[r]
  BY <1>1
<1> HIDE DEF i
<1>6. /\ rings'[q].avail = [rings[q].avail EXCEPT ![i] = h]
      /\ rings'[q].availIdx = (rings[q].availIdx + 1) % Wrap[q]
      /\ rings'[q].used = rings[q].used /\ rings'[q].usedIdx = rings[q].usedIdx
  BY <1>1, <1>5 DEF RingType
<1>7. rings'[q] \in RingType(q)
  <2>1. rings'[q].avail \in [Heads(q) -> Heads(q)] /\ rings'[q].availIdx \in Positions(q)
    <3>1. Written(rings'[q].avail, rings[q].avail, i, h)
      BY <1>6 DEF Written
    <3>2. rings[q].avail \in [Heads(q) -> Heads(q)]
      BY <1>0, <1>2
    <3> QED
      BY <1>4, <1>6, <3>1, <3>2, WrittenType, Zenon
  <2>2. DOMAIN rings'[q] = DOMAIN rings[q]
    BY <1>5
  <2> QED
    BY <1>1, <1>5, <1>6, <2>1, <2>2 DEF RingType
<1>8. RingsType'
  BY <1>5, <1>7 DEF RingsType
<1>9. Len(Span(Wrap[q], Size[q], rings[q].avail, lastAvail[q], rings[q].availIdx)) < Size[q]
  BY SpansNow, Zenon
<1>10. Written(rings'[q].avail, rings[q].avail, rings[q].availIdx % Size[q], h)
  BY <1>6 DEF Written, i
<1>11. Grows(Wrap[q], Size[q], rings[q].avail, rings'[q].avail, lastAvail[q], rings[q].availIdx, h)
  BY <1>0, <1>2, <1>9, <1>10, SpanGrows, Zenon
<1>12. Offered(q)' = Append(Offered(q), h)
  BY <1>6, <1>11, SpansNow, Zenon DEF Grows
<1>13. Returned(q)' = Returned(q)
  <2>1. lastUsed'[q] = lastUsed[q]
    OBVIOUS
  <2>2. /\ Returned(q) = Span(Wrap[q], Size[q], rings[q].used, lastUsed[q], rings[q].usedIdx)
        /\ Returned(q)' = Span(Wrap[q], Size[q], rings'[q].used, lastUsed'[q], rings'[q].usedIdx)
    BY SpansNow, Zenon
  <2> QED
    BY <1>6, <2>1, <2>2, Zenon
<1>14. \A r \in Queue \ {q} : Offered(r)' = Offered(r) /\ Returned(r)' = Returned(r)
  BY <1>5, RingsStay, Zenon
<1> QED
  BY <1>8, <1>12, <1>13, <1>14, Zenon

(* and what the driver's looking at a returned one does.                   *)
LEMMA ReapRings ==
  ASSUME RingsType, NEW q \in Queue, Returned(q) # <<>>,
         lastUsed' = [lastUsed EXCEPT ![q] = (@ + 1) % Wrap[q]], UNCHANGED lastAvail,
         rings' = [rings EXCEPT ![q].used[lastUsed[q] % Size[q]] = Blank],
         Len(Returned(q)) <= Size[q]
  PROVE  /\ RingsType'
         /\ Returned(q)' = Tail(Returned(q))
         /\ Offered(q)' = Offered(q)
         /\ \A r \in Queue \ {q} : Offered(r)' = Offered(r) /\ Returned(r)' = Returned(r)
<1> DEFINE i == lastUsed[q] % Size[q]
<1>0. /\ Sizes(Wrap[q], Size[q]) /\ Heads(q) = 0..(Size[q] - 1) /\ Positions(q) = 0..(Wrap[q] - 1)
      /\ Wrap[q] \in Nat /\ Wrap[q] > 1
  <2>1. /\ Sizes(Wrap[q], Size[q]) /\ Heads(q) = 0..(Size[q] - 1) /\ Positions(q) = 0..(Wrap[q] - 1)
        /\ Wrap[q] \in Nat
    BY Constants, Zenon
  <2> QED
    BY <2>1 DEF Sizes
<1>1. /\ rings[q] \in RingType(q) /\ lastAvail[q] \in Positions(q) /\ lastUsed[q] \in Positions(q)
      /\ DOMAIN rings = Queue /\ DOMAIN lastUsed = Queue
  BY DEF RingsType
<1>2. /\ rings[q].used \in [0..(Size[q] - 1) -> Slots] /\ rings[q].avail \in [Heads(q) -> Heads(q)]
      /\ rings[q].usedIdx \in 0..(Wrap[q] - 1) /\ rings[q].availIdx \in Positions(q)
      /\ lastUsed[q] \in 0..(Wrap[q] - 1)
  BY <1>0, <1>1 DEF RingType
<1>3. Blank \in Slots
  BY DEF Slots, Blank, None
<1>4. /\ lastUsed'[q] = (lastUsed[q] + 1) % Wrap[q] /\ DOMAIN lastUsed' = Queue
      /\ \A r \in Queue \ {q} : lastUsed'[r] = lastUsed[r]
      /\ (lastUsed[q] + 1) % Wrap[q] \in Positions(q)
  BY <1>0, <1>1, <1>2
<1>5. /\ rings'[q] = [rings[q] EXCEPT !.used[i] = Blank]
      /\ DOMAIN rings' = Queue
      /\ \A r \in Queue \ {q} : rings'[r] = rings[r]
  BY <1>1
<1> HIDE DEF i
<1>6. /\ rings'[q].used = [rings[q].used EXCEPT ![i] = Blank]
      /\ rings'[q].usedIdx = rings[q].usedIdx
      /\ rings'[q].avail = rings[q].avail /\ rings'[q].availIdx = rings[q].availIdx
  BY <1>1, <1>5 DEF RingType
<1>7. rings'[q].used \in [0..(Size[q] - 1) -> Slots]
  <2>1. Written(rings'[q].used, rings[q].used, i, Blank)
    BY <1>6 DEF Written
  <2> QED
    BY <1>2, <1>3, <2>1, WrittenType, ZenonT(60)
<1>8. rings'[q] \in RingType(q)
  <2>1. DOMAIN rings'[q] = DOMAIN rings[q]
    BY <1>5
  <2> QED
    BY <1>0, <1>1, <1>5, <1>6, <1>7, <2>1 DEF RingType
<1>9. RingsType'
  BY <1>4, <1>5, <1>8 DEF RingsType
<1>10. /\ Len(Span(Wrap[q], Size[q], rings[q].used, lastUsed[q], rings[q].usedIdx)) <= Size[q]
       /\ lastUsed[q] # rings[q].usedIdx
  BY SpansNow, EmptyRings, Zenon
<1>11. SameBut(rings'[q].used, rings[q].used, Size[q], lastUsed[q] % Size[q])
  BY <1>2, <1>6 DEF SameBut, i
<1>12. Shrinks(Wrap[q], Size[q], rings[q].used, rings'[q].used, lastUsed[q], rings[q].usedIdx)
  BY <1>0, <1>2, <1>7, <1>10, <1>11, SpanShrinks, Zenon
<1>13. Returned(q)' = Tail(Returned(q))
  BY <1>4, <1>6, <1>12, SpansNow DEF Shrinks
<1>14. Offered(q)' = Offered(q)
  BY <1>6, SpansNow
<1>15. \A r \in Queue \ {q} : Offered(r)' = Offered(r) /\ Returned(r)' = Returned(r)
  BY <1>4, <1>5, RingsStay, Zenon
<1> QED
  BY <1>9, <1>13, <1>14, <1>15, Zenon
-------------------------------------------------------------------------------
(* The invariant of the rings.                                             *)
ChainInv(q) ==
  /\ Offered(q) \in Seq(Heads(q)) /\ Held(q) \in Seq(Heads(q)) /\ Returned(q) \in Seq(Entries(q))
  /\ Sound(Offered(q), Held(q), ReturnedHeads(q))

(* A device that is not set up has none of the driver's chains.            *)
IdleInv == ~ready => \A q \in Queue : Offered(q) = <<>> /\ Held(q) = <<>> /\ Returned(q) = <<>>

(* What is in the control queue is a request for a stream there is.        *)
AskedInv ==
  /\ \A i \in DOMAIN Offered("control") : chain["control"][Offered("control")[i]] \in Requests \X Streams
  /\ doing = "control" /\ hand # None => Asked \in Requests \X Streams

ChainType == DOMAIN chain = Queue /\ \A q \in Queue : DOMAIN chain[q] = Heads(q)

RingInv == RingsType /\ WorkType /\ (\A q \in Queue : ChainInv(q)) /\ IdleInv

(* What a step may do to a queue.                                          *)
Same(q) == Offered(q)' = Offered(q) /\ Held(q)' = Held(q) /\ Returned(q)' = Returned(q)
Rest(q) == \A r \in Queue \ {q} : Same(r)

Offers(q) ==
  /\ ready /\ \E h \in Free(q) : Offered(q)' = Append(Offered(q), h)
  /\ Held(q)' = Held(q) /\ Returned(q)' = Returned(q)

Takes(q) ==
  /\ Offered(q) # <<>> /\ Offered(q)' = Tail(Offered(q))
  /\ Held(q)' = Append(Held(q), Head(Offered(q))) /\ Returned(q)' = Returned(q)

GivesBack(q, e) ==
  /\ e \in Entries(q) /\ Returned(q)' = Append(Returned(q), e) /\ Offered(q)' = Offered(q)
  /\ \/ Held(q) # <<>> /\ e.head = Held(q)[1] /\ Held(q)' = Tail(Held(q))
     \/ Held(q)' \in Seq(Heads(q)) /\ Held(q) = Append(Held(q)', e.head)

Reaps(q) ==
  /\ Returned(q) # <<>> /\ Returned(q)' = Tail(Returned(q))
  /\ Offered(q)' = Offered(q) /\ Held(q)' = Held(q)

QueueStep(q) == Offers(q) \/ Takes(q) \/ (\E e \in Entries(q) : GivesBack(q, e)) \/ Reaps(q)
Forgets == \A q \in Queue : Offered(q)' = <<>> /\ Held(q)' = <<>> /\ Returned(q)' = <<>>
RingStep ==
  \/ Forgets
  \/ (ready => ready') /\ ((\A q \in Queue : Same(q)) \/ (\E q \in Queue : QueueStep(q) /\ Rest(q)))

-------------------------------------------------------------------------------
(* A function of each of a sequence.                                       *)
Each(m, s) == [i \in DOMAIN s |-> m[s[i]]]
Maps(m, X, Y) == m \in [X -> Y]
Images(u, m, s, Y) == u \in Seq(Y) /\ Len(u) = Len(s) /\ \A i \in 1..Len(s) : u[i] = m[s[i]]

LEMMA EachSeq ==
  ASSUME NEW X, NEW Y, NEW m, Maps(m, X, Y), NEW s \in Seq(X)
  PROVE  Images(Each(m, s), m, s, Y)
<1>1. Len(s) \in Nat /\ DOMAIN s = 1..Len(s) /\ \A i \in 1..Len(s) : s[i] \in X
  BY LenProperties, ElementOfSeq
<1>2. Each(m, s) \in [1..Len(s) -> Y]
  BY <1>1 DEF Each, Maps
<1>3. Each(m, s) \in Seq(Y)
  BY <1>1, <1>2, SeqDef
<1>4. Len(Each(m, s)) = Len(s)
  BY <1>1, <1>2, <1>3, LenProperties
<1> QED
  BY <1>1, <1>3, <1>4 DEF Each, Images

LEMMA EachAppend ==
  ASSUME NEW X, NEW Y, NEW m, Maps(m, X, Y), NEW s \in Seq(X), NEW x \in X
  PROVE  Each(m, Append(s, x)) = Append(Each(m, s), m[x])
<1> DEFINE t == Append(s, x)
           u == Each(m, s)
           v == Each(m, t)
<1>1. /\ t \in Seq(X) /\ Len(t) = Len(s) + 1 /\ t[Len(s) + 1] = x
      /\ \A i \in 1..Len(s) : t[i] = s[i]
      /\ Len(s) \in Nat
  BY AppendProperties, LenProperties
<1>2. u \in Seq(Y) /\ Len(u) = Len(s) /\ \A i \in 1..Len(s) : u[i] = m[s[i]]
  <2>1. Images(u, m, s, Y)
    BY EachSeq, Zenon
  <2> QED
    BY <2>1 DEF Images
<1> HIDE DEF t
<1>3. v \in Seq(Y) /\ Len(v) = Len(t) /\ \A i \in 1..Len(t) : v[i] = m[t[i]]
  <2>1. Images(v, m, t, Y)
    BY <1>1, EachSeq, Zenon
  <2> QED
    BY <2>1 DEF Images
<1> HIDE DEF u, v
<1>0. m[x] \in Y
  BY DEF Maps
<1>4. /\ Append(u, m[x]) \in Seq(Y) /\ Len(Append(u, m[x])) = Len(s) + 1
      /\ Append(u, m[x])[Len(s) + 1] = m[x]
      /\ \A i \in 1..Len(s) : Append(u, m[x])[i] = u[i]
  BY <1>0, <1>2, AppendProperties
<1>5. ASSUME NEW i \in 1..(Len(s) + 1) PROVE v[i] = Append(u, m[x])[i]
  <2>1. v[i] = m[t[i]]
    BY <1>1, <1>3
  <2>2. i = Len(s) + 1 \/ i \in 1..Len(s)
    BY <1>1
  <2> QED
    BY <1>1, <1>2, <1>4, <2>1, <2>2, Zenon
<1>6. v = Append(u, m[x])
  BY <1>1, <1>3, <1>4, <1>5, SeqEqual
<1> QED
  BY <1>6 DEF t, u, v

LEMMA EachTail ==
  ASSUME NEW X, NEW Y, NEW m, Maps(m, X, Y), NEW s \in Seq(X), s # <<>>
  PROVE  Each(m, Tail(s)) = Tail(Each(m, s)) /\ Each(m, s) # <<>> /\ Each(m, s)[1] = m[s[1]]
<1> DEFINE t == Tail(s)
           u == Each(m, s)
           v == Each(m, t)
<1>1. /\ t \in Seq(X) /\ Len(t) = Len(s) - 1 /\ Len(s) \in Nat \ {0}
      /\ \A i \in 1..(Len(s) - 1) : t[i] = s[i + 1]
  BY HeadTailProperties, EmptySeq, LenProperties
<1>2. u \in Seq(Y) /\ Len(u) = Len(s) /\ \A i \in 1..Len(s) : u[i] = m[s[i]]
  <2>1. Images(u, m, s, Y)
    BY EachSeq, Zenon
  <2> QED
    BY <2>1 DEF Images
<1> HIDE DEF t
<1>3. v \in Seq(Y) /\ Len(v) = Len(t) /\ \A i \in 1..Len(t) : v[i] = m[t[i]]
  <2>1. Images(v, m, t, Y)
    BY <1>1, EachSeq, Zenon
  <2> QED
    BY <2>1 DEF Images
<1> HIDE DEF u, v
<1>4. u # <<>> /\ u[1] = m[s[1]]
  BY <1>1, <1>2, EmptySeq
<1>5. /\ Tail(u) \in Seq(Y) /\ Len(Tail(u)) = Len(s) - 1
      /\ \A i \in 1..(Len(s) - 1) : Tail(u)[i] = u[i + 1]
  BY <1>2, <1>4, HeadTailProperties
<1>6. ASSUME NEW i \in 1..(Len(s) - 1) PROVE v[i] = Tail(u)[i]
  <2>1. i \in 1..Len(t) /\ i + 1 \in 1..Len(s)
    BY <1>1
  <2>2. v[i] = m[t[i]] /\ t[i] = s[i + 1] /\ u[i + 1] = m[s[i + 1]] /\ Tail(u)[i] = u[i + 1]
    BY <1>1, <1>2, <1>3, <1>5, <2>1
  <2> QED
    BY <2>2, Zenon
<1>7. v = Tail(u)
  BY <1>1, <1>3, <1>5, <1>6, SeqEqual
<1> QED
  BY <1>4, <1>7 DEF t, u, v

HeadsOf(s) == [i \in DOMAIN s |-> s[i].head]
HeadIn(q) == [e \in Entries(q) |-> e.head]

LEMMA HeadsOfEach ==
  ASSUME NEW q, NEW s \in Seq(Entries(q))
  PROVE  HeadsOf(s) = Each(HeadIn(q), s) /\ Maps(HeadIn(q), Entries(q), Heads(q))
<1>1. \A i \in DOMAIN s : s[i] \in Entries(q)
  BY LenProperties, ElementOfSeq
<1> QED
  BY <1>1 DEF HeadsOf, Each, HeadIn, Entries, Maps

LEMMA HeadsOfSeq ==
  ASSUME NEW q, NEW s \in Seq(Entries(q))
  PROVE  HeadsOf(s) \in Seq(Heads(q)) /\ Len(HeadsOf(s)) = Len(s)
<1>1. HeadsOf(s) = Each(HeadIn(q), s) /\ Maps(HeadIn(q), Entries(q), Heads(q))
  BY HeadsOfEach, Zenon
<1>2. Images(Each(HeadIn(q), s), HeadIn(q), s, Heads(q))
  BY <1>1, EachSeq, Zenon
<1> QED
  BY <1>1, <1>2 DEF Images

LEMMA HeadsOfAppend ==
  ASSUME NEW q, NEW s \in Seq(Entries(q)), NEW e \in Entries(q)
  PROVE  HeadsOf(Append(s, e)) = Append(HeadsOf(s), e.head) /\ e.head \in Heads(q)
<1>1. Append(s, e) \in Seq(Entries(q))
  BY AppendProperties
<1>2. HeadIn(q)[e] = e.head /\ e.head \in Heads(q)
  BY DEF HeadIn, Entries
<1>3. /\ HeadsOf(s) = Each(HeadIn(q), s) /\ HeadsOf(Append(s, e)) = Each(HeadIn(q), Append(s, e))
      /\ Maps(HeadIn(q), Entries(q), Heads(q))
  BY <1>1, HeadsOfEach, Zenon
<1>4. Each(HeadIn(q), Append(s, e)) = Append(Each(HeadIn(q), s), HeadIn(q)[e])
  BY <1>3, EachAppend
<1> QED
  BY <1>2, <1>3, <1>4

LEMMA HeadsOfTail ==
  ASSUME NEW q, NEW s \in Seq(Entries(q)), s # <<>>
  PROVE  HeadsOf(Tail(s)) = Tail(HeadsOf(s)) /\ HeadsOf(s) # <<>>
<1>1. Tail(s) \in Seq(Entries(q))
  BY HeadTailProperties
<1>2. /\ HeadsOf(s) = Each(HeadIn(q), s) /\ HeadsOf(Tail(s)) = Each(HeadIn(q), Tail(s))
      /\ Maps(HeadIn(q), Entries(q), Heads(q))
  BY <1>1, HeadsOfEach, Zenon
<1>3. Each(HeadIn(q), Tail(s)) = Tail(Each(HeadIn(q), s)) /\ Each(HeadIn(q), s) # <<>>
  BY <1>2, EachTail, ZenonT(60)
<1> QED
  BY <1>2, <1>3

(* The chains there are fit in the queue.                                  *)
LEMMA ChainsFit ==
  ASSUME NEW q \in Queue, ChainInv(q)
  PROVE  /\ Len(Offered(q)) + Len(Held(q)) + Len(Returned(q)) <= Size[q]
         /\ Len(Offered(q)) \in Nat /\ Len(Held(q)) \in Nat /\ Len(Returned(q)) \in Nat
<1>1. Heads(q) = 0..(Size[q] - 1) /\ Size[q] \in Nat
  BY Constants
<1>2. ReturnedHeads(q) = HeadsOf(Returned(q))
  BY DEF ReturnedHeads, HeadsOf
<1>3. ReturnedHeads(q) \in Seq(Heads(q)) /\ Len(ReturnedHeads(q)) = Len(Returned(q))
  BY <1>2, HeadsOfSeq, Zenon DEF ChainInv
<1>4. Len(Offered(q)) + Len(Held(q)) + Len(ReturnedHeads(q)) <= Size[q]
  BY <1>1, <1>3, SoundBound DEF ChainInv
<1> QED
  BY <1>3, <1>4, LenProperties DEF ChainInv

(* A step of a queue keeps its chains apart.                               *)
LEMMA QueueKeeps ==
  ASSUME NEW q \in Queue, ChainInv(q), Same(q) \/ QueueStep(q)
  PROVE  ChainInv(q)'
<1> DEFINE o == Offered(q)
           h == Held(q)
           r == ReturnedHeads(q)
<1>1. r = HeadsOf(Returned(q)) /\ r' = HeadsOf(Returned(q)')
  BY DEF ReturnedHeads, HeadsOf
<1>2. o \in Seq(Heads(q)) /\ h \in Seq(Heads(q)) /\ Returned(q) \in Seq(Entries(q)) /\ Sound(o, h, r)
  BY DEF ChainInv
<1>3. r \in Seq(Heads(q))
  BY <1>1, <1>2, HeadsOfSeq, Zenon
<1> HIDE DEF o, h, r
<1> SUFFICES /\ o' \in Seq(Heads(q)) /\ h' \in Seq(Heads(q)) /\ Returned(q)' \in Seq(Entries(q))
             /\ Sound(o', h', r')
  BY DEF ChainInv, Sound, Apart, Distinct, o, h, r
<1>4. CASE Same(q)
  <2>1. o' = o /\ h' = h /\ Returned(q)' = Returned(q) /\ r' = r
    BY <1>1, <1>4 DEF Same, o, h
  <2> QED
    BY <1>2, <2>1
<1>5. CASE Offers(q)
  <2>1. PICK c \in Free(q) : o' = Append(o, c) /\ h' = h /\ Returned(q)' = Returned(q)
    BY <1>5 DEF Offers, o, h
  <2>2. r' = r /\ c \in Heads(q) /\ c \notin Range(o) \cup Range(h) \cup Range(r)
    BY <1>1, <2>1 DEF Free, o, h, r
  <2>3. Sound(Append(o, c), h, r)
    BY <1>2, <1>3, <2>2, SoundOffer, Zenon
  <2> QED
    BY <1>2, <2>1, <2>2, <2>3, AppendProperties
<1>6. CASE Takes(q)
  <2>1. o # <<>> /\ o' = Tail(o) /\ h' = Append(h, Head(o)) /\ Returned(q)' = Returned(q) /\ r' = r
    BY <1>1, <1>6 DEF Takes, o, h
  <2>2. Sound(Tail(o), Append(h, Head(o)), r)
    BY <1>2, <1>3, <2>1, SoundTake, Zenon
  <2>3. Tail(o) \in Seq(Heads(q)) /\ Head(o) \in Heads(q)
    BY <1>2, <2>1, HeadTailProperties
  <2>4. Append(h, Head(o)) \in Seq(Heads(q))
    BY <1>2, <2>3, AppendProperties
  <2> QED
    BY <1>2, <2>1, <2>2, <2>3, <2>4
<1>7. CASE \E e \in Entries(q) : GivesBack(q, e)
  <2>1. PICK e \in Entries(q) : GivesBack(q, e)
    BY <1>7
  <2>2. Returned(q)' = Append(Returned(q), e) /\ o' = o
    BY <2>1 DEF GivesBack, o
  <2>3. r' = Append(r, e.head) /\ e.head \in Heads(q)
    BY <1>1, <1>2, <2>2, HeadsOfAppend, Zenon
  <2>4. Returned(q)' \in Seq(Entries(q))
    BY <1>2, <2>2, AppendProperties
  <2>5. CASE h # <<>> /\ e.head = h[1] /\ h' = Tail(h)
    <3>1. Sound(o, Tail(h), Append(r, h[1]))
      BY <1>2, <1>3, <2>5, SoundReturnFirst, Zenon
    <3>2. Tail(h) \in Seq(Heads(q))
      BY <1>2, <2>5, HeadTailProperties
    <3> QED
      BY <1>2, <2>2, <2>3, <2>4, <2>5, <3>1, <3>2
  <2>6. CASE h' \in Seq(Heads(q)) /\ h = Append(h', e.head)
    <3>1. Sound(o, Append(h', e.head), r)
      BY <1>2, <2>6
    <3>2. Sound(o, h', Append(r, e.head))
      BY <1>2, <1>3, <2>3, <2>6, <3>1, SoundReturnLast, Zenon
    <3> QED
      BY <1>2, <2>2, <2>3, <2>4, <2>6, <3>2
  <2> QED
    BY <2>1, <2>5, <2>6 DEF GivesBack, h
<1>8. CASE Reaps(q)
  <2>1. Returned(q) # <<>> /\ Returned(q)' = Tail(Returned(q)) /\ o' = o /\ h' = h
    BY <1>8 DEF Reaps, o, h
  <2>2. r' = Tail(r) /\ r # <<>>
    BY <1>1, <1>2, <2>1, HeadsOfTail, Zenon
  <2>3. Sound(o, h, Tail(r))
    BY <1>2, <1>3, <2>2, SoundReap, Zenon
  <2>4. Tail(Returned(q)) \in Seq(Entries(q))
    BY <1>2, <2>1, HeadTailProperties
  <2> QED
    BY <1>2, <2>1, <2>2, <2>3, <2>4
<1> QED
  BY <1>4, <1>5, <1>6, <1>7, <1>8 DEF QueueStep
-------------------------------------------------------------------------------
(* What each action does to the rings.                                     *)
Base(q) == IF q \in Streams THEN periods[q] ELSE <<>>

LEMMA HandJoined ==
  ASSUME NEW X, NEW s \in Seq(X)
  PROVE  s \o <<>> = s /\ \A x \in X : s \o <<x>> = Append(s, x)
  BY ConcatEmptySeq, AppendIsConcat

LEMMA HeldNow ==
  ASSUME NEW q \in Queue, WorkType
  PROVE  /\ Base(q) \in Seq(Heads(q))
         /\ doing # q \/ hand = None => Held(q) = Base(q)
         /\ doing = q /\ hand # None => Held(q) = Append(Base(q), hand)
<1>1. Base(q) \in Seq(Heads(q))
  BY EmptySeq DEF Base, WorkType
<1>2. Base(q) \o <<>> = Base(q) /\ \A x \in Heads(q) : Base(q) \o <<x>> = Append(Base(q), x)
  BY <1>1, HandJoined, Zenon
<1>3. Held(q) = Base(q) \o InHand(q)
  BY DEF Held, Base
<1> QED
  BY <1>1, <1>2, <1>3 DEF InHand, WorkType

LEMMA HeldThen ==
  ASSUME NEW q \in Queue, WorkType'
  PROVE  /\ Base(q)' \in Seq(Heads(q))
         /\ doing' # q \/ hand' = None => Held(q)' = Base(q)'
         /\ doing' = q /\ hand' # None => Held(q)' = Append(Base(q)', hand')
<1>1. Base(q)' \in Seq(Heads(q))
  BY EmptySeq DEF Base, WorkType
<1>2. Base(q)' \o <<>> = Base(q)' /\ \A x \in Heads(q) : Base(q)' \o <<x>> = Append(Base(q)', x)
  BY <1>1, HandJoined, Zenon
<1>3. Held(q)' = Base(q)' \o InHand(q)'
  BY DEF Held, Base
<1> QED
  BY <1>1, <1>2, <1>3 DEF InHand, WorkType

LEMMA QueuesAre ==
  /\ WorkType => Queues \subseteq Queue
  /\ Streams \subseteq Queue /\ "control" \notin Streams
  /\ device' = device => Queues' = Queues /\ Fillable' = Fillable
<1>1. Streams \subseteq Queue /\ "control" \notin Streams
  BY VirtioAssumption DEF Queue
<1>2. ASSUME WorkType PROVE Queues \subseteq Queue
  <2>1. device = "net" \/ device = "input" \/ device = "snd"
    BY <1>2 DEF WorkType, DeviceKinds
  <2>2. CASE device = "net"
    BY <2>2 DEF Queues, Queue
  <2>3. CASE device = "input"
    BY <2>3 DEF Queues, Queue
  <2>4. CASE device = "snd"
    BY <1>1, <2>4 DEF Queues, Queue
  <2> QED
    BY <2>1, <2>2, <2>3, <2>4
<1>3. ASSUME device' = device PROVE Queues' = Queues /\ Fillable' = Fillable
  BY <1>3 DEF Queues, Fillable
<1> QED
  BY <1>1, <1>2, <1>3

(* A queue that none of the step is about.                                 *)
LEMMA HeldStays ==
  ASSUME NEW q \in Queue, Base(q)' = Base(q), InHand(q)' = InHand(q)
  PROVE  Held(q)' = Held(q)
  BY DEF Held, Base

LEMMA ChainTaken ==
  ASSUME RingInv, NEW q \in Queue, NextChain, doing = q
  PROVE  RingsType' /\ WorkType' /\ Takes(q) /\ Rest(q) /\ hand' = Head(Offered(q))
<1>1. /\ hand = None /\ doing' = q /\ q \in Queues /\ lastAvail[q] # rings[q].availIdx
      /\ hand' = rings[q].avail[lastAvail[q] % Size[q]]
      /\ lastAvail' = [lastAvail EXCEPT ![q] = (@ + 1) % Wrap[q]]
      /\ UNCHANGED <<rings, lastUsed, periods, device, ready, completed>>
  BY DEF NextChain, Works, HasChain, driver
<1>2. Len(Offered(q)) <= Size[q]
  BY ChainsFit, Constants, SMTT(40) DEF RingInv
<1>3. /\ RingsType'
      /\ Offered(q) # <<>> /\ Offered(q)' = Tail(Offered(q))
      /\ hand' = Head(Offered(q))
      /\ Returned(q)' = Returned(q)
      /\ \A r \in Queue \ {q} : Offered(r)' = Offered(r) /\ Returned(r)' = Returned(r)
  BY <1>1, <1>2, TakeRings DEF RingInv
<1>4. hand' \in Heads(q)
  BY <1>3, HeadTailProperties DEF RingInv, ChainInv
<1>5. WorkType'
  BY <1>1, <1>4, QueuesAre DEF RingInv, WorkType
<1>6. Held(q)' = Append(Held(q), Head(Offered(q)))
  <2>1. Base(q)' = Base(q) /\ Held(q) = Base(q) /\ hand' # None
    BY <1>1, <1>4, HeldNow, Constants DEF Base, RingInv
  <2> QED
    BY <1>1, <1>3, <1>5, <2>1, HeldThen
<1>7. \A r \in Queue \ {q} : Held(r)' = Held(r)
  BY <1>1, HeldStays DEF Base, InHand
<1> QED
  BY <1>3, <1>5, <1>6, <1>7 DEF Takes, Rest, Same

(* The chain in hand goes back: the last of those held.                    *)
LEMMA HandBack ==
  ASSUME RingInv, NEW q \in Queue, doing = q, hand # None,
         NEW item \in Int, NEW told \in BOOLEAN, Complete(q, hand, item, told),
         hand' = None, completed' \in {TRUE, completed},
         UNCHANGED <<doing, periods, lastAvail, lastUsed, device, ready>>
  PROVE  /\ RingsType' /\ WorkType' /\ Rest(q)
         /\ GivesBack(q, [head |-> hand, item |-> item, told |-> told])
<1>1. hand \in Heads(q) /\ hand \in Int /\ q \in Queues
  BY Constants DEF RingInv, WorkType
<1>2. Held(q) = Append(Base(q), hand) /\ Base(q) \in Seq(Heads(q))
  BY HeldNow DEF RingInv
<1>3. Len(Returned(q)) < Size[q]
  <2>1. Len(Held(q)) = Len(Base(q)) + 1 /\ Len(Base(q)) \in Nat
    BY <1>1, <1>2, AppendProperties, LenProperties
  <2>2. /\ Len(Offered(q)) + Len(Held(q)) + Len(Returned(q)) <= Size[q]
        /\ Len(Offered(q)) \in Nat /\ Len(Returned(q)) \in Nat /\ Size[q] \in Nat
    BY ChainsFit, Constants, Zenon DEF RingInv
  <2> QED
    BY <2>1, <2>2
<1>4. /\ RingsType'
      /\ Offered(q)' = Offered(q)
      /\ Returned(q)' = Append(Returned(q), [head |-> hand, item |-> item, told |-> told])
      /\ \A r \in Queue \ {q} : Offered(r)' = Offered(r) /\ Returned(r)' = Returned(r)
  BY <1>1, <1>3, CompleteRings DEF RingInv
<1>5. WorkType'
  BY <1>1, QueuesAre DEF RingInv, WorkType
<1>6. Held(q)' = Base(q)
  BY <1>5, HeldThen DEF Base
<1>7. \A r \in Queue \ {q} : Held(r)' = Held(r)
  BY HeldStays DEF Base, InHand
<1>8. [head |-> hand, item |-> item, told |-> told] \in Entries(q)
  BY <1>1 DEF Entries
<1>9. GivesBack(q, [head |-> hand, item |-> item, told |-> told])
  BY <1>2, <1>4, <1>6, <1>8 DEF GivesBack
<1> QED
  BY <1>4, <1>5, <1>7, <1>9 DEF Rest, Same

(* A period goes back: the first of those held.                            *)
LEMMA PeriodBack ==
  ASSUME RingInv, NEW q \in Streams, doing # q, periods[q] # <<>>,
         Complete(q, periods[q][1], None, TRUE), periods' = [periods EXCEPT ![q] = Tail(@)],
         UNCHANGED <<doing, hand, completed, lastAvail, lastUsed, device, ready>>
  PROVE  /\ RingsType' /\ WorkType' /\ Rest(q)
         /\ GivesBack(q, [head |-> periods[q][1], item |-> None, told |-> TRUE])
<1> DEFINE head == periods[q][1]
           e == [head |-> head, item |-> None, told |-> TRUE]
<1>0. q \in Queue
  BY QueuesAre
<1>1. /\ periods[q] \in Seq(Heads(q)) /\ Len(periods[q]) \in Nat \ {0} /\ head \in Heads(q) /\ head \in Int
      /\ Tail(periods[q]) \in Seq(Heads(q))
  <2>1. periods[q] \in Seq(Heads(q))
    BY DEF RingInv, WorkType
  <2>2. Len(periods[q]) \in Nat \ {0} /\ head \in Heads(q) /\ Tail(periods[q]) \in Seq(Heads(q))
    BY <2>1, EmptySeq, LenProperties, ElementOfSeq, HeadTailProperties
  <2> QED
    BY <1>0, <2>1, <2>2, Constants
<1>2. Held(q) = periods[q]
  BY <1>0, HeldNow DEF RingInv, Base
<1>3. Len(Returned(q)) < Size[q]
  <2>1. /\ Len(Offered(q)) + Len(Held(q)) + Len(Returned(q)) <= Size[q]
        /\ Len(Offered(q)) \in Nat /\ Len(Returned(q)) \in Nat /\ Size[q] \in Nat
    BY <1>0, ChainsFit, Constants DEF RingInv
  <2> QED
    BY <1>1, <1>2, <2>1
<1>4. /\ RingsType'
      /\ Offered(q)' = Offered(q)
      /\ Returned(q)' = Append(Returned(q), e)
      /\ \A r \in Queue \ {q} : Offered(r)' = Offered(r) /\ Returned(r)' = Returned(r)
  <2>1. RingsType /\ UNCHANGED <<lastAvail, lastUsed>> /\ Complete(q, head, None, TRUE)
    BY DEF RingInv
  <2>2. None \in Int /\ TRUE \in BOOLEAN
    BY DEF None
  <2> QED
    BY <1>0, <1>1, <1>3, <2>1, <2>2, CompleteRings
<1>5. /\ DOMAIN periods' = Streams /\ periods'[q] = Tail(periods[q])
      /\ \A r \in Streams \ {q} : periods'[r] = periods[r]
  BY DEF RingInv, WorkType
<1>6. WorkType'
  BY <1>1, <1>5, QueuesAre DEF RingInv, WorkType
<1>7. Held(q)' = Tail(periods[q])
  BY <1>0, <1>5, <1>6, HeldThen DEF Base
<1>8. \A r \in Queue \ {q} : Held(r)' = Held(r)
  BY <1>5, HeldStays DEF Base, InHand
<1>9. e \in Entries(q)
  BY <1>1 DEF Entries, None
<1>10. GivesBack(q, e)
  <2>1. Held(q) # <<>> /\ e.head = Held(q)[1] /\ Held(q)' = Tail(Held(q))
    BY <1>2, <1>7
  <2> QED
    BY <1>4, <1>9, <2>1 DEF GivesBack
<1> QED
  BY <1>4, <1>6, <1>8, <1>10 DEF Rest, Same
(* A step that moves no chain.                                             *)
LEMMA Quiet ==
  ASSUME RingInv, hand = None, UNCHANGED <<rings, lastAvail, lastUsed, periods, hand, device>>,
         ready' \in BOOLEAN, completed' \in BOOLEAN, doing' \in Queues \cup {"none", "point"},
         completed' => doing' \in Queues, doing' = "point" => device = "input"
  PROVE  RingsType' /\ WorkType' /\ \A q \in Queue : Same(q)
<1>1. RingsType' /\ WorkType'
  BY QueuesAre DEF RingInv, RingsType, WorkType
<1>2. ASSUME NEW q \in Queue PROVE Same(q)
  <2>1. Offered(q)' = Offered(q) /\ Returned(q)' = Returned(q)
    BY RingsStay
  <2>2. Held(q)' = Held(q)
    BY HeldStays DEF Base, InHand
  <2> QED
    BY <2>1, <2>2 DEF Same
<1> QED
  BY <1>1, <1>2

LEMMA NothingInHand ==
  ASSUME WorkType, doing \in {"none", "point"}
  PROVE  hand = None /\ ~completed /\ doing \notin Queue
  BY QueuesAre DEF WorkType, Queue

(* There is room for a chain the driver has.                               *)
LEMMA RoomForFree ==
  ASSUME NEW q \in Queue, ChainInv(q), NEW h \in Free(q)
  PROVE  Len(Offered(q)) < Size[q] /\ h \in Heads(q)
<1>1. h \in Heads(q)
  BY DEF Free
<1>2. Len(Offered(q)) < Size[q]
  <2>1. /\ Len(Offered(q)) \in Nat /\ Sizes(Wrap[q], Size[q]) /\ Heads(q) = 0..(Size[q] - 1)
        /\ Size[q] \in Nat
        /\ Offered(q) \in Seq(Heads(q)) /\ Sound(Offered(q), Held(q), ReturnedHeads(q))
        /\ Held(q) \in Seq(Heads(q)) /\ Returned(q) \in Seq(Entries(q))
    BY ChainsFit, Constants, Zenon DEF ChainInv
  <2>2. ReturnedHeads(q) \in Seq(Heads(q))
    <3>1. ReturnedHeads(q) = HeadsOf(Returned(q))
      BY DEF ReturnedHeads, HeadsOf
    <3> QED
      BY <2>1, <3>1, HeadsOfSeq, Zenon
  <2>3. h \notin Range(Offered(q)) \cup Range(Held(q)) \cup Range(ReturnedHeads(q))
    BY DEF Free
  <2>4. Sound(Append(Offered(q), h), Held(q), ReturnedHeads(q))
    BY <1>1, <2>1, <2>2, <2>3, SoundOffer, Zenon
  <2>5. Append(Offered(q), h) \in Seq(Heads(q)) /\ Len(Append(Offered(q), h)) = Len(Offered(q)) + 1
    BY <1>1, <2>1, AppendProperties
  <2>6. Len(Append(Offered(q), h)) + Len(Held(q)) + Len(ReturnedHeads(q)) <= Size[q]
    BY <2>1, <2>2, <2>4, <2>5, SoundBound
  <2>7. Len(Held(q)) \in Nat /\ Len(ReturnedHeads(q)) \in Nat
    BY <2>1, <2>2, LenProperties
  <2> QED
    BY <2>1, <2>5, <2>6, <2>7
<1> QED
  BY <1>1, <1>2

LEMMA ChainOffered ==
  ASSUME RingInv, NEW q \in Queues, Post(q)
  PROVE  RingsType' /\ WorkType' /\ Offers(q) /\ Rest(q)
<1>0. q \in Queue /\ hand = None /\ doing = "none" /\ ready
  BY QueuesAre, NothingInHand DEF RingInv, Post
<1>1. PICK h \in Free(q) :
        /\ rings' = [rings EXCEPT ![q].avail[rings[q].availIdx % Size[q]] = h,
                                  ![q].availIdx = (@ + 1) % Wrap[q]]
        /\ UNCHANGED <<device, ready, lastAvail, lastUsed, periods, doing, hand, completed>>
  BY DEF Post, deviceVars, working
<1>2. h \in Heads(q)
  BY DEF Free
<1>3. Len(Offered(q)) < Size[q]
  BY <1>0, RoomForFree DEF RingInv
<1>4. /\ RingsType'
      /\ Offered(q)' = Append(Offered(q), h)
      /\ Returned(q)' = Returned(q)
      /\ \A r \in Queue \ {q} : Offered(r)' = Offered(r) /\ Returned(r)' = Returned(r)
  BY <1>0, <1>1, <1>2, <1>3, OfferRings DEF RingInv
<1>5. WorkType'
  BY <1>1, QueuesAre DEF RingInv, WorkType
<1>6. \A r \in Queue : Held(r)' = Held(r)
  BY <1>1, HeldStays DEF Base, InHand
<1>7. Offers(q)
  BY <1>0, <1>4, <1>6 DEF Offers
<1> QED
  BY <1>4, <1>5, <1>6, <1>7 DEF Rest, Same

LEMMA ChainReaped ==
  ASSUME RingInv, NEW q \in Queues, Reap(q)
  PROVE  RingsType' /\ WorkType' /\ Reaps(q) /\ Rest(q)
<1>0. q \in Queue /\ Returned(q) # <<>>
  BY QueuesAre DEF RingInv, Reap
<1>1. /\ lastUsed' = [lastUsed EXCEPT ![q] = (@ + 1) % Wrap[q]]
      /\ rings' = [rings EXCEPT ![q].used[lastUsed[q] % Size[q]] = Blank]
      /\ UNCHANGED <<device, ready, lastAvail, periods, doing, hand, completed>>
  BY DEF Reap, deviceVars, working
<1>2. Len(Returned(q)) <= Size[q]
  BY <1>0, ChainsFit, Constants DEF RingInv
<1>3. /\ RingsType'
      /\ Returned(q)' = Tail(Returned(q))
      /\ Offered(q)' = Offered(q)
      /\ \A r \in Queue \ {q} : Offered(r)' = Offered(r) /\ Returned(r)' = Returned(r)
  BY <1>0, <1>1, <1>2, ReapRings DEF RingInv
<1>4. WorkType'
  BY <1>1, QueuesAre DEF RingInv, WorkType
<1>5. \A r \in Queue : Held(r)' = Held(r)
  BY <1>1, HeldStays DEF Base, InHand
<1> QED
  BY <1>0, <1>3, <1>4, <1>5 DEF Reaps, Rest, Same

(* New rings are empty.                                                    *)
LEMMA FreshEmpty ==
  ASSUME rings = FreshRings, lastAvail = Zeros, lastUsed = Zeros
  PROVE  RingsType /\ \A q \in Queue : Offered(q) = <<>> /\ Returned(q) = <<>>
<1>1. ASSUME NEW q \in Queue
      PROVE  rings[q] \in RingType(q) /\ lastAvail[q] \in Positions(q) /\ lastUsed[q] \in Positions(q)
  <2>1. Blank \in Slots /\ 0 \in Heads(q) /\ 0 \in Positions(q)
    BY Constants DEF Blank, Slots, None
  <2> QED
    BY <2>1 DEF FreshRings, Zeros, RingType
<1>2. RingsType
  BY <1>1 DEF RingsType, FreshRings, Zeros
<1>3. \A q \in Queue : lastAvail[q] = rings[q].availIdx /\ lastUsed[q] = rings[q].usedIdx
  BY DEF FreshRings, Zeros
<1> QED
  BY <1>2, <1>3, EmptyRings

LEMMA FreshEmptyThen ==
  ASSUME rings' = FreshRings, lastAvail' = Zeros, lastUsed' = Zeros
  PROVE  RingsType' /\ \A q \in Queue : Offered(q)' = <<>> /\ Returned(q)' = <<>>
<1>1. ASSUME NEW q \in Queue
      PROVE  rings'[q] \in RingType(q) /\ lastAvail'[q] \in Positions(q) /\ lastUsed'[q] \in Positions(q)
  <2>1. Blank \in Slots /\ 0 \in Heads(q) /\ 0 \in Positions(q)
    BY Constants DEF Blank, Slots, None
  <2> QED
    BY <2>1 DEF FreshRings, Zeros, RingType
<1>2. RingsType'
  BY <1>1 DEF RingsType, FreshRings, Zeros
<1>3. ASSUME NEW q \in Queue PROVE Offered(q)' = <<>> /\ Returned(q)' = <<>>
  <2>1. lastAvail'[q] = 0 /\ lastUsed'[q] = 0 /\ rings'[q].availIdx = 0 /\ rings'[q].usedIdx = 0
    BY DEF FreshRings, Zeros
  <2>2. (0 - 0) % Wrap[q] = 0
    BY Constants DEF Sizes
  <2> QED
    BY <2>1, <2>2 DEF Offered, Returned, Ahead
<1> QED
  BY <1>2, <1>3

LEMMA AllForgotten ==
  ASSUME RingInv, Reset
  PROVE  RingsType' /\ WorkType' /\ Forgets /\ ~ready'
<1>1. /\ hand = None /\ doing = "none" /\ ~ready' /\ rings' = FreshRings /\ lastAvail' = Zeros /\ lastUsed' = Zeros
      /\ periods' = [s \in Streams |-> <<>>] /\ UNCHANGED <<device, doing, hand, completed>>
  BY NothingInHand DEF Reset, RingInv, working
<1>2. RingsType' /\ \A q \in Queue : Offered(q)' = <<>> /\ Returned(q)' = <<>>
  BY <1>1, FreshEmptyThen
<1>3. WorkType'
  BY <1>1, EmptySeq, QueuesAre DEF RingInv, WorkType, Reset
<1>4. ASSUME NEW q \in Queue PROVE Held(q)' = <<>>
  BY <1>1, <1>3, HeldThen DEF Base
<1> QED
  BY <1>1, <1>2, <1>3, <1>4 DEF Forgets
-------------------------------------------------------------------------------
FillInv ==
  /\ waiting \in Seq(Int) /\ came \in Nat /\ Len(waiting) <= Room
  /\ doing \in Fillable /\ hand # None => waiting # <<>>
SafeInv == RingInv /\ ChainType /\ AskedInv /\ FillInv

Entry(h, i, t) == [head |-> h, item |-> i, told |-> t]

LEMMA AnswerRings ==
  ASSUME RingInv, NEW q \in Queue, doing = q, Answer
  PROVE  RingsType' /\ WorkType' /\ Rest(q) /\ GivesBack(q, Entry(hand, None, TRUE))
<1>1. /\ hand # None /\ Complete(q, hand, None, TRUE) /\ hand' = None /\ completed' \in {TRUE, completed}
      /\ UNCHANGED <<doing, periods, lastAvail, lastUsed, device, ready>>
  BY DEF Answer, deviceVars, driver
<1>2. None \in Int /\ TRUE \in BOOLEAN
  BY DEF None
<1> QED
  BY <1>1, <1>2, HandBack DEF Entry

FilledWith == IF Asked = Good THEN waiting[1] ELSE None

LEMMA FillRings ==
  ASSUME RingInv, FillInv, NEW q \in Queue, doing = q, Fill
  PROVE  RingsType' /\ WorkType' /\ Rest(q) /\ GivesBack(q, Entry(hand, FilledWith, TRUE))
<1>1. /\ hand # None /\ Complete(q, hand, FilledWith, TRUE) /\ hand' = None /\ completed' \in {TRUE, completed}
      /\ UNCHANGED <<doing, periods, lastAvail, lastUsed, device, ready>> /\ waiting # <<>>
  BY DEF Fill, driver, FilledWith, FillInv
<1>2. FilledWith \in Int /\ TRUE \in BOOLEAN
  <2>1. waiting[1] \in Int
    BY <1>1, EmptySeq, LenProperties, ElementOfSeq DEF FillInv
  <2> QED
    BY <2>1 DEF FilledWith, None
<1> QED
  BY <1>1, <1>2, HandBack DEF Entry

LEMMA ControlRings ==
  ASSUME RingInv, NEW q \in Queue, doing = q, Control
  PROVE  RingsType' /\ WorkType' /\ Rest(q) /\ GivesBack(q, Entry(hand, None, TRUE))
<1>1. /\ hand # None /\ Complete(q, hand, None, TRUE) /\ hand' = None /\ completed' \in {TRUE, completed}
      /\ UNCHANGED <<doing, periods, lastAvail, lastUsed, device, ready>>
  BY DEF Control, driver
<1>2. None \in Int /\ TRUE \in BOOLEAN
  BY DEF None
<1> QED
  BY <1>1, <1>2, HandBack DEF Entry

LEMMA RefuseRings ==
  ASSUME RingInv, NEW q \in Queue, doing = q, TakeIo, Asked # Good
  PROVE  RingsType' /\ WorkType' /\ Rest(q) /\ GivesBack(q, Entry(hand, None, FALSE))
<1>1. /\ hand # None /\ Complete(q, hand, None, FALSE) /\ hand' = None /\ completed' \in {TRUE, completed}
      /\ UNCHANGED <<doing, periods, lastAvail, lastUsed, device, ready>>
  BY DEF TakeIo, driver
<1>2. None \in Int /\ FALSE \in BOOLEAN
  BY DEF None
<1> QED
  BY <1>1, <1>2, HandBack DEF Entry

(* The chain in hand becomes the last of the periods.                      *)
LEMMA HoldRings ==
  ASSUME RingInv, NEW q \in Queue, doing = q, TakeIo, Asked = Good
  PROVE  RingsType' /\ WorkType' /\ \A r \in Queue : Same(r)
<1>1. /\ hand # None /\ hand' = None /\ periods' = [periods EXCEPT ![q] = Append(@, hand)] /\ q \in Streams
      /\ UNCHANGED <<rings, doing, lastAvail, lastUsed, device, ready, completed>>
  BY DEF TakeIo, driver
<1>2. hand \in Heads(q) /\ periods[q] \in Seq(Heads(q)) /\ q \in Queues
  BY <1>1 DEF RingInv, WorkType
<1>3. Append(periods[q], hand) \in Seq(Heads(q))
  BY <1>2, AppendProperties
<1>4. /\ DOMAIN periods' = Streams /\ periods'[q] = Append(periods[q], hand)
      /\ \A r \in Streams \ {q} : periods'[r] = periods[r]
  BY <1>1 DEF RingInv, WorkType
<1>5. RingsType' /\ WorkType'
  BY <1>1, <1>2, <1>3, <1>4, QueuesAre DEF RingInv, RingsType, WorkType
<1>6. \A r \in Queue : Offered(r)' = Offered(r) /\ Returned(r)' = Returned(r)
  BY <1>1, RingsStay
<1>7. Held(q)' = Held(q)
  BY <1>1, <1>4, <1>5, HeldNow, HeldThen DEF Base, RingInv
<1>8. \A r \in Queue \ {q} : Held(r)' = Held(r)
  BY <1>1, <1>4, HeldStays DEF Base, InHand
<1> QED
  BY <1>5, <1>6, <1>7, <1>8 DEF Same

LEMMA FlushRings ==
  ASSUME RingInv, NEW s \in Streams, s = Asked[2], Flush
  PROVE  RingsType' /\ WorkType' /\ Rest(s) /\ GivesBack(s, Entry(periods[s][1], None, TRUE))
<1>1. /\ doing # s /\ periods[s] # <<>> /\ Complete(s, periods[s][1], None, TRUE)
      /\ periods' = [periods EXCEPT ![s] = Tail(@)]
      /\ UNCHANGED <<doing, hand, completed, lastAvail, lastUsed, device, ready>>
  BY QueuesAre DEF Flush, working, driver
<1> QED
  BY <1>1, PeriodBack DEF Entry

LEMMA FinishRings ==
  ASSUME RingInv, NEW s \in Streams, Finish(s)
  PROVE  RingsType' /\ WorkType' /\ Rest(s) /\ GivesBack(s, Entry(periods[s][1], None, TRUE))
<1>1. /\ doing # s /\ periods[s] # <<>> /\ Complete(s, periods[s][1], None, TRUE)
      /\ periods' = [periods EXCEPT ![s] = Tail(@)]
      /\ UNCHANGED <<doing, hand, completed, lastAvail, lastUsed, device, ready>>
  BY QueuesAre DEF Finish, working, driver, Queue
<1> QED
  BY <1>1, PeriodBack DEF Entry

(* What none of the actions below touches.                                 *)
Idles == Done \/ PumpInput \/ Receive \/ Push \/ Claim \/ ReadStatus \/ Acknowledge \/ Handled \/ SetUp
         \/ \E q \in Queues : Notify(q)

LEMMA IdleRings ==
  ASSUME RingInv, Idles
  PROVE  /\ RingsType' /\ WorkType' /\ (ready => ready') /\ \A q \in Queue : Same(q)
         /\ hand = None /\ hand' = None /\ UNCHANGED <<periods, chain, device>>
<1>1. /\ hand = None /\ UNCHANGED <<rings, lastAvail, lastUsed, periods, hand, device>>
      /\ ready' \in BOOLEAN /\ completed' \in BOOLEAN /\ doing' \in Queues \cup {"none", "point"}
      /\ (completed' => doing' \in Queues) /\ (doing' = "point" => device = "input")
      /\ (ready => ready') /\ UNCHANGED chain
  <2> USE DEF deviceVars, working, driver, history
  <2>1. CASE Done
    BY <2>1 DEF Done, RingInv, WorkType
  <2>2. CASE PumpInput
    BY <2>2, NothingInHand DEF PumpInput, RingInv, WorkType, Queues
  <2>3. CASE Receive
    BY <2>3, NothingInHand DEF Receive, Arrives, RingInv, WorkType, Queues
  <2>4. CASE Push
    BY <2>4, NothingInHand DEF Push, Arrives, RingInv, WorkType
  <2>5. CASE Claim
    BY <2>5, NothingInHand DEF Claim, RingInv, WorkType
  <2>6. CASE ReadStatus
    BY <2>6, NothingInHand DEF ReadStatus, RingInv, WorkType
  <2>7. CASE Acknowledge
    BY <2>7, NothingInHand DEF Acknowledge, RingInv, WorkType
  <2>8. CASE Handled
    BY <2>8, NothingInHand DEF Handled, RingInv, WorkType
  <2>9. CASE SetUp
    BY <2>9, NothingInHand DEF SetUp, RingInv, WorkType
  <2>10. CASE \E q \in Queues : Notify(q)
    <3>1. PICK q \in Queues : Notify(q)
      BY <2>10
    <3>2. q # "point"
      BY QueuesAre DEF Queue, RingInv
    <3> QED
      BY <3>1, <3>2, NothingInHand DEF Notify, RingInv, WorkType
  <2> QED
    BY <2>1, <2>2, <2>3, <2>4, <2>5, <2>6, <2>7, <2>8, <2>9, <2>10 DEF Idles
<1>2. RingsType' /\ WorkType' /\ \A q \in Queue : Same(q)
  BY <1>1, Quiet
<1> QED
  BY <1>1, <1>2
-------------------------------------------------------------------------------
(* Every step is a step of one queue, of none, or a reset.                 *)
LEMMA EntriesGiven ==
  ASSUME NEW q, NEW e, GivesBack(q, e)
  PROVE  QueueStep(q)
  BY DEF QueueStep, GivesBack

LEMMA StepOf ==
  ASSUME NEW q \in Queue, QueueStep(q), Rest(q), ready' = ready
  PROVE  RingStep
  BY DEF RingStep

LEMMA StepRings ==
  ASSUME SafeInv, Next
  PROVE  RingsType' /\ WorkType' /\ RingStep
<1>0. RingInv /\ FillInv /\ Queues \subseteq Queue /\ Streams \subseteq Queue
  BY QueuesAre DEF SafeInv, RingInv
<1>1. CASE NextChain
  <2>1. PICK q \in Queue : doing = q
    BY <1>0, <1>1 DEF NextChain
  <2>2. RingsType' /\ WorkType' /\ Takes(q) /\ Rest(q)
    BY <1>0, <1>1, <2>1, ChainTaken
  <2>3. ready' = ready /\ QueueStep(q)
    BY <1>1, <2>2 DEF NextChain, QueueStep
  <2> QED
    BY <2>2, <2>3, StepOf
<1>2. CASE Answer
  <2>1. PICK q \in Queue : doing = q
    BY <1>0, <1>2 DEF Answer
  <2>2. RingsType' /\ WorkType' /\ Rest(q) /\ QueueStep(q)
    BY <1>0, <1>2, <2>1, AnswerRings, EntriesGiven
  <2>3. ready' = ready
    BY <1>2 DEF Answer, deviceVars
  <2> QED
    BY <2>2, <2>3, StepOf
<1>3. CASE Fill
  <2>1. PICK q \in Queue : doing = q
    BY <1>0, <1>3 DEF Fill, Fillable
  <2>2. RingsType' /\ WorkType' /\ Rest(q) /\ QueueStep(q)
    BY <1>0, <1>3, <2>1, FillRings, EntriesGiven
  <2>3. ready' = ready
    BY <1>3 DEF Fill
  <2> QED
    BY <2>2, <2>3, StepOf
<1>4. CASE TakeIo
  <2>1. PICK q \in Queue : doing = q
    BY <1>0, <1>4 DEF TakeIo
  <2>2. ready' = ready
    BY <1>4 DEF TakeIo
  <2>3. CASE Asked = Good
    BY <1>0, <1>4, <2>1, <2>2, <2>3, HoldRings DEF RingStep
  <2>4. CASE Asked # Good
    <3>1. RingsType' /\ WorkType' /\ Rest(q) /\ QueueStep(q)
      BY <1>0, <1>4, <2>1, <2>4, RefuseRings, EntriesGiven
    <3> QED
      BY <2>2, <3>1, StepOf
  <2> QED
    BY <2>3, <2>4
<1>5. CASE Flush
  <2>1. Asked \in Requests \X Streams
    BY <1>5 DEF Flush, SafeInv, AskedInv
  <2>2. PICK s \in Streams : s = Asked[2]
    BY <2>1
  <2>3. RingsType' /\ WorkType' /\ Rest(s) /\ QueueStep(s)
    BY <1>0, <1>5, <2>2, FlushRings, EntriesGiven
  <2>4. ready' = ready /\ s \in Queue
    BY <1>0, <1>5 DEF Flush
  <2> QED
    BY <2>3, <2>4, StepOf
<1>6. CASE Control
  <2>1. PICK q \in Queue : doing = q
    BY <1>6 DEF Control, Queue
  <2>2. RingsType' /\ WorkType' /\ Rest(q) /\ QueueStep(q)
    BY <1>0, <1>6, <2>1, ControlRings, EntriesGiven
  <2>3. ready' = ready
    BY <1>6 DEF Control
  <2> QED
    BY <2>2, <2>3, StepOf
<1>7. CASE \E s \in Streams : Finish(s)
  <2>1. PICK s \in Streams : Finish(s)
    BY <1>7
  <2>2. RingsType' /\ WorkType' /\ Rest(s) /\ QueueStep(s)
    BY <1>0, <2>1, FinishRings, EntriesGiven
  <2>3. ready' = ready /\ s \in Queue
    BY <1>0, <2>1 DEF Finish
  <2> QED
    BY <2>2, <2>3, StepOf
<1>8. CASE \E q \in Queues : Post(q)
  <2>1. PICK q \in Queues : Post(q)
    BY <1>8
  <2>2. RingsType' /\ WorkType' /\ Offers(q) /\ Rest(q)
    BY <1>0, <2>1, ChainOffered
  <2>3. ready' = ready /\ q \in Queue /\ QueueStep(q)
    BY <1>0, <2>1, <2>2 DEF Post, deviceVars, QueueStep
  <2> QED
    BY <2>2, <2>3, StepOf
<1>9. CASE \E q \in Queues : Reap(q)
  <2>1. PICK q \in Queues : Reap(q)
    BY <1>9
  <2>2. RingsType' /\ WorkType' /\ Reaps(q) /\ Rest(q)
    BY <1>0, <2>1, ChainReaped
  <2>3. ready' = ready /\ q \in Queue /\ QueueStep(q)
    BY <1>0, <2>1, <2>2 DEF Reap, deviceVars, QueueStep
  <2> QED
    BY <2>2, <2>3, StepOf
<1>10. CASE Reset
  BY <1>0, <1>10, AllForgotten DEF RingStep
<1>11. CASE Idles
  BY <1>0, <1>11, IdleRings DEF RingStep
<1> QED
  BY <1>1, <1>2, <1>3, <1>4, <1>5, <1>6, <1>7, <1>8, <1>9, <1>10, <1>11
     DEF Next, DeviceStep, Handler, Idles

LEMMA RingsKept ==
  ASSUME RingInv, RingsType', WorkType', RingStep
  PROVE  RingInv'
<1>1. CASE Forgets
  <2>1. ASSUME NEW q \in Queue PROVE ChainInv(q)'
    <3>1. Offered(q)' = <<>> /\ Held(q)' = <<>> /\ Returned(q)' = <<>>
      BY <1>1 DEF Forgets
    <3>2. ReturnedHeads(q)' = <<>>
      BY <3>1 DEF ReturnedHeads
    <3> QED
      BY <3>1, <3>2, EmptySeq DEF ChainInv, Sound, Distinct, Apart
  <2>2. IdleInv'
    BY <1>1 DEF Forgets, IdleInv
  <2> QED
    BY <2>1, <2>2 DEF RingInv
<1>2. CASE (ready => ready') /\ \A q \in Queue : Same(q)
  <2>1. \A q \in Queue : ChainInv(q)'
    BY <1>2, QueueKeeps DEF RingInv
  <2>2. IdleInv'
    BY <1>2 DEF IdleInv, Same, RingInv
  <2> QED
    BY <2>1, <2>2 DEF RingInv
<1>3. CASE (ready => ready') /\ \E q \in Queue : QueueStep(q) /\ Rest(q)
  <2>1. PICK q \in Queue : QueueStep(q) /\ Rest(q)
    BY <1>3
  <2>2. \A r \in Queue : ChainInv(r)'
    BY <2>1, QueueKeeps DEF RingInv, Rest
  <2>3. ready
    <3> SUFFICES ASSUME ~ready PROVE FALSE
      OBVIOUS
    <3>1. Offered(q) = <<>> /\ Held(q) = <<>> /\ Returned(q) = <<>>
      BY DEF RingInv, IdleInv
    <3>2. ASSUME NEW e \in Entries(q), GivesBack(q, e) PROVE FALSE
      <4>1. Held(q)' \in Seq(Heads(q)) /\ <<>> = Append(Held(q)', e.head)
        BY <3>1, <3>2 DEF GivesBack
      <4>2. e.head \in Heads(q)
        BY DEF Entries
      <4> QED
        BY <4>1, <4>2, AppendProperties
    <3> QED
      BY <2>1, <3>1, <3>2 DEF QueueStep, Offers, Takes, Reaps
  <2> QED
    BY <1>3, <2>2, <2>3 DEF RingInv, IdleInv
<1> QED
  BY <1>1, <1>2, <1>3 DEF RingStep

(* What waits in the control queue stays a request.                        *)
LEMMA AskedStays ==
  ASSUME AskedInv, ChainType, UNCHANGED chain, Offered("control")' = Offered("control"),
         doing' = "control" /\ hand' # None => doing = "control" /\ hand' = hand
  PROVE  AskedInv' /\ ChainType'
<1>1. ChainType'
  BY DEF ChainType
<1>2. \A i \in DOMAIN Offered("control")' : chain'["control"][Offered("control")'[i]] \in Requests \X Streams
  BY DEF AskedInv
<1>3. doing' = "control" /\ hand' # None => Asked' \in Requests \X Streams
  BY DEF AskedInv, Asked
<1> QED
  BY <1>1, <1>2, <1>3 DEF AskedInv
LEMMA SameOffered ==
  ASSUME NEW q \in Queue, Rest(q), NEW c \in Queue, Offered(q)' = Offered(q)
  PROVE  Offered(c)' = Offered(c)
  BY DEF Rest, Same

LEMMA AskedKept ==
  ASSUME SafeInv, Next
  PROVE  AskedInv' /\ ChainType'
<1>0. /\ RingInv /\ FillInv /\ AskedInv /\ ChainType
      /\ Queues \subseteq Queue /\ Streams \subseteq Queue /\ "control" \in Queue /\ "control" \notin Streams
  BY QueuesAre DEF SafeInv, RingInv, Queue
<1> DEFINE o == Offered("control")
<1>01. o \in Seq(Heads("control")) /\ DOMAIN o = 1..Len(o) /\ Len(o) \in Nat
  BY <1>0, LenProperties DEF RingInv, ChainInv
<1> HIDE DEF o
<1>02. AskedInv <=> /\ \A i \in DOMAIN o : chain["control"][o[i]] \in Requests \X Streams
                    /\ doing = "control" /\ hand # None => Asked \in Requests \X Streams
  BY DEF AskedInv, o
<1>03. AskedInv' <=> /\ \A i \in DOMAIN o' : chain'["control"][o'[i]] \in Requests \X Streams
                     /\ doing' = "control" /\ hand' # None => chain'[doing'][hand'] \in Requests \X Streams
  BY DEF AskedInv, o, Asked
<1>1. CASE NextChain
  <2>1. PICK q \in Queue : doing = q
    BY <1>0, <1>1 DEF NextChain
  <2>2. Takes(q) /\ Rest(q) /\ hand' = Head(Offered(q)) /\ UNCHANGED <<chain, doing>> /\ hand = None
    BY <1>0, <1>1, <2>1, ChainTaken DEF NextChain, driver
  <2>3. CASE q = "control"
    <3>1. o # <<>> /\ o' = Tail(o) /\ hand' = Head(o)
      BY <2>2, <2>3 DEF Takes, o
    <3>2. /\ DOMAIN o' = 1..(Len(o) - 1) /\ \A i \in 1..(Len(o) - 1) : o'[i] = o[i + 1]
          /\ hand' = o[1] /\ 1 \in DOMAIN o
      BY <1>01, <3>1, HeadTailProperties, LenProperties, EmptySeq
    <3>3. \A i \in DOMAIN o' : \E j \in DOMAIN o : o'[i] = o[j]
      BY <1>01, <3>2
    <3> QED
      BY <1>0, <1>02, <1>03, <2>1, <2>2, <2>3, <3>2, <3>3 DEF ChainType
  <2>4. CASE q # "control"
    BY <1>0, <2>1, <2>2, <2>4, AskedStays DEF Rest, Same
  <2> QED
    BY <2>3, <2>4
<1>2. CASE Answer \/ Fill \/ TakeIo \/ Control
  <2>1. UNCHANGED chain /\ hand' = None
    BY <1>2 DEF Answer, Fill, TakeIo, Control, driver
  <2>2. PICK q \in Queue : doing = q
    BY <1>0, <1>2 DEF Answer, Fill, Fillable, TakeIo, Control, Queue
  <2>3. Rest(q) /\ Offered(q)' = Offered(q)
    <3>1. CASE Answer
      BY <1>0, <2>2, <3>1, AnswerRings DEF GivesBack
    <3>2. CASE Fill
      BY <1>0, <2>2, <3>2, FillRings DEF GivesBack
    <3>3. CASE TakeIo /\ Asked = Good
      BY <1>0, <2>2, <3>3, HoldRings DEF Rest, Same
    <3>4. CASE TakeIo /\ Asked # Good
      BY <1>0, <2>2, <3>4, RefuseRings DEF GivesBack
    <3>5. CASE Control
      BY <1>0, <2>2, <3>5, ControlRings DEF GivesBack
    <3> QED
      BY <1>2, <3>1, <3>2, <3>3, <3>4, <3>5
  <2> QED
    BY <1>0, <2>1, <2>3, SameOffered, AskedStays
<1>3. CASE Flush
  <2>1. PICK s \in Streams : s = Asked[2]
    BY <1>0, <1>3 DEF Flush, AskedInv
  <2>2. Rest(s) /\ Offered(s)' = Offered(s) /\ UNCHANGED <<chain, doing, hand>>
    BY <1>0, <1>3, <2>1, FlushRings DEF GivesBack, Flush, working, driver
  <2> QED
    BY <1>0, <2>2, SameOffered, AskedStays
<1>4. CASE \E s \in Streams : Finish(s)
  <2>1. PICK s \in Streams : Finish(s)
    BY <1>4
  <2>2. Rest(s) /\ Offered(s)' = Offered(s) /\ UNCHANGED <<chain, doing, hand>>
    BY <1>0, <2>1, FinishRings DEF GivesBack, Finish, working, driver
  <2> QED
    BY <1>0, <2>2, SameOffered, AskedStays
<1>5. CASE \E q \in Queues : Post(q)
  <2>1. PICK q \in Queues : Post(q)
    BY <1>5
  <2>2. PICK h \in Free(q), c \in Contents(q) :
          /\ rings' = [rings EXCEPT ![q].avail[rings[q].availIdx % Size[q]] = h,
                                    ![q].availIdx = (@ + 1) % Wrap[q]]
          /\ chain' = [chain EXCEPT ![q][h] = c]
    BY <2>1 DEF Post
  <2>3. h \in Heads(q) /\ q \in Queue /\ hand' = None
    BY <1>0, <2>1, NothingInHand DEF Free, Post, working, RingInv
  <2>4. ChainType'
    BY <1>0, <2>2, <2>3 DEF ChainType
  <2>5. CASE q # "control"
    <3>1. o' = o
      BY <1>0, <2>1, <2>5, ChainOffered DEF Rest, Same, o
    <3>2. chain'["control"] = chain["control"]
      BY <1>0, <2>2, <2>5 DEF ChainType
    <3> QED
      BY <1>0, <1>02, <1>03, <2>3, <2>4, <3>1, <3>2
  <2>6. CASE q = "control"
    <3>2. o' = Append(o, h)
      <4>1. UNCHANGED <<lastAvail, lastUsed>>
        BY <2>1 DEF Post, deviceVars
      <4>2. Len(Offered(q)) < Size[q]
        BY <1>0, <2>3, RoomForFree DEF RingInv
      <4> QED
        BY <1>0, <2>2, <2>3, <2>6, <4>1, <4>2, OfferRings DEF RingInv, o
    <3>3. c \in Requests \X Streams
      BY <2>6 DEF Contents
    <3>4. \A i \in DOMAIN o : o[i] # h
      BY <2>6 DEF Free, Range, o
    <3>5. /\ DOMAIN o' = 1..(Len(o) + 1) /\ o'[Len(o) + 1] = h
          /\ \A i \in 1..Len(o) : o'[i] = o[i]
      BY <1>01, <2>3, <2>6, <3>2, AppendProperties, LenProperties
    <3>6. /\ chain'["control"][h] = c
          /\ \A i \in 1..Len(o) : chain'["control"][o[i]] = chain["control"][o[i]]
      <4>1. \A i \in 1..Len(o) : o[i] \in Heads("control")
        BY <1>01, ElementOfSeq
      <4> QED
        BY <1>0, <1>01, <2>2, <2>3, <2>6, <3>4, <4>1 DEF ChainType
    <3>7. \A i \in DOMAIN o' : chain'["control"][o'[i]] \in Requests \X Streams
      BY <1>0, <1>01, <1>02, <3>3, <3>5, <3>6
    <3> QED
      BY <1>03, <2>3, <2>4, <3>7
  <2> QED
    BY <2>5, <2>6
<1>6. CASE \E q \in Queues : Reap(q)
  <2>1. PICK q \in Queues : Reap(q)
    BY <1>6
  <2>2. Reaps(q) /\ Rest(q)
    BY <1>0, <2>1, ChainReaped
  <2>3. /\ o' = o /\ hand' = None /\ q \in Queue
        /\ chain' = [chain EXCEPT ![q][Returned(q)[1].head] = Good]
    BY <1>0, <2>1, <2>2, NothingInHand DEF Reap, working, RingInv, Reaps, Rest, Same, o
  <2>4. ChainType'
    BY <1>0, <2>3 DEF ChainType
  <2>5. CASE q # "control"
    <3>1. chain'["control"] = chain["control"]
      BY <1>0, <2>3, <2>5 DEF ChainType
    <3> QED
      BY <1>0, <1>02, <1>03, <2>3, <2>4, <3>1
  <2>6. CASE q = "control"
    <3>1. 1 \in DOMAIN ReturnedHeads(q) /\ ReturnedHeads(q)[1] = Returned(q)[1].head
      <4>1. Returned(q) \in Seq(Entries(q)) /\ Returned(q) # <<>>
        BY <1>0, <2>2, <2>3 DEF Reaps, RingInv, ChainInv
      <4>2. 1 \in DOMAIN Returned(q)
        BY <4>1, EmptySeq, LenProperties
      <4> QED
        BY <4>2 DEF ReturnedHeads
    <3>2. \A i \in DOMAIN o : o[i] # Returned(q)[1].head
      BY <1>0, <2>3, <2>6, <3>1 DEF RingInv, ChainInv, Sound, Apart, o
    <3>3. \A i \in DOMAIN o : chain'["control"][o[i]] = chain["control"][o[i]]
      <4>1. \A i \in DOMAIN o : o[i] \in Heads("control")
        BY <1>01, ElementOfSeq
      <4> QED
        BY <1>0, <2>3, <2>6, <3>2, <4>1 DEF ChainType
    <3> QED
      BY <1>0, <1>02, <1>03, <2>3, <2>4, <3>3
  <2> QED
    BY <2>5, <2>6
<1>7. CASE Reset
  <2>1. o' = <<>> /\ hand' = None /\ chain' = NoChains
    BY <1>0, <1>7, AllForgotten, NothingInHand DEF Forgets, Reset, working, RingInv, o
  <2> QED
    BY <1>03, <2>1 DEF ChainType, NoChains
<1>8. CASE Idles
  <2>1. (\A q \in Queue : Same(q)) /\ hand' = None /\ UNCHANGED chain
    BY <1>0, <1>8, IdleRings
  <2> QED
    BY <1>0, <2>1, AskedStays DEF Same
<1> QED
  BY <1>1, <1>2, <1>3, <1>4, <1>5, <1>6, <1>7, <1>8 DEF Next, DeviceStep, Handler, Idles
LEMMA FillKept ==
  ASSUME SafeInv, Next
  PROVE  FillInv'
<1>0. /\ RingInv /\ waiting \in Seq(Int) /\ came \in Nat /\ Len(waiting) <= Room /\ Room \in Nat \ {0}
      /\ (doing \in Fillable /\ hand # None => waiting # <<>>)
      /\ Len(waiting) \in Nat
  BY VirtioAssumption, LenProperties DEF SafeInv, FillInv
<1>1. CASE NextChain
  BY <1>0, <1>1, QueuesAre DEF NextChain, Works, FillInv, history
<1>2. CASE Fill
  <2>1. waiting' \in Seq(Int) /\ Len(waiting') <= Room
    <3>1. waiting # <<>>
      BY <1>0, <1>2 DEF Fill
    <3>2. Tail(waiting) \in Seq(Int) /\ Len(Tail(waiting)) = Len(waiting) - 1
      BY <1>0, <3>1, HeadTailProperties
    <3>3. waiting' = Tail(waiting) \/ waiting' = waiting
      BY <1>2 DEF Fill
    <3>4. Room \in Nat /\ Len(waiting) - 1 <= Room
      BY <1>0
    <3> QED
      BY <1>0, <3>2, <3>3, <3>4
  <2> QED
    BY <1>0, <1>2, <2>1 DEF Fill, FillInv, history
<1>3. CASE Receive \/ Push
  <2>1. waiting' \in Seq(Int) /\ Len(waiting') <= Room /\ came' \in Nat
    <3> DEFINE kept == IF Len(waiting) >= Room THEN Tail(waiting) ELSE waiting
    <3>1. kept \in Seq(Int) /\ Len(kept) \in Nat /\ Len(kept) < Room
      <4>1. CASE Len(waiting) >= Room
        <5>1. waiting # <<>>
          BY <1>0, <4>1, EmptySeq
        <5>2. Tail(waiting) \in Seq(Int) /\ Len(Tail(waiting)) = Len(waiting) - 1
          BY <1>0, <5>1, HeadTailProperties
        <5> QED
          BY <1>0, <4>1, <5>2
      <4>2. CASE Len(waiting) < Room
        BY <1>0, <4>2
      <4> QED
        BY <1>0, <4>1, <4>2
    <3>2. came' = came + 1 /\ waiting' = Append(kept, came')
      BY <1>3 DEF Receive, Push, Arrives
    <3> HIDE DEF kept
    <3>3. came' \in Nat /\ came' \in Int
      BY <1>0, <3>2
    <3>4. waiting' \in Seq(Int) /\ Len(waiting') = Len(kept) + 1
      BY <3>1, <3>2, <3>3, AppendProperties
    <3> QED
      BY <1>0, <3>1, <3>3, <3>4
  <2>2. hand' = None
    BY <1>0, <1>3, NothingInHand DEF Receive, Push, Arrives, RingInv
  <2> QED
    BY <2>1, <2>2 DEF FillInv
<1>4. CASE Reset
  <2>1. hand' = None /\ came' = came /\ waiting' \in {waiting, <<>>}
    BY <1>0, <1>4, NothingInHand DEF Reset, working, RingInv
  <2>2. <<>> \in Seq(Int) /\ Len(<<>>) = 0 /\ 0 <= Room
    BY <1>0, EmptySeq
  <2>3. waiting' \in Seq(Int) /\ Len(waiting') <= Room
    BY <1>0, <2>1, <2>2
  <2> QED
    BY <1>0, <2>1, <2>3 DEF FillInv
<1>5. CASE Answer \/ TakeIo \/ Control \/ Done \/ PumpInput
  BY <1>0, <1>5, NothingInHand DEF Answer, TakeIo, Control, Done, PumpInput, deviceVars, history, FillInv, RingInv
<1>6. CASE Flush
  BY <1>0, <1>6, QueuesAre DEF Flush, working, history, FillInv
<1>7. CASE Handler \/ SetUp \/ (\E s \in Streams : Finish(s)) \/ (\E q \in Queues : Post(q) \/ Notify(q))
  <2>1. doing = "none" /\ waiting' = waiting /\ came' = came /\ hand' = hand
    BY <1>7 DEF Handler, Claim, ReadStatus, Acknowledge, Handled, Reap, SetUp, Finish, Post, Notify,
                deviceVars, working, history
  <2> QED
    BY <1>0, <2>1, NothingInHand DEF FillInv, RingInv
<1> QED
  BY <1>1, <1>2, <1>3, <1>4, <1>5, <1>6, <1>7 DEF Next, DeviceStep

LEMMA SafeInit == Init => SafeInv
<1> SUFFICES ASSUME Init PROVE SafeInv
  OBVIOUS
<1>1. RingsType /\ \A q \in Queue : Offered(q) = <<>> /\ Returned(q) = <<>>
  BY FreshEmpty DEF Init
<1>2. WorkType
  BY VirtioAssumption, EmptySeq DEF Init, WorkType
<1>3. \A q \in Queue : Held(q) = <<>>
  BY <1>2, HeldNow DEF Init, Base
<1>4. ASSUME NEW q \in Queue PROVE ChainInv(q)
  <2>1. Offered(q) = <<>> /\ Held(q) = <<>> /\ Returned(q) = <<>> /\ ReturnedHeads(q) = <<>>
    BY <1>1, <1>3 DEF ReturnedHeads
  <2> QED
    BY <2>1, EmptySeq DEF ChainInv, Sound, Distinct, Apart
<1>5. IdleInv
  BY <1>1, <1>3 DEF IdleInv
<1>6. AskedInv /\ ChainType
  BY <1>1 DEF Init, AskedInv, ChainType, NoChains, Queue
<1>7. FillInv
  BY VirtioAssumption, EmptySeq DEF Init, FillInv
<1> QED
  BY <1>1, <1>2, <1>4, <1>5, <1>6, <1>7 DEF SafeInv, RingInv

LEMMA NothingChanges ==
  ASSUME SafeInv, UNCHANGED vars
  PROVE  SafeInv' /\ \A q \in Queue : Same(q)
<1> USE DEF vars, deviceVars, working, driver, history
<1>1. ASSUME NEW q \in Queue PROVE Same(q)
  BY RingsStay, HeldStays DEF Same, Base, InHand
<1>2. RingsType' /\ WorkType'
  BY QueuesAre DEF SafeInv, RingInv, RingsType, WorkType
<1>3. RingStep
  BY <1>1 DEF RingStep
<1>4. RingInv'
  BY <1>2, <1>3, RingsKept DEF SafeInv
<1>5. AskedInv' /\ ChainType'
  <2>1. "control" \in Queue
    BY DEF Queue
  <2> QED
    BY <1>1, <2>1, AskedStays DEF SafeInv, Same
<1>6. FillInv'
  BY QueuesAre DEF SafeInv, FillInv
<1> QED
  BY <1>1, <1>4, <1>5, <1>6 DEF SafeInv

LEMMA SafeStep == SafeInv /\ [Next]_vars => SafeInv' /\ RingStep
<1> SUFFICES ASSUME SafeInv, [Next]_vars PROVE SafeInv' /\ RingStep
  OBVIOUS
<1>1. CASE Next
  <2>1. RingsType' /\ WorkType' /\ RingStep
    BY <1>1, StepRings
  <2>2. RingInv'
    BY <2>1, RingsKept DEF SafeInv
  <2> QED
    BY <1>1, <2>1, <2>2, AskedKept, FillKept DEF SafeInv
<1>2. CASE UNCHANGED vars
  <2>1. SafeInv' /\ \A q \in Queue : Same(q)
    BY <1>2, NothingChanges
  <2> QED
    BY <1>2, <2>1 DEF RingStep, vars, deviceVars
<1> QED
  BY <1>1, <1>2

(* The rings' invariant.                                                   *)
THEOREM Safe == Spec => []SafeInv
<1>1. SafeInv /\ [Next]_vars => SafeInv'
  BY SafeStep
<1> QED
  BY <1>1, SafeInit, PTL DEF Spec
-------------------------------------------------------------------------------
(* The rings keep the promise of Chains.                                   *)
LEMMA RingsNow ==
  ASSUME RingInv, NEW q \in Queue
  PROVE  OfferedNow(q) = Offered(q) /\ ReturnedNow(q) = ReturnedHeads(q)
<1>1. CASE ready
  BY <1>1 DEF OfferedNow, ReturnedNow
<1>2. CASE ~ready
  <2>1. Offered(q) = <<>> /\ Returned(q) = <<>>
    BY <1>2 DEF RingInv, IdleInv
  <2>2. ReturnedHeads(q) = <<>>
    BY <2>1 DEF ReturnedHeads
  <2> QED
    BY <1>2, <2>1, <2>2 DEF OfferedNow, ReturnedNow
<1> QED
  BY <1>1, <1>2

LEMMA RingsThen ==
  ASSUME RingInv', NEW q \in Queue
  PROVE  OfferedNow(q)' = Offered(q)' /\ ReturnedNow(q)' = ReturnedHeads(q)'
<1>1. CASE ready'
  BY <1>1 DEF OfferedNow, ReturnedNow
<1>2. CASE ~ready'
  <2>1. Offered(q)' = <<>> /\ Returned(q)' = <<>>
    BY <1>2 DEF RingInv, IdleInv
  <2>2. ReturnedHeads(q)' = <<>>
    BY <2>1 DEF ReturnedHeads
  <2> QED
    BY <1>2, <2>1, <2>2 DEF OfferedNow, ReturnedNow
<1> QED
  BY <1>1, <1>2

LEMMA ChainsInit ==
  ASSUME Init
  PROVE  C!Init
<1>1. RingInv
  BY SafeInit DEF SafeInv
<1>2. \A q \in Queue : Offered(q) = <<>> /\ Held(q) = <<>> /\ Returned(q) = <<>>
  BY <1>1 DEF RingInv, IdleInv, Init
<1>3. \A q \in Queue : OfferedNow(q) = <<>> /\ Held(q) = <<>> /\ ReturnedNow(q) = <<>>
  BY <1>2 DEF Init, OfferedNow, ReturnedNow
<1> QED
  BY <1>3 DEF C!Init, C!Nothing

(* What the queues stay, where none of them moves.                         *)
LEMMA QueueStays ==
  ASSUME RingInv, RingInv', NEW q \in Queue, Same(q)
  PROVE  OfferedNow(q)' = OfferedNow(q) /\ Held(q)' = Held(q) /\ ReturnedNow(q)' = ReturnedNow(q)
<1>1. ReturnedHeads(q)' = ReturnedHeads(q)
  BY DEF Same, ReturnedHeads
<1> QED
  BY <1>1, RingsNow, RingsThen DEF Same

LEMMA QueueMoves ==
  ASSUME RingInv, RingInv', NEW q \in Queue, QueueStep(q)
  PROVE  C!Offer(q) \/ C!Reap(q) \/ C!Take(q) \/ C!Return(q)
<1> DEFINE o == OfferedNow(q)
           h == Held(q)
           r == ReturnedNow(q)
<1>1. o = Offered(q) /\ r = HeadsOf(Returned(q)) /\ o' = Offered(q)' /\ r' = HeadsOf(Returned(q)')
  BY RingsNow, RingsThen DEF ReturnedHeads, HeadsOf
<1>2. /\ o \in Seq(Heads(q)) /\ h \in Seq(Heads(q)) /\ Returned(q) \in Seq(Entries(q))
  BY <1>1 DEF RingInv, ChainInv
<1>3. r \in Seq(Heads(q))
  BY <1>1, <1>2, HeadsOfSeq, Zenon
<1>4. Free(q) = Heads(q) \ (Range(o) \cup Range(h) \cup Range(r))
  BY RingsNow DEF Free
<1>5. C!Offer(q) <=> (\E c \in Free(q) : o' = Append(o, c)) /\ h' = h /\ r' = r
  BY <1>4 DEF C!Offer, C!Range, Range
<1>6. C!Reap(q) <=> r # <<>> /\ r' = Tail(r) /\ o' = o /\ h' = h
  BY DEF C!Reap
<1>7. C!Take(q) <=> o # <<>> /\ o' = Tail(o) /\ h' = Append(h, Head(o)) /\ r' = r
  BY DEF C!Take
<1>8. C!Return(q) <=> /\ h # <<>>
                       /\ \E i \in {1, Len(h)} : r' = Append(r, h[i]) /\ h' = RemoveAt(h, i)
                       /\ o' = o
  BY DEF C!Return, C!RemoveAt, RemoveAt
<1> HIDE DEF o, h, r
<1>9. CASE Offers(q)
  <2>1. PICK c \in Free(q) : o' = Append(o, c) /\ h' = h /\ Returned(q)' = Returned(q)
    BY <1>1, <1>9 DEF Offers, h
  <2> QED
    BY <1>1, <1>5, <2>1
<1>10. CASE Takes(q)
  <2>1. o # <<>> /\ o' = Tail(o) /\ h' = Append(h, Head(o)) /\ r' = r
    BY <1>1, <1>10 DEF Takes, h
  <2> QED
    BY <1>7, <2>1
<1>11. CASE \E e \in Entries(q) : GivesBack(q, e)
  <2>1. PICK e \in Entries(q) : GivesBack(q, e)
    BY <1>11
  <2>2. r' = Append(r, e.head) /\ e.head \in Heads(q) /\ o' = o
    BY <1>1, <1>2, <2>1, HeadsOfAppend DEF GivesBack
  <2>4. CASE h # <<>> /\ e.head = h[1] /\ h' = Tail(h)
    <3>1. RemoveAt(h, 1) = Tail(h)
      BY <1>2, <2>4, RemoveAtFirst
    <3> QED
      BY <1>8, <2>2, <2>4, <3>1
  <2>5. CASE h' \in Seq(Heads(q)) /\ h = Append(h', e.head)
    <3>1. h # <<>> /\ Len(h) = Len(h') + 1 /\ h[Len(h)] = e.head
      BY <2>2, <2>5, AppendProperties
    <3>2. RemoveAt(h, Len(h)) = h'
      BY <2>2, <2>5, <3>1, RemoveAtLast
    <3> QED
      BY <1>8, <2>2, <3>1, <3>2
  <2> QED
    BY <2>1, <2>4, <2>5 DEF GivesBack, h
<1>12. CASE Reaps(q)
  <2>1. r # <<>> /\ r' = Tail(r) /\ o' = o /\ h' = h
    BY <1>1, <1>2, <1>12, HeadsOfTail DEF Reaps, h
  <2> QED
    BY <1>6, <2>1
<1> QED
  BY <1>9, <1>10, <1>11, <1>12 DEF QueueStep

LEMMA ChainsStep ==
  ASSUME RingInv, RingInv', RingStep
  PROVE  [C!Next]_(C!vars)
<1>1. CASE Forgets
  <2>1. ASSUME NEW q \in Queue PROVE OfferedNow(q)' = <<>> /\ Held(q)' = <<>> /\ ReturnedNow(q)' = <<>>
    <3>1. Offered(q)' = <<>> /\ Held(q)' = <<>> /\ Returned(q)' = <<>>
      BY <1>1 DEF Forgets
    <3>2. ReturnedHeads(q)' = <<>>
      BY <3>1 DEF ReturnedHeads
    <3> QED
      BY <3>1, <3>2, RingsThen
  <2> QED
    BY <2>1 DEF C!Next, C!Forget, C!Nothing
<1>2. CASE \A q \in Queue : Same(q)
  <2>1. \A q \in Queue : C!Stay(q)
    BY <1>2, QueueStays DEF C!Stay
  <2> QED
    BY <2>1 DEF C!Next
<1>3. CASE \E q \in Queue : QueueStep(q) /\ Rest(q)
  <2>1. PICK q \in Queue : QueueStep(q) /\ Rest(q)
    BY <1>3
  <2>2. C!Offer(q) \/ C!Reap(q) \/ C!Take(q) \/ C!Return(q)
    BY <2>1, QueueMoves
  <2>3. \A r \in Queue \ {q} : C!Stay(r)
    BY <2>1, QueueStays DEF Rest, C!Stay
  <2> QED
    BY <2>2, <2>3 DEF C!Next
<1> QED
  BY <1>1, <1>2, <1>3 DEF RingStep

(* Each chain is taken once, in the order they were offered, and given     *)
(* back once (pop, complete), whatever the sizes of the queues.            *)
THEOREM ChainsImplemented == Spec => ImplementsChains
<1>1. Init => C!Init
  BY ChainsInit
<1>2. SafeInv /\ SafeInv' /\ [Next]_vars => [C!Next]_(C!vars)
  BY SafeStep, ChainsStep DEF SafeInv
<1> QED
  BY <1>1, <1>2, Safe, PTL DEF Spec, ImplementsChains, C!Spec
-------------------------------------------------------------------------------
(* The types of the rest.                                                  *)
PlainInv ==
  /\ device \in Devices /\ stream \in [Streams -> States]
  /\ handler \in {"idle", "claimed", "read", "acked"}
  /\ interrupting \in [status : BOOLEAN, source : BOOLEAN]
  /\ DOMAIN owed = Queue

LEMMA PlainInit == Init => PlainInv
  BY DEF Init, PlainInv, States

LEMMA PlainStep == PlainInv /\ [Next]_vars => PlainInv'
<1> SUFFICES ASSUME PlainInv, [Next]_vars PROVE PlainInv'
  OBVIOUS
<1> USE DEF deviceVars, working, driver, history
<1>1. CASE Control
  <2>1. ASSUME NEW r, NEW s \in States PROVE After(r, s) \in States
    BY DEF After, States
  <2>2. stream' \in [Streams -> States]
    BY <1>1, <2>1 DEF Control, PlainInv
  <2> QED
    BY <1>1, <2>2 DEF Control, PlainInv
<1>2. CASE NextChain \/ Answer \/ Fill \/ TakeIo \/ PumpInput
  BY <1>2 DEF NextChain, Answer, Fill, TakeIo, PumpInput, PlainInv
<1>3. CASE Flush \/ Done \/ \E s \in Streams : Finish(s)
  <2>1. interrupting' \in {interrupting, [status |-> TRUE, source |-> TRUE]}
    <3>1. CASE Flush
      BY <3>1 DEF Flush, Interrupt
    <3>2. CASE Done
      BY <3>2 DEF Done, Interrupt
    <3>3. CASE \E s \in Streams : Finish(s)
      BY <3>3 DEF Finish, Interrupt
    <3> QED
      BY <1>3, <3>1, <3>2, <3>3
  <2>2. UNCHANGED <<device, stream, handler, owed>>
    BY <1>3 DEF Flush, Done, Finish
  <2>3. [status |-> TRUE, source |-> TRUE] \in [status : BOOLEAN, source : BOOLEAN]
    OBVIOUS
  <2>4. interrupting' \in [status : BOOLEAN, source : BOOLEAN]
    BY <2>1, <2>3, Zenon DEF PlainInv
  <2> QED
    BY <2>2, <2>4 DEF PlainInv
<1>4. CASE Receive \/ Push \/ Claim \/ ReadStatus \/ Handled \/ SetUp
  BY <1>4 DEF Receive, Push, Arrives, Claim, ReadStatus, Handled, SetUp, PlainInv
<1>5. CASE Acknowledge \/ \E q \in Queues : Reap(q)
  BY <1>5 DEF Acknowledge, Reap, PlainInv
<1>6. CASE Reset
  BY <1>6 DEF Reset, PlainInv, States
<1>7. CASE \E q \in Queues : Post(q) \/ Notify(q)
  BY <1>7 DEF Post, Notify, PlainInv
<1>8. CASE UNCHANGED vars
  BY <1>8 DEF vars, PlainInv
<1> QED
  BY <1>1, <1>2, <1>3, <1>4, <1>5, <1>6, <1>7, <1>8 DEF Next, DeviceStep, Handler

LEMMA TypesHold == SafeInv /\ PlainInv => TypeOK
<1> SUFFICES ASSUME SafeInv, PlainInv PROVE TypeOK
  OBVIOUS
<1>1. /\ device \in Devices /\ doing \in Queues \cup {"none", "point"}
      /\ stream \in [Streams -> States] /\ handler \in {"idle", "claimed", "read", "acked"}
      /\ Len(waiting) <= Room
  BY DEF SafeInv, RingInv, WorkType, PlainInv, FillInv
<1>2. ASSUME NEW q \in Queues
      PROVE  /\ hand # None /\ doing = q => hand \in Heads(q)
             /\ {rings[q].availIdx, rings[q].usedIdx, lastAvail[q], lastUsed[q]} \subseteq Positions(q)
             /\ ready => Len(Offered(q)) + Len(Held(q)) + Len(Returned(q)) <= Size[q]
  <2>1. q \in Queue
    BY QueuesAre DEF SafeInv, RingInv
  <2>2. hand # None /\ doing = q => hand \in Heads(q)
    BY DEF SafeInv, RingInv, WorkType
  <2>3. {rings[q].availIdx, rings[q].usedIdx, lastAvail[q], lastUsed[q]} \subseteq Positions(q)
    BY <2>1 DEF SafeInv, RingInv, RingsType, RingType
  <2>4. Len(Offered(q)) + Len(Held(q)) + Len(Returned(q)) <= Size[q]
    BY <2>1, ChainsFit DEF SafeInv, RingInv
  <2> QED
    BY <2>2, <2>3, <2>4
<1> QED
  BY <1>1, <1>2 DEF TypeOK

LEMMA Plain == Spec => []PlainInv
  BY PlainInit, PlainStep, PTL DEF Spec

(* The positions stay in their range, and what is offered, held and        *)
(* returned always fits in the queue.                                      *)
THEOREM TypeCorrect == Spec => []TypeOK
  BY Plain, Safe, TypesHold, PTL

-------------------------------------------------------------------------------
(* No chain is left behind: while the device works, it is at the queue     *)
(* whose chains it has not been told of.                                   *)
LeftInv == \A q \in Queues : Works(q) => owed[q] \/ doing = q \/ (doing = "point" /\ q = "event")

(* As EmptyRings, after a step.                                            *)
LEMMA EmptyRingsThen ==
  ASSUME RingsType', NEW q \in Queue
  PROVE  Offered(q)' # <<>> <=> lastAvail'[q] # rings'[q].availIdx
<1>1. /\ rings'[q].avail \in [0..(Size[q] - 1) -> Heads(q)]
      /\ rings'[q].availIdx \in 0..(Wrap[q] - 1) /\ lastAvail'[q] \in 0..(Wrap[q] - 1)
  BY Constants DEF RingsType, RingType
<1>2. Sizes(Wrap[q], Size[q]) /\ Wrap[q] \in Nat /\ Wrap[q] > 1
  BY Constants DEF Sizes
<1>3. Spans(Span(Wrap[q], Size[q], rings'[q].avail, lastAvail'[q], rings'[q].availIdx), Wrap[q], Size[q], Heads(q),
            rings'[q].avail, lastAvail'[q], (rings'[q].availIdx - lastAvail'[q]) % Wrap[q])
  BY <1>1, <1>2, SpanType, Zenon
<1>4. Offered(q)' \in Seq(Heads(q)) /\ Len(Offered(q)') = (rings'[q].availIdx - lastAvail'[q]) % Wrap[q]
  BY <1>3, SpansNow, Zenon DEF Spans
<1>5. (rings'[q].availIdx - lastAvail'[q]) % Wrap[q] = 0 <=> rings'[q].availIdx = lastAvail'[q]
  BY <1>1, <1>2, Distance, Zenon
<1>6. Offered(q)' = <<>> <=> Len(Offered(q)') = 0
  BY <1>4, EmptySeq, Zenon
<1> QED
  BY <1>4, <1>5, <1>6, Zenon

LEMMA WorksNow ==
  ASSUME RingInv, NEW q \in Queues
  PROVE  Works(q) <=> ready /\ Offered(q) # <<>> /\ (q \in Fillable => waiting # <<>>)
<1>1. q \in Queue /\ RingsType
  BY QueuesAre DEF RingInv
<1> QED
  BY <1>1, EmptyRings DEF Works, HasChain

LEMMA WorksThen ==
  ASSUME RingInv', NEW q \in Queues, device' = device, RingInv
  PROVE  Works(q)' <=> ready' /\ Offered(q)' # <<>> /\ (q \in Fillable => waiting' # <<>>)
<1>1. q \in Queue /\ RingsType' /\ Queues' = Queues /\ Fillable' = Fillable
  BY QueuesAre DEF RingInv
<1>2. Offered(q)' # <<>> <=> lastAvail'[q] # rings'[q].availIdx
  BY <1>1, EmptyRingsThen
<1> QED
  BY <1>1, <1>2 DEF Works, HasChain

(* Where nothing becomes workable and the device stays where it is,        *)
(* nothing is left.                                                        *)
LEMMA LeftStays ==
  ASSUME LeftInv, RingInv, RingInv', UNCHANGED <<device, doing, owed>>, ready => ready', ready' => ready,
         waiting' # <<>> => waiting # <<>>,
         \A q \in Queues : Offered(q)' # <<>> => Offered(q) # <<>>
  PROVE  LeftInv'
<1>1. Queues' = Queues
  BY QueuesAre
<1>2. \A q \in Queues : Works(q)' => Works(q)
  BY WorksNow, WorksThen
<1> QED
  BY <1>1, <1>2 DEF LeftInv

LEMMA LeftInit == Init => LeftInv
  BY DEF Init, LeftInv, Works, HasChain

LEMMA OfferedSame ==
  ASSUME NEW q, NEW r \in Queue, Rest(q), Offered(q)' = Offered(q)
  PROVE  Offered(r)' = Offered(r)
  BY DEF Rest, Same

LEMMA LeftStep ==
  ASSUME LeftInv, SafeInv, SafeInv', PlainInv, [Next]_vars
  PROVE  LeftInv'
<1>0. RingInv /\ RingInv' /\ FillInv /\ Queues \subseteq Queue /\ Streams \subseteq Queue /\ AskedInv
  BY QueuesAre DEF SafeInv, RingInv
<1>1. CASE NextChain
  <2>1. PICK q \in Queue : doing = q
    BY <1>0, <1>1 DEF NextChain
  <2>2. Takes(q) /\ Rest(q)
    BY <1>0, <1>1, <2>1, ChainTaken
  <2>3. \A r \in Queues : Offered(r)' # <<>> => Offered(r) # <<>>
    BY <1>0, <2>2 DEF Takes, Rest, Same
  <2> QED
    BY <1>0, <1>1, <2>3, LeftStays DEF NextChain, driver
<1>2. CASE Answer \/ Fill \/ TakeIo \/ Control
  <2>1. PICK q \in Queue : doing = q
    BY <1>0, <1>2 DEF Answer, Fill, Fillable, TakeIo, Control, Queue
  <2>2. \A r \in Queues : Offered(r)' = Offered(r)
    <3>1. CASE Answer
      BY <1>0, <2>1, <3>1, AnswerRings, OfferedSame DEF GivesBack
    <3>2. CASE Fill
      BY <1>0, <2>1, <3>2, FillRings, OfferedSame DEF GivesBack
    <3>3. CASE TakeIo /\ Asked = Good
      BY <1>0, <2>1, <3>3, HoldRings DEF Same
    <3>4. CASE TakeIo /\ Asked # Good
      BY <1>0, <2>1, <3>4, RefuseRings, OfferedSame DEF GivesBack
    <3>5. CASE Control
      BY <1>0, <2>1, <3>5, ControlRings, OfferedSame DEF GivesBack
    <3> QED
      BY <1>2, <3>1, <3>2, <3>3, <3>4, <3>5
  <2>3. UNCHANGED <<device, doing, owed, ready>>
    BY <1>2 DEF Answer, Fill, TakeIo, Control, deviceVars, driver
  <2>4. waiting' # <<>> => waiting # <<>>
    <3>1. CASE Fill
      BY <1>0, <3>1 DEF Fill, FillInv
    <3>2. CASE Answer \/ TakeIo \/ Control
      BY <3>2 DEF Answer, TakeIo, Control, deviceVars
    <3> QED
      BY <1>2, <3>1, <3>2
  <2> QED
    BY <1>0, <2>2, <2>3, <2>4, LeftStays
<1>3. CASE Flush
  <2>1. PICK s \in Streams : s = Asked[2]
    BY <1>0, <1>3 DEF Flush, AskedInv
  <2>2. \A r \in Queues : Offered(r)' = Offered(r)
    BY <1>0, <1>3, <2>1, FlushRings, OfferedSame DEF GivesBack
  <2> QED
    BY <1>0, <1>3, <2>2, LeftStays DEF Flush, working, driver
<1>4. CASE \E s \in Streams : Finish(s)
  <2>1. PICK s \in Streams : Finish(s)
    BY <1>4
  <2>2. \A r \in Queues : Offered(r)' = Offered(r)
    BY <1>0, <2>1, FinishRings, OfferedSame DEF GivesBack
  <2> QED
    BY <1>0, <2>1, <2>2, LeftStays DEF Finish, working, driver
<1>5. CASE Done
  <2>1. \A r \in Queues : Offered(r)' = Offered(r)
    BY <1>0, <1>5, IdleRings DEF Idles, Same
  <2>2. /\ UNCHANGED <<device, owed, ready, waiting>> /\ ~Works(doing) /\ doing \in Queues
    BY <1>5 DEF Done, driver
  <2>3. \A q \in Queues : (Works(q)' <=> Works(q)) /\ Queues' = Queues
    BY <1>0, <2>1, <2>2, WorksNow, WorksThen, QueuesAre
  <2>4. doing # "point"
    BY <1>0, <2>2 DEF Queue
  <2> QED
    BY <2>2, <2>3, <2>4, QueuesAre DEF LeftInv
<1>6. CASE Receive \/ Push
  <2>1. \A r \in Queues : Offered(r)' = Offered(r)
    BY <1>0, <1>6, IdleRings DEF Idles, Same
  <2>2. UNCHANGED <<device, owed, ready>> /\ Queues' = Queues
    BY <1>6, QueuesAre DEF Receive, Push, Arrives, driver
  <2>3. /\ doing \in {"none", "point"} /\ (device = "net" \/ device = "input")
        /\ doing' = IF device = "net" THEN "receive" ELSE "point"
    BY <1>6 DEF Receive, Push
  <2>4. \A q \in Queues : q \notin Fillable => (Works(q)' <=> Works(q)) /\ q # doing
    BY <1>0, <2>1, <2>2, <2>3, WorksNow, WorksThen DEF Queue
  <2>5. \A q \in Fillable : q = IF device = "net" THEN "receive" ELSE "event"
    BY <2>3 DEF Fillable, Queues, KindOf
  <2>6. ASSUME NEW q \in Queues, Works(q)'
        PROVE  owed'[q] \/ doing' = q \/ (doing' = "point" /\ q = "event")
    <3>1. CASE q \in Fillable
      BY <2>3, <2>5, <3>1
    <3>2. CASE q \notin Fillable
      <4>1. q # "event"
        BY <3>2 DEF Fillable, KindOf
      <4> QED
        BY <2>2, <2>4, <2>6, <3>2, <4>1 DEF LeftInv
    <3> QED
      BY <3>1, <3>2
  <2> QED
    BY <2>2, <2>6 DEF LeftInv
<1>7. CASE PumpInput
  <2>1. \A r \in Queues : Offered(r)' = Offered(r)
    BY <1>0, <1>7, IdleRings DEF Idles, Same
  <2>2. UNCHANGED <<device, owed, ready, waiting>> /\ doing = "point" /\ doing' = "event"
    BY <1>7 DEF PumpInput, deviceVars, driver
  <2>3. \A q \in Queues : Works(q)' => Works(q) /\ q # "point"
    BY <1>0, <2>1, <2>2, WorksNow, WorksThen DEF Queue
  <2> QED
    BY <2>2, <2>3, QueuesAre DEF LeftInv
<1>8. CASE SetUp
  <2>1. \A r \in Queue : Offered(r)' = <<>>
    BY <1>0, <1>8, IdleRings DEF Idles, Same, RingInv, IdleInv, SetUp
  <2>2. device' = device
    BY <1>8 DEF SetUp
  <2> QED
    BY <1>0, <2>1, <2>2, WorksThen, QueuesAre DEF LeftInv
<1>9. CASE Claim \/ ReadStatus \/ Acknowledge \/ Handled
  <2>1. \A r \in Queues : Offered(r)' = Offered(r)
    BY <1>0, <1>9, IdleRings DEF Idles, Same
  <2>2. UNCHANGED <<device, doing, owed, ready, waiting>>
    BY <1>9 DEF Claim, ReadStatus, Acknowledge, Handled, working, deviceVars
  <2> QED
    BY <1>0, <2>1, <2>2, LeftStays
<1>10. CASE \E q \in Queues : Notify(q)
  <2>1. PICK q \in Queues : Notify(q)
    BY <1>10
  <2>2. \A r \in Queues : Offered(r)' = Offered(r)
    BY <1>0, <1>10, IdleRings DEF Idles, Same
  <2>3. /\ UNCHANGED <<device, ready, waiting>> /\ doing = "none" /\ doing' = q
        /\ owed' = [owed EXCEPT ![q] = FALSE]
    BY <2>1 DEF Notify, deviceVars
  <2>4. \A r \in Queues : Works(r)' => Works(r) /\ r # "none"
    BY <1>0, <2>2, <2>3, WorksNow, WorksThen DEF Queue
  <2> QED
    BY <2>3, <2>4, QueuesAre DEF LeftInv
<1>11. CASE \E q \in Queues : Post(q)
  <2>1. PICK q \in Queues : Post(q)
    BY <1>11
  <2>2. Rest(q)
    BY <1>0, <2>1, ChainOffered
  <2>3. /\ UNCHANGED <<device, ready, waiting, doing>>
        /\ owed' = [owed EXCEPT ![q] = TRUE]
    BY <2>1 DEF Post, deviceVars, working
  <2>4. \A r \in Queues \ {q} : Works(r)' => Works(r)
    BY <1>0, <2>2, <2>3, WorksNow, WorksThen DEF Rest, Same
  <2>5. owed'[q]
    <3>1. DOMAIN owed = Queue
      BY DEF PlainInv
    <3> QED
      BY <1>0, <2>3, <3>1
  <2> QED
    BY <2>3, <2>4, <2>5, QueuesAre DEF LeftInv
<1>12. CASE \E q \in Queues : Reap(q)
  <2>1. PICK q \in Queues : Reap(q)
    BY <1>12
  <2>2. \A r \in Queues : Offered(r)' = Offered(r)
    BY <1>0, <2>1, ChainReaped, OfferedSame DEF Reaps
  <2>3. UNCHANGED <<device, doing, owed, ready, waiting>>
    BY <2>1 DEF Reap, working, deviceVars
  <2> QED
    BY <1>0, <2>2, <2>3, LeftStays
<1>13. CASE Reset
  BY <1>13 DEF Reset, LeftInv, Works, HasChain
<1>14. CASE UNCHANGED vars
  <2>1. \A r \in Queue : Offered(r)' = Offered(r)
    BY <1>14, NothingChanges DEF Same
  <2> QED
    BY <1>0, <1>14, <2>1, LeftStays DEF vars, deviceVars, working, driver
<1> QED
  BY <1>1, <1>2, <1>3, <1>4, <1>5, <1>6, <1>7, <1>8, <1>9, <1>10, <1>11, <1>12, <1>13, <1>14
     DEF Next, DeviceStep, Handler

(* While the device is idle, what it could work on is something it is yet  *)
(* to be told of.                                                          *)
THEOREM NothingLeftBehind == Spec => []NoneLeftBehind
<1>1. LeftInv /\ SafeInv /\ SafeInv' /\ PlainInv /\ [Next]_vars => LeftInv'
  BY LeftStep
<1>2. Spec => []LeftInv
  BY <1>1, Safe, Plain, LeftInit, PTL DEF Spec
<1>3. LeftInv /\ SafeInv => NoneLeftBehind
  <2> SUFFICES ASSUME LeftInv, SafeInv, doing = "none", NEW q \in Queues, Works(q) PROVE owed[q]
    BY DEF NoneLeftBehind
  <2>1. q # "none"
    BY QueuesAre DEF SafeInv, RingInv, Queue
  <2> QED
    BY <2>1 DEF LeftInv
<1> QED
  BY <1>2, <1>3, Safe, PTL
-------------------------------------------------------------------------------
(* No interrupt is missed: what the driver has not seen and was told of    *)
(* has one coming, now or when the device is done with the queue or with   *)
(* the periods it is flushing.                                             *)
Flushing(q) ==
  doing = "control" /\ hand # None /\ Releases(Asked) /\ Asked[2] = q /\ periods[q] # <<>>
HeardInv == \A q \in Queues : Told(q) => WillHear \/ completed \/ Flushing(q)

LEMMA ToldAppended ==
  ASSUME NEW q \in Queue, RingInv, NEW e \in Entries(q), Returned(q)' = Append(Returned(q), e), ~e.told, Told(q)'
  PROVE  Told(q)
<1>1. Returned(q) \in Seq(Entries(q))
  BY DEF RingInv, ChainInv
<1>2. /\ DOMAIN Returned(q)' = 1..(Len(Returned(q)) + 1) /\ Returned(q)'[Len(Returned(q)) + 1] = e
      /\ \A i \in 1..Len(Returned(q)) : Returned(q)'[i] = Returned(q)[i]
      /\ DOMAIN Returned(q) = 1..Len(Returned(q)) /\ Len(Returned(q)) \in Nat
  BY <1>1, AppendProperties, LenProperties
<1>3. PICK i \in DOMAIN Returned(q)' : Returned(q)'[i].told
  BY DEF Told
<1>4. i \in DOMAIN Returned(q)
  BY <1>2, <1>3
<1> QED
  BY <1>2, <1>3, <1>4 DEF Told

(* A step that leaves what is returned alone, and the driver as heedful.   *)
LEMMA HeardStays ==
  ASSUME HeardInv, device' = device, \A q \in Queues : Told(q)' => Told(q),
         WillHear => WillHear', ~completed, \A q \in Queues : Flushing(q) => WillHear' \/ Flushing(q)'
  PROVE  HeardInv'
<1>1. Queues' = Queues
  BY QueuesAre
<1> QED
  BY <1>1 DEF HeardInv

LEMMA HeardInit == Init => HeardInv
<1> SUFFICES ASSUME Init, NEW q \in Queues PROVE ~Told(q)
  BY DEF HeardInv
<1>1. Returned(q) = <<>>
  BY SafeInit, QueuesAre DEF SafeInv, RingInv, IdleInv, Init
<1> QED
  BY <1>1 DEF Told

LEMMA HeardStep ==
  ASSUME HeardInv, SafeInv, PlainInv, [Next]_vars
  PROVE  HeardInv'
<1>0. RingInv /\ FillInv /\ Queues \subseteq Queue /\ Streams \subseteq Queue /\ AskedInv
  BY QueuesAre DEF SafeInv, RingInv
<1>1. CASE NextChain
  <2>1. PICK q \in Queue : doing = q
    BY <1>0, <1>1 DEF NextChain
  <2>2. Takes(q) /\ Rest(q)
    BY <1>0, <1>1, <2>1, ChainTaken
  <2>3. \A r \in Queues : Told(r)' <=> Told(r)
    BY <1>0, <2>2 DEF Takes, Rest, Same, Told
  <2>4. /\ UNCHANGED <<device, interrupting, handler, completed>> /\ hand = None
    BY <1>1 DEF NextChain, driver
  <2> QED
    BY <2>3, <2>4, QueuesAre DEF HeardInv, WillHear, Flushing
<1>2. CASE Answer \/ Fill \/ Control
  BY <1>2 DEF Answer, Fill, Control, HeardInv
<1>3. CASE TakeIo
  <2>1. PICK q \in Streams : doing = q
    BY <1>0, <1>3 DEF TakeIo
  <2>2. ASSUME NEW r \in Queues, Told(r)' PROVE Told(r)
    <3>1. CASE Asked = Good
      BY <1>0, <1>3, <2>1, <2>2, <3>1, HoldRings DEF Same, Told
    <3>2. CASE Asked # Good
      <4>1. Rest(q) /\ GivesBack(q, Entry(hand, None, FALSE))
        BY <1>0, <1>3, <2>1, <3>2, RefuseRings
      <4>2. CASE r = q
        <5>1. /\ Entry(hand, None, FALSE) \in Entries(q) /\ ~Entry(hand, None, FALSE).told
              /\ Returned(q)' = Append(Returned(q), Entry(hand, None, FALSE))
          BY <4>1 DEF GivesBack, Entry
        <5> QED
          BY <1>0, <2>1, <2>2, <4>2, <5>1, ToldAppended
      <4>3. CASE r # q
        BY <1>0, <2>2, <4>1, <4>3 DEF Rest, Same, Told
      <4> QED
        BY <4>2, <4>3
    <3> QED
      BY <3>1, <3>2
  <2>3. UNCHANGED <<device, interrupting, handler, completed>> /\ doing # "control"
    BY <1>3, QueuesAre DEF TakeIo, driver
  <2> QED
    BY <2>2, <2>3, QueuesAre DEF HeardInv, WillHear, Flushing
<1>4. CASE Flush
  <2>1. PICK s \in Streams : s = Asked[2]
    BY <1>0, <1>4 DEF Flush, AskedInv
  <2>2. Rest(s)
    BY <1>0, <1>4, <2>1, FlushRings
  <2>3. /\ UNCHANGED <<device, doing, hand, completed, chain, stream, handler>>
        /\ doing = "control" /\ hand # None /\ Releases(Asked) /\ periods[s] # <<>>
        /\ periods' = [periods EXCEPT ![s] = Tail(@)]
        /\ IF Len(periods[s]) = 1 THEN Interrupt ELSE UNCHANGED interrupting
    BY <1>4, <2>1 DEF Flush, working, driver
  <2>4. CASE Len(periods[s]) = 1
    <3>1. WillHear'
      BY <2>3, <2>4 DEF Interrupt, WillHear
    <3> QED
      BY <3>1 DEF HeardInv
  <2>5. CASE Len(periods[s]) # 1
    <3>1. periods[s] \in Seq(Heads(s)) /\ periods'[s] = Tail(periods[s])
      BY <1>0, <2>1, <2>3 DEF RingInv, WorkType
    <3>2. periods'[s] # <<>>
      <4>1. Len(Tail(periods[s])) = Len(periods[s]) - 1 /\ Len(periods[s]) \in Nat
        BY <2>3, <3>1, HeadTailProperties, LenProperties
      <4>2. Len(Tail(periods[s])) # 0
        BY <2>5, <4>1
      <4>3. Len(<<>>) = 0
        OBVIOUS
      <4> QED
        BY <3>1, <4>2, <4>3, Zenon
    <3>3. Flushing(s)'
      BY <2>1, <2>3, <3>2 DEF Flushing, Releases, Asked
    <3>4. ASSUME NEW r \in Queues, r # s, Told(r)' PROVE WillHear' \/ completed'
      <4>1. Told(r)
        BY <1>0, <2>2, <3>4 DEF Rest, Same, Told
      <4>2. ~Flushing(r)
        BY <2>1, <3>4 DEF Flushing
      <4> QED
        BY <2>3, <2>5, <4>1, <4>2 DEF HeardInv, WillHear
    <3> QED
      BY <2>3, <3>3, <3>4, QueuesAre DEF HeardInv
  <2> QED
    BY <2>4, <2>5
<1>5. CASE Done
  <2>1. \A r \in Queues : Told(r)' <=> Told(r)
    BY <1>0, <1>5, IdleRings DEF Idles, Same, Told
  <2>2. /\ UNCHANGED <<device, handler>> /\ hand = None
        /\ IF completed THEN Interrupt ELSE UNCHANGED interrupting
    BY <1>5 DEF Done, driver
  <2>3. CASE completed
    <3>1. WillHear'
      BY <2>2, <2>3 DEF Interrupt, WillHear
    <3> QED
      BY <3>1 DEF HeardInv
  <2>4. CASE ~completed
    BY <2>1, <2>2, <2>4, QueuesAre DEF HeardInv, WillHear, Flushing
  <2> QED
    BY <2>3, <2>4
<1>6. CASE PumpInput \/ Receive \/ Push \/ SetUp \/ (\E q \in Queues : Notify(q)) \/ Claim \/ ReadStatus \/ Acknowledge
  <2>1. \A r \in Queues : Told(r)' <=> Told(r)
    BY <1>0, <1>6, IdleRings DEF Idles, Same, Told
  <2>2. device' = device /\ doing \in {"none", "point"}
    BY <1>6 DEF PumpInput, Receive, Push, Arrives, SetUp, Notify, Claim, ReadStatus, Acknowledge, deviceVars
  <2>3. hand = None /\ ~completed
    BY <1>0, <2>2, NothingInHand DEF RingInv
  <2>4. WillHear => WillHear'
    <3>1. CASE PumpInput \/ Receive \/ Push \/ SetUp \/ \E q \in Queues : Notify(q)
      BY <3>1 DEF PumpInput, Receive, Push, Arrives, SetUp, Notify, deviceVars, driver, WillHear
    <3>2. CASE Claim
      BY <3>2 DEF Claim, WillHear, PlainInv
    <3>3. CASE ReadStatus
      BY <3>3 DEF ReadStatus, WillHear
    <3>4. CASE Acknowledge
      BY <3>4 DEF Acknowledge, WillHear
    <3> QED
      BY <1>6, <3>1, <3>2, <3>3, <3>4
  <2> QED
    BY <2>1, <2>2, <2>3, <2>4, HeardStays DEF Flushing
<1>7. CASE Handled
  <2>1. \A r \in Queues : ~Told(r)'
    BY <1>0, <1>7, IdleRings DEF Idles, Same, Told, Handled
  <2>2. device' = device
    BY <1>7 DEF Handled
  <2> QED
    BY <2>1, <2>2, QueuesAre DEF HeardInv
<1>8. CASE \E s \in Streams : Finish(s)
  <2>1. WillHear'
    BY <1>8 DEF Finish, Interrupt, WillHear
  <2> QED
    BY <2>1 DEF HeardInv
<1>9. CASE \E q \in Queues : Post(q)
  <2>1. PICK q \in Queues : Post(q)
    BY <1>9
  <2>2. Offers(q) /\ Rest(q)
    BY <1>0, <2>1, ChainOffered
  <2>3. \A r \in Queues : Told(r)' <=> Told(r)
    BY <1>0, <2>2 DEF Offers, Rest, Same, Told
  <2>4. doing = "none" /\ UNCHANGED <<device, interrupting, handler, completed>>
    BY <2>1 DEF Post, deviceVars, working
  <2> QED
    BY <2>3, <2>4, QueuesAre DEF HeardInv, WillHear, Flushing
<1>10. CASE \E q \in Queues : Reap(q)
  <2>1. WillHear'
    BY <1>10 DEF Reap, WillHear
  <2> QED
    BY <2>1 DEF HeardInv
<1>11. CASE Reset
  <2>1. \A r \in Queues : ~Told(r)'
    BY <1>0, <1>11, AllForgotten DEF Forgets, Told
  <2>2. device' = device
    BY <1>11 DEF Reset
  <2> QED
    BY <2>1, <2>2, QueuesAre DEF HeardInv
<1>12. CASE UNCHANGED vars
  <2>1. \A r \in Queues : Told(r)' <=> Told(r)
    BY <1>0, <1>12, NothingChanges DEF Same, Told
  <2>2. UNCHANGED <<device, interrupting, handler, completed, doing, hand, periods, chain, stream>>
    BY <1>12 DEF vars, deviceVars, working, driver
  <2>3. \A r \in Queues : Flushing(r)' <=> Flushing(r)
    BY <2>2 DEF Flushing, Releases, Asked
  <2> QED
    BY <2>1, <2>2, <2>3, QueuesAre DEF HeardInv, WillHear
<1> QED
  BY <1>1, <1>2, <1>3, <1>4, <1>5, <1>6, <1>7, <1>8, <1>9, <1>10, <1>11, <1>12
     DEF Next, DeviceStep, Handler

(* While the device is idle, a driver that has not seen all that was       *)
(* returned has an interrupt coming that will make it look.                *)
THEOREM NothingUnheard == Spec => []NoneUnheard
<1>1. Spec => []HeardInv
  BY HeardInit, HeardStep, Safe, Plain, PTL DEF Spec
<1>2. HeardInv /\ SafeInv => NoneUnheard
  <2> SUFFICES ASSUME HeardInv, SafeInv, doing = "none", NEW q \in Queues, Told(q) PROVE WillHear
    BY DEF NoneUnheard
  <2>1. ~completed
    BY NothingInHand DEF SafeInv, RingInv
  <2> QED
    BY <2>1 DEF HeardInv, Flushing
<1> QED
  BY <1>1, <1>2, Safe, PTL
-------------------------------------------------------------------------------
(* Items made, waiting, returned and read.                                 *)
Lower(A, B) == \A x \in A, y \in B : x # None /\ y # None => x < y

Accounted(g, u, w, n, l) ==
  /\ Ascending(g) /\ Ascending(u) /\ Ascending(w)
  /\ Lower(Range(g), Range(u)) /\ Lower(Range(g), Range(w)) /\ Lower(Range(u), Range(w))
  /\ Range(w) \subseteq 1..n /\ l \subseteq 1..n
  /\ (Range(g) \cup Range(u) \cup Range(w)) \ {None} = 1..n \ l

LEMMA AscendingAppend ==
  ASSUME NEW s \in Seq(Int), NEW x \in Int, Ascending(s), Lower(Range(s), {x})
  PROVE  Ascending(Append(s, x)) /\ Range(Append(s, x)) = Range(s) \cup {x} /\ Append(s, x) \in Seq(Int)
<1> DEFINE t == Append(s, x)
<1>1. /\ t \in Seq(Int) /\ DOMAIN t = 1..(Len(s) + 1) /\ t[Len(s) + 1] = x
      /\ \A i \in 1..Len(s) : t[i] = s[i]
      /\ DOMAIN s = 1..Len(s) /\ Len(s) \in Nat
  BY AppendProperties, LenProperties
<1> HIDE DEF t
<1>2. Ascending(t)
  <2> SUFFICES ASSUME NEW i \in 1..(Len(s) + 1), NEW j \in 1..(Len(s) + 1), i < j, t[i] # None, t[j] # None
               PROVE  t[i] < t[j]
    BY <1>1 DEF Ascending
  <2>0. i \in 1..Len(s) /\ (j = Len(s) + 1 \/ j \in 1..Len(s))
    BY <1>1, SMTT(40)
  <2>1. t[i] = s[i] /\ s[i] \in Range(s)
    BY <1>1, <2>0 DEF Range
  <2>2. CASE j = Len(s) + 1
    BY <1>1, <2>1, <2>2 DEF Lower
  <2>3. CASE j \in 1..Len(s)
    BY <1>1, <2>0, <2>1, <2>3 DEF Ascending
  <2> QED
    BY <2>0, <2>2, <2>3
<1>3. \A y : y \in Range(t) <=> y \in Range(s) \cup {x}
  <2>1. \A y : y \in Range(t) <=> \E i \in 1..(Len(s) + 1) : t[i] = y
    BY <1>1 DEF Range
  <2>2. \A y : y \in Range(s) <=> \E i \in 1..Len(s) : s[i] = y
    BY <1>1 DEF Range
  <2> TAKE y
  <2>3. ASSUME y \in Range(t) PROVE y \in Range(s) \cup {x}
    <3>1. PICK i \in 1..(Len(s) + 1) : t[i] = y
      BY <2>1, <2>3
    <3>2. i = Len(s) + 1 \/ i \in 1..Len(s)
      BY <1>1
    <3> QED
      BY <1>1, <2>2, <3>1, <3>2
  <2>4. ASSUME y \in Range(s) \cup {x} PROVE y \in Range(t)
    <3>1. Len(s) + 1 \in 1..(Len(s) + 1) /\ \A i \in 1..Len(s) : i \in 1..(Len(s) + 1)
      BY <1>1
    <3> QED
      BY <1>1, <2>1, <2>2, <2>4, <3>1
  <2> QED
    BY <2>3, <2>4
<1> QED
  BY <1>1, <1>2, <1>3 DEF t

LEMMA AscendingTail ==
  ASSUME NEW s \in Seq(Int), s # <<>>, Ascending(s)
  PROVE  /\ Ascending(Tail(s)) /\ Tail(s) \in Seq(Int) /\ s[1] \in Int
         /\ Range(s) = {s[1]} \cup Range(Tail(s)) /\ Lower({s[1]}, Range(Tail(s)))
<1> DEFINE t == Tail(s)
<1>1. /\ t \in Seq(Int) /\ DOMAIN t = 1..(Len(s) - 1) /\ DOMAIN s = 1..Len(s) /\ Len(s) \in Nat \ {0}
      /\ \A i \in 1..(Len(s) - 1) : t[i] = s[i + 1]
      /\ s[1] \in Int
  BY HeadTailProperties, EmptySeq, LenProperties, ElementOfSeq
<1> HIDE DEF t
<1>2. Ascending(t)
  <2> SUFFICES ASSUME NEW i \in 1..(Len(s) - 1), NEW j \in 1..(Len(s) - 1), i < j, t[i] # None, t[j] # None
               PROVE  t[i] < t[j]
    BY <1>1 DEF Ascending
  <2>1. i + 1 \in 1..Len(s) /\ j + 1 \in 1..Len(s) /\ i + 1 < j + 1
    BY <1>1
  <2>2. t[i] = s[i + 1] /\ t[j] = s[j + 1]
    BY <1>1
  <2> QED
    BY <1>1, <2>1, <2>2 DEF Ascending
<1>3. \A y : y \in Range(t) <=> \E i \in 1..(Len(s) - 1) : s[i + 1] = y
  BY <1>1 DEF Range
<1>4. \A y : y \in Range(s) <=> \E i \in 1..Len(s) : s[i] = y
  BY <1>1 DEF Range
<1>5. \A y : y \in Range(s) <=> y = s[1] \/ y \in Range(t)
  <2> TAKE y
  <2>1. ASSUME y \in Range(s) PROVE y = s[1] \/ y \in Range(t)
    <3>1. PICK i \in 1..Len(s) : s[i] = y
      BY <1>4, <2>1
    <3>2. i = 1 \/ (i - 1 \in 1..(Len(s) - 1) /\ (i - 1) + 1 = i)
      BY <1>1
    <3> QED
      BY <1>3, <3>1, <3>2
  <2>2. ASSUME y = s[1] \/ y \in Range(t) PROVE y \in Range(s)
    <3>1. 1 \in 1..Len(s) /\ \A i \in 1..(Len(s) - 1) : i + 1 \in 1..Len(s)
      BY <1>1
    <3> QED
      BY <1>3, <1>4, <2>2, <3>1
  <2> QED
    BY <2>1, <2>2
<1>6. Lower({s[1]}, Range(t))
  <2> SUFFICES ASSUME NEW y \in Range(t), s[1] # None, y # None PROVE s[1] < y
    BY DEF Lower
  <2>1. PICK i \in 1..(Len(s) - 1) : s[i + 1] = y
    BY <1>3
  <2>2. 1 \in 1..Len(s) /\ i + 1 \in 1..Len(s) /\ 1 < i + 1
    BY <1>1
  <2> QED
    BY <1>1, <2>1, <2>2 DEF Ascending
<1> QED
  BY <1>1, <1>2, <1>5, <1>6 DEF t

LEMMA EmptyItems == Ascending(<<>>) /\ Range(<<>>) = {} /\ <<>> \in Seq(Int)
  BY EmptySeq DEF Ascending, Range

LEMMA RangeOfInts ==
  ASSUME NEW s \in Seq(Int)
  PROVE  Range(s) \subseteq Int
  BY RangeOfSeq

(* An item is put in a buffer,                                             *)
LEMMA ItemFilled ==
  ASSUME NEW g \in Seq(Int), NEW u \in Seq(Int), NEW w \in Seq(Int), NEW n \in Nat, NEW l,
         Accounted(g, u, w, n, l), w # <<>>
  PROVE  Accounted(g, Append(u, w[1]), Tail(w), n, l)
<1>1. /\ Ascending(Tail(w)) /\ w[1] \in Int /\ Range(w) = {w[1]} \cup Range(Tail(w))
      /\ Lower({w[1]}, Range(Tail(w)))
  BY AscendingTail DEF Accounted
<1>2. Lower(Range(u), {w[1]})
  BY <1>1 DEF Accounted, Lower
<1>3. Ascending(Append(u, w[1])) /\ Range(Append(u, w[1])) = Range(u) \cup {w[1]}
  BY <1>1, <1>2, AscendingAppend DEF Accounted
<1>4. /\ Lower(Range(g), Range(u) \cup {w[1]}) /\ Lower(Range(g), Range(Tail(w)))
      /\ Lower(Range(u) \cup {w[1]}, Range(Tail(w)))
  BY <1>1 DEF Accounted, Lower
<1>5. /\ Range(Tail(w)) \subseteq 1..n
      /\ (Range(g) \cup (Range(u) \cup {w[1]}) \cup Range(Tail(w))) \ {None} = 1..n \ l
  BY <1>1 DEF Accounted
<1> QED
  BY <1>1, <1>3, <1>4, <1>5 DEF Accounted

(* or a buffer goes back without one;                                      *)
LEMMA ItemRefused ==
  ASSUME NEW g \in Seq(Int), NEW u \in Seq(Int), NEW w \in Seq(Int), NEW n \in Nat, NEW l,
         Accounted(g, u, w, n, l)
  PROVE  Accounted(g, Append(u, None), w, n, l)
<1>1. None \in Int /\ Lower(Range(u), {None})
  BY DEF None, Lower
<1>2. Ascending(Append(u, None)) /\ Range(Append(u, None)) = Range(u) \cup {None}
  BY <1>1, AscendingAppend DEF Accounted
<1>3. Lower(Range(g), Range(u) \cup {None}) /\ Lower(Range(u) \cup {None}, Range(w))
  BY DEF Accounted, Lower
<1>4. (Range(g) \cup (Range(u) \cup {None}) \cup Range(w)) \ {None} = 1..n \ l
  BY DEF Accounted
<1> QED
  BY <1>2, <1>3, <1>4 DEF Accounted

(* the driver reads what is in the first of them,                          *)
LEMMA ItemRead ==
  ASSUME NEW g \in Seq(Int), NEW u \in Seq(Int), NEW w \in Seq(Int), NEW n \in Nat, NEW l,
         Accounted(g, u, w, n, l), u # <<>>
  PROVE  Accounted(IF u[1] # None THEN Append(g, u[1]) ELSE g, Tail(u), w, n, l)
<1>1. /\ Ascending(Tail(u)) /\ u[1] \in Int /\ Range(u) = {u[1]} \cup Range(Tail(u))
      /\ Lower({u[1]}, Range(Tail(u)))
  BY AscendingTail DEF Accounted
<1>2. CASE u[1] = None
  <2>1. Lower(Range(g), Range(Tail(u))) /\ Lower(Range(Tail(u)), Range(w))
    BY <1>1 DEF Accounted, Lower
  <2>2. (Range(g) \cup Range(Tail(u)) \cup Range(w)) \ {None} = 1..n \ l
    BY <1>1, <1>2 DEF Accounted
  <2> QED
    BY <1>1, <1>2, <2>1, <2>2 DEF Accounted
<1>3. CASE u[1] # None
  <2>1. Lower(Range(g), {u[1]})
    BY <1>1 DEF Accounted, Lower
  <2>2. Ascending(Append(g, u[1])) /\ Range(Append(g, u[1])) = Range(g) \cup {u[1]}
    BY <1>1, <2>1, AscendingAppend DEF Accounted
  <2>3. /\ Lower(Range(g) \cup {u[1]}, Range(Tail(u))) /\ Lower(Range(g) \cup {u[1]}, Range(w))
        /\ Lower(Range(Tail(u)), Range(w))
    BY <1>1 DEF Accounted, Lower
  <2>4. ((Range(g) \cup {u[1]}) \cup Range(Tail(u)) \cup Range(w)) \ {None} = 1..n \ l
    BY <1>1 DEF Accounted
  <2> QED
    BY <1>1, <1>3, <2>2, <2>3, <2>4 DEF Accounted
<1> QED
  BY <1>2, <1>3

(* another one comes,                                                      *)
LEMMA ItemCame ==
  ASSUME NEW g \in Seq(Int), NEW u \in Seq(Int), NEW w \in Seq(Int), NEW n \in Nat, NEW l,
         Accounted(g, u, w, n, l)
  PROVE  Accounted(g, u, Append(w, n + 1), n + 1, l)
<1>1. \A A : A \ {None} \subseteq 1..n => Lower(A, {n + 1})
  BY DEF Lower
<1>2. (Range(g) \ {None}) \subseteq 1..n /\ (Range(u) \ {None}) \subseteq 1..n /\ (Range(w) \ {None}) \subseteq 1..n
  BY DEF Accounted
<1>3. Lower(Range(g), {n + 1}) /\ Lower(Range(u), {n + 1}) /\ Lower(Range(w), {n + 1})
  BY <1>1, <1>2
<1>4. Ascending(Append(w, n + 1)) /\ Range(Append(w, n + 1)) = Range(w) \cup {n + 1}
  BY <1>3, AscendingAppend DEF Accounted
<1>5. Lower(Range(g), Range(w) \cup {n + 1}) /\ Lower(Range(u), Range(w) \cup {n + 1})
  BY <1>3 DEF Accounted, Lower
<1>6. 1..(n + 1) = 1..n \cup {n + 1} /\ n + 1 \notin 1..n /\ n + 1 # None
  BY DEF None
<1>7. /\ Range(w) \cup {n + 1} \subseteq 1..(n + 1) /\ l \subseteq 1..(n + 1)
      /\ (Range(g) \cup Range(u) \cup (Range(w) \cup {n + 1})) \ {None} = 1..(n + 1) \ l
  BY <1>6, Zenon DEF Accounted
<1> QED
  BY <1>4, <1>5, <1>7 DEF Accounted

(* the oldest of those that wait is given up,                              *)
LEMMA ItemDropped ==
  ASSUME NEW g \in Seq(Int), NEW u \in Seq(Int), NEW w \in Seq(Int), NEW n \in Nat, NEW l,
         Accounted(g, u, w, n, l), w # <<>>
  PROVE  Accounted(g, u, Tail(w), n, l \cup {w[1]})
<1>1. /\ Ascending(Tail(w)) /\ w[1] \in Int /\ Range(w) = {w[1]} \cup Range(Tail(w))
      /\ Lower({w[1]}, Range(Tail(w)))
  BY AscendingTail DEF Accounted
<1>2. w[1] \in 1..n /\ w[1] # None
  BY <1>1 DEF Accounted, None
<1>3. ~(w[1] < w[1])
  BY <1>1
<1>4. w[1] \notin Range(Tail(w)) /\ w[1] \notin Range(g) /\ w[1] \notin Range(u)
  BY <1>1, <1>2, <1>3, Zenon DEF Accounted, Lower
<1>5. /\ Lower(Range(g), Range(Tail(w))) /\ Lower(Range(u), Range(Tail(w)))
      /\ Range(Tail(w)) \subseteq 1..n /\ l \cup {w[1]} \subseteq 1..n
  BY <1>1, <1>2 DEF Accounted, Lower
<1>6. (Range(g) \cup Range(u) \cup Range(Tail(w))) \ {None} = 1..n \ (l \cup {w[1]})
  BY <1>1, <1>2, <1>4 DEF Accounted
<1> QED
  BY <1>1, <1>5, <1>6 DEF Accounted

(* or the rings are, and what is in them.                                  *)
LEMMA ItemsForgotten ==
  ASSUME NEW g \in Seq(Int), NEW u \in Seq(Int), NEW w \in Seq(Int), NEW n \in Nat, NEW l,
         Accounted(g, u, w, n, l), NEW v \in {w, <<>>}
  PROVE  Accounted(g, <<>>, v, n, 1..n \ (Range(g) \cup Range(v)))
<1>1. Ascending(v) /\ Lower(Range(g), Range(v)) /\ Range(v) \subseteq 1..n /\ Range(v) \subseteq Range(w)
  BY EmptyItems DEF Accounted, Lower
<1>2. Lower(Range(g), {}) /\ Lower({}, Range(v))
  BY DEF Lower
<1>3. (Range(g) \cup Range(v)) \ {None} \subseteq 1..n /\ None \notin 1..n
  BY <1>1 DEF Accounted, None
<1>4. (Range(g) \cup {} \cup Range(v)) \ {None} = 1..n \ (1..n \ (Range(g) \cup Range(v)))
  BY <1>3
<1> QED
  BY <1>1, <1>2, <1>4, EmptyItems DEF Accounted-------------------------------------------------------------------------------
(* What the driver has yet to read.                                        *)
ItemIn(q) == [e \in Entries(q) |-> e.item]

LEMMA ItemsOfEach ==
  ASSUME NEW q \in Queue, Returned(q) \in Seq(Entries(q))
  PROVE  /\ ReturnedItems(q) = Each(ItemIn(q), Returned(q)) /\ Maps(ItemIn(q), Entries(q), Int)
         /\ ReturnedItems(q) \in Seq(Int)
<1>1. \A i \in DOMAIN Returned(q) : Returned(q)[i] \in Entries(q)
  BY LenProperties, ElementOfSeq
<1>2. ReturnedItems(q) = Each(ItemIn(q), Returned(q)) /\ Maps(ItemIn(q), Entries(q), Int)
  BY <1>1 DEF ReturnedItems, Each, ItemIn, Entries, Maps
<1>3. Images(Each(ItemIn(q), Returned(q)), ItemIn(q), Returned(q), Int)
  BY <1>2, EachSeq, Zenon
<1> QED
  BY <1>2, <1>3 DEF Images

LEMMA ItemsOfEachThen ==
  ASSUME NEW q \in Queue, Returned(q)' \in Seq(Entries(q))
  PROVE  ReturnedItems(q)' = Each(ItemIn(q), Returned(q)')
<1>1. \A i \in DOMAIN Returned(q)' : Returned(q)'[i] \in Entries(q)
  BY LenProperties, ElementOfSeq
<1> QED
  BY <1>1 DEF ReturnedItems, Each, ItemIn, Entries

LEMMA ItemsAppended ==
  ASSUME NEW q \in Queue, Returned(q) \in Seq(Entries(q)), NEW e \in Entries(q),
         Returned(q)' = Append(Returned(q), e)
  PROVE  ReturnedItems(q)' = Append(ReturnedItems(q), e.item)
<1>1. Returned(q)' \in Seq(Entries(q))
  BY AppendProperties
<1>2. /\ ReturnedItems(q) = Each(ItemIn(q), Returned(q)) /\ Maps(ItemIn(q), Entries(q), Int)
      /\ ReturnedItems(q)' = Each(ItemIn(q), Append(Returned(q), e))
  BY <1>1, ItemsOfEach, ItemsOfEachThen, Zenon
<1>3. Each(ItemIn(q), Append(Returned(q), e)) = Append(Each(ItemIn(q), Returned(q)), ItemIn(q)[e])
  BY <1>2, EachAppend
<1>4. ItemIn(q)[e] = e.item
  BY DEF ItemIn
<1> QED
  BY <1>2, <1>3, <1>4

LEMMA ItemsReaped ==
  ASSUME NEW q \in Queue, Returned(q) \in Seq(Entries(q)), Returned(q) # <<>>, Returned(q)' = Tail(Returned(q))
  PROVE  /\ ReturnedItems(q)' = Tail(ReturnedItems(q)) /\ ReturnedItems(q) # <<>>
         /\ ReturnedItems(q)[1] = Returned(q)[1].item
<1>1. Returned(q)' \in Seq(Entries(q)) /\ Returned(q)[1] \in Entries(q)
  BY HeadTailProperties, EmptySeq, LenProperties, ElementOfSeq
<1>2. /\ ReturnedItems(q) = Each(ItemIn(q), Returned(q)) /\ Maps(ItemIn(q), Entries(q), Int)
      /\ ReturnedItems(q)' = Each(ItemIn(q), Tail(Returned(q)))
  BY <1>1, ItemsOfEach, ItemsOfEachThen, Zenon
<1>3. /\ Each(ItemIn(q), Tail(Returned(q))) = Tail(Each(ItemIn(q), Returned(q)))
      /\ Each(ItemIn(q), Returned(q)) # <<>>
      /\ Each(ItemIn(q), Returned(q))[1] = ItemIn(q)[Returned(q)[1]]
  BY <1>2, EachTail
<1>4. ItemIn(q)[Returned(q)[1]] = Returned(q)[1].item
  BY <1>1 DEF ItemIn
<1> QED
  BY <1>2, <1>3, <1>4

(* The one queue that is filled.                                           *)
Filled == IF device = "net" THEN "receive" ELSE "event"

LEMMA FillableIs ==
  ASSUME WorkType
  PROVE  /\ Fillable = IF device = "snd" THEN {} ELSE {Filled}
         /\ Filled \in Queue /\ Fillable \subseteq Queue
         /\ "control" \notin Fillable /\ \A s \in Streams : s \notin Fillable
<1>1. device = "net" \/ device = "input" \/ device = "snd"
  BY DEF WorkType, DeviceKinds
<1>2. \A q \in Streams : q = "tx" \/ q = "rx"
  BY VirtioAssumption
<1>3. CASE device = "net"
  BY <1>2, <1>3 DEF Fillable, Queues, KindOf, Filled, Queue
<1>4. CASE device = "input"
  BY <1>2, <1>4 DEF Fillable, Queues, KindOf, Filled, Queue
<1>5. CASE device = "snd"
  BY <1>2, <1>5 DEF Fillable, Queues, KindOf, Filled, Queue
<1> QED
  BY <1>1, <1>3, <1>4, <1>5

LEMMA UnreadIs ==
  ASSUME RingInv, NEW q \in Queue, q = Filled
  PROVE  UnreadItems = IF device = "snd" THEN <<>> ELSE ReturnedItems(q)
<1>1. CASE device = "snd"
  BY <1>1 DEF UnreadItems
<1>2. CASE device # "snd" /\ ready
  <2>1. Fillable = {q}
    BY <1>2, FillableIs DEF RingInv
  <2>2. (CHOOSE r \in Fillable : TRUE) = q
    BY <2>1, Zenon
  <2>3. UnreadItems = ReturnedItems(CHOOSE r \in Fillable : TRUE)
    BY <1>2, Zenon DEF UnreadItems
  <2>4. UnreadItems = ReturnedItems(q)
    BY <2>2, <2>3, Zenon
  <2> QED
    BY <1>2, <2>4
<1>3. CASE ~ready
  <2>1. Returned(q) = <<>>
    BY <1>3 DEF RingInv, IdleInv
  <2>2. ReturnedItems(q) = <<>>
    BY <2>1 DEF ReturnedItems
  <2> QED
    BY <1>3, <2>2 DEF UnreadItems
<1> QED
  BY <1>1, <1>2, <1>3

LEMMA UnreadThen ==
  ASSUME RingInv, RingInv', device' = device, NEW q \in Queue, q = Filled
  PROVE  UnreadItems' = IF device = "snd" THEN <<>> ELSE ReturnedItems(q)'
<1>1. CASE device = "snd"
  BY <1>1 DEF UnreadItems
<1>2. CASE device # "snd" /\ ready'
  <2>1. Fillable' = {q}
    BY <1>2, FillableIs, QueuesAre DEF RingInv
  <2>2. (CHOOSE r \in Fillable' : TRUE) = q
    BY <2>1, Zenon
  <2>3. UnreadItems' = ReturnedItems(CHOOSE r \in Fillable : TRUE)'
    BY <1>2 DEF UnreadItems
  <2>4. UnreadItems' = ReturnedItems(q)'
    BY <2>2, <2>3, Zenon
  <2> QED
    BY <1>2, <2>4
<1>3. CASE ~ready'
  <2>1. Returned(q)' = <<>>
    BY <1>3 DEF RingInv, IdleInv
  <2>2. ReturnedItems(q)' = <<>>
    BY <2>1 DEF ReturnedItems
  <2> QED
    BY <1>3, <2>2 DEF UnreadItems
<1> QED
  BY <1>1, <1>2, <1>3
(* Each item made is with the driver, in a buffer returned, waiting or     *)
(* given up, and in the order they were made; only one queue has items.    *)
NoItem(q) == \A i \in DOMAIN Returned(q) : Returned(q)[i].item = None
ItemsInv ==
  /\ got \in Seq(Int) /\ \A q \in Queue \ Fillable : NoItem(q)
  /\ Accounted(got, UnreadItems, waiting, came, lost)

LEMMA NoItemAppended ==
  ASSUME NEW q \in Queue, Returned(q) \in Seq(Entries(q)), NEW e \in Entries(q), e.item = None,
         Returned(q)' = Append(Returned(q), e), NoItem(q)
  PROVE  NoItem(q)'
<1>1. /\ DOMAIN Returned(q)' = 1..(Len(Returned(q)) + 1) /\ Returned(q)'[Len(Returned(q)) + 1] = e
      /\ \A i \in 1..Len(Returned(q)) : Returned(q)'[i] = Returned(q)[i]
      /\ DOMAIN Returned(q) = 1..Len(Returned(q)) /\ Len(Returned(q)) \in Nat
  BY AppendProperties, LenProperties
<1>2. ASSUME NEW i \in DOMAIN Returned(q)' PROVE Returned(q)'[i].item = None
  <2>1. i = Len(Returned(q)) + 1 \/ i \in DOMAIN Returned(q)
    BY <1>1
  <2> QED
    BY <1>1, <2>1 DEF NoItem
<1> QED
  BY <1>2 DEF NoItem

LEMMA NoItemReaped ==
  ASSUME NEW q \in Queue, Returned(q) \in Seq(Entries(q)), Returned(q) # <<>>,
         Returned(q)' = Tail(Returned(q)), NoItem(q)
  PROVE  NoItem(q)' /\ Returned(q)[1].item = None
<1>1. /\ DOMAIN Returned(q)' = 1..(Len(Returned(q)) - 1)
      /\ \A i \in 1..(Len(Returned(q)) - 1) : Returned(q)'[i] = Returned(q)[i + 1]
      /\ DOMAIN Returned(q) = 1..Len(Returned(q)) /\ Len(Returned(q)) \in Nat \ {0}
  BY HeadTailProperties, EmptySeq, LenProperties
<1>2. ASSUME NEW i \in DOMAIN Returned(q)' PROVE Returned(q)'[i].item = None
  <2>1. i + 1 \in DOMAIN Returned(q) /\ Returned(q)'[i] = Returned(q)[i + 1]
    BY <1>1
  <2> QED
    BY <2>1 DEF NoItem
<1>3. 1 \in DOMAIN Returned(q)
  BY <1>1
<1> QED
  BY <1>2, <1>3 DEF NoItem

(* The queue that is filled is left alone.                                 *)
LEMMA UnreadStays ==
  ASSUME RingInv, RingInv', device' = device, \A q \in Fillable : Returned(q)' = Returned(q)
  PROVE  UnreadItems' = UnreadItems
<1>1. PICK q \in Queue : q = Filled
  BY FillableIs DEF RingInv
<1>2. /\ UnreadItems = IF device = "snd" THEN <<>> ELSE ReturnedItems(q)
      /\ UnreadItems' = IF device = "snd" THEN <<>> ELSE ReturnedItems(q)'
  BY <1>1, UnreadIs, UnreadThen
<1>3. ASSUME device # "snd" PROVE ReturnedItems(q)' = ReturnedItems(q)
  <2>1. Returned(q)' = Returned(q)
    BY <1>1, <1>3, FillableIs DEF RingInv
  <2> QED
    BY <2>1 DEF ReturnedItems
<1> QED
  BY <1>2, <1>3

(* Nothing is returned,                                                    *)
LEMMA ItemsSame ==
  ASSUME RingInv, RingInv', ItemsInv, device' = device, \A q \in Queue : Returned(q)' = Returned(q)
  PROVE  /\ UnreadItems' = UnreadItems /\ \A q \in (Queue \ Fillable)' : NoItem(q)'
<1>1. Fillable' = Fillable /\ Fillable \subseteq Queue
  BY QueuesAre, FillableIs DEF RingInv
<1> QED
  BY <1>1, UnreadStays DEF NoItem, ItemsInv

LEMMA ItemsStay ==
  ASSUME RingInv, RingInv', ItemsInv, device' = device, \A q \in Queue : Returned(q)' = Returned(q),
         UNCHANGED <<got, waiting, came, lost>>
  PROVE  ItemsInv'
<1>1. UnreadItems' = UnreadItems /\ \A q \in (Queue \ Fillable)' : NoItem(q)'
  BY ItemsSame
<1> QED
  BY <1>1 DEF ItemsInv

(* or a chain of another queue, that is not filled.                        *)
LEMMA ItemsElsewhere ==
  ASSUME RingInv, RingInv', ItemsInv, device' = device, UNCHANGED <<got, waiting, came, lost>>,
         NEW q \in Queue \ Fillable, NEW e, GivesBack(q, e), e.item = None, Rest(q)
  PROVE  ItemsInv'
<1>1. Fillable' = Fillable /\ Fillable \subseteq Queue
  BY QueuesAre, FillableIs DEF RingInv
<1>2. \A r \in Queue : r # q => Returned(r)' = Returned(r)
  BY DEF Rest, Same
<1>3. UnreadItems' = UnreadItems
  BY <1>1, <1>2, UnreadStays
<1>4. NoItem(q)'
  <2>1. Returned(q) \in Seq(Entries(q)) /\ NoItem(q) /\ e \in Entries(q) /\ Returned(q)' = Append(Returned(q), e)
    BY DEF RingInv, ChainInv, ItemsInv, GivesBack
  <2> QED
    BY <2>1, NoItemAppended
<1>5. \A r \in Queue \ Fillable : NoItem(r)'
  BY <1>2, <1>4 DEF NoItem, ItemsInv
<1> QED
  BY <1>1, <1>3, <1>5 DEF ItemsInv
LEMMA ItemsInit == Init => ItemsInv
<1> SUFFICES ASSUME Init PROVE ItemsInv
  OBVIOUS
<1>1. RingInv /\ \A q \in Queue : Returned(q) = <<>>
  BY SafeInit DEF SafeInv, RingInv, IdleInv, Init
<1>2. UnreadItems = <<>>
  BY DEF Init, UnreadItems
<1>3. \A q \in Queue : NoItem(q)
  BY <1>1 DEF NoItem
<1>4. got = <<>> /\ waiting = <<>> /\ came = 0 /\ lost = {} /\ 1..0 = {}
  BY DEF Init
<1>5. Accounted(<<>>, <<>>, <<>>, 0, {})
  BY <1>4, EmptyItems DEF Accounted, Lower
<1> QED
  BY <1>2, <1>3, <1>4, <1>5, EmptyItems DEF ItemsInv

(* A pump fills a buffer, or gives it back.                                *)
LEMMA ItemsFill ==
  ASSUME RingInv, RingInv', FillInv, ItemsInv, Fill
  PROVE  ItemsInv'
<1>1. PICK q \in Queue : doing = q /\ q \in Fillable
  BY FillableIs DEF Fill, RingInv
<1>2. device # "snd" /\ q = Filled /\ device' = device
  BY <1>1, FillableIs DEF Fill, RingInv
<1>3. Rest(q) /\ GivesBack(q, Entry(hand, FilledWith, TRUE))
  BY <1>1, FillRings
<1>4. UnreadItems = ReturnedItems(q) /\ UnreadItems' = ReturnedItems(q)'
  BY <1>2, UnreadIs, UnreadThen
<1>5. Returned(q) \in Seq(Entries(q)) /\ ReturnedItems(q) \in Seq(Int)
  BY ItemsOfEach DEF RingInv, ChainInv
<1>6. ReturnedItems(q)' = Append(ReturnedItems(q), FilledWith)
  <2>1. /\ Entry(hand, FilledWith, TRUE) \in Entries(q) /\ Entry(hand, FilledWith, TRUE).item = FilledWith
        /\ Returned(q)' = Append(Returned(q), Entry(hand, FilledWith, TRUE))
    BY <1>3 DEF GivesBack, Entry
  <2> QED
    BY <1>5, <2>1, ItemsAppended
<1>7. /\ got' = got /\ came' = came /\ lost' = lost /\ waiting # <<>>
      /\ waiting' = IF Asked = Good THEN Tail(waiting) ELSE waiting
  BY <1>1 DEF Fill, history, FillInv
<1>8. Accounted(got, UnreadItems', waiting', came, lost)
  <2>1. /\ got \in Seq(Int) /\ waiting \in Seq(Int) /\ came \in Nat
        /\ Accounted(got, ReturnedItems(q), waiting, came, lost)
    BY <1>4 DEF ItemsInv, FillInv
  <2>2. CASE Asked = Good
    BY <1>4, <1>5, <1>6, <1>7, <2>1, <2>2, ItemFilled DEF FilledWith
  <2>3. CASE Asked # Good
    BY <1>4, <1>5, <1>6, <1>7, <2>1, <2>3, ItemRefused DEF FilledWith
  <2> QED
    BY <2>2, <2>3
<1>9. \A r \in (Queue \ Fillable)' : NoItem(r)'
  <2>1. \A r \in Queue \ Fillable : r # q /\ NoItem(r)
    BY <1>1 DEF ItemsInv
  <2>2. \A r \in Queue \ Fillable : Returned(r)' = Returned(r)
    BY <1>3, <2>1 DEF Rest, Same
  <2> QED
    BY <1>2, <2>1, <2>2, QueuesAre DEF NoItem
<1> QED
  BY <1>7, <1>8, <1>9 DEF ItemsInv

(* The driver reads what is in one, if anything is.                        *)
LEMMA ItemsReap ==
  ASSUME RingInv, RingInv', FillInv, ItemsInv, NEW q \in Queue, q \in Queues, Reap(q)
  PROVE  ItemsInv'
<1>1. Reaps(q) /\ Rest(q)
  BY ChainReaped
<1>2. /\ device' = device /\ UNCHANGED <<waiting, came, lost>>
      /\ got' = IF Returned(q)[1].item # None THEN Append(got, Returned(q)[1].item) ELSE got
  BY DEF Reap, deviceVars
<1>3. Fillable' = Fillable /\ Fillable \subseteq Queue
  BY <1>2, QueuesAre, FillableIs DEF RingInv
<1>4. Returned(q) \in Seq(Entries(q)) /\ Returned(q) # <<>> /\ Returned(q)' = Tail(Returned(q))
  BY <1>1 DEF Reaps, RingInv, ChainInv
<1>5. \A r \in Queue : r # q => Returned(r)' = Returned(r)
  BY <1>1 DEF Rest, Same
<1>6. CASE q \notin Fillable
  <2>1. NoItem(q)' /\ Returned(q)[1].item = None
    BY <1>4, <1>6, NoItemReaped DEF ItemsInv
  <2>2. UnreadItems' = UnreadItems
    BY <1>2, <1>3, <1>5, <1>6, UnreadStays
  <2>3. \A r \in Queue \ Fillable : NoItem(r)'
    BY <1>5, <2>1 DEF NoItem, ItemsInv
  <2>4. got' = got
    BY <1>2, <2>1
  <2> QED
    BY <1>2, <1>3, <2>2, <2>3, <2>4 DEF ItemsInv
<1>7. CASE q \in Fillable
  <2>1. device # "snd" /\ q = Filled
    BY <1>7, FillableIs DEF RingInv
  <2>2. UnreadItems = ReturnedItems(q) /\ UnreadItems' = ReturnedItems(q)'
    BY <1>2, <2>1, UnreadIs, UnreadThen
  <2>3. /\ ReturnedItems(q)' = Tail(ReturnedItems(q)) /\ ReturnedItems(q) # <<>>
        /\ ReturnedItems(q)[1] = Returned(q)[1].item /\ ReturnedItems(q) \in Seq(Int)
    BY <1>4, ItemsReaped, ItemsOfEach
  <2>4. /\ got \in Seq(Int) /\ waiting \in Seq(Int) /\ came \in Nat
        /\ Accounted(got, ReturnedItems(q), waiting, came, lost)
    BY <2>2 DEF ItemsInv, FillInv
  <2>5. Accounted(got', UnreadItems', waiting', came', lost')
    BY <1>2, <2>2, <2>3, <2>4, ItemRead
  <2>6. got' \in Seq(Int)
    <3>1. Returned(q)[1].item \in Int
      BY <2>3, EmptySeq, LenProperties, ElementOfSeq
    <3> QED
      BY <1>2, <2>4, <3>1, AppendProperties
  <2>7. \A r \in Queue \ Fillable : NoItem(r)'
    BY <1>5, <1>7 DEF NoItem, ItemsInv
  <2> QED
    BY <1>3, <2>5, <2>6, <2>7 DEF ItemsInv
<1> QED
  BY <1>6, <1>7

(* Another one comes, and may cost the oldest.                             *)
LEMMA ItemsArrive ==
  ASSUME RingInv, RingInv', FillInv, ItemsInv, Receive \/ Push
  PROVE  ItemsInv'
<1>1. Arrives /\ device' = device
  BY DEF Receive, Push, Arrives
<1>2. \A q \in Queue : Returned(q)' = Returned(q)
  BY IdleRings DEF Idles, Same
<1>3. UnreadItems' = UnreadItems /\ \A q \in (Queue \ Fillable)' : NoItem(q)'
  BY <1>1, <1>2, ItemsSame
<1>4. UnreadItems \in Seq(Int)
  <2>1. PICK q \in Queue : q = Filled
    BY FillableIs DEF RingInv
  <2>2. ReturnedItems(q) \in Seq(Int)
    BY ItemsOfEach DEF RingInv, ChainInv
  <2> QED
    BY <2>1, <2>2, UnreadIs, EmptySeq
<1>5. got \in Seq(Int) /\ waiting \in Seq(Int) /\ came \in Nat /\ Accounted(got, UnreadItems, waiting, came, lost)
  BY DEF ItemsInv, FillInv
<1>6. got' = got /\ came' = came + 1
  BY <1>1 DEF Arrives
<1>7. CASE Len(waiting) >= Room
  <2>1. waiting # <<>> /\ Tail(waiting) \in Seq(Int)
    <3>1. Len(<<>>) = 0 /\ ~(0 >= Room)
      BY VirtioAssumption
    <3>2. waiting # <<>>
      BY <1>7, <3>1
    <3> QED
      BY <1>5, <3>2, HeadTailProperties
  <2>2. Accounted(got, UnreadItems, Tail(waiting), came, lost \cup {waiting[1]})
    BY <1>4, <1>5, <2>1, ItemDropped
  <2>3. Accounted(got, UnreadItems, Append(Tail(waiting), came + 1), came + 1, lost \cup {waiting[1]})
    BY <1>4, <1>5, <2>1, <2>2, ItemCame
  <2>4. waiting' = Append(Tail(waiting), came + 1) /\ lost' = lost \cup {waiting[1]}
    BY <1>1, <1>6, <1>7 DEF Arrives
  <2> QED
    BY <1>3, <1>5, <1>6, <2>3, <2>4 DEF ItemsInv
<1>8. CASE ~(Len(waiting) >= Room)
  <2>1. Accounted(got, UnreadItems, Append(waiting, came + 1), came + 1, lost)
    BY <1>4, <1>5, ItemCame
  <2>2. waiting' = Append(waiting, came + 1) /\ lost' = lost
    BY <1>1, <1>6, <1>8 DEF Arrives
  <2> QED
    BY <1>3, <1>5, <1>6, <2>1, <2>2 DEF ItemsInv
<1> QED
  BY <1>7, <1>8

(* What was in the rings is given up with them.                            *)
LEMMA ItemsReset ==
  ASSUME RingInv, RingInv', FillInv, ItemsInv, Reset
  PROVE  ItemsInv'
<1>1. /\ device' = device /\ got' = got /\ came' = came /\ waiting' \in {waiting, <<>>}
      /\ lost' = 1..came \ (Range(got) \cup Range(waiting'))
  BY DEF Reset
<1>2. \A q \in Queue : Returned(q)' = <<>>
  BY AllForgotten DEF Forgets
<1>3. UnreadItems' = <<>>
  BY DEF Reset, UnreadItems
<1>4. UnreadItems \in Seq(Int)
  <2>1. PICK q \in Queue : q = Filled
    BY FillableIs DEF RingInv
  <2>2. ReturnedItems(q) \in Seq(Int)
    BY ItemsOfEach DEF RingInv, ChainInv
  <2> QED
    BY <2>1, <2>2, UnreadIs, EmptySeq
<1>5. got \in Seq(Int) /\ waiting \in Seq(Int) /\ came \in Nat /\ Accounted(got, UnreadItems, waiting, came, lost)
  BY DEF ItemsInv, FillInv
<1>6. Accounted(got, <<>>, waiting', came, 1..came \ (Range(got) \cup Range(waiting')))
  BY <1>1, <1>4, <1>5, ItemsForgotten
<1>7. \A q \in (Queue \ Fillable)' : NoItem(q)'
  BY <1>2 DEF NoItem
<1> QED
  BY <1>1, <1>3, <1>5, <1>6, <1>7 DEF ItemsInv
LEMMA ItemsStep ==
  ASSUME SafeInv, SafeInv', ItemsInv, [Next]_vars
  PROVE  ItemsInv'
<1>0. /\ RingInv /\ RingInv' /\ FillInv /\ AskedInv /\ Queues \subseteq Queue /\ Streams \subseteq Queue
      /\ "control" \notin Fillable /\ \A s \in Streams : s \notin Fillable
  BY QueuesAre, FillableIs DEF SafeInv, RingInv
<1>1. CASE NextChain
  <2>1. PICK q \in Queue : doing = q
    BY <1>0, <1>1 DEF NextChain
  <2>2. Takes(q) /\ Rest(q)
    BY <1>0, <1>1, <2>1, ChainTaken
  <2>3. \A r \in Queue : Returned(r)' = Returned(r)
    BY <2>2 DEF Takes, Rest, Same
  <2>4. UNCHANGED <<device, got, waiting, came, lost>>
    BY <1>1 DEF NextChain, history
  <2> QED
    BY <1>0, <2>3, <2>4, ItemsStay
<1>2. CASE Answer
  <2>1. PICK q \in Queue : doing = q
    BY <1>0, <1>2 DEF Answer
  <2>2. q \notin Fillable
    BY <1>2, <2>1 DEF Answer, Fillable
  <2>3. Rest(q) /\ GivesBack(q, Entry(hand, None, TRUE)) /\ Entry(hand, None, TRUE).item = None
    BY <1>0, <1>2, <2>1, AnswerRings DEF Entry
  <2>4. UNCHANGED <<device, got, waiting, came, lost>>
    BY <1>2 DEF Answer, deviceVars, history
  <2> QED
    BY <1>0, <2>2, <2>3, <2>4, ItemsElsewhere
<1>3. CASE Fill
  BY <1>0, <1>3, ItemsFill
<1>4. CASE TakeIo
  <2>1. PICK q \in Queue : doing = q /\ q \in Streams
    BY <1>0, <1>4 DEF TakeIo
  <2>2. UNCHANGED <<device, got, waiting, came, lost>>
    BY <1>4 DEF TakeIo, history
  <2>3. CASE Asked = Good
    <3>1. \A r \in Queue : Returned(r)' = Returned(r)
      BY <1>0, <1>4, <2>1, <2>3, HoldRings DEF Same
    <3> QED
      BY <1>0, <2>2, <3>1, ItemsStay
  <2>4. CASE Asked # Good
    <3>1. Rest(q) /\ GivesBack(q, Entry(hand, None, FALSE)) /\ Entry(hand, None, FALSE).item = None
      BY <1>0, <1>4, <2>1, <2>4, RefuseRings DEF Entry
    <3> QED
      BY <1>0, <2>1, <2>2, <3>1, ItemsElsewhere
  <2> QED
    BY <2>3, <2>4
<1>5. CASE Flush
  <2>1. PICK s \in Streams : s = Asked[2]
    BY <1>0, <1>5 DEF Flush, AskedInv
  <2>2. /\ Rest(s) /\ GivesBack(s, Entry(periods[s][1], None, TRUE))
        /\ Entry(periods[s][1], None, TRUE).item = None
    BY <1>0, <1>5, <2>1, FlushRings DEF Entry
  <2>3. UNCHANGED <<device, got, waiting, came, lost>>
    BY <1>5 DEF Flush, history
  <2> QED
    BY <1>0, <2>2, <2>3, ItemsElsewhere
<1>6. CASE Control
  <2>1. PICK q \in Queue : doing = q /\ q = "control"
    BY <1>6 DEF Control, Queue
  <2>2. Rest(q) /\ GivesBack(q, Entry(hand, None, TRUE)) /\ Entry(hand, None, TRUE).item = None
    BY <1>0, <1>6, <2>1, ControlRings DEF Entry
  <2>3. UNCHANGED <<device, got, waiting, came, lost>>
    BY <1>6 DEF Control, history
  <2> QED
    BY <1>0, <2>1, <2>2, <2>3, ItemsElsewhere
<1>7. CASE \E s \in Streams : Finish(s)
  <2>1. PICK s \in Streams : Finish(s)
    BY <1>7
  <2>2. /\ Rest(s) /\ GivesBack(s, Entry(periods[s][1], None, TRUE))
        /\ Entry(periods[s][1], None, TRUE).item = None
    BY <1>0, <2>1, FinishRings DEF Entry
  <2>3. UNCHANGED <<device, got, waiting, came, lost>>
    BY <2>1 DEF Finish, history
  <2> QED
    BY <1>0, <2>2, <2>3, ItemsElsewhere
<1>8. CASE \E q \in Queues : Post(q)
  <2>1. PICK q \in Queue : Post(q) /\ q \in Queues
    BY <1>0, <1>8
  <2>2. Offers(q) /\ Rest(q)
    BY <1>0, <2>1, ChainOffered
  <2>3. \A r \in Queue : Returned(r)' = Returned(r)
    BY <2>2 DEF Offers, Rest, Same
  <2>4. UNCHANGED <<device, got, waiting, came, lost>>
    BY <2>1 DEF Post, deviceVars, history
  <2> QED
    BY <1>0, <2>3, <2>4, ItemsStay
<1>9. CASE \E q \in Queues : Reap(q)
  <2>1. PICK q \in Queue : Reap(q) /\ q \in Queues
    BY <1>0, <1>9
  <2> QED
    BY <1>0, <2>1, ItemsReap
<1>10. CASE Reset
  BY <1>0, <1>10, ItemsReset
<1>11. CASE Receive \/ Push
  BY <1>0, <1>11, ItemsArrive
<1>12. CASE Done \/ PumpInput \/ Claim \/ ReadStatus \/ Acknowledge \/ Handled \/ SetUp \/ \E q \in Queues : Notify(q)
  <2>1. \A r \in Queue : Returned(r)' = Returned(r)
    BY <1>0, <1>12, IdleRings DEF Idles, Same
  <2>2. UNCHANGED <<device, got, waiting, came, lost>>
    BY <1>12 DEF Done, PumpInput, Claim, ReadStatus, Acknowledge, Handled, SetUp, Notify, deviceVars, history
  <2> QED
    BY <1>0, <2>1, <2>2, ItemsStay
<1>13. CASE UNCHANGED vars
  <2>1. \A r \in Queue : Returned(r)' = Returned(r)
    BY <1>13, NothingChanges DEF Same
  <2>2. UNCHANGED <<device, got, waiting, came, lost>>
    BY <1>13 DEF vars, deviceVars, history
  <2> QED
    BY <1>0, <2>1, <2>2, ItemsStay
<1> QED
  BY <1>1, <1>2, <1>3, <1>4, <1>5, <1>6, <1>7, <1>8, <1>9, <1>10, <1>11, <1>12, <1>13
     DEF Next, DeviceStep, Handler

LEMMA AscendingJoined ==
  ASSUME NEW s \in Seq(Int), NEW t \in Seq(Int), Ascending(s), Ascending(t), Lower(Range(s), Range(t))
  PROVE  Ascending(s \o t) /\ s \o t \in Seq(Int) /\ Range(s \o t) = Range(s) \cup Range(t)
<1>1. /\ s \o t \in Seq(Int) /\ Len(s \o t) = Len(s) + Len(t)
      /\ \A i \in 1..(Len(s) + Len(t)) : (s \o t)[i] = IF i <= Len(s) THEN s[i] ELSE t[i - Len(s)]
  BY ConcatProperties
<1>2. /\ Len(s) \in Nat /\ Len(t) \in Nat /\ DOMAIN s = 1..Len(s) /\ DOMAIN t = 1..Len(t)
      /\ DOMAIN (s \o t) = 1..(Len(s) + Len(t))
  BY <1>1, LenProperties
<1>3. ASSUME NEW i \in 1..(Len(s) + Len(t)), NEW j \in 1..(Len(s) + Len(t)), i < j,
             (s \o t)[i] # None, (s \o t)[j] # None
      PROVE  (s \o t)[i] < (s \o t)[j]
  <2>1. CASE j <= Len(s)
    <3>1. (s \o t)[i] = s[i] /\ (s \o t)[j] = s[j] /\ i \in 1..Len(s) /\ j \in 1..Len(s)
      BY <1>1, <1>2, <1>3, <2>1
    <3> QED
      BY <1>2, <1>3, <3>1 DEF Ascending
  <2>2. CASE i <= Len(s) /\ Len(s) < j
    <3>1. (s \o t)[i] = s[i] /\ (s \o t)[j] = t[j - Len(s)] /\ i \in 1..Len(s) /\ j - Len(s) \in 1..Len(t)
      BY <1>1, <1>2, <1>3, <2>2
    <3>2. s[i] \in Range(s) /\ t[j - Len(s)] \in Range(t)
      BY <1>2, <3>1 DEF Range
    <3> QED
      BY <1>3, <3>1, <3>2 DEF Lower
  <2>3. CASE Len(s) < i
    <3>1. /\ (s \o t)[i] = t[i - Len(s)] /\ (s \o t)[j] = t[j - Len(s)]
          /\ i - Len(s) \in 1..Len(t) /\ j - Len(s) \in 1..Len(t) /\ i - Len(s) < j - Len(s)
      BY <1>1, <1>2, <1>3, <2>3
    <3> QED
      BY <1>2, <1>3, <3>1 DEF Ascending
  <2> QED
    BY <1>2, <1>3, <2>1, <2>2, <2>3
<1>4. Ascending(s \o t)
  BY <1>2, <1>3 DEF Ascending
<1> QED
  BY <1>1, <1>4, RangeConcatenation

(* What comes for the guest reaches it in order, once, and only what the   *)
(* full queue gave up or a reset found is missing.                         *)
THEOREM ItemsOnce == Spec => []NoneTwiceNoneMissing
<1>1. Spec => []ItemsInv
  <2>1. SafeInv /\ SafeInv' /\ ItemsInv /\ [Next]_vars => ItemsInv'
    BY ItemsStep
  <2> QED
    BY <2>1, ItemsInit, Safe, PTL DEF Spec
<1>2. ItemsInv /\ SafeInv => NoneTwiceNoneMissing
  <2> SUFFICES ASSUME ItemsInv, SafeInv PROVE NoneTwiceNoneMissing
    OBVIOUS
  <2> DEFINE u == UnreadItems
  <2>1. u \in Seq(Int)
    <3>1. PICK q \in Queue : q = Filled
      BY FillableIs DEF SafeInv, RingInv
    <3>2. ReturnedItems(q) \in Seq(Int)
      BY ItemsOfEach DEF SafeInv, RingInv, ChainInv
    <3> QED
      BY <3>1, <3>2, UnreadIs, EmptySeq DEF SafeInv
  <2>2. got \in Seq(Int) /\ waiting \in Seq(Int) /\ Accounted(got, u, waiting, came, lost)
    BY DEF ItemsInv, SafeInv, FillInv
  <2> HIDE DEF u
  <2>3. Ascending(got \o u) /\ got \o u \in Seq(Int) /\ Range(got \o u) = Range(got) \cup Range(u)
    BY <2>1, <2>2, AscendingJoined DEF Accounted
  <2>4. Lower(Range(got \o u), Range(waiting))
    BY <2>2, <2>3 DEF Accounted, Lower
  <2>5. /\ Ascending((got \o u) \o waiting)
        /\ Range((got \o u) \o waiting) = Range(got \o u) \cup Range(waiting)
    BY <2>2, <2>3, <2>4, AscendingJoined DEF Accounted
  <2>6. Range((got \o u) \o waiting) \ {None} = 1..came \ lost
    BY <2>2, <2>3, <2>5 DEF Accounted
  <2> QED
    BY <2>5, <2>6 DEF NoneTwiceNoneMissing, u
<1> QED
  BY <1>1, <1>2, Safe, PTL
=================================================================================
