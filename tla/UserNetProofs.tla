----------------------------- MODULE UserNetProofs -----------------------------
(***************************************************************************)
(* Proofs about UserNet, for any windows, rooms and streams: both streams  *)
(* arrive in order, the guest is never sent more than it has room for, and *)
(* a connection that is over has written what it acknowledged.             *)
(*                                                                         *)
(* Sequence numbers wrap; what makes them tell bytes apart is that all     *)
(* that is on its way lies within a window of where its receiver is.  The  *)
(* invariant says where each frame stands in its stream, counted without   *)
(* wrapping from where the receiver is; that the frames of a queue follow  *)
(* one another; and how far ahead of its receiver each sender is.          *)
(*                                                                         *)
(* A step of the network is several changes, of the connection, of frames, *)
(* of what the host has.  So the parts of the invariant are stated of a    *)
(* connection c, the guest's frames q, frames d for the guest, guest g and *)
(* host h, and each change has a lemma.                                    *)
(***************************************************************************)
EXTENDS UserNet, SequenceTheorems, TLAPS

-------------------------------------------------------------------------------
(* Positions in a stream whose first byte has number first + 1.            *)
Num(first, k) == (first + 1 + k) % Seqs

(* The first position from base on with number num.                        *)
Pos(num, first, base) == base + ((num - first - 1 - base) % Seqs)

(* The end of a stream takes a position of its own.                       *)
WithEnd(n, ends) == IF ends THEN n + 1 ELSE n

-------------------------------------------------------------------------------
(* Frames in a queue.                                                      *)
Numbers == 0..(Seqs - 1)
Flags == {"syn", "ack", "fin", "rst", "psh"}
Frame == [flags : SUBSET Flags, seq : Numbers, ack : Numbers, wnd : Nat, data : Seq(Nat)]

Plain(f) == {"syn", "rst"} \cap f.flags = {}
Length(f) == WithEnd(Len(f.data), "fin" \in f.flags)

(* A frame of the stream from `first`, whose receiver is at x, and which   *)
(* has `end` bytes: it ends by lim and holds the bytes of its place.  What *)
(* it acknowledges of the other stream lies between y and z.               *)
InPlace(f, first, x, lim, other, y, z, end) ==
  Plain(f) => /\ Pos(f.seq, first, x) + Length(f) <= lim
              /\ Pos(f.ack, other, y) <= z
              /\ f.data = [j \in 1..Len(f.data) |-> Pos(f.seq, first, x) + j]
              /\ "fin" \in f.flags => Pos(f.seq, first, x) + Len(f.data) = end

Follows(e, f, first, x, other, y) ==
  Plain(e) /\ Plain(f) => /\ Pos(e.seq, first, x) + Length(e) <= Pos(f.seq, first, x)
                          /\ Pos(e.ack, other, y) <= Pos(f.ack, other, y)

Ordered(q, first, x, lim, other, y, z, end) ==
  /\ \A i \in 1..Len(q) : InPlace(q[i], first, x, lim, other, y, z, end)
  /\ \A i, j \in 1..Len(q) : i < j => Follows(q[i], q[j], first, x, other, y)

(* All of the queue stands at a or later, and acknowledges b or more.      *)
Beyond(f, first, x, a, other, y, b) ==
  Plain(f) => a <= Pos(f.seq, first, x) /\ b <= Pos(f.ack, other, y)

-------------------------------------------------------------------------------
(* Arithmetic of sequence numbers.                                         *)

LEMMA SeqsPositive == Seqs \in Nat /\ Seqs > 0 /\ 2 * Window + 2 < Seqs /\ Window \in Nat /\ Window > 0
  BY NetAssumption

LEMMA ModRange ==
  ASSUME NEW x \in Int
  PROVE  x % Seqs \in Numbers /\ x \div Seqs \in Int /\ x = Seqs * (x \div Seqs) + (x % Seqs)
  BY SeqsPositive DEF Numbers

(* Numbers that differ by less than Seqs, and by a multiple of it, agree.  *)
LEMMA NotATurn ==
  ASSUME NEW k \in Int, Seqs * k < Seqs, -Seqs < Seqs * k
  PROVE  k = 0
<1>1. k >= 1 => Seqs * k >= Seqs
  BY SeqsPositive
<1>2. k <= -1 => Seqs * k <= -Seqs
  BY SeqsPositive
<1> QED
  BY <1>1, <1>2, SeqsPositive

LEMMA ModUnique ==
  ASSUME NEW k \in Int, NEW r \in Numbers, NEW x \in Int, x = Seqs * k + r
  PROVE  x % Seqs = r
<1> DEFINE p == x \div Seqs
<1>1. x % Seqs \in 0..(Seqs - 1) /\ p \in Int /\ x = Seqs * p + (x % Seqs)
  BY ModRange DEF Numbers
<1>2. Seqs * (p - k) = r - (x % Seqs)
  BY <1>1, SeqsPositive DEF Numbers
<1>3. p - k = 0
  BY <1>1, <1>2, NotATurn, SeqsPositive DEF Numbers
<1> QED
  BY <1>1, <1>3, SeqsPositive DEF Numbers

LEMMA ModSmall ==
  ASSUME NEW r \in Numbers
  PROVE  r % Seqs = r /\ r \in Int
<1>1. r \in Int /\ r = Seqs * 0 + r
  BY SeqsPositive DEF Numbers
<1> QED
  BY <1>1, ModUnique

(* A multiple of Seqs, and what is done before, do not change a remainder. *)
LEMMA ModTurns ==
  ASSUME NEW x \in Int, NEW y \in Int, NEW k \in Int, x = y + Seqs * k
  PROVE  x % Seqs = y % Seqs
<1> DEFINE p == y \div Seqs
<1>1. y % Seqs \in Numbers /\ p \in Int /\ y = Seqs * p + (y % Seqs)
  BY ModRange
<1>2. p + k \in Int /\ x = Seqs * (p + k) + (y % Seqs)
  BY <1>1, SeqsPositive DEF Numbers
<1> HIDE DEF p
<1> QED
  BY <1>1, <1>2, ModUnique

LEMMA ModSum ==
  ASSUME NEW x \in Int, NEW y \in Int
  PROVE  /\ ((x % Seqs) + y) % Seqs = (x + y) % Seqs
         /\ ((x % Seqs) - y) % Seqs = (x - y) % Seqs
         /\ (y - (x % Seqs)) % Seqs = (y - x) % Seqs
<1> DEFINE p == x \div Seqs
           r == x % Seqs
<1>1. r \in Int /\ p \in Int /\ x = Seqs * p + r
  BY ModRange DEF Numbers
<1> HIDE DEF p, r
<1>2. -p \in Int /\ r + y = (x + y) + Seqs * (-p) /\ r - y = (x - y) + Seqs * (-p)
      /\ y - r = (y - x) + Seqs * p
  BY <1>1, SeqsPositive
<1>3. r + y \in Int /\ x + y \in Int /\ r - y \in Int /\ x - y \in Int /\ y - r \in Int /\ y - x \in Int
  BY <1>1
<1>4. (r + y) % Seqs = (x + y) % Seqs /\ (r - y) % Seqs = (x - y) % Seqs
  BY <1>2, <1>3, ModTurns
<1>5. (y - r) % Seqs = (y - x) % Seqs
  BY <1>1, <1>2, <1>3, ModTurns
<1> QED
  BY <1>4, <1>5 DEF r

LEMMA NumIn ==
  ASSUME NEW first \in Int, NEW k \in Int
  PROVE  Num(first, k) \in Numbers /\ Num(first, k) \in Int
<1>1. first + 1 + k \in Int
  OBVIOUS
<1> QED
  BY <1>1, ModRange, SeqsPositive DEF Num, Numbers

LEMMA PosIn ==
  ASSUME NEW num \in Int, NEW first \in Int, NEW base \in Int
  PROVE  Pos(num, first, base) \in Int /\ base <= Pos(num, first, base) /\ Pos(num, first, base) < base + Seqs
<1>1. num - first - 1 - base \in Int
  OBVIOUS
<1> QED
  BY <1>1, ModRange, SeqsPositive DEF Pos, Numbers

(* Adding to a number advances it; subtracting counts what lies between.   *)
LEMMA NumAdd ==
  ASSUME NEW first \in Int, NEW k \in Int, NEW m \in Int
  PROVE  (Num(first, k) + m) % Seqs = Num(first, k + m)
<1>1. first + 1 + k \in Int /\ (first + 1 + k) + m = first + 1 + (k + m)
  OBVIOUS
<1> QED
  BY <1>1, ModSum DEF Num

LEMMA NumMinus ==
  ASSUME NEW first \in Int, NEW a \in Int, NEW b \in Int
  PROVE  (Num(first, a) - Num(first, b)) % Seqs = (a - b) % Seqs
<1> DEFINE x == first + 1 + a
           y == first + 1 + b
<1>1. x \in Int /\ y \in Int /\ x - y = a - b /\ x % Seqs \in Int /\ y % Seqs \in Int
  BY ModRange DEF Numbers
<1> HIDE DEF x, y
<1>2. ((x % Seqs) - (y % Seqs)) % Seqs = (x - (y % Seqs)) % Seqs
  BY <1>1, ModSum
<1>3. (x - (y % Seqs)) % Seqs = (x - y) % Seqs
  BY <1>1, ModSum
<1> QED
  BY <1>1, <1>2, <1>3 DEF x, y, Num

LEMMA NumSame ==
  ASSUME NEW first \in Int, NEW a \in Int, NEW b \in Int,
         Num(first, a) = Num(first, b), a - b < Seqs, b - a < Seqs
  PROVE  a = b
<1> DEFINE x == first + 1 + a
           y == first + 1 + b
           m == x \div Seqs
           n == y \div Seqs
<1>1. x \in Int /\ y \in Int /\ x - y = a - b
  OBVIOUS
<1>2. x % Seqs \in Numbers /\ m \in Int /\ x = Seqs * m + (x % Seqs)
  BY <1>1, ModRange
<1>3. n \in Int /\ y = Seqs * n + (y % Seqs) /\ x % Seqs = y % Seqs
  BY <1>1, ModRange DEF Num
<1> HIDE DEF x, y, m, n
<1>4. x - y = Seqs * (m - n)
  BY <1>1, <1>2, <1>3, SeqsPositive DEF Numbers
<1>5. m - n \in Int /\ m - n = 0
  BY <1>1, <1>2, <1>3, <1>4, NotATurn, SeqsPositive
<1> QED
  BY <1>1, <1>2, <1>3, <1>4, <1>5, SeqsPositive

(* A position within a turn of the base is the position of its number.     *)
LEMMA PosNum ==
  ASSUME NEW first \in Int, NEW base \in Int, NEW k \in Int, base <= k, k < base + Seqs
  PROVE  Pos(Num(first, k), first, base) = k
<1> DEFINE x == first + 1 + k
           y == first + 1 + base
<1>1. x \in Int /\ y \in Int /\ x % Seqs \in Int /\ x - y = k - base
  BY ModRange DEF Numbers
<1>2. (x % Seqs) - first - 1 - base = (x % Seqs) - y
  BY <1>1
<1>3. ((x % Seqs) - y) % Seqs = (x - y) % Seqs
  BY <1>1, ModSum
<1>4. k - base \in Numbers
  BY SeqsPositive DEF Numbers
<1>5. (k - base) % Seqs = k - base
  BY <1>4, ModSmall
<1> QED
  BY <1>1, <1>2, <1>3, <1>5 DEF Pos, Num

LEMMA NumPos ==
  ASSUME NEW first \in Int, NEW base \in Int, NEW num \in Numbers
  PROVE  Num(first, Pos(num, first, base)) = num
<1> DEFINE w == num - first - 1 - base
           v == first + 1 + base
<1>1. num \in Int /\ w \in Int /\ v \in Int /\ w % Seqs \in Int /\ w + v = num
  BY ModSmall, ModRange DEF Numbers
<1> HIDE DEF w
<1>2. first + 1 + (base + (w % Seqs)) = (w % Seqs) + v
  BY <1>1
<1> HIDE DEF v
<1>3. ((w % Seqs) + v) % Seqs = num % Seqs
  BY <1>1, ModSum
<1>4. num % Seqs = num
  BY ModSmall
<1> QED
  BY <1>2, <1>3, <1>4 DEF Num, Pos, w

(* The position of a number does not move with its base, until the base    *)
(* has passed it.                                                          *)
LEMMA PosMoves ==
  ASSUME NEW first \in Int, NEW base \in Int, NEW to \in Int, NEW num \in Numbers,
         to <= Pos(num, first, base), Pos(num, first, base) < to + Seqs
  PROVE  Pos(num, first, to) = Pos(num, first, base)
<1>1. num \in Int
  BY ModSmall
<1>2. Pos(num, first, base) \in Int
  BY <1>1, PosIn
<1> QED
  BY <1>2, NumPos, PosNum

(* Numbers a window apart compare as their positions do.                   *)
LEMMA AfterNum ==
  ASSUME NEW first \in Int, NEW a \in Int, NEW b \in Int, a - b <= Window, b - a <= Window
  PROVE  SeqAfter(Num(first, a), Num(first, b)) <=> b < a
<1>1. (Num(first, a) - Num(first, b)) % Seqs = (a - b) % Seqs
  BY NumMinus
<1>2. Window <= (Seqs \div 2) - 1 /\ (Seqs \div 2) - 1 < Seqs - Window /\ (Seqs \div 2) \in Int
  BY SeqsPositive
<1>3. CASE b <= a
  <2>1. a - b \in Numbers
    BY <1>3, SeqsPositive DEF Numbers
  <2>2. (a - b) % Seqs = a - b
    BY <2>1, ModSmall
  <2> QED
    BY <1>1, <1>2, <1>3, <2>2, SeqsPositive DEF SeqAfter
<1>4. CASE a < b
  <2>1. a - b + Seqs \in Numbers /\ a - b \in Int /\ a - b = Seqs * (-1) + (a - b + Seqs)
    BY <1>4, SeqsPositive DEF Numbers
  <2>2. (a - b) % Seqs = a - b + Seqs
    BY <2>1, ModUnique
  <2> QED
    BY <1>1, <1>2, <1>4, <2>2, SeqsPositive DEF SeqAfter
<1> QED
  BY <1>3, <1>4

-------------------------------------------------------------------------------
(* What operations on queues do to the order of their frames.              *)

LEMMA FrameParts ==
  ASSUME NEW f \in Frame
  PROVE  /\ f.flags \in SUBSET Flags /\ f.seq \in Numbers /\ f.ack \in Numbers /\ f.wnd \in Nat
         /\ f.data \in Seq(Nat) /\ Len(f.data) \in Nat /\ Length(f) \in Nat
         /\ f.seq \in Int /\ f.ack \in Int
<1>1. f.flags \in SUBSET Flags /\ f.seq \in Numbers /\ f.ack \in Numbers /\ f.wnd \in Nat /\ f.data \in Seq(Nat)
  BY DEF Frame
<1>2. f.seq \in Int /\ f.ack \in Int
  BY <1>1, ModSmall
<1>3. Len(f.data) \in Nat
  BY <1>1
<1>4. Length(f) \in Nat
  BY <1>3 DEF Length, WithEnd
<1> QED
  BY <1>1, <1>2, <1>3, <1>4

(* q2 is the end of q.                                                     *)
Suffix(q2, q) ==
  /\ Len(q2) <= Len(q)
  /\ \A i \in 1..Len(q2) : q2[i] = q[i + (Len(q) - Len(q2))]

LEMMA SuffixIndex ==
  ASSUME NEW q \in Seq(Frame), NEW q2 \in Seq(Frame), Suffix(q2, q), NEW i \in 1..Len(q2)
  PROVE  /\ q2[i] = q[i + (Len(q) - Len(q2))]
         /\ i + (Len(q) - Len(q2)) \in 1..Len(q)
<1>1. Len(q) \in Nat /\ Len(q2) \in Nat
  OBVIOUS
<1> QED
  BY <1>1 DEF Suffix

LEMMA TailSuffix ==
  ASSUME NEW q \in Seq(Frame), q # <<>>
  PROVE  /\ Tail(q) \in Seq(Frame) /\ Suffix(Tail(q), q) /\ Len(Tail(q)) = Len(q) - 1
         /\ \A i \in 1..Len(Tail(q)) : Tail(q)[i] = q[i + 1] /\ i + 1 \in 1..Len(q)
         /\ q[1] \in Frame /\ 1 \in 1..Len(q) /\ Len(q) \in Nat
<1>1. Len(q) \in Nat \ {0} /\ q[1] \in Frame
  BY EmptySeq
<1>2. Tail(q) \in Seq(Frame) /\ Len(Tail(q)) = Len(q) - 1 /\ \A i \in 1..Len(Tail(q)) : Tail(q)[i] = q[i + 1]
  BY HeadTailProperties
<1>3. Len(q) - Len(Tail(q)) = 1
  BY <1>1, <1>2
<1> QED
  BY <1>1, <1>2, <1>3 DEF Suffix

LEMMA SuffixOrdered ==
  ASSUME NEW first \in Int, NEW x \in Int, NEW lim \in Int, NEW other \in Int, NEW y \in Int, NEW z \in Int, NEW end,
         NEW q \in Seq(Frame), NEW q2 \in Seq(Frame), Suffix(q2, q), Ordered(q, first, x, lim, other, y, z, end)
  PROVE  Ordered(q2, first, x, lim, other, y, z, end)
<1> DEFINE k == Len(q) - Len(q2)
<1>1. Len(q) \in Nat /\ Len(q2) \in Nat
  OBVIOUS
<1>2. ASSUME NEW i \in 1..Len(q2)
      PROVE  q2[i] = q[i + k] /\ i + k \in 1..Len(q)
  BY SuffixIndex
<1> HIDE DEF k
<1>3. \A i \in 1..Len(q2) : InPlace(q2[i], first, x, lim, other, y, z, end)
  BY <1>2 DEF Ordered
<1>4. k \in Int
  BY <1>1 DEF k
<1>5. ASSUME NEW i \in 1..Len(q2), NEW j \in 1..Len(q2), i < j
      PROVE  Follows(q2[i], q2[j], first, x, other, y)
  <2>1. i + k < j + k
    BY <1>4, <1>5
  <2> QED
    BY <2>1, <1>2 DEF Ordered
<1> QED
  BY <1>3, <1>5 DEF Ordered

(* The limits may grow.                                                    *)
LEMMA InPlaceWithin ==
  ASSUME NEW first \in Int, NEW x \in Int, NEW lim \in Int, NEW other \in Int, NEW y \in Int, NEW z \in Int, NEW end,
         NEW lim2 \in Int, NEW z2 \in Int, lim <= lim2, z <= z2, NEW f \in Frame,
         InPlace(f, first, x, lim, other, y, z, end)
  PROVE  InPlace(f, first, x, lim2, other, y, z2, end)
<1>1. /\ Length(f) \in Nat
      /\ Pos(f.seq, first, x) \in Int /\ Pos(f.ack, other, y) \in Int
  BY FrameParts, PosIn
<1> QED
  BY <1>1 DEF InPlace

LEMMA OrderedWithin ==
  ASSUME NEW first \in Int, NEW x \in Int, NEW lim \in Int, NEW other \in Int, NEW y \in Int, NEW z \in Int, NEW end,
         NEW lim2 \in Int, NEW z2 \in Int, lim <= lim2, z <= z2, NEW q \in Seq(Frame),
         Ordered(q, first, x, lim, other, y, z, end)
  PROVE  Ordered(q, first, x, lim2, other, y, z2, end)
<1>1. \A i \in 1..Len(q) : q[i] \in Frame
  OBVIOUS
<1>2. \A i \in 1..Len(q) : InPlace(q[i], first, x, lim2, other, y, z2, end)
  BY <1>1, InPlaceWithin DEF Ordered
<1> QED
  BY <1>2 DEF Ordered

(* The receiver may move on to where no frame stands before it.            *)
LEMMA BeyondMoves ==
  ASSUME NEW first \in Int, NEW x \in Int, NEW other \in Int, NEW y \in Int,
         NEW x2 \in Int, NEW y2 \in Int, NEW f \in Frame, x <= x2, y <= y2, Plain(f),
         Beyond(f, first, x, x2, other, y, y2)
  PROVE  Pos(f.seq, first, x2) = Pos(f.seq, first, x) /\ Pos(f.ack, other, y2) = Pos(f.ack, other, y)
<1>1. f.seq \in Numbers /\ f.ack \in Numbers /\ f.seq \in Int /\ f.ack \in Int
  BY FrameParts
<1>2. /\ Pos(f.seq, first, x) \in Int /\ Pos(f.seq, first, x) < x + Seqs
      /\ Pos(f.ack, other, y) \in Int /\ Pos(f.ack, other, y) < y + Seqs
  BY <1>1, PosIn
<1>3. x2 <= Pos(f.seq, first, x) /\ y2 <= Pos(f.ack, other, y)
  BY DEF Beyond
<1>4. Pos(f.seq, first, x) < x2 + Seqs /\ Pos(f.ack, other, y) < y2 + Seqs
  BY <1>2, SeqsPositive
<1> QED
  BY <1>1, <1>3, <1>4, PosMoves

LEMMA OrderedMoves ==
  ASSUME NEW first \in Int, NEW x \in Int, NEW lim \in Int, NEW other \in Int, NEW y \in Int, NEW z \in Int, NEW end,
         NEW x2 \in Int, NEW y2 \in Int, x <= x2, y <= y2, NEW q \in Seq(Frame),
         Ordered(q, first, x, lim, other, y, z, end),
         \A i \in 1..Len(q) : Beyond(q[i], first, x, x2, other, y, y2)
  PROVE  Ordered(q, first, x2, lim, other, y2, z, end)
<1>1. \A i \in 1..Len(q) : Plain(q[i]) => /\ Pos(q[i].seq, first, x2) = Pos(q[i].seq, first, x)
                                         /\ Pos(q[i].ack, other, y2) = Pos(q[i].ack, other, y)
  <2> SUFFICES ASSUME NEW i \in 1..Len(q), Plain(q[i])
               PROVE  Pos(q[i].seq, first, x2) = Pos(q[i].seq, first, x) /\ Pos(q[i].ack, other, y2) = Pos(q[i].ack, other, y)
    OBVIOUS
  <2>1. q[i] \in Frame /\ Beyond(q[i], first, x, x2, other, y, y2)
    OBVIOUS
  <2>2. PICK f \in Frame : f = q[i]
    BY <2>1
  <2>3. Plain(f) /\ Beyond(f, first, x, x2, other, y, y2)
    BY <2>1, <2>2
  <2>4. Pos(f.seq, first, x2) = Pos(f.seq, first, x) /\ Pos(f.ack, other, y2) = Pos(f.ack, other, y)
    BY <2>3, BeyondMoves
  <2> QED
    BY <2>2, <2>4
<1>2. \A i \in 1..Len(q) : InPlace(q[i], first, x2, lim, other, y2, z, end)
  BY <1>1 DEF Ordered, InPlace
<1>3. \A i, j \in 1..Len(q) : i < j => Follows(q[i], q[j], first, x2, other, y2)
  BY <1>1 DEF Ordered, Follows
<1> QED
  BY <1>2, <1>3 DEF Ordered

(* What comes after the first frame stands after it.                       *)
LEMMA TailBeyond ==
  ASSUME NEW first \in Int, NEW x \in Int, NEW lim \in Int, NEW other \in Int, NEW y \in Int, NEW z \in Int, NEW end,
         NEW q \in Seq(Frame), q # <<>>, Plain(q[1]), Ordered(q, first, x, lim, other, y, z, end),
         NEW i \in 1..Len(Tail(q))
  PROVE  Beyond(Tail(q)[i], first, x, Pos(q[1].seq, first, x) + Length(q[1]), other, y, Pos(q[1].ack, other, y))
<1>1. Tail(q)[i] = q[i + 1] /\ i + 1 \in 1..Len(q) /\ 1 \in 1..Len(q)
  BY TailSuffix
<1>2. 1 < i + 1
  OBVIOUS
<1>3. Follows(q[1], q[i + 1], first, x, other, y)
  BY <1>1, <1>2 DEF Ordered
<1> QED
  BY <1>1, <1>3 DEF Follows, Beyond

LEMMA BeyondFollows ==
  ASSUME NEW first \in Int, NEW x \in Int, NEW lim \in Int, NEW other \in Int, NEW y \in Int, NEW z \in Int, NEW end,
         NEW e \in Frame, NEW f \in Frame,
         InPlace(e, first, x, lim, other, y, z, end), Beyond(f, first, x, lim, other, y, z)
  PROVE  Follows(e, f, first, x, other, y)
<1>1. /\ Length(e) \in Nat /\ Pos(e.seq, first, x) \in Int /\ Pos(e.ack, other, y) \in Int
      /\ Pos(f.seq, first, x) \in Int /\ Pos(f.ack, other, y) \in Int
  BY FrameParts, PosIn
<1> QED
  BY <1>1 DEF InPlace, Beyond, Follows

(* Frames that stand after all of the queue may come after it.             *)
LEMMA ConcatOrdered ==
  ASSUME NEW first \in Int, NEW x \in Int, NEW lim \in Int, NEW other \in Int, NEW y \in Int, NEW z \in Int, NEW end,
         NEW lim2 \in Int, NEW z2 \in Int, lim <= lim2, z <= z2, NEW q \in Seq(Frame), NEW e \in Seq(Frame),
         Ordered(q, first, x, lim, other, y, z, end), Ordered(e, first, x, lim2, other, y, z2, end),
         \A i \in 1..Len(e) : Beyond(e[i], first, x, lim, other, y, z)
  PROVE  Ordered(q \o e, first, x, lim2, other, y, z2, end)
<1> DEFINE r == q \o e
           n == Len(q)
<1>1. /\ n \in Nat /\ Len(e) \in Nat /\ Len(r) = n + Len(e)
      /\ \A i \in 1..Len(r) : r[i] = IF i <= n THEN q[i] ELSE e[i - n]
  BY ConcatProperties
<1>2. \A i \in 1..n : q[i] \in Frame
  OBVIOUS
<1> HIDE DEF r
<1>3. \A i \in 1..Len(r) : i > n => i - n \in 1..Len(e)
  BY <1>1
<1>4. Ordered(q, first, x, lim2, other, y, z2, end)
  BY OrderedWithin
<1>5. ASSUME NEW i \in 1..Len(r)
      PROVE  InPlace(r[i], first, x, lim2, other, y, z2, end)
  <2>1. CASE i <= n
    <3>1. i \in 1..n /\ r[i] = q[i]
      BY <1>1, <2>1
    <3> QED
      BY <3>1, <1>4 DEF Ordered
  <2>2. CASE i > n
    <3>1. i - n \in 1..Len(e) /\ r[i] = e[i - n]
      BY <1>1, <1>3, <2>2
    <3> QED
      BY <3>1 DEF Ordered
  <2> QED
    BY <2>1, <2>2, <1>1
<1>6. ASSUME NEW i \in 1..Len(r), NEW j \in 1..Len(r), i < j
      PROVE  Follows(r[i], r[j], first, x, other, y)
  <2>1. CASE j <= n
    <3>1. i \in 1..n /\ j \in 1..n /\ r[i] = q[i] /\ r[j] = q[j]
      BY <1>1, <1>6, <2>1
    <3> QED
      BY <3>1, <1>6 DEF Ordered
  <2>2. CASE i <= n /\ n < j
    <3>1. i \in 1..n /\ r[i] = q[i] /\ j - n \in 1..Len(e) /\ r[j] = e[j - n]
      BY <1>1, <1>3, <2>2
    <3>2. q[i] \in Frame /\ e[j - n] \in Frame
      BY <3>1
    <3>3. InPlace(q[i], first, x, lim, other, y, z, end) /\ Beyond(e[j - n], first, x, lim, other, y, z)
      BY <3>1 DEF Ordered
    <3>4. Follows(q[i], e[j - n], first, x, other, y)
      BY <3>2, <3>3, BeyondFollows
    <3> QED
      BY <3>1, <3>4
  <2>3. CASE n < i
    <3>1. i - n \in 1..Len(e) /\ j - n \in 1..Len(e) /\ r[i] = e[i - n] /\ r[j] = e[j - n] /\ i - n < j - n
      BY <1>1, <1>3, <1>6, <2>3
    <3> QED
      BY <3>1 DEF Ordered
  <2> QED
    BY <2>1, <2>2, <2>3, <1>1
<1> QED
  BY <1>5, <1>6 DEF Ordered, r

(* One frame more: one that stands after all of the queue, or one that is  *)
(* not of the stream.                                                      *)
LEMMA AppendOrdered ==
  ASSUME NEW first \in Int, NEW x \in Int, NEW lim \in Int, NEW other \in Int, NEW y \in Int, NEW z \in Int, NEW end,
         NEW lim2 \in Int, NEW z2 \in Int, lim <= lim2, z <= z2, NEW q \in Seq(Frame), NEW f \in Frame,
         Ordered(q, first, x, lim, other, y, z, end), InPlace(f, first, x, lim2, other, y, z2, end),
         Beyond(f, first, x, lim, other, y, z)
  PROVE  Ordered(Append(q, f), first, x, lim2, other, y, z2, end)
<1> DEFINE e == <<f>>
<1>1. e \in Seq(Frame) /\ Len(e) = 1 /\ e[1] = f /\ Append(q, f) = q \o e
  BY AppendIsConcat
<1> HIDE DEF e
<1>2. \A i \in 1..Len(e) : i = 1
  BY <1>1
<1>3. Ordered(e, first, x, lim2, other, y, z2, end)
  <2>1. \A i, j \in 1..Len(e) : ~(i < j)
    BY <1>2
  <2> QED
    BY <1>1, <1>2, <2>1 DEF Ordered
<1>4. \A i \in 1..Len(e) : Beyond(e[i], first, x, lim, other, y, z)
  BY <1>1, <1>2
<1> QED
  BY <1>1, <1>3, <1>4, ConcatOrdered

LEMMA NotPlainOrdered ==
  ASSUME NEW first, NEW x, NEW lim, NEW other, NEW y, NEW z, NEW end, NEW a, NEW b, NEW f, ~Plain(f)
  PROVE  InPlace(f, first, x, lim, other, y, z, end) /\ Beyond(f, first, x, a, other, y, b)
  BY DEF InPlace, Beyond

LEMMA NonePlainOrdered ==
  ASSUME NEW first, NEW x, NEW lim, NEW other, NEW y, NEW z, NEW end, NEW q \in Seq(Frame),
         \A i \in 1..Len(q) : ~Plain(q[i])
  PROVE  Ordered(q, first, x, lim, other, y, z, end)
  BY DEF Ordered, InPlace, Follows

-------------------------------------------------------------------------------
(* The inductive invariant.                                                *)

Conn == [state : {"Connecting", "SynReceived", "Established"}, una : Numbers, nxt : Numbers, rcv : Numbers,
         guestWnd : Nat, lastWnd : Nat, toHost : Seq(Nat),
         guestFin : BOOLEAN, hostShut : BOOLEAN, finSent : BOOLEAN, dead : BOOLEAN]
Host == [wrote : Seq(Nat), sent : Nat, shut : BOOLEAN, early : BOOLEAN, failed : BOOLEAN]
GuestEnd == [state : {"closed", "synSent", "open", "reset", "aborted"}, una : Nat, nxt : Nat, wnd : Nat,
             got : Seq(Nat), read : Nat, finSent : BOOLEAN, finGot : BOOLEAN]

Live(c) == c.state \in {"SynReceived", "Established"}
Talking(g) == g.state \in {"synSent", "open"}
Has(q, flag) == \E i \in 1..Len(q) : flag \in q[i].flags
NonePlain(q) == \A i \in 1..Len(q) : ~Plain(q[i])

(* How far the streams have come: what the guest has and has sent, and     *)
(* what the network has taken, has sent and has heard acknowledged.        *)
Got(g) == WithEnd(Len(g.got), g.finGot)
Said(g) == WithEnd(g.nxt, g.finSent)
Bytes(c, h) == h.wrote \o (IF c = NoConn THEN <<>> ELSE c.toHost)
Kept(c, h) == WithEnd(Len(Bytes(c, h)), c.guestFin)
Sent(c, h) == WithEnd(h.sent, c.finSent)
Heard(c, h) == Sent(c, h) - InFlight(c)

ConnOK(c) == c # NoConn => c \in Conn /\ Len(c.toHost) <= Window /\ InFlight(c) <= Window

GuestOK(g) ==
  /\ g \in GuestEnd
  /\ g.got = UpTo(Len(g.got)) /\ (g.finGot => Len(g.got) = HostBytes)
  /\ g.una <= Said(g) /\ g.nxt <= g.una + Window /\ g.wnd <= Window
  /\ g.nxt <= GuestBytes /\ (g.finSent => g.nxt = GuestBytes)
  /\ Len(g.got) <= g.read + Room
  /\ g.state \in {"closed", "synSent"} => g = Idle(g.state, 0)
  /\ g.state \in {"reset", "aborted"} => g = Idle(g.state, g.read)
  /\ g.state = "open" => g.read <= Len(g.got)

HostOK(h) ==
  /\ h \in Host
  /\ h.sent <= HostBytes /\ (h.shut => h.sent = HostBytes)
  /\ h.shut /\ ~h.early => GuestBytes <= Len(h.wrote)

(* The bytes taken are the first of the guest's stream, and with its end   *)
(* all; the network ends its own after the host has.                       *)
Stream(c, h) ==
  /\ Bytes(c, h) = UpTo(Len(Bytes(c, h)))
  /\ c # NoConn => /\ c.guestFin => Len(Bytes(c, h)) = GuestBytes
                   /\ c.finSent => h.shut

(* The two ends of a live connection: neither is more than a window behind *)
(* what the other has sent.                                                *)
Link(c, g, h) ==
  Live(c) =>
    /\ c.nxt = Num(Iss, Sent(c, h)) /\ c.rcv = Num(Isn, Kept(c, h))
    /\ Talking(g) => /\ Heard(c, h) <= Got(g) /\ Got(g) <= Sent(c, h)
                     /\ g.una <= Kept(c, h) /\ Kept(c, h) <= Said(g)

(* Frames for the guest.                                                   *)
ForGuest(d) == \A i \in 1..Len(d) : d[i].wnd <= Window /\ ("fin" \in d[i].flags => d[i].data = <<>>)
ToGuest(d, g, lim, z) ==
  g.state = "open" => ~Has(d, "syn") /\ Ordered(d, Iss, Got(g), lim, Isn, g.una, z, HostBytes)
DataTo(c, g, h) == IF Live(c) THEN Sent(c, h) ELSE Got(g) + Window
AcksTo(c, g, h) == IF Live(c) THEN Kept(c, h) ELSE Said(g)

(* Frames from the guest.                                                  *)
FromGuest(q, kept, lim, heard, z) == Ordered(q, Isn, kept - Window - 1, lim, Iss, heard, z, GuestBytes)
DataFrom(c, g, h) == IF Talking(g) THEN Said(g) ELSE Kept(c, h) + Window + 1
AcksFrom(c, g, h) == IF Talking(g) THEN Got(g) ELSE Sent(c, h)

(* The windows the guest tells never reach beyond its room.                *)
Roomy(q, heard, g) == \A i \in 1..Len(q) : Plain(q[i]) => Pos(q[i].ack, Iss, heard) + q[i].wnd <= g.read + Room
Windows(c, q, g, h) ==
  /\ h.sent <= g.read + Room
  /\ Live(c) /\ ~c.finSent => /\ Heard(c, h) + c.guestWnd <= g.read + Room
                              /\ Roomy(q, Heard(c, h), g)

(* The opening: SYNs are the first frames of the guest, and a reset its    *)
(* last; while there may be a SYN no byte has passed; and before there is  *)
(* a connection the guest cannot have had its SYN acknowledged, unless the *)
(* host has failed.                                                        *)
Syns(q, g) ==
  /\ \A i \in 1..Len(q) : "syn" \in q[i].flags =>
        /\ q[i].flags = {"syn"} /\ q[i].seq = Isn /\ q[i].wnd <= Room
        /\ \A j \in 1..Len(q) : j < i => q[j].flags = {"syn"}
  /\ \A i \in 1..Len(q) : "rst" \in q[i].flags => g.state = "aborted"
  /\ g.state \in {"closed", "synSent"} => \A i \in 1..Len(q) : q[i].flags = {"syn"}
SynAcks(d, g) ==
  g.state # "open" =>
    /\ \A i, j \in 1..Len(d) : "syn" \in d[i].flags /\ "syn" \in d[j].flags => i = j
    /\ \A i \in 1..Len(d) : "syn" \in d[i].flags =>
         /\ d[i].data = <<>> /\ "fin" \notin d[i].flags
         /\ d[i].seq = Num(Iss, -1) /\ d[i].ack = Num(Isn, 0)
Closed(c, q, d, g) == g.state = "closed" => c = NoConn /\ q = <<>> /\ d = <<>>
Opening(c, q, g) == Has(q, "syn") \/ c.state \in {"Connecting", "SynReceived"} \/ g.state \in {"closed", "synSent"}
Early(c, d, g, h) ==
  /\ c.state # "Established" /\ h.wrote = <<>> /\ h.sent = 0
  /\ c # NoConn => c.toHost = <<>> /\ ~c.guestFin /\ ~c.finSent
  /\ c.state = "Connecting" => c.nxt = Iss /\ c.una = Iss /\ c.rcv = Num(Isn, 0) /\ c.guestWnd <= Room
  /\ g.una = 0 /\ g.got = <<>> /\ ~g.finGot
  /\ NonePlain(d)
Fresh(c, q, d, g, h) ==
  ~h.failed /\ (c.state = "Connecting" \/ (c = NoConn /\ Has(q, "syn"))) =>
    ~Has(d, "syn") /\ g.state # "open" /\ NonePlain(q)
Dead(c, q, g, h) ==
  c # NoConn /\ c.dead /\ ~h.failed => ~Has(q, "syn") /\ g.state \notin {"closed", "synSent"}

Core(c, q, d, g, h) ==
  /\ q \in Seq(Frame) /\ d \in Seq(Frame)
  /\ ConnOK(c) /\ GuestOK(g) /\ HostOK(h) /\ Stream(c, h) /\ Link(c, g, h)
  /\ ForGuest(d) /\ ToGuest(d, g, DataTo(c, g, h), AcksTo(c, g, h))
  /\ Live(c) => FromGuest(q, Kept(c, h), DataFrom(c, g, h), Heard(c, h), AcksFrom(c, g, h))
  /\ Windows(c, q, g, h)
  /\ Syns(q, g) /\ SynAcks(d, g) /\ Closed(c, q, d, g) /\ (Opening(c, q, g) => Early(c, d, g, h))
  /\ Fresh(c, q, d, g, h) /\ Dead(c, q, g, h)

Queues == Len(in) <= InRoom /\ rx \in Seq(Frame) /\ Len(rx) <= RxRoom /\ out \in Seq(Frame)
IInv == Queues /\ Core(conn, in, rx \o out, guest, host)

-------------------------------------------------------------------------------
(* What the parts of the invariant say of the numbers they are about.      *)

LEMMA NetParts ==
  /\ Isn \in Numbers /\ Iss \in Numbers /\ Isn \in Int /\ Iss \in Int
  /\ Window \in Nat /\ Window > 0 /\ OpenBy \in Nat /\ Mss \in Nat /\ Mss > 0 /\ Room \in Nat
  /\ InRoom \in Nat /\ InRoom > 0 /\ RxRoom \in Nat /\ RxRoom > 0
  /\ GuestBytes \in Nat /\ HostBytes \in Nat
  /\ Seqs \in Nat /\ 2 * Window + 2 < Seqs
  BY NetAssumption DEF Numbers

LEMMA GuestParts ==
  ASSUME NEW g, GuestOK(g)
  PROVE  /\ g.state \in {"closed", "synSent", "open", "reset", "aborted"}
         /\ g.una \in Nat /\ g.nxt \in Nat /\ g.wnd \in Nat /\ g.read \in Nat
         /\ g.got \in Seq(Nat) /\ Len(g.got) \in Nat /\ g.finSent \in BOOLEAN /\ g.finGot \in BOOLEAN
         /\ Got(g) \in Nat /\ Len(g.got) <= Got(g) /\ (~g.finGot => Got(g) = Len(g.got)) /\ (g.finGot => Got(g) = HostBytes + 1)
         /\ Said(g) \in Nat /\ g.nxt <= Said(g) /\ Said(g) <= g.nxt + 1 /\ Said(g) <= g.una + Window + 1
         /\ Advertised(g) \in Nat /\ (g.state = "open" => Advertised(g) + Len(g.got) = g.read + Room)
<1>1. /\ g.state \in {"closed", "synSent", "open", "reset", "aborted"}
      /\ g.una \in Nat /\ g.nxt \in Nat /\ g.wnd \in Nat /\ g.read \in Nat
      /\ g.got \in Seq(Nat) /\ g.finSent \in BOOLEAN /\ g.finGot \in BOOLEAN
  BY DEF GuestOK, GuestEnd
<1>2. Len(g.got) \in Nat
  BY <1>1
<1>3. Got(g) \in Nat /\ Len(g.got) <= Got(g) /\ (~g.finGot => Got(g) = Len(g.got)) /\ (g.finGot => Got(g) = HostBytes + 1)
  BY <1>1, <1>2 DEF Got, WithEnd, GuestOK
<1>4. Said(g) \in Nat /\ g.nxt <= Said(g) /\ Said(g) <= g.nxt + 1
  BY <1>1 DEF Said, WithEnd
<1>5. Said(g) <= g.una + Window + 1
  BY <1>1, <1>4, NetParts DEF GuestOK
<1>6. Advertised(g) \in Nat /\ (g.state = "open" => Advertised(g) + Len(g.got) = g.read + Room)
  BY <1>1, <1>2, NetParts DEF GuestOK, Advertised
<1> QED
  BY <1>1, <1>2, <1>3, <1>4, <1>5, <1>6

LEMMA NoConnParts == NoConn.state = "none" /\ ~Live(NoConn)
  BY DEF NoConn, Live

LEMMA ConnParts ==
  ASSUME NEW c, ConnOK(c), c # NoConn
  PROVE  /\ c \in Conn /\ c.state \in {"Connecting", "SynReceived", "Established"}
         /\ c.una \in Numbers /\ c.nxt \in Numbers /\ c.rcv \in Numbers /\ c.guestWnd \in Nat /\ c.lastWnd \in Nat
         /\ c.toHost \in Seq(Nat) /\ Len(c.toHost) \in Nat /\ Len(c.toHost) <= Window
         /\ c.guestFin \in BOOLEAN /\ c.hostShut \in BOOLEAN /\ c.finSent \in BOOLEAN /\ c.dead \in BOOLEAN
         /\ InFlight(c) \in Nat /\ InFlight(c) <= Window
         /\ WindowOf(c) \in Nat /\ WindowOf(c) + Len(c.toHost) = Window
<1>1. c \in Conn /\ Len(c.toHost) <= Window /\ InFlight(c) <= Window
  BY DEF ConnOK
<1>2. /\ c.state \in {"Connecting", "SynReceived", "Established"}
      /\ c.una \in Numbers /\ c.nxt \in Numbers /\ c.rcv \in Numbers /\ c.guestWnd \in Nat /\ c.lastWnd \in Nat
      /\ c.toHost \in Seq(Nat)
      /\ c.guestFin \in BOOLEAN /\ c.hostShut \in BOOLEAN /\ c.finSent \in BOOLEAN /\ c.dead \in BOOLEAN
  BY <1>1 DEF Conn
<1>3. Len(c.toHost) \in Nat
  BY <1>2
<1>4. c.nxt - c.una \in Int
  BY <1>2 DEF Numbers
<1>5. InFlight(c) \in Nat
  BY <1>4, ModRange, SeqsPositive DEF InFlight, Numbers
<1>6. WindowOf(c) \in Nat /\ WindowOf(c) + Len(c.toHost) = Window
  <2>1. PICK n \in Nat : n = Len(c.toHost)
    BY <1>3
  <2>2. n <= Window /\ WindowOf(c) = IF n >= Window THEN 0 ELSE Window - n
    BY <1>1, <2>1 DEF WindowOf
  <2>3. WindowOf(c) \in Nat /\ WindowOf(c) + n = Window
    BY <2>2, SeqsPositive
  <2> QED
    BY <2>1, <2>3
<1> QED
  BY <1>1, <1>2, <1>3, <1>5, <1>6

LEMMA HostParts ==
  ASSUME NEW h, HostOK(h)
  PROVE  /\ h \in Host /\ h.wrote \in Seq(Nat) /\ Len(h.wrote) \in Nat /\ h.sent \in Nat /\ h.sent <= HostBytes
         /\ h.shut \in BOOLEAN /\ h.early \in BOOLEAN /\ h.failed \in BOOLEAN
  BY DEF HostOK, Host

LEMMA FlowParts ==
  ASSUME NEW c, NEW h, ConnOK(c), HostOK(h), c # NoConn
  PROVE  /\ Bytes(c, h) = h.wrote \o c.toHost /\ Bytes(c, h) \in Seq(Nat) /\ Len(Bytes(c, h)) \in Nat
         /\ Len(Bytes(c, h)) = Len(h.wrote) + Len(c.toHost)
         /\ Kept(c, h) \in Nat /\ Len(Bytes(c, h)) <= Kept(c, h) /\ (~c.guestFin => Kept(c, h) = Len(Bytes(c, h)))
         /\ (c.guestFin => Kept(c, h) = Len(Bytes(c, h)) + 1)
         /\ Sent(c, h) \in Nat /\ h.sent <= Sent(c, h) /\ (~c.finSent => Sent(c, h) = h.sent) /\ (c.finSent => Sent(c, h) = h.sent + 1)
         /\ Heard(c, h) \in Int /\ Heard(c, h) <= Sent(c, h) /\ Sent(c, h) <= Heard(c, h) + Window
<1>1. h.wrote \in Seq(Nat) /\ c.toHost \in Seq(Nat) /\ c.guestFin \in BOOLEAN /\ c.finSent \in BOOLEAN /\ h.sent \in Nat
      /\ InFlight(c) \in Nat /\ InFlight(c) <= Window
  BY ConnParts, HostParts
<1>2. Bytes(c, h) = h.wrote \o c.toHost
  BY DEF Bytes
<1>3. Bytes(c, h) \in Seq(Nat) /\ Len(Bytes(c, h)) \in Nat /\ Len(Bytes(c, h)) = Len(h.wrote) + Len(c.toHost)
  <2>1. PICK s \in Seq(Nat) : s = h.wrote
    BY <1>1
  <2>2. PICK t \in Seq(Nat) : t = c.toHost
    BY <1>1
  <2>3. s \o t \in Seq(Nat) /\ Len(s \o t) = Len(s) + Len(t)
    BY ConcatProperties
  <2>4. Len(s \o t) \in Nat
    BY <2>3
  <2> QED
    BY <1>2, <2>1, <2>2, <2>3, <2>4
<1>4. /\ Kept(c, h) \in Nat /\ Len(Bytes(c, h)) <= Kept(c, h) /\ (~c.guestFin => Kept(c, h) = Len(Bytes(c, h)))
      /\ (c.guestFin => Kept(c, h) = Len(Bytes(c, h)) + 1)
  <2>1. PICK n \in Nat : n = Len(Bytes(c, h))
    BY <1>3
  <2>2. Kept(c, h) = IF c.guestFin THEN n + 1 ELSE n
    BY <2>1 DEF Kept, WithEnd
  <2>3. Kept(c, h) \in Nat /\ n <= Kept(c, h) /\ (~c.guestFin => Kept(c, h) = n) /\ (c.guestFin => Kept(c, h) = n + 1)
    BY <2>2, <1>1
  <2> QED
    BY <2>1, <2>3
<1>5. Sent(c, h) \in Nat /\ h.sent <= Sent(c, h) /\ (~c.finSent => Sent(c, h) = h.sent) /\ (c.finSent => Sent(c, h) = h.sent + 1)
  BY <1>1 DEF Sent, WithEnd
<1>6. Heard(c, h) \in Int /\ Heard(c, h) <= Sent(c, h) /\ Sent(c, h) <= Heard(c, h) + Window
  BY <1>1, <1>5, NetParts DEF Heard
<1> QED
  BY <1>2, <1>3, <1>4, <1>5, <1>6

(* The number the guest asks for next is that of the position it is at.    *)
LEMMA AckNum ==
  ASSUME NEW g, GuestOK(g)
  PROVE  Ack(g) = Num(Iss, Got(g)) /\ Num(Iss, Got(g)) \in Numbers
<1>1. Len(g.got) \in Nat /\ g.finGot \in BOOLEAN /\ Got(g) \in Nat
  BY GuestParts
<1>2. Num(Iss, Got(g)) \in Numbers
  BY <1>1, NumIn, NetParts
<1>3. PICK n \in Nat : n = Len(g.got)
  BY <1>1
<1>4. Iss + 1 + n + 1 = Iss + 1 + (n + 1) /\ Iss + 1 + n + 0 = Iss + 1 + n
  BY NetParts
<1>5. CASE g.finGot
  <2>1. Got(g) = n + 1 /\ Ack(g) = (Iss + 1 + n + 1) % Seqs
    BY <1>3, <1>5 DEF Got, WithEnd, Ack
  <2> QED
    BY <1>2, <1>4, <2>1 DEF Num
<1>6. CASE ~g.finGot
  <2>1. Got(g) = n /\ Ack(g) = (Iss + 1 + n + 0) % Seqs
    BY <1>3, <1>6 DEF Got, WithEnd, Ack
  <2> QED
    BY <1>2, <1>4, <2>1 DEF Num
<1> QED
  BY <1>5, <1>6

(* The number heard last is that of its position.                          *)
LEMMA UnaNum ==
  ASSUME NEW c, NEW h, ConnOK(c), HostOK(h), c # NoConn, c.nxt = Num(Iss, Sent(c, h))
  PROVE  c.una = Num(Iss, Heard(c, h))
<1> DEFINE a == Sent(c, h)
           k == c.nxt - c.una
<1>1. c.nxt \in Int /\ c.una \in Int /\ c.una % Seqs = c.una /\ a \in Int /\ k \in Int /\ k % Seqs \in Int
  <2>1. c.nxt \in Numbers /\ c.una \in Numbers
    BY ConnParts
  <2>2. c.nxt \in Int /\ c.una \in Int /\ c.una % Seqs = c.una
    BY <2>1, ModSmall
  <2>3. k \in Int
    BY <2>2
  <2>4. k % Seqs \in Int
    BY <2>3, ModRange DEF Numbers
  <2>5. Sent(c, h) \in Nat
    BY FlowParts
  <2> QED
    BY <2>2, <2>3, <2>4, <2>5
<1>2. Heard(c, h) = a + (-(k % Seqs)) /\ -(k % Seqs) \in Int
  BY <1>1 DEF Heard, InFlight
<1>3. Num(Iss, Heard(c, h)) = (c.nxt + (-(k % Seqs))) % Seqs
  BY <1>1, <1>2, NumAdd, NetParts
<1>4. c.nxt + (-(k % Seqs)) = c.nxt - (k % Seqs) /\ c.nxt - k = c.una
  BY <1>1
<1>5. (c.nxt - (k % Seqs)) % Seqs = (c.nxt - k) % Seqs
  BY <1>1, ModSum
<1> QED
  BY <1>1, <1>3, <1>4, <1>5

(* The first n bytes of a stream, and those after them.                    *)
LEMMA UpToParts ==
  ASSUME NEW n \in Nat
  PROVE  /\ UpTo(n) \in Seq(Nat) /\ Len(UpTo(n)) = n /\ \A i \in 1..n : UpTo(n)[i] = i
  BY DEF UpTo

LEMMA UpToIs ==
  ASSUME NEW s \in Seq(Nat), \A i \in 1..Len(s) : s[i] = i
  PROVE  s = UpTo(Len(s))
<1>1. Len(s) \in Nat
  OBVIOUS
<1>2. UpTo(Len(s)) \in Seq(Nat) /\ Len(UpTo(Len(s))) = Len(s) /\ \A i \in 1..Len(s) : UpTo(Len(s))[i] = i
  BY <1>1, UpToParts
<1> QED
  BY <1>2, SeqEqual

LEMMA UpToGrows ==
  ASSUME NEW s \in Seq(Nat), NEW t \in Seq(Nat), s = UpTo(Len(s)), \A i \in 1..Len(t) : t[i] = Len(s) + i
  PROVE  s \o t \in Seq(Nat) /\ s \o t = UpTo(Len(s \o t)) /\ Len(s \o t) = Len(s) + Len(t)
<1>1. Len(s) \in Nat /\ Len(t) \in Nat
  OBVIOUS
<1>2. \A i \in 1..Len(s) : s[i] = i
  BY <1>1, UpToParts
<1>3. /\ s \o t \in Seq(Nat) /\ Len(s \o t) = Len(s) + Len(t)
      /\ \A i \in 1..(Len(s) + Len(t)) : (s \o t)[i] = IF i <= Len(s) THEN s[i] ELSE t[i - Len(s)]
  BY ConcatProperties
<1>4. ASSUME NEW i \in 1..(Len(s) + Len(t))
      PROVE  (s \o t)[i] = i
  <2>1. CASE i <= Len(s)
    BY <1>1, <1>2, <1>3, <2>1
  <2>2. CASE ~(i <= Len(s))
    <3>1. i - Len(s) \in 1..Len(t) /\ Len(s) + (i - Len(s)) = i
      BY <1>1, <2>2
    <3> QED
      BY <1>3, <2>2, <3>1
  <2> QED
    BY <2>1, <2>2
<1> QED
  BY <1>3, <1>4, UpToIs

LEMMA UpToPrefix ==
  ASSUME NEW s \in Seq(Nat), NEW t \in Seq(Nat), s \o t = UpTo(Len(s \o t))
  PROVE  s = UpTo(Len(s))
<1>1. /\ Len(s) \in Nat /\ Len(t) \in Nat /\ Len(s \o t) = Len(s) + Len(t)
      /\ \A i \in 1..(Len(s) + Len(t)) : (s \o t)[i] = IF i <= Len(s) THEN s[i] ELSE t[i - Len(s)]
  BY ConcatProperties
<1>2. PICK n \in Nat : n = Len(s \o t)
  BY <1>1
<1>3. \A i \in 1..n : UpTo(n)[i] = i
  BY UpToParts
<1>4. \A i \in 1..n : (s \o t)[i] = i
  BY <1>2, <1>3
<1>5. \A i \in 1..Len(s) : i \in 1..n /\ (s \o t)[i] = s[i]
  BY <1>1, <1>2
<1>6. \A i \in 1..Len(s) : s[i] = i
  BY <1>4, <1>5
<1> QED
  BY <1>6, UpToIs

(* What is on its way lies within a turn of its receiver.                  *)
LEMMA WithinATurn ==
  ASSUME NEW at \in Int, NEW len \in Nat, NEW kept \in Int, NEW said \in Int, NEW una \in Int, NEW to \in Int,
         at + len <= to, to <= una + Window + 1, una <= kept, kept <= said, said <= una + Window + 1,
         said <= at \/ una <= at
  PROVE  kept - Window - 1 <= at /\ at < kept - Window - 1 + Seqs
  BY SeqsPositive

(* Queues that grow at the end and shrink at the beginning.                *)
LEMMA AppendParts ==
  ASSUME NEW q \in Seq(Frame), NEW f \in Frame
  PROVE  /\ Append(q, f) \in Seq(Frame) /\ Len(q) \in Nat /\ Len(Append(q, f)) = Len(q) + 1
         /\ \A i \in 1..Len(Append(q, f)) : (i \in 1..Len(q) /\ Append(q, f)[i] = q[i]) \/ (i = Len(q) + 1 /\ Append(q, f)[i] = f)
         /\ \A i \in 1..Len(q) : i \in 1..Len(Append(q, f)) /\ Append(q, f)[i] = q[i]
  BY AppendProperties

LEMMA AppendHas ==
  ASSUME NEW flag, NEW q \in Seq(Frame), NEW f \in Frame
  PROVE  /\ Has(Append(q, f), flag) <=> Has(q, flag) \/ flag \in f.flags
         /\ NonePlain(Append(q, f)) <=> NonePlain(q) /\ ~Plain(f)
<1> DEFINE r == Append(q, f)
<1>1. /\ Len(q) \in Nat /\ Len(r) = Len(q) + 1
      /\ \A i \in 1..Len(r) : (i \in 1..Len(q) /\ r[i] = q[i]) \/ (i = Len(q) + 1 /\ r[i] = f)
      /\ \A i \in 1..Len(q) : i \in 1..Len(r) /\ r[i] = q[i]
  BY AppendParts
<1>2. Len(r) \in 1..Len(r) /\ r[Len(r)] = f
  BY AppendProperties
<1> HIDE DEF r
<1>3. Has(r, flag) <=> Has(q, flag) \/ flag \in f.flags
  BY <1>1, <1>2 DEF Has
<1>4. NonePlain(r) <=> NonePlain(q) /\ ~Plain(f)
  BY <1>1, <1>2 DEF NonePlain
<1> QED
  BY <1>3, <1>4 DEF r

LEMMA SuffixHas ==
  ASSUME NEW flag, NEW q \in Seq(Frame), NEW q2 \in Seq(Frame), Suffix(q2, q)
  PROVE  (Has(q2, flag) => Has(q, flag)) /\ (NonePlain(q) => NonePlain(q2))
<1>1. ASSUME NEW i \in 1..Len(q2)
      PROVE  \E j \in 1..Len(q) : q2[i] = q[j]
  BY SuffixIndex
<1> QED
  BY <1>1 DEF Has, NonePlain

-------------------------------------------------------------------------------
(* Each change of the network or its ends keeps the invariant.  First, of  *)
(* the queues alone.                                                       *)

LEMMA LiveParts ==
  ASSUME NEW c, Live(c)
  PROVE  c # NoConn /\ c.state # "Connecting"
  BY NoConnParts DEF Live

LEMMA Limits ==
  ASSUME NEW c, NEW g, NEW h, ConnOK(c), GuestOK(g), HostOK(h)
  PROVE  /\ DataTo(c, g, h) \in Int /\ AcksTo(c, g, h) \in Int
         /\ Live(c) => DataFrom(c, g, h) \in Int /\ AcksFrom(c, g, h) \in Int /\ Kept(c, h) - Window - 1 \in Int
<1>1. Got(g) \in Nat /\ Said(g) \in Nat /\ Window \in Nat
  BY GuestParts, NetParts
<1>2. Live(c) => Kept(c, h) \in Nat /\ Sent(c, h) \in Nat
  BY LiveParts, FlowParts
<1> QED
  BY <1>1, <1>2 DEF DataTo, AcksTo, DataFrom, AcksFrom

LEMMA CoreParts ==
  ASSUME NEW c, NEW g, NEW h, NEW q, NEW d, Core(c, q, d, g, h)
  PROVE  /\ q \in Seq(Frame) /\ d \in Seq(Frame) /\ Len(q) \in Nat /\ Len(d) \in Nat
         /\ ConnOK(c) /\ GuestOK(g) /\ HostOK(h) /\ Stream(c, h) /\ Link(c, g, h)
         /\ Windows(c, q, g, h) /\ Syns(q, g) /\ SynAcks(d, g) /\ ForGuest(d)
<1>1. q \in Seq(Frame) /\ d \in Seq(Frame)
  BY DEF Core
<1> QED
  BY <1>1 DEF Core

LEMMA LiveNumbers ==
  ASSUME NEW c, NEW g, NEW h, NEW q, NEW d, Core(c, q, d, g, h), Live(c)
  PROVE  /\ c # NoConn /\ Kept(c, h) \in Nat /\ Sent(c, h) \in Nat /\ Heard(c, h) \in Int
         /\ Heard(c, h) <= Sent(c, h) /\ Sent(c, h) <= Heard(c, h) + Window
         /\ c.nxt = Num(Iss, Sent(c, h)) /\ c.rcv = Num(Isn, Kept(c, h))
         /\ Kept(c, h) - Window - 1 \in Int /\ DataFrom(c, g, h) \in Int /\ AcksFrom(c, g, h) \in Int
         /\ FromGuest(q, Kept(c, h), DataFrom(c, g, h), Heard(c, h), AcksFrom(c, g, h))
<1>1. ConnOK(c) /\ GuestOK(g) /\ HostOK(h) /\ Link(c, g, h) /\ c # NoConn
  BY CoreParts, LiveParts
<1>2. /\ Kept(c, h) \in Nat /\ Sent(c, h) \in Nat /\ Heard(c, h) \in Int
      /\ Heard(c, h) <= Sent(c, h) /\ Sent(c, h) <= Heard(c, h) + Window
  BY <1>1, FlowParts
<1>3. Kept(c, h) - Window - 1 \in Int /\ DataFrom(c, g, h) \in Int /\ AcksFrom(c, g, h) \in Int
  BY <1>1, Limits
<1>4. c.nxt = Num(Iss, Sent(c, h)) /\ c.rcv = Num(Isn, Kept(c, h))
  BY <1>1 DEF Link
<1>5. FromGuest(q, Kept(c, h), DataFrom(c, g, h), Heard(c, h), AcksFrom(c, g, h))
  BY DEF Core
<1> QED
  BY <1>1, <1>2, <1>3, <1>4, <1>5

LEMMA TalkingNumbers ==
  ASSUME NEW c, NEW g, NEW h, NEW q, NEW d, Core(c, q, d, g, h), Live(c), Talking(g)
  PROVE  /\ Heard(c, h) <= Got(g) /\ Got(g) <= Sent(c, h) /\ g.una <= Kept(c, h) /\ Kept(c, h) <= Said(g)
         /\ Got(g) \in Int /\ Said(g) \in Int /\ g.una \in Int
<1>1. Link(c, g, h) /\ GuestOK(g)
  BY CoreParts
<1>2. Got(g) \in Int /\ Said(g) \in Int /\ g.una \in Int
  BY <1>1, GuestParts
<1> QED
  BY <1>1, <1>2 DEF Link

(* Frames for the guest are lost, or taken and not heeded.                 *)
LEMMA DroppedKeeps ==
  ASSUME NEW c, NEW g, NEW h, NEW q, NEW d, NEW d2 \in Seq(Frame), Core(c, q, d, g, h), Suffix(d2, d)
  PROVE  Core(c, q, d2, g, h)
<1>1. d \in Seq(Frame) /\ Len(d) \in Nat /\ Len(d2) \in Nat
  BY DEF Core
<1> DEFINE k == Len(d) - Len(d2)
<1>2. ASSUME NEW i \in 1..Len(d2)
      PROVE  d2[i] = d[i + k] /\ i + k \in 1..Len(d)
  BY <1>1, SuffixIndex
<1>3. k \in Int
  BY <1>1
<1> HIDE DEF k
<1>4. (Has(d2, "syn") => Has(d, "syn")) /\ (NonePlain(d) => NonePlain(d2))
  BY <1>1, SuffixHas
<1>5. ForGuest(d2)
  BY <1>2 DEF Core, ForGuest
<1>6. ToGuest(d2, g, DataTo(c, g, h), AcksTo(c, g, h))
  <2>1. CASE g.state = "open"
    <3>1. Ordered(d, Iss, Got(g), DataTo(c, g, h), Isn, g.una, AcksTo(c, g, h), HostBytes) /\ ~Has(d, "syn")
      BY <2>1 DEF Core, ToGuest
    <3>2. Got(g) \in Int /\ g.una \in Int /\ DataTo(c, g, h) \in Int /\ AcksTo(c, g, h) \in Int
      BY GuestParts, Limits DEF Core
    <3>3. Ordered(d2, Iss, Got(g), DataTo(c, g, h), Isn, g.una, AcksTo(c, g, h), HostBytes)
      BY <1>1, <3>1, <3>2, NetParts, SuffixOrdered
    <3> QED
      BY <1>4, <3>1, <3>3 DEF ToGuest
  <2> QED
    BY <2>1 DEF ToGuest
<1>7. SynAcks(d2, g)
  <2> SUFFICES ASSUME g.state # "open"
               PROVE  /\ \A i, j \in 1..Len(d2) : "syn" \in d2[i].flags /\ "syn" \in d2[j].flags => i = j
                      /\ \A i \in 1..Len(d2) : "syn" \in d2[i].flags =>
                           /\ d2[i].data = <<>> /\ "fin" \notin d2[i].flags
                           /\ d2[i].seq = Num(Iss, -1) /\ d2[i].ack = Num(Isn, 0)
    BY DEF SynAcks
  <2>1. ASSUME NEW i \in 1..Len(d2), NEW j \in 1..Len(d2), "syn" \in d2[i].flags, "syn" \in d2[j].flags
        PROVE  i = j
    <3>1. i + k = j + k
      BY <1>2, <2>1 DEF Core, SynAcks
    <3> QED
      BY <1>3, <3>1
  <2> QED
    BY <2>1, <1>2 DEF Core, SynAcks
<1>8. Closed(c, q, d2, g)
  <2>1. d = <<>> => d2 = <<>>
    BY <1>1 DEF Suffix
  <2> QED
    BY <2>1 DEF Core, Closed
<1>9. Opening(c, q, g) => Early(c, d2, g, h)
  BY <1>4 DEF Core, Early
<1>10. Fresh(c, q, d2, g, h)
  BY <1>4 DEF Core, Fresh
<1> QED
  BY <1>5, <1>6, <1>7, <1>8, <1>9, <1>10 DEF Core

(* A frame of the guest is taken.                                          *)
LEMMA TakenKeeps ==
  ASSUME NEW c, NEW g, NEW h, NEW q, NEW d, Core(c, q, d, g, h), q # <<>>
  PROVE  Core(c, Tail(q), d, g, h)
<1> DEFINE q2 == Tail(q)
<1>1. /\ q \in Seq(Frame) /\ q2 \in Seq(Frame) /\ Suffix(q2, q) /\ Len(q2) = Len(q) - 1 /\ Len(q) \in Nat
      /\ \A i \in 1..Len(q2) : q2[i] = q[i + 1] /\ i + 1 \in 1..Len(q)
  BY TailSuffix DEF Core
<1> HIDE DEF q2
<1>2. (Has(q2, "syn") => Has(q, "syn")) /\ (NonePlain(q) => NonePlain(q2))
  BY <1>1, SuffixHas
<1>3. Live(c) => FromGuest(q2, Kept(c, h), DataFrom(c, g, h), Heard(c, h), AcksFrom(c, g, h))
  <2> SUFFICES ASSUME Live(c)
               PROVE  FromGuest(q2, Kept(c, h), DataFrom(c, g, h), Heard(c, h), AcksFrom(c, g, h))
    OBVIOUS
  <2>1. Kept(c, h) - Window - 1 \in Int /\ DataFrom(c, g, h) \in Int /\ Heard(c, h) \in Int /\ AcksFrom(c, g, h) \in Int
    BY LiveNumbers
  <2>2. FromGuest(q, Kept(c, h), DataFrom(c, g, h), Heard(c, h), AcksFrom(c, g, h))
    BY DEF Core
  <2> QED
    BY <1>1, <2>1, <2>2, NetParts, SuffixOrdered DEF FromGuest
<1>4. Windows(c, q2, g, h)
  BY <1>1 DEF Core, Windows, Roomy
<1>5. Syns(q2, g)
  <2>1. Syns(q, g)
    BY DEF Core
  <2>2. ASSUME NEW i \in 1..Len(q2), "syn" \in q2[i].flags
        PROVE  /\ q2[i].flags = {"syn"} /\ q2[i].seq = Isn /\ q2[i].wnd <= Room
               /\ \A j \in 1..Len(q2) : j < i => q2[j].flags = {"syn"}
    <3>1. i + 1 \in 1..Len(q) /\ q2[i] = q[i + 1]
      BY <1>1
    <3>2. /\ q[i + 1].flags = {"syn"} /\ q[i + 1].seq = Isn /\ q[i + 1].wnd <= Room
          /\ \A j \in 1..Len(q) : j < i + 1 => q[j].flags = {"syn"}
      BY <2>1, <2>2, <3>1 DEF Syns
    <3>3. ASSUME NEW j \in 1..Len(q2), j < i
          PROVE  q2[j].flags = {"syn"}
      <4>1. j + 1 \in 1..Len(q) /\ q2[j] = q[j + 1] /\ j + 1 < i + 1
        BY <1>1, <3>3
      <4> QED
        BY <3>2, <4>1
    <3> QED
      BY <3>1, <3>2, <3>3
  <2>3. \A i \in 1..Len(q2) : "rst" \in q2[i].flags => g.state = "aborted"
    BY <1>1, <2>1 DEF Syns
  <2>4. g.state \in {"closed", "synSent"} => \A i \in 1..Len(q2) : q2[i].flags = {"syn"}
    BY <1>1, <2>1 DEF Syns
  <2> QED
    BY <2>2, <2>3, <2>4 DEF Syns
<1>6. Closed(c, q2, d, g)
  BY DEF Core, Closed
<1>7. Opening(c, q2, g) => Early(c, d, g, h)
  BY <1>2 DEF Core, Opening
<1>8. Fresh(c, q2, d, g, h)
  BY <1>2 DEF Core, Fresh
<1>9. Dead(c, q2, g, h)
  BY <1>2 DEF Core, Dead
<1> QED
  BY <1>1, <1>3, <1>4, <1>5, <1>6, <1>7, <1>8, <1>9 DEF Core, q2

-------------------------------------------------------------------------------
(* The guest's changes.                                                    *)

(* g2 is g having sent more.                                               *)
SaysMore(g, g2) ==
  /\ g.state = "open" /\ g2.state = "open" /\ GuestOK(g2)
  /\ g2.una = g.una /\ g2.wnd = g.wnd /\ g2.got = g.got /\ g2.read = g.read /\ g2.finGot = g.finGot
  /\ Said(g) <= Said(g2)

LEMMA SaysMoreKeeps ==
  ASSUME NEW c, NEW g, NEW g2, NEW h, NEW q, NEW d, Core(c, q, d, g, h), SaysMore(g, g2)
  PROVE  Core(c, q, d, g2, h)
<1>1. /\ g.state = "open" /\ g2.state = "open" /\ GuestOK(g2) /\ Got(g2) = Got(g)
      /\ g2.una = g.una /\ g2.wnd = g.wnd /\ g2.got = g.got /\ g2.read = g.read /\ g2.finGot = g.finGot
      /\ Said(g) <= Said(g2) /\ Said(g) \in Int /\ Said(g2) \in Int /\ Talking(g) /\ Talking(g2)
      /\ Got(g) \in Int /\ g.una \in Int
  BY GuestParts DEF Core, SaysMore, Got, Talking
<1>2. Link(c, g2, h)
  <2> SUFFICES ASSUME Live(c)
               PROVE  Link(c, g2, h)
    BY DEF Link
  <2>1. Kept(c, h) \in Nat /\ Kept(c, h) <= Said(g)
    BY <1>1, LiveNumbers, TalkingNumbers
  <2>2. Kept(c, h) <= Said(g2)
    BY <1>1, <2>1
  <2> QED
    BY <1>1, <2>2 DEF Core, Link
<1>3. ToGuest(d, g2, DataTo(c, g2, h), AcksTo(c, g2, h))
  <2>1. DataTo(c, g2, h) = DataTo(c, g, h) /\ AcksTo(c, g, h) <= AcksTo(c, g2, h)
    <3>1. Live(c) => Kept(c, h) \in Nat
      BY LiveNumbers
    <3> QED
      BY <1>1, <3>1 DEF DataTo, AcksTo
  <2>2. DataTo(c, g, h) \in Int /\ AcksTo(c, g, h) \in Int /\ AcksTo(c, g2, h) \in Int
    BY <1>1, Limits DEF Core
  <2>3. d \in Seq(Frame) /\ ~Has(d, "syn") /\ Ordered(d, Iss, Got(g), DataTo(c, g, h), Isn, g.una, AcksTo(c, g, h), HostBytes)
    BY <1>1 DEF Core, ToGuest
  <2>4. DataTo(c, g, h) <= DataTo(c, g, h)
    BY <2>2
  <2>5. Ordered(d, Iss, Got(g), DataTo(c, g, h), Isn, g.una, AcksTo(c, g2, h), HostBytes)
    BY <1>1, <2>1, <2>2, <2>3, <2>4, NetParts, OrderedWithin
  <2> QED
    BY <1>1, <2>1, <2>3, <2>5 DEF ToGuest
<1>4. Live(c) => FromGuest(q, Kept(c, h), DataFrom(c, g2, h), Heard(c, h), AcksFrom(c, g2, h))
  <2> SUFFICES ASSUME Live(c)
               PROVE  FromGuest(q, Kept(c, h), DataFrom(c, g2, h), Heard(c, h), AcksFrom(c, g2, h))
    OBVIOUS
  <2>1. Kept(c, h) - Window - 1 \in Int /\ DataFrom(c, g, h) \in Int /\ Heard(c, h) \in Int /\ AcksFrom(c, g, h) \in Int
    BY LiveNumbers
  <2>2. q \in Seq(Frame) /\ FromGuest(q, Kept(c, h), DataFrom(c, g, h), Heard(c, h), AcksFrom(c, g, h))
    BY DEF Core
  <2>3. /\ DataFrom(c, g2, h) \in Int /\ DataFrom(c, g, h) <= DataFrom(c, g2, h)
        /\ AcksFrom(c, g2, h) = AcksFrom(c, g, h) /\ AcksFrom(c, g, h) <= AcksFrom(c, g, h)
    BY <1>1, <2>1 DEF DataFrom, AcksFrom
  <2> QED
    BY <2>1, <2>2, <2>3, NetParts, OrderedWithin DEF FromGuest
<1>5. Windows(c, q, g2, h)
  BY <1>1 DEF Core, Windows, Roomy
<1>6. Syns(q, g2)
  BY <1>1 DEF Core, Syns
<1>7. SynAcks(d, g2) /\ Closed(c, q, d, g2)
  BY <1>1 DEF SynAcks, Closed
<1>8. Opening(c, q, g2) => Early(c, d, g2, h)
  BY <1>1 DEF Core, Opening, Early
<1>9. Fresh(c, q, d, g2, h) /\ Dead(c, q, g2, h)
  BY <1>1 DEF Core, Fresh, Dead
<1> QED
  BY <1>1, <1>2, <1>3, <1>4, <1>5, <1>6, <1>7, <1>8, <1>9 DEF Core

(* A frame of the guest's stream, which stands after all it has said, or   *)
(* is all there is.                                                        *)
LEMMA SaysKeeps ==
  ASSUME NEW c, NEW g, NEW g2, NEW h, NEW q, NEW d, NEW f \in Frame, NEW at \in Int,
         Core(c, q, d, g, h), SaysMore(g, g2),
         Plain(f), f.seq = Num(Isn, at), f.ack = Ack(g), f.wnd = Advertised(g),
         at + Length(f) <= Said(g2), f.data = [j \in 1..Len(f.data) |-> at + j],
         "fin" \in f.flags => at + Len(f.data) = GuestBytes,
         Said(g) <= at \/ (q = <<>> /\ g.una <= at)
  PROVE  Core(c, Append(q, f), d, g2, h)
<1> DEFINE r == Append(q, f)
<1>1. Core(c, q, d, g2, h)
  BY SaysMoreKeeps
<1>2. /\ g.state = "open" /\ g2.state = "open" /\ GuestOK(g) /\ GuestOK(g2) /\ Got(g2) = Got(g)
      /\ g2.una = g.una /\ g2.read = g.read /\ g2.got = g.got /\ g2.finGot = g.finGot
      /\ Said(g) <= Said(g2) /\ Said(g) \in Int /\ Said(g2) \in Int /\ Talking(g) /\ Talking(g2)
      /\ Got(g) \in Int /\ g.una \in Int
  BY GuestParts DEF Core, SaysMore, Got, Talking
<1>3. /\ q \in Seq(Frame) /\ r \in Seq(Frame) /\ Len(q) \in Nat /\ Len(r) = Len(q) + 1
      /\ \A i \in 1..Len(r) : (i \in 1..Len(q) /\ r[i] = q[i]) \/ (i = Len(q) + 1 /\ r[i] = f)
  BY AppendParts DEF Core
<1>4. (Has(r, "syn") <=> Has(q, "syn")) /\ "syn" \notin f.flags /\ "rst" \notin f.flags
  BY <1>3, AppendHas DEF Plain
<1> HIDE DEF r
<1>5. ASSUME Live(c)
      PROVE  /\ Pos(f.seq, Isn, Kept(c, h) - Window - 1) = at
             /\ Pos(f.ack, Iss, Heard(c, h)) = Got(g)
  <2>1. /\ Kept(c, h) \in Int /\ Heard(c, h) \in Int /\ Sent(c, h) \in Int
        /\ Sent(c, h) <= Heard(c, h) + Window
    BY <1>5, LiveNumbers
  <2>2. /\ Heard(c, h) <= Got(g) /\ Got(g) <= Sent(c, h)
        /\ g.una <= Kept(c, h) /\ Kept(c, h) <= Said(g)
    BY <1>2, <1>5, TalkingNumbers
  <2>3. Said(g) <= g.una + Window + 1 /\ Said(g2) <= g.una + Window + 1
    BY <1>2, GuestParts
  <2>4. PICK n \in Nat : n = Length(f)
    BY FrameParts
  <2>5. Kept(c, h) - Window - 1 <= at /\ at < Kept(c, h) - Window - 1 + Seqs
    <3>1. at + n <= Said(g2) /\ (Said(g) <= at \/ g.una <= at)
      BY <2>4
    <3> QED
      BY <1>2, <2>1, <2>2, <2>3, <3>1, WithinATurn
  <2>6. Heard(c, h) <= Got(g) /\ Got(g) < Heard(c, h) + Seqs
    BY <1>2, <2>1, <2>2, SeqsPositive
  <2>7. Pos(f.seq, Isn, Kept(c, h) - Window - 1) = at
    <3>1. Kept(c, h) - Window - 1 \in Int
      BY <2>1, NetParts
    <3> QED
      BY <2>5, <3>1, PosNum, NetParts
  <2>8. f.ack = Num(Iss, Got(g))
    BY <1>2, AckNum
  <2> QED
    BY <1>2, <2>1, <2>6, <2>7, <2>8, PosNum, NetParts
<1>6. Live(c) => FromGuest(r, Kept(c, h), DataFrom(c, g2, h), Heard(c, h), AcksFrom(c, g2, h))
  <2> SUFFICES ASSUME Live(c)
               PROVE  FromGuest(r, Kept(c, h), DataFrom(c, g2, h), Heard(c, h), AcksFrom(c, g2, h))
    OBVIOUS
  <2> DEFINE x == Kept(c, h) - Window - 1
             y == Heard(c, h)
  <2>1. x \in Int /\ y \in Int
    BY LiveNumbers
  <2>2. DataFrom(c, g, h) = Said(g) /\ DataFrom(c, g2, h) = Said(g2) /\ AcksFrom(c, g, h) = Got(g) /\ AcksFrom(c, g2, h) = Got(g)
    BY <1>2 DEF DataFrom, AcksFrom
  <2>3. Pos(f.seq, Isn, x) = at /\ Pos(f.ack, Iss, y) = Got(g)
    BY <1>5
  <2>4. Ordered(q, Isn, x, Said(g), Iss, y, Got(g), GuestBytes)
    BY <2>2, LiveNumbers DEF FromGuest
  <2> HIDE DEF x, y
  <2>5. PICK lim \in Int : lim <= Said(g2) /\ lim <= at /\ Ordered(q, Isn, x, lim, Iss, y, Got(g), GuestBytes)
    <3>1. CASE Said(g) <= at
      BY <1>2, <2>4, <3>1
    <3>2. CASE q = <<>> /\ g.una <= at
      <4>1. Length(f) \in Nat
        BY FrameParts
      <4>2. at <= Said(g2) /\ at <= at
        BY <1>2, <4>1
      <4>3. \A i \in 1..Len(q) : ~Plain(q[i])
        BY <3>2
      <4>4. Ordered(q, Isn, x, at, Iss, y, Got(g), GuestBytes)
        BY <1>3, <4>3, NonePlainOrdered
      <4> QED
        BY <4>2, <4>4
    <3> QED
      BY <3>1, <3>2
  <2>6. InPlace(f, Isn, x, Said(g2), Iss, y, Got(g), GuestBytes)
    BY <1>2, <2>3 DEF InPlace
  <2>7. Beyond(f, Isn, x, lim, Iss, y, Got(g))
    BY <1>2, <2>3, <2>5 DEF Beyond
  <2>8. Got(g) <= Got(g)
    BY <1>2
  <2>9. Ordered(r, Isn, x, Said(g2), Iss, y, Got(g), GuestBytes)
    BY <1>2, <1>3, <2>1, <2>5, <2>6, <2>7, <2>8, NetParts, AppendOrdered DEF r
  <2> QED
    BY <2>2, <2>9 DEF FromGuest, x, y
<1>7. Windows(c, r, g2, h)
  <2>1. Windows(c, q, g2, h)
    BY <1>1 DEF Core
  <2>2. ASSUME Live(c), ~c.finSent
        PROVE  Roomy(r, Heard(c, h), g2)
    <3>1. /\ Sent(c, h) = h.sent /\ h.sent <= HostBytes /\ Got(g) <= Sent(c, h) /\ h.sent \in Int
          /\ Got(g) \in Int /\ HostBytes \in Int
      <4>1. ConnOK(c) /\ HostOK(h) /\ c # NoConn
        BY <2>2, CoreParts, LiveParts
      <4>2. h.sent <= HostBytes /\ h.sent \in Int
        BY <4>1, HostParts
      <4>3. Sent(c, h) = h.sent
        BY <2>2 DEF Sent, WithEnd
      <4>4. Got(g) <= Sent(c, h)
        BY <1>2, <2>2, TalkingNumbers
      <4> QED
        BY <1>2, <4>2, <4>3, <4>4, NetParts
    <3>2. Got(g) = Len(g.got) /\ Advertised(g) + Len(g.got) = g.read + Room /\ Advertised(g) \in Nat /\ g.finGot \in BOOLEAN
      <4>1. /\ g.finGot => Got(g) = HostBytes + 1
            /\ ~g.finGot => Got(g) = Len(g.got)
            /\ Advertised(g) + Len(g.got) = g.read + Room
            /\ Advertised(g) \in Nat /\ g.finGot \in BOOLEAN
        BY <1>2, GuestParts
      <4>2. Got(g) # HostBytes + 1
        BY ONLY <3>1
      <4> QED
        BY ONLY <4>1, <4>2
    <3>3. Got(g) + f.wnd <= g.read + Room
      BY <1>2, <3>2, GuestParts, NetParts
    <3>4. Pos(f.ack, Iss, Heard(c, h)) + f.wnd <= g2.read + Room
      BY <1>2, <1>5, <2>2, <3>3
    <3>5. Roomy(q, Heard(c, h), g2)
      BY <2>1, <2>2 DEF Windows
    <3> QED
      BY <1>3, <3>4, <3>5 DEF Roomy
  <2> QED
    BY <2>1, <2>2 DEF Windows
<1>8. Syns(r, g2)
  <2>1. Syns(q, g2)
    BY <1>1 DEF Core
  <2>2. ASSUME NEW i \in 1..Len(r), "syn" \in r[i].flags
        PROVE  /\ r[i].flags = {"syn"} /\ r[i].seq = Isn /\ r[i].wnd <= Room
               /\ \A j \in 1..Len(r) : j < i => r[j].flags = {"syn"}
    <3>1. i \in 1..Len(q) /\ r[i] = q[i]
      BY <1>3, <1>4, <2>2
    <3>2. \A j \in 1..Len(r) : j < i => j \in 1..Len(q) /\ r[j] = q[j]
      BY <1>3, <3>1
    <3> QED
      BY <2>1, <2>2, <3>1, <3>2 DEF Syns
  <2>3. \A i \in 1..Len(r) : "rst" \in r[i].flags => g2.state = "aborted"
    BY <1>3, <1>4, <2>1 DEF Syns
  <2> QED
    BY <1>2, <2>2, <2>3 DEF Syns
<1>9. Closed(c, r, d, g2) /\ SynAcks(d, g2)
  BY <1>2 DEF Closed, SynAcks
<1>10. Opening(c, r, g2) => Early(c, d, g2, h)
  BY <1>1, <1>4 DEF Core, Opening
<1>11. Fresh(c, r, d, g2, h) /\ Dead(c, r, g2, h)
  BY <1>1, <1>2, <1>4 DEF Core, Fresh, Dead
<1> QED
  BY <1>1, <1>3, <1>6, <1>7, <1>8, <1>9, <1>10, <1>11 DEF Core, r

(* The guest's program reads.                                              *)
LEMMA ReadKeeps ==
  ASSUME NEW c, NEW g, NEW h, NEW q, NEW d, Core(c, q, d, g, h), g.read < Len(g.got)
  PROVE  g.state = "open" /\ Core(c, q, d, [g EXCEPT !.read = @ + 1], h)
<1> DEFINE g2 == [g EXCEPT !.read = @ + 1]
<1>1. GuestOK(g) /\ g.read \in Nat /\ Len(g.got) \in Nat /\ g.read < Len(g.got) /\ g \in GuestEnd
  BY CoreParts, GuestParts DEF GuestOK
<1>2. g.state = "open"
  <2>1. ASSUME NEW s, NEW r, g = Idle(s, r), r \in Nat
        PROVE  FALSE
    <3>1. g.got = <<>> /\ g.read = r
      BY <2>1 DEF Idle
    <3>2. Len(g.got) = 0
      BY <3>1
    <3> QED
      BY <1>1, <2>1, <3>1, <3>2
  <2> QED
    BY <1>1, <2>1 DEF GuestOK, GuestEnd
<1>3. /\ g2 \in GuestEnd /\ g2.state = "open" /\ g2.una = g.una /\ g2.nxt = g.nxt /\ g2.wnd = g.wnd /\ g2.got = g.got
      /\ g2.read = g.read + 1 /\ g2.finSent = g.finSent /\ g2.finGot = g.finGot
  <2>1. g.read + 1 \in Nat
    BY <1>1
  <2>2. g2 \in GuestEnd
    BY <1>1, <2>1 DEF GuestEnd
  <2>3. /\ g2.state = g.state /\ g2.una = g.una /\ g2.nxt = g.nxt /\ g2.wnd = g.wnd /\ g2.got = g.got
        /\ g2.read = g.read + 1 /\ g2.finSent = g.finSent /\ g2.finGot = g.finGot
    BY <1>1 DEF GuestEnd
  <2> QED
    BY <1>2, <2>2, <2>3
<1> HIDE DEF g2
<1>4. Got(g2) = Got(g) /\ Said(g2) = Said(g) /\ Talking(g) /\ Talking(g2)
  BY <1>2, <1>3 DEF Got, Said, Talking
<1>5. GuestOK(g2)
  <2>1. PICK n \in Nat : n = Len(g.got)
    BY <1>1
  <2>2. n <= g2.read + Room /\ g2.read <= n
    <3>1. n <= g.read + Room
      BY <1>1, <2>1 DEF GuestOK
    <3> QED
      BY <1>1, <1>3, <2>1, <3>1, NetParts
  <2>3. g2.got = UpTo(Len(g2.got)) /\ (g2.finGot => Len(g2.got) = HostBytes)
    BY <1>1, <1>3 DEF GuestOK
  <2>4. /\ g2.una <= Said(g2) /\ g2.nxt <= g2.una + Window /\ g2.wnd <= Window
        /\ g2.nxt <= GuestBytes /\ (g2.finSent => g2.nxt = GuestBytes)
    BY <1>1, <1>3, <1>4 DEF GuestOK
  <2> QED
    BY <1>3, <2>1, <2>2, <2>3, <2>4 DEF GuestOK
<1>6. Link(c, g2, h)
  BY <1>3, <1>4, CoreParts DEF Link
<1>7. ToGuest(d, g2, DataTo(c, g2, h), AcksTo(c, g2, h))
  BY <1>2, <1>3, <1>4 DEF Core, ToGuest, DataTo, AcksTo
<1>8. Live(c) => FromGuest(q, Kept(c, h), DataFrom(c, g2, h), Heard(c, h), AcksFrom(c, g2, h))
  BY <1>4 DEF Core, DataFrom, AcksFrom
<1>9. Windows(c, q, g2, h)
  <2>1. Windows(c, q, g, h) /\ g2.read + Room = g.read + Room + 1 /\ g.read + Room \in Int /\ q \in Seq(Frame)
    BY <1>1, <1>3, CoreParts, NetParts
  <2>2. h.sent \in Int /\ h.sent <= g2.read + Room
    BY <2>1, CoreParts, HostParts DEF Windows
  <2>3. ASSUME Live(c), ~c.finSent
        PROVE  Heard(c, h) + c.guestWnd <= g2.read + Room /\ Roomy(q, Heard(c, h), g2)
    <3>1. Heard(c, h) \in Int /\ c.guestWnd \in Int
      BY <2>3, LiveNumbers, CoreParts, ConnParts
    <3>2. Heard(c, h) + c.guestWnd <= g.read + Room /\ Roomy(q, Heard(c, h), g)
      BY <2>1, <2>3 DEF Windows
    <3>3. \A i \in 1..Len(q) : Pos(q[i].ack, Iss, Heard(c, h)) \in Int /\ q[i].wnd \in Int
      <4> SUFFICES ASSUME NEW i \in 1..Len(q)
                   PROVE  Pos(q[i].ack, Iss, Heard(c, h)) \in Int /\ q[i].wnd \in Int
        OBVIOUS
      <4>1. q[i] \in Frame
        BY <2>1
      <4>2. q[i].ack \in Int /\ q[i].wnd \in Int
        BY <4>1, FrameParts
      <4> QED
        BY <3>1, <4>2, PosIn, NetParts
    <3> QED
      BY <2>1, <3>1, <3>2, <3>3 DEF Roomy
  <2> QED
    BY <2>2, <2>3 DEF Windows
<1>10. Syns(q, g2) /\ SynAcks(d, g2) /\ Closed(c, q, d, g2)
  BY <1>2, <1>3 DEF Core, Syns, SynAcks, Closed
<1>11. (Opening(c, q, g2) => Early(c, d, g2, h)) /\ Fresh(c, q, d, g2, h) /\ Dead(c, q, g2, h)
  BY <1>2, <1>3 DEF Core, Opening, Early, Fresh, Dead
<1> QED
  BY <1>2, <1>5, <1>6, <1>7, <1>8, <1>9, <1>10, <1>11 DEF Core, g2

LEMMA IdleParts ==
  ASSUME NEW s \in {"closed", "synSent", "reset", "aborted"}, NEW r \in Nat
  PROVE  /\ Idle(s, r) \in GuestEnd /\ Idle(s, r).state = s /\ Idle(s, r).una = 0 /\ Idle(s, r).nxt = 0
         /\ Idle(s, r).wnd = 0 /\ Idle(s, r).got = <<>> /\ Len(Idle(s, r).got) = 0 /\ Idle(s, r).read = r
         /\ ~Idle(s, r).finSent /\ ~Idle(s, r).finGot /\ Got(Idle(s, r)) = 0 /\ Said(Idle(s, r)) = 0
         /\ s \in {"reset", "aborted"} \/ r = 0 => GuestOK(Idle(s, r))
<1> DEFINE g == Idle(s, r)
<1>1. /\ g.state = s /\ g.una = 0 /\ g.nxt = 0 /\ g.wnd = 0 /\ g.got = <<>> /\ g.read = r
      /\ g.finSent = FALSE /\ g.finGot = FALSE
  BY DEF Idle
<1>2. g \in GuestEnd
  <2>1. <<>> \in Seq(Nat)
    OBVIOUS
  <2> QED
    BY <2>1 DEF Idle, GuestEnd
<1>3. g.got \in Seq(Nat) /\ Len(g.got) = 0
  BY <1>1
<1>4. g.got = UpTo(Len(g.got))
  BY <1>3, UpToIs
<1>5. g = Idle(g.state, g.read)
  BY <1>1
<1> HIDE DEF g
<1>6. Got(g) = 0 /\ Said(g) = 0
  BY <1>1, <1>3 DEF Got, Said, WithEnd
<1>7. (s \in {"reset", "aborted"} \/ r = 0) => GuestOK(g)
  BY <1>1, <1>2, <1>3, <1>4, <1>5, <1>6, NetParts DEF GuestOK
<1> QED
  BY <1>1, <1>2, <1>3, <1>6, <1>7 DEF g

(* The guest's end of the connection is gone: it was reset, or it gave up. *)
LEMMA GoneKeeps ==
  ASSUME NEW c, NEW g, NEW h, NEW q, NEW d, NEW s \in {"reset", "aborted"}, Core(c, q, d, g, h), Talking(g)
  PROVE  Core(c, q, d, Idle(s, g.read), h)
<1> DEFINE g2 == Idle(s, g.read)
<1>1. GuestOK(g) /\ g.read \in Nat /\ Got(g) \in Nat /\ Said(g) \in Nat
  BY CoreParts, GuestParts
<1>2. /\ GuestOK(g2) /\ g2.state = s /\ g2.una = 0 /\ g2.got = <<>> /\ g2.read = g.read /\ ~g2.finGot
      /\ Got(g2) = 0 /\ Said(g2) = 0
  BY <1>1, IdleParts
<1> HIDE DEF g2
<1>3. ~Talking(g2) /\ g2.state \notin {"open", "closed", "synSent"}
  BY <1>2 DEF Talking
<1>4. Link(c, g2, h)
  BY <1>3, CoreParts DEF Link
<1>5. ToGuest(d, g2, DataTo(c, g2, h), AcksTo(c, g2, h))
  BY <1>3 DEF ToGuest
<1>6. Live(c) => FromGuest(q, Kept(c, h), DataFrom(c, g2, h), Heard(c, h), AcksFrom(c, g2, h))
  <2> SUFFICES ASSUME Live(c)
               PROVE  FromGuest(q, Kept(c, h), DataFrom(c, g2, h), Heard(c, h), AcksFrom(c, g2, h))
    OBVIOUS
  <2>1. /\ Kept(c, h) - Window - 1 \in Int /\ Kept(c, h) \in Int /\ Heard(c, h) \in Int /\ Sent(c, h) \in Int
        /\ FromGuest(q, Kept(c, h), DataFrom(c, g, h), Heard(c, h), AcksFrom(c, g, h))
    BY LiveNumbers
  <2>2. Got(g) <= Sent(c, h) /\ g.una <= Kept(c, h) /\ g.una \in Int
    BY TalkingNumbers
  <2>3. Said(g) <= g.una + Window + 1
    BY <1>1, GuestParts
  <2>4. Said(g) <= Kept(c, h) + Window + 1 /\ Kept(c, h) + Window + 1 \in Int
    BY <1>1, <2>1, <2>2, <2>3, NetParts
  <2>5. /\ DataFrom(c, g, h) = Said(g) /\ DataFrom(c, g2, h) = Kept(c, h) + Window + 1
        /\ AcksFrom(c, g, h) = Got(g) /\ AcksFrom(c, g2, h) = Sent(c, h)
    BY <1>3 DEF DataFrom, AcksFrom
  <2>6. Ordered(q, Isn, Kept(c, h) - Window - 1, Said(g), Iss, Heard(c, h), Got(g), GuestBytes) /\ q \in Seq(Frame)
    BY <2>1, <2>5, CoreParts DEF FromGuest
  <2>7. Ordered(q, Isn, Kept(c, h) - Window - 1, Kept(c, h) + Window + 1, Iss, Heard(c, h), Sent(c, h), GuestBytes)
    BY <1>1, <2>1, <2>2, <2>4, <2>6, NetParts, OrderedWithin
  <2> QED
    BY <2>5, <2>7 DEF FromGuest
<1>7. Windows(c, q, g2, h)
  BY <1>2, CoreParts DEF Windows, Roomy
<1>8. Syns(q, g2)
  <2>1. g.state # "aborted"
    BY DEF Talking
  <2> QED
    BY <1>3, <2>1, CoreParts DEF Syns
<1>9. SynAcks(d, g2)
  <2>1. CASE g.state = "open"
    <3>1. ~Has(d, "syn")
      BY <2>1 DEF Core, ToGuest
    <3> QED
      BY <3>1 DEF Has, SynAcks
  <2>2. CASE g.state # "open"
    BY <2>2, CoreParts DEF SynAcks
  <2> QED
    BY <2>1, <2>2
<1>10. Closed(c, q, d, g2)
  BY <1>3 DEF Closed
<1>11. Opening(c, q, g2) => Early(c, d, g2, h)
  BY <1>2, <1>3 DEF Core, Opening, Early
<1>12. Fresh(c, q, d, g2, h) /\ Dead(c, q, g2, h)
  BY <1>3 DEF Core, Fresh, Dead
<1> QED
  BY <1>2, <1>4, <1>5, <1>6, <1>7, <1>8, <1>9, <1>10, <1>11, <1>12 DEF Core, g2

(* The guest's reset, its last frame.                                      *)
LEMMA LastFrameKeeps ==
  ASSUME NEW c, NEW g, NEW h, NEW q, NEW d, NEW f \in Frame, Core(c, q, d, g, h),
         g.state = "aborted", "syn" \notin f.flags, "rst" \in f.flags
  PROVE  Core(c, Append(q, f), d, g, h)
<1> DEFINE r == Append(q, f)
<1>1. /\ q \in Seq(Frame) /\ r \in Seq(Frame) /\ Len(q) \in Nat /\ Len(r) = Len(q) + 1
      /\ \A i \in 1..Len(r) : (i \in 1..Len(q) /\ r[i] = q[i]) \/ (i = Len(q) + 1 /\ r[i] = f)
  BY CoreParts, AppendParts
<1>2. ~Plain(f)
  BY DEF Plain
<1>3. (Has(r, "syn") <=> Has(q, "syn")) /\ (NonePlain(r) <=> NonePlain(q))
  BY <1>1, <1>2, AppendHas
<1> HIDE DEF r
<1>4. Live(c) => FromGuest(r, Kept(c, h), DataFrom(c, g, h), Heard(c, h), AcksFrom(c, g, h))
  <2> SUFFICES ASSUME Live(c)
               PROVE  FromGuest(r, Kept(c, h), DataFrom(c, g, h), Heard(c, h), AcksFrom(c, g, h))
    OBVIOUS
  <2> DEFINE x == Kept(c, h) - Window - 1
             y == Heard(c, h)
             lim == DataFrom(c, g, h)
             z == AcksFrom(c, g, h)
  <2>1. x \in Int /\ y \in Int /\ lim \in Int /\ z \in Int /\ Ordered(q, Isn, x, lim, Iss, y, z, GuestBytes)
    BY LiveNumbers DEF FromGuest
  <2> HIDE DEF x, y, lim, z
  <2>2. InPlace(f, Isn, x, lim, Iss, y, z, GuestBytes) /\ Beyond(f, Isn, x, lim, Iss, y, z)
    BY <1>2, NotPlainOrdered
  <2>3. lim <= lim /\ z <= z
    BY <2>1
  <2>4. Ordered(r, Isn, x, lim, Iss, y, z, GuestBytes)
    BY <1>1, <2>1, <2>2, <2>3, NetParts, AppendOrdered DEF r
  <2> QED
    BY <2>4 DEF FromGuest, x, y, lim, z
<1>5. Windows(c, r, g, h)
  BY <1>1, <1>2, CoreParts DEF Windows, Roomy
<1>6. Syns(r, g)
  <2>1. Syns(q, g)
    BY CoreParts
  <2>2. ASSUME NEW i \in 1..Len(r), "syn" \in r[i].flags
        PROVE  /\ r[i].flags = {"syn"} /\ r[i].seq = Isn /\ r[i].wnd <= Room
               /\ \A j \in 1..Len(r) : j < i => r[j].flags = {"syn"}
    <3>1. i \in 1..Len(q) /\ r[i] = q[i]
      BY <1>1, <2>2
    <3>2. \A j \in 1..Len(r) : j < i => j \in 1..Len(q) /\ r[j] = q[j]
      BY <1>1, <3>1
    <3> QED
      BY <2>1, <2>2, <3>1, <3>2 DEF Syns
  <2> QED
    BY <2>2 DEF Syns
<1>7. Closed(c, r, d, g)
  BY DEF Closed
<1>8. (Opening(c, r, g) => Early(c, d, g, h)) /\ Fresh(c, r, d, g, h) /\ Dead(c, r, g, h)
  BY <1>3 DEF Core, Opening, Fresh, Dead
<1> QED
  BY <1>1, <1>4, <1>5, <1>6, <1>7, <1>8 DEF Core, r

(* The guest sends its SYN, first or again, when nothing is on its way.    *)
LEMMA OpensKeeps ==
  ASSUME NEW c, NEW g, NEW h, NEW f \in Frame, Core(c, <<>>, <<>>, g, h), g.state \in {"closed", "synSent"},
         f.flags = {"syn"}, f.seq = Isn, f.wnd <= Room
  PROVE  /\ Core(c, <<>>, <<>>, Idle("synSent", 0), h)
         /\ Core(c, Append(<<>>, f), <<>>, Idle("synSent", 0), h)
<1> DEFINE g2 == Idle("synSent", 0)
           e == <<>>
<1>1. g = Idle(g.state, 0) /\ g.state \in {"closed", "synSent", "reset", "aborted"}
  BY CoreParts DEF GuestOK
<1>2. /\ g.una = 0 /\ g.got = <<>> /\ g.read = 0 /\ ~g.finGot /\ Got(g) = 0 /\ Said(g) = 0
  BY <1>1, IdleParts
<1>3. /\ GuestOK(g2) /\ g2.state = "synSent" /\ g2.una = 0 /\ g2.got = <<>> /\ g2.read = 0 /\ ~g2.finGot
      /\ Got(g2) = 0 /\ Said(g2) = 0
  BY IdleParts
<1> HIDE DEF g2
<1>4. e \in Seq(Frame) /\ Len(e) = 0 /\ \A i \in 1..Len(e) : FALSE
  OBVIOUS
<1>5. Live(c) => g.state = "synSent"
  BY NoConnParts DEF Core, Closed, Live
<1>6. Talking(g2) /\ (Live(c) => Talking(g))
  BY <1>3, <1>5 DEF Talking
<1>7. Core(c, e, e, g2, h)
  <2>1. Link(c, g2, h)
    BY <1>2, <1>3, <1>6 DEF Core, Link
  <2>2. ToGuest(e, g2, DataTo(c, g2, h), AcksTo(c, g2, h))
    BY <1>3 DEF ToGuest
  <2>3. Live(c) => FromGuest(e, Kept(c, h), DataFrom(c, g2, h), Heard(c, h), AcksFrom(c, g2, h))
    BY <1>4, NonePlainOrdered DEF FromGuest
  <2>4. Windows(c, e, g2, h)
    BY <1>2, <1>3, <1>4 DEF Core, Windows, Roomy
  <2>5. Syns(e, g2) /\ SynAcks(e, g2) /\ ForGuest(e) /\ Closed(c, e, e, g2)
    BY <1>3, <1>4 DEF Syns, SynAcks, ForGuest, Closed
  <2>6. Opening(c, e, g2) => Early(c, e, g2, h)
    BY <1>2, <1>3 DEF Core, Opening, Early
  <2>7. Fresh(c, e, e, g2, h)
    BY <1>3, <1>4 DEF Fresh, Has, NonePlain
  <2>8. Dead(c, e, g2, h)
    BY NoConnParts DEF Core, Dead
  <2> QED
    BY <1>3, <1>4, <2>1, <2>2, <2>3, <2>4, <2>5, <2>6, <2>7, <2>8 DEF Core
<1> DEFINE r == Append(e, f)
<1>8. /\ r \in Seq(Frame) /\ Len(r) = 1 /\ \A i \in 1..Len(r) : i = 1 /\ r[i] = f
  BY <1>4, AppendParts
<1>9. ~Plain(f) /\ NonePlain(r)
  BY <1>8 DEF Plain, NonePlain
<1> HIDE DEF r, e
<1>10. Core(c, r, e, g2, h)
  <2>1. Live(c) => FromGuest(r, Kept(c, h), DataFrom(c, g2, h), Heard(c, h), AcksFrom(c, g2, h))
    BY <1>8, <1>9, NonePlainOrdered DEF FromGuest, NonePlain
  <2>2. Windows(c, r, g2, h)
    BY <1>7, <1>9 DEF Core, Windows, Roomy, NonePlain
  <2>3. Syns(r, g2)
    <3>1. \A i, j \in 1..Len(r) : ~(j < i)
      BY <1>8
    <3> QED
      BY <1>3, <1>8, <3>1 DEF Syns
  <2>4. Closed(c, r, e, g2)
    BY <1>3 DEF Closed
  <2>5. Opening(c, r, g2) => Early(c, e, g2, h)
    BY <1>3, <1>7 DEF Core, Opening
  <2>6. Fresh(c, r, e, g2, h)
    BY <1>3, <1>4, <1>9 DEF Fresh, Has
  <2>7. Dead(c, r, g2, h)
    BY <1>3, <1>7 DEF Core, Dead
  <2> QED
    BY <1>7, <1>8, <2>1, <2>2, <2>3, <2>4, <2>5, <2>6, <2>7 DEF Core
<1> QED
  BY <1>7, <1>10 DEF e, r, g2

(* The network's SYN and acknowledgement: the guest is open.               *)
LEMMA OpenedKeeps ==
  ASSUME NEW c, NEW g, NEW h, NEW q, NEW d, NEW wnd \in Nat, Core(c, q, d, g, h), d # <<>>,
         g.state = "synSent", "syn" \in d[1].flags, wnd <= Window
  PROVE  Core(c, q, Tail(d), [g EXCEPT !.state = "open", !.wnd = wnd], h)
<1> DEFINE g2 == [g EXCEPT !.state = "open", !.wnd = wnd]
           e == Tail(d)
<1>1. g = Idle("synSent", 0) /\ GuestOK(g)
  BY CoreParts DEF GuestOK
<1>2. /\ g \in GuestEnd /\ g.una = 0 /\ g.nxt = 0 /\ g.got = <<>> /\ Len(g.got) = 0 /\ g.read = 0
      /\ ~g.finSent /\ ~g.finGot /\ Got(g) = 0 /\ Said(g) = 0
  BY <1>1, IdleParts
<1>3. /\ g2 \in GuestEnd /\ g2.state = "open" /\ g2.wnd = wnd
      /\ g2.una = 0 /\ g2.nxt = 0 /\ g2.got = <<>> /\ g2.read = 0 /\ ~g2.finSent /\ ~g2.finGot
  BY <1>2 DEF GuestEnd
<1>4. /\ d \in Seq(Frame) /\ e \in Seq(Frame) /\ Suffix(e, d)
      /\ \A i \in 1..Len(e) : e[i] = d[i + 1] /\ i + 1 \in 1..Len(d)
      /\ 1 \in 1..Len(d) /\ Len(d) \in Nat
  BY CoreParts, TailSuffix
<1>5. Core(c, q, e, g, h)
  BY <1>4, DroppedKeeps
<1> HIDE DEF g2, e
<1>6. Got(g2) = 0 /\ Said(g2) = 0 /\ Talking(g) /\ Talking(g2)
  BY <1>2, <1>3 DEF Got, Said, WithEnd, Talking
<1>7. GuestOK(g2)
  <2>1. g2.got = UpTo(Len(g2.got)) /\ Len(g2.got) = 0
    BY <1>1, <1>2, <1>3 DEF GuestOK
  <2> QED
    BY <1>3, <1>6, <2>1, NetParts DEF GuestOK
<1>8. Link(c, g2, h)
  BY <1>2, <1>3, <1>6, <1>5 DEF Core, Link
<1>9. Early(c, e, g, h) /\ NonePlain(e)
  BY <1>5 DEF Core, Opening, Early
<1>10. ~Has(e, "syn")
  <2>1. SynAcks(d, g)
    BY CoreParts
  <2>2. ASSUME NEW i \in 1..Len(e), "syn" \in e[i].flags
        PROVE  FALSE
    <3>1. i + 1 = 1
      BY <1>4, <2>1, <2>2 DEF SynAcks
    <3> QED
      BY <3>1
  <2> QED
    BY <2>2 DEF Has
<1>11. ToGuest(e, g2, DataTo(c, g2, h), AcksTo(c, g2, h))
  BY <1>4, <1>9, <1>10, NonePlainOrdered DEF ToGuest, NonePlain
<1>12. Live(c) => FromGuest(q, Kept(c, h), DataFrom(c, g2, h), Heard(c, h), AcksFrom(c, g2, h))
  BY <1>2, <1>5, <1>6 DEF Core, DataFrom, AcksFrom
<1>13. Windows(c, q, g2, h)
  BY <1>2, <1>3, <1>5 DEF Core, Windows, Roomy
<1>14. Syns(q, g2)
  BY <1>3, <1>5 DEF Core, Syns
<1>15. SynAcks(e, g2) /\ Closed(c, q, e, g2)
  BY <1>3 DEF SynAcks, Closed
<1>16. Opening(c, q, g2) => Early(c, e, g2, h)
  BY <1>3, <1>9 DEF Early
<1>17. Fresh(c, q, e, g2, h)
  <2>1. Has(d, "syn")
    BY <1>4 DEF Has
  <2> QED
    BY <2>1 DEF Core, Fresh
<1>18. Dead(c, q, g2, h)
  BY DEF Core, Dead
<1> QED
  BY <1>5, <1>7, <1>8, <1>11, <1>12, <1>13, <1>14, <1>15, <1>16, <1>17, <1>18 DEF Core, g2, e

(* An open guest with a frame of the stream: it takes the bytes that come  *)
(* next, and the end, and hears of what the network has.                   *)
Takes(g, s) ==
  [g EXCEPT !.una = Pos(s.ack, Isn, g.una), !.wnd = s.wnd,
            !.got = IF s.seq = Ack(g) /\ ~g.finGot /\ Len(g.got) - g.read + Len(s.data) <= Room
                    THEN g.got \o s.data ELSE g.got,
            !.finGot = g.finGot \/ (s.seq = Ack(g) /\ "fin" \in s.flags)]

LEMMA TakesParts ==
  ASSUME NEW c, NEW g, NEW h, NEW q, NEW d, Core(c, q, d, g, h), d # <<>>,
         g.state = "open", Plain(d[1])
  PROVE  LET s == d[1]
             g2 == Takes(g, s)
         IN  /\ g2 \in GuestEnd /\ g2.state = "open" /\ g2.nxt = g.nxt /\ g2.read = g.read /\ g2.finSent = g.finSent
             /\ g2.una = Pos(s.ack, Isn, g.una) /\ g2.wnd = s.wnd /\ g2.wnd <= Window
             /\ g.una <= g2.una /\ g2.una <= AcksTo(c, g, h) /\ Said(g2) = Said(g)
             /\ g2.got = UpTo(Len(g2.got)) /\ (g2.finGot => Len(g2.got) = HostBytes)
             /\ Len(g.got) <= Len(g2.got) /\ Len(g2.got) <= g.read + Room
             /\ Got(g2) \in Int
             /\ \/ Got(g2) = Got(g)
                \/ Got(g) <= Got(g2) /\ Got(g2) <= Pos(s.seq, Iss, Got(g)) + Length(s) /\ Got(g2) <= DataTo(c, g, h)
<1> DEFINE s == d[1]
           g2 == Takes(g, s)
           at == Pos(s.seq, Iss, Got(g))
           next == s.seq = Ack(g)
           lim == DataTo(c, g, h)
           z == AcksTo(c, g, h)
<1>1. /\ GuestOK(g) /\ g.got \in Seq(Nat) /\ Len(g.got) \in Nat /\ g.una \in Int /\ g.una \in Nat /\ g.read \in Nat
      /\ g.finGot \in BOOLEAN /\ g.finSent \in BOOLEAN /\ g.nxt \in Nat
      /\ Got(g) \in Int /\ g \in GuestEnd
  BY CoreParts, GuestParts DEF GuestOK
<1>2. /\ s \in Frame /\ s.flags \in SUBSET Flags /\ s.seq \in Int /\ s.ack \in Int /\ s.wnd \in Nat /\ s.data \in Seq(Nat)
      /\ Len(s.data) \in Nat /\ Length(s) \in Nat /\ d \in Seq(Frame) /\ 1 \in 1..Len(d) /\ Plain(s)
  BY CoreParts, TailSuffix, FrameParts
<1>3. lim \in Int /\ z \in Int
  BY CoreParts, Limits
<1>4. Ordered(d, Iss, Got(g), lim, Isn, g.una, z, HostBytes)
  BY DEF Core, ToGuest
<1>5. InPlace(s, Iss, Got(g), lim, Isn, g.una, z, HostBytes)
  BY <1>2, <1>4 DEF Ordered
<1>6. s.wnd <= Window /\ ("fin" \in s.flags => s.data = <<>>)
  BY <1>2, CoreParts DEF ForGuest
<1> HIDE DEF s, lim, z
<1>7. at \in Int /\ Got(g) <= at
  BY <1>1, <1>2, PosIn, NetParts
<1>8. Pos(s.ack, Isn, g.una) \in Int /\ g.una <= Pos(s.ack, Isn, g.una) /\ Pos(s.ack, Isn, g.una) <= z
  BY <1>1, <1>2, <1>5, PosIn, NetParts DEF InPlace
<1>9. next => at = Got(g)
  <2>1. Got(g) <= Got(g) /\ Got(g) < Got(g) + Seqs
    BY <1>1, SeqsPositive
  <2>2. Pos(Num(Iss, Got(g)), Iss, Got(g)) = Got(g)
    BY <1>1, <2>1, PosNum, NetParts
  <2> QED
    BY <1>1, <2>2, AckNum
<1>10. /\ at + Length(s) <= lim
       /\ s.data = [j \in 1..Len(s.data) |-> at + j]
       /\ "fin" \in s.flags => at + Len(s.data) = HostBytes
  BY <1>2, <1>5 DEF InPlace
<1> DEFINE got2 == IF next /\ ~g.finGot /\ Len(g.got) - g.read + Len(s.data) <= Room THEN g.got \o s.data ELSE g.got
           fin2 == g.finGot \/ (next /\ "fin" \in s.flags)
<1>11. g2 = [g EXCEPT !.una = Pos(s.ack, Isn, g.una), !.wnd = s.wnd, !.got = got2, !.finGot = fin2]
  BY DEF Takes
<1>12. /\ got2 \in Seq(Nat) /\ got2 = UpTo(Len(got2)) /\ Len(got2) \in Nat
       /\ Len(got2) = Len(g.got) \/ (next /\ ~g.finGot /\ Len(got2) = Len(g.got) + Len(s.data))
       /\ Len(got2) <= g.read + Room
  <2>0. PICK n \in Nat : n = Len(g.got)
    BY <1>1
  <2>1. CASE next /\ ~g.finGot /\ Len(g.got) - g.read + Len(s.data) <= Room
    <3>1. got2 = g.got \o s.data
      BY <2>1
    <3>2. at = n
      BY <1>9, <2>0, <2>1 DEF Got, WithEnd
    <3>3. \A i \in 1..Len(s.data) : s.data[i] = Len(g.got) + i
      BY <1>2, <1>10, <2>0, <3>2
    <3>4. g.got = UpTo(Len(g.got))
      BY <1>1 DEF GuestOK
    <3>5. g.got \o s.data \in Seq(Nat) /\ g.got \o s.data = UpTo(Len(g.got \o s.data)) /\ Len(g.got \o s.data) = Len(g.got) + Len(s.data)
      BY <1>1, <1>2, <3>3, <3>4, UpToGrows
    <3>6. PICK m \in Nat : m = Len(s.data)
      BY <1>2
    <3>7. n + m <= g.read + Room /\ n + m \in Nat
      <4>1. n - g.read + m <= Room
        BY <2>0, <2>1, <3>6
      <4> QED
        BY <1>1, <4>1, NetParts
    <3> HIDE DEF got2
    <3>8. Len(got2) = n + m
      BY <2>0, <3>1, <3>5, <3>6
    <3> QED
      BY <2>0, <2>1, <3>1, <3>5, <3>6, <3>7, <3>8
  <2>2. CASE ~(next /\ ~g.finGot /\ Len(g.got) - g.read + Len(s.data) <= Room)
    <3>1. got2 = g.got
      BY <2>2
    <3> HIDE DEF got2
    <3> QED
      BY <1>1, <3>1 DEF GuestOK
  <2> QED
    BY <2>1, <2>2
<1>13. fin2 \in BOOLEAN
  BY <1>1
<1>14. /\ g2 \in GuestEnd /\ g2.state = "open" /\ g2.nxt = g.nxt /\ g2.read = g.read /\ g2.finSent = g.finSent
       /\ g2.una = Pos(s.ack, Isn, g.una) /\ g2.wnd = s.wnd /\ g2.got = got2 /\ g2.finGot = fin2
  <2>1. Pos(s.ack, Isn, g.una) \in Nat
    BY <1>1, <1>8
  <2> HIDE DEF got2, fin2
  <2> QED
    BY <1>1, <1>2, <1>11, <1>12, <1>13, <2>1 DEF GuestEnd
<1> HIDE DEF g2
<1>15. /\ Len(g.got) <= Len(got2)
       /\ fin2 => Len(got2) = HostBytes
       /\ \/ Got(g2) = Got(g)
          \/ Got(g) <= Got(g2) /\ Got(g2) <= at + Length(s) /\ at = Got(g)
       /\ Got(g2) \in Int
  <2>0. PICK n \in Nat : n = Len(g.got)
    BY <1>1
  <2>1. PICK m \in Nat : m = Len(s.data)
    BY <1>2
  <2>2. PICK n2 \in Nat : n2 = Len(got2)
    BY <1>12
  <2>3. Length(s) = IF "fin" \in s.flags THEN m + 1 ELSE m
    BY <2>1 DEF Length, WithEnd
  <2>4. Got(g) = IF g.finGot THEN n + 1 ELSE n
    BY <2>0 DEF Got, WithEnd
  <2>5. Got(g2) = IF fin2 THEN n2 + 1 ELSE n2
    BY <1>14, <2>2 DEF Got, WithEnd
  <2>6. n2 = n \/ (next /\ ~g.finGot /\ n2 = n + m)
    BY <1>12, <2>0, <2>1, <2>2
  <2>7. g.finGot => n = HostBytes
    BY <1>1, <2>0 DEF GuestOK
  <2>8. "fin" \in s.flags => m = 0 /\ at + m = HostBytes
    BY <1>6, <1>10, <2>1
  <2> HIDE DEF got2, next, at
  <2>9. CASE g.finGot
    BY <1>1, <2>0, <2>2, <2>4, <2>5, <2>6, <2>7, <2>9
  <2>10. CASE ~g.finGot /\ next /\ "fin" \in s.flags
    BY <1>7, <1>9, <2>0, <2>2, <2>3, <2>4, <2>5, <2>6, <2>8, <2>10
  <2>11. CASE ~g.finGot /\ ~(next /\ "fin" \in s.flags)
    <3>1. Got(g2) = n2 /\ Got(g) = n /\ ~fin2
      BY <2>4, <2>5, <2>11
    <3>2. m <= Length(s)
      BY <2>3
    <3> QED
      BY <1>2, <1>7, <1>9, <2>0, <2>2, <2>6, <3>1, <3>2
  <2> QED
    BY <1>1, <2>9, <2>10, <2>11
<1>16. Said(g2) = Said(g)
  BY <1>14 DEF Said
<1> HIDE DEF got2, fin2, at, next
<1>17. \/ Got(g2) = Got(g)
       \/ Got(g) <= Got(g2) /\ Got(g2) <= at + Length(s) /\ Got(g2) <= lim
  BY <1>2, <1>3, <1>7, <1>10, <1>15
<1> QED
  BY <1>6, <1>8, <1>12, <1>14, <1>15, <1>16, <1>17 DEF s, lim, z, at, g2


(* The guest hears a frame of the stream.                                  *)
LEMMA HeardKeeps ==
  ASSUME NEW c, NEW g, NEW h, NEW q, NEW d, Core(c, q, d, g, h), d # <<>>,
         g.state = "open", Plain(d[1])
  PROVE  Core(c, q, Tail(d), Takes(g, d[1]), h)
<1> DEFINE s == d[1]
           g2 == Takes(g, s)
           e == Tail(d)
           at == Pos(s.seq, Iss, Got(g))
           lim == DataTo(c, g, h)
           z == AcksTo(c, g, h)
<1>1. /\ g2 \in GuestEnd /\ g2.state = "open" /\ g2.nxt = g.nxt /\ g2.read = g.read /\ g2.finSent = g.finSent
      /\ g2.una = Pos(s.ack, Isn, g.una) /\ g2.wnd = s.wnd /\ g2.wnd <= Window
      /\ g.una <= g2.una /\ g2.una <= z /\ Said(g2) = Said(g)
      /\ g2.got = UpTo(Len(g2.got)) /\ (g2.finGot => Len(g2.got) = HostBytes)
      /\ Len(g.got) <= Len(g2.got) /\ Len(g2.got) <= g.read + Room
      /\ Got(g2) \in Int
      /\ \/ Got(g2) = Got(g)
         \/ Got(g) <= Got(g2) /\ Got(g2) <= at + Length(s) /\ Got(g2) <= lim
  BY TakesParts
<1>2. /\ GuestOK(g) /\ Len(g.got) \in Nat /\ g.una \in Int /\ g.read \in Nat /\ Got(g) \in Int /\ Said(g) \in Int /\ g.nxt \in Nat
      /\ lim \in Int /\ z \in Int
  BY CoreParts, GuestParts, Limits
<1>3. /\ s \in Frame /\ s.seq \in Int /\ Length(s) \in Nat /\ d \in Seq(Frame) /\ e \in Seq(Frame) /\ Suffix(e, d)
      /\ Plain(s) /\ 1 \in 1..Len(d)
  BY CoreParts, TailSuffix, FrameParts
<1>4. Core(c, q, e, g, h)
  BY <1>3, DroppedKeeps
<1>5. \A i \in 1..Len(e) : Beyond(e[i], Iss, Got(g), at + Length(s), Isn, g.una, Pos(s.ack, Isn, g.una))
  <2>1. Ordered(d, Iss, Got(g), lim, Isn, g.una, z, HostBytes)
    BY DEF Core, ToGuest
  <2> HIDE DEF lim, z
  <2>2. d # <<>> /\ Plain(d[1])
    OBVIOUS
  <2> QED
    BY <1>2, <1>3, <2>1, <2>2, TailBeyond, NetParts
<1>6. Ordered(e, Iss, Got(g), lim, Isn, g.una, z, HostBytes) /\ ~Has(e, "syn")
  BY <1>4 DEF Core, ToGuest
<1>7. at \in Int /\ g2.una \in Int /\ Len(g2.got) \in Nat /\ g2.una \in Nat
  <2>1. at \in Int
    BY <1>2, <1>3, PosIn, NetParts
  <2> HIDE DEF g2
  <2>2. g2.una \in Nat /\ g2.got \in Seq(Nat)
    BY <1>1 DEF GuestEnd
  <2> QED
    BY <2>1, <2>2
<1>8. Talking(g) /\ Talking(g2)
  BY <1>1 DEF Talking
<1>9. ~Opening(c, q, g)
  BY <1>3 DEF Core, Early, NonePlain
<1> HIDE DEF e, at, g2, s
<1>10. Ordered(e, Iss, Got(g2), lim, Isn, g2.una, z, HostBytes)
  <2>1. Got(g) <= Got(g2) /\ g.una <= g2.una
    BY <1>1, <1>2
  <2>2. \A i \in 1..Len(e) : Beyond(e[i], Iss, Got(g), Got(g2), Isn, g.una, g2.una)
    <3> SUFFICES ASSUME NEW i \in 1..Len(e), Plain(e[i])
                 PROVE  Got(g2) <= Pos(e[i].seq, Iss, Got(g)) /\ g2.una <= Pos(e[i].ack, Isn, g.una)
      BY DEF Beyond
    <3>1. e[i] \in Frame
      BY <1>3
    <3>2. e[i].seq \in Int
      BY <3>1, FrameParts
    <3>3. Pos(e[i].seq, Iss, Got(g)) \in Int /\ Got(g) <= Pos(e[i].seq, Iss, Got(g))
      BY <1>2, <3>2, PosIn, NetParts
    <3>4. at + Length(s) <= Pos(e[i].seq, Iss, Got(g)) /\ g2.una <= Pos(e[i].ack, Isn, g.una)
      BY <1>1, <1>5 DEF Beyond
    <3>5. PICK n \in Nat : n = Length(s)
      BY <1>3
    <3> QED
      BY <1>1, <1>2, <1>7, <3>3, <3>4, <3>5
  <2> HIDE DEF lim, z
  <2> QED
    BY <1>1, <1>2, <1>3, <1>6, <1>7, <2>1, <2>2, OrderedMoves, NetParts
<1>11. lim <= DataTo(c, g2, h) /\ DataTo(c, g2, h) \in Int /\ AcksTo(c, g2, h) = z
  <2>1. CASE Live(c)
    BY <1>1, <1>2, <2>1 DEF DataTo, AcksTo
  <2>2. CASE ~Live(c)
    BY <1>1, <1>2, <2>2, NetParts DEF DataTo, AcksTo
  <2> QED
    BY <2>1, <2>2
<1>12. ToGuest(e, g2, DataTo(c, g2, h), AcksTo(c, g2, h))
  <2> HIDE DEF lim, z
  <2>1. z <= z
    BY <1>2
  <2>2. Ordered(e, Iss, Got(g2), DataTo(c, g2, h), Isn, g2.una, z, HostBytes)
    BY <1>1, <1>2, <1>3, <1>7, <1>10, <1>11, <2>1, OrderedWithin, NetParts
  <2> QED
    BY <1>6, <1>11, <2>2 DEF ToGuest
<1>13. z <= Said(g)
  <2>1. Live(c) => Kept(c, h) <= Said(g)
    BY <1>8, TalkingNumbers
  <2> QED
    BY <1>2, <2>1 DEF AcksTo
<1>14. GuestOK(g2)
  <2> HIDE DEF z
  <2>1. g2.una <= Said(g2)
    BY <1>1, <1>2, <1>7, <1>13
  <2>2. g2.nxt <= g2.una + Window
    <3>1. g.nxt <= g.una + Window
      BY <1>2 DEF GuestOK
    <3> QED
      BY <1>1, <1>2, <1>7, <3>1, NetParts
  <2>3. g2.nxt <= GuestBytes /\ (g2.finSent => g2.nxt = GuestBytes)
    BY <1>1, <1>2 DEF GuestOK
  <2>4. g2.read <= Len(g2.got) /\ Len(g2.got) <= g2.read + Room
    <3>1. g.read <= Len(g.got)
      BY <1>2 DEF GuestOK
    <3> QED
      BY <1>1, <1>2, <1>7, <3>1
  <2> QED
    BY <1>1, <2>1, <2>2, <2>3, <2>4 DEF GuestOK
<1>15. Link(c, g2, h)
  <2> SUFFICES ASSUME Live(c)
               PROVE  Link(c, g2, h)
    BY DEF Link
  <2>1. /\ Heard(c, h) <= Got(g) /\ Got(g) <= Sent(c, h) /\ Kept(c, h) <= Said(g)
        /\ Heard(c, h) \in Int /\ Sent(c, h) \in Int
    BY <1>8, TalkingNumbers, LiveNumbers
  <2>2. c.nxt = Num(Iss, Sent(c, h)) /\ c.rcv = Num(Isn, Kept(c, h))
    BY LiveNumbers
  <2>3. lim = Sent(c, h) /\ z = Kept(c, h)
    BY DEF DataTo, AcksTo
  <2> HIDE DEF lim, z
  <2>4. Heard(c, h) <= Got(g2) /\ Got(g2) <= Sent(c, h)
    BY <1>1, <1>2, <2>1, <2>3
  <2> QED
    BY <1>1, <2>1, <2>2, <2>3, <2>4 DEF Link
<1>16. Live(c) => FromGuest(q, Kept(c, h), DataFrom(c, g2, h), Heard(c, h), AcksFrom(c, g2, h))
  <2> SUFFICES ASSUME Live(c)
               PROVE  FromGuest(q, Kept(c, h), DataFrom(c, g2, h), Heard(c, h), AcksFrom(c, g2, h))
    OBVIOUS
  <2>1. Kept(c, h) - Window - 1 \in Int /\ DataFrom(c, g, h) \in Int /\ Heard(c, h) \in Int /\ AcksFrom(c, g, h) \in Int
        /\ FromGuest(q, Kept(c, h), DataFrom(c, g, h), Heard(c, h), AcksFrom(c, g, h)) /\ q \in Seq(Frame)
    BY LiveNumbers, CoreParts
  <2>2. DataFrom(c, g2, h) = DataFrom(c, g, h) /\ DataFrom(c, g, h) <= DataFrom(c, g, h)
    BY <1>1, <1>8, <2>1 DEF DataFrom
  <2>3. AcksFrom(c, g, h) <= AcksFrom(c, g2, h) /\ AcksFrom(c, g2, h) \in Int
    BY <1>1, <1>2, <1>8 DEF AcksFrom
  <2> QED
    BY <2>1, <2>2, <2>3, NetParts, OrderedWithin DEF FromGuest
<1>17. Windows(c, q, g2, h) /\ Syns(q, g2) /\ SynAcks(e, g2)
  BY <1>1, <1>4 DEF Core, Windows, Roomy, Syns, SynAcks
<1>18. Closed(c, q, e, g2) /\ ~Opening(c, q, g2)
  BY <1>1, <1>9 DEF Closed, Opening
<1>19. Fresh(c, q, e, g2, h) /\ Dead(c, q, g2, h)
  BY <1>1, <1>4 DEF Core, Fresh, Dead
<1> QED
  BY <1>4, <1>12, <1>14, <1>15, <1>16, <1>17, <1>18, <1>19 DEF Core, e, g2, s
-------------------------------------------------------------------------------
(* The network's changes, and the host's.                                  *)

(* c2 is c to all that the invariant says of it.                           *)
Alike(c, c2) ==
  /\ c2.state = c.state /\ c2.una = c.una /\ c2.nxt = c.nxt /\ c2.rcv = c.rcv /\ c2.guestWnd = c.guestWnd
  /\ c2.toHost = c.toHost /\ c2.guestFin = c.guestFin /\ c2.finSent = c.finSent

LEMMA StatesDiffer ==
  ASSUME NEW c, c.state \in {"Connecting", "SynReceived", "Established"}
  PROVE  c # NoConn
  BY DEF NoConn

LEMMA AlikeKeeps ==
  ASSUME NEW c, NEW c2 \in Conn, NEW g, NEW h, NEW q, NEW d, Core(c, q, d, g, h), c # NoConn, Alike(c, c2),
         c2.dead /\ ~c.dead /\ ~h.failed => ~Has(q, "syn") /\ g.state \notin {"closed", "synSent"}
  PROVE  Core(c2, q, d, g, h)
<1>1. c2.state \in {"Connecting", "SynReceived", "Established"} /\ c2.state = c.state /\ c \in Conn
  BY CoreParts, ConnParts DEF Alike
<1>2. c2 # NoConn
  BY <1>1, StatesDiffer
<1>3. InFlight(c2) = InFlight(c) /\ (Live(c2) <=> Live(c)) /\ Bytes(c2, h) = Bytes(c, h)
  BY <1>2 DEF Alike, InFlight, Live, Bytes
<1>4. Kept(c2, h) = Kept(c, h) /\ Sent(c2, h) = Sent(c, h)
  BY <1>3 DEF Alike, Kept, Sent
<1>5. Heard(c2, h) = Heard(c, h)
  BY <1>3, <1>4 DEF Heard
<1>6. ConnOK(c2)
  BY <1>3, CoreParts DEF Alike, ConnOK
<1>7. Stream(c2, h)
  BY <1>2, <1>3, CoreParts DEF Alike, Stream
<1>8. Link(c2, g, h)
  BY <1>3, <1>4, <1>5, CoreParts DEF Alike, Link
<1>9. ToGuest(d, g, DataTo(c2, g, h), AcksTo(c2, g, h))
  BY <1>3, <1>4 DEF Core, DataTo, AcksTo
<1>10. Live(c2) => FromGuest(q, Kept(c2, h), DataFrom(c2, g, h), Heard(c2, h), AcksFrom(c2, g, h))
  BY <1>3, <1>4, <1>5 DEF Core, DataFrom, AcksFrom
<1>11. Windows(c2, q, g, h)
  BY <1>3, <1>5, CoreParts DEF Alike, Windows
<1>12. Closed(c2, q, d, g)
  BY DEF Core, Closed
<1>13. Opening(c2, q, g) => Early(c2, d, g, h)
  BY DEF Core, Alike, Opening, Early
<1>14. Fresh(c2, q, d, g, h)
  BY <1>2 DEF Core, Alike, Fresh
<1>15. Dead(c2, q, g, h)
  BY <1>1 DEF Core, Dead, Conn
<1> QED
  BY <1>6, <1>7, <1>8, <1>9, <1>10, <1>11, <1>12, <1>13, <1>14, <1>15 DEF Core

(* The host closes its side, or fails.                                     *)
LEMMA HostKeeps ==
  ASSUME NEW c, NEW g, NEW h, NEW h2, NEW q, NEW d, Core(c, q, d, g, h), HostOK(h2),
         h2.wrote = h.wrote, h2.sent = h.sent, h.shut => h2.shut, h.failed => h2.failed
  PROVE  Core(c, q, d, g, h2)
<1>1. Bytes(c, h2) = Bytes(c, h) /\ Sent(c, h2) = Sent(c, h)
  BY DEF Bytes, Sent
<1>2. Kept(c, h2) = Kept(c, h) /\ Heard(c, h2) = Heard(c, h)
  BY <1>1 DEF Kept, Heard
<1>3. Stream(c, h2) /\ Link(c, g, h2) /\ Windows(c, q, g, h2)
  BY <1>1, <1>2, CoreParts DEF Stream, Link, Windows
<1>4. ToGuest(d, g, DataTo(c, g, h2), AcksTo(c, g, h2))
  BY <1>1, <1>2 DEF Core, DataTo, AcksTo
<1>5. Live(c) => FromGuest(q, Kept(c, h2), DataFrom(c, g, h2), Heard(c, h2), AcksFrom(c, g, h2))
  BY <1>1, <1>2 DEF Core, DataFrom, AcksFrom
<1>6. Opening(c, q, g) => Early(c, d, g, h2)
  BY DEF Core, Early
<1>7. Fresh(c, q, d, g, h2) /\ Dead(c, q, g, h2)
  BY DEF Core, Fresh, Dead
<1> QED
  BY <1>3, <1>4, <1>5, <1>6, <1>7 DEF Core

(* The network resets the guest.                                           *)
LEMMA ResetsKeeps ==
  ASSUME NEW c, NEW g, NEW h, NEW q, NEW d, NEW f \in Frame, Core(c, q, d, g, h), g.state # "closed",
         "rst" \in f.flags, "syn" \notin f.flags, "fin" \notin f.flags, f.wnd <= Window
  PROVE  Core(c, q, Append(d, f), g, h)
<1> DEFINE r == Append(d, f)
<1>1. /\ d \in Seq(Frame) /\ r \in Seq(Frame) /\ Len(d) \in Nat /\ Len(r) = Len(d) + 1
      /\ \A i \in 1..Len(r) : (i \in 1..Len(d) /\ r[i] = d[i]) \/ (i = Len(d) + 1 /\ r[i] = f)
  BY CoreParts, AppendParts
<1>2. ~Plain(f)
  BY DEF Plain
<1>3. (Has(r, "syn") <=> Has(d, "syn")) /\ (NonePlain(r) <=> NonePlain(d))
  BY <1>1, <1>2, AppendHas
<1> HIDE DEF r
<1>4. ToGuest(r, g, DataTo(c, g, h), AcksTo(c, g, h))
  <2> SUFFICES ASSUME g.state = "open"
               PROVE  ToGuest(r, g, DataTo(c, g, h), AcksTo(c, g, h))
    BY DEF ToGuest
  <2> DEFINE x == Got(g)
             y == g.una
             lim == DataTo(c, g, h)
             z == AcksTo(c, g, h)
  <2>1. x \in Int /\ y \in Int
    BY CoreParts, GuestParts
  <2>2. lim \in Int /\ z \in Int
    BY CoreParts, Limits
  <2>3. Ordered(d, Iss, x, lim, Isn, y, z, HostBytes) /\ ~Has(d, "syn")
    BY DEF Core, ToGuest
  <2> HIDE DEF x, y, lim, z
  <2>4. InPlace(f, Iss, x, lim, Isn, y, z, HostBytes) /\ Beyond(f, Iss, x, lim, Isn, y, z)
    BY <1>2, NotPlainOrdered
  <2>5. lim <= lim /\ z <= z
    BY <2>2
  <2>6. Ordered(r, Iss, x, lim, Isn, y, z, HostBytes)
    BY <1>1, <2>1, <2>2, <2>3, <2>4, <2>5, NetParts, AppendOrdered DEF r
  <2> QED
    BY <1>3, <2>3, <2>6 DEF ToGuest, x, y, lim, z
<1>5. ForGuest(r)
  BY <1>1, CoreParts DEF ForGuest
<1>6. SynAcks(r, g)
  <2>1. SynAcks(d, g)
    BY CoreParts
  <2>2. \A i \in 1..Len(r) : "syn" \in r[i].flags => i \in 1..Len(d) /\ r[i] = d[i]
    BY <1>1
  <2> QED
    BY <2>1, <2>2 DEF SynAcks
<1>7. Closed(c, q, r, g)
  BY DEF Closed
<1>8. (Opening(c, q, g) => Early(c, r, g, h)) /\ Fresh(c, q, r, g, h)
  BY <1>3 DEF Core, Early, Fresh
<1> QED
  BY <1>1, <1>4, <1>5, <1>6, <1>7, <1>8 DEF Core, r

(* A SYN opens a connection.                                               *)
LEMMA OpenedConnKeeps ==
  ASSUME NEW g, NEW h, NEW q, NEW d, Core(NoConn, q, d, g, h), q # <<>>, q[1].flags = {"syn"}
  PROVE  Core(Opened(q[1]), Tail(q), d, g, h)
<1> DEFINE s == q[1]
           c == Opened(s)
           e == Tail(q)
<1>1. /\ s \in Frame /\ s.seq \in Numbers /\ s.wnd \in Nat /\ 1 \in 1..Len(q) /\ s.flags = {"syn"}
      /\ q \in Seq(Frame) /\ e \in Seq(Frame) /\ Suffix(e, q)
  BY CoreParts, TailSuffix, FrameParts
<1>2. s.seq = Isn /\ s.wnd <= Room
  BY <1>1, CoreParts DEF Syns
<1>3. Has(q, "syn")
  BY <1>1 DEF Has
<1>4. Early(NoConn, d, g, h)
  BY <1>3 DEF Core, Opening
<1>5. Core(NoConn, e, d, g, h)
  BY TakenKeeps
<1> HIDE DEF e, s
<1>6. /\ c.state = "Connecting" /\ c.una = Iss /\ c.nxt = Iss /\ c.rcv = Num(Isn, 0) /\ c.guestWnd = s.wnd
      /\ c.toHost = <<>> /\ c.guestFin = FALSE /\ c.finSent = FALSE /\ c.dead = FALSE
  <2>1. Isn + 1 = Isn + 1 + 0
    BY NetParts
  <2> QED
    BY <1>2, <2>1 DEF Opened, Num
<1>7. c \in Conn
  <2>1. Num(Isn, 0) \in Numbers /\ (s.seq + 1) % Seqs = Num(Isn, 0)
    BY <1>6, NumIn, NetParts DEF Opened
  <2>2. <<>> \in Seq(Nat)
    OBVIOUS
  <2> QED
    BY <1>1, <2>1, <2>2, NetParts DEF Conn, Opened
<1> HIDE DEF c
<1>8. c # NoConn /\ ~Live(c) /\ ~Live(NoConn)
  BY <1>6, StatesDiffer, NoConnParts DEF Live
<1>9. ConnOK(c)
  <2>1. Iss - Iss = 0 /\ 0 \in Numbers /\ 0 \in Int
    BY NetParts DEF Numbers
  <2>2. InFlight(c) = 0
    BY <1>6, <2>1, ModSmall DEF InFlight
  <2>3. Len(c.toHost) = 0
    BY <1>6
  <2> QED
    BY <1>7, <2>2, <2>3, NetParts DEF ConnOK
<1>10. Bytes(c, h) = Bytes(NoConn, h)
  BY <1>6, <1>8 DEF Bytes
<1>11. Stream(c, h)
  BY <1>6, <1>10, CoreParts DEF Stream
<1>12. Link(c, g, h) /\ Windows(c, e, g, h)
  BY <1>5, <1>8 DEF Core, Link, Windows
<1>13. ToGuest(d, g, DataTo(c, g, h), AcksTo(c, g, h))
  BY <1>8 DEF Core, DataTo, AcksTo
<1>14. Closed(c, e, d, g)
  BY DEF Core, Closed
<1>15. Early(c, d, g, h)
  BY <1>2, <1>4, <1>6 DEF Early
<1>16. Fresh(c, e, d, g, h)
  <2>1. NonePlain(q) => NonePlain(e)
    BY <1>1, SuffixHas
  <2> QED
    BY <1>3, <2>1 DEF Core, Fresh
<1>17. Dead(c, e, g, h)
  BY <1>6 DEF Dead
<1> QED
  BY <1>5, <1>8, <1>9, <1>11, <1>12, <1>13, <1>14, <1>15, <1>16, <1>17 DEF Core, c, e, s

(* The host has accepted the connection: our SYN, and its acknowledgement. *)
LEMMA ConnectedKeeps ==
  ASSUME NEW c, NEW c2 \in Conn, NEW g, NEW h, NEW q, NEW d, NEW f \in Frame, Core(c, q, d, g, h),
         c.state = "Connecting", ~h.failed, ~c2.dead,
         c2.state = "SynReceived", c2.nxt = Num(Iss, 0), c2.una = c.una, c2.rcv = c.rcv, c2.guestWnd = c.guestWnd,
         c2.toHost = c.toHost, c2.guestFin = c.guestFin, c2.finSent = c.finSent,
         f.flags = {"syn", "ack"}, f.seq = c.nxt, f.ack = c.rcv, f.wnd <= Window, f.data = <<>>
  PROVE  Core(c2, q, Append(d, f), g, h)
<1> DEFINE r == Append(d, f)
<1>1. Early(c, d, g, h) /\ c # NoConn
  BY StatesDiffer DEF Core, Opening
<1>2. /\ h.wrote = <<>> /\ h.sent = 0 /\ c2.una = Iss /\ c2.rcv = Num(Isn, 0) /\ c2.guestWnd <= Room
      /\ c2.toHost = <<>> /\ c2.guestFin = FALSE /\ c2.finSent = FALSE /\ c.nxt = Iss
      /\ g.una = 0 /\ g.got = <<>> /\ g.finGot = FALSE /\ NonePlain(d)
  BY <1>1 DEF Early, Conn
<1>3. c2 # NoConn /\ Live(c2)
  BY StatesDiffer DEF Live
<1>4. ~Has(d, "syn") /\ g.state # "open" /\ NonePlain(q) /\ g.state # "closed"
  BY <1>1 DEF Core, Fresh, Closed
<1>5. /\ d \in Seq(Frame) /\ r \in Seq(Frame) /\ Len(d) \in Nat /\ Len(r) = Len(d) + 1
      /\ \A i \in 1..Len(r) : (i \in 1..Len(d) /\ r[i] = d[i]) \/ (i = Len(d) + 1 /\ r[i] = f)
  BY CoreParts, AppendParts
<1>6. NonePlain(r)
  <2>1. ~Plain(f)
    BY DEF Plain
  <2> QED
    BY <1>2, <2>1, <1>5, AppendHas
<1> HIDE DEF r
<1>7. Bytes(c2, h) = <<>> /\ Len(Bytes(c2, h)) = 0
  BY <1>2, <1>3 DEF Bytes
<1>8. Kept(c2, h) = 0 /\ Sent(c2, h) = 0 /\ Got(g) = 0
  BY <1>2, <1>7 DEF Kept, Sent, Got, WithEnd
<1>9. InFlight(c2) = 1 /\ Heard(c2, h) = -1 /\ Iss = Num(Iss, -1)
  <2>1. Iss + 1 + (-1) = Iss /\ 0 - (-1) = 1 /\ 1 \in Numbers /\ -1 \in Int
    BY NetParts DEF Numbers
  <2>2. Num(Iss, -1) = Iss
    BY <2>1, ModSmall, NetParts DEF Num
  <2>3. (Num(Iss, 0) - Num(Iss, -1)) % Seqs = 1 % Seqs
    BY <2>1, NumMinus, NetParts
  <2>4. InFlight(c2) = 1
    BY <1>2, <2>1, <2>2, <2>3, ModSmall DEF InFlight
  <2> QED
    BY <1>8, <2>2, <2>4 DEF Heard
<1>10. ConnOK(c2)
  <2>1. Len(c2.toHost) = 0
    BY <1>2
  <2> QED
    BY <1>9, <2>1, NetParts DEF ConnOK
<1>11. GuestOK(g) /\ HostOK(h) /\ Said(g) \in Nat /\ g.read \in Nat
  BY CoreParts, GuestParts
<1>12. Stream(c2, h)
  <2>1. Bytes(c2, h) = Bytes(c, h)
    BY <1>1, <1>3 DEF Bytes
  <2> QED
    BY <1>2, <2>1, CoreParts DEF Stream
<1>13. Link(c2, g, h)
  BY <1>2, <1>8, <1>9, <1>11 DEF Link
<1>14. ToGuest(r, g, DataTo(c2, g, h), AcksTo(c2, g, h))
  BY <1>4 DEF ToGuest
<1>15. FromGuest(q, Kept(c2, h), DataFrom(c2, g, h), Heard(c2, h), AcksFrom(c2, g, h))
  BY <1>4, NonePlainOrdered, CoreParts DEF FromGuest, NonePlain
<1>16. Windows(c2, q, g, h)
  <2>1. Heard(c2, h) + c2.guestWnd <= g.read + Room
    <3>1. c2.guestWnd \in Nat
      BY DEF Conn
    <3> QED
      BY <1>2, <1>9, <1>11, <3>1, NetParts
  <2> QED
    BY <1>4, <2>1, CoreParts DEF Windows, Roomy, NonePlain
<1>17. ForGuest(r)
  BY <1>5, CoreParts DEF ForGuest
<1>18. SynAcks(r, g)
  <2>1. \A i \in 1..Len(r) : "syn" \in r[i].flags => i = Len(d) + 1 /\ r[i] = f
    BY <1>4, <1>5 DEF Has
  <2> QED
    BY <1>2, <1>9, <2>1 DEF SynAcks
<1>19. Closed(c2, q, r, g) /\ Fresh(c2, q, r, g, h) /\ Dead(c2, q, g, h)
  BY <1>3, <1>4 DEF Closed, Fresh, Dead
<1>20. Early(c2, r, g, h)
  BY <1>2, <1>6 DEF Early
<1> QED
  BY <1>5, <1>10, <1>12, <1>13, <1>14, <1>15, <1>16, <1>17, <1>18, <1>19, <1>20 DEF Core, r

(* A frame of the guest's stream is the first: no SYN is on its way.       *)
LEMMA PlainFirst ==
  ASSUME NEW g, NEW q \in Seq(Frame), Syns(q, g), q # <<>>, Plain(q[1])
  PROVE  ~Has(q, "syn") /\ g.state \notin {"closed", "synSent"}
<1>1. 1 \in 1..Len(q) /\ "syn" \notin q[1].flags
  BY TailSuffix DEF Plain
<1>2. ASSUME NEW i \in 1..Len(q), "syn" \in q[i].flags
      PROVE  FALSE
  <2>1. \A j \in 1..Len(q) : j < i => q[j].flags = {"syn"}
    BY <1>2 DEF Syns
  <2>2. 1 < i
    <3>1. i # 1
      BY <1>1, <1>2
    <3> QED
      BY <3>1
  <2> QED
    BY <1>1, <2>1, <2>2
<1> QED
  BY <1>1, <1>2 DEF Has, Syns

(* The guest's acknowledgement.                                            *)
LEMMA AckedKeeps ==
  ASSUME NEW c, NEW g, NEW h, NEW q, NEW d, Core(c, q, d, g, h), Live(c), q # <<>>, Plain(q[1])
  PROVE  Core(Acked(c, q[1]), q, d, g, h) /\ Live(Acked(c, q[1]))
<1> DEFINE s == q[1]
           c2 == Acked(c, s)
           x == Kept(c, h) - Window - 1
           y == Heard(c, h)
           b == Pos(s.ack, Iss, y)
           lim == DataFrom(c, g, h)
           z == AcksFrom(c, g, h)
           a == Sent(c, h)
<1>1. CASE "ack" \notin s.flags
  BY <1>1 DEF Acked
<1>2. CASE "ack" \in s.flags
  <2>1. /\ s \in Frame /\ s.ack \in Numbers /\ s.ack \in Int /\ s.wnd \in Nat /\ 1 \in 1..Len(q) /\ q \in Seq(Frame) /\ Plain(s)
    BY CoreParts, TailSuffix, FrameParts
  <2>2. /\ c # NoConn /\ a \in Nat /\ y \in Int /\ y <= a /\ a <= y + Window /\ c.nxt = Num(Iss, a)
        /\ x \in Int /\ lim \in Int /\ z \in Int /\ Ordered(q, Isn, x, lim, Iss, y, z, GuestBytes)
    BY LiveNumbers DEF FromGuest
  <2>3. c.una = Num(Iss, y) /\ c \in Conn
    BY <2>2, CoreParts, UnaNum, ConnParts
  <2>4. Talking(g) => y <= Got(g) /\ Got(g) <= a /\ Got(g) \in Int
    BY TalkingNumbers
  <2>5. z <= a /\ (Talking(g) => z = Got(g))
    BY <2>2, <2>4 DEF AcksFrom
  <2>6. b \in Int /\ y <= b /\ b <= z
    <3>1. b \in Int /\ y <= b
      BY <2>1, <2>2, PosIn, NetParts
    <3>2. InPlace(s, Isn, x, lim, Iss, y, z, GuestBytes)
      BY <2>1, <2>2 DEF Ordered
    <3> QED
      BY <2>1, <3>1, <3>2 DEF InPlace
  <2>7. s.ack = Num(Iss, b)
    BY <2>1, <2>2, NumPos, NetParts
  <2> HIDE DEF s, x, y, b, lim, z, a
  <2>8. b <= a /\ a - b <= Window /\ b - a <= Window /\ b - y <= Window /\ y - b <= Window
    BY <2>2, <2>5, <2>6, NetParts
  <2>9. (SeqAfter(s.ack, c.una) <=> y < b) /\ ~SeqAfter(s.ack, c.nxt)
    <3>1. SeqAfter(Num(Iss, b), Num(Iss, y)) <=> y < b
      BY <2>2, <2>6, <2>8, AfterNum, NetParts
    <3>2. SeqAfter(Num(Iss, b), Num(Iss, a)) <=> a < b
      BY <2>2, <2>6, <2>8, AfterNum, NetParts
    <3> QED
      BY <2>2, <2>3, <2>6, <2>7, <2>8, <3>1, <3>2
  <2> DEFINE state2 == IF c.state = "SynReceived" /\ s.ack = c.nxt THEN "Established" ELSE c.state
             una2 == IF SeqAfter(s.ack, c.una) /\ ~SeqAfter(s.ack, c.nxt) THEN s.ack ELSE c.una
  <2>10. una2 = Num(Iss, b) /\ una2 \in Numbers
    <3>1. y < b \/ y = b
      BY <2>2, <2>6
    <3> QED
      BY <2>1, <2>3, <2>7, <2>9, <3>1
  <2>11. c2 = [c EXCEPT !.state = state2, !.una = una2, !.guestWnd = s.wnd]
    BY <1>2 DEF Acked
  <2>12. state2 \in {"SynReceived", "Established"} /\ (state2 = "SynReceived" => c.state = "SynReceived")
    BY DEF Live
  <2> HIDE DEF state2, una2
  <2>13. /\ c2 \in Conn /\ c2.state = state2 /\ c2.una = una2 /\ c2.guestWnd = s.wnd /\ c2.nxt = c.nxt /\ c2.rcv = c.rcv
         /\ c2.toHost = c.toHost /\ c2.guestFin = c.guestFin /\ c2.finSent = c.finSent /\ c2.dead = c.dead
    BY <2>1, <2>3, <2>10, <2>11, <2>12 DEF Conn
  <2> HIDE DEF c2
  <2>14. c2 # NoConn /\ Live(c2)
    BY <2>12, <2>13, StatesDiffer DEF Live
  <2>15. Bytes(c2, h) = Bytes(c, h) /\ Sent(c2, h) = a
    BY <2>2, <2>13, <2>14 DEF Bytes, Sent, a
  <2>16. Kept(c2, h) = Kept(c, h)
    BY <2>13, <2>15 DEF Kept
  <2>17. InFlight(c2) = a - b
    <3>1. (Num(Iss, a) - Num(Iss, b)) % Seqs = (a - b) % Seqs
      BY <2>2, <2>6, NumMinus, NetParts
    <3>2. a - b \in Numbers
      BY <2>2, <2>6, <2>8, NetParts DEF Numbers
    <3> QED
      BY <2>2, <2>10, <2>13, <3>1, <3>2, ModSmall DEF InFlight
  <2>18. Heard(c2, h) = b
    BY <2>2, <2>6, <2>15, <2>17 DEF Heard
  <2>19. ConnOK(c2) /\ Stream(c2, h)
    BY <2>2, <2>8, <2>13, <2>14, <2>15, <2>17, CoreParts DEF ConnOK, Stream
  <2>20. Link(c2, g, h)
    <3>1. Link(c, g, h)
      BY CoreParts
    <3> QED
      BY <2>2, <2>4, <2>5, <2>6, <2>13, <2>15, <2>16, <2>18, <3>1 DEF Link, a
  <2>21. ToGuest(d, g, DataTo(c2, g, h), AcksTo(c2, g, h))
    BY <2>14, <2>15, <2>16 DEF Core, DataTo, AcksTo, a
  <2>22. \A i \in 1..Len(q) : Plain(q[i]) => b <= Pos(q[i].ack, Iss, y) /\ Pos(q[i].ack, Iss, b) = Pos(q[i].ack, Iss, y)
    <3> SUFFICES ASSUME NEW i \in 1..Len(q), Plain(q[i])
                 PROVE  b <= Pos(q[i].ack, Iss, y) /\ Pos(q[i].ack, Iss, b) = Pos(q[i].ack, Iss, y)
      OBVIOUS
    <3>1. q[i] \in Frame
      BY <2>1
    <3>2. q[i].ack \in Numbers /\ q[i].ack \in Int
      BY <3>1, FrameParts
    <3>3. b <= Pos(q[i].ack, Iss, y)
      <4>1. CASE i = 1
        BY <4>1, <2>6 DEF b, s
      <4>2. CASE i # 1
        <5>1. 1 < i
          BY <4>2
        <5>2. Follows(s, q[i], Isn, x, Iss, y)
          BY <2>1, <2>2, <5>1 DEF Ordered, s
        <5> QED
          BY <2>1, <5>2 DEF Follows, b
      <4> QED
        BY <4>1, <4>2
    <3>4. Pos(q[i].ack, Iss, y) \in Int /\ Pos(q[i].ack, Iss, y) < y + Seqs
      BY <2>2, <3>2, PosIn, NetParts
    <3>5. Pos(q[i].ack, Iss, y) < b + Seqs
      BY <2>2, <2>6, <3>4, NetParts
    <3> QED
      BY <2>2, <2>6, <3>2, <3>3, <3>5, PosMoves, NetParts
  <2>23. FromGuest(q, Kept(c2, h), DataFrom(c2, g, h), Heard(c2, h), AcksFrom(c2, g, h))
    <3>1. \A i \in 1..Len(q) : Beyond(q[i], Isn, x, x, Iss, y, b)
      <4> SUFFICES ASSUME NEW i \in 1..Len(q), Plain(q[i])
                   PROVE  x <= Pos(q[i].seq, Isn, x) /\ b <= Pos(q[i].ack, Iss, y)
        BY DEF Beyond
      <4>1. q[i] \in Frame
        BY <2>1
      <4>2. q[i].seq \in Int
        BY <4>1, FrameParts
      <4> QED
        BY <2>2, <2>22, <4>2, PosIn, NetParts
    <3>2. x <= x
      BY <2>2
    <3>3. Ordered(q, Isn, x, lim, Iss, b, z, GuestBytes)
      BY <2>1, <2>2, <2>6, <3>1, <3>2, OrderedMoves, NetParts
    <3>4. DataFrom(c2, g, h) = lim /\ AcksFrom(c2, g, h) = z
      BY <2>15, <2>16 DEF DataFrom, AcksFrom, lim, z, a
    <3> QED
      BY <2>16, <2>18, <3>3, <3>4 DEF FromGuest, x
  <2>24. Windows(c2, q, g, h)
    <3>1. Windows(c, q, g, h)
      BY CoreParts
    <3>2. ~c2.finSent => Roomy(q, y, g)
      BY <2>13, <3>1 DEF Windows, y
    <3>3. ~c2.finSent => b + s.wnd <= g.read + Room
      BY <2>1, <3>2 DEF Roomy, b, s
    <3>4. ~c2.finSent => Roomy(q, b, g)
      BY <2>22, <3>2 DEF Roomy
    <3> QED
      BY <2>13, <2>18, <3>1, <3>3, <3>4 DEF Windows
  <2>25. Closed(c2, q, d, g)
    BY DEF Core, Closed
  <2>26. Opening(c2, q, g) => Early(c2, d, g, h)
    <3>1. ~Has(q, "syn") /\ g.state \notin {"closed", "synSent"}
      BY <2>1, CoreParts, PlainFirst DEF s
    <3> QED
      BY <2>2, <2>12, <2>13, <3>1 DEF Core, Opening, Early
  <2>27. Fresh(c2, q, d, g, h) /\ Dead(c2, q, g, h)
    BY <2>2, <2>12, <2>13, <2>14 DEF Core, Fresh, Dead
  <2> QED
    BY <2>14, <2>19, <2>20, <2>21, <2>23, <2>24, <2>25, <2>26, <2>27 DEF Core, c2, s
<1> QED
  BY <1>1, <1>2

LEMMA JoinParts ==
  ASSUME NEW s \in Seq(Nat), NEW t \in Seq(Nat)
  PROVE  s \o t \in Seq(Nat) /\ Len(s \o t) = Len(s) + Len(t) /\ Len(s) \in Nat /\ Len(t) \in Nat /\ Len(s \o t) \in Nat
  BY ConcatProperties

LEMMA JoinTwice ==
  ASSUME NEW s \in Seq(Nat), NEW t \in Seq(Nat), NEW u \in Seq(Nat)
  PROVE  (s \o t) \o u = s \o (t \o u)
<1>1. \A S : \A a, b, c \in Seq(S) : (a \o b) \o c = a \o (b \o c)
  BY ConcatAssociative
<1> QED
  BY <1>1, SMTT(30)

(* What the network takes of the first frame: the bytes that come next, as *)
(* far as there is room, and the end after them.                           *)
LEMMA ReceivedParts ==
  ASSUME NEW c, NEW g, NEW h, NEW q, NEW d, Core(c, q, d, g, h), c.state = "Established", q # <<>>, Plain(q[1])
  PROVE  LET s == q[1]
             c2 == Ended(Taken(c, s), s)
             at == Pos(s.seq, Isn, Kept(c, h) - Window - 1)
         IN  /\ c2 \in Conn /\ c2.state = c.state /\ c2.una = c.una /\ c2.nxt = c.nxt /\ c2.guestWnd = c.guestWnd
             /\ c2.finSent = c.finSent /\ c2.dead = c.dead /\ Len(c2.toHost) <= Window
             /\ c2 # NoConn /\ Stream(c2, h) /\ c2.rcv = Num(Isn, Kept(c2, h))
             /\ Kept(c2, h) \in Int
             /\ \/ Kept(c2, h) = Kept(c, h)
                \/ Kept(c, h) <= Kept(c2, h) /\ Kept(c2, h) <= at + Length(s)
<1> DEFINE s == q[1]
           K == Kept(c, h)
           x == K - Window - 1
           at == Pos(s.seq, Isn, x)
           lim == DataFrom(c, g, h)
           B == Bytes(c, h)
           c1 == Taken(c, s)
           c2 == Ended(c1, s)
<1>1. /\ s \in Frame /\ s.seq \in Numbers /\ s.seq \in Int /\ s.data \in Seq(Nat) /\ Len(s.data) \in Nat /\ Length(s) \in Nat
      /\ s.flags \in SUBSET Flags /\ Plain(s) /\ 1 \in 1..Len(q)
  BY CoreParts, TailSuffix, FrameParts
<1>2. Live(c) /\ c # NoConn
  BY StatesDiffer DEF Live
<1>3. /\ K \in Nat /\ K \in Int /\ x \in Int /\ lim \in Int /\ c.rcv = Num(Isn, K)
      /\ FromGuest(q, K, lim, Heard(c, h), AcksFrom(c, g, h))
  BY <1>2, LiveNumbers
<1>4. ConnOK(c) /\ HostOK(h) /\ GuestOK(g) /\ Stream(c, h)
  BY CoreParts
<1>5. /\ c \in Conn /\ c.toHost \in Seq(Nat) /\ Len(c.toHost) \in Nat /\ Len(c.toHost) <= Window /\ c.guestFin \in BOOLEAN
      /\ WindowOf(c) \in Nat /\ WindowOf(c) + Len(c.toHost) = Window /\ c.rcv \in Numbers
  BY <1>2, <1>4, ConnParts
<1>6. /\ B = h.wrote \o c.toHost /\ B \in Seq(Nat) /\ Len(B) \in Nat /\ h.wrote \in Seq(Nat)
      /\ (~c.guestFin => K = Len(B)) /\ (c.guestFin => K = Len(B) + 1)
  BY <1>2, <1>4, FlowParts, HostParts
<1>7. InPlace(s, Isn, x, lim, Iss, Heard(c, h), AcksFrom(c, g, h), GuestBytes)
  BY <1>1, <1>3 DEF FromGuest, Ordered
<1>8. lim <= K + Window + 1
  <2>1. CASE Talking(g)
    <3>1. g.una <= K /\ g.una \in Int /\ lim = Said(g) /\ Said(g) <= g.una + Window + 1 /\ Said(g) \in Int
      BY <1>2, <1>4, <2>1, TalkingNumbers, GuestParts DEF DataFrom
    <3> HIDE DEF lim, K
    <3> QED
      BY <1>3, <3>1, NetParts
  <2>2. CASE ~Talking(g)
    BY <1>3, <2>2, NetParts DEF DataFrom
  <2> QED
    BY <2>1, <2>2
<1> HIDE DEF s, lim, B, K, x
<1>9. at \in Int /\ x <= at /\ s.seq = Num(Isn, at)
  <2>1. at \in Int /\ x <= at
    BY <1>1, <1>3, PosIn, NetParts
  <2>2. Num(Isn, Pos(s.seq, Isn, x)) = s.seq
    BY <1>1, <1>3, NumPos, NetParts
  <2> QED
    BY <2>1, <2>2
<1>10. /\ at + Length(s) <= lim /\ s.data = [j \in 1..Len(s.data) |-> at + j]
       /\ ("fin" \in s.flags => at + Len(s.data) = GuestBytes)
  BY <1>1, <1>7 DEF InPlace
<1> HIDE DEF at
<1>11. K - at <= Window + 1 /\ at + Length(s) <= K + Window + 1
  BY <1>1, <1>3, <1>8, <1>9, <1>10, NetParts DEF x
<1>12. s.seq = c.rcv => at = K
  <2>1. K - at < Seqs /\ at - K < Seqs
    <3>1. PICK n \in Nat : n = Length(s)
      BY <1>1
    <3>2. at + n <= K + Window + 1 /\ K - at <= Window + 1 /\ at \in Int /\ K \in Int
      BY <1>3, <1>9, <1>11, <3>1
    <3> QED
      BY ONLY <3>2, SeqsPositive
  <2>2. Num(Isn, at) = Num(Isn, K) => at = K
    BY <1>3, <1>9, <2>1, NumSame, NetParts
  <2> QED
    BY <1>3, <1>9, <2>2
<1> DEFINE take == Least(Len(s.data), WindowOf(c))
           sub == SubSeq(s.data, 1, take)
           takes == s.data # <<>> /\ s.seq = c.rcv /\ ~c.guestFin
           t == IF takes THEN take ELSE 0
<1>13. /\ take \in Nat /\ take <= Len(s.data) /\ take <= WindowOf(c)
       /\ sub \in Seq(Nat) /\ Len(sub) = take /\ \A j \in 1..Len(sub) : sub[j] = s.data[j] /\ j \in 1..Len(s.data)
  <2>1. PICK n \in Nat : n = Len(s.data)
    BY <1>1
  <2>2. take \in Nat /\ take <= n /\ take <= WindowOf(c)
    BY <1>5, <2>1 DEF Least
  <2> HIDE DEF take
  <2>3. sub \in Seq(Nat) /\ Len(sub) = take
    BY <1>1, <2>1, <2>2, SubSeqProperties
  <2>4. \A j \in 1..Len(sub) : sub[j] = s.data[j] /\ j \in 1..Len(s.data)
    BY <1>1, <2>1, <2>2, <2>3, SubSeqProperties
  <2> QED
    BY <2>1, <2>2, <2>3, <2>4
<1>14. c1 = IF takes THEN [c EXCEPT !.toHost = c.toHost \o sub, !.rcv = (c.rcv + take) % Seqs] ELSE c
  BY DEF Taken
<1> HIDE DEF take, sub, c1
<1> DEFINE K1 == K + t
<1>15. /\ c1 \in Conn /\ c1.state = c.state /\ c1.una = c.una /\ c1.nxt = c.nxt /\ c1.guestWnd = c.guestWnd
       /\ c1.finSent = c.finSent /\ c1.dead = c.dead /\ c1.guestFin = c.guestFin /\ Len(c1.toHost) <= Window
       /\ h.wrote \o c1.toHost = UpTo(Len(h.wrote \o c1.toHost)) /\ t \in Nat /\ t <= Window
       /\ Len(h.wrote \o c1.toHost) = Len(B) + t
       /\ c1.rcv = Num(Isn, K1)
       /\ (t # 0 => at = K /\ ~c.guestFin /\ t <= Len(s.data))
  <2>1. CASE takes
    <3>1. c1 = [c EXCEPT !.toHost = c.toHost \o sub, !.rcv = (c.rcv + take) % Seqs] /\ t = take
      BY <1>14, <2>1
    <3>2. c.toHost \o sub \in Seq(Nat) /\ Len(c.toHost \o sub) = Len(c.toHost) + Len(sub)
      BY <1>5, <1>13, JoinParts
    <3>3. (c.rcv + take) % Seqs = Num(Isn, K + take) /\ Num(Isn, K + take) \in Numbers
      <4>1. take \in Int /\ K + take \in Int
        BY <1>3, <1>13
      <4>2. (Num(Isn, K) + take) % Seqs = Num(Isn, K + take)
        BY <1>3, <4>1, NumAdd, NetParts
      <4>3. Num(Isn, K + take) \in Numbers
        BY <4>1, NumIn, NetParts
      <4> QED
        BY <1>3, <4>2, <4>3
    <3>4. /\ c1 \in Conn /\ c1.state = c.state /\ c1.una = c.una /\ c1.nxt = c.nxt /\ c1.guestWnd = c.guestWnd
          /\ c1.finSent = c.finSent /\ c1.dead = c.dead /\ c1.guestFin = c.guestFin
          /\ c1.toHost = c.toHost \o sub /\ c1.rcv = (c.rcv + take) % Seqs
      BY <1>5, <3>1, <3>2, <3>3 DEF Conn
    <3>5. Len(c1.toHost) <= Window /\ take <= Window
      <4>1. PICK n \in Nat : n = Len(c.toHost)
        BY <1>5
      <4> QED
        BY <1>5, <1>13, <3>2, <3>4, <4>1, NetParts
    <3>6. h.wrote \o (c.toHost \o sub) = B \o sub
      BY <1>5, <1>6, <1>13, JoinTwice
    <3>7. at = K /\ K = Len(B) /\ ~c.guestFin
      BY <1>6, <1>12, <2>1
    <3>8. \A i \in 1..Len(sub) : sub[i] = Len(B) + i
      <4> SUFFICES ASSUME NEW i \in 1..Len(sub)
                   PROVE  sub[i] = Len(B) + i
        OBVIOUS
      <4>1. sub[i] = s.data[i] /\ i \in 1..Len(s.data)
        BY <1>13
      <4>2. s.data[i] = at + i
        BY <1>10, <4>1
      <4> QED
        BY <3>7, <4>1, <4>2
    <3>9. B = UpTo(Len(B))
      BY <1>4 DEF Stream, B
    <3>10. B \o sub = UpTo(Len(B \o sub)) /\ Len(B \o sub) = Len(B) + take
      BY <1>6, <1>13, <3>8, <3>9, UpToGrows
    <3> QED
      BY <1>13, <3>1, <3>3, <3>4, <3>5, <3>6, <3>7, <3>10
  <2>2. CASE ~takes
    <3>1. c1 = c /\ t = 0
      BY <1>14, <2>2
    <3>2. B = UpTo(Len(B))
      BY <1>4 DEF Stream, B
    <3>3. Len(B) + 0 = Len(B) /\ K + 0 = K
      BY <1>3, <1>6
    <3> HIDE DEF t
    <3>4. K1 = K /\ Len(B) + t = Len(B) /\ t \in Nat /\ t <= Window
      BY <3>1, <3>3, NetParts
    <3> HIDE DEF K1
    <3>5. h.wrote \o c1.toHost = B
      BY <1>6, <3>1
    <3> QED
      BY <1>3, <1>5, <3>1, <3>2, <3>4, <3>5
  <2> QED
    BY <2>1, <2>2
<1> HIDE DEF t, takes
<1> DEFINE ends == "fin" \in s.flags /\ (s.seq + Len(s.data)) % Seqs = c1.rcv /\ ~c1.guestFin
<1>16. c2 = IF ends THEN [c1 EXCEPT !.rcv = (c1.rcv + 1) % Seqs, !.guestFin = TRUE] ELSE c1
  BY DEF Ended
<1> HIDE DEF c2
<1>17. ends => at + Len(s.data) = K1 /\ K1 = GuestBytes /\ ~c.guestFin /\ Length(s) = Len(s.data) + 1
  <2> SUFFICES ASSUME ends
               PROVE  at + Len(s.data) = K1 /\ K1 = GuestBytes /\ ~c.guestFin /\ Length(s) = Len(s.data) + 1
    OBVIOUS
  <2>1. PICK m \in Nat : m = Len(s.data)
    BY <1>1
  <2>2. Length(s) = m + 1
    BY <2>1 DEF Length, WithEnd
  <2>3. (s.seq + m) % Seqs = Num(Isn, at + m)
    <3>1. m \in Int
      OBVIOUS
    <3>2. (Num(Isn, at) + m) % Seqs = Num(Isn, at + m)
      BY <1>9, <3>1, NumAdd, NetParts
    <3> QED
      BY <1>9, <3>2
  <2>4. Num(Isn, at + m) = Num(Isn, K1)
    BY <1>15, <2>1, <2>3
  <2>5. at + m \in Int /\ K1 \in Int /\ at + m - K1 < Seqs /\ K1 - (at + m) < Seqs
    BY <1>3, <1>9, <1>11, <1>15, <2>2, NetParts
  <2> HIDE DEF K1
  <2>6. at + m = K1
    <3>1. PICK p \in Int : p = at + m
      BY <2>5
    <3>2. p - K1 < Seqs /\ K1 - p < Seqs /\ Num(Isn, p) = Num(Isn, K1)
      BY <1>9, <2>4, <2>5, <3>1, NetParts
    <3>3. p = K1
      BY <2>5, <3>2, NumSame, NetParts
    <3> QED
      BY <3>1, <3>3
  <2> QED
    BY <1>10, <1>15, <2>1, <2>2, <2>6
<1>18. /\ c2 \in Conn /\ c2.state = c.state /\ c2.una = c.una /\ c2.nxt = c.nxt /\ c2.guestWnd = c.guestWnd
       /\ c2.finSent = c.finSent /\ c2.dead = c.dead /\ c2.toHost = c1.toHost
       /\ c2.guestFin = (c.guestFin \/ ends) /\ c2.rcv = IF ends THEN Num(Isn, K1 + 1) ELSE Num(Isn, K1)
  <2>1. (Num(Isn, K1) + 1) % Seqs = Num(Isn, K1 + 1) /\ Num(Isn, K1 + 1) \in Numbers
    <3>1. K1 \in Int /\ K1 + 1 \in Int
      BY <1>3, <1>15
    <3> HIDE DEF K1
    <3>2. (Num(Isn, K1) + 1) % Seqs = Num(Isn, K1 + 1)
      BY <3>1, NumAdd, NetParts
    <3>3. Num(Isn, K1 + 1) \in Numbers
      BY <3>1, NumIn, NetParts
    <3> QED
      BY <3>2, <3>3
  <2>2. c2 = IF ends THEN [c1 EXCEPT !.rcv = Num(Isn, K1 + 1), !.guestFin = TRUE] ELSE c1
    BY <1>15, <1>16, <2>1
  <2> HIDE DEF ends, K1
  <2>3. CASE ends
    BY <1>15, <2>1, <2>2, <2>3 DEF Conn
  <2>4. CASE ~ends
    BY <1>5, <1>15, <2>2, <2>4
  <2> QED
    BY <2>3, <2>4
<1>19. c2 # NoConn
  BY <1>18, StatesDiffer
<1>20. Bytes(c2, h) = h.wrote \o c1.toHost /\ Len(Bytes(c2, h)) = Len(B) + t
  BY <1>15, <1>18, <1>19 DEF Bytes
<1> DEFINE K2 == IF ends THEN K1 + 1 ELSE K1
<1>21. Kept(c2, h) = K2
  <2>1. PICK n \in Nat : n = Len(B)
    BY <1>6
  <2>2. Kept(c2, h) = IF c2.guestFin THEN n + t + 1 ELSE n + t
    BY <1>20, <2>1 DEF Kept, WithEnd
  <2> HIDE DEF ends
  <2>3. CASE c.guestFin
    <3>1. t = 0 /\ ~ends
      BY <1>15, <1>17, <2>3
    <3>2. c2.guestFin
      BY <1>18, <2>3
    <3>3. K = n + 1
      BY <1>6, <2>1, <2>3
    <3> HIDE DEF t
    <3> QED
      BY <1>3, <2>2, <3>1, <3>2, <3>3
  <2>4. CASE ~c.guestFin
    BY <1>6, <1>15, <1>17, <1>18, <2>1, <2>2, <2>4
  <2> QED
    BY <2>3, <2>4
<1>22. Stream(c2, h)
  <2> HIDE DEF ends
  <2>1. ends => Len(Bytes(c2, h)) = GuestBytes
    BY <1>6, <1>17, <1>20
  <2>2. c.guestFin => Len(Bytes(c2, h)) = GuestBytes
    <3>1. c.guestFin => t = 0
      BY <1>15
    <3>2. c.guestFin => Len(B) = GuestBytes
      BY <1>2, <1>4 DEF Stream, B
    <3>3. c.guestFin => Len(B) + t = GuestBytes
      BY <3>1, <3>2, NetParts
    <3> QED
      BY <1>20, <3>3
  <2>3. c2.finSent => h.shut
    BY <1>2, <1>4, <1>18 DEF Stream
  <2>4. Bytes(c2, h) = UpTo(Len(Bytes(c2, h)))
    BY <1>15, <1>20
  <2> QED
    BY <1>18, <2>1, <2>2, <2>3, <2>4 DEF Stream
<1>23. K2 \in Int /\ (K2 = K \/ (K <= K2 /\ K2 <= at + Length(s)))
  <2>1. PICK m \in Nat : m = Len(s.data)
    BY <1>1
  <2>2. m <= Length(s)
    BY <2>1 DEF Length, WithEnd
  <2> HIDE DEF ends
  <2>3. CASE ends
    BY <1>3, <1>9, <1>15, <1>17, <2>1, <2>3
  <2>4. CASE ~ends
    BY <1>1, <1>3, <1>9, <1>15, <2>1, <2>2, <2>4
  <2> QED
    BY <2>3, <2>4
<1>24. c2.rcv = Num(Isn, K2)
  BY <1>18
<1>25. Len(c2.toHost) <= Window
  BY <1>15, <1>18
<1> HIDE DEF ends, K1, K2
<1> QED
  BY <1>18, <1>19, <1>21, <1>22, <1>23, <1>24, <1>25 DEF s, K, x, at, c2, c1

(* The network takes a frame of the stream.                                *)
LEMMA ReceivedKeeps ==
  ASSUME NEW c, NEW g, NEW h, NEW q, NEW d, Core(c, q, d, g, h), c.state = "Established", q # <<>>, Plain(q[1])
  PROVE  /\ Core(Ended(Taken(c, q[1]), q[1]), Tail(q), d, g, h)
         /\ Ended(Taken(c, q[1]), q[1]).state = "Established"
<1> DEFINE s == q[1]
           e == Tail(q)
           c2 == Ended(Taken(c, s), s)
           K == Kept(c, h)
           K2 == Kept(c2, h)
           x == K - Window - 1
           x2 == K2 - Window - 1
           at == Pos(s.seq, Isn, x)
           y == Heard(c, h)
           lim == DataFrom(c, g, h)
           z == AcksFrom(c, g, h)
<1>1. /\ c2 \in Conn /\ c2.state = c.state /\ c2.una = c.una /\ c2.nxt = c.nxt /\ c2.guestWnd = c.guestWnd
      /\ c2.finSent = c.finSent /\ c2.dead = c.dead /\ Len(c2.toHost) <= Window
      /\ c2 # NoConn /\ Stream(c2, h) /\ c2.rcv = Num(Isn, K2)
      /\ K2 \in Int
      /\ K2 = K \/ (K <= K2 /\ K2 <= at + Length(s))
  BY ReceivedParts
<1>2. /\ s \in Frame /\ s.seq \in Int /\ Length(s) \in Nat /\ q \in Seq(Frame) /\ e \in Seq(Frame) /\ Plain(s)
      /\ 1 \in 1..Len(q) /\ q # <<>>
  BY CoreParts, TailSuffix, FrameParts
<1>3. Live(c) /\ c # NoConn /\ Live(c2)
  BY <1>1, StatesDiffer DEF Live
<1>4. /\ K \in Nat /\ x \in Int /\ lim \in Int /\ y \in Int /\ z \in Int /\ c.nxt = Num(Iss, Sent(c, h))
      /\ Sent(c, h) \in Nat
      /\ Ordered(q, Isn, x, lim, Iss, y, z, GuestBytes)
  BY <1>3, LiveNumbers DEF FromGuest
<1>5. Core(c, e, d, g, h)
  BY TakenKeeps
<1>6. Ordered(e, Isn, x, lim, Iss, y, z, GuestBytes)
  BY <1>3, <1>5, LiveNumbers DEF FromGuest
<1>7. at \in Int /\ at + Length(s) <= lim
  <2>1. at \in Int
    BY <1>2, <1>4, PosIn, NetParts
  <2>2. InPlace(s, Isn, x, lim, Iss, y, z, GuestBytes)
    BY <1>2, <1>4 DEF Ordered
  <2> QED
    BY <1>2, <2>1, <2>2 DEF InPlace
<1>8. \A i \in 1..Len(e) : Beyond(e[i], Isn, x, at + Length(s), Iss, y, Pos(s.ack, Iss, y))
  <2> HIDE DEF x, y, lim, z
  <2> QED
    BY <1>2, <1>4, TailBeyond, NetParts DEF s, e, at
<1>9. Talking(g) => g.una <= K /\ K <= lim /\ lim = Said(g) /\ g.una \in Int
  BY <1>3, TalkingNumbers DEF DataFrom
<1>10. InFlight(c2) = InFlight(c) /\ Sent(c2, h) = Sent(c, h)
  BY <1>1 DEF InFlight, Sent
<1>11. Heard(c2, h) = y
  BY <1>10 DEF Heard
<1>12. ConnOK(c2)
  BY <1>1, <1>3, <1>10, CoreParts, ConnParts DEF ConnOK
<1>13. ~Opening(c, e, g)
  BY <1>5 DEF Core, Early
<1>14. DataTo(c2, g, h) = DataTo(c, g, h) /\ AcksTo(c, g, h) = K /\ AcksTo(c2, g, h) = K2
  BY <1>3, <1>10 DEF DataTo, AcksTo
<1>15. ForGuest(d) /\ ToGuest(d, g, DataTo(c, g, h), K) /\ DataTo(c, g, h) \in Int /\ d \in Seq(Frame)
  BY <1>14, CoreParts, Limits DEF Core
<1>16. Talking(g) => Got(g) \in Int /\ Said(g) \in Int /\ y <= Got(g) /\ Got(g) <= Sent(c, h)
  BY <1>3, TalkingNumbers
<1>17. GuestOK(g) /\ Got(g) \in Int /\ g.una \in Int
  BY CoreParts, GuestParts
<1>18. x2 \in Int /\ x <= x2
  BY <1>1, <1>4, NetParts
<1> HIDE DEF s, e, c2, K, K2, at, y, lim, z
<1>19. K <= K2 /\ (Talking(g) => K2 <= Said(g))
  BY <1>1, <1>2, <1>4, <1>7, <1>9, <1>16
<1>20. \A i \in 1..Len(e) : Beyond(e[i], Isn, x, x2, Iss, y, y)
  <2> SUFFICES ASSUME NEW i \in 1..Len(e), Plain(e[i])
               PROVE  x2 <= Pos(e[i].seq, Isn, x) /\ y <= Pos(e[i].ack, Iss, y)
    BY DEF Beyond
  <2>1. e[i] \in Frame
    BY <1>2
  <2>2. e[i].seq \in Int /\ e[i].ack \in Int
    BY <2>1, FrameParts
  <2>3. y <= Pos(e[i].ack, Iss, y) /\ x <= Pos(e[i].seq, Isn, x) /\ Pos(e[i].seq, Isn, x) \in Int
    BY <1>4, <2>2, PosIn, NetParts
  <2>4. at + Length(s) <= Pos(e[i].seq, Isn, x)
    BY <1>8 DEF Beyond
  <2>5. PICK n \in Nat : n = Length(s)
    BY <1>2
  <2>6. PICK p \in Int : p = Pos(e[i].seq, Isn, x)
    BY <2>3
  <2>7. CASE K2 = K
    BY <2>3, <2>7 DEF x2, x
  <2>8. CASE K <= K2 /\ K2 <= at + Length(s)
    <3>1. K2 <= at + n /\ at + n <= p
      BY <2>4, <2>5, <2>6, <2>8
    <3>2. x2 <= p
      BY <1>1, <1>7, <3>1, NetParts DEF x2
    <3> QED
      BY <2>3, <2>6, <3>2
  <2> QED
    BY <1>1, <2>7, <2>8
<1> HIDE DEF x, x2
<1>21. Ordered(e, Isn, x2, lim, Iss, y, z, GuestBytes)
  <2>1. y <= y
    BY <1>4
  <2> QED
    BY <1>2, <1>4, <1>6, <1>18, <1>20, <2>1, OrderedMoves, NetParts
<1>22. lim <= DataFrom(c2, g, h) /\ DataFrom(c2, g, h) \in Int /\ AcksFrom(c2, g, h) = z
  <2>1. CASE Talking(g)
    BY <1>9, <1>16, <2>1 DEF DataFrom, AcksFrom, z
  <2>2. CASE ~Talking(g)
    <3>1. lim = K + Window + 1 /\ DataFrom(c2, g, h) = K2 + Window + 1
      BY <2>2 DEF DataFrom, lim, K, K2
    <3>2. AcksFrom(c2, g, h) = z
      BY <1>10, <2>2 DEF AcksFrom, z
    <3> QED
      BY <1>1, <1>4, <1>19, <3>1, <3>2, NetParts
  <2> QED
    BY <2>1, <2>2
<1>23. FromGuest(e, K2, DataFrom(c2, g, h), Heard(c2, h), AcksFrom(c2, g, h))
  <2>1. z <= z
    BY <1>4
  <2>2. Ordered(e, Isn, x2, DataFrom(c2, g, h), Iss, y, z, GuestBytes)
    BY <1>2, <1>4, <1>18, <1>21, <1>22, <2>1, OrderedWithin, NetParts
  <2> QED
    BY <1>11, <1>22, <2>2 DEF FromGuest, x2
<1>24. ToGuest(d, g, DataTo(c2, g, h), AcksTo(c2, g, h))
  <2> SUFFICES ASSUME g.state = "open"
               PROVE  ToGuest(d, g, DataTo(c2, g, h), AcksTo(c2, g, h))
    BY DEF ToGuest
  <2>1. ~Has(d, "syn") /\ Ordered(d, Iss, Got(g), DataTo(c, g, h), Isn, g.una, K, HostBytes)
    BY <1>15 DEF ToGuest
  <2>2. DataTo(c, g, h) <= DataTo(c, g, h)
    BY <1>15
  <2>3. Ordered(d, Iss, Got(g), DataTo(c, g, h), Isn, g.una, K2, HostBytes)
    BY <1>1, <1>4, <1>15, <1>17, <1>19, <2>1, <2>2, OrderedWithin, NetParts
  <2> QED
    BY <1>14, <2>1, <2>3 DEF ToGuest
<1>25. Link(c2, g, h)
  <2>1. Talking(g) => g.una <= K2 /\ K2 <= Said(g)
    BY <1>1, <1>4, <1>9, <1>19
  <2> QED
    BY <1>1, <1>4, <1>10, <1>11, <1>16, <2>1 DEF Link, K2
<1>26. Windows(c2, e, g, h)
  BY <1>1, <1>3, <1>5, <1>11, CoreParts DEF Windows, y
<1>27. Closed(c2, e, d, g)
  BY <1>3, <1>5 DEF Core, Closed
<1>28. ~Opening(c2, e, g)
  BY <1>1, <1>13 DEF Opening
<1>29. Fresh(c2, e, d, g, h) /\ Dead(c2, e, g, h)
  BY <1>1, <1>3, <1>5 DEF Core, Fresh, Dead
<1>30. c2.state = "Established"
  BY <1>1
<1> QED
  BY <1>1, <1>3, <1>5, <1>12, <1>23, <1>24, <1>25, <1>26, <1>27, <1>28, <1>29, <1>30 DEF Core, c2, e, s, K2

(* The host takes s, the first of what waits for it.                       *)
Writes(c, c2, h, h2, s) ==
  /\ c2 \in Conn /\ s \in Seq(Nat) /\ c.state = "Established"
  /\ c2.state = c.state /\ c2.una = c.una /\ c2.nxt = c.nxt /\ c2.rcv = c.rcv /\ c2.guestWnd = c.guestWnd
  /\ c2.guestFin = c.guestFin /\ c2.finSent = c.finSent /\ c2.dead = c.dead
  /\ c.toHost = s \o c2.toHost /\ h2 = [h EXCEPT !.wrote = h.wrote \o s]

LEMMA WriteKeeps ==
  ASSUME NEW c, NEW c2, NEW g, NEW h, NEW h2, NEW q, NEW d, NEW s, Core(c, q, d, g, h), Writes(c, c2, h, h2, s)
  PROVE  Core(c2, q, d, g, h2)
<1> SUFFICES ASSUME c2 \in Conn, s \in Seq(Nat), c.state = "Established",
                    c2.state = c.state, c2.una = c.una, c2.nxt = c.nxt, c2.rcv = c.rcv, c2.guestWnd = c.guestWnd,
                    c2.guestFin = c.guestFin, c2.finSent = c.finSent, c2.dead = c.dead,
                    c.toHost = s \o c2.toHost, h2 = [h EXCEPT !.wrote = h.wrote \o s]
             PROVE  Core(c2, q, d, g, h2)
  BY DEF Writes
<1>1. /\ c # NoConn /\ c2 # NoConn /\ Live(c) /\ Live(c2)
  BY StatesDiffer DEF Live
<1>2. ConnOK(c) /\ HostOK(h) /\ GuestOK(g)
  BY CoreParts
<1>3. c2.toHost \in Seq(Nat) /\ c.toHost \in Seq(Nat) /\ Len(c.toHost) <= Window
  BY <1>1, <1>2, ConnParts DEF Conn
<1>4. h \in Host /\ h.wrote \in Seq(Nat) /\ Len(h.wrote) \in Nat
  BY <1>2, HostParts
<1>5. /\ h.wrote \o s \in Seq(Nat) /\ Len(h.wrote \o s) = Len(h.wrote) + Len(s) /\ Len(s) \in Nat
      /\ Len(c.toHost) = Len(s) + Len(c2.toHost) /\ Len(c2.toHost) \in Nat
  BY <1>3, <1>4, JoinParts
<1>6. /\ h2 \in Host /\ h2.wrote = h.wrote \o s /\ h2.sent = h.sent /\ h2.shut = h.shut
      /\ h2.early = h.early /\ h2.failed = h.failed
  BY <1>4, <1>5 DEF Host
<1>7. Bytes(c2, h2) = Bytes(c, h)
  <2>1. (h.wrote \o s) \o c2.toHost = h.wrote \o (s \o c2.toHost)
    BY <1>3, <1>4, JoinTwice
  <2> QED
    BY <1>1, <1>6, <2>1 DEF Bytes
<1>8. Kept(c2, h2) = Kept(c, h) /\ Sent(c2, h2) = Sent(c, h) /\ InFlight(c2) = InFlight(c)
  BY <1>6, <1>7 DEF Kept, Sent, InFlight
<1>9. Heard(c2, h2) = Heard(c, h)
  BY <1>8 DEF Heard
<1>10. ConnOK(c2)
  <2>1. Len(c2.toHost) <= Window
    BY <1>3, <1>5, NetParts
  <2> QED
    BY <1>1, <1>2, <1>8, <2>1 DEF ConnOK
<1>11. HostOK(h2)
  <2>1. h.shut /\ ~h.early => GuestBytes <= Len(h2.wrote)
    <3>1. h.shut /\ ~h.early => GuestBytes <= Len(h.wrote)
      BY <1>2 DEF HostOK
    <3> QED
      BY <1>4, <1>5, <1>6, <3>1, NetParts
  <2> QED
    BY <1>2, <1>6, <2>1 DEF HostOK
<1>12. Stream(c2, h2)
  BY <1>1, <1>6, <1>7, CoreParts DEF Stream
<1>13. Link(c2, g, h2)
  BY <1>1, <1>8, <1>9, CoreParts DEF Link
<1>14. Windows(c2, q, g, h2)
  BY <1>1, <1>6, <1>9, CoreParts DEF Windows
<1>15. ToGuest(d, g, DataTo(c2, g, h2), AcksTo(c2, g, h2))
  BY <1>1, <1>8 DEF Core, DataTo, AcksTo
<1>16. FromGuest(q, Kept(c2, h2), DataFrom(c2, g, h2), Heard(c2, h2), AcksFrom(c2, g, h2))
  BY <1>1, <1>8, <1>9 DEF Core, DataFrom, AcksFrom
<1>17. Closed(c2, q, d, g) /\ ~Opening(c2, q, g)
  BY <1>1 DEF Core, Closed, Opening, Early
<1>18. Fresh(c2, q, d, g, h2) /\ Dead(c2, q, g, h2)
  BY <1>1, <1>6 DEF Core, Fresh, Dead
<1> QED
  BY <1>10, <1>11, <1>12, <1>13, <1>14, <1>15, <1>16, <1>17, <1>18 DEF Core

(* A connection that is over is forgotten.                                 *)
LEMMA SweepKeeps ==
  ASSUME NEW c, NEW g, NEW h, NEW q, NEW d, Core(c, q, d, g, h), c # NoConn, Over(c)
  PROVE  Core(NoConn, q, d, g, h)
<1>1. ConnOK(c) /\ HostOK(h) /\ GuestOK(g) /\ d \in Seq(Frame)
  BY CoreParts
<1>2. NoConn.state = "none" /\ ~Live(NoConn)
  BY NoConnParts
<1>3. h.wrote \in Seq(Nat) /\ c.toHost \in Seq(Nat) /\ Bytes(c, h) = h.wrote \o c.toHost
  BY <1>1, HostParts, ConnParts, FlowParts
<1>4. Bytes(NoConn, h) = h.wrote
  BY <1>3 DEF Bytes
<1>5. Stream(NoConn, h)
  <2>1. h.wrote \o c.toHost = UpTo(Len(h.wrote \o c.toHost))
    BY <1>3, CoreParts DEF Stream
  <2> QED
    BY <1>3, <1>4, <2>1, UpToPrefix DEF Stream
<1>6. ToGuest(d, g, DataTo(NoConn, g, h), AcksTo(NoConn, g, h))
  <2> SUFFICES ASSUME g.state = "open"
               PROVE  ToGuest(d, g, DataTo(NoConn, g, h), AcksTo(NoConn, g, h))
    BY DEF ToGuest
  <2>1. Got(g) \in Int /\ Said(g) \in Int /\ g.una \in Int /\ Talking(g)
    BY <1>1, GuestParts DEF Talking
  <2>2. DataTo(c, g, h) \in Int /\ AcksTo(c, g, h) \in Int
    BY <1>1, Limits
  <2>3. DataTo(NoConn, g, h) = Got(g) + Window /\ AcksTo(NoConn, g, h) = Said(g)
    BY <1>2 DEF DataTo, AcksTo
  <2>4. DataTo(c, g, h) <= Got(g) + Window /\ AcksTo(c, g, h) <= Said(g)
    <3>1. CASE Live(c)
      <4>1. /\ Heard(c, h) <= Got(g) /\ Kept(c, h) <= Said(g) /\ Sent(c, h) <= Heard(c, h) + Window
            /\ Heard(c, h) \in Int /\ Sent(c, h) \in Nat /\ Kept(c, h) \in Nat
        BY <2>1, <3>1, LiveNumbers, TalkingNumbers
      <4> QED
        BY <2>1, <3>1, <4>1, NetParts DEF DataTo, AcksTo
    <3>2. CASE ~Live(c)
      BY <2>1, <3>2, NetParts DEF DataTo, AcksTo
    <3> QED
      BY <3>1, <3>2
  <2>5. ~Has(d, "syn") /\ Ordered(d, Iss, Got(g), DataTo(c, g, h), Isn, g.una, AcksTo(c, g, h), HostBytes)
    BY DEF Core, ToGuest
  <2>6. Got(g) + Window \in Int
    BY <2>1, NetParts
  <2>7. Ordered(d, Iss, Got(g), Got(g) + Window, Isn, g.una, Said(g), HostBytes)
    BY <1>1, <2>1, <2>2, <2>4, <2>5, <2>6, OrderedWithin, NetParts
  <2> QED
    BY <2>3, <2>5, <2>7 DEF ToGuest
<1>7. ConnOK(NoConn) /\ Link(NoConn, g, h)
  BY <1>2 DEF ConnOK, Link
<1>8. Windows(NoConn, q, g, h)
  BY <1>2, CoreParts DEF Windows
<1>9. Closed(NoConn, q, d, g)
  BY DEF Core, Closed
<1>10. Opening(NoConn, q, g) => Early(c, d, g, h)
  BY <1>2 DEF Core, Opening
<1>11. Opening(NoConn, q, g) => Early(NoConn, d, g, h)
  BY <1>2, <1>10 DEF Early
<1>12. Fresh(NoConn, q, d, g, h)
  <2>1. ~h.failed => ~Has(q, "syn")
    <3>1. CASE c.dead
      BY <3>1 DEF Core, Dead
    <3>2. CASE c.guestFin
      BY <3>2 DEF Core, Opening, Early
    <3> QED
      BY <3>1, <3>2 DEF Over
  <2> QED
    BY <1>2, <2>1 DEF Fresh
<1>13. Dead(NoConn, q, g, h)
  BY DEF Dead
<1> QED
  BY <1>2, <1>5, <1>6, <1>7, <1>8, <1>9, <1>11, <1>12, <1>13 DEF Core

(* A frame that the network sends stands where it is to the guest.         *)
LEMMA StandsAt ==
  ASSUME NEW c, NEW g, NEW h, NEW q, NEW d, NEW f \in Frame, NEW p \in Int, Core(c, q, d, g, h), Live(c), g.state = "open",
         f.seq = Num(Iss, p), f.ack = c.rcv, Sent(c, h) <= p, p <= Heard(c, h) + Window
  PROVE  Pos(f.seq, Iss, Got(g)) = p /\ Pos(f.ack, Isn, g.una) = Kept(c, h)
<1>1. Talking(g) /\ GuestOK(g)
  BY CoreParts DEF Talking
<1>2. /\ Kept(c, h) \in Nat /\ Kept(c, h) \in Int /\ Sent(c, h) \in Nat /\ Heard(c, h) \in Int /\ c.rcv = Num(Isn, Kept(c, h))
  BY LiveNumbers
<1>3. /\ Heard(c, h) <= Got(g) /\ Got(g) <= Sent(c, h) /\ g.una <= Kept(c, h) /\ Kept(c, h) <= Said(g)
      /\ Got(g) \in Int /\ Said(g) \in Int /\ g.una \in Int /\ Said(g) <= g.una + Window + 1
  BY <1>1, TalkingNumbers, GuestParts
<1>4. Got(g) <= p /\ p < Got(g) + Seqs
  BY <1>2, <1>3, NetParts
<1>5. g.una <= Kept(c, h) /\ Kept(c, h) < g.una + Seqs
  BY <1>2, <1>3, NetParts
<1>6. Pos(Num(Iss, p), Iss, Got(g)) = p
  BY <1>3, <1>4, PosNum, NetParts
<1>7. Pos(Num(Isn, Kept(c, h)), Isn, g.una) = Kept(c, h)
  BY <1>2, <1>3, <1>5, PosNum, NetParts
<1> QED
  BY <1>2, <1>6, <1>7

LEMMA ConcatIndex ==
  ASSUME NEW d \in Seq(Frame), NEW e \in Seq(Frame)
  PROVE  /\ d \o e \in Seq(Frame)
         /\ \A i \in 1..Len(d \o e) : (i \in 1..Len(d) /\ (d \o e)[i] = d[i])
                                      \/ (\E j \in 1..Len(e) : (d \o e)[i] = e[j])
<1>1. /\ d \o e \in Seq(Frame) /\ Len(d \o e) = Len(d) + Len(e) /\ Len(d) \in Nat /\ Len(e) \in Nat
      /\ \A i \in 1..(Len(d) + Len(e)) : (d \o e)[i] = IF i <= Len(d) THEN d[i] ELSE e[i - Len(d)]
  BY ConcatProperties
<1>2. ASSUME NEW i \in 1..Len(d \o e)
      PROVE  (i \in 1..Len(d) /\ (d \o e)[i] = d[i]) \/ (\E j \in 1..Len(e) : (d \o e)[i] = e[j])
  <2>1. CASE i <= Len(d)
    BY <1>1, <2>1
  <2>2. CASE ~(i <= Len(d))
    <3>1. i - Len(d) \in 1..Len(e) /\ (d \o e)[i] = e[i - Len(d)]
      BY <1>1, <2>2
    <3> QED
      BY <3>1
  <2> QED
    BY <2>1, <2>2
<1> QED
  BY <1>1, <1>2

(* The network sends frames of its stream, and perhaps its end.            *)
LEMMA SendsKeeps ==
  ASSUME NEW c, NEW c2 \in Conn, NEW g, NEW h, NEW h2, NEW q, NEW d, NEW e \in Seq(Frame), NEW a \in Int,
         Core(c, q, d, g, h), c.state = "Established",
         c2.state = c.state, c2.una = c.una, c2.rcv = c.rcv, c2.guestWnd = c.guestWnd, c2.toHost = c.toHost,
         c2.guestFin = c.guestFin, c2.dead = c.dead, c.finSent => c2.finSent, c2.finSent => h2.shut,
         HostOK(h2), h2.wrote = h.wrote, h2.failed = h.failed, h2.sent <= g.read + Room,
         Sent(c2, h2) = a, c2.nxt = Num(Iss, a), Sent(c, h) <= a, a <= Heard(c, h) + Window,
         \A i \in 1..Len(e) : Plain(e[i]) /\ e[i].wnd <= Window /\ ("fin" \in e[i].flags => e[i].data = <<>>),
         g.state = "open" =>
           /\ Ordered(e, Iss, Got(g), a, Isn, g.una, Kept(c, h), HostBytes)
           /\ \A i \in 1..Len(e) : Beyond(e[i], Iss, Got(g), Sent(c, h), Isn, g.una, Kept(c, h))
  PROVE  Core(c2, q, d \o e, g, h2)
<1> DEFINE r == d \o e
           y == Heard(c, h)
<1>1. /\ c # NoConn /\ c2 # NoConn /\ Live(c) /\ Live(c2)
  BY StatesDiffer DEF Live
<1>2. ConnOK(c) /\ HostOK(h) /\ GuestOK(g) /\ d \in Seq(Frame)
  BY CoreParts
<1>3. /\ r \in Seq(Frame)
      /\ \A i \in 1..Len(r) : (i \in 1..Len(d) /\ r[i] = d[i]) \/ (\E j \in 1..Len(e) : r[i] = e[j])
  BY <1>2, ConcatIndex
<1> HIDE DEF r
<1>4. \A i \in 1..Len(r) : "syn" \in r[i].flags => i \in 1..Len(d) /\ r[i] = d[i]
  BY <1>3 DEF Plain
<1>5. Bytes(c2, h2) = Bytes(c, h)
  BY <1>1 DEF Bytes
<1>6. Kept(c2, h2) = Kept(c, h)
  BY <1>5 DEF Kept
<1>7. /\ y \in Int /\ Sent(c, h) \in Nat /\ Kept(c, h) \in Nat /\ Kept(c, h) \in Int /\ y <= Sent(c, h)
      /\ c.nxt = Num(Iss, Sent(c, h)) /\ c.rcv = Num(Isn, Kept(c, h))
  BY <1>1, LiveNumbers
<1>8. c.una = Num(Iss, y)
  BY <1>1, <1>2, <1>7, UnaNum
<1> HIDE DEF y
<1>9. InFlight(c2) = a - y
  <2>1. (Num(Iss, a) - Num(Iss, y)) % Seqs = (a - y) % Seqs
    BY <1>7, NumMinus, NetParts
  <2>2. a - y \in Numbers
    BY <1>7, NetParts DEF Numbers, y
  <2> QED
    BY <1>8, <2>1, <2>2, ModSmall DEF InFlight
<1>10. Heard(c2, h2) = y
  BY <1>7, <1>9 DEF Heard
<1>11. ConnOK(c2)
  <2>1. InFlight(c2) <= Window
    BY <1>7, <1>9, NetParts DEF y
  <2> QED
    BY <1>1, <1>2, <2>1 DEF ConnOK
<1>12. Stream(c2, h2)
  BY <1>1, <1>5, CoreParts DEF Stream
<1>13. Talking(g) => /\ y <= Got(g) /\ Got(g) <= Sent(c, h) /\ g.una <= Kept(c, h) /\ Kept(c, h) <= Said(g)
                     /\ Got(g) \in Int /\ Said(g) \in Int /\ g.una \in Int
  BY <1>1, TalkingNumbers DEF y
<1>14. Link(c2, g, h2)
  <2>1. Talking(g) => Got(g) <= a
    BY <1>7, <1>13
  <2> QED
    BY <1>6, <1>7, <1>10, <1>13, <2>1 DEF Link
<1>15. DataTo(c2, g, h2) = a /\ AcksTo(c2, g, h2) = Kept(c, h) /\ DataTo(c, g, h) = Sent(c, h) /\ AcksTo(c, g, h) = Kept(c, h)
  BY <1>1, <1>6 DEF DataTo, AcksTo
<1>16. ToGuest(r, g, DataTo(c2, g, h2), AcksTo(c2, g, h2))
  <2> SUFFICES ASSUME g.state = "open"
               PROVE  ToGuest(r, g, DataTo(c2, g, h2), AcksTo(c2, g, h2))
    BY DEF ToGuest
  <2> DEFINE s == Sent(c, h)
             k == Kept(c, h)
  <2>1. ~Has(d, "syn") /\ Ordered(d, Iss, Got(g), s, Isn, g.una, k, HostBytes)
    BY <1>15 DEF Core, ToGuest
  <2>2. Got(g) \in Int /\ g.una \in Int
    BY <1>2, GuestParts
  <2>3. Ordered(e, Iss, Got(g), a, Isn, g.una, k, HostBytes) /\ \A i \in 1..Len(e) : Beyond(e[i], Iss, Got(g), s, Isn, g.una, k)
    OBVIOUS
  <2>4. s \in Int /\ k \in Int /\ s <= a /\ k <= k
    BY <1>7
  <2> HIDE DEF s, k
  <2>5. Ordered(d \o e, Iss, Got(g), a, Isn, g.una, k, HostBytes)
    BY <1>2, <2>1, <2>2, <2>3, <2>4, ConcatOrdered, NetParts
  <2>6. ~Has(r, "syn")
    BY <1>4, <2>1 DEF Has
  <2> QED
    BY <1>15, <2>5, <2>6 DEF ToGuest, r, k
<1>17. FromGuest(q, Kept(c2, h2), DataFrom(c2, g, h2), Heard(c2, h2), AcksFrom(c2, g, h2))
  <2>1. /\ Kept(c, h) - Window - 1 \in Int /\ DataFrom(c, g, h) \in Int /\ AcksFrom(c, g, h) \in Int /\ q \in Seq(Frame)
        /\ FromGuest(q, Kept(c, h), DataFrom(c, g, h), y, AcksFrom(c, g, h))
    BY <1>1, LiveNumbers, CoreParts DEF y
  <2>2. DataFrom(c2, g, h2) = DataFrom(c, g, h) /\ DataFrom(c, g, h) <= DataFrom(c, g, h)
    BY <1>6, <2>1 DEF DataFrom
  <2>3. AcksFrom(c, g, h) <= AcksFrom(c2, g, h2) /\ AcksFrom(c2, g, h2) \in Int
    <3>1. CASE Talking(g)
      BY <1>13, <3>1 DEF AcksFrom
    <3>2. CASE ~Talking(g)
      BY <1>7, <3>2 DEF AcksFrom
    <3> QED
      BY <3>1, <3>2
  <2> QED
    BY <1>6, <1>7, <1>10, <2>1, <2>2, <2>3, OrderedWithin, NetParts DEF FromGuest
<1>18. Windows(c2, q, g, h2)
  BY <1>1, <1>10, CoreParts DEF Windows, y, Conn
<1>19. ForGuest(r)
  <2>1. ForGuest(d)
    BY CoreParts
  <2> QED
    BY <1>3, <2>1 DEF ForGuest
<1>20. SynAcks(r, g)
  <2>1. SynAcks(d, g)
    BY CoreParts
  <2> QED
    BY <1>4, <2>1 DEF SynAcks
<1>21. g.state # "closed"
  BY <1>1 DEF Core, Closed
<1>22. Closed(c2, q, r, g) /\ ~Opening(c2, q, g)
  BY <1>21 DEF Core, Closed, Opening, Early
<1>23. Fresh(c2, q, r, g, h2) /\ Dead(c2, q, g, h2)
  BY <1>1 DEF Core, Fresh, Dead
<1> QED
  BY <1>1, <1>3, <1>11, <1>12, <1>14, <1>16, <1>17, <1>18, <1>19, <1>20, <1>22, <1>23 DEF Core, r

LEMMA SegParts ==
  ASSUME NEW flags \in SUBSET Flags, NEW seq \in Int, NEW ack \in Int, NEW wnd \in Nat, NEW data \in Seq(Nat)
  PROVE  /\ Seg(flags, seq, ack, wnd, data) \in Frame
         /\ Seg(flags, seq, ack, wnd, data).flags = flags /\ Seg(flags, seq, ack, wnd, data).wnd = wnd
         /\ Seg(flags, seq, ack, wnd, data).data = data
         /\ Seg(flags, seq, ack, wnd, data).seq = seq % Seqs /\ Seg(flags, seq, ack, wnd, data).ack = ack % Seqs
         /\ seq \in Numbers => Seg(flags, seq, ack, wnd, data).seq = seq
         /\ ack \in Numbers => Seg(flags, seq, ack, wnd, data).ack = ack
<1>1. seq % Seqs \in Numbers /\ ack % Seqs \in Numbers
  BY ModRange
<1>2. Seg(flags, seq, ack, wnd, data) \in Frame
  BY <1>1 DEF Seg, Frame
<1>3. (seq \in Numbers => seq % Seqs = seq) /\ (ack \in Numbers => ack % Seqs = ack)
  BY ModSmall
<1> QED
  BY <1>2, <1>3 DEF Seg

(* It sends a frame without bytes: an acknowledgement, or the end.         *)
LEMMA OneKeeps ==
  ASSUME NEW c, NEW c2 \in Conn, NEW g, NEW h, NEW q, NEW d, NEW f \in Frame,
         Core(c, q, d, g, h), c.state = "Established",
         c2.state = c.state, c2.una = c.una, c2.rcv = c.rcv, c2.guestWnd = c.guestWnd, c2.toHost = c.toHost,
         c2.guestFin = c.guestFin, c2.dead = c.dead, Plain(f), f.seq = c.nxt, f.ack = c.rcv, f.wnd <= Window, f.data = <<>>,
         \/ "fin" \notin f.flags /\ c2.finSent = c.finSent /\ c2.nxt = c.nxt
         \/ /\ "fin" \in f.flags /\ c2.finSent /\ ~c.finSent /\ c2.nxt = (c.nxt + 1) % Seqs
            /\ h.shut /\ InFlight(c) < Window
  PROVE  Core(c2, q, Append(d, f), g, h)
<1> DEFINE e == <<f>>
           s == Sent(c, h)
           a == WithEnd(s, "fin" \in f.flags)
           k == Kept(c, h)
<1>1. Live(c) /\ c # NoConn /\ ConnOK(c) /\ HostOK(h) /\ GuestOK(g) /\ d \in Seq(Frame)
  BY StatesDiffer, CoreParts DEF Live
<1>2. /\ s \in Nat /\ s \in Int /\ Heard(c, h) \in Int /\ s <= Heard(c, h) + Window /\ c.nxt = Num(Iss, s) /\ k \in Int
  BY <1>1, LiveNumbers
<1>3. InFlight(c) \in Nat /\ Heard(c, h) = s - InFlight(c)
  BY <1>1, ConnParts DEF Heard
<1>4. h.sent \in Nat /\ c.finSent \in BOOLEAN /\ (~c.finSent => s = h.sent)
  BY <1>1, FlowParts, HostParts, ConnParts
<1>5. Length(f) = IF "fin" \in f.flags THEN 1 ELSE 0
  <2>1. Len(f.data) = 0
    OBVIOUS
  <2> QED
    BY <2>1 DEF Length, WithEnd
<1>6. h.shut => h.sent = HostBytes
  BY <1>1 DEF HostOK
<1> HIDE DEF s, k
<1>7. a \in Int /\ s <= a /\ a <= Heard(c, h) + Window /\ a = s + Length(f)
  <2>1. CASE "fin" \in f.flags
    BY <1>2, <1>3, <1>5, <2>1, NetParts DEF WithEnd
  <2>2. CASE "fin" \notin f.flags
    BY <1>2, <1>5, <2>2, NetParts DEF WithEnd
  <2> QED
    BY <2>1, <2>2
<1>8. c2.nxt = Num(Iss, a) /\ Sent(c2, h) = a
  <2>1. CASE "fin" \in f.flags
    <3>1. (Num(Iss, s) + 1) % Seqs = Num(Iss, s + 1) /\ a = s + 1
      BY <1>2, <2>1, NumAdd, NetParts DEF WithEnd
    <3>2. Sent(c2, h) = h.sent + 1 /\ s = h.sent
      BY <1>4, <2>1 DEF Sent, WithEnd
    <3> QED
      BY <1>2, <2>1, <3>1, <3>2
  <2>2. CASE "fin" \notin f.flags
    BY <1>2, <2>2 DEF WithEnd, Sent, s
  <2> QED
    BY <2>1, <2>2
<1>9. e \in Seq(Frame) /\ Len(e) = 1 /\ e[1] = f /\ Append(d, f) = d \o e
  BY <1>1, AppendIsConcat
<1> HIDE DEF e, a
<1>10. \A i \in 1..Len(e) : i = 1 /\ e[i] = f
  BY <1>9
<1>11. \A i, j \in 1..Len(e) : ~(i < j)
  BY <1>10
<1>12. ASSUME g.state = "open"
       PROVE  /\ Ordered(e, Iss, Got(g), a, Isn, g.una, k, HostBytes)
              /\ \A i \in 1..Len(e) : Beyond(e[i], Iss, Got(g), s, Isn, g.una, k)
  <2>1. Pos(f.seq, Iss, Got(g)) = s /\ Pos(f.ack, Isn, g.una) = k
    <3>1. s <= s
      BY <1>2
    <3> QED
      BY <1>1, <1>2, <1>12, <3>1, StandsAt DEF s, k
  <2>2. "fin" \in f.flags => s + 0 = HostBytes
    BY <1>4, <1>6, <1>2
  <2>3. f.data = [j \in 1..Len(f.data) |-> s + j] /\ Len(f.data) = 0
    OBVIOUS
  <2>4. k <= k
    BY <1>2
  <2>5. InPlace(f, Iss, Got(g), a, Isn, g.una, k, HostBytes)
    <3>1. s + Length(f) <= a
      BY <1>7
    <3> QED
      BY <2>1, <2>2, <2>3, <2>4, <3>1 DEF InPlace
  <2>6. Beyond(f, Iss, Got(g), s, Isn, g.una, k)
    BY <1>2, <2>1, <2>4 DEF Beyond
  <2> QED
    BY <1>10, <1>11, <2>5, <2>6 DEF Ordered
<1>13. h.sent <= g.read + Room
  BY CoreParts DEF Windows
<1>14. c2.finSent => h.shut
  BY <1>1, CoreParts DEF Stream
<1>15. \A i \in 1..Len(e) : Plain(e[i]) /\ e[i].wnd <= Window /\ ("fin" \in e[i].flags => e[i].data = <<>>)
  BY <1>10
<1>16. c.finSent => c2.finSent
  OBVIOUS
<1>17. Core(c2, q, d \o e, g, h)
  BY <1>1, <1>7, <1>8, <1>9, <1>12, <1>13, <1>14, <1>15, <1>16, SendsKeeps DEF s, k
<1> QED
  BY <1>9, <1>17

(* The segments of k bytes.                                                *)
PieceAt(i) == (i - 1) * Mss
PieceLen(i, k) == Least(Mss, k - PieceAt(i))
Pieces(k) == (k + Mss - 1) \div Mss

LEMMA PieceParts ==
  ASSUME NEW k \in Nat
  PROVE  /\ Pieces(k) \in Nat
         /\ \A i \in 1..Pieces(k) : /\ PieceAt(i) \in Nat /\ PieceAt(i) < k
                                    /\ PieceLen(i, k) \in Nat /\ PieceAt(i) + PieceLen(i, k) <= k
         /\ \A i, j \in 1..Pieces(k) : i < j => PieceAt(i) + PieceLen(i, k) <= PieceAt(j)
<1> DEFINE x == k + Mss - 1
           n == Pieces(k)
<1>1. Mss \in Nat /\ Mss > 0 /\ x \in Nat
  BY NetParts
<1>2. n \in Int /\ x % Mss \in Nat /\ x % Mss < Mss /\ x = Mss * n + (x % Mss)
  BY <1>1 DEF Pieces
<1>3. n \in Nat
  <2>1. n <= -1 => Mss * n <= -Mss
    BY <1>1, <1>2
  <2> QED
    BY <1>1, <1>2, <2>1
<1>4. n * Mss <= k + Mss - 1
  BY <1>1, <1>2
<1> HIDE DEF n, x
<1>5. ASSUME NEW i \in Int, NEW j \in Int, i <= j
      PROVE  i * Mss <= j * Mss
  BY <1>1, <1>5
<1>6. ASSUME NEW i \in 1..n
      PROVE  PieceAt(i) \in Nat /\ PieceAt(i) < k /\ PieceAt(i) + Mss = i * Mss
  <2>1. i \in Int /\ n \in Int /\ 0 \in Int /\ i - 1 \in Int /\ i <= n /\ 0 <= i - 1
    BY <1>3
  <2>2. i * Mss <= n * Mss /\ 0 * Mss <= (i - 1) * Mss
    BY <1>5, <2>1
  <2>3. (i - 1) * Mss + Mss = i * Mss /\ 0 * Mss = 0 /\ (i - 1) * Mss \in Int /\ i * Mss \in Int /\ n * Mss \in Int
    BY <1>1, <2>1
  <2> QED
    BY <1>1, <1>4, <2>2, <2>3 DEF PieceAt
<1>7. ASSUME NEW i \in 1..n
      PROVE  PieceLen(i, k) \in Nat /\ PieceAt(i) + PieceLen(i, k) <= k /\ PieceLen(i, k) <= Mss
  <2>1. PICK a \in Nat : a = PieceAt(i) /\ a < k
    BY <1>6
  <2> QED
    BY <1>1, <2>1 DEF PieceLen, Least
<1>8. ASSUME NEW i \in 1..n, NEW j \in 1..n, i < j
      PROVE  PieceAt(i) + PieceLen(i, k) <= PieceAt(j)
  <2>1. i \in Int /\ j - 1 \in Int /\ i <= j - 1
    BY <1>3, <1>8
  <2>2. i * Mss <= (j - 1) * Mss
    BY <1>5, <2>1
  <2>3. PieceAt(i) + Mss <= PieceAt(j)
    BY <1>6, <2>2 DEF PieceAt
  <2> QED
    BY <1>1, <1>6, <1>7, <2>3
<1> QED
  BY <1>3, <1>6, <1>7, <1>8 DEF n

PieceFrame(c, first, k, i) ==
  Seg({"ack", "psh"}, c.nxt + PieceAt(i), c.rcv, WindowOf(c), [j \in 1..PieceLen(i, k) |-> first + PieceAt(i) + j])

LEMMA PieceFrameParts ==
  ASSUME NEW c, NEW h, NEW k \in Nat, ConnOK(c), HostOK(h), c # NoConn, ~c.finSent,
         c.nxt = Num(Iss, Sent(c, h)), NEW i \in 1..Pieces(k)
  PROVE  LET f == PieceFrame(c, h.sent, k, i)
         IN  /\ f \in Frame /\ Plain(f) /\ "fin" \notin f.flags /\ f.wnd = WindowOf(c) /\ f.ack = c.rcv
             /\ f.seq = Num(Iss, Sent(c, h) + PieceAt(i)) /\ Len(f.data) = PieceLen(i, k) /\ Length(f) = PieceLen(i, k)
             /\ f.data = [j \in 1..Len(f.data) |-> Sent(c, h) + PieceAt(i) + j]
<1> DEFINE f == PieceFrame(c, h.sent, k, i)
           data == [j \in 1..PieceLen(i, k) |-> h.sent + PieceAt(i) + j]
<1>1. PieceAt(i) \in Nat /\ PieceLen(i, k) \in Nat
  BY PieceParts
<1>2. c.nxt \in Numbers /\ c.nxt \in Int /\ c.rcv \in Numbers /\ c.rcv \in Int /\ WindowOf(c) \in Nat
  BY ConnParts DEF Numbers
<1>3. Sent(c, h) = h.sent /\ h.sent \in Nat
  BY FlowParts, HostParts
<1>4. data \in Seq(Nat) /\ Len(data) = PieceLen(i, k)
  BY <1>1, <1>3
<1>5. data = [j \in 1..Len(data) |-> Sent(c, h) + PieceAt(i) + j]
  BY <1>3, <1>4
<1>6. f = Seg({"ack", "psh"}, c.nxt + PieceAt(i), c.rcv, WindowOf(c), data)
  BY DEF PieceFrame
<1>7. {"ack", "psh"} \in SUBSET Flags /\ c.nxt + PieceAt(i) \in Int
  BY <1>1, <1>2 DEF Flags
<1> HIDE DEF data, f
<1>8. /\ f \in Frame /\ f.flags = {"ack", "psh"} /\ f.wnd = WindowOf(c) /\ f.data = data /\ f.ack = c.rcv
      /\ f.seq = (c.nxt + PieceAt(i)) % Seqs
  BY <1>2, <1>4, <1>6, <1>7, SegParts
<1>9. f.seq = Num(Iss, Sent(c, h) + PieceAt(i))
  <2>1. PieceAt(i) \in Int /\ Sent(c, h) \in Int
    BY <1>1, <1>3
  <2>2. (Num(Iss, Sent(c, h)) + PieceAt(i)) % Seqs = Num(Iss, Sent(c, h) + PieceAt(i))
    BY <2>1, NumAdd, NetParts
  <2> QED
    BY <1>8, <2>2
<1>10. Plain(f) /\ "fin" \notin f.flags
  BY <1>8 DEF Plain
<1>11. Length(f) = PieceLen(i, k)
  BY <1>4, <1>8, <1>10 DEF Length, WithEnd
<1> QED
  BY <1>4, <1>5, <1>8, <1>9, <1>10, <1>11 DEF f

(* As many bytes as it may send keep within the window and the room.       *)
LEMMA LimitParts ==
  ASSUME NEW c, NEW k \in Nat, ConnOK(c), c # NoConn, k <= ReadLimit(c)
  PROVE  k + InFlight(c) <= c.guestWnd /\ k + InFlight(c) <= Window
<1>1. InFlight(c) \in Nat /\ c.guestWnd \in Nat /\ Window \in Nat
  BY ConnParts, NetParts
<1>2. PICK l \in Nat : l = Least(c.guestWnd, Window) /\ l <= c.guestWnd /\ l <= Window
  BY <1>1 DEF Least
<1>3. k <= l - InFlight(c)
  BY <1>2 DEF ReadLimit
<1> QED
  BY <1>1, <1>2, <1>3

(* It sends k bytes of the host's.                                         *)
LEMMA SegmentsKeeps ==
  ASSUME NEW c, NEW c2 \in Conn, NEW g, NEW h, NEW h2, NEW q, NEW d, NEW e \in Seq(Frame), NEW k \in Nat,
         Core(c, q, d, g, h), c.state = "Established", ~c.finSent,
         c2.state = c.state, c2.una = c.una, c2.rcv = c.rcv, c2.guestWnd = c.guestWnd, c2.toHost = c.toHost,
         c2.guestFin = c.guestFin, c2.finSent = c.finSent, c2.dead = c.dead, c2.nxt = (c.nxt + k) % Seqs,
         k > 0, k <= ReadLimit(c), h.sent + k <= HostBytes,
         h2 \in Host, h2.sent = h.sent + k, h2.wrote = h.wrote, h2.shut = h.shut, h2.early = h.early, h2.failed = h.failed,
         Len(e) = Pieces(k), \A i \in 1..Len(e) : e[i] = PieceFrame(c, h.sent, k, i)
  PROVE  Core(c2, q, d \o e, g, h2)
<1> DEFINE s == Sent(c, h)
           a == s + k
           y == Heard(c, h)
           K == Kept(c, h)
<1>1. Live(c) /\ c # NoConn /\ ConnOK(c) /\ HostOK(h) /\ GuestOK(g) /\ d \in Seq(Frame) /\ Windows(c, q, g, h)
  BY StatesDiffer, CoreParts DEF Live
<1>2. /\ s \in Nat /\ s \in Int /\ y \in Int /\ c.nxt = Num(Iss, s) /\ K \in Int
  BY <1>1, LiveNumbers
<1>3. InFlight(c) \in Nat /\ y = s - InFlight(c) /\ c.guestWnd \in Nat /\ WindowOf(c) \in Nat /\ WindowOf(c) <= Window
  <2>1. WindowOf(c) \in Nat /\ WindowOf(c) + Len(c.toHost) = Window /\ Len(c.toHost) \in Nat
    BY <1>1, ConnParts
  <2> QED
    BY <1>1, <2>1, ConnParts DEF Heard
<1>4. h.sent \in Nat /\ s = h.sent /\ a \in Int /\ s <= a
  <2>1. h.sent \in Nat
    BY <1>1, HostParts
  <2>2. s = h.sent
    BY DEF Sent, WithEnd
  <2> HIDE DEF s
  <2> QED
    BY <1>2, <2>1, <2>2
<1>5. /\ Pieces(k) \in Nat
      /\ \A i \in 1..Pieces(k) : /\ PieceAt(i) \in Nat /\ PieceAt(i) < k
                                 /\ PieceLen(i, k) \in Nat /\ PieceAt(i) + PieceLen(i, k) <= k
      /\ \A i, j \in 1..Pieces(k) : i < j => PieceAt(i) + PieceLen(i, k) <= PieceAt(j)
  BY PieceParts
<1>8. ASSUME NEW i \in 1..Len(e)
      PROVE  /\ e[i] \in Frame /\ Plain(e[i]) /\ "fin" \notin e[i].flags /\ e[i].wnd = WindowOf(c) /\ e[i].ack = c.rcv
             /\ e[i].seq = Num(Iss, s + PieceAt(i)) /\ Length(e[i]) = PieceLen(i, k)
             /\ e[i].data = [j \in 1..Len(e[i].data) |-> s + PieceAt(i) + j]
  <2>1. i \in 1..Pieces(k) /\ e[i] = PieceFrame(c, h.sent, k, i)
    OBVIOUS
  <2> DEFINE f == PieceFrame(c, h.sent, k, i)
  <2>2. /\ f \in Frame /\ Plain(f) /\ "fin" \notin f.flags /\ f.wnd = WindowOf(c) /\ f.ack = c.rcv
        /\ f.seq = Num(Iss, s + PieceAt(i)) /\ Length(f) = PieceLen(i, k)
        /\ f.data = [j \in 1..Len(f.data) |-> s + PieceAt(i) + j]
    BY <1>1, <1>2, <2>1, PieceFrameParts
  <2> HIDE DEF f, s
  <2>3. e[i] = f
    BY <2>1 DEF f
  <2> QED
    BY <2>2, <2>3
<1> HIDE DEF s, a, y, K
<1>9. a <= y + Window /\ a <= g.read + Room
  <2>1. k + InFlight(c) <= c.guestWnd /\ k + InFlight(c) <= Window
    BY <1>1, LimitParts
  <2>2. y + c.guestWnd <= g.read + Room
    BY <1>1 DEF Windows, y
  <2>3. g.read \in Nat
    BY <1>1, GuestParts
  <2>4. PICK n \in Nat : n = InFlight(c)
    BY <1>3
  <2>5. y = s - n /\ k + n <= c.guestWnd /\ k + n <= Window
    BY <1>3, <2>1, <2>4
  <2>6. a = y + (k + n) /\ k + n \in Int
    BY <1>2, <2>5 DEF a
  <2>7. PICK w \in Nat : w = c.guestWnd
    BY <1>3
  <2>8. k + n <= w /\ y + w <= g.read + Room /\ k + n <= Window
    BY <2>2, <2>5, <2>7
  <2> QED
    BY <1>2, <2>3, <2>6, <2>8, NetParts
<1>10. h2.sent = a
  BY <1>4 DEF a
<1>11. HostOK(h2)
  <2>1. ~h.shut
    <3>1. h.shut => h.sent = HostBytes
      BY <1>1 DEF HostOK
    <3> QED
      BY <1>4, <3>1, NetParts
  <2>2. h2.sent <= HostBytes
    BY <1>4, <1>10 DEF a
  <2> QED
    BY <1>10, <2>1, <2>2 DEF HostOK
<1>12. Sent(c2, h2) = a
  BY <1>10 DEF Sent, WithEnd
<1>13. c2.nxt = Num(Iss, a)
  <2>1. k \in Int
    OBVIOUS
  <2>2. (Num(Iss, s) + k) % Seqs = Num(Iss, s + k)
    BY <1>2, <2>1, NumAdd, NetParts
  <2> QED
    BY <1>2, <2>2 DEF a
<1>14. ASSUME g.state = "open"
       PROVE  /\ Ordered(e, Iss, Got(g), a, Isn, g.una, K, HostBytes)
              /\ \A i \in 1..Len(e) : Beyond(e[i], Iss, Got(g), s, Isn, g.una, K)
  <2>1. \A i \in 1..Len(e) : Pos(e[i].seq, Iss, Got(g)) = s + PieceAt(i) /\ Pos(e[i].ack, Isn, g.una) = K
    <3> SUFFICES ASSUME NEW i \in 1..Len(e)
                 PROVE  Pos(e[i].seq, Iss, Got(g)) = s + PieceAt(i) /\ Pos(e[i].ack, Isn, g.una) = K
      OBVIOUS
    <3>1. e[i] \in Frame /\ e[i].seq = Num(Iss, s + PieceAt(i)) /\ e[i].ack = c.rcv /\ PieceAt(i) \in Nat /\ PieceAt(i) < k
      BY <1>5, <1>8
    <3>2. PICK p \in Int : p = s + PieceAt(i)
      BY <1>2, <3>1
    <3>3. s <= p /\ p <= y + Window
      <4>1. PICK n \in Nat : n = PieceAt(i) /\ n < k
        BY <3>1
      <4>2. p = s + n /\ s + k <= y + Window
        BY <1>9, <3>2, <4>1 DEF a
      <4> QED
        BY <1>2, <4>1, <4>2, NetParts
    <3>4. PICK f \in Frame : f = e[i]
      BY <3>1
    <3>5. f.seq = Num(Iss, p) /\ f.ack = c.rcv
      BY <3>1, <3>2, <3>4
    <3>6. Pos(f.seq, Iss, Got(g)) = p /\ Pos(f.ack, Isn, g.una) = K
      BY <1>1, <1>14, <3>3, <3>5, StandsAt DEF s, y, K
    <3> QED
      BY <3>2, <3>4, <3>6
  <2>2. \A i \in 1..Len(e) : s + PieceAt(i) + PieceLen(i, k) <= a /\ s <= s + PieceAt(i) /\ K <= K
    BY <1>2, <1>5 DEF a
  <2>3. \A i \in 1..Len(e) : InPlace(e[i], Iss, Got(g), a, Isn, g.una, K, HostBytes)
    BY <1>8, <2>1, <2>2 DEF InPlace
  <2>4. \A i \in 1..Len(e) : Beyond(e[i], Iss, Got(g), s, Isn, g.una, K)
    BY <2>1, <2>2 DEF Beyond
  <2>5. \A i, j \in 1..Len(e) : i < j => s + PieceAt(i) + PieceLen(i, k) <= s + PieceAt(j)
    BY <1>2, <1>5
  <2>6. ASSUME NEW i \in 1..Len(e), NEW j \in 1..Len(e), i < j
        PROVE  Follows(e[i], e[j], Iss, Got(g), Isn, g.una)
    <3>1. Pos(e[i].seq, Iss, Got(g)) + Length(e[i]) <= Pos(e[j].seq, Iss, Got(g))
      BY <1>8, <2>1, <2>5, <2>6
    <3>2. Pos(e[i].ack, Isn, g.una) <= Pos(e[j].ack, Isn, g.una)
      BY <1>2, <2>1
    <3> QED
      BY <3>1, <3>2 DEF Follows
  <2> QED
    BY <2>3, <2>4, <2>6 DEF Ordered
<1>15. \A i \in 1..Len(e) : Plain(e[i]) /\ e[i].wnd <= Window /\ ("fin" \in e[i].flags => e[i].data = <<>>)
  BY <1>3, <1>8
<1>16. ~c2.finSent /\ s <= a /\ h2.sent <= g.read + Room
  BY <1>4, <1>9, <1>10
<1> QED
  BY <1>1, <1>2, <1>4, <1>9, <1>10, <1>11, <1>12, <1>13, <1>14, <1>15, <1>16, SendsKeeps DEF s, y, K
-------------------------------------------------------------------------------
(* A stage of a step of the network: the connection, the frames that leave *)
(* and what the host has.                                                  *)
Stage(c, o, w) == [c |-> c, out |-> o, wrote |-> w]

LEMMA StageIs ==
  ASSUME NEW c, NEW o, NEW w, NEW x
  PROVE  /\ Stage(c, o, w).c = c /\ Stage(c, o, w).out = o /\ Stage(c, o, w).wrote = w
         /\ [Stage(c, o, w) EXCEPT !.c = x] = Stage(x, o, w)
         /\ [Stage(c, o, w) EXCEPT !.out = x] = Stage(c, x, w)
         /\ [Stage(c, o, w) EXCEPT !.wrote = x] = Stage(c, o, x)
  BY DEF Stage
LEMMA TwoFields ==
  ASSUME NEW n, NEW x, NEW y, NEW z
  PROVE  /\ [n EXCEPT !.out = x, !.c.lastWnd = y] = [[n EXCEPT !.out = x] EXCEPT !.c.lastWnd = y]
         /\ [n EXCEPT !.out = x, !.c.dead = y] = [[n EXCEPT !.out = x] EXCEPT !.c.dead = y]
         /\ [n EXCEPT !.c.nxt = x, !.c.state = y] = [[n EXCEPT !.c.nxt = x] EXCEPT !.c.state = y]
         /\ [n EXCEPT !.c.nxt = x, !.c.finSent = y] = [[n EXCEPT !.c.nxt = x] EXCEPT !.c.finSent = y]
         /\ [n EXCEPT !.out = x, !.c.nxt = y, !.c.lastWnd = z]
              = [[[n EXCEPT !.out = x] EXCEPT !.c.nxt = y] EXCEPT !.c.lastWnd = z]
         /\ [n EXCEPT !.c.toHost = x, !.wrote = y, !.c.hostShut = z]
              = [[[n EXCEPT !.c.toHost = x] EXCEPT !.wrote = y] EXCEPT !.c.hostShut = z]
  OBVIOUS

(* The changes that the steps make of a stage, and what they come to.      *)
SetsWindow(n, x, y) == [n EXCEPT !.out = x, !.c.lastWnd = y]
SetsOver(n, y) == [n EXCEPT !.c.dead = y]
SetsDead(n, x, y) == [n EXCEPT !.out = x, !.c.dead = y]
SetsState(n, x, y) == [n EXCEPT !.c.nxt = x, !.c.state = y]
SetsFin(n, x, y) == [n EXCEPT !.c.nxt = x, !.c.finSent = y]
SetsNumber(n, x, y, z) == [n EXCEPT !.out = x, !.c.nxt = y, !.c.lastWnd = z]
SetsBytes(n, x, y, z) == [n EXCEPT !.c.toHost = x, !.wrote = y, !.c.hostShut = z]

WithState(c, x, y) == [[c EXCEPT !.nxt = x] EXCEPT !.state = y]
WithFin(c, x, y) == [[c EXCEPT !.nxt = x] EXCEPT !.finSent = y]
WithNumber(c, x, y) == [[c EXCEPT !.nxt = x] EXCEPT !.lastWnd = y]
WithBytes(c, x, y) == [[c EXCEPT !.toHost = x] EXCEPT !.hostShut = y]

LEMMA OverSet ==
  ASSUME NEW c, NEW o, NEW w, NEW y
  PROVE  SetsOver(Stage(c, o, w), y) = Stage([c EXCEPT !.dead = y], o, w)
  BY DEF Stage, SetsOver

LEMMA OutAndWindow ==
  ASSUME NEW c, NEW o, NEW w, NEW x, NEW y
  PROVE  SetsWindow(Stage(c, o, w), x, y) = Stage([c EXCEPT !.lastWnd = y], x, w)
<1>1. [Stage(c, o, w) EXCEPT !.out = x, !.c.lastWnd = y] = [[Stage(c, o, w) EXCEPT !.out = x] EXCEPT !.c.lastWnd = y]
  BY TwoFields
<1>2. [Stage(c, o, w) EXCEPT !.out = x] = Stage(c, x, w)
  BY StageIs
<1>3. [Stage(c, x, w) EXCEPT !.c.lastWnd = y] = Stage([c EXCEPT !.lastWnd = y], x, w)
  BY DEF Stage
<1> QED
  BY <1>1, <1>2, <1>3 DEF SetsWindow

LEMMA OutAndDead ==
  ASSUME NEW c, NEW o, NEW w, NEW x, NEW y
  PROVE  SetsDead(Stage(c, o, w), x, y) = Stage([c EXCEPT !.dead = y], x, w)
<1>1. [Stage(c, o, w) EXCEPT !.out = x, !.c.dead = y] = [[Stage(c, o, w) EXCEPT !.out = x] EXCEPT !.c.dead = y]
  BY TwoFields
<1>2. [Stage(c, o, w) EXCEPT !.out = x] = Stage(c, x, w)
  BY StageIs
<1>3. [Stage(c, x, w) EXCEPT !.c.dead = y] = Stage([c EXCEPT !.dead = y], x, w)
  BY DEF Stage
<1> QED
  BY <1>1, <1>2, <1>3 DEF SetsDead

LEMMA NumberAnd ==
  ASSUME NEW c, NEW o, NEW w, NEW x, NEW y
  PROVE  /\ SetsState(Stage(c, o, w), x, y) = Stage(WithState(c, x, y), o, w)
         /\ SetsFin(Stage(c, o, w), x, y) = Stage(WithFin(c, x, y), o, w)
<1> DEFINE c2 == [c EXCEPT !.nxt = x]
<1>1. [Stage(c, o, w) EXCEPT !.c.nxt = x, !.c.state = y] = [[Stage(c, o, w) EXCEPT !.c.nxt = x] EXCEPT !.c.state = y]
  BY TwoFields
<1>2. [Stage(c, o, w) EXCEPT !.c.nxt = x, !.c.finSent = y] = [[Stage(c, o, w) EXCEPT !.c.nxt = x] EXCEPT !.c.finSent = y]
  BY TwoFields
<1>3. [Stage(c, o, w) EXCEPT !.c.nxt = x] = Stage(c2, o, w)
  BY DEF Stage
<1> HIDE DEF c2
<1>4. [Stage(c2, o, w) EXCEPT !.c.state = y] = Stage([c2 EXCEPT !.state = y], o, w)
  BY DEF Stage
<1>5. [Stage(c2, o, w) EXCEPT !.c.finSent = y] = Stage([c2 EXCEPT !.finSent = y], o, w)
  BY DEF Stage
<1> QED
  BY <1>1, <1>2, <1>3, <1>4, <1>5 DEF c2, SetsState, SetsFin, WithState, WithFin

LEMMA OutAndNumber ==
  ASSUME NEW c, NEW o, NEW w, NEW x, NEW y, NEW z
  PROVE  SetsNumber(Stage(c, o, w), x, y, z)
           = Stage(WithNumber(c, y, z), x, w)
<1> DEFINE c2 == [c EXCEPT !.nxt = y]
<1>1. [Stage(c, o, w) EXCEPT !.out = x, !.c.nxt = y, !.c.lastWnd = z]
        = [[[Stage(c, o, w) EXCEPT !.out = x] EXCEPT !.c.nxt = y] EXCEPT !.c.lastWnd = z]
  BY TwoFields
<1>2. [Stage(c, o, w) EXCEPT !.out = x] = Stage(c, x, w)
  BY StageIs
<1>3. [Stage(c, x, w) EXCEPT !.c.nxt = y] = Stage(c2, x, w)
  BY DEF Stage
<1> HIDE DEF c2
<1>4. [Stage(c2, x, w) EXCEPT !.c.lastWnd = z] = Stage([c2 EXCEPT !.lastWnd = z], x, w)
  BY DEF Stage
<1> QED
  BY <1>1, <1>2, <1>3, <1>4 DEF c2, SetsNumber, WithNumber

LEMMA BytesAndShut ==
  ASSUME NEW c, NEW o, NEW w, NEW x, NEW y, NEW z
  PROVE  SetsBytes(Stage(c, o, w), x, y, z)
           = Stage(WithBytes(c, x, z), o, y)
<1> DEFINE c2 == [c EXCEPT !.toHost = x]
<1>1. [Stage(c, o, w) EXCEPT !.c.toHost = x, !.wrote = y, !.c.hostShut = z]
        = [[[Stage(c, o, w) EXCEPT !.c.toHost = x] EXCEPT !.wrote = y] EXCEPT !.c.hostShut = z]
  BY TwoFields
<1>2. [Stage(c, o, w) EXCEPT !.c.toHost = x] = Stage(c2, o, w)
  BY DEF Stage
<1>3. [Stage(c2, o, w) EXCEPT !.wrote = y] = Stage(c2, o, y)
  BY StageIs
<1> HIDE DEF c2
<1>4. [Stage(c2, o, y) EXCEPT !.c.hostShut = z] = Stage([c2 EXCEPT !.hostShut = z], o, y)
  BY DEF Stage
<1> QED
  BY <1>1, <1>2, <1>3, <1>4 DEF c2, SetsBytes, WithBytes

-------------------------------------------------------------------------------
(* The steps.  What waits for the guest is all that is in rx and in out.   *)

LEMMA JoinFrames ==
  ASSUME NEW r \in Seq(Frame), NEW d \in Seq(Frame), NEW e \in Seq(Frame), NEW f \in Frame
  PROVE  /\ r \o d \in Seq(Frame) /\ d \o e \in Seq(Frame) /\ Append(d, f) \in Seq(Frame)
         /\ r \o (d \o e) = (r \o d) \o e
         /\ r \o Append(d, f) = Append(r \o d, f)
<1>1. \A S : \A a, b, c \in Seq(S) : (a \o b) \o c = a \o (b \o c)
  BY ConcatAssociative
<1>2. (r \o d) \o e = r \o (d \o e) /\ (r \o d) \o <<f>> = r \o (d \o <<f>>)
  <2>1. <<f>> \in Seq(Frame)
    OBVIOUS
  <2>2. (r \o d) \o e = r \o (d \o e)
    BY <1>1
  <2>3. (r \o d) \o <<f>> = r \o (d \o <<f>>)
    BY <1>1, <2>1
  <2> QED
    BY <2>2, <2>3
<1>3. r \o d \in Seq(Frame) /\ d \o e \in Seq(Frame) /\ Append(d, f) \in Seq(Frame) /\ <<f>> \in Seq(Frame)
  BY ConcatProperties, AppendProperties
<1>4. Append(d, f) = d \o <<f>> /\ Append(r \o d, f) = (r \o d) \o <<f>>
  BY <1>3, AppendIsConcat
<1> QED
  BY <1>2, <1>3, <1>4

LEMMA JoinSeqs ==
  ASSUME NEW r \in Seq(Frame), NEW d \in Seq(Frame), NEW e \in Seq(Frame)
  PROVE  r \o (d \o e) = (r \o d) \o e /\ d \o e \in Seq(Frame)
<1>1. \A S : \A a, b, c \in Seq(S) : (a \o b) \o c = a \o (b \o c)
  BY ConcatAssociative
<1>2. (r \o d) \o e = r \o (d \o e)
  BY <1>1
<1> QED
  BY <1>2, ConcatProperties

(* A stage of a step of the network, which leaves q of the guest's frames. *)
Fits(n, q) ==
  /\ n = Stage(n.c, n.out, n.wrote)
  /\ rx \in Seq(Frame) /\ n.out \in Seq(Frame) /\ host \in Host /\ n.wrote \in Seq(Nat)
  /\ Core(n.c, q, rx \o n.out, guest, [host EXCEPT !.wrote = n.wrote])

LEMMA WroteParts ==
  ASSUME NEW h \in Host, NEW w \in Seq(Nat)
  PROVE  LET h2 == [h EXCEPT !.wrote = w]
         IN  /\ h2 \in Host /\ h2.wrote = w /\ h2.sent = h.sent /\ h2.shut = h.shut /\ h2.early = h.early /\ h2.failed = h.failed
             /\ \A v : [h2 EXCEPT !.wrote = v] = [h EXCEPT !.wrote = v]
  BY DEF Host

LEMMA NowFits ==
  ASSUME IInv
  PROVE  Fits(Now, in) /\ Now.c = conn /\ Now.out = out /\ Now.wrote = host.wrote /\ GuestOK(guest) /\ HostOK(host) /\ ConnOK(conn)
<1>1. Core(conn, in, rx \o out, guest, host)
  BY DEF IInv
<1>2. host \in Host /\ host.wrote \in Seq(Nat) /\ GuestOK(guest) /\ HostOK(host) /\ ConnOK(conn)
  BY <1>1, CoreParts, HostParts
<1>3. [host EXCEPT !.wrote = host.wrote] = host
  BY <1>2 DEF Host
<1> QED
  BY <1>1, <1>2, <1>3 DEF Now, Stage, Fits, IInv, Queues

(* The invariant is kept, and the connection not forgotten.                *)
Stays == IInv' /\ (conn # NoConn => conn' # NoConn)

LEMMA DeadRemains ==
  ASSUME NEW c \in Conn
  PROVE  [c EXCEPT !.dead = TRUE] # NoConn
<1> DEFINE c3 == [c EXCEPT !.dead = TRUE]
<1>1. c3.state \in {"Connecting", "SynReceived", "Established"}
  BY DEF Conn
<1> HIDE DEF c3
<1>2. c3 # NoConn
  BY <1>1, StatesDiffer
<1> QED
  BY <1>2 DEF c3

LEMMA FitsKeeps ==
  ASSUME NEW n, Fits(n, in'), Becomes(n), conn # NoConn => n.c # NoConn,
         UNCHANGED <<rx, guest>>, Len(rx) <= RxRoom, Len(in') <= InRoom
  PROVE  Stays
<1>1. IInv'
  BY DEF Fits, Becomes, IInv, Queues
<1> QED
  BY <1>1 DEF Becomes, Stays

LEMMA FitsParts ==
  ASSUME NEW n, NEW q, Fits(n, q)
  PROVE  LET h == [host EXCEPT !.wrote = n.wrote]
         IN  /\ n = Stage(n.c, n.out, n.wrote) /\ ConnOK(n.c) /\ GuestOK(guest) /\ HostOK(h)
             /\ rx \in Seq(Frame) /\ n.out \in Seq(Frame) /\ rx \o n.out \in Seq(Frame) /\ q \in Seq(Frame)
             /\ n.wrote \in Seq(Nat) /\ host \in Host /\ h \in Host
             /\ h.wrote = n.wrote /\ h.sent = host.sent /\ h.shut = host.shut /\ h.early = host.early /\ h.failed = host.failed
             /\ Core(n.c, q, rx \o n.out, guest, h)
<1> DEFINE h == [host EXCEPT !.wrote = n.wrote]
<1>1. /\ n = Stage(n.c, n.out, n.wrote) /\ rx \in Seq(Frame) /\ n.out \in Seq(Frame)
      /\ n.wrote \in Seq(Nat) /\ host \in Host /\ Core(n.c, q, rx \o n.out, guest, h)
  BY DEF Fits
<1>2. /\ h \in Host /\ h.wrote = n.wrote /\ h.sent = host.sent /\ h.shut = host.shut /\ h.early = host.early /\ h.failed = host.failed
  BY <1>1, WroteParts
<1> HIDE DEF h
<1>3. ConnOK(n.c) /\ GuestOK(guest) /\ HostOK(h) /\ rx \o n.out \in Seq(Frame) /\ q \in Seq(Frame)
  BY <1>1, CoreParts
<1> QED
  BY <1>1, <1>2, <1>3 DEF h

(* Emit notes the window told, and adds a frame.                           *)
Told(c) == [c EXCEPT !.lastWnd = WindowOf(c)]
Bare(c, flags) == Seg(flags, c.nxt, c.rcv, WindowOf(c), <<>>)

LEMMA EmitIs ==
  ASSUME NEW c, NEW o, NEW w, NEW flags
  PROVE  Emit(Stage(c, o, w), flags, <<>>)
           = Stage(Told(c), Append(o, Bare(c, flags)), w)
<1> DEFINE x == Append(o, Bare(c, flags))
           y == WindowOf(c)
<1>1. Stage(c, o, w).c = c /\ Stage(c, o, w).out = o
  BY StageIs
<1>2. Emit(Stage(c, o, w), flags, <<>>) = SetsWindow(Stage(c, o, w), x, y)
  BY <1>1 DEF Emit, Bare, SetsWindow
<1> HIDE DEF x, y
<1>3. SetsWindow(Stage(c, o, w), x, y) = Stage([c EXCEPT !.lastWnd = y], x, w)
  BY OutAndWindow
<1> QED
  BY <1>2, <1>3 DEF Told, x, y

LEMMA BareParts ==
  ASSUME NEW c, ConnOK(c), c # NoConn, NEW flags \in SUBSET Flags
  PROVE  /\ Bare(c, flags) \in Frame /\ Bare(c, flags).flags = flags /\ Bare(c, flags).seq = c.nxt /\ Bare(c, flags).ack = c.rcv
         /\ Bare(c, flags).wnd <= Window /\ Bare(c, flags).data = <<>>
         /\ Told(c) \in Conn /\ Alike(c, Told(c)) /\ Told(c).dead = c.dead
<1>1. /\ c \in Conn /\ c.nxt \in Numbers /\ c.rcv \in Numbers /\ WindowOf(c) \in Nat
      /\ WindowOf(c) + Len(c.toHost) = Window /\ Len(c.toHost) \in Nat
  BY ConnParts
<1>2. WindowOf(c) <= Window
  BY <1>1, NetParts
<1>3. <<>> \in Seq(Nat) /\ c.nxt \in Int /\ c.rcv \in Int
  BY <1>1, ModSmall
<1> DEFINE wnd == WindowOf(c)
           nxt == c.nxt
           rcv == c.rcv
           none == <<>>
<1>4. /\ Bare(c, flags) \in Frame /\ Bare(c, flags).flags = flags /\ Bare(c, flags).wnd = wnd
      /\ Bare(c, flags).data = <<>> /\ Bare(c, flags).seq = nxt /\ Bare(c, flags).ack = rcv
  <2>1. Bare(c, flags) = Seg(flags, nxt, rcv, wnd, none)
    BY DEF Bare
  <2>2. nxt \in Int /\ rcv \in Int /\ nxt \in Numbers /\ rcv \in Numbers /\ wnd \in Nat /\ none \in Seq(Nat)
    BY <1>1, <1>3
  <2> HIDE DEF nxt, rcv, wnd, none
  <2>3. /\ Seg(flags, nxt, rcv, wnd, none) \in Frame
        /\ Seg(flags, nxt, rcv, wnd, none).flags = flags /\ Seg(flags, nxt, rcv, wnd, none).wnd = wnd
        /\ Seg(flags, nxt, rcv, wnd, none).data = none
        /\ Seg(flags, nxt, rcv, wnd, none).seq = nxt /\ Seg(flags, nxt, rcv, wnd, none).ack = rcv
    BY <2>2, SegParts
  <2> QED
    BY <2>1, <2>3 DEF none
<1>5. /\ Told(c) \in Conn /\ Alike(c, Told(c)) /\ Told(c).dead = c.dead
  BY <1>1 DEF Conn, Alike, Told
<1> QED
  BY <1>2, <1>4, <1>5

LEMMA EmitParts ==
  ASSUME NEW n, NEW q, Fits(n, q), n.c # NoConn, NEW flags \in SUBSET Flags
  PROVE  /\ Emit(n, flags, <<>>) = Stage(Told(n.c), Append(n.out, Bare(n.c, flags)), n.wrote)
         /\ Append(n.out, Bare(n.c, flags)) \in Seq(Frame)
         /\ rx \o Append(n.out, Bare(n.c, flags)) = Append(rx \o n.out, Bare(n.c, flags))
<1>1. /\ n = Stage(n.c, n.out, n.wrote) /\ ConnOK(n.c) /\ rx \in Seq(Frame) /\ n.out \in Seq(Frame)
  BY FitsParts
<1>2. Bare(n.c, flags) \in Frame
  BY <1>1, BareParts
<1>3. Emit(Stage(n.c, n.out, n.wrote), flags, <<>>)
        = Stage(Told(n.c), Append(n.out, Bare(n.c, flags)), n.wrote)
  BY EmitIs
<1> QED
  BY <1>1, <1>2, <1>3, JoinFrames

(* A stage that is made of its parts.                                      *)
LEMMA FitsFrom ==
  ASSUME NEW c, NEW o, NEW w, NEW q, rx \in Seq(Frame), o \in Seq(Frame), host \in Host, w \in Seq(Nat),
         Core(c, q, rx \o o, guest, [host EXCEPT !.wrote = w])
  PROVE  Fits(Stage(c, o, w), q)
<1> DEFINE m == Stage(c, o, w)
<1>1. m.c = c /\ m.out = o /\ m.wrote = w
  BY StageIs
<1>2. m = Stage(m.c, m.out, m.wrote)
  BY <1>1
<1> HIDE DEF m
<1>3. Fits(m, q)
  BY <1>1, <1>2 DEF Fits
<1> QED
  BY <1>3 DEF m

LEMMA EmitAckFits ==
  ASSUME NEW n, NEW q, Fits(n, q), n.c.state = "Established"
  PROVE  Fits(Emit(n, {"ack"}, <<>>), q) /\ Emit(n, {"ack"}, <<>>).c.state = "Established"
<1> DEFINE f == Bare(n.c, {"ack"})
           c2 == Told(n.c)
           h == [host EXCEPT !.wrote = n.wrote]
<1>1. {"ack"} \in SUBSET Flags /\ n.c # NoConn
  BY StatesDiffer DEF Flags
<1>2. /\ Emit(n, {"ack"}, <<>>) = Stage(c2, Append(n.out, f), n.wrote)
      /\ Append(n.out, f) \in Seq(Frame) /\ rx \o Append(n.out, f) = Append(rx \o n.out, f)
  BY <1>1, EmitParts
<1>3. /\ rx \in Seq(Frame) /\ n.wrote \in Seq(Nat) /\ host \in Host /\ Core(n.c, q, rx \o n.out, guest, h) /\ ConnOK(n.c)
  BY FitsParts
<1>4. /\ c2 \in Conn /\ Alike(n.c, c2) /\ c2.dead = n.c.dead
      /\ f \in Frame /\ f.flags = {"ack"} /\ f.seq = n.c.nxt /\ f.ack = n.c.rcv /\ f.wnd <= Window /\ f.data = <<>>
  BY <1>1, <1>3, BareParts
<1> HIDE DEF f, c2
<1>5. Plain(f) /\ "fin" \notin f.flags
  BY <1>4 DEF Plain
<1>6. c2.state = n.c.state
  BY <1>4 DEF Alike
<1>7. Core(c2, q, Append(rx \o n.out, f), guest, h)
  <2> HIDE DEF h
  <2> QED
    BY <1>3, <1>4, <1>5, OneKeeps DEF Alike
<1>8. Fits(Stage(c2, Append(n.out, f), n.wrote), q)
  BY <1>2, <1>3, <1>7, FitsFrom
<1>9. Stage(c2, Append(n.out, f), n.wrote).c = c2
  BY StageIs
<1> QED
  BY <1>2, <1>6, <1>8, <1>9

LEMMA EmitResetFits ==
  ASSUME NEW n, NEW q, Fits(n, q), n.c # NoConn
  PROVE  Fits(Emit(n, {"rst", "ack"}, <<>>), q) /\ Alike(n.c, Emit(n, {"rst", "ack"}, <<>>).c)
<1> DEFINE f == Bare(n.c, {"rst", "ack"})
           c2 == Told(n.c)
           h == [host EXCEPT !.wrote = n.wrote]
<1>1. {"rst", "ack"} \in SUBSET Flags
  BY DEF Flags
<1>2. /\ Emit(n, {"rst", "ack"}, <<>>) = Stage(c2, Append(n.out, f), n.wrote)
      /\ Append(n.out, f) \in Seq(Frame) /\ rx \o Append(n.out, f) = Append(rx \o n.out, f)
  BY <1>1, EmitParts
<1>3. /\ rx \in Seq(Frame) /\ n.wrote \in Seq(Nat) /\ host \in Host /\ Core(n.c, q, rx \o n.out, guest, h) /\ ConnOK(n.c)
  BY FitsParts
<1>4. /\ c2 \in Conn /\ Alike(n.c, c2) /\ c2.dead = n.c.dead
      /\ f \in Frame /\ f.flags = {"rst", "ack"} /\ f.wnd <= Window
  BY <1>1, <1>3, BareParts
<1> HIDE DEF f, c2
<1>5. guest.state # "closed"
  BY <1>3 DEF Core, Closed
<1>6. Core(c2, q, Append(rx \o n.out, f), guest, h)
  <2> HIDE DEF h
  <2>1. Core(c2, q, rx \o n.out, guest, h)
    BY <1>3, <1>4, AlikeKeeps
  <2> QED
    BY <1>4, <1>5, <2>1, ResetsKeeps
<1>7. Fits(Stage(c2, Append(n.out, f), n.wrote), q)
  BY <1>2, <1>3, <1>6, FitsFrom
<1>8. Stage(c2, Append(n.out, f), n.wrote).c = c2
  BY StageIs
<1> QED
  BY <1>2, <1>4, <1>7, <1>8

(* The guest's first frame is taken.                                       *)
LEMMA TailFits ==
  ASSUME NEW n, NEW q, Fits(n, q), q # <<>>
  PROVE  Fits(n, Tail(q))
<1>1. Core(n.c, q, rx \o n.out, guest, [host EXCEPT !.wrote = n.wrote])
  BY FitsParts
<1>2. Core(n.c, Tail(q), rx \o n.out, guest, [host EXCEPT !.wrote = n.wrote])
  BY <1>1, TakenKeeps
<1> QED
  BY <1>2 DEF Fits

(* The connection is changed in what the invariant does not look at.       *)
LEMMA DeadIs ==
  ASSUME NEW n, NEW q, Fits(n, q)
  PROVE  [n EXCEPT !.c.dead = TRUE] = Stage([n.c EXCEPT !.dead = TRUE], n.out, n.wrote)
<1>1. n = Stage(n.c, n.out, n.wrote)
  BY DEF Fits
<1> DEFINE y == TRUE
           c == n.c
           o == n.out
           w == n.wrote
<1>2. [n EXCEPT !.c.dead = TRUE] = SetsOver(Stage(c, o, w), y)
  BY <1>1 DEF SetsOver
<1>3. SetsOver(Stage(c, o, w), y) = Stage([c EXCEPT !.dead = y], o, w)
  <2> HIDE DEF c, o, w, y
  <2> QED
    BY OverSet
<1> QED
  BY <1>2, <1>3

LEMMA DeadFits ==
  ASSUME NEW n, NEW q, Fits(n, q), n.c # NoConn,
         host.failed \/ (~Has(q, "syn") /\ guest.state \notin {"closed", "synSent"})
  PROVE  Fits(Stage([n.c EXCEPT !.dead = TRUE], n.out, n.wrote), q)
<1> DEFINE c2 == [n.c EXCEPT !.dead = TRUE]
           h == [host EXCEPT !.wrote = n.wrote]
<1>1. /\ rx \in Seq(Frame) /\ n.out \in Seq(Frame) /\ n.wrote \in Seq(Nat) /\ host \in Host /\ h.failed = host.failed
      /\ Core(n.c, q, rx \o n.out, guest, h) /\ ConnOK(n.c)
  BY FitsParts
<1>2. n.c \in Conn
  BY <1>1, ConnParts
<1>3. c2 \in Conn /\ Alike(n.c, c2)
  BY <1>2 DEF Conn, Alike
<1>4. Core(c2, q, rx \o n.out, guest, h)
  <2> HIDE DEF c2, h
  <2> QED
    BY <1>1, <1>3, AlikeKeeps
<1> HIDE DEF c2
<1>5. Fits(Stage(c2, n.out, n.wrote), q)
  BY <1>1, <1>4, FitsFrom
<1> QED
  BY <1>5 DEF c2

(* A reset may be sent at any time.                                        *)
LEMMA ResetFits ==
  ASSUME NEW n, NEW q, Fits(n, q), guest.state # "closed"
  PROVE  Fits(Stage(n.c, Append(n.out, ResetFrame), n.wrote), q)
<1> DEFINE h == [host EXCEPT !.wrote = n.wrote]
           f == ResetFrame
<1>1. /\ rx \in Seq(Frame) /\ n.out \in Seq(Frame) /\ n.wrote \in Seq(Nat) /\ host \in Host
      /\ Core(n.c, q, rx \o n.out, guest, h)
  BY FitsParts
<1>2. {"rst"} \in SUBSET Flags /\ 0 \in Int /\ 0 \in Nat /\ <<>> \in Seq(Nat)
  BY DEF Flags
<1> DEFINE flags == {"rst"}
           none == <<>>
           zero == 0
<1>3. Seg(flags, zero, zero, zero, none) \in Frame /\ Seg(flags, zero, zero, zero, none).flags = flags /\ Seg(flags, zero, zero, zero, none).wnd = zero
  <2>1. flags \in SUBSET Flags /\ zero \in Int /\ zero \in Nat /\ none \in Seq(Nat)
    BY <1>2
  <2> HIDE DEF flags, none, zero
  <2> QED
    BY <2>1, SegParts
<1>4. f \in Frame /\ f.flags = {"rst"} /\ f.wnd <= Window
  BY <1>3, NetParts DEF ResetFrame
<1> HIDE DEF f
<1>5. Core(n.c, q, Append(rx \o n.out, f), guest, h)
  <2> HIDE DEF h
  <2> QED
    BY <1>1, <1>4, ResetsKeeps
<1>6. Append(n.out, f) \in Seq(Frame) /\ rx \o Append(n.out, f) = Append(rx \o n.out, f)
  BY <1>1, <1>4, JoinFrames
<1>7. Fits(Stage(n.c, Append(n.out, f), n.wrote), q)
  BY <1>1, <1>5, <1>6, FitsFrom
<1> QED
  BY <1>7 DEF f

(* The host takes the first bytes that wait.                               *)
LEMMA CutParts ==
  ASSUME NEW t \in Seq(Nat), NEW k \in 0..Len(t)
  PROVE  /\ SubSeq(t, 1, k) \in Seq(Nat) /\ SubSeq(t, k + 1, Len(t)) \in Seq(Nat)
         /\ Len(SubSeq(t, 1, k)) = k /\ Len(SubSeq(t, k + 1, Len(t))) = Len(t) - k
         /\ t = SubSeq(t, 1, k) \o SubSeq(t, k + 1, Len(t))
<1> PICK n \in Nat : n = Len(t)
  OBVIOUS
<1> DEFINE a == SubSeq(t, 1, k)
           b == SubSeq(t, k + 1, n)
<1>1. a \in Seq(Nat) /\ Len(a) = k /\ \A i \in 1..k : a[i] = t[i]
  BY SubSeqProperties
<1>2. b \in Seq(Nat) /\ Len(b) = n - k /\ \A i \in 1..(n - k) : b[i] = t[k + i]
  BY SubSeqProperties
<1> HIDE DEF a, b
<1>3. a \o b \in Seq(Nat) /\ Len(a \o b) = n /\ \A i \in 1..n : (a \o b)[i] = t[i]
  BY <1>1, <1>2, ConcatProperties
<1>4. t = a \o b
  BY <1>3, SeqEqual
<1> QED
  BY <1>1, <1>2, <1>4 DEF a, b

LEMMA WriteHostFits ==
  ASSUME NEW n, NEW q, Fits(n, q), n.c.state = "Established", NEW k \in 0..Len(n.c.toHost)
  PROVE  Fits(WriteHost(n, k), q) /\ WriteHost(n, k).c.state = "Established"
<1> DEFINE c == n.c
           s == SubSeq(c.toHost, 1, k)
           left == SubSeq(c.toHost, k + 1, Len(c.toHost))
           z == c.hostShut \/ (c.guestFin /\ left = <<>>)
           c2 == WithBytes(c, left, z)
           w == n.wrote \o s
           m == Stage(c2, n.out, w)
           h == [host EXCEPT !.wrote = n.wrote]
           h2 == [host EXCEPT !.wrote = w]
<1>1. /\ n = Stage(n.c, n.out, n.wrote) /\ rx \in Seq(Frame) /\ n.out \in Seq(Frame) /\ n.wrote \in Seq(Nat) /\ host \in Host
      /\ h \in Host /\ h.wrote = n.wrote /\ ConnOK(c) /\ Core(c, q, rx \o n.out, guest, h)
  BY FitsParts
<1>2. c # NoConn
  BY StatesDiffer
<1>3. c \in Conn /\ c.toHost \in Seq(Nat) /\ c.hostShut \in BOOLEAN
  BY <1>1, <1>2, ConnParts
<1>4. s \in Seq(Nat) /\ left \in Seq(Nat) /\ c.toHost = s \o left
  BY <1>3, CutParts
<1>5. w \in Seq(Nat)
  BY <1>1, <1>4, ConcatProperties
<1>6. h2 = [h EXCEPT !.wrote = w]
  BY <1>1
<1>7. /\ c2 \in Conn /\ c2.state = c.state /\ c2.una = c.una /\ c2.nxt = c.nxt /\ c2.rcv = c.rcv
      /\ c2.guestWnd = c.guestWnd /\ c2.guestFin = c.guestFin /\ c2.finSent = c.finSent /\ c2.dead = c.dead
      /\ c2.toHost = left
  BY <1>3, <1>4 DEF Conn, WithBytes
<1>8. Core(c2, q, rx \o n.out, guest, h2)
  <2>1. h2 = [h EXCEPT !.wrote = h.wrote \o s] /\ c.toHost = s \o c2.toHost
    <3>1. h.wrote = n.wrote /\ h2 = [h EXCEPT !.wrote = w]
      BY <1>1, <1>6
    <3>2. c.toHost = s \o left /\ c2.toHost = left
      BY <1>4, <1>7
    <3>3. w = n.wrote \o s
      OBVIOUS
    <3> HIDE DEF c, c2, h, h2, s, left, w
    <3> QED
      BY ONLY <3>1, <3>2, <3>3
  <2>2. c.state = "Established"
    OBVIOUS
  <2> HIDE DEF c, c2, h, h2, s, left, w
  <2>3. Writes(c, c2, h, h2, s)
    BY ONLY <1>4, <1>7, <2>1, <2>2 DEF Writes
  <2>4. Core(c, q, rx \o n.out, guest, h)
    BY <1>1
  <2> QED
    BY ONLY <2>3, <2>4, WriteKeeps
<1>9. Fits(m, q) /\ m.c.state = "Established"
  <2> HIDE DEF c2, w
  <2>1. Fits(Stage(c2, n.out, w), q)
    BY <1>1, <1>5, <1>8, FitsFrom
  <2>2. Stage(c2, n.out, w).c = c2
    BY StageIs
  <2> QED
    BY <1>7, <2>1, <2>2
<1>10. m = SetsBytes(n, left, w, z)
  <2> DEFINE o == n.out
             v == n.wrote
  <2>0. PICK y : y = z
    OBVIOUS
  <2>1. SetsBytes(Stage(c, o, v), left, w, y) = Stage(WithBytes(c, left, y), o, w)
    <3> HIDE DEF c, o, v, left, w, z
    <3> QED
      BY BytesAndShut
  <2> HIDE DEF left, w, z
  <2> QED
    BY <1>1, <2>0, <2>1
<1>11. Fits(Emit(m, {"ack"}, <<>>), q) /\ Emit(m, {"ack"}, <<>>).c.state = "Established"
  <2> HIDE DEF m
  <2> QED
    BY <1>9, EmitAckFits
<1>12. WriteHost(n, k) = m \/ WriteHost(n, k) = Emit(m, {"ack"}, <<>>)
  <2>1. m = [n EXCEPT !.c.toHost = left, !.wrote = n.wrote \o s, !.c.hostShut = z]
    <3> HIDE DEF m, left, z, s
    <3> QED
      BY <1>10 DEF SetsBytes
  <2> QED
    BY <2>1 DEF WriteHost
<1> QED
  BY <1>9, <1>11, <1>12

LEMMA WrittenFits ==
  ASSUME NEW n, NEW q, Fits(n, q), n.c.state = "Established", NEW m \in Written(n)
  PROVE  Fits(m, q) /\ m.c.state = "Established"
<1>1. n.c # NoConn
  BY StatesDiffer
<1>2. n.c \in Conn
  <2>1. ConnOK(n.c)
    BY FitsParts
  <2> QED
    BY <1>1, <2>1, ConnParts
<1>3. CASE host.failed /\ m = WriteFails(n)
  <2> DEFINE c2 == [n.c EXCEPT !.dead = TRUE]
  <2>1. m = Stage(c2, n.out, n.wrote)
    BY <1>3, DeadIs DEF WriteFails
  <2>2. Fits(Stage(c2, n.out, n.wrote), q)
    BY <1>1, <1>3, DeadFits
  <2>3. c2.state = "Established"
    BY <1>2 DEF Conn
  <2> HIDE DEF c2
  <2>4. m.c = c2
    BY <2>1, StageIs
  <2> QED
    BY <2>1, <2>2, <2>3, <2>4
<1>4. CASE \E k \in 0..Len(n.c.toHost) : m = WriteHost(n, k)
  BY <1>4, WriteHostFits
<1> QED
  BY <1>3, <1>4 DEF Written

LEMMA NowIs ==
  ASSUME NEW x
  PROVE  /\ Now = Stage(conn, out, host.wrote)
         /\ [Now EXCEPT !.c = x] = Stage(x, out, host.wrote)
         /\ [Now EXCEPT !.out = x] = Stage(conn, x, host.wrote)
<1> DEFINE c == conn
           o == out
           w == host.wrote
<1>1. Now = Stage(c, o, w)
  BY DEF Now, Stage
<1>2. [Stage(c, o, w) EXCEPT !.c = x] = Stage(x, o, w) /\ [Stage(c, o, w) EXCEPT !.out = x] = Stage(c, x, w)
  BY DEF Stage
<1> QED
  BY <1>1, <1>2

-------------------------------------------------------------------------------
(* Frames that wait for the network come from a guest that has opened; a   *)
(* frame with a SYN is but that; none comes after a reset.                 *)
LEMMA FirstParts ==
  ASSUME NEW c, NEW g, NEW h, NEW q, NEW d, Core(c, q, d, g, h), q # <<>>
  PROVE  /\ g.state # "closed" /\ q \in Seq(Frame) /\ q[1] \in Frame
         /\ "syn" \in q[1].flags => q[1].flags = {"syn"}
         /\ "rst" \in q[1].flags => ~Has(Tail(q), "syn") /\ g.state \notin {"closed", "synSent"}
<1>1. q \in Seq(Frame) /\ Syns(q, g) /\ g.state # "closed"
  BY CoreParts DEF Core, Closed
<1>2. 1 \in 1..Len(q) /\ q[1] \in Frame /\ \A i \in 1..Len(Tail(q)) : Tail(q)[i] = q[i + 1] /\ i + 1 \in 1..Len(q)
  BY <1>1, TailSuffix
<1>3. "syn" \in q[1].flags => q[1].flags = {"syn"}
  BY <1>1, <1>2 DEF Syns
<1>4. ASSUME "rst" \in q[1].flags
      PROVE  ~Has(Tail(q), "syn") /\ g.state = "aborted"
  <2>1. g.state = "aborted"
    BY <1>1, <1>2, <1>4 DEF Syns
  <2>2. ASSUME NEW i \in 1..Len(Tail(q)), "syn" \in Tail(q)[i].flags
        PROVE  FALSE
    <3>1. i + 1 \in 1..Len(q) /\ "syn" \in q[i + 1].flags /\ 1 < i + 1
      BY <1>2, <2>2
    <3>2. q[1].flags = {"syn"}
      BY <1>1, <1>2, <3>1 DEF Syns
    <3> QED
      BY <1>4, <3>2
  <2> QED
    BY <2>1, <2>2 DEF Has
<1> QED
  BY <1>1, <1>2, <1>3, <1>4

LEMMA HandleTcpKeeps ==
  ASSUME IInv, HandleTcp
  PROVE  Stays
<1> DEFINE s == in[1]
           d == rx \o out
           w == host.wrote
           h == [host EXCEPT !.wrote = w]
<1>1. in # <<>> /\ in' = Tail(in) /\ UNCHANGED <<rx, guest>>
  BY DEF HandleTcp
<1>2. /\ Fits(Now, in) /\ Now = Stage(conn, out, w) /\ Now.c = conn /\ ConnOK(conn)
      /\ rx \in Seq(Frame) /\ out \in Seq(Frame) /\ host \in Host /\ w \in Seq(Nat)
  <2>1. Fits(Now, in) /\ Now.c = conn /\ Now.out = out /\ Now.wrote = w /\ ConnOK(conn) /\ Now = Stage(conn, out, w)
    BY NowFits, NowIs
  <2>2. rx \in Seq(Frame) /\ Now.out \in Seq(Frame) /\ host \in Host /\ Now.wrote \in Seq(Nat)
    BY <2>1, FitsParts
  <2> QED
    BY <2>1, <2>2
<1>3. Core(conn, in, d, guest, h)
  <2>1. Core(Now.c, in, rx \o Now.out, guest, [host EXCEPT !.wrote = Now.wrote])
    BY <1>2, FitsParts
  <2> QED
    BY <2>1 DEF Now
<1>4. /\ guest.state # "closed" /\ in \in Seq(Frame) /\ ("syn" \in s.flags => s.flags = {"syn"})
      /\ "rst" \in s.flags => ~Has(Tail(in), "syn") /\ guest.state \notin {"closed", "synSent"}
  <2> HIDE DEF d, h
  <2> QED
    BY <1>1, <1>3, FirstParts
<1>5. Len(rx) <= RxRoom /\ Len(in') <= InRoom
  <2>1. Len(rx) <= RxRoom /\ Len(in) <= InRoom
    BY DEF IInv, Queues
  <2>2. Len(Tail(in)) = Len(in) - 1 /\ Len(in) \in Nat
    BY <1>1, <1>4, TailSuffix
  <2> QED
    BY <1>1, <2>1, <2>2, NetParts
<1>6. Fits(Now, Tail(in))
  BY <1>1, <1>2, TailFits
<1>7. ASSUME NEW n, Fits(n, Tail(in)), Becomes(n), conn # NoConn => n.c # NoConn
      PROVE  Stays
  BY <1>1, <1>5, <1>7, FitsKeeps
<1>8. ASSUME Becomes(Now)
      PROVE  Stays
  BY <1>2, <1>6, <1>7, <1>8
<1>9. ASSUME conn = NoConn, s.flags = {"syn"}, Becomes([Now EXCEPT !.c = Opened(s)])
      PROVE  Stays
  <2>1. Core(Opened(s), Tail(in), d, guest, h)
    <3> HIDE DEF d, h
    <3> QED
      BY <1>1, <1>3, <1>9, OpenedConnKeeps
  <2>2. [Now EXCEPT !.c = Opened(s)] = Stage(Opened(s), out, w)
    BY NowIs
  <2>3. Fits(Stage(Opened(s), out, w), Tail(in))
    BY <1>2, <2>1, FitsFrom
  <2> QED
    BY <1>7, <1>9, <2>2, <2>3
<1>10. ASSUME Becomes([Now EXCEPT !.out = Append(out, ResetFrame)])
       PROVE  Stays
  <2>1. [Now EXCEPT !.out = Append(out, ResetFrame)] = Stage(conn, Append(out, ResetFrame), w)
    BY NowIs
  <2>2. Fits(Stage(Now.c, Append(Now.out, ResetFrame), Now.wrote), Tail(in))
    BY <1>4, <1>6, ResetFits
  <2>3. Now.c = conn /\ Now.out = out /\ Now.wrote = w
    BY DEF Now
  <2>4. Stage(conn, Append(out, ResetFrame), w).c = conn
    BY StageIs
  <2> QED
    BY <1>7, <1>10, <2>1, <2>2, <2>3, <2>4
<1>11. ASSUME conn # NoConn, "rst" \in s.flags, Becomes([Now EXCEPT !.c.dead = TRUE])
       PROVE  Stays
  <2>1. [Now EXCEPT !.c.dead = TRUE] = Stage([Now.c EXCEPT !.dead = TRUE], Now.out, Now.wrote)
    BY <1>6, DeadIs
  <2>2. Fits(Stage([Now.c EXCEPT !.dead = TRUE], Now.out, Now.wrote), Tail(in))
    BY <1>2, <1>4, <1>6, <1>11, DeadFits
  <2>3. Stage([Now.c EXCEPT !.dead = TRUE], Now.out, Now.wrote).c # NoConn
    <3>1. Now.c \in Conn
      BY <1>2, <1>6, <1>11, ConnParts
    <3> DEFINE c3 == [Now.c EXCEPT !.dead = TRUE]
               o3 == Now.out
               w3 == Now.wrote
    <3>2. c3 # NoConn
      BY <3>1, DeadRemains
    <3> HIDE DEF c3, o3, w3
    <3>3. Stage(c3, o3, w3).c = c3
      BY StageIs
    <3> QED
      BY <3>2, <3>3 DEF c3, o3, w3
  <2> QED
    BY <1>7, <1>11, <2>1, <2>2, <2>3
<1>12. ASSUME conn # NoConn, conn.state # "Connecting", {"rst", "syn"} \cap s.flags = {}
       PROVE  /\ Core(Acked(conn, s), in, d, guest, h) /\ Live(Acked(conn, s)) /\ Plain(s)
              /\ Fits(Stage(Acked(conn, s), out, w), Tail(in))
  <2>1. Live(conn) /\ Plain(s)
    BY <1>2, <1>12, ConnParts DEF Live, Plain
  <2>2. Core(Acked(conn, s), in, d, guest, h) /\ Live(Acked(conn, s))
    <3> HIDE DEF d, h
    <3> QED
      BY <1>1, <1>3, <2>1, AckedKeeps
  <2>3. Fits(Stage(Acked(conn, s), out, w), in)
    BY <1>2, <2>2, FitsFrom
  <2> QED
    BY <1>1, <2>1, <2>2, <2>3, TailFits
<1>13. ASSUME conn # NoConn, conn.state # "Connecting", {"rst", "syn"} \cap s.flags = {},
              Becomes([Now EXCEPT !.c = Acked(conn, s)])
       PROVE  Stays
  <2>1. [Now EXCEPT !.c = Acked(conn, s)] = Stage(Acked(conn, s), out, w)
    BY NowIs
  <2>2. Stage(Acked(conn, s), out, w).c # NoConn
    BY <1>12, <1>13, LiveParts, StageIs
  <2> QED
    BY <1>7, <1>12, <1>13, <2>1, <2>2
<1> DEFINE c2 == Ended(Taken(Acked(conn, s), s), s)
<1>14. ASSUME conn # NoConn, conn.state # "Connecting", {"rst", "syn"} \cap s.flags = {},
              Acked(conn, s).state = "Established",
              NEW n \in Written([Now EXCEPT !.c = c2]), Becomes(n) \/ Becomes(Emit(n, {"ack"}, <<>>))
       PROVE  Stays
  <2>1. Core(c2, Tail(in), d, guest, h) /\ c2.state = "Established"
    <3> DEFINE a == Acked(conn, s)
    <3>1. Core(a, in, d, guest, h) /\ a.state = "Established" /\ Plain(s)
      BY <1>12, <1>14
    <3> HIDE DEF a, d, h
    <3>2. Core(Ended(Taken(a, s), s), Tail(in), d, guest, h) /\ Ended(Taken(a, s), s).state = "Established"
      BY <1>1, <3>1, ReceivedKeeps
    <3> QED
      BY <3>2 DEF a
  <2> HIDE DEF c2
  <2>2. Fits(Stage(c2, out, w), Tail(in)) /\ [Now EXCEPT !.c = c2] = Stage(c2, out, w) /\ Stage(c2, out, w).c = c2
    BY <1>2, <2>1, FitsFrom, NowIs, StageIs
  <2>3. n \in Written(Stage(c2, out, w))
    BY <1>14, <2>2
  <2>4. Fits(n, Tail(in)) /\ n.c.state = "Established"
    BY <2>1, <2>2, <2>3, WrittenFits
  <2>5. Fits(Emit(n, {"ack"}, <<>>), Tail(in)) /\ Emit(n, {"ack"}, <<>>).c.state = "Established"
    BY <2>4, EmitAckFits
  <2>6. n.c # NoConn /\ Emit(n, {"ack"}, <<>>).c # NoConn
    BY <2>4, <2>5, StatesDiffer
  <2> QED
    BY <1>7, <1>14, <2>4, <2>5, <2>6
<1> HIDE DEF c2, h, d, w
<1>15. CASE conn = NoConn
  <2>1. \/ Becomes(Now) \/ Becomes([Now EXCEPT !.out = Append(out, ResetFrame)])
        \/ s.flags = {"syn"} /\ Becomes([Now EXCEPT !.c = Opened(s)])
    <3>1. CASE "rst" \in s.flags
      BY <1>15, <3>1 DEF HandleTcp
    <3>2. CASE s.flags = {"syn"}
      <4>1. "rst" \notin s.flags
        BY <3>2
      <4>2. Now.out = out
        BY DEF Now
      <4> QED
        BY <1>15, <3>2, <4>1, <4>2 DEF HandleTcp
    <3>3. CASE "rst" \notin s.flags /\ s.flags # {"syn"}
      <4>1. {"rst", "syn"} \cap s.flags = {}
        BY <1>4, <3>3
      <4>2. Now.out = out
        BY DEF Now
      <4> QED
        BY <1>15, <3>3, <4>1, <4>2 DEF HandleTcp
    <3> QED
      BY <3>1, <3>2, <3>3
  <2> QED
    BY <1>8, <1>9, <1>10, <1>15, <2>1
<1>16. CASE conn # NoConn /\ "rst" \in s.flags
  <2>1. Becomes([Now EXCEPT !.c.dead = TRUE])
    BY <1>16 DEF HandleTcp
  <2> QED
    BY <1>11, <1>16, <2>1
<1>17. CASE conn # NoConn /\ "rst" \notin s.flags /\ (conn.state = "Connecting" \/ "syn" \in s.flags)
  <2>1. Becomes(Now)
    BY <1>17 DEF HandleTcp
  <2> QED
    BY <1>8, <2>1
<1>18. CASE conn # NoConn /\ "rst" \notin s.flags /\ conn.state # "Connecting" /\ "syn" \notin s.flags
  <2>1. {"rst", "syn"} \cap s.flags = {} /\ Now.c = conn
    BY <1>18 DEF Now
  <2>2. IF Acked(conn, s).state # "Established" THEN Becomes([Now EXCEPT !.c = Acked(conn, s)])
        ELSE \E n \in Written([Now EXCEPT !.c = c2]) :
               Becomes(IF s.data # <<>> \/ "fin" \in s.flags THEN Emit(n, {"ack"}, <<>>) ELSE n)
    BY <1>18, <2>1 DEF HandleTcp, c2
  <2> QED
    BY <1>13, <1>14, <1>18, <2>1, <2>2
<1> QED
  BY <1>15, <1>16, <1>17, <1>18

LEMMA NowParts ==
  ASSUME IInv
  PROVE  /\ Fits(Now, in) /\ Now = Stage(conn, out, host.wrote) /\ Now.c = conn /\ Now.out = out /\ Now.wrote = host.wrote
         /\ Core(conn, in, rx \o out, guest, host)
         /\ ConnOK(conn) /\ HostOK(host) /\ GuestOK(guest) /\ in \in Seq(Frame)
         /\ rx \in Seq(Frame) /\ out \in Seq(Frame) /\ host \in Host /\ host.wrote \in Seq(Nat)
         /\ [host EXCEPT !.wrote = host.wrote] = host
         /\ Len(rx) <= RxRoom /\ Len(in) <= InRoom
<1>1. Fits(Now, in) /\ Now.c = conn /\ Now.out = out /\ Now.wrote = host.wrote /\ GuestOK(guest) /\ HostOK(host) /\ ConnOK(conn)
  BY NowFits
<1>2. Now = Stage(conn, out, host.wrote)
  BY NowIs
<1>3. rx \in Seq(Frame) /\ out \in Seq(Frame) /\ host \in Host /\ host.wrote \in Seq(Nat) /\ in \in Seq(Frame)
  BY <1>1, FitsParts, HostParts
<1>4. [host EXCEPT !.wrote = host.wrote] = host
  BY <1>3 DEF Host
<1> QED
  BY <1>1, <1>2, <1>3, <1>4 DEF IInv, Queues

(* A step of the network that leaves the guest's frames where they are.    *)
LEMMA FitsStays ==
  ASSUME IInv, NEW n, Fits(n, in), Becomes(n), n.c # NoConn, UNCHANGED <<in, rx, guest>>
  PROVE  Stays
<1>1. Len(rx) <= RxRoom /\ Len(in) <= InRoom
  BY NowParts
<1>2. Fits(n, in') /\ Len(in') <= InRoom
  BY <1>1
<1> QED
  BY <1>1, <1>2, FitsKeeps

LEMMA ConnectedIsKept ==
  ASSUME IInv, Connected
  PROVE  Stays
<1> DEFINE w == host.wrote
           f == Bare(conn, {"syn", "ack"})
           t == Told(conn)
           x == (Iss + 1) % Seqs
           c2 == WithState(t, x, "SynReceived")
           o2 == Append(out, f)
<1>1. /\ Fits(Now, in) /\ Now = Stage(conn, out, w) /\ Now.c = conn /\ Now.out = out /\ Now.wrote = w
      /\ Core(conn, in, rx \o out, guest, host) /\ ConnOK(conn) /\ rx \in Seq(Frame) /\ out \in Seq(Frame)
      /\ host \in Host /\ w \in Seq(Nat) /\ [host EXCEPT !.wrote = w] = host
  BY NowParts
<1>2. conn # NoConn /\ guest.state # "closed" /\ conn.state = "Connecting" /\ ~conn.dead /\ UNCHANGED <<in, rx, guest>>
  BY <1>1, StatesDiffer DEF Connected, Core, Closed
<1>3. CASE host.failed
  <2> DEFINE o3 == Append(out, ResetFrame)
             y == TRUE
  <2>1. Becomes([Now EXCEPT !.out = o3, !.c.dead = TRUE])
    BY <1>1, <1>3 DEF Connected
  <2>2. [Now EXCEPT !.out = o3, !.c.dead = TRUE] = SetsDead(Stage(conn, out, w), o3, y)
    BY <1>1 DEF SetsDead
  <2>3. SetsDead(Stage(conn, out, w), o3, y) = Stage([conn EXCEPT !.dead = y], o3, w)
    <3> HIDE DEF o3, w, y
    <3> QED
      BY OutAndDead
  <2>4. Fits(Stage(conn, o3, w), in)
    <3>1. Fits(Stage(Now.c, Append(Now.out, ResetFrame), Now.wrote), in)
      BY <1>1, <1>2, ResetFits
    <3> QED
      BY <1>1, <3>1
  <2>5. Fits(Stage([conn EXCEPT !.dead = TRUE], o3, w), in)
    <3> HIDE DEF o3, w
    <3>1. Stage(conn, o3, w).c = conn /\ Stage(conn, o3, w).out = o3 /\ Stage(conn, o3, w).wrote = w
      BY StageIs
    <3> DEFINE n == Stage(conn, o3, w)
    <3>2. n.c # NoConn /\ Fits(n, in) /\ n.c = conn /\ n.out = o3 /\ n.wrote = w
      BY <1>2, <2>4, <3>1
    <3> HIDE DEF n
    <3>3. Fits(Stage([n.c EXCEPT !.dead = TRUE], n.out, n.wrote), in)
      BY <1>3, <3>2, DeadFits
    <3> QED
      BY <3>2, <3>3
  <2>6. Stage([conn EXCEPT !.dead = TRUE], o3, w).c # NoConn
    <3>1. conn \in Conn
      BY <1>1, <1>2, ConnParts
    <3> DEFINE c3 == [conn EXCEPT !.dead = TRUE]
    <3>2. c3 # NoConn
      BY <3>1, DeadRemains
    <3> HIDE DEF c3, o3, w
    <3>3. Stage(c3, o3, w).c = c3
      BY StageIs
    <3> QED
      BY <3>2, <3>3 DEF c3
  <2> QED
    BY <1>2, <2>1, <2>2, <2>3, <2>5, <2>6, FitsStays
<1>4. CASE ~host.failed
  <2>1. Becomes([Emit(Now, {"syn", "ack"}, <<>>) EXCEPT !.c.nxt = x, !.c.state = "SynReceived"])
    BY <1>4 DEF Connected
  <2>2. {"syn", "ack"} \in SUBSET Flags
    BY DEF Flags
  <2>3. Emit(Now, {"syn", "ack"}, <<>>) = Stage(t, o2, w) /\ o2 \in Seq(Frame) /\ rx \o o2 = Append(rx \o out, f)
    <3>1. /\ Emit(Now, {"syn", "ack"}, <<>>) = Stage(Told(Now.c), Append(Now.out, Bare(Now.c, {"syn", "ack"})), Now.wrote)
          /\ Append(Now.out, Bare(Now.c, {"syn", "ack"})) \in Seq(Frame)
          /\ rx \o Append(Now.out, Bare(Now.c, {"syn", "ack"})) = Append(rx \o Now.out, Bare(Now.c, {"syn", "ack"}))
      BY <1>1, <1>2, <2>2, EmitParts
    <3>2. Now.c = conn /\ Now.out = out /\ Now.wrote = w
      BY <1>1
    <3>3. Told(Now.c) = t /\ Bare(Now.c, {"syn", "ack"}) = f
      BY <3>2
    <3>4. Append(out, f) = o2
      OBVIOUS
    <3> HIDE DEF f, t, o2, w
    <3>5. /\ Emit(Now, {"syn", "ack"}, <<>>) = Stage(t, Append(out, f), w)
          /\ Append(out, f) \in Seq(Frame) /\ rx \o Append(out, f) = Append(rx \o out, f)
      BY ONLY <3>1, <3>2, <3>3, ZenonT(60)
    <3> QED
      BY ONLY <3>4, <3>5
  <2>4. /\ f \in Frame /\ f.flags = {"syn", "ack"} /\ f.seq = conn.nxt /\ f.ack = conn.rcv /\ f.wnd <= Window /\ f.data = <<>>
        /\ t \in Conn /\ Alike(conn, t) /\ t.dead = conn.dead
    <3> DEFINE flags == {"syn", "ack"}
    <3>1. ConnOK(conn) /\ conn # NoConn /\ flags \in SUBSET Flags
      BY <1>1, <1>2, <2>2
    <3> HIDE DEF flags
    <3>2. /\ Bare(conn, flags) \in Frame /\ Bare(conn, flags).flags = flags
          /\ Bare(conn, flags).seq = conn.nxt /\ Bare(conn, flags).ack = conn.rcv
          /\ Bare(conn, flags).wnd <= Window /\ Bare(conn, flags).data = <<>>
          /\ Told(conn) \in Conn /\ Alike(conn, Told(conn)) /\ Told(conn).dead = conn.dead
      BY ONLY <3>1, BareParts
    <3> QED
      BY <3>2 DEF flags
  <2>5. SetsState(Stage(t, o2, w), x, "SynReceived") = Stage(c2, o2, w)
    <3> DEFINE y == "SynReceived"
    <3>1. SetsState(Stage(t, o2, w), x, y) = Stage(WithState(t, x, y), o2, w)
      <4> HIDE DEF t, o2, w, x, y
      <4> QED
        BY NumberAnd
    <3> QED
      BY <3>1
  <2>6. x = Num(Iss, 0) /\ x \in Numbers
    BY NetParts, ModRange DEF Num
  <2>7. /\ c2 \in Conn /\ ~c2.dead /\ c2.state = "SynReceived" /\ c2.nxt = Num(Iss, 0) /\ c2.una = conn.una /\ c2.rcv = conn.rcv
        /\ c2.guestWnd = conn.guestWnd /\ c2.toHost = conn.toHost /\ c2.guestFin = conn.guestFin /\ c2.finSent = conn.finSent
    <3> HIDE DEF t, x
    <3> QED
      BY <1>2, <2>4, <2>6 DEF WithState, Conn, Alike
  <2>8. Core(c2, in, Append(rx \o out, f), guest, host)
    <3> HIDE DEF c2, f
    <3> QED
      BY <1>1, <1>2, <1>4, <2>4, <2>7, ConnectedKeeps
  <2> HIDE DEF c2, o2, f, t, w, x
  <2>9. Fits(Stage(c2, o2, w), in)
    <3>1. Core(c2, in, rx \o o2, guest, [host EXCEPT !.wrote = w])
      BY <1>1, <2>3, <2>8
    <3> QED
      BY <1>1, <2>3, <3>1, FitsFrom
  <2>10. Becomes(Stage(c2, o2, w))
    BY <2>1, <2>3, <2>5 DEF SetsState
  <2>11. Stage(c2, o2, w).c # NoConn
    BY <2>7, StatesDiffer, StageIs
  <2> QED
    BY <1>2, <2>9, <2>10, <2>11, FitsStays
<1> QED
  BY <1>3, <1>4

(* What waits for the host came over an established connection.            *)
LEMMA WritableIsKept ==
  ASSUME IInv, Writable
  PROVE  Stays
<1>1. /\ Fits(Now, in) /\ Now.c = conn /\ ConnOK(conn) /\ Core(conn, in, rx \o out, guest, host)
  BY NowParts
<1>2. conn # NoConn /\ conn.state # "Connecting" /\ conn.toHost # <<>> /\ UNCHANGED <<in, rx, guest>>
  BY DEF Writable
<1>3. conn.state = "Established"
  <2>1. conn.state = "SynReceived" => conn.toHost = <<>>
    BY <1>1, <1>2 DEF Core, Opening, Early
  <2> QED
    BY <1>1, <1>2, <2>1, ConnParts
<1>4. PICK n \in Written(Now) : Becomes(n) \/ Becomes(Emit(n, {"rst", "ack"}, <<>>))
  BY DEF Writable
<1>5. Fits(n, in) /\ n.c.state = "Established"
  BY <1>1, <1>3, WrittenFits
<1>6. n.c # NoConn
  BY <1>5, StatesDiffer
<1>7. Fits(Emit(n, {"rst", "ack"}, <<>>), in) /\ Alike(n.c, Emit(n, {"rst", "ack"}, <<>>).c)
  BY <1>5, <1>6, EmitResetFits
<1>8. Emit(n, {"rst", "ack"}, <<>>).c # NoConn
  BY <1>5, <1>7, StatesDiffer DEF Alike
<1> QED
  BY <1>2, <1>4, <1>5, <1>6, <1>7, <1>8, FitsStays

LEMMA SegmentsAre ==
  ASSUME NEW k, NEW first
  PROVE  Segments(Now, first, k)
           = Stage(WithNumber(conn, (conn.nxt + k) % Seqs, WindowOf(conn)),
                   out \o [i \in 1..Pieces(k) |-> PieceFrame(conn, first, k, i)], host.wrote)
<1> DEFINE e == [i \in 1..Pieces(k) |-> PieceFrame(conn, first, k, i)]
           x == out \o e
           y == (conn.nxt + k) % Seqs
           z == WindowOf(conn)
           c == conn
           o == out
           w == host.wrote
<1>1. Now = Stage(c, o, w) /\ Now.c = c /\ Now.out = o
  BY NowIs DEF Now
<1>2. Segments(Now, first, k) = SetsNumber(Now, x, y, z)
  BY <1>1 DEF Segments, SetsNumber, Pieces, PieceFrame, PieceAt, PieceLen
<1>3. SetsNumber(Stage(c, o, w), x, y, z) = Stage(WithNumber(c, y, z), x, w)
  <2> HIDE DEF c, o, w, x, y, z
  <2> QED
    BY OutAndNumber
<1> QED
  BY <1>1, <1>2, <1>3

(* Bytes of the host's are sent.                                           *)
LEMMA SegmentsIsKept ==
  ASSUME IInv, WantsRead(conn), conn # NoConn, UNCHANGED <<in, rx, guest>>,
         NEW k \in 1..Least(ReadLimit(conn), HostBytes - host.sent),
         conn' = Segments(Now, host.sent, k).c, out' = Segments(Now, host.sent, k).out, host' = [host EXCEPT !.sent = @ + k]
  PROVE  Stays
<1> DEFINE e == [i \in 1..Pieces(k) |-> PieceFrame(conn, host.sent, k, i)]
           y == (conn.nxt + k) % Seqs
           z == WindowOf(conn)
           c2 == WithNumber(conn, y, z)
           d == rx \o out
<1>1. /\ Core(conn, in, d, guest, host) /\ ConnOK(conn) /\ HostOK(host) /\ rx \in Seq(Frame) /\ out \in Seq(Frame) /\ host \in Host
      /\ Len(rx) <= RxRoom /\ Len(in) <= InRoom /\ d \in Seq(Frame)
  BY NowParts, CoreParts
<1>2. conn.state = "Established" /\ ~conn.finSent /\ Live(conn)
  BY DEF WantsRead, Live
<1>3. /\ conn \in Conn /\ conn.nxt \in Numbers /\ z \in Nat /\ InFlight(conn) \in Nat /\ conn.guestWnd \in Nat
  BY <1>1, ConnParts
<1>4. /\ host.sent \in Nat /\ host.sent <= HostBytes /\ HostBytes \in Nat
  BY <1>1, HostParts, NetParts
<1>5. k \in Nat /\ k > 0 /\ k <= ReadLimit(conn) /\ host.sent + k <= HostBytes
  <2>1. ReadLimit(conn) \in Int
    BY <1>3, NetParts DEF ReadLimit, Least
  <2> DEFINE r == ReadLimit(conn)
             b == HostBytes - host.sent
  <2>2. r \in Int /\ b \in Int /\ k \in 1..Least(r, b)
    BY <1>4, <2>1
  <2> HIDE DEF r, b
  <2>3. k \in Nat /\ k > 0 /\ k <= r /\ k <= b
    BY <2>2 DEF Least
  <2> QED
    BY <1>4, <2>3 DEF r, b
<1>6. y \in Numbers
  BY <1>3, <1>5, ModRange DEF Numbers
<1>7. /\ c2 \in Conn /\ c2.state = conn.state /\ c2.una = conn.una /\ c2.rcv = conn.rcv /\ c2.guestWnd = conn.guestWnd
      /\ c2.toHost = conn.toHost /\ c2.guestFin = conn.guestFin /\ c2.finSent = conn.finSent /\ c2.dead = conn.dead /\ c2.nxt = y
  <2> HIDE DEF y, z
  <2> QED
    BY <1>3, <1>6 DEF WithNumber, Conn
<1>8. /\ host' \in Host /\ host'.sent = host.sent + k /\ host'.wrote = host.wrote /\ host'.shut = host.shut
      /\ host'.early = host.early /\ host'.failed = host.failed
  <2> DEFINE n == host.sent + k
             h == [host EXCEPT !.sent = n]
  <2>1. n \in Nat
    BY <1>4, <1>5
  <2>2. host' = h
    OBVIOUS
  <2> HIDE DEF n
  <2>3. h \in Host /\ h.sent = n /\ h.wrote = host.wrote /\ h.shut = host.shut /\ h.early = host.early /\ h.failed = host.failed
    BY <1>1, <2>1 DEF Host
  <2> HIDE DEF h
  <2> QED
    BY <2>2, <2>3 DEF n
<1>9. e \in Seq(Frame) /\ Len(e) = Pieces(k) /\ \A i \in 1..Len(e) : e[i] = PieceFrame(conn, host.sent, k, i)
  <2>1. conn.nxt = Num(Iss, Sent(conn, host))
    BY <1>1, <1>2, LiveNumbers
  <2>2. \A i \in 1..Pieces(k) : PieceFrame(conn, host.sent, k, i) \in Frame
    BY <1>1, <1>2, <1>5, <2>1, PieceFrameParts
  <2>3. Pieces(k) \in Nat
    BY <1>5, PieceParts
  <2> HIDE DEF e
  <2>4. e = [i \in 1..Pieces(k) |-> PieceFrame(conn, host.sent, k, i)]
    BY DEF e
  <2> QED
    BY <2>2, <2>3, <2>4
<1>10. conn' = c2 /\ out' = out \o e
  <2>1. Segments(Now, host.sent, k) = Stage(c2, out \o e, host.wrote)
    BY SegmentsAre
  <2> DEFINE o == out \o e
             w == host.wrote
             n == Segments(Now, host.sent, k)
  <2>2. n = Stage(c2, o, w) /\ conn' = n.c /\ out' = n.out
    BY <2>1
  <2> HIDE DEF c2, o, w, n
  <2>3. Stage(c2, o, w).c = c2 /\ Stage(c2, o, w).out = o
    BY StageIs
  <2> QED
    BY <2>2, <2>3 DEF o
<1>11. Core(c2, in, d \o e, guest, host')
  <2> HIDE DEF c2, e, d
  <2>1. c2.nxt = (conn.nxt + k) % Seqs
    BY <1>7
  <2> QED
    BY <1>1, <1>2, <1>5, <1>7, <1>8, <1>9, <2>1, SegmentsKeeps
<1>12. rx \o (out \o e) = d \o e /\ out \o e \in Seq(Frame)
  <2> HIDE DEF e
  <2> QED
    BY <1>1, <1>9, JoinSeqs
<1>13. c2 # NoConn
  BY <1>2, <1>7, StatesDiffer
<1> HIDE DEF c2, e, d
<1>14. IInv'
  BY <1>1, <1>10, <1>11, <1>12 DEF IInv, Queues
<1> QED
  BY <1>10, <1>13, <1>14 DEF Stays

LEMMA ReadableIsKept ==
  ASSUME IInv, Readable
  PROVE  Stays
<1> DEFINE w == host.wrote
           f == Bare(conn, {"fin", "ack"})
           t == Told(conn)
           x == (conn.nxt + 1) % Seqs
           y == TRUE
           c2 == WithFin(t, x, y)
           o2 == Append(out, f)
<1>1. /\ Fits(Now, in) /\ Now = Stage(conn, out, w) /\ Now.c = conn /\ Now.out = out /\ Now.wrote = w
      /\ Core(conn, in, rx \o out, guest, host) /\ ConnOK(conn) /\ rx \in Seq(Frame) /\ out \in Seq(Frame)
      /\ host \in Host /\ w \in Seq(Nat) /\ [host EXCEPT !.wrote = w] = host
  BY NowParts
<1>2. conn # NoConn /\ conn.state = "Established" /\ ~conn.finSent /\ WantsRead(conn) /\ UNCHANGED <<in, rx, guest>>
  BY DEF Readable, WantsRead
<1>3. CASE host.failed
  <2> DEFINE n == Emit(Now, {"rst", "ack"}, <<>>)
  <2>1. Becomes([n EXCEPT !.c.dead = TRUE])
    BY <1>3 DEF Readable
  <2>2. Fits(n, in) /\ Alike(conn, n.c)
    BY <1>1, <1>2, EmitResetFits
  <2>3. n.c # NoConn
    BY <1>2, <2>2, StatesDiffer DEF Alike
  <2> HIDE DEF n
  <2>4. [n EXCEPT !.c.dead = TRUE] = Stage([n.c EXCEPT !.dead = TRUE], n.out, n.wrote)
    BY <2>2, DeadIs
  <2>5. Fits(Stage([n.c EXCEPT !.dead = TRUE], n.out, n.wrote), in)
    BY <1>3, <2>2, <2>3, DeadFits
  <2>6. Stage([n.c EXCEPT !.dead = TRUE], n.out, n.wrote).c # NoConn
    <3>1. ConnOK(n.c)
      BY <2>2, FitsParts
    <3> DEFINE c3 == [n.c EXCEPT !.dead = TRUE]
               o3 == n.out
               w3 == n.wrote
    <3>2. n.c \in Conn
      BY <2>2, <2>3, <3>1, ConnParts
    <3>3. c3 # NoConn
      BY <3>2, DeadRemains
    <3> HIDE DEF c3, o3, w3
    <3>4. Stage(c3, o3, w3).c = c3
      BY StageIs
    <3> QED
      BY <3>3, <3>4 DEF c3, o3, w3
  <2> QED
    BY <1>2, <2>1, <2>4, <2>5, <2>6, FitsStays
<1>4. CASE ~host.failed /\ host.shut /\ Becomes([Emit(Now, {"fin", "ack"}, <<>>) EXCEPT !.c.nxt = (@ + 1) % Seqs, !.c.finSent = TRUE])
  <2>1. {"fin", "ack"} \in SUBSET Flags
    BY DEF Flags
  <2>2. Emit(Now, {"fin", "ack"}, <<>>) = Stage(t, o2, w) /\ o2 \in Seq(Frame) /\ rx \o o2 = Append(rx \o out, f)
    <3>1. /\ Emit(Now, {"fin", "ack"}, <<>>) = Stage(Told(Now.c), Append(Now.out, Bare(Now.c, {"fin", "ack"})), Now.wrote)
          /\ Append(Now.out, Bare(Now.c, {"fin", "ack"})) \in Seq(Frame)
          /\ rx \o Append(Now.out, Bare(Now.c, {"fin", "ack"})) = Append(rx \o Now.out, Bare(Now.c, {"fin", "ack"}))
      BY <1>1, <1>2, <2>1, EmitParts
    <3> QED
      BY <1>1, <3>1
  <2>3. /\ f \in Frame /\ f.flags = {"fin", "ack"} /\ f.seq = conn.nxt /\ f.ack = conn.rcv /\ f.wnd <= Window /\ f.data = <<>>
        /\ t \in Conn /\ Alike(conn, t) /\ t.dead = conn.dead
    <3> DEFINE flags == {"fin", "ack"}
               b == Bare(conn, flags)
    <3>1. ConnOK(conn) /\ conn # NoConn /\ flags \in SUBSET Flags
      BY <1>1, <1>2, <2>1
    <3> HIDE DEF flags
    <3>2. b \in Frame /\ b.flags = flags /\ b.seq = conn.nxt /\ b.ack = conn.rcv /\ b.wnd <= Window /\ b.data = <<>>
      BY <3>1, BareParts
    <3>3. t \in Conn /\ Alike(conn, t) /\ t.dead = conn.dead
      BY <3>1, BareParts
    <3> QED
      BY <3>2, <3>3 DEF flags
  <2>4. conn.nxt \in Numbers /\ x \in Numbers
    <3>1. conn.nxt \in Numbers
      BY <1>1, <1>2, ConnParts
    <3> QED
      BY <3>1, ModRange DEF Numbers
  <2>5. SetsFin(Stage(t, o2, w), x, y) = Stage(c2, o2, w)
    <3> HIDE DEF t, o2, w, x, y
    <3> QED
      BY NumberAnd
  <2>6. /\ c2 \in Conn /\ c2.state = conn.state /\ c2.una = conn.una /\ c2.rcv = conn.rcv /\ c2.guestWnd = conn.guestWnd
        /\ c2.toHost = conn.toHost /\ c2.guestFin = conn.guestFin /\ c2.dead = conn.dead /\ c2.finSent /\ c2.nxt = x
    <3> HIDE DEF t, x
    <3> QED
      BY <2>3, <2>4 DEF WithFin, Conn, Alike
  <2>7. Plain(f) /\ "fin" \in f.flags
    BY <2>3 DEF Plain
  <2>8. InFlight(conn) < Window
    <3>1. InFlight(conn) \in Nat /\ conn.guestWnd \in Nat
      BY <1>1, <1>2, ConnParts
    <3> DEFINE v == InFlight(conn)
               g == conn.guestWnd
    <3>2. v \in Nat /\ g \in Nat /\ v < Least(g, Window)
      BY <1>2, <3>1 DEF WantsRead
    <3> HIDE DEF v, g
    <3>3. v < Window
      BY <3>2, NetParts DEF Least
    <3> QED
      BY <3>3 DEF v
  <2>9. Core(c2, in, Append(rx \o out, f), guest, host)
    <3> HIDE DEF c2, f
    <3> QED
      BY <1>1, <1>2, <1>4, <2>3, <2>6, <2>7, <2>8, OneKeeps
  <2>10. Becomes(SetsFin(Stage(t, o2, w), x, y))
    <3>1. Stage(t, o2, w).c = t /\ t.nxt = conn.nxt
      BY <2>3, StageIs DEF Alike
    <3> HIDE DEF t, o2, w
    <3> QED
      BY <1>4, <2>2, <3>1 DEF SetsFin
  <2> HIDE DEF c2, o2, f, t, w, x, y
  <2>11. Fits(Stage(c2, o2, w), in)
    <3>1. Core(c2, in, rx \o o2, guest, [host EXCEPT !.wrote = w])
      BY <1>1, <2>2, <2>9
    <3> QED
      BY <1>1, <2>2, <3>1, FitsFrom
  <2>12. Stage(c2, o2, w).c # NoConn
    BY <1>2, <2>6, StatesDiffer, StageIs
  <2> QED
    BY <1>2, <2>5, <2>10, <2>11, <2>12, FitsStays
<1>5. CASE \E k \in 1..Least(ReadLimit(conn), HostBytes - host.sent) :
             LET n == Segments(Now, host.sent, k)
             IN  conn' = n.c /\ out' = n.out /\ host' = [host EXCEPT !.sent = @ + k]
  BY <1>2, <1>5, SegmentsIsKept
<1> QED
  BY <1>3, <1>4, <1>5 DEF Readable

LEMMA SweepIsKept ==
  ASSUME IInv, Sweep
  PROVE  IInv'
<1>1. Core(conn, in, rx \o out, guest, host) /\ Queues
  BY DEF IInv
<1>2. conn # NoConn /\ Over(conn) /\ conn' = NoConn /\ UNCHANGED <<in, out, rx, host, guest>>
  BY DEF Sweep
<1>3. Core(NoConn, in, rx \o out, guest, host)
  BY <1>1, <1>2, SweepKeeps
<1> QED
  BY <1>1, <1>2, <1>3 DEF IInv, Queues

(* The last RxRoom of what waits remain.                                   *)
LEMMA LastFrames ==
  ASSUME NEW q \in Seq(Frame), NEW room \in Nat
  PROVE  LET e == SubSeq(q, 1 + Len(q) - Least(Len(q), room), Len(q))
         IN  e \in Seq(Frame) /\ Suffix(e, q) /\ Len(e) <= room
<1> PICK n \in Nat : n = Len(q)
  OBVIOUS
<1> DEFINE k == Least(n, room)
           e == SubSeq(q, 1 + n - k, n)
<1>1. k \in Nat /\ k <= n /\ k <= room
  BY DEF Least
<1> HIDE DEF k
<1>2. 1 + n - k \in 1..(n + 1) /\ n \in (1 + n - k - 1)..n
  BY <1>1
<1>3. e \in Seq(Frame) /\ Len(e) = k /\ \A i \in 1..k : e[i] = q[i + (n - k)]
  <2>1. /\ e \in Seq(Frame) /\ Len(e) = (IF 1 + n - k <= n THEN n - (1 + n - k) + 1 ELSE 0)
        /\ \A i \in 1..(n - (1 + n - k) + 1) : e[i] = q[(1 + n - k) + i - 1]
    BY <1>2, SubSeqProperties
  <2>2. \A i \in 1..k : (1 + n - k) + i - 1 = i + (n - k)
    BY <1>1
  <2>3. n - (1 + n - k) + 1 = k
    BY <1>1
  <2> QED
    BY <1>1, <2>1, <2>2, <2>3
<1> HIDE DEF e
<1>4. Suffix(e, q) /\ Len(e) <= room
  BY <1>1, <1>3 DEF Suffix
<1> QED
  BY <1>3, <1>4 DEF e, k

LEMMA InputPointIsKept ==
  ASSUME IInv, InputPoint
  PROVE  IInv'
<1> DEFINE d == rx \o out
<1>1. /\ Core(conn, in, d, guest, host) /\ Len(in) <= InRoom /\ rx \in Seq(Frame) /\ out \in Seq(Frame) /\ d \in Seq(Frame)
  BY NowParts, CoreParts
<1>2. /\ rx' = SubSeq(d, 1 + Len(d) - Least(Len(d), RxRoom), Len(d)) /\ out' = <<>>
      /\ UNCHANGED <<conn, in, host, guest>>
  BY DEF InputPoint
<1> HIDE DEF d
<1>3. rx' \in Seq(Frame) /\ Suffix(rx', d) /\ Len(rx') <= RxRoom
  <2> DEFINE e == SubSeq(d, 1 + Len(d) - Least(Len(d), RxRoom), Len(d))
  <2>1. e \in Seq(Frame) /\ Suffix(e, d) /\ Len(e) <= RxRoom
    BY <1>1, LastFrames, NetParts
  <2> QED
    BY <1>2, <2>1
<1>4. Core(conn, in, rx', guest, host)
  BY <1>1, <1>3, DroppedKeeps
<1>5. rx' \o <<>> = rx' /\ <<>> \in Seq(Frame)
  BY <1>3, ConcatEmptySeq
<1> QED
  BY <1>1, <1>2, <1>3, <1>4, <1>5 DEF IInv, Queues

LEMMA HostIsKept ==
  ASSUME IInv, HostCloses \/ HostFails
  PROVE  IInv'
<1>1. Core(conn, in, rx \o out, guest, host) /\ Queues /\ HostOK(host)
  BY NowParts DEF IInv
<1>2. host \in Host /\ Len(host.wrote) \in Nat /\ GuestBytes \in Nat
  BY <1>1, HostParts, NetParts
<1>3. UNCHANGED <<conn, in, out, rx, guest>>
  BY DEF HostCloses, HostFails
<1>4. /\ HostOK(host') /\ host'.wrote = host.wrote /\ host'.sent = host.sent
      /\ host.shut => host'.shut
      /\ host.failed => host'.failed
  <2>1. CASE HostFails
    BY <1>1, <1>2, <2>1 DEF HostFails, HostOK, Host
  <2>2. CASE HostCloses
    <3> DEFINE early == Len(host.wrote) < GuestBytes
    <3>1. early \in BOOLEAN /\ (~early => GuestBytes <= Len(host.wrote))
      BY <1>2
    <3>2. host.sent = HostBytes /\ host' = [host EXCEPT !.shut = TRUE, !.early = early]
      BY <2>2 DEF HostCloses
    <3> HIDE DEF early
    <3>3. /\ host' \in Host /\ host'.wrote = host.wrote /\ host'.sent = host.sent /\ host'.shut /\ host'.early = early
          /\ host'.failed = host.failed
      BY <1>2, <3>1, <3>2 DEF Host
    <3> QED
      BY <1>1, <3>1, <3>2, <3>3 DEF HostOK
  <2> QED
    BY <2>1, <2>2
<1>5. Core(conn, in, rx \o out, guest, host')
  BY <1>1, <1>4, HostKeeps
<1> QED
  BY <1>1, <1>3, <1>5 DEF IInv, Queues

-------------------------------------------------------------------------------
(* The guest's steps.                                                      *)
LEMMA GuestStays ==
  ASSUME IInv, UNCHANGED <<conn, out, rx, host>>, Core(conn, in', rx \o out, guest', host), Len(in') <= InRoom
  PROVE  IInv'
  BY DEF IInv, Queues

(* What it sends waits if there is room.                                   *)
SentTo(q, f) == IF Len(q) < InRoom THEN Append(q, f) ELSE q

LEMMA SentParts ==
  ASSUME NEW q \in Seq(Frame), NEW f \in Frame, Len(q) <= InRoom
  PROVE  Len(SentTo(q, f)) <= InRoom /\ (SentTo(q, f) = q \/ SentTo(q, f) = Append(q, f))
<1>1. Len(Append(q, f)) = Len(q) + 1 /\ Len(q) \in Nat
  BY AppendParts
<1> QED
  BY <1>1, NetParts DEF SentTo

LEMMA SaysFits ==
  ASSUME NEW c, NEW g, NEW g2, NEW h, NEW q, NEW d, Core(c, q, d, g, h), SaysMore(g, g2), Len(q) <= InRoom,
         NEW flags \in SUBSET {"ack", "fin"}, NEW at \in Nat, NEW data \in Seq(Nat),
         WithEnd(at + Len(data), "fin" \in flags) <= Said(g2), data = [j \in 1..Len(data) |-> at + j],
         "fin" \in flags => at + Len(data) = GuestBytes,
         Said(g) <= at \/ (q = <<>> /\ g.una <= at)
  PROVE  LET q2 == SentTo(q, Seg(flags, Isn + 1 + at, Ack(g2), Advertised(g2), data))
         IN  Core(c, q2, d, g2, h) /\ Len(q2) <= InRoom
<1> DEFINE seq == Isn + 1 + at
           ack == Ack(g2)
           wnd == Advertised(g2)
           f == Seg(flags, seq, ack, wnd, data)
<1>1. q \in Seq(Frame) /\ GuestOK(g) /\ GuestOK(g2) /\ g2.state = "open"
  BY CoreParts DEF SaysMore
<1>2. ack = Ack(g) /\ wnd = Advertised(g)
  BY DEF SaysMore, Ack, Advertised
<1>3. ack \in Numbers /\ ack \in Int
  BY <1>1, AckNum, ModSmall
<1>4. wnd \in Nat
  BY <1>1, GuestParts
<1>5. seq \in Int /\ seq % Seqs = Num(Isn, at) /\ flags \in SUBSET Flags /\ at \in Int
  BY NetParts DEF Num, Flags
<1> HIDE DEF seq, ack, wnd
<1>6. f \in Frame /\ f.flags = flags /\ f.seq = seq % Seqs /\ f.ack = ack /\ f.wnd = wnd /\ f.data = data
  BY <1>3, <1>4, <1>5, SegParts
<1> HIDE DEF f
<1>7. /\ Plain(f) /\ f.seq = Num(Isn, at) /\ f.ack = Ack(g) /\ f.wnd = Advertised(g)
      /\ f.data = [j \in 1..Len(f.data) |-> at + j]
      /\ "fin" \in f.flags => at + Len(f.data) = GuestBytes
  BY <1>2, <1>5, <1>6 DEF Plain
<1>8. at + Length(f) <= Said(g2)
  <2>0. \A x \in Seq(Nat) : Len(x) \in Nat
    OBVIOUS
  <2> PICK n \in Nat : n = Len(data)
    BY <2>0
  <2>1. CASE "fin" \in flags
    BY <1>6, <2>1 DEF Length, WithEnd
  <2>2. CASE "fin" \notin flags
    BY <1>6, <2>2 DEF Length, WithEnd
  <2> QED
    BY <2>1, <2>2
<1>9. Core(c, Append(q, f), d, g2, h)
  BY <1>5, <1>6, <1>7, <1>8, SaysKeeps
<1>10. Core(c, q, d, g2, h)
  BY SaysMoreKeeps
<1>11. Core(c, SentTo(q, f), d, g2, h) /\ Len(SentTo(q, f)) <= InRoom
  BY <1>1, <1>6, <1>9, <1>10, SentParts
<1> QED
  BY <1>11 DEF f, seq, ack, wnd

(* Nothing waits in any queue.                                             *)
LEMMA QuietParts ==
  ASSUME IInv, Quiet \/ guest.state = "closed"
  PROVE  in = <<>> /\ rx \o out = <<>>
<1>1. Core(conn, in, rx \o out, guest, host) /\ rx \in Seq(Frame)
  BY NowParts
<1>2. <<>> \o <<>> = <<>>
  OBVIOUS
<1>3. Quiet => in = <<>> /\ rx \o out = <<>>
  BY <1>2 DEF Quiet
<1> QED
  BY <1>1, <1>3 DEF Core, Closed

LEMMA SendIs ==
  ASSUME NEW g, NEW flags, NEW at, NEW data, Send(g, flags, at, data)
  PROVE  guest' = g /\ in' = SentTo(in, Seg(flags, Isn + 1 + at, Ack(g), Advertised(g), data))
  BY DEF Send, SentTo

LEMMA IdleOpens ==
  ASSUME NEW s, NEW r
  PROVE  [Idle(s, r) EXCEPT !.state = "synSent"] = Idle("synSent", r)
<1> DEFINE a == 0
           d == <<>>
           f == FALSE
           t == "synSent"
<1>1. [[state |-> s, una |-> a, nxt |-> a, wnd |-> a, got |-> d, read |-> r, finSent |-> f, finGot |-> f] EXCEPT !.state = t]
        = [state |-> t, una |-> a, nxt |-> a, wnd |-> a, got |-> d, read |-> r, finSent |-> f, finGot |-> f]
  <2> HIDE DEF a, d, f, t
  <2> QED
    OBVIOUS
<1> QED
  BY <1>1 DEF Idle

LEMMA GuestOpensIsKept ==
  ASSUME IInv, GuestOpens
  PROVE  IInv'
<1> DEFINE g2 == [guest EXCEPT !.state = "synSent"]
           flags == {"syn"}
           seq == Isn + 1 + (-1)
           ack == Ack(g2)
           wnd == Advertised(g2)
           none == <<>>
           f == Seg(flags, seq, ack, wnd, none)
<1>1. Core(conn, in, rx \o out, guest, host) /\ GuestOK(guest) /\ in \in Seq(Frame) /\ Len(in) <= InRoom
  BY NowParts
<1>2. guest.state \in {"closed", "synSent"} /\ UNCHANGED <<conn, out, rx, host>> /\ (Quiet \/ guest.state = "closed")
  BY DEF GuestOpens
<1>3. in = <<>> /\ rx \o out = <<>>
  BY <1>2, QuietParts
<1>4. guest = Idle(guest.state, 0)
  BY <1>1, <1>2 DEF GuestOK
<1>5. g2 = Idle("synSent", 0)
  <2>1. g2 = [Idle(guest.state, 0) EXCEPT !.state = "synSent"]
    BY <1>4
  <2> DEFINE t == guest.state
             r == 0
  <2>2. [Idle(t, r) EXCEPT !.state = "synSent"] = Idle("synSent", r)
    <3> HIDE DEF t, r
    <3> QED
      BY IdleOpens
  <2> QED
    BY <2>1, <2>2
<1>6. GuestOK(g2) /\ Len(g2.got) = 0 /\ g2.read = 0
  <2> DEFINE t == "synSent"
             r == 0
             i == Idle(t, r)
  <2>1. t \in {"closed", "synSent", "reset", "aborted"} /\ r \in Nat /\ r = 0 /\ g2 = i
    BY <1>5
  <2> HIDE DEF t, g2
  <2>2. GuestOK(Idle(t, r)) /\ Len(Idle(t, r).got) = 0 /\ Idle(t, r).read = r
    BY <2>1, IdleParts
  <2> QED
    BY <2>1, <2>2
<1>7. ack \in Int /\ wnd \in Nat /\ wnd <= Room
  <2>1. ack \in Int
    <3> HIDE DEF g2
    <3> QED
      BY <1>6, AckNum, ModSmall
  <2>2. wnd = Room
    <3> HIDE DEF g2
    <3> QED
      BY <1>6, NetParts DEF Advertised
  <2> QED
    BY <2>1, <2>2, NetParts
<1>8. flags \in SUBSET Flags /\ none \in Seq(Nat) /\ seq = Isn /\ Isn \in Numbers /\ Isn \in Int
  BY NetParts DEF Flags
<1>9. guest' = g2 /\ in' = SentTo(in, f)
  <2> DEFINE at == -1
  <2>1. Send(g2, flags, at, none)
    BY DEF GuestOpens
  <2>2. guest' = g2 /\ in' = SentTo(in, Seg(flags, Isn + 1 + at, Ack(g2), Advertised(g2), none))
    <3> HIDE DEF g2, flags, at, none
    <3> QED
      BY <2>1, SendIs
  <2> QED
    BY <2>2
<1> HIDE DEF flags, seq, ack, wnd, none, g2
<1>10. f \in Frame /\ f.flags = flags /\ f.seq = seq /\ f.wnd = wnd
  BY <1>7, <1>8, SegParts
<1> HIDE DEF f
<1>11. /\ Core(conn, <<>>, <<>>, Idle("synSent", 0), host)
       /\ Core(conn, Append(<<>>, f), <<>>, Idle("synSent", 0), host)
  <2>1. Core(conn, <<>>, <<>>, guest, host) /\ f.flags = {"syn"} /\ f.seq = Isn /\ f.wnd <= Room
    BY <1>1, <1>3, <1>7, <1>8, <1>10 DEF flags
  <2> QED
    BY <1>2, <1>10, <2>1, OpensKeeps
<1>12. Core(conn, in', rx \o out, guest', host) /\ Len(in') <= InRoom
  BY <1>1, <1>3, <1>5, <1>9, <1>10, <1>11, SentParts
<1> QED
  BY <1>2, <1>12, GuestStays

(* The guest says more of its stream.                                      *)
LEMMA SaysIsKept ==
  ASSUME IInv, UNCHANGED <<conn, out, rx, host>>, NEW g2, SaysMore(guest, g2),
         NEW flags \in SUBSET {"ack", "fin"}, NEW at \in Nat, NEW data \in Seq(Nat), Send(g2, flags, at, data),
         WithEnd(at + Len(data), "fin" \in flags) <= Said(g2), data = [j \in 1..Len(data) |-> at + j],
         "fin" \in flags => at + Len(data) = GuestBytes,
         Said(guest) <= at \/ (in = <<>> /\ guest.una <= at)
  PROVE  IInv'
<1> DEFINE q2 == SentTo(in, Seg(flags, Isn + 1 + at, Ack(g2), Advertised(g2), data))
<1>1. Core(conn, in, rx \o out, guest, host) /\ Len(in) <= InRoom
  BY NowParts
<1>2. guest' = g2 /\ in' = q2
  BY SendIs
<1>3. Core(conn, q2, rx \o out, g2, host) /\ Len(q2) <= InRoom
  BY <1>1, SaysFits
<1> HIDE DEF q2
<1> QED
  BY <1>2, <1>3, GuestStays

LEMMA SetSaid ==
  ASSUME NEW g, GuestOK(g), g.state = "open", NEW n \in Nat, NEW fin \in BOOLEAN,
         g.nxt <= n, n <= g.una + Window, n <= GuestBytes, fin => n = GuestBytes, ~g.finSent
  PROVE  LET g2 == [g EXCEPT !.nxt = n, !.finSent = fin]
         IN  SaysMore(g, g2) /\ Said(g2) = WithEnd(n, fin) /\ Said(g) = g.nxt
<1> DEFINE g2 == [g EXCEPT !.nxt = n, !.finSent = fin]
<1>1. g \in GuestEnd /\ g.nxt \in Nat /\ g.una \in Nat
  BY GuestParts DEF GuestOK
<1>2. /\ g2 \in GuestEnd /\ g2.state = "open" /\ g2.nxt = n /\ g2.finSent = fin /\ g2.una = g.una /\ g2.wnd = g.wnd
      /\ g2.got = g.got /\ g2.read = g.read /\ g2.finGot = g.finGot
  BY <1>1 DEF GuestEnd
<1> HIDE DEF g2
<1>3. Said(g2) = WithEnd(n, fin) /\ Said(g) = g.nxt /\ Said(g2) \in Nat /\ n <= Said(g2)
  BY <1>1, <1>2 DEF Said, WithEnd
<1>4. g2.una <= Said(g2) /\ Said(g) <= Said(g2)
  BY <1>1, <1>2, <1>3 DEF GuestOK
<1>5. GuestOK(g2)
  BY <1>1, <1>2, <1>4 DEF GuestOK
<1> QED
  BY <1>2, <1>3, <1>4, <1>5 DEF SaysMore, g2

LEMMA GuestSendsIsKept ==
  ASSUME IInv, GuestSends
  PROVE  IInv'
<1>1. GuestOK(guest) /\ guest.state = "open" /\ ~guest.finSent /\ UNCHANGED <<conn, out, rx, host>>
  BY NowParts DEF GuestSends
<1>2. /\ guest.nxt \in Nat /\ guest.una \in Nat /\ guest.wnd \in Nat /\ guest.wnd <= Window /\ GuestBytes \in Nat /\ Window \in Nat
  BY <1>1, GuestParts, NetParts DEF GuestOK
<1>3. PICK fin \in BOOLEAN :
        /\ fin => guest.nxt + 1 = GuestBytes
        /\ Send([guest EXCEPT !.nxt = guest.nxt + 1, !.finSent = fin],
                IF fin THEN {"ack", "fin"} ELSE {"ack"}, guest.nxt, <<guest.nxt + 1>>)
  BY DEF GuestSends
<1> DEFINE at == guest.nxt
           n == at + 1
           g2 == [guest EXCEPT !.nxt = n, !.finSent = fin]
           flags == IF fin THEN {"ack", "fin"} ELSE {"ack"}
           data == <<n>>
<1>4. at \in Nat /\ n \in Nat /\ n <= GuestBytes /\ n <= guest.una + Window /\ at <= n /\ n = at + 1
  BY <1>1, <1>2 DEF GuestSends
<1>5. SaysMore(guest, g2) /\ Said(g2) = WithEnd(n, fin) /\ Said(guest) = at
  <2> HIDE DEF n
  <2> QED
    BY <1>1, <1>3, <1>4, SetSaid DEF n
<1>6. data \in Seq(Nat) /\ Len(data) = 1 /\ data = [j \in 1..1 |-> at + j]
  BY <1>4
<1>7. flags \in SUBSET {"ack", "fin"} /\ ("fin" \in flags <=> fin)
  OBVIOUS
<1>8. Send(g2, flags, at, data)
  BY <1>3
<1> HIDE DEF g2, flags, data, n
<1>9. WithEnd(at + Len(data), "fin" \in flags) <= Said(g2)
  <2>1. at + Len(data) = n
    BY <1>4, <1>6
  <2>2. WithEnd(n, "fin" \in flags) = WithEnd(n, fin) /\ WithEnd(n, fin) \in Int
    BY <1>4, <1>7 DEF WithEnd
  <2> QED
    BY <1>5, <2>1, <2>2
<1>10. /\ data = [j \in 1..Len(data) |-> at + j] /\ ("fin" \in flags => at + Len(data) = GuestBytes)
       /\ Said(guest) <= at
  BY <1>3, <1>4, <1>5, <1>6, <1>7 DEF n
<1> QED
  BY <1>1, <1>4, <1>5, <1>6, <1>7, <1>8, <1>9, <1>10, SaysIsKept

LEMMA EmptyData == <<>> \in Seq(Nat) /\ Len(<<>>) = 0 /\ \A at \in Nat : <<>> = [j \in 1..0 |-> at + j]
  OBVIOUS

LEMMA GuestEndsIsKept ==
  ASSUME IInv, GuestEnds
  PROVE  IInv'
<1> DEFINE at == guest.nxt
           y == TRUE
           g2 == [guest EXCEPT !.nxt = at, !.finSent = y]
           flags == {"ack", "fin"}
           data == <<>>
<1>1. /\ GuestOK(guest) /\ guest.state = "open" /\ ~guest.finSent /\ at = GuestBytes /\ UNCHANGED <<conn, out, rx, host>>
      /\ Send([guest EXCEPT !.finSent = TRUE], flags, at, data)
  BY NowParts DEF GuestEnds
<1>2. at \in Nat /\ guest \in GuestEnd /\ at <= guest.una + Window
  BY <1>1, GuestParts DEF GuestOK
<1>3. SaysMore(guest, g2) /\ Said(g2) = WithEnd(at, y) /\ Said(guest) = at
  <2>1. y \in BOOLEAN /\ (y => at = GuestBytes)
    BY <1>1
  <2>2. guest.nxt <= at /\ at <= GuestBytes /\ guest.nxt = at
    BY <1>1, <1>2
  <2> HIDE DEF at, y
  <2> QED
    BY <1>1, <1>2, <2>1, <2>2, SetSaid
<1>4. [guest EXCEPT !.finSent = TRUE] = g2
  BY <1>2 DEF GuestEnd
<1>5. Send(g2, flags, at, data)
  BY <1>1, <1>4
<1>6. data \in Seq(Nat) /\ Len(data) = 0 /\ data = [j \in 1..Len(data) |-> at + j]
  BY <1>2, EmptyData
<1>7. flags \in SUBSET {"ack", "fin"} /\ "fin" \in flags
  OBVIOUS
<1>8. at + Len(data) = at
  BY <1>2, <1>6
<1> HIDE DEF g2, flags, data
<1>9. WithEnd(at + Len(data), "fin" \in flags) <= Said(g2) /\ Said(g2) = at + 1
  BY <1>2, <1>3, <1>7, <1>8 DEF WithEnd
<1>10. ("fin" \in flags => at + Len(data) = GuestBytes) /\ Said(guest) <= at
  BY <1>1, <1>2, <1>3, <1>8
<1> QED
  BY <1>1, <1>2, <1>3, <1>5, <1>6, <1>7, <1>9, <1>10, SaysIsKept

(* It says again what it has said.                                         *)
LEMMA SaysSame ==
  ASSUME NEW g, GuestOK(g), g.state = "open"
  PROVE  SaysMore(g, g)
<1>1. Said(g) \in Nat
  BY GuestParts
<1> QED
  BY <1>1 DEF SaysMore

LEMMA GuestSendsAgainIsKept ==
  ASSUME IInv, GuestSendsAgain
  PROVE  IInv'
<1>1. /\ GuestOK(guest) /\ guest.state = "open" /\ Quiet /\ UNCHANGED <<conn, out, rx, host>> /\ in = <<>>
      /\ guest.una < guest.nxt + (IF guest.finSent THEN 1 ELSE 0)
  BY NowParts DEF GuestSendsAgain, Quiet
<1>2. /\ guest.nxt \in Nat /\ guest.una \in Nat /\ Said(guest) \in Nat /\ guest.nxt <= Said(guest) /\ guest.finSent \in BOOLEAN
      /\ SaysMore(guest, guest) /\ GuestBytes \in Nat
  BY <1>1, GuestParts, SaysSame, NetParts
<1>3. CASE guest.una < guest.nxt
  <2> DEFINE at == guest.una
             n == at + 1
             flags == {"ack"}
             data == <<n>>
  <2>1. Send(guest, flags, at, data)
    BY <1>3 DEF GuestSendsAgain
  <2>2. at \in Nat /\ n \in Nat /\ n = at + 1 /\ guest.una <= at /\ n <= Said(guest)
    BY <1>2, <1>3
  <2>3. data \in Seq(Nat) /\ Len(data) = 1 /\ data = [j \in 1..1 |-> at + j]
    BY <2>2
  <2>4. flags \in SUBSET {"ack", "fin"} /\ "fin" \notin flags
    OBVIOUS
  <2> HIDE DEF flags, data, n
  <2>5. WithEnd(at + Len(data), "fin" \in flags) <= Said(guest) /\ data = [j \in 1..Len(data) |-> at + j]
    <3>1. at + Len(data) = n
      BY <2>2, <2>3
    <3> QED
      BY <2>2, <2>3, <2>4, <3>1 DEF WithEnd
  <2> QED
    BY <1>1, <1>2, <2>1, <2>2, <2>3, <2>4, <2>5, SaysIsKept
<1>4. CASE ~(guest.una < guest.nxt)
  <2> DEFINE at == guest.nxt
             flags == {"ack", "fin"}
             data == <<>>
  <2>1. Send(guest, flags, at, data)
    BY <1>4 DEF GuestSendsAgain
  <2>2. guest.finSent /\ at = GuestBytes /\ Said(guest) = at + 1 /\ guest.una <= at
    BY <1>1, <1>2, <1>4 DEF GuestOK, Said, WithEnd
  <2>3. data \in Seq(Nat) /\ Len(data) = 0 /\ data = [j \in 1..Len(data) |-> at + j]
    BY <1>2, EmptyData
  <2>4. flags \in SUBSET {"ack", "fin"} /\ "fin" \in flags
    OBVIOUS
  <2>5. at + Len(data) = at
    BY <1>2, <2>3
  <2> HIDE DEF flags, data
  <2>6. WithEnd(at + Len(data), "fin" \in flags) <= Said(guest) /\ at + Len(data) = GuestBytes
    BY <1>2, <2>2, <2>4, <2>5 DEF WithEnd
  <2> QED
    BY <1>1, <1>2, <2>1, <2>2, <2>3, <2>4, <2>6, SaysIsKept
<1> QED
  BY <1>3, <1>4

(* An acknowledgement of what it has, from a guest g.                      *)
LEMMA AcksFits ==
  ASSUME NEW c, NEW g, NEW h, NEW q, NEW d, Core(c, q, d, g, h), g.state = "open", Len(q) <= InRoom,
         NEW at, at = Said(g)
  PROVE  LET q2 == SentTo(q, Seg({"ack"}, Isn + 1 + at, Ack(g), Advertised(g), <<>>))
         IN  Core(c, q2, d, g, h) /\ Len(q2) <= InRoom
<1> DEFINE flags == {"ack"}
           data == <<>>
           q2 == SentTo(q, Seg(flags, Isn + 1 + at, Ack(g), Advertised(g), data))
<1>1. GuestOK(g) /\ SaysMore(g, g)
  BY CoreParts, SaysSame
<1>2. at \in Nat
  BY <1>1, GuestParts
<1>3. data \in Seq(Nat) /\ Len(data) = 0 /\ data = [j \in 1..Len(data) |-> at + j]
  BY <1>2, EmptyData
<1>4. flags \in SUBSET {"ack", "fin"} /\ "fin" \notin flags
  OBVIOUS
<1>5. at + Len(data) = at /\ at <= at
  BY <1>2, <1>3
<1> HIDE DEF flags, data
<1>6. WithEnd(at + Len(data), "fin" \in flags) <= Said(g) /\ Said(g) <= at
  BY <1>2, <1>4, <1>5 DEF WithEnd
<1>7. Core(c, q2, d, g, h) /\ Len(q2) <= InRoom
  BY <1>1, <1>2, <1>3, <1>4, <1>6, SaysFits
<1> QED
  BY <1>7 DEF flags, data

LEMMA SaidIs ==
  ASSUME NEW g, GuestOK(g)
  PROVE  Said(g) = g.nxt + (IF g.finSent THEN 1 ELSE 0)
<1>1. g.nxt \in Nat /\ g.finSent \in BOOLEAN
  BY GuestParts
<1> QED
  BY <1>1 DEF Said, WithEnd

LEMMA GuestReadsIsKept ==
  ASSUME IInv, GuestReads
  PROVE  IInv'
<1> DEFINE g == [guest EXCEPT !.read = @ + 1]
           at == guest.nxt + (IF guest.finSent THEN 1 ELSE 0)
<1>1. Core(conn, in, rx \o out, guest, host) /\ GuestOK(guest) /\ Len(in) <= InRoom
  BY NowParts
<1>2. guest.read < Len(guest.got) /\ UNCHANGED <<conn, out, rx, host>>
  BY DEF GuestReads
<1>3. guest.state = "open" /\ Core(conn, in, rx \o out, g, host)
  BY <1>1, <1>2, ReadKeeps
<1>4. g.state = "open" /\ Said(g) = at /\ GuestOK(g)
  <2>1. guest \in GuestEnd /\ guest.read \in Nat /\ guest.read + 1 \in Nat /\ Said(guest) = at
    BY <1>1, GuestParts, SaidIs DEF GuestOK
  <2>2. g.state = guest.state /\ g.nxt = guest.nxt /\ g.finSent = guest.finSent
    BY <2>1 DEF GuestEnd
  <2> HIDE DEF g
  <2>3. Said(g) = Said(guest)
    BY <2>2 DEF Said
  <2>4. GuestOK(g)
    BY <1>3, CoreParts
  <2> QED
    BY <1>3, <2>1, <2>2, <2>3, <2>4
<1>5. \/ Send(g, {"ack"}, at, <<>>)
      \/ guest' = g /\ in' = in
  BY DEF GuestReads
<1> HIDE DEF g, at
<1>6. CASE Send(g, {"ack"}, at, <<>>)
  <2> DEFINE q2 == SentTo(in, Seg({"ack"}, Isn + 1 + at, Ack(g), Advertised(g), <<>>))
  <2>1. guest' = g /\ in' = q2
    BY <1>6 DEF Send, SentTo
  <2>2. Core(conn, q2, rx \o out, g, host) /\ Len(q2) <= InRoom
    BY <1>1, <1>3, <1>4, AcksFits
  <2> HIDE DEF q2
  <2> QED
    BY <1>2, <2>1, <2>2, GuestStays
<1>7. CASE guest' = g /\ in' = in
  BY <1>1, <1>2, <1>3, <1>7, GuestStays
<1> QED
  BY <1>5, <1>6, <1>7

LEMMA GuestResetsIsKept ==
  ASSUME IInv, GuestResets
  PROVE  IInv'
<1> DEFINE g == Idle("aborted", guest.read)
           at == guest.nxt
           flags == {"rst"}
           none == <<>>
           seq == Isn + 1 + at
           ack == Ack(g)
           wnd == Advertised(g)
           f == Seg(flags, seq, ack, wnd, none)
<1>1. Core(conn, in, rx \o out, guest, host) /\ GuestOK(guest) /\ Len(in) <= InRoom /\ in \in Seq(Frame)
  BY NowParts
<1>2. Talking(guest) /\ UNCHANGED <<conn, out, rx, host>> /\ Send(g, flags, at, none)
  BY DEF GuestResets, Talking
<1>3. guest.read \in Nat /\ at \in Nat
  BY <1>1, GuestParts
<1>4. Core(conn, in, rx \o out, g, host)
  BY <1>1, <1>2, GoneKeeps
<1>5. g.state = "aborted" /\ GuestOK(g) /\ Len(g.got) = 0 /\ g.read = guest.read
  BY <1>3, IdleParts
<1> HIDE DEF g, at
<1>6. ack \in Int /\ wnd \in Nat /\ seq \in Int
  <2>1. ack \in Int
    BY <1>5, AckNum, ModSmall
  <2>2. wnd \in Nat
    BY <1>3, <1>5, NetParts DEF Advertised
  <2> QED
    BY <1>3, <2>1, <2>2, NetParts
<1>7. flags \in SUBSET Flags /\ none \in Seq(Nat)
  BY DEF Flags
<1>8. guest' = g /\ in' = SentTo(in, f)
  <2> HIDE DEF flags, none
  <2> QED
    BY <1>2, SendIs
<1>9. "rst" \in flags /\ "syn" \notin flags
  OBVIOUS
<1> HIDE DEF flags, none, seq, ack, wnd
<1>10. f \in Frame /\ f.flags = flags
  BY <1>6, <1>7, SegParts
<1> HIDE DEF f
<1>11. Core(conn, Append(in, f), rx \o out, g, host)
  BY <1>4, <1>5, <1>9, <1>10, LastFrameKeeps
<1>12. Core(conn, SentTo(in, f), rx \o out, g, host) /\ Len(SentTo(in, f)) <= InRoom
  BY <1>1, <1>4, <1>10, <1>11, SentParts
<1> QED
  BY <1>2, <1>8, <1>12, GuestStays

LEMMA JoinIndex ==
  ASSUME NEW a \in Seq(Frame), NEW b \in Seq(Frame), NEW m \in Nat, NEW n \in Nat, m = Len(a), n = Len(b)
  PROVE  /\ a \o b \in Seq(Frame) /\ Len(a \o b) = m + n
         /\ \A i \in 1..m : (a \o b)[i] = a[i]
         /\ \A i \in 1..n : (a \o b)[m + i] = b[i]
  BY ConcatProperties

(* The frame that the guest takes is the first of all that wait.           *)
LEMMA FirstOfAll ==
  ASSUME NEW r \in Seq(Frame), NEW o \in Seq(Frame), r # <<>>
  PROVE  /\ r \o o \in Seq(Frame) /\ r \o o # <<>> /\ (r \o o)[1] = r[1] /\ Tail(r \o o) = Tail(r) \o o
         /\ Tail(r) \in Seq(Frame) /\ Len(Tail(r)) = Len(r) - 1 /\ Len(r) \in Nat /\ r[1] \in Frame
<1> PICK m \in Nat : m = Len(r)
  OBVIOUS
<1> PICK n \in Nat : n = Len(o)
  OBVIOUS
<1> DEFINE all == r \o o
           t == Tail(r)
<1>1. m > 0 /\ r[1] \in Frame
  BY EmptySeq
<1>2. /\ all \in Seq(Frame) /\ Len(all) = m + n /\ (\A i \in 1..m : all[i] = r[i]) /\ (\A i \in 1..n : all[m + i] = o[i])
  BY ConcatProperties
<1>3. t \in Seq(Frame) /\ Len(t) = m - 1 /\ \A i \in 1..(m - 1) : t[i] = r[i + 1]
  BY TailSuffix
<1>4. all # <<>> /\ all[1] = r[1]
  BY <1>1, <1>2
<1> HIDE DEF all
<1>5. Tail(all) \in Seq(Frame) /\ Len(Tail(all)) = m + n - 1 /\ \A i \in 1..(m + n - 1) : Tail(all)[i] = all[i + 1]
  BY <1>2, <1>4, TailSuffix
<1> HIDE DEF t
<1>6. /\ t \o o \in Seq(Frame) /\ Len(t \o o) = (m - 1) + n /\ (\A i \in 1..(m - 1) : (t \o o)[i] = t[i])
      /\ (\A i \in 1..n : (t \o o)[(m - 1) + i] = o[i])
  <2> PICK k \in Nat : k = m - 1
    BY <1>1
  <2>1. t \in Seq(Frame) /\ o \in Seq(Frame) /\ k \in Nat /\ n \in Nat /\ k = Len(t) /\ n = Len(o)
    BY <1>3
  <2>2. /\ t \o o \in Seq(Frame) /\ Len(t \o o) = k + n /\ (\A i \in 1..k : (t \o o)[i] = t[i])
        /\ (\A i \in 1..n : (t \o o)[k + i] = o[i])
    BY ONLY <2>1, JoinIndex
  <2> QED
    BY <2>2
<1>7. ASSUME NEW i \in 1..(m + n - 1)
      PROVE  Tail(all)[i] = (t \o o)[i]
  <2>1. CASE i <= m - 1
    <3>1. i \in 1..(m - 1) /\ i + 1 \in 1..m
      BY <1>1, <2>1
    <3> QED
      BY <1>2, <1>3, <1>5, <1>6, <3>1
  <2>2. CASE ~(i <= m - 1)
    <3> DEFINE j == i - (m - 1)
    <3>1. j \in 1..n /\ (m - 1) + j = i /\ m + j = i + 1
      BY <1>1, <2>2
    <3> HIDE DEF j
    <3>2. (t \o o)[(m - 1) + j] = o[j] /\ all[m + j] = o[j]
      BY <1>2, <1>6, <3>1
    <3>3. Tail(all)[i] = all[i + 1]
      BY <1>5
    <3> QED
      BY <3>1, <3>2, <3>3
  <2> QED
    BY <2>1, <2>2
<1>8. m + n - 1 = (m - 1) + n
  OBVIOUS
<1>9. Tail(all) = t \o o
  BY <1>5, <1>6, <1>7, <1>8, SeqEqual
<1> QED
  BY <1>1, <1>2, <1>3, <1>4, <1>9 DEF all, t

LEMMA TakeStays ==
  ASSUME IInv, UNCHANGED <<conn, out, host>>, rx # <<>>, rx' = Tail(rx),
         Core(conn, in', Tail(rx \o out), guest', host), Len(in') <= InRoom
  PROVE  IInv'
<1>1. rx \in Seq(Frame) /\ out \in Seq(Frame) /\ Len(rx) <= RxRoom
  BY NowParts
<1>2. Tail(rx \o out) = Tail(rx) \o out /\ Tail(rx) \in Seq(Frame) /\ Len(Tail(rx)) = Len(rx) - 1 /\ Len(rx) \in Nat
  BY <1>1, FirstOfAll
<1>3. Len(rx') <= RxRoom
  BY <1>1, <1>2, NetParts
<1> QED
  BY <1>1, <1>2, <1>3 DEF IInv, Queues

(* What the guest is after a frame, field by field.                        *)
Turns(g, st, u, w, x, e) == [[g EXCEPT !.state = st, !.una = u, !.wnd = w] EXCEPT !.got = x, !.finGot = e]
Hears(g, u, w, x, e) == [g EXCEPT !.una = u, !.wnd = w, !.got = x, !.finGot = e]
Opens(g, st, w) == [g EXCEPT !.state = st, !.wnd = w]

TurnsSo(g, st, u, w, x, e) ==
  /\ st = g.state => Turns(g, st, u, w, x, e) = Hears(g, u, w, x, e)
  /\ u = g.una /\ x = g.got /\ e = g.finGot => Turns(g, st, u, w, x, e) = Opens(g, st, w)
  /\ Turns(g, st, u, w, x, e).state = st /\ Turns(g, st, u, w, x, e).nxt = g.nxt
  /\ Turns(g, st, u, w, x, e).finSent = g.finSent

LEMMA TurnsParts ==
  ASSUME NEW g \in GuestEnd, NEW st, NEW u, NEW w, NEW x, NEW e
  PROVE  TurnsSo(g, st, u, w, x, e)
  BY DEF GuestEnd, Turns, Hears, Opens, TurnsSo

(* The guest's own reading of a frame.                                     *)
NextState(g, s) == IF g.state = "synSent" /\ "syn" \in s.flags THEN "open" ELSE g.state
NextUna(g, s) == IF g.una + ((s.ack - Isn - 1 - g.una) % Seqs) <= g.nxt + 1
                 THEN g.una + ((s.ack - Isn - 1 - g.una) % Seqs) ELSE g.una
NextGot(g, s) == IF s.seq = Ack(g) /\ ~g.finGot /\ Len(g.got) - g.read + Len(s.data) <= Room
                 THEN g.got \o s.data ELSE g.got
NextEnd(g, s) == g.finGot \/ (s.seq = Ack(g) /\ "fin" \in s.flags)
Heeds(g, s) == Turns(g, NextState(g, s), NextUna(g, s), s.wnd, NextGot(g, s), NextEnd(g, s))

LEMMA HeedsKeeps ==
  ASSUME NEW c, NEW g, NEW h, NEW q, NEW d, Core(c, q, d, g, h), d # <<>>, Talking(g), "rst" \notin d[1].flags
  PROVE  /\ Core(c, q, Tail(d), Heeds(g, d[1]), h) /\ Heeds(g, d[1]).state = "open"
         /\ Said(Heeds(g, d[1])) = Said(g)
<1> DEFINE s == d[1]
           st == NextState(g, s)
           u == NextUna(g, s)
           w == s.wnd
           x == NextGot(g, s)
           e == NextEnd(g, s)
<1>1. /\ d \in Seq(Frame) /\ GuestOK(g) /\ g \in GuestEnd /\ ForGuest(d)
      /\ Opening(c, q, g) => Early(c, d, g, h)
  BY CoreParts DEF Core, GuestOK
<1>2. s \in Frame /\ 1 \in 1..Len(d)
  BY <1>1, TailSuffix
<1>3. s.wnd <= Window /\ w \in Nat /\ s.data \in Seq(Nat) /\ s.seq \in Numbers /\ s.ack \in Numbers /\ s.ack \in Int
  BY <1>1, <1>2, FrameParts DEF ForGuest
<1>4. /\ g.una \in Nat /\ g.nxt \in Nat /\ g.got \in Seq(Nat) /\ Len(g.got) \in Nat /\ g.finGot \in BOOLEAN /\ g.read \in Nat
      /\ g.state \in {"closed", "synSent", "open", "reset", "aborted"}
  BY <1>1, GuestParts
<1>5. u \in Nat
  <2> DEFINE m == (s.ack - Isn - 1 - g.una) % Seqs
  <2>1. m \in Nat
    <3>1. s.ack - Isn - 1 - g.una \in Int
      BY <1>3, <1>4, NetParts
    <3> QED
      BY <3>1, ModRange DEF Numbers
  <2> HIDE DEF m
  <2> QED
    BY <1>4, <2>1 DEF NextUna, m
<1>6. st \in {"closed", "synSent", "open", "reset", "aborted"} /\ x \in Seq(Nat) /\ e \in BOOLEAN
  BY <1>3, <1>4, ConcatProperties DEF NextState, NextGot, NextEnd
<1>7. Heeds(g, s) = Turns(g, st, u, w, x, e)
  BY DEF Heeds
<1> DEFINE t == Turns(g, st, u, w, x, e)
<1>10. /\ st = g.state => t = Hears(g, u, w, x, e)
       /\ u = g.una /\ x = g.got /\ e = g.finGot => t = Opens(g, st, w)
       /\ t.state = st /\ t.nxt = g.nxt /\ t.finSent = g.finSent
  <2>1. g \in GuestEnd
    BY <1>1
  <2> HIDE DEF st, u, w, x, e
  <2>2. TurnsSo(g, st, u, w, x, e)
    BY ONLY <2>1, TurnsParts, Zenon
  <2> QED
    BY ONLY <2>2 DEF TurnsSo
<1>8. CASE g.state = "synSent"
  <2>1. Early(c, d, g, h) /\ SynAcks(d, g) /\ g = Idle("synSent", 0)
    BY <1>1, <1>8, CoreParts DEF Opening, GuestOK
  <2>2. "syn" \in s.flags
    BY <1>2, <2>1 DEF Early, NonePlain, Plain
  <2>3. s.data = <<>> /\ "fin" \notin s.flags /\ s.seq = Num(Iss, -1) /\ s.ack = Num(Isn, 0)
    BY <1>2, <1>8, <2>1, <2>2 DEF SynAcks
  <2>4. g.una = 0 /\ g.nxt = 0 /\ g.got = <<>> /\ ~g.finGot /\ ~g.finSent
    BY <2>1, IdleParts
  <2>5. st = "open"
    BY <1>8, <2>2 DEF NextState
  <2>6. u = g.una
    <3>1. Pos(Num(Isn, 0), Isn, 0) = 0
      <4>1. 0 \in Int /\ 0 <= 0 /\ 0 < 0 + Seqs
        BY NetParts
      <4> QED
        BY <4>1, PosNum, NetParts
    <3>2. 0 + ((s.ack - Isn - 1 - 0) % Seqs) = 0
      BY <2>3, <3>1 DEF Pos
    <3> QED
      BY <2>4, <3>2 DEF NextUna
  <2>7. x = g.got /\ e = g.finGot
    <3>1. g.got \o s.data = g.got
      <4>1. <<>> \o <<>> = <<>>
        OBVIOUS
      <4> QED
        BY <2>3, <2>4, <4>1
    <3>2. x = g.got
      BY <3>1 DEF NextGot
    <3>3. NextEnd(g, s) <=> g.finGot
      BY <2>3 DEF NextEnd
    <3>4. e = g.finGot
      BY <1>4, <1>6, <3>3
    <3> QED
      BY <3>2, <3>4
  <2>8. Core(c, q, Tail(d), [g EXCEPT !.state = "open", !.wnd = s.wnd], h)
    BY <1>3, <1>8, <2>2, OpenedKeeps
  <2>9. t = Opens(g, st, w)
    BY <1>10, <2>6, <2>7
  <2> HIDE DEF st, u, x, e
  <2> QED
    BY <1>7, <1>10, <2>5, <2>8, <2>9 DEF w, Said, Opens
<1>9. CASE g.state = "open"
  <2>1. Plain(s)
    <3>1. ~Has(d, "syn")
      BY <1>9 DEF Core, ToGuest
    <3>2. "syn" \notin s.flags
      BY <1>2, <3>1 DEF Has
    <3> QED
      BY <3>2 DEF Plain
  <2>2. Core(c, q, Tail(d), Takes(g, s), h)
    BY <1>9, <2>1, HeardKeeps
  <2>3. st = g.state
    BY <1>9 DEF NextState
  <2>4. u = Pos(s.ack, Isn, g.una)
    <3> DEFINE p == Pos(s.ack, Isn, g.una)
    <3>1. p = g.una + ((s.ack - Isn - 1 - g.una) % Seqs)
      BY DEF Pos
    <3>2. Takes(g, s).una = p /\ Takes(g, s).una <= AcksTo(c, g, h)
      BY <1>9, <2>1, TakesParts
    <3>3. p \in Int
      <4>1. s.ack \in Int /\ Isn \in Int /\ g.una \in Int
        BY <1>3, <1>4, NetParts
      <4> QED
        BY <4>1, PosIn
    <3>4. AcksTo(c, g, h) \in Int /\ AcksTo(c, g, h) <= Said(g)
      <4>1. AcksTo(c, g, h) \in Int /\ Said(g) \in Int
        BY <1>1, Limits, CoreParts, GuestParts
      <4>2. CASE Live(c)
        BY <1>9, <4>1, <4>2, TalkingNumbers DEF AcksTo, Talking
      <4>3. CASE ~Live(c)
        BY <4>1, <4>3 DEF AcksTo
      <4> QED
        BY <4>2, <4>3
    <3>5. Said(g) <= g.nxt + 1 /\ Said(g) \in Nat
      BY <1>1, GuestParts
    <3> HIDE DEF p
    <3>6. p <= g.nxt + 1
      BY <1>4, <3>2, <3>3, <3>4, <3>5
    <3> QED
      BY <3>1, <3>6 DEF NextUna, p
  <2>5. Takes(g, s) = [g EXCEPT !.una = u, !.wnd = w, !.got = x, !.finGot = e]
    <3>1. Takes(g, s) = [g EXCEPT !.una = Pos(s.ack, Isn, g.una), !.wnd = w, !.got = x, !.finGot = e]
      BY DEF Takes, NextGot, NextEnd
    <3> HIDE DEF u, w, x, e
    <3> QED
      BY <2>4, <3>1
  <2>6. t = Hears(g, u, w, x, e)
    BY <1>10, <2>3
  <2> HIDE DEF st, u, w, x, e
  <2> QED
    BY <1>7, <1>9, <1>10, <2>2, <2>3, <2>5, <2>6 DEF Said, Hears
<1> QED
  BY <1>8, <1>9 DEF Talking

LEMMA GuestTakesIsKept ==
  ASSUME IInv, GuestTakes
  PROVE  IInv'
<1> DEFINE s == rx[1]
           d == rx \o out
           at == guest.nxt + (IF guest.finSent THEN 1 ELSE 0)
           g == Heeds(guest, s)
<1>1. /\ Core(conn, in, d, guest, host) /\ GuestOK(guest) /\ Len(in) <= InRoom /\ rx \in Seq(Frame) /\ out \in Seq(Frame)
  BY NowParts
<1>2. rx # <<>> /\ rx' = Tail(rx) /\ UNCHANGED <<conn, out, host>>
  BY DEF GuestTakes
<1>3. d \in Seq(Frame) /\ d # <<>> /\ d[1] = s
  BY <1>1, <1>2, FirstOfAll
<1>4. Suffix(Tail(d), d) /\ Tail(d) \in Seq(Frame)
  BY <1>3, TailSuffix
<1>5. CASE guest.state \notin {"synSent", "open"}
  <2>1. UNCHANGED <<guest, in>>
    BY <1>5 DEF GuestTakes
  <2>2. Core(conn, in, Tail(d), guest, host)
    <3> HIDE DEF d
    <3> QED
      BY <1>1, <1>4, DroppedKeeps
  <2> QED
    BY <1>1, <1>2, <2>1, <2>2, TakeStays
<1>6. CASE guest.state \in {"synSent", "open"} /\ "rst" \in s.flags
  <2>1. guest' = Idle("reset", guest.read) /\ UNCHANGED in
    BY <1>6 DEF GuestTakes
  <2>2. Core(conn, in, Tail(d), Idle("reset", guest.read), host)
    <3> HIDE DEF d
    <3>1. Core(conn, in, d, Idle("reset", guest.read), host)
      BY <1>1, <1>6, GoneKeeps DEF Talking
    <3> QED
      BY <1>4, <3>1, DroppedKeeps
  <2> QED
    BY <1>1, <1>2, <2>1, <2>2, TakeStays
<1>7. CASE guest.state \in {"synSent", "open"} /\ "rst" \notin s.flags
  <2>1. Core(conn, in, Tail(d), g, host) /\ g.state = "open" /\ Said(g) = at
    <3>1. Said(guest) = at
      BY <1>1, SaidIs
    <3> HIDE DEF d, at
    <3>2. /\ Core(conn, in, Tail(d), Heeds(guest, d[1]), host) /\ Heeds(guest, d[1]).state = "open"
          /\ Said(Heeds(guest, d[1])) = Said(guest)
      <4>1. Talking(guest) /\ "rst" \notin d[1].flags
        BY <1>3, <1>7 DEF Talking
      <4> QED
        BY <1>1, <1>3, <4>1, HeedsKeeps
    <3> QED
      BY <1>3, <3>1, <3>2
  <2>2. \/ Send(g, {"ack"}, at, <<>>)
        \/ guest' = g /\ in' = in
    BY <1>7 DEF GuestTakes, Heeds, Turns, NextState, NextUna, NextGot, NextEnd
  <2> HIDE DEF g, at, d
  <2>3. CASE Send(g, {"ack"}, at, <<>>)
    <3> DEFINE q2 == SentTo(in, Seg({"ack"}, Isn + 1 + at, Ack(g), Advertised(g), <<>>))
    <3>1. guest' = g /\ in' = q2
      BY <2>3 DEF Send, SentTo
    <3>2. Core(conn, q2, Tail(d), g, host) /\ Len(q2) <= InRoom
      BY <1>1, <2>1, AcksFits
    <3> HIDE DEF q2
    <3> QED
      BY <1>2, <3>1, <3>2, TakeStays DEF d
  <2>4. CASE guest' = g /\ in' = in
    BY <1>1, <1>2, <2>1, <2>4, TakeStays DEF d
  <2> QED
    BY <2>2, <2>3, <2>4
<1> QED
  BY <1>5, <1>6, <1>7

-------------------------------------------------------------------------------
(* The invariant holds at first, and every step keeps it.                  *)

LEMMA InitIsKept ==
  ASSUME Init
  PROVE  IInv
<1>1. /\ conn = NoConn /\ in = <<>> /\ out = <<>> /\ rx = <<>>
      /\ guest = Idle("closed", 0)
      /\ host = [wrote |-> <<>>, sent |-> 0, shut |-> FALSE, early |-> FALSE, failed |-> FALSE]
  BY DEF Init
<1>2. /\ guest.state = "closed" /\ guest.una = 0 /\ guest.nxt = 0 /\ guest.wnd = 0 /\ guest.got = <<>>
      /\ guest.read = 0 /\ guest.finSent = FALSE /\ guest.finGot = FALSE /\ guest \in GuestEnd
  BY <1>1 DEF Idle, GuestEnd
<1>3. /\ host.wrote = <<>> /\ host.sent = 0 /\ host.shut = FALSE /\ host.early = FALSE /\ host.failed = FALSE /\ host \in Host
  BY <1>1 DEF Host
<1>4. conn.state = "none" /\ ~Live(conn) /\ conn = NoConn
  BY <1>1, NoConnParts
<1>5. in = <<>> /\ out = <<>> /\ rx = <<>> /\ rx \o out = <<>> /\ <<>> \in Seq(Frame) /\ <<>> \in Seq(Nat)
  BY <1>1
<1>6. Len(<<>>) = 0 /\ <<>> = UpTo(0)
  BY UpToParts
<1>7. GuestOK(guest)
  BY <1>1, <1>2, <1>6, NetParts DEF GuestOK, Said, WithEnd
<1>8. HostOK(host)
  BY <1>3, NetParts DEF HostOK
<1>9. Bytes(conn, host) = <<>>
  BY <1>3, <1>4 DEF Bytes
<1>10. Stream(conn, host) /\ ConnOK(conn) /\ Link(conn, guest, host)
  BY <1>4, <1>6, <1>9 DEF Stream, ConnOK, Link
<1> DEFINE q == in
           d == rx \o out
<1>11. q = <<>> /\ d = <<>> /\ \A i \in 1..Len(q) : FALSE /\ \A j \in 1..Len(d) : FALSE
  BY <1>5
<1> HIDE DEF q, d
<1>12. ~Has(q, "syn") /\ ~Has(d, "syn") /\ NonePlain(q) /\ NonePlain(d) /\ ForGuest(d)
  BY <1>11 DEF Has, NonePlain, ForGuest
<1>13. ToGuest(d, guest, DataTo(conn, guest, host), AcksTo(conn, guest, host))
  BY <1>2 DEF ToGuest
<1>14. Windows(conn, q, guest, host)
  BY <1>2, <1>3, <1>4, NetParts DEF Windows
<1>15. Syns(q, guest) /\ SynAcks(d, guest) /\ Closed(conn, q, d, guest)
  BY <1>4, <1>11 DEF Syns, SynAcks, Closed
<1>16. Early(conn, d, guest, host)
  BY <1>2, <1>3, <1>4, <1>12 DEF Early
<1>17. Fresh(conn, q, d, guest, host) /\ Dead(conn, q, guest, host)
  BY <1>2, <1>4, <1>12 DEF Fresh, Dead
<1>18. q \in Seq(Frame) /\ d \in Seq(Frame)
  BY <1>5, <1>11
<1>19. Core(conn, q, d, guest, host)
  BY <1>4, <1>7, <1>8, <1>10, <1>12, <1>13, <1>14, <1>15, <1>16, <1>17, <1>18 DEF Core
<1> QED
  BY <1>5, <1>6, <1>19, NetParts DEF IInv, Queues, q, d

LEMMA NextIsKept ==
  ASSUME IInv, [Next]_vars
  PROVE  IInv'
<1>1. CASE Network
  BY <1>1, HandleTcpKeeps, ConnectedIsKept, WritableIsKept, ReadableIsKept, SweepIsKept, InputPointIsKept DEF Network, Stays
<1>2. CASE Guest
  BY <1>2, GuestOpensIsKept, GuestSendsIsKept, GuestEndsIsKept, GuestSendsAgainIsKept, GuestTakesIsKept,
     GuestReadsIsKept, GuestResetsIsKept DEF Guest
<1>3. CASE HostCloses \/ HostFails
  BY <1>3, HostIsKept
<1>4. CASE UNCHANGED vars
  BY <1>4 DEF vars, IInv, Queues
<1> QED
  BY <1>1, <1>2, <1>3, <1>4 DEF Next

(* Wherever frames are lost, numbers wrap, or either side gives up: every  *)
(* frame on its way holds the bytes of its place in its stream and lies    *)
(* within a window of its receiver, and the two ends agree on what was     *)
(* sent and kept (handle_tcp, read_host, write_host, to_guest).            *)
THEOREM InvariantHolds == Spec => []IInv
<1>1. Init => IInv
  BY InitIsKept
<1>2. IInv /\ [Next]_vars => IInv'
  BY NextIsKept
<1> QED
  BY <1>1, <1>2, PTL DEF Spec

-------------------------------------------------------------------------------
(* The queues stay within their limits, and a connection keeps no more     *)
(* than a window for the host and has no more than one in flight to the    *)
(* guest, its numbers being those of the protocol (from_guest, RX_LIMIT,   *)
(* window, read_limit).                                                    *)
THEOREM TypeCorrect == Spec => []TypeOK
<1>1. ASSUME IInv
      PROVE  TypeOK
  <2>1. ConnOK(conn) /\ GuestOK(guest) /\ Queues
    BY <1>1 DEF IInv, Core
  <2>2. guest.state \in {"closed", "synSent", "open", "reset", "aborted"}
    BY <2>1, GuestParts
  <2>3. CASE conn = NoConn
    BY <2>1, <2>2, <2>3, NoConnParts DEF TypeOK, Queues
  <2>4. CASE conn # NoConn
    <3>1. /\ conn.state \in {"Connecting", "SynReceived", "Established"}
          /\ conn.una \in Numbers /\ conn.nxt \in Numbers /\ conn.rcv \in Numbers
          /\ Len(conn.toHost) <= Window /\ InFlight(conn) <= Window
      BY <2>1, <2>4, ConnParts
    <3> QED
      BY <2>1, <2>2, <3>1 DEF TypeOK, Queues, Numbers
  <2> QED
    BY <2>3, <2>4
<1> QED
  BY <1>1, InvariantHolds, PTL

LEMMA HeardIsKept ==
  ASSUME IInv, conn # NoConn, ~conn.guestFin
  PROVE  guest.una <= Len(Bytes(conn, host))
<1>1. ConnOK(conn) /\ GuestOK(guest) /\ HostOK(host) /\ Link(conn, guest, host) /\ (Opening(conn, in, guest) => Early(conn, rx \o out, guest, host))
  BY DEF IInv, Core
<1>2. /\ conn.state \in {"Connecting", "SynReceived", "Established"} /\ Kept(conn, host) = Len(Bytes(conn, host))
      /\ Len(Bytes(conn, host)) \in Nat
  BY <1>1, ConnParts, FlowParts
<1>3. CASE guest.una = 0
  BY <1>2, <1>3
<1>4. CASE Live(conn) /\ Talking(guest)
  BY <1>1, <1>2, <1>4 DEF Link
<1>5. CASE ~Live(conn)
  <2>1. guest.una = 0
    BY <1>1, <1>2, <1>5 DEF Live, Opening, Early
  <2> QED
    BY <1>3, <2>1
<1>6. CASE ~Talking(guest)
  <2>1. guest.state \in {"closed", "reset", "aborted"}
    BY <1>1, <1>6, GuestParts DEF Talking
  <2>2. guest = Idle(guest.state, 0) \/ guest = Idle(guest.state, guest.read)
    BY <1>1, <2>1 DEF GuestOK
  <2>3. guest.una = 0
    BY <2>2 DEF Idle
  <2> QED
    BY <1>3, <2>3
<1> QED
  BY <1>4, <1>5, <1>6

(* Both streams arrive in order, nothing twice and nothing between left    *)
(* out, and end after the last byte, whatever is lost; and the guest is    *)
(* told of no byte that is not written to the host or kept for it          *)
(* (handle_tcp, write_host).                                               *)
THEOREM StreamsCorrect == Spec => []StreamsInOrder
<1>1. ASSUME IInv
      PROVE  StreamsInOrder
  <2>1. ConnOK(conn) /\ GuestOK(guest) /\ HostOK(host) /\ Stream(conn, host)
    BY <1>1 DEF IInv, Core
  <2>2. guest.got = UpTo(IF guest.finGot THEN HostBytes ELSE Len(guest.got))
    BY <2>1 DEF GuestOK
  <2>3. Bytes(conn, host) = UpTo(Len(Bytes(conn, host))) /\ (conn # NoConn /\ conn.guestFin => Len(Bytes(conn, host)) = GuestBytes)
    BY <2>1 DEF Stream
  <2>4. conn # NoConn /\ ~conn.guestFin => guest.una <= Len(Bytes(conn, host))
    BY <1>1, HeardIsKept
  <2>5. Bytes(conn, host) = host.wrote \o (IF conn = NoConn THEN <<>> ELSE conn.toHost)
    BY DEF Bytes
  <2> DEFINE b == Bytes(conn, host)
             v == guest.got = UpTo(IF guest.finGot THEN HostBytes ELSE Len(guest.got))
  <2> HIDE DEF b, v
  <2>6. b = host.wrote \o (IF conn = NoConn THEN <<>> ELSE conn.toHost)
    BY <2>5 DEF b
  <2>7. /\ v /\ b = UpTo(Len(b)) /\ (conn # NoConn /\ conn.guestFin => Len(b) = GuestBytes)
        /\ conn # NoConn /\ ~conn.guestFin => guest.una <= Len(b)
    BY <2>2, <2>3, <2>4 DEF b, v
  <2> QED
    BY ONLY <2>6, <2>7 DEF StreamsInOrder, v
<1> QED
  BY <1>1, InvariantHolds, PTL

(* No more is sent to the guest than it has said it has room for: it keeps *)
(* nothing to send again, and what finds no room would be lost             *)
(* (read_host).                                                            *)
THEOREM NeverOverruns == Spec => []NeverOverrun
<1>1. IInv => NeverOverrun
  BY DEF IInv, Core, Windows, NeverOverrun
<1> QED
  BY <1>1, InvariantHolds, PTL

(* Only the sweep forgets a connection.                                    *)
LEMMA OnlySweepForgets ==
  ASSUME IInv, Next, conn # NoConn, conn' = NoConn
  PROVE  Sweep
<1>1. CASE HandleTcp \/ Connected \/ Writable \/ Readable
  BY <1>1, HandleTcpKeeps, ConnectedIsKept, WritableIsKept, ReadableIsKept DEF Stays
<1>2. CASE InputPoint \/ HostCloses \/ HostFails
  BY <1>2 DEF InputPoint, HostCloses, HostFails
<1>3. CASE Guest
  BY <1>3 DEF Guest, GuestOpens, GuestSends, GuestEnds, GuestSendsAgain, GuestTakes, GuestReads, GuestResets
<1> QED
  BY <1>1, <1>2, <1>3 DEF Next, Network

(* A connection that is over, and was not reset, has written all that it   *)
(* acknowledged, but when the host closed its side before it had all: the  *)
(* test of the end does not look at to_host (loop).                        *)
THEOREM OverIsWritten == Spec => OverWhenWritten
<1>1. ASSUME IInv, [Next]_vars, conn # NoConn, conn' = NoConn, ~conn.dead, ~host.early
      PROVE  conn.toHost = <<>>
  <2>1. Next
    BY <1>1 DEF vars
  <2>2. Sweep
    BY <1>1, <2>1, OnlySweepForgets
  <2>3. conn.guestFin /\ conn.finSent
    BY <1>1, <2>2 DEF Sweep, Over
  <2>4. ConnOK(conn) /\ HostOK(host) /\ Stream(conn, host)
    BY <1>1 DEF IInv, Core
  <2>5. Len(Bytes(conn, host)) = GuestBytes /\ host.shut
    BY <1>1, <2>3, <2>4 DEF Stream
  <2>6. GuestBytes <= Len(host.wrote)
    BY <1>1, <2>4, <2>5 DEF HostOK
  <2>7. /\ Len(Bytes(conn, host)) = Len(host.wrote) + Len(conn.toHost)
        /\ conn.toHost \in Seq(Nat) /\ Len(conn.toHost) \in Nat /\ Len(host.wrote) \in Nat
    BY <1>1, <2>4, FlowParts, ConnParts, HostParts
  <2>8. Len(conn.toHost) = 0
    <3>1. PICK m \in Nat, n \in Nat : m = Len(host.wrote) /\ n = Len(conn.toHost)
      BY <2>7
    <3>2. m + n = GuestBytes /\ GuestBytes <= m
      BY <2>5, <2>6, <2>7, <3>1
    <3>3. n = 0
      BY <3>2
    <3> QED
      BY <3>1, <3>3
  <2> QED
    BY <2>7, <2>8, EmptySeq
<1>2. IInv /\ [Next]_vars => [conn # NoConn /\ conn' = NoConn /\ ~conn.dead /\ ~host.early => conn.toHost = <<>>]_vars
  BY <1>1
<1> QED
  BY <1>2, InvariantHolds, PTL DEF OverWhenWritten, Spec

=================================================================================
