---------------------------- MODULE ReaderProofs ----------------------------
(***************************************************************************)
(* What is done with the content of one file: the checksum engines cut it  *)
(* into blocks and pad it, and UdfParser opens it as a volume.  First the  *)
(* engines, up to DigestsAreOfFiles; then how a directory is read, and the *)
(* search for the root, up to RootsAreWhole.                               *)
(***************************************************************************)
EXTENDS Digest, UdfParser, Induction, SequenceTheorems, FiniteSetTheorems

-----------------------------------------------------------------------------
(* Products and quotients                                                  *)

(* Quotient and remainder.                                                 *)
LEMMA DivMod ==
  ASSUME NEW n \in Nat, NEW d \in Nat \ {0}
  PROVE  /\ n \div d \in Nat /\ n % d \in 0 .. d - 1
         /\ n = (n \div d) * d + (n % d)
OBVIOUS

(* Multiples of d are d apart.                                             *)
LEMMA Times ==
  ASSUME NEW a \in Nat, NEW b \in Nat, a < b, NEW d \in Nat \ {0}
  PROVE  a * d + d <= b * d
OBVIOUS

LEMMA Monotone ==
  ASSUME NEW a \in Nat, NEW b \in Nat, a <= b, NEW d \in Nat \ {0}
  PROVE  a * d <= b * d
OBVIOUS

(* A number has one quotient and one remainder.                            *)
LEMMA Unique ==
  ASSUME NEW a \in Nat, NEW b \in Nat, NEW d \in Nat \ {0}, NEW r \in 0 .. d - 1, NEW q \in 0 .. d - 1,
         a * d + r = b * d + q
  PROVE  a = b /\ r = q
<1>1. ~(a < b)
  <2> SUFFICES ASSUME a < b PROVE FALSE
    OBVIOUS
  <2>1. a * d + d <= b * d
    BY Times
  <2>2. a * d \in Int /\ b * d \in Int
    OBVIOUS
  <2> DEFINE x == a * d
             y == b * d
  <2> HIDE DEF x, y
  <2>3. QED
    BY <2>1, <2>2 DEF x, y
<1>2. ~(b < a)
  <2> SUFFICES ASSUME b < a PROVE FALSE
    OBVIOUS
  <2>1. b * d + d <= a * d
    BY Times
  <2>2. a * d \in Int /\ b * d \in Int
    OBVIOUS
  <2>3. QED
    BY <2>1, <2>2
<1>3. QED
  BY <1>1, <1>2

(* The multiple of d next above a is not above a multiple that a is below. *)
LEMMA NextMultiple ==
  ASSUME NEW a \in Nat, NEW m \in Nat, NEW d \in Nat \ {0}, a < m * d
  PROVE  /\ a \div d \in Nat /\ (a \div d) * d \in Nat /\ (a \div d) * d <= a
         /\ a \div d < m /\ ((a \div d) + 1) * d <= m * d
         /\ a >= d => a \div d >= 1
<1> DEFINE q == a \div d
           r == a % d
           p == q * d
<1>1. q \in Nat /\ r \in 0 .. d - 1 /\ a = p + r
  BY DivMod
<1> HIDE DEF q, r
<1>2. p \in Nat
  BY <1>1
<1>3. p <= a
  <2> HIDE DEF p
  <2> QED BY <1>1, <1>2
<1>4. q < m
  <2> SUFFICES ASSUME m <= q PROVE FALSE
    BY <1>1
  <2>1. m * d <= p
    BY <1>1, Monotone
  <2>2. m * d \in Nat
    OBVIOUS
  <2> DEFINE x == m * d
  <2> HIDE DEF p, x
  <2>3. QED
    BY <1>2, <1>3, <2>1, <2>2 DEF x
<1>5. (q + 1) * d <= m * d
  BY <1>1, <1>4, Monotone
<1>6. a >= d => q >= 1
  <2> SUFFICES ASSUME a >= d, q = 0 PROVE FALSE
    BY <1>1
  <2>1. p = 0
    BY DEF p
  <2> HIDE DEF p
  <2>2. QED
    BY <1>1, <2>1
<1>7. QED
  BY <1>1, <1>2, <1>3, <1>4, <1>5, <1>6 DEF p, q

-----------------------------------------------------------------------------
(* The checksum engines                                                    *)

(* The place of the k-th byte of the b-th of n blocks of d bytes.          *)
LEMMA Within ==
  ASSUME NEW n \in Nat, NEW d \in Nat \ {0}, NEW b \in 1 .. n, NEW k \in 1 .. d
  PROVE  /\ (b - 1) * d \in Nat /\ n * d \in Nat /\ b * d = (b - 1) * d + d
         /\ (b - 1) * d + k \in 1 .. n * d
OBVIOUS

LEMMA Slice ==
  ASSUME NEW x \in Seq(Int), NEW a \in Nat, NEW c \in Nat, a <= c, c <= Len(x)
  PROVE  /\ SubSeq(x, a + 1, c) \in Seq(Int)
         /\ Len(SubSeq(x, a + 1, c)) = c - a
         /\ \A k \in 1 .. c - a : SubSeq(x, a + 1, c)[k] = x[a + k]
<1>1. SubSeq(x, a + 1, c) \in Seq(Int) /\ Len(SubSeq(x, a + 1, c)) = c - a
  OBVIOUS
<1>2. ASSUME NEW k \in 1 .. c - a PROVE SubSeq(x, a + 1, c)[k] = x[a + k]
  <2>1. SubSeq(x, a + 1, c)[k] = x[a + 1 + k - 1]
    OBVIOUS
  <2>2. a + 1 + k - 1 = a + k
    OBVIOUS
  <2>3. QED
    BY <2>1, <2>2
<1>3. QED
  BY <1>1, <1>2

(* The whole blocks in a piece of input behind its first f bytes, and what *)
(* remains.                                                                *)
Piece(x, f, i) == SubSeq(x, f + (i - 1) * BlockSize + 1, f + i * BlockSize)
Whole(x, f) == (Len(x) - f) \div BlockSize
Pieces(x, f) == [i \in 1 .. Whole(x, f) |-> Piece(x, f, i)]
Remainder(x, f) == SubSeq(x, f + Whole(x, f) * BlockSize + 1, Len(x))

(* The input behind its first f bytes is cut into whole blocks and less    *)
(* than a block.                                                           *)
LEMMA WholeBlocks ==
  ASSUME NEW x \in Seq(Int), NEW f \in 0 .. Len(x)
  PROVE  IsStream(Pieces(x, f), Remainder(x, f), SubSeq(x, f + 1, Len(x))) /\ Len(Remainder(x, f)) < BlockSize
<1> DEFINE B == BlockSize
           w == Whole(x, f)
           r == (Len(x) - f) % B
           m == w * B
           tail == Remainder(x, f)
           bl == Pieces(x, f)
           s == SubSeq(x, f + 1, Len(x))
<1>0. B \in Nat \ {0}
  BY DigestAssumption
<1>1. /\ w \in Nat /\ r \in 0 .. B - 1 /\ Len(x) = f + m + r /\ m \in Nat
  <2> DEFINE q == Len(x) - f
  <2>1. q \in Nat /\ Len(x) = f + q /\ f \in Nat
    OBVIOUS
  <2> HIDE DEF q
  <2>2. q \div B \in Nat /\ q % B \in 0 .. B - 1 /\ q = (q \div B) * B + (q % B)
    BY <1>0, <2>1, DivMod
  <2>3. w = q \div B /\ r = q % B
    BY DEF q, Whole
  <2>4. m \in Nat
    <3> HIDE DEF w, r
    <3>1. w \in Nat
      BY <2>2, <2>3
    <3>2. QED
      BY <1>0, <3>1
  <2> HIDE DEF w, r, m
  <2>5. q = m + r
    BY <2>2, <2>3 DEF m
  <2>6. QED
    BY <2>1, <2>2, <2>3, <2>4, <2>5
<1>2. f \in Nat /\ Len(x) \in Nat /\ f <= Len(x) /\ Len(x) <= Len(x)
  OBVIOUS
<1> HIDE DEF w, r, m, bl, tail, s
<1>3. s \in Seq(Int) /\ Len(s) = m + r /\ \A k \in 1 .. m + r : s[k] = x[f + k]
  <2>1. /\ s \in Seq(Int) /\ Len(s) = Len(x) - f /\ \A k \in 1 .. Len(x) - f : s[k] = x[f + k]
    BY <1>2, Slice DEF s
  <2>2. Len(x) - f = m + r
    BY <1>1, <1>2
  <2>3. QED
    BY <2>1, <2>2
<1>4. tail \in Seq(Int) /\ Len(tail) = r /\ \A k \in 1 .. r : tail[k] = x[f + m + k]
  <2>1. tail = SubSeq(x, f + m + 1, Len(x))
    BY DEF tail, Remainder, m, w
  <2> DEFINE a == f + m
  <2>2. a \in Nat /\ a <= Len(x) /\ Len(x) - a = r
    BY <1>1, <1>2
  <2>3. tail = SubSeq(x, a + 1, Len(x))
    BY <2>1
  <2> HIDE DEF a
  <2>4. /\ tail \in Seq(Int) /\ Len(tail) = Len(x) - a
        /\ \A k \in 1 .. Len(x) - a : tail[k] = x[a + k]
    BY <1>2, <2>2, <2>3, Slice
  <2>5. QED
    BY <2>2, <2>4 DEF a
<1>5. ASSUME NEW i \in 1 .. w
      PROVE  /\ Piece(x, f, i) \in Seq(Int) /\ Len(Piece(x, f, i)) = B
             /\ \A k \in 1 .. B : Piece(x, f, i)[k] = x[f + (i - 1) * B + k]
  <2> DEFINE d == (i - 1) * B
             e == i * B
  <2>1. d \in Nat /\ e = d + B
    BY <1>0, <1>1, Within
  <2>2. e <= m
    BY <1>0, <1>1, Monotone DEF m
  <2> DEFINE a == f + d
             c == f + e
             p == Piece(x, f, i)
  <2>3. p = SubSeq(x, a + 1, c)
    BY DEF Piece
  <2> HIDE DEF d, e
  <2>4. a \in Nat /\ c \in Nat /\ a <= c /\ c <= Len(x) /\ c - a = B
    BY <1>0, <1>1, <1>2, <2>1, <2>2
  <2> HIDE DEF a, c, p
  <2>5. p \in Seq(Int) /\ Len(p) = c - a /\ \A k \in 1 .. c - a : p[k] = x[a + k]
    BY <2>3, <2>4, Slice
  <2>6. QED
    BY <2>4, <2>5 DEF a, d, p
<1>6. bl \in Seq(Seq(Int)) /\ Len(bl) = w /\ \A i \in 1 .. w : bl[i] = Piece(x, f, i)
  <2>1. bl = [i \in 1 .. w |-> Piece(x, f, i)]
    BY DEF bl, Pieces, w
  <2>2. \A i \in 1 .. w : Piece(x, f, i) \in Seq(Int)
    BY <1>5
  <2>3. QED
    BY <1>1, <2>1, <2>2
<1>7. ASSUME NEW b \in 1 .. Len(bl)
      PROVE  Len(bl[b]) = B /\ \A k \in 1 .. B : bl[b][k] = s[(b - 1) * B + k]
  <2>0. b \in 1 .. w /\ bl[b] = Piece(x, f, b)
    BY <1>6
  <2>1. ASSUME NEW k \in 1 .. B PROVE bl[b][k] = s[(b - 1) * B + k]
    <3> DEFINE a == (b - 1) * B
    <3>1. a \in Nat /\ a + k \in 1 .. m
      BY <1>0, <1>1, <2>0, Within DEF m
    <3>2. bl[b][k] = x[f + a + k]
      BY <1>5, <2>0
    <3> HIDE DEF a
    <3>3. a + k \in 1 .. m + r /\ f + (a + k) = f + a + k
      BY <1>0, <1>1, <1>2, <3>1
    <3>4. s[a + k] = x[f + (a + k)]
      BY <3>3, <1>3
    <3>5. bl[b][k] = s[a + k]
      BY <3>2, <3>3, <3>4
    <3>6. QED
      BY <3>5 DEF a
  <2>2. QED
    BY <1>5, <2>0, <2>1
<1>8. ASSUME NEW k \in 1 .. Len(tail) PROVE tail[k] = s[Len(bl) * B + k]
  <2>1. k \in 1 .. r /\ tail[k] = x[f + m + k]
    BY <1>4
  <2>2. m + k \in 1 .. m + r /\ f + (m + k) = f + m + k
    BY <1>0, <1>1, <1>2, <2>1
  <2>3. tail[k] = s[m + k]
    BY <1>3, <2>1, <2>2
  <2>4. QED
    BY <2>3, <1>6 DEF m
<1>9. Len(s) = Len(bl) * B + Len(tail)
  BY <1>3, <1>4, <1>6 DEF m
<1>10. Len(tail) < B
  BY <1>0, <1>1, <1>4
<1>11. IsStream(bl, tail, s)
  BY <1>3, <1>4, <1>6, <1>7, <1>8, <1>9 DEF IsStream
<1>12. QED
  BY <1>10, <1>11 DEF s, bl, tail

(* Blocks that follow: when the buffer and the new bytes are blocks and a  *)
(* rest, so is all that was given.                                         *)
LEMMA Join ==
  ASSUME NEW bl, NEW bu, NEW s, NEW nb, NEW r, NEW piece \in Seq(Int),
         IsStream(bl, bu, s), IsStream(nb, r, bu \o piece)
  PROVE  IsStream(bl \o nb, r, s \o piece)
<1> DEFINE B == BlockSize
           t == bu \o piece
           u == s \o piece
           n == Len(bl)
           m == Len(nb)
           all == bl \o nb
<1>0. B \in Nat \ {0}
  BY DigestAssumption
<1>1. /\ bl \in Seq(Seq(Int)) /\ bu \in Seq(Int) /\ s \in Seq(Int)
      /\ Len(s) = n * B + Len(bu)
      /\ \A b \in 1 .. n : Len(bl[b]) = B /\ \A k \in 1 .. B : bl[b][k] = s[(b - 1) * B + k]
      /\ \A k \in 1 .. Len(bu) : bu[k] = s[n * B + k]
  BY DEF IsStream
<1>2. /\ nb \in Seq(Seq(Int)) /\ r \in Seq(Int)
      /\ Len(t) = m * B + Len(r)
      /\ \A b \in 1 .. m : Len(nb[b]) = B /\ \A k \in 1 .. B : nb[b][k] = t[(b - 1) * B + k]
      /\ \A k \in 1 .. Len(r) : r[k] = t[m * B + k]
  BY DEF IsStream
<1>3. n \in Nat /\ m \in Nat /\ n * B \in Nat /\ m * B \in Nat /\ (n + m) * B = n * B + m * B
  <2>1. n \in Nat /\ m \in Nat
    BY <1>1, <1>2
  <2> HIDE DEF n, m
  <2>2. QED
    BY <2>1, <1>0
<1>4. u \in Seq(Int) /\ t \in Seq(Int) /\ all \in Seq(Seq(Int)) /\ Len(all) = n + m
  BY <1>1, <1>2
<1>5. /\ Len(u) = n * B + Len(t)
      /\ \A k \in 1 .. Len(s) : u[k] = s[k]
      /\ \A k \in 1 .. Len(t) : u[n * B + k] = t[k]
  <2> DEFINE a == n * B
  <2>1. a \in Nat /\ Len(s) = a + Len(bu) /\ \A k \in 1 .. Len(bu) : bu[k] = s[a + k]
    BY <1>1, <1>3
  <2> HIDE DEF a, n
  <2>2. \A k \in 1 .. Len(s) : u[k] = s[k]
    BY <1>1
  <2>3. Len(u) = a + Len(t)
    BY <1>1, <2>1
  <2>4. ASSUME NEW k \in 1 .. Len(t) PROVE u[a + k] = t[k]
    <3>1. CASE k <= Len(bu)
      <4>1. t[k] = bu[k] /\ k \in 1 .. Len(bu)
        BY <3>1, <1>1
      <4>2. a + k \in 1 .. Len(s)
        BY <2>1, <3>1, <1>1
      <4>3. QED
        BY <4>1, <4>2, <2>1, <2>2
    <3>2. CASE k > Len(bu)
      <4>1. t[k] = piece[k - Len(bu)]
        BY <3>2, <1>1
      <4>2. u[a + k] = piece[a + k - Len(s)]
        BY <3>2, <1>1, <2>1
      <4>3. a + k - Len(s) = k - Len(bu)
        BY <2>1, <1>1
      <4>4. QED
        BY <4>1, <4>2, <4>3
    <3>3. Len(bu) \in Nat /\ k \in Nat
      BY <1>1
    <3> HIDE DEF u, t
    <3>4. QED
      BY <3>1, <3>2, <3>3
  <2> HIDE DEF u, t
  <2>5. QED
    BY <2>2, <2>3, <2>4 DEF a
<1>6. ASSUME NEW b \in 1 .. Len(all)
      PROVE  Len(all[b]) = B /\ \A k \in 1 .. B : all[b][k] = u[(b - 1) * B + k]
  <2>1. CASE b <= n
    <3>1. all[b] = bl[b] /\ b \in 1 .. n
      BY <2>1, <1>1, <1>2
    <3>2. ASSUME NEW k \in 1 .. B PROVE all[b][k] = u[(b - 1) * B + k]
      <4> DEFINE a == (b - 1) * B
      <4>1. a + k \in 1 .. n * B
        BY <1>0, <1>3, <3>1, Within
      <4>2. a + k \in 1 .. Len(s)
        BY <4>1, <1>1, <1>3
      <4> HIDE DEF u, all
      <4>3. QED
        BY <3>1, <4>2, <1>1, <1>5
    <3>3. QED
      BY <3>1, <3>2, <1>1
  <2>2. CASE b > n
    <3> DEFINE c == b - n
    <3>1. all[b] = nb[c] /\ c \in 1 .. m
      BY <2>2, <1>1, <1>2, <1>4
    <3>2. ASSUME NEW k \in 1 .. B PROVE all[b][k] = u[(b - 1) * B + k]
      <4> DEFINE a == (c - 1) * B
      <4>1. a \in Nat /\ a + k \in 1 .. m * B
        BY <1>0, <1>3, <3>1, Within
      <4>2. a + k \in 1 .. Len(t)
        BY <4>1, <1>2, <1>3
      <4>3. (b - 1) * B = n * B + a
        <5>1. b - 1 = n + (c - 1) /\ c - 1 \in Nat
          BY <3>1, <1>3
        <5>2. (n + (c - 1)) * B = n * B + a
          <6> HIDE DEF c, n
          <6> QED
            BY <5>1, <1>0, <1>3
        <5>3. QED
          BY <5>1, <5>2
      <4>4. nb[c][k] = t[a + k]
        BY <3>1, <1>2
      <4> DEFINE x == n * B
      <4>5. u[x + (a + k)] = t[a + k]
        BY <4>2, <1>5
      <4>6. x + (a + k) = (b - 1) * B + k
        <5>1. x \in Nat /\ a \in Nat /\ (b - 1) * B = x + a
          BY <4>1, <4>3, <1>3
        <5> HIDE DEF x, a
        <5>2. QED
          BY <5>1, <1>0
      <4>7. QED
        BY <3>1, <4>4, <4>5, <4>6
    <3>3. QED
      BY <3>1, <3>2, <1>2
  <2>3. b \in Nat /\ n \in Nat
    BY <1>3, <1>4
  <2> HIDE DEF n, all, u
  <2>4. b <= n \/ b > n
    BY <2>3
  <2>5. QED
    BY <2>1, <2>2, <2>4
<1>7. ASSUME NEW k \in 1 .. Len(r) PROVE r[k] = u[Len(all) * B + k]
  <2>1. r[k] = t[m * B + k]
    BY <1>2
  <2>2. m * B + k \in 1 .. Len(t)
    BY <1>2, <1>3
  <2>3. u[n * B + (m * B + k)] = t[m * B + k]
    BY <2>2, <1>5
  <2>4. n * B + (m * B + k) = Len(all) * B + k
    <3> DEFINE x == n * B
               y == m * B
               z == Len(all) * B
    <3>1. x \in Nat /\ y \in Nat /\ z = x + y
      BY <1>3, <1>4
    <3> HIDE DEF x, y, z
    <3>2. x + (y + k) = z + k
      BY <3>1
    <3>3. QED
      BY <3>2 DEF x, y, z
  <2>5. QED
    BY <2>1, <2>3, <2>4
<1>8. Len(u) = Len(all) * B + Len(r)
  <2> DEFINE x == n * B
             y == m * B
             z == Len(all) * B
  <2>1. x \in Nat /\ y \in Nat /\ z = x + y /\ Len(u) = x + Len(t) /\ Len(t) = y + Len(r)
    BY <1>2, <1>3, <1>4, <1>5
  <2>2. Len(r) \in Nat
    BY <1>2
  <2> HIDE DEF x, y, z, u, t
  <2>3. Len(u) = z + Len(r)
    BY <2>1, <2>2
  <2>4. QED
    BY <2>3 DEF z
<1> HIDE DEF all, u, t
<1>9. IsStream(all, r, u)
  BY <1>2, <1>4, <1>6, <1>7, <1>8 DEF IsStream
<1>10. QED
  BY <1>9 DEF all, u

(* update() fills the buffer with bytes it has.                            *)
LEMMA FillFits ==
  ASSUME buffer \in Seq(Int), Len(buffer) < BlockSize, NEW piece \in Seq(Int)
  PROVE  Fill(piece) \in 0 .. Len(piece)
BY DigestAssumption DEF Fill

(* The blocks and the rest that update() makes.                            *)
LEMMA CutFields ==
  ASSUME buffer \in Seq(Int), Len(buffer) < BlockSize, NEW piece \in Seq(Int),
         NEW filled, filled = buffer \o SubSeq(piece, 1, Fill(piece)),
         NEW tail, tail = Remainder(piece, Fill(piece))
  PROVE  /\ Cut(piece).blocks = (IF Len(filled) = BlockSize THEN <<filled>> ELSE << >>) \o
                                 Pieces(piece, Fill(piece))
         /\ Cut(piece).rest = IF tail # << >> THEN tail
                              ELSE IF Len(filled) = BlockSize THEN << >> ELSE filled
<1> DEFINE F == Fill(piece)
           w == Whole(piece, F)
           begin(i) == F + (i - 1) * BlockSize + 1
<1>1. F \in Nat /\ Len(piece) - F \in Nat /\ BlockSize \in Nat \ {0}
  BY FillFits, DigestAssumption
<1> HIDE DEF F
<1>2. w \in Nat
  <2> DEFINE q == Len(piece) - F
  <2> HIDE DEF q
  <2>1. q \div BlockSize \in Nat
    BY <1>1, DivMod DEF q
  <2>2. QED
    BY <2>1 DEF Whole, q
<1> HIDE DEF w
<1>3. \A i \in Nat : begin(i + 1) = F + i * BlockSize + 1 /\ begin(i + 1) - 1 = F + i * BlockSize
  <2> SUFFICES ASSUME NEW i \in Nat
               PROVE  begin(i + 1) = F + i * BlockSize + 1 /\ begin(i + 1) - 1 = F + i * BlockSize
    OBVIOUS
  <2>1. (i + 1) - 1 = i /\ i * BlockSize \in Nat
    BY <1>1
  <2>2. QED
    BY <1>1, <2>1
<1>4. [i \in 1 .. w |-> SubSeq(piece, begin(i), begin(i + 1) - 1)] = Pieces(piece, F)
  <2>1. \A i \in 1 .. w : SubSeq(piece, begin(i), begin(i + 1) - 1) = Piece(piece, F, i)
    <3> SUFFICES ASSUME NEW i \in 1 .. w
                 PROVE  SubSeq(piece, begin(i), begin(i + 1) - 1) = Piece(piece, F, i)
      OBVIOUS
    <3>1. begin(i + 1) - 1 = F + i * BlockSize
      BY <1>2, <1>3
    <3>2. QED
      BY <3>1 DEF Piece
  <2> HIDE DEF begin
  <2>2. QED
    BY <2>1 DEF Pieces, w
<1>5. SubSeq(piece, begin(w + 1), Len(piece)) = tail
  <2>1. begin(w + 1) = F + w * BlockSize + 1
    BY <1>2, <1>3
  <2>2. tail = SubSeq(piece, F + w * BlockSize + 1, Len(piece))
    BY DEF Remainder, F, w
  <2> HIDE DEF begin
  <2>3. QED
    BY <2>1, <2>2
<1>6. Cut(piece) =
        [blocks |-> (IF Len(filled) = BlockSize THEN <<filled>> ELSE << >>) \o
                    [i \in 1 .. w |-> SubSeq(piece, begin(i), begin(i + 1) - 1)],
         rest |-> IF SubSeq(piece, begin(w + 1), Len(piece)) # << >>
                  THEN SubSeq(piece, begin(w + 1), Len(piece))
                  ELSE IF Len(filled) = BlockSize THEN << >> ELSE filled]
  BY DEF Cut, Whole, F, w
<1> HIDE DEF begin
<1>7. PICK b : b = (IF Len(filled) = BlockSize THEN <<filled>> ELSE << >>) \o Pieces(piece, F)
  OBVIOUS
<1>8. PICK r : r = IF tail # << >> THEN tail ELSE IF Len(filled) = BlockSize THEN << >> ELSE filled
  OBVIOUS
<1>9. Cut(piece) = [blocks |-> b, rest |-> r]
  BY <1>4, <1>5, <1>6, <1>7, <1>8
<1>10. Cut(piece).blocks = b /\ Cut(piece).rest = r
  BY <1>9
<1>11. QED
  BY <1>7, <1>8, <1>10 DEF F

(* update() cuts the buffer and the new bytes into blocks and less than a  *)
(* block.                                                                  *)
LEMMA CutIsStream ==
  ASSUME buffer \in Seq(Int), Len(buffer) < BlockSize, NEW piece \in Seq(Int)
  PROVE  /\ IsStream(Cut(piece).blocks, Cut(piece).rest, buffer \o piece)
         /\ Len(Cut(piece).rest) < BlockSize
<1> DEFINE F == Fill(piece)
           B == BlockSize
           n == Len(buffer)
           p == Len(piece)
<1>0. B \in Nat \ {0} /\ n \in 0 .. B - 1 /\ p \in Nat /\ F \in 0 .. p
  BY DigestAssumption, FillFits
<1>1. PICK filled : filled = buffer \o SubSeq(piece, 1, F)
  OBVIOUS
<1>2. PICK tail : tail = Remainder(piece, F)
  OBVIOUS
<1>3. PICK pieces : pieces = Pieces(piece, F)
  OBVIOUS
<1>4. /\ Cut(piece).blocks = (IF Len(filled) = B THEN <<filled>> ELSE << >>) \o pieces
      /\ Cut(piece).rest = IF tail # << >> THEN tail ELSE IF Len(filled) = B THEN << >> ELSE filled
  BY <1>1, <1>2, <1>3, CutFields
<1>5. IsStream(pieces, tail, SubSeq(piece, F + 1, p)) /\ Len(tail) < B
  BY <1>0, <1>2, <1>3, WholeBlocks
<1>6. pieces \in Seq(Seq(Int)) /\ tail \in Seq(Int)
  BY <1>5 DEF IsStream
<1>7. SubSeq(piece, 1, F) \in Seq(Int) /\ Len(SubSeq(piece, 1, F)) = F
  BY <1>0
<1>8. filled \in Seq(Int) /\ Len(filled) = n + F
  BY <1>1, <1>7
<1>9. CASE n = 0
  <2>1. F = 0 /\ buffer = << >>
    BY <1>9 DEF Fill
  <2>2. SubSeq(piece, F + 1, p) = piece /\ buffer \o piece = piece
    BY <2>1
  <2>3. Len(filled) # B /\ filled = << >>
    BY <1>0, <1>8, <1>9, <2>1
  <2>4. Cut(piece).blocks = pieces
    BY <1>4, <1>6, <2>3
  <2>5. Cut(piece).rest = tail
    BY <1>4, <2>3
  <2>6. QED
    BY <1>5, <2>2, <2>4, <2>5
<1>10. CASE n # 0 /\ p < B - n
  <2>1. F = p
    BY <1>10 DEF Fill
  <2>2. Whole(piece, F) = 0
    BY <1>0, <2>1 DEF Whole
  <2>3. Len(pieces) = 0 /\ pieces = << >>
    BY <1>3, <1>6, <2>2 DEF Pieces
  <2>4. tail = << >>
    <3>1. Len(SubSeq(piece, F + 1, p)) = 0
      BY <1>0, <2>1
    <3>2. 0 * B = 0
      BY <1>0
    <3>3. Len(tail) = 0
      BY <1>5, <1>6, <2>3, <3>1, <3>2 DEF IsStream
    <3>4. QED
      BY <1>6, <3>3
  <2>5. Len(filled) < B
    BY <1>0, <1>8, <1>10, <2>1
  <2>6. filled = buffer \o piece
    BY <1>1, <2>1
  <2>7. Cut(piece).blocks = << >> /\ Cut(piece).rest = filled
    BY <1>0, <1>4, <1>8, <2>3, <2>4, <2>5
  <2>8. IsStream(<< >>, filled, filled)
    BY <1>0, <1>8 DEF IsStream
  <2>9. QED
    BY <2>5, <2>6, <2>7, <2>8
<1>11. CASE n # 0 /\ ~(p < B - n)
  <2>1. F = B - n
    BY <1>11 DEF Fill
  <2>2. Len(filled) = B
    BY <1>0, <1>8, <2>1
  <2>3. Cut(piece).blocks = <<filled>> \o pieces /\ Cut(piece).rest = tail
    BY <1>4, <2>2
  <2>4. IsStream(<<filled>>, << >>, filled)
    BY <1>0, <1>8, <2>2 DEF IsStream
  <2> DEFINE more == SubSeq(piece, F + 1, p)
  <2>5. more \in Seq(Int) /\ << >> \o more = more
    BY <1>0
  <2>6. filled \o more = buffer \o piece
    <3> DEFINE head == SubSeq(piece, 1, F)
    <3>1. head \o more = piece
      <4>1. head \o more = SubSeq(piece, 1, p)
        BY <1>0, ConcatAdjacentSubSeq, 1 \in 1 .. p + 1, F \in 1 - 1 .. p, p \in F .. p
      <4>2. SubSeq(piece, 1, p) = piece
        OBVIOUS
      <4>3. QED
        BY <4>1, <4>2
    <3>2. head \in Seq(Int)
      BY <1>7
    <3> HIDE DEF head, more
    <3>3. (buffer \o head) \o more = buffer \o (head \o more)
      BY <2>5, <3>2, ConcatAssociative
    <3>4. QED
      BY <1>1, <3>1, <3>3 DEF head
  <2> HIDE DEF more
  <2>7. IsStream(pieces, tail, << >> \o more)
    BY <1>5, <2>5 DEF more
  <2>8. IsStream(<<filled>> \o pieces, tail, filled \o more)
    BY <2>4, <2>5, <2>7, Join
  <2>9. QED
    BY <1>5, <2>3, <2>6, <2>8
<1>12. QED
  BY <1>9, <1>10, <1>11

LEMMA SizesAreNumbers ==
  /\ BlockSize \in Nat \ {0} /\ LengthSize \in Nat \ {0} /\ MaxPiece \in Nat \ {0}
  /\ LengthSize < BlockSize
BY DigestAssumption

LEMMA ContentIsBytes ==
  ASSUME DigestTypeOK
  PROVE  content \in Seq(Int) /\ Told \in Seq(Int) /\ given \in Nat
<1>1. content \in Seq(Nat)
  BY DigestAssumption DEF DigestTypeOK
<1>2. content \in Seq(Int) /\ given \in 0 .. Len(content)
  BY <1>1 DEF DigestTypeOK
<1>3. QED
  BY <1>2 DEF Told

LEMMA BlocksAreWhole ==
  ASSUME NEW bl, NEW bu, NEW s, IsStream(bl, bu, s)
  PROVE  \A i \in 1 .. Len(bl) : bl[i] \in Seq(Int) /\ Len(bl[i]) = BlockSize
BY DEF IsStream

(* update(): the bytes given before and the new ones are in the blocks and the buffer. *)
LEMMA UpdateKeeps ==
  ASSUME DigestTypeOK, NEW s, IsStream(blocks, buffer, s), NEW piece \in Seq(Int), Update(piece)
  PROVE  /\ IsStream(blocks', buffer', s \o piece)
         /\ buffer' \in Seq(Int) /\ Len(buffer') < BlockSize
         /\ \A i \in 1 .. Len(blocks') : blocks'[i] \in Seq(Int) /\ Len(blocks'[i]) = BlockSize
<1>1. buffer \in Seq(Int) /\ Len(buffer) < BlockSize
  BY DEF DigestTypeOK
<1>2. /\ IsStream(Cut(piece).blocks, Cut(piece).rest, buffer \o piece)
      /\ Len(Cut(piece).rest) < BlockSize
  BY <1>1, CutIsStream
<1>3. IsStream(blocks \o Cut(piece).blocks, Cut(piece).rest, s \o piece)
  BY <1>2, Join
<1>4. blocks' = blocks \o Cut(piece).blocks /\ buffer' = Cut(piece).rest
  BY DEF Update
<1>5. IsStream(blocks', buffer', s \o piece)
  BY <1>3, <1>4
<1>6. buffer' \in Seq(Int)
  BY <1>5 DEF IsStream
<1>7. \A i \in 1 .. Len(blocks') : blocks'[i] \in Seq(Int) /\ Len(blocks'[i]) = BlockSize
  BY <1>5, BlocksAreWhole
<1>8. QED
  BY <1>2, <1>4, <1>5, <1>6, <1>7

(* What is left in the buffer depends on the numbers of bytes alone. *)
LEMMA UpdateLeaves ==
  ASSUME buffer \in Seq(Int), Len(buffer) < BlockSize, NEW piece \in Seq(Int), Update(piece),
         Len(buffer) + Len(piece) <= BlockSize
  PROVE  Len(buffer') = IF Len(buffer) + Len(piece) = BlockSize THEN 0 ELSE Len(buffer) + Len(piece)
<1> DEFINE n == Len(buffer) + Len(piece)
           r == Len(Cut(piece).rest)
           m == Len(Cut(piece).blocks)
<1>1. BlockSize \in Nat \ {0} /\ n \in Nat /\ 0 \in Nat /\ 1 \in Nat
  BY SizesAreNumbers
<1>2. IsStream(Cut(piece).blocks, Cut(piece).rest, buffer \o piece) /\ r < BlockSize
  BY CutIsStream
<1>3. Len(buffer \o piece) = n
  OBVIOUS
<1>4. m \in Nat /\ r \in 0 .. BlockSize - 1 /\ n = m * BlockSize + r
  BY <1>1, <1>2, <1>3 DEF IsStream
<1>5. buffer' = Cut(piece).rest
  BY DEF Update
<1>6. n <= BlockSize
  OBVIOUS
<1> HIDE DEF n, m, r
<1>7. CASE n = BlockSize
  <2>1. 1 * BlockSize + 0 = m * BlockSize + r
    BY <1>1, <1>4, <1>7
  <2>2. 0 \in 0 .. BlockSize - 1
    BY <1>1
  <2>3. r = 0
    BY <1>1, <1>4, <2>1, <2>2, Unique
  <2>4. QED
    BY <1>5, <1>7, <2>3 DEF n, r
<1>8. CASE n # BlockSize
  <2>1. 0 * BlockSize + n = m * BlockSize + r
    BY <1>1, <1>4
  <2>2. n \in 0 .. BlockSize - 1
    BY <1>1, <1>6, <1>8
  <2>3. n = r
    BY <1>1, <1>4, <2>1, <2>2, Unique
  <2>4. QED
    BY <1>5, <1>8, <2>3 DEF n, r
<1>9. QED
  BY <1>7, <1>8

(* The steps of the engine, one after the other.                           *)
LEMMA DigestStarts == DigestInit => DigestInv
<1> SUFFICES ASSUME DigestInit PROVE DigestInv
  OBVIOUS
<1>1. content \in Files /\ given = 0 /\ buffer = << >> /\ blocks = << >> /\ step = "open" /\ broken = FALSE
  BY DEF DigestInit
<1>2. content \in Seq(Nat)
  BY <1>1, DigestAssumption
<1>3. DigestTypeOK
  <2>1. << >> \in Seq(Int) /\ Len(<< >>) = 0 /\ 0 < BlockSize /\ 0 \in 0 .. Len(content)
    BY <1>2, SizesAreNumbers
  <2>2. \A i \in 1 .. 0 : FALSE
    OBVIOUS
  <2>3. QED
    BY <1>1, <2>1, <2>2 DEF DigestTypeOK
<1>4. Told = << >>
  BY <1>1 DEF Told
<1>5. IsStream(<< >>, << >>, << >>)
  BY SizesAreNumbers DEF IsStream
<1>6. QED
  BY <1>1, <1>3, <1>4, <1>5 DEF DigestInv, StreamInv, EndInv

LEMMA OpenKeeps == DigestInv /\ Open => DigestInv'
<1> SUFFICES ASSUME DigestInv, Open PROVE DigestInv'
  OBVIOUS
<1>1. step = "open" /\ step' \in {"read", "refused"} /\ UNCHANGED <<content, given, broken, buffer, blocks>>
  BY DEF Open
<1>2. DigestTypeOK'
  BY <1>1 DEF DigestInv, DigestTypeOK, Settled
<1>3. Told' = Told
  BY <1>1 DEF Told
<1>4. IsStream(blocks, buffer, Told)
  BY <1>1 DEF DigestInv, StreamInv
<1>5. IsStream(blocks, buffer, Told)'
  BY <1>1, <1>3, <1>4 DEF IsStream
<1>6. StreamInv' /\ EndInv'
  BY <1>1, <1>5 DEF StreamInv, EndInv
<1>7. QED
  BY <1>2, <1>6 DEF DigestInv

LEMMA PieceKeeps == DigestInv /\ ReadPiece => DigestInv'
<1> SUFFICES ASSUME DigestInv, ReadPiece PROVE DigestInv'
  OBVIOUS
<1>1. PICK n \in 0 .. MaxPiece :
        /\ given + n <= Len(content)
        /\ given' = given + n
        /\ broken' = (n < MaxPiece /\ given' < Len(content))
        /\ Update(SubSeq(content, given + 1, given + n))
        /\ step' = AfterRead(n)
  BY DEF ReadPiece
<1>2. step = "read" /\ content' = content
  BY DEF ReadPiece
<1>3. DigestTypeOK /\ content \in Seq(Int) /\ Told \in Seq(Int) /\ given \in Nat
  BY ContentIsBytes DEF DigestInv
<1>4. IsStream(blocks, buffer, Told)
  BY <1>2 DEF DigestInv, StreamInv
<1> DEFINE piece == SubSeq(content, given + 1, given + n)
<1>5. MaxPiece \in Nat \ {0} /\ n \in Nat
  BY SizesAreNumbers
<1>6. piece \in Seq(Int)
  BY <1>1, <1>3, <1>5
<1>7. Told \o piece = Told'
  <2> DEFINE m == given + n
  <2>1. m \in given .. Len(content) /\ given \in 1 - 1 .. Len(content) /\ 1 \in 1 .. Len(content) + 1
    BY <1>1, <1>3, <1>5
  <2>2. SubSeq(content, 1, given) \o SubSeq(content, given + 1, m) = SubSeq(content, 1, m)
    BY <1>3, <2>1, ConcatAdjacentSubSeq
  <2>3. QED
    BY <1>1, <1>2, <2>2 DEF Told
<1> HIDE DEF piece
<1>8. /\ IsStream(blocks', buffer', Told \o piece)
      /\ buffer' \in Seq(Int) /\ Len(buffer') < BlockSize
      /\ \A i \in 1 .. Len(blocks') : blocks'[i] \in Seq(Int) /\ Len(blocks'[i]) = BlockSize
  BY <1>1, <1>3, <1>4, <1>6, UpdateKeeps DEF piece
<1>9. step' \in {"read", "mark"} /\ (step' = "mark" => n < MaxPiece)
  BY <1>1, <1>5 DEF AfterRead
<1>10. broken' \in BOOLEAN /\ (n < MaxPiece => broken' \/ given' = Len(content'))
  <2>1. broken' \in BOOLEAN
    BY <1>1
  <2>2. ASSUME n < MaxPiece, ~(given' < Len(content)) PROVE given' = Len(content')
    BY <1>1, <1>2, <1>3, <1>5, <2>2
  <2>3. ASSUME n < MaxPiece, given' < Len(content) PROVE broken'
    BY <1>1, <2>3
  <2>4. QED
    BY <2>1, <2>2, <2>3
<1>11. given' \in 0 .. Len(content') /\ content' \in Files
  BY <1>1, <1>2, <1>3, <1>5 DEF DigestTypeOK
<1>12. DigestTypeOK'
  BY <1>8, <1>9, <1>10, <1>11 DEF DigestTypeOK
<1>13. StreamInv'
  <2>1. IsStream(blocks', buffer', Told')
    BY <1>7, <1>8
  <2>2. IsStream(blocks, buffer, Told)'
    BY <2>1 DEF IsStream
  <2>3. QED
    BY <1>9, <2>2 DEF StreamInv
<1>14. EndInv'
  BY <1>9, <1>10 DEF EndInv
<1>15. QED
  BY <1>12, <1>13, <1>14 DEF DigestInv

LEMMA OneByte ==
  ASSUME DigestTypeOK, NEW x \in Int
  PROVE  /\ <<x>> \in Seq(Int) /\ Len(<<x>>) = 1
         /\ buffer \in Seq(Int) /\ Len(buffer) \in Nat /\ Len(buffer) + Len(<<x>>) <= BlockSize
BY SizesAreNumbers DEF DigestTypeOK

LEMMA MarkKeeps == DigestInv /\ PutMark => DigestInv'
<1> SUFFICES ASSUME DigestInv, PutMark PROVE DigestInv'
  OBVIOUS
<1>1. step = "mark" /\ step' = "pad" /\ Update(<<Mark>>) /\ UNCHANGED <<content, given, broken>>
  BY DEF PutMark
<1>2. DigestTypeOK /\ Told \in Seq(Int) /\ IsStream(blocks, buffer, Told)
  BY <1>1, ContentIsBytes DEF DigestInv, StreamInv
<1>3. <<Mark>> \in Seq(Int)
  BY DEF Mark
<1>4. /\ IsStream(blocks', buffer', Told \o <<Mark>>)
      /\ buffer' \in Seq(Int) /\ Len(buffer') < BlockSize
      /\ \A i \in 1 .. Len(blocks') : blocks'[i] \in Seq(Int) /\ Len(blocks'[i]) = BlockSize
  BY <1>1, <1>2, <1>3, UpdateKeeps
<1>5. DigestTypeOK'
  BY <1>1, <1>2, <1>4 DEF DigestTypeOK
<1>6. Padded(0)' = Told \o <<Mark>>
  <2>1. Told' = Told
    BY <1>1 DEF Told
  <2>2. Zeros(0) = << >>
    BY DEF Zeros
  <2>3. Told \o <<Mark>> \in Seq(Int)
    BY <1>2, <1>3
  <2>4. (Told \o <<Mark>>) \o << >> = Told \o <<Mark>>
    BY <2>3
  <2>5. QED
    BY <2>1, <2>2, <2>4 DEF Padded
<1>7. IsStream(blocks', buffer', Padded(0)')
  BY <1>4, <1>6
<1>8. ZerosFit(0, Len(buffer')) /\ 0 \in 0 .. BlockSize - 1
  BY <1>4, SizesAreNumbers DEF ZerosFit
<1>9. (ZerosFit(0, Len(buffer)) /\ IsStream(blocks, buffer, Padded(0)))'
  BY <1>7, <1>8 DEF IsStream, ZerosFit
<1>10. (\E z \in 0 .. BlockSize - 1 : ZerosFit(z, Len(buffer)) /\ IsStream(blocks, buffer, Padded(z)))'
  BY <1>8, <1>9
<1>11. StreamInv'
  BY <1>1, <1>10 DEF StreamInv
<1>12. EndInv'
  BY <1>1 DEF DigestInv, EndInv
<1>13. QED
  BY <1>5, <1>11, <1>12 DEF DigestInv

(* A zero more: it is still no more than must be.                          *)
LEMMA ThreeParts ==
  ASSUME NEW a \in Seq(Int), NEW b \in Seq(Int), NEW c \in Seq(Int)
  PROVE  (a \o b) \o c = a \o (b \o c)
BY ConcatAssociative

LEMMA OneMoreZero ==
  ASSUME Told \in Seq(Int), NEW z \in Nat
  PROVE  Padded(z) \in Seq(Int) /\ Padded(z) \o <<Zero>> = Padded(z + 1)
<1>1. Zeros(z) \in Seq(Int) /\ Zeros(z) \o <<Zero>> = Zeros(z + 1)
  BY DEF Zeros, Zero
<1>2. <<Mark>> \in Seq(Int) /\ <<Zero>> \in Seq(Int)
  BY DEF Mark, Zero
<1> PICK s : s = Told \o <<Mark>>
  OBVIOUS
<1> PICK zeros : zeros = Zeros(z)
  OBVIOUS
<1> PICK one : one = <<Zero>>
  OBVIOUS
<1>3. s \in Seq(Int) /\ zeros \in Seq(Int) /\ one \in Seq(Int)
  BY <1>1, <1>2
<1>4. (s \o zeros) \o one = s \o (zeros \o one)
  BY <1>3, ThreeParts
<1>5. Padded(z) = s \o zeros /\ Padded(z + 1) = s \o Zeros(z + 1)
  BY DEF Padded
<1>6. Padded(z) \in Seq(Int)
  BY <1>3, <1>5
<1>7. QED
  BY <1>1, <1>4, <1>5, <1>6

LEMMA ZeroKeeps == DigestInv /\ PutZero => DigestInv'
<1> SUFFICES ASSUME DigestInv, PutZero PROVE DigestInv'
  OBVIOUS
<1>1. /\ step = "pad" /\ step' = "pad" /\ Update(<<Zero>>) /\ UNCHANGED <<content, given, broken>>
      /\ Len(buffer) # BlockSize - LengthSize
  BY DEF PutZero, PlaceForLength
<1>2. DigestTypeOK /\ Told \in Seq(Int)
  BY ContentIsBytes DEF DigestInv
<1>3. PICK z \in 0 .. BlockSize - 1 : ZerosFit(z, Len(buffer)) /\ IsStream(blocks, buffer, Padded(z))
  BY <1>1 DEF DigestInv, StreamInv
<1>4. <<Zero>> \in Seq(Int)
  BY DEF Zero
<1>5. /\ IsStream(blocks', buffer', Padded(z) \o <<Zero>>)
      /\ buffer' \in Seq(Int) /\ Len(buffer') < BlockSize
      /\ \A i \in 1 .. Len(blocks') : blocks'[i] \in Seq(Int) /\ Len(blocks'[i]) = BlockSize
  BY <1>1, <1>2, <1>3, <1>4, UpdateKeeps
<1>6. DigestTypeOK'
  BY <1>1, <1>2, <1>5 DEF DigestTypeOK
<1>7. Padded(z + 1)' = Padded(z) \o <<Zero>>
  <2>1. Told' = Told
    BY <1>1 DEF Told
  <2>2. Padded(z + 1)' = Padded(z + 1)
    BY <2>1 DEF Padded
  <2>3. z \in Nat
    BY SizesAreNumbers
  <2>4. QED
    BY <1>2, <2>2, <2>3, OneMoreZero
<1>8. ZerosFit(z + 1, Len(buffer'))
  <2> DEFINE n == Len(buffer)
  <2>1. n \in Nat /\ n + 1 <= BlockSize /\ buffer \in Seq(Int) /\ Len(buffer) < BlockSize
    BY <1>2, SizesAreNumbers DEF DigestTypeOK
  <2>2. Len(<<Zero>>) = 1
    OBVIOUS
  <2>3. Len(buffer') = IF n + 1 = BlockSize THEN 0 ELSE n + 1
    BY <1>1, <1>4, <2>1, <2>2, UpdateLeaves
  <2>4. ZerosFit(z, n)
    BY <1>3
  <2> HIDE DEF n
  <2>5. n # BlockSize - LengthSize
    BY <1>1 DEF n
  <2>6. QED
    BY <2>1, <2>3, <2>4, <2>5, z \in Nat, SizesAreNumbers DEF ZerosFit
<1>9. IsStream(blocks', buffer', Padded(z + 1)')
  BY <1>5, <1>7
<1>10. z + 1 \in 0 .. BlockSize - 1
  BY <1>5, <1>8, SizesAreNumbers DEF ZerosFit
<1>11. (ZerosFit(z + 1, Len(buffer)) /\ IsStream(blocks, buffer, Padded(z + 1)))'
  BY <1>8, <1>9 DEF IsStream, ZerosFit
<1>12. (\E y \in 0 .. BlockSize - 1 : ZerosFit(y, Len(buffer)) /\ IsStream(blocks, buffer, Padded(y)))'
  BY <1>10, <1>11
<1>13. StreamInv'
  BY <1>1, <1>12 DEF StreamInv
<1>14. EndInv'
  BY <1>1 DEF DigestInv, EndInv
<1>15. QED
  BY <1>6, <1>13, <1>14 DEF DigestInv

LEMMA LengthKeeps == DigestInv /\ PutLength => DigestInv'
<1> SUFFICES ASSUME DigestInv, PutLength PROVE DigestInv'
  OBVIOUS
<1>1. /\ step = "pad" /\ step' \in {"stored", "lost"} /\ Update(Lengths(given))
      /\ UNCHANGED <<content, given, broken>> /\ Len(buffer) = BlockSize - LengthSize
  BY DEF PutLength, PlaceForLength, Lengths
<1>2. DigestTypeOK /\ Told \in Seq(Int) /\ given \in Nat
  BY ContentIsBytes DEF DigestInv
<1>3. PICK z \in 0 .. BlockSize - 1 : ZerosFit(z, Len(buffer)) /\ IsStream(blocks, buffer, Padded(z))
  BY <1>1 DEF DigestInv, StreamInv
<1>4. Lengths(given) \in Seq(Int) /\ Len(Lengths(given)) = LengthSize
  BY <1>2, SizesAreNumbers DEF Lengths, LengthByte
<1>5. /\ IsStream(blocks', buffer', Padded(z) \o Lengths(given))
      /\ buffer' \in Seq(Int) /\ Len(buffer') < BlockSize
      /\ \A i \in 1 .. Len(blocks') : blocks'[i] \in Seq(Int) /\ Len(blocks'[i]) = BlockSize
  BY <1>1, <1>2, <1>3, <1>4, UpdateKeeps
<1>6. DigestTypeOK'
  BY <1>1, <1>2, <1>5 DEF DigestTypeOK, Settled
<1>7. buffer' = << >>
  <2>1. /\ buffer \in Seq(Int) /\ Len(buffer) < BlockSize
        /\ Len(buffer) + Len(Lengths(given)) = BlockSize
    BY <1>1, <1>2, <1>4, SizesAreNumbers DEF DigestTypeOK
  <2>2. BlockSize \in Nat
    BY SizesAreNumbers
  <2>3. Len(buffer') = 0
    BY <1>1, <1>4, <2>1, <2>2, UpdateLeaves
  <2>4. QED
    BY <1>5, <2>3
<1>8. z \in 0 .. BlockSize - 1
  BY <1>1, <1>3, SizesAreNumbers DEF ZerosFit
<1>9. (Padded(z) \o Lengths(given))' = Padded(z) \o Lengths(given)
  BY <1>1 DEF Padded, Told
<1>10. IsStream(blocks', << >>, (Padded(z) \o Lengths(given))')
  BY <1>5, <1>7, <1>9
<1>11. (buffer = << >> /\ IsStream(blocks, << >>, Padded(z) \o Lengths(given)))'
  BY <1>7, <1>10 DEF IsStream
<1>12. (\E y \in 0 .. BlockSize - 1 :
         buffer = << >> /\ IsStream(blocks, << >>, Padded(y) \o Lengths(given)))'
  BY <1>8, <1>11
<1>13. StreamInv'
  BY <1>1, <1>12 DEF StreamInv
<1>14. EndInv'
  BY <1>1 DEF DigestInv, EndInv
<1>15. QED
  BY <1>6, <1>13, <1>14 DEF DigestInv

LEMMA DigestStays == DigestInv /\ UNCHANGED digest => DigestInv'
<1> SUFFICES ASSUME DigestInv, UNCHANGED digest PROVE DigestInv'
  OBVIOUS
<1>1. /\ step' = step /\ content' = content /\ given' = given /\ broken' = broken
      /\ buffer' = buffer /\ blocks' = blocks
  BY DEF digest
<1>2. DigestTypeOK' /\ EndInv'
  BY <1>1 DEF DigestInv, DigestTypeOK, EndInv
<1>3. Told' = Told /\ \A z : Padded(z)' = Padded(z)
  BY <1>1 DEF Padded, Told
<1>4. StreamInv'
  <2>1. CASE step \in {"open", "read", "mark", "refused"}
    <3>1. IsStream(blocks, buffer, Told)
      BY <2>1 DEF DigestInv, StreamInv
    <3>2. IsStream(blocks, buffer, Told)'
      BY <1>1, <1>3, <3>1 DEF IsStream
    <3>3. QED
      BY <1>1, <2>1, <3>2 DEF StreamInv
  <2>2. CASE step = "pad"
    <3>1. PICK z \in 0 .. BlockSize - 1 : ZerosFit(z, Len(buffer)) /\ IsStream(blocks, buffer, Padded(z))
      BY <2>2 DEF DigestInv, StreamInv
    <3>2. (ZerosFit(z, Len(buffer)) /\ IsStream(blocks, buffer, Padded(z)))'
      BY <1>1, <1>3, <3>1 DEF IsStream, ZerosFit
    <3>3. (\E y \in 0 .. BlockSize - 1 : ZerosFit(y, Len(buffer)) /\ IsStream(blocks, buffer, Padded(y)))'
      BY <3>2
    <3>4. QED
      BY <1>1, <2>2, <3>3 DEF StreamInv
  <2>3. CASE step \in {"stored", "lost"}
    <3>1. PICK z \in 0 .. BlockSize - 1 :
            buffer = << >> /\ IsStream(blocks, << >>, Padded(z) \o Lengths(given))
      BY <2>3 DEF DigestInv, StreamInv
    <3>2. (Padded(z) \o Lengths(given))' = Padded(z) \o Lengths(given)
      BY <1>1, <1>3
    <3>3. (buffer = << >> /\ IsStream(blocks, << >>, Padded(z) \o Lengths(given)))'
      BY <1>1, <3>1, <3>2 DEF IsStream
    <3>4. (\E y \in 0 .. BlockSize - 1 :
             buffer = << >> /\ IsStream(blocks, << >>, Padded(y) \o Lengths(given)))'
      BY <3>3
    <3>5. QED
      BY <1>1, <2>3, <3>4 DEF StreamInv
  <2>4. step \in {"open", "read", "mark", "refused", "pad", "stored", "lost"}
    BY DEF DigestInv, DigestTypeOK, Settled
  <2>5. QED
    BY <2>1, <2>2, <2>3, <2>4
<1>5. QED
  BY <1>2, <1>4 DEF DigestInv

(* When nothing is in the buffer, the blocks are what was given.           *)
LEMMA MessageIsStream ==
  ASSUME NEW s, IsStream(blocks, << >>, s)
  PROVE  Message = s
<1> DEFINE B == BlockSize
           m == Len(blocks)
           l == m * B
<1>1. B \in Nat \ {0} /\ m \in Nat /\ l \in Nat
  <2>1. B \in Nat \ {0} /\ m \in Nat
    BY SizesAreNumbers DEF IsStream
  <2> HIDE DEF m
  <2>2. QED
    BY <2>1
<1>2. s \in Seq(Int) /\ Len(s) = l
  <2>1. s \in Seq(Int) /\ Len(s) = l + Len(<< >>)
    BY DEF IsStream
  <2>2. QED
    BY <1>1, <2>1
<1>3. ASSUME NEW i \in 1 .. l
      PROVE  blocks[((i - 1) \div B) + 1][((i - 1) % B) + 1] = s[i]
  <2> DEFINE j == i - 1
             q == j \div B
             r == j % B
  <2>1. j \in Nat /\ i = j + 1 /\ j < l
    BY <1>1
  <2> HIDE DEF j
  <2>2. q \in Nat /\ r \in 0 .. B - 1 /\ j = q * B + r
    BY <1>1, <2>1, DivMod
  <2> HIDE DEF q, r
  <2>3. q < m
    <3> SUFFICES ASSUME m <= q PROVE FALSE
      BY <1>1, <2>2
    <3>1. l <= q * B
      BY <1>1, <2>2, Monotone
    <3>2. q * B \in Nat
      BY <1>1, <2>2
    <3> DEFINE x == q * B
    <3> HIDE DEF x, l
    <3>3. QED
      BY <1>1, <2>1, <2>2, <3>1, <3>2 DEF x
  <2>4. q + 1 \in 1 .. m /\ r + 1 \in 1 .. B /\ (q + 1) - 1 = q
    BY <1>1, <2>2, <2>3
  <2>5. blocks[q + 1][r + 1] = s[((q + 1) - 1) * B + (r + 1)]
    BY <2>4 DEF IsStream
  <2>6. q * B + (r + 1) = i
    <3>1. q * B \in Nat
      BY <1>1, <2>2
    <3> DEFINE x == q * B
    <3> HIDE DEF x
    <3>2. QED
      BY <1>1, <2>1, <2>2, <3>1 DEF x
  <2>7. QED
    BY <2>4, <2>5, <2>6 DEF q, r, j
<1>4. s = [i \in 1 .. l |-> s[i]]
  <2> HIDE DEF l
  <2> QED BY <1>1, <1>2
<1>5. QED
  BY <1>3, <1>4 DEF Message

(* What the engine was given is in its blocks and its buffer, at every     *)
(* step (core/checksum.cpp, update and finalize): the inductive invariant, *)
(* for every block size, piece size and file.                              *)
THEOREM DigestIsKept == DigestSpec => []DigestInv
<1>1. DigestInv /\ [DigestNext]_digest => DigestInv'
  BY OpenKeeps, PieceKeeps, MarkKeeps, ZeroKeeps, LengthKeeps, DigestStays DEF DigestNext
<1>2. QED
  BY <1>1, DigestStarts, PTL DEF DigestSpec

(* The buffer is never full between two calls, and no more bytes are given *)
(* than the file has.                                                      *)
THEOREM DigestTypes == DigestSpec => []DigestTypeOK
<1>1. DigestInv => DigestTypeOK
  BY DEF DigestInv
<1>2. QED
  BY <1>1, DigestIsKept, PTL

(* The digest that is stored is that of the file, padded as the standards  *)
(* say, however the file was cut into pieces (core/checksum.cpp,           *)
(* hash_file, update and finalize).                                        *)
THEOREM DigestsAreOfFiles == DigestSpec => []DigestIsOfTheFile
<1>1. DigestInv => DigestIsOfTheFile
  <2> SUFFICES ASSUME DigestInv, step = "stored"
               PROVE  /\ broken \/ given = Len(content)
                      /\ \E zeros \in 0 .. BlockSize - 1 :
                           Message = Padded(zeros) \o Lengths(given)
    BY DEF DigestIsOfTheFile, Padded, Lengths, Told, Zeros
  <2>1. broken \/ given = Len(content)
    BY DEF DigestInv, EndInv
  <2>2. PICK z \in 0 .. BlockSize - 1 : IsStream(blocks, << >>, Padded(z) \o Lengths(given))
    BY DEF DigestInv, StreamInv
  <2>3. Message = Padded(z) \o Lengths(given)
    BY <2>2, MessageIsStream
  <2>4. QED
    BY <2>1, <2>3
<1>2. QED
  BY <1>1, DigestIsKept, PTL

-----------------------------------------------------------------------------
(* Reading a directory                                                     *)

(* The parameters are numbers, and descriptors have the fields of their    *)
(* tag.                                                                    *)
LEMMA NumbersOf ==
  /\ {MaxSequence, HeadScan, MaxHeads, MaxDirSectors} \subseteq Nat \ {0}
  /\ SectorSize \in Nat \ {0} /\ HeaderSize \in Nat \ {0} /\ Alignment \in Nat \ {0}
  /\ HeaderSize <= SectorSize
BY UdfAssumption

LEMMA Descriptors ==
  ASSUME UdfTypeOK
  PROVE  /\ \A s : Holds(s, "avdp") => disc[s].vds \in Nat /\ disc[s].len \in Nat
         /\ \A s : Holds(s, "pd") => disc[s].start \in Nat
         /\ \A s : Holds(s, "lvd") => disc[s].fsd \in RefType
         /\ \A s : Holds(s, "fsd") => disc[s].root \in RefType
         /\ \A s : Holds(s, "fe") => disc[s].dir \in BOOLEAN /\ disc[s].at \in Nat /\ disc[s].len \in Nat
         /\ \A s : Holds(s, "data") => disc[s].fids \in Seq(FidType)
         /\ DOMAIN disc \subseteq Nat
<1>1. \A s \in DOMAIN disc : disc[s] \in DescriptorType
  BY UdfAssumption DEF UdfTypeOK
<1>2. DOMAIN disc \subseteq Nat
  BY UdfAssumption DEF UdfTypeOK
<1>3. \A s : Holds(s, "avdp") => disc[s] \in [tag : {"avdp"}, vds : Nat, len : Nat]
  BY <1>1 DEF DescriptorType, Holds
<1>4. \A s : Holds(s, "pd") => disc[s] \in [tag : {"pd"}, start : Nat]
  BY <1>1 DEF DescriptorType, Holds
<1>5. \A s : Holds(s, "lvd") => disc[s] \in [tag : {"lvd"}, fsd : RefType]
  BY <1>1 DEF DescriptorType, Holds
<1>6. \A s : Holds(s, "fsd") => disc[s] \in [tag : {"fsd"}, root : RefType]
  BY <1>1 DEF DescriptorType, Holds
<1>7. \A s : Holds(s, "fe") => disc[s] \in [tag : {"fe"}, dir : BOOLEAN, at : Nat, len : Nat]
  BY <1>1 DEF DescriptorType, Holds
<1>8. \A s : Holds(s, "data") => disc[s] \in [tag : {"data"}, fids : Seq(FidType)]
  BY <1>1 DEF DescriptorType, Holds
<1>9. QED
  BY <1>2, <1>3, <1>4, <1>5, <1>6, <1>7, <1>8

(* The recursive functions of UdfParser: what each is defined by, that     *)
(* there is such a function, and what it computes. Those over the          *)
(* descriptors of a directory exist by ForestRecursion.                    *)
Fids(first) == IF Holds(first, "data") THEN disc[first].fids ELSE << >>

OffsetEq(o, fids) ==
  o = [i \in 1 .. Len(fids) + 1 |-> IF i = 1 THEN 0 ELSE o[i - 1] + Aligned(fids[i - 1].size)]

ReadEq(read, first, n) ==
  LET fids == Fids(first)
      begins == Offset(fids)
      Written(i) == begins[i] < SectorSize \/ Holds(first + begins[i] \div SectorSize, "rest")
      Fits(i, size, m) == begins[i] + size <= m * SectorSize
  IN  read = [x \in (1 .. Len(fids) + 1) \X (n .. MaxDirSectors) |->
                LET i == x[1]
                    m == x[2]
                IN  IF i > Len(fids) \/ ~Fits(i, HeaderSize, m) \/ ~Written(i) THEN << >>
                    ELSE IF Fits(i, fids[i].size, m) THEN Live(fids[i]) \o read[<<i + 1, m>>]
                    ELSE IF Extends(first, m) THEN read[<<i, m + 1>>] ELSE << >>]

LiveEq(live, fids) ==
  live = [i \in 1 .. Len(fids) + 1 |-> IF i > Len(fids) THEN << >> ELSE Live(fids[i]) \o live[i + 1]]

LEMMA Unfolded ==
  /\ \A fids : Offset(fids) = CHOOSE o : OffsetEq(o, fids)
  /\ \A first, n : Stream(first, n) = (CHOOSE read : ReadEq(read, first, n))[<<1, n>>]
  /\ \A first : LiveFids(first) = (CHOOSE live : LiveEq(live, disc[first].fids))[1]
<1>1. ASSUME NEW fids PROVE Offset(fids) = CHOOSE o : OffsetEq(o, fids)
  BY DEF Offset, OffsetEq
<1>2. ASSUME NEW first, NEW n PROVE Stream(first, n) = (CHOOSE read : ReadEq(read, first, n))[<<1, n>>]
  BY DEF Stream, ReadEq, Fids
<1>3. ASSUME NEW first PROVE LiveFids(first) = (CHOOSE live : LiveEq(live, disc[first].fids))[1]
  BY DEF LiveFids, LiveEq
<1>4. QED
  BY <1>1, <1>2, <1>3

LEMMA DirectoryIs ==
  ASSUME NEW ref, NEW fids
  PROVE  fids \in Directory(ref) <=>
           \E s \in FileEntries(ref) : \E t \in DataOf(ref, s) :
              fids = Stream(t, SectorsOf(disc[s].len))
BY DEF Directory

LEMMA Rounded ==
  ASSUME NEW size \in Nat
  PROVE  Aligned(size) \in Nat
<1> DEFINE n == size + Alignment - 1
           q == n \div Alignment
<1>1. n \in Nat /\ Alignment \in Nat \ {0}
  BY NumbersOf
<1> HIDE DEF n
<1>2. q \in Nat
  BY <1>1
<1> HIDE DEF q
<1>3. q * Alignment \in Nat
  BY <1>1, <1>2
<1>4. QED
  BY <1>3 DEF Aligned, q, n

LEMMA FidSizes ==
  ASSUME NEW fids \in Seq(FidType)
  PROVE  /\ Len(fids) \in Nat
         /\ \A i \in 1 .. Len(fids) :
              /\ fids[i] \in FidType /\ fids[i].size \in Nat /\ fids[i].size >= HeaderSize
              /\ Aligned(fids[i].size) \in Nat /\ Live(fids[i]) \in Seq(FidType)
<1>1. ASSUME NEW i \in 1 .. Len(fids)
      PROVE  fids[i] \in FidType /\ fids[i].size \in Nat /\ fids[i].size >= HeaderSize
  <2>1. fids[i] \in FidType
    OBVIOUS
  <2>2. QED
    BY <2>1 DEF FidType
<1>2. ASSUME NEW i \in 1 .. Len(fids) PROVE Live(fids[i]) \in Seq(FidType)
  BY <1>1 DEF Live
<1>3. ASSUME NEW i \in 1 .. Len(fids) PROVE Aligned(fids[i].size) \in Nat
  BY <1>1, Rounded
<1>4. Len(fids) \in Nat
  OBVIOUS
<1>5. QED
  BY <1>1, <1>2, <1>3, <1>4

(* The places where descriptors begin.                                     *)
LEMMA OffsetExists ==
  ASSUME NEW fids \in Seq(FidType)
  PROVE  OffsetEq(Offset(fids), fids)
<1> DEFINE n == Len(fids)
           S == 1 .. n + 1
           up == [i \in S |-> i - 1]
           rank == [i \in S |-> i]
           base == [i \in S |-> 0]
           grow == [i \in S |-> [v \in Nat |-> v + Aligned(fids[i - 1].size)]]
<1>1. n \in Nat
  OBVIOUS
<1>2. ASSUME NEW i \in S \ {1}
      PROVE  /\ i - 1 \in 1 .. n /\ up[i] = i - 1 /\ up[i] \in S
             /\ \A v \in Nat : grow[i][v] = v + Aligned(fids[i - 1].size) /\ grow[i][v] \in Nat
  <2>1. i - 1 \in 1 .. n /\ up[i] = i - 1 /\ up[i] \in S
    BY <1>1
  <2>2. Aligned(fids[i - 1].size) \in Nat
    BY <2>1, FidSizes
  <2>3. ASSUME NEW v \in Nat PROVE grow[i][v] = v + Aligned(fids[i - 1].size)
    OBVIOUS
  <2>4. QED
    BY <2>1, <2>2, <2>3
<1>3. IsForest(S, {1}, up, rank)
  <2>1. \A i \in S : rank[i] = i /\ i \in Nat
    OBVIOUS
  <2> HIDE DEF up, rank
  <2>2. ASSUME NEW i \in S \ {1} PROVE up[i] \in S /\ rank[up[i]] < rank[i]
    <3>1. up[i] = i - 1 /\ up[i] \in S /\ i \in Nat
      BY <1>2, <2>1
    <3>2. rank[i] = i /\ rank[i - 1] = i - 1
      BY <2>1, <3>1
    <3>3. QED
      BY <3>1, <3>2
  <2>3. QED
    BY <2>1, <2>2 DEF IsForest
<1>4. Gives(S, {1}, Nat, base, grow)
  <2>1. base[1] \in Nat
    BY <1>1
  <2> HIDE DEF base, grow
  <2>2. QED
    BY <1>2, <2>1 DEF Gives
<1>5. base[1] = 0
  BY <1>1
<1> HIDE DEF up, rank, base, grow
<1>6. PICK o \in [S -> Nat] : Inherits(o, S, {1}, up, base, grow)
  BY <1>3, <1>4, ForestRecursion
<1>7. ASSUME NEW i \in S
      PROVE  o[i] = IF i = 1 THEN 0 ELSE o[i - 1] + Aligned(fids[i - 1].size)
  <2>1. o[i] = IF i \in {1} THEN base[i] ELSE grow[i][o[up[i]]]
    BY <1>6 DEF Inherits
  <2>2. CASE i = 1
    BY <1>5, <2>1, <2>2
  <2>3. CASE i # 1
    BY <1>2, <2>1, <2>3
  <2>4. QED
    BY <2>2, <2>3
<1>8. OffsetEq(o, fids)
  <2>1. o = [i \in S |-> o[i]]
    OBVIOUS
  <2>2. QED
    BY <1>7, <2>1 DEF OffsetEq
<1>9. QED
  BY <1>8, Unfolded

LEMMA OffsetTypes ==
  ASSUME NEW fids \in Seq(FidType)
  PROVE  \A i \in 1 .. Len(fids) + 1 : Offset(fids)[i] \in Nat
<1> DEFINE n == Len(fids)
           S == 1 .. n + 1
           up == [i \in S |-> i - 1]
           rank == [i \in S |-> i]
           Good == {i \in S : Offset(fids)[i] \in Nat}
<1>1. n \in Nat
  OBVIOUS
<1>2. IsForest(S, {1}, up, rank)
  <2>1. \A i \in S : rank[i] = i /\ i \in Nat /\ up[i] = i - 1
    OBVIOUS
  <2>2. \A i \in S \ {1} : i - 1 \in S /\ i - 1 < i
    BY <1>1
  <2> HIDE DEF up, rank
  <2>3. QED
    BY <2>1, <2>2 DEF IsForest
<1>3. ASSUME NEW i \in S, i \in {1} \/ up[i] \in Good PROVE i \in Good
  <2> PICK o : o = Offset(fids)
    OBVIOUS
  <2>1. o[i] = IF i = 1 THEN 0 ELSE o[i - 1] + Aligned(fids[i - 1].size)
    <3>1. o = [j \in S |-> IF j = 1 THEN 0 ELSE o[j - 1] + Aligned(fids[j - 1].size)]
      BY OffsetExists DEF OffsetEq
    <3>2. QED
      BY <3>1
  <2>2. i # 1 => i - 1 \in 1 .. n /\ up[i] = i - 1
    BY <1>1
  <2>3. i # 1 => Aligned(fids[i - 1].size) \in Nat /\ o[i - 1] \in Nat
    BY <1>3, <2>2, FidSizes
  <2>4. QED
    BY <2>1, <2>3
<1> HIDE DEF up, rank, Good
<1>4. S \subseteq Good
  BY <1>2, <1>3, ForestInduction
<1>5. QED
  BY <1>4 DEF Good

-----------------------------------------------------------------------------
(* Reading a directory: with m sectors read, is the header of the i-th     *)
(* descriptor there, was it written there, is the descriptor there; and    *)
(* where reading stops.                                                    *)
HeaderRead(first, i, m) == Offset(Fids(first))[i] + HeaderSize <= m * SectorSize
Written(first, i) ==
  \/ Offset(Fids(first))[i] < SectorSize
  \/ Holds(first + Offset(Fids(first))[i] \div SectorSize, "rest")
FidRead(first, i, m) == Offset(Fids(first))[i] + Fids(first)[i].size <= m * SectorSize
Ends(first, i, m) == i > Len(Fids(first)) \/ ~HeaderRead(first, i, m) \/ ~Written(first, i)

(* Reading goes from one pair (descriptor, sectors read) to another that   *)
(* is closer to the last descriptor or to the last sector.                 *)
Points(first, n) == (1 .. Len(Fids(first)) + 1) \X (n .. MaxDirSectors)
Last(first, n) ==
  {x \in Points(first, n) :
     \/ Ends(first, x[1], x[2])
     \/ ~FidRead(first, x[1], x[2]) /\ ~Extends(first, x[2])}
Onward(first, n) ==
  [x \in Points(first, n) |->
     IF FidRead(first, x[1], x[2]) THEN <<x[1] + 1, x[2]>> ELSE <<x[1], x[2] + 1>>]
ToGo(first, n) ==
  [x \in Points(first, n) |-> (Len(Fids(first)) + 1 - x[1]) + (MaxDirSectors - x[2])]

LEMMA FidsType ==
  ASSUME UdfTypeOK
  PROVE  \A first : Fids(first) \in Seq(FidType) /\ Len(Fids(first)) \in Nat
BY Descriptors DEF Fids

LEMMA ReadingAdvances ==
  ASSUME UdfTypeOK, NEW first, NEW n \in Nat
  PROVE  IsForest(Points(first, n), Last(first, n), Onward(first, n), ToGo(first, n))
<1> DEFINE S == Points(first, n)
           l == Len(Fids(first))
<1>1. l \in Nat /\ MaxDirSectors \in Nat
  BY FidsType, NumbersOf
<1>2. ASSUME NEW x \in S
      PROVE  /\ x[1] \in 1 .. l + 1 /\ x[2] \in n .. MaxDirSectors /\ x = <<x[1], x[2]>>
             /\ ToGo(first, n)[x] = (l + 1 - x[1]) + (MaxDirSectors - x[2])
             /\ ToGo(first, n)[x] \in Nat
  <2>1. x[1] \in 1 .. l + 1 /\ x[2] \in n .. MaxDirSectors /\ x = <<x[1], x[2]>>
    BY DEF Points
  <2>2. ToGo(first, n)[x] = (l + 1 - x[1]) + (MaxDirSectors - x[2])
    BY DEF ToGo
  <2> HIDE DEF l, S
  <2>3. QED
    BY <1>1, <2>1, <2>2
<1>3. ASSUME NEW x \in S \ Last(first, n)
      PROVE  Onward(first, n)[x] \in S /\ ToGo(first, n)[Onward(first, n)[x]] < ToGo(first, n)[x]
  <2>1. ~(x[1] > l) /\ (FidRead(first, x[1], x[2]) \/ Extends(first, x[2]))
    BY DEF Last, Ends
  <2>2. CASE FidRead(first, x[1], x[2])
    <3>1. Onward(first, n)[x] = <<x[1] + 1, x[2]>>
      BY <2>2 DEF Onward
    <3>2. x[1] + 1 \in 1 .. l + 1 /\ x[2] \in n .. MaxDirSectors
      BY <1>1, <1>2, <2>1
    <3>3. <<x[1] + 1, x[2]>> \in S
      BY <3>2 DEF Points
    <3>4. ToGo(first, n)[<<x[1] + 1, x[2]>>] = (l + 1 - (x[1] + 1)) + (MaxDirSectors - x[2])
      BY <3>3 DEF ToGo
    <3> HIDE DEF l, S
    <3>5. QED
      BY <1>1, <1>2, <3>1, <3>2, <3>3, <3>4
  <2>3. CASE ~FidRead(first, x[1], x[2])
    <3>1. Onward(first, n)[x] = <<x[1], x[2] + 1>>
      BY <2>3 DEF Onward
    <3>2. x[2] < MaxDirSectors
      BY <2>1, <2>3 DEF Extends
    <3>3. x[2] + 1 \in n .. MaxDirSectors /\ x[1] \in 1 .. l + 1
      BY <1>1, <1>2, <3>2
    <3>4. <<x[1], x[2] + 1>> \in S
      BY <3>3 DEF Points
    <3>5. ToGo(first, n)[<<x[1], x[2] + 1>>] = (l + 1 - x[1]) + (MaxDirSectors - (x[2] + 1))
      BY <3>4 DEF ToGo
    <3> HIDE DEF l, S
    <3>6. QED
      BY <1>1, <1>2, <3>1, <3>3, <3>4, <3>5
  <2>4. QED
    BY <2>2, <2>3
<1>4. QED
  BY <1>2, <1>3 DEF IsForest

LEMMA ReadAt ==
  ASSUME NEW first, NEW n, NEW read, ReadEq(read, first, n), NEW x \in Points(first, n)
  PROVE  read[x] = IF Ends(first, x[1], x[2]) THEN << >>
                   ELSE IF FidRead(first, x[1], x[2]) THEN Live(Fids(first)[x[1]]) \o read[<<x[1] + 1, x[2]>>]
                   ELSE IF Extends(first, x[2]) THEN read[<<x[1], x[2] + 1>>] ELSE << >>
BY DEF ReadEq, Points, Ends, FidRead, Written, HeaderRead

(* Hence reading a directory is well defined.                              *)
LEMMA ReadExists ==
  ASSUME UdfTypeOK, NEW first, NEW n \in Nat
  PROVE  \E read : ReadEq(read, first, n)
<1> DEFINE S == Points(first, n)
           R == Last(first, n)
           V == Seq(FidType)
           fids == Fids(first)
           base == [x \in S |-> << >>]
           grow == [x \in S |-> [v \in V |-> IF FidRead(first, x[1], x[2]) THEN Live(fids[x[1]]) \o v ELSE v]]
<1>1. fids \in Seq(FidType) /\ Len(fids) \in Nat
  BY FidsType
<1>2. ASSUME NEW x \in S \ R
      PROVE  x[1] \in 1 .. Len(fids) /\ Live(fids[x[1]]) \in Seq(FidType)
  <2>1. x[1] \in 1 .. Len(fids)
    BY <1>1 DEF Points, Last, Ends
  <2>2. QED
    BY <1>1, <2>1, FidSizes
<1>3. ASSUME NEW x \in S \ R, NEW v \in V
      PROVE  /\ grow[x][v] = IF FidRead(first, x[1], x[2]) THEN Live(fids[x[1]]) \o v ELSE v
             /\ grow[x][v] \in V
  <2>1. grow[x][v] = IF FidRead(first, x[1], x[2]) THEN Live(fids[x[1]]) \o v ELSE v
    OBVIOUS
  <2>2. Live(fids[x[1]]) \o v \in V
    BY <1>2
  <2> HIDE DEF grow, V
  <2>3. QED
    BY <2>1, <2>2
<1>4. Gives(S, R, V, base, grow)
  <2>1. R \subseteq S
    BY DEF Last
  <2>2. \A x \in R : base[x] \in V
    BY <2>1
  <2> HIDE DEF base, grow, V
  <2>3. QED
    BY <1>3, <2>2 DEF Gives
<1>5. \A x \in S : base[x] = << >>
  OBVIOUS
<1>6. IsForest(S, R, Onward(first, n), ToGo(first, n))
  BY ReadingAdvances
<1> HIDE DEF S, R, V, base, grow
<1>7. PICK read \in [S -> V] : Inherits(read, S, R, Onward(first, n), base, grow)
  BY <1>4, <1>6, ForestRecursion
<1>8. ASSUME NEW x \in S
      PROVE  read[x] = IF Ends(first, x[1], x[2]) THEN << >>
                   ELSE IF FidRead(first, x[1], x[2]) THEN Live(fids[x[1]]) \o read[<<x[1] + 1, x[2]>>]
                   ELSE IF Extends(first, x[2]) THEN read[<<x[1], x[2] + 1>>] ELSE << >>
  <2>1. read[x] = IF x \in R THEN base[x] ELSE grow[x][read[Onward(first, n)[x]]]
    BY <1>7 DEF Inherits
  <2>2. CASE x \in R
    <3>1. read[x] = << >>
      BY <1>5, <2>1, <2>2
    <3>2. Ends(first, x[1], x[2]) \/ (~FidRead(first, x[1], x[2]) /\ ~Extends(first, x[2]))
      BY <2>2 DEF Last, R
    <3>3. QED
      BY <3>1, <3>2
  <2>3. CASE x \notin R
    <3>1. ~Ends(first, x[1], x[2]) /\ (FidRead(first, x[1], x[2]) \/ Extends(first, x[2]))
      BY <2>3 DEF Last, R, S
    <3>2. Onward(first, n)[x] = IF FidRead(first, x[1], x[2]) THEN <<x[1] + 1, x[2]>> ELSE <<x[1], x[2] + 1>>
      BY DEF Onward, S
    <3>3. Onward(first, n)[x] \in S
      BY <1>6, <2>3 DEF IsForest
    <3>4. read[Onward(first, n)[x]] \in V
      BY <3>3
    <3>5. read[x] = IF FidRead(first, x[1], x[2]) THEN Live(fids[x[1]]) \o read[Onward(first, n)[x]]
                    ELSE read[Onward(first, n)[x]]
      BY <1>3, <2>1, <2>3, <3>4
    <3>6. QED
      BY <3>1, <3>2, <3>5
  <2>4. QED
    BY <2>2, <2>3
<1>9. read = [x \in S |-> read[x]]
  OBVIOUS
<1>10. ReadEq(read, first, n)
  BY <1>8, <1>9 DEF ReadEq, S, Points, Ends, FidRead, Written, HeaderRead
<1>11. QED
  BY <1>10

LEMMA StreamIsRead ==
  ASSUME UdfTypeOK, NEW first, NEW n \in Nat
  PROVE  \E read : ReadEq(read, first, n) /\ Stream(first, n) = read[<<1, n>>]
BY ReadExists, Unfolded

LEMMA StreamType ==
  ASSUME UdfTypeOK, NEW first, NEW n \in 1 .. MaxDirSectors
  PROVE  Stream(first, n) \in Seq(FidType)
<1> n \in Nat
  BY NumbersOf
<1>1. PICK read : ReadEq(read, first, n) /\ Stream(first, n) = read[<<1, n>>]
  BY StreamIsRead
<1> DEFINE S == Points(first, n)
           R == Last(first, n)
           Good == {x \in S : read[x] \in Seq(FidType)}
<1>2. ASSUME NEW x \in S, x \in R \/ Onward(first, n)[x] \in Good PROVE x \in Good
  <2>1. read[x] = IF Ends(first, x[1], x[2]) THEN << >>
                   ELSE IF FidRead(first, x[1], x[2]) THEN Live(Fids(first)[x[1]]) \o read[<<x[1] + 1, x[2]>>]
                   ELSE IF Extends(first, x[2]) THEN read[<<x[1], x[2] + 1>>] ELSE << >>
    BY <1>1, ReadAt
  <2>2. Onward(first, n)[x] = IF FidRead(first, x[1], x[2]) THEN <<x[1] + 1, x[2]>> ELSE <<x[1], x[2] + 1>>
    BY DEF Onward
  <2>3. x \in R => Ends(first, x[1], x[2]) \/ (~FidRead(first, x[1], x[2]) /\ ~Extends(first, x[2]))
    BY DEF Last
  <2>4. ~Ends(first, x[1], x[2]) => Live(Fids(first)[x[1]]) \in Seq(FidType)
    <3>1. ASSUME ~Ends(first, x[1], x[2]) PROVE x[1] \in 1 .. Len(Fids(first))
      BY <3>1, FidsType DEF Ends, Points
    <3>2. QED
      BY <3>1, FidsType, FidSizes
  <2>5. CASE x \in R
    <3>1. read[x] = << >>
      BY <2>1, <2>3, <2>5
    <3>2. << >> \in Seq(FidType)
      OBVIOUS
    <3>3. QED
      BY <3>1, <3>2
  <2>6. CASE x \notin R
    <3>1. read[Onward(first, n)[x]] \in Seq(FidType)
      BY <1>2, <2>6
    <3>2. read[x] \in Seq(FidType)
      BY <2>1, <2>2, <2>4, <3>1
    <3>3. QED
      BY <3>2
  <2>7. QED
    BY <2>5, <2>6
<1>3. IsForest(S, R, Onward(first, n), ToGo(first, n))
  BY ReadingAdvances
<1> HIDE DEF Good, S, R
<1>4. S \subseteq Good
  BY <1>2, <1>3, ForestInduction
<1>5. <<1, n>> \in S
  BY FidsType, NumbersOf DEF S, Points
<1>6. QED
  BY <1>1, <1>4, <1>5 DEF Good

(* So is what a directory should be read as.                               *)
LEMMA LiveExists ==
  ASSUME NEW fids \in Seq(FidType)
  PROVE  \E live : LiveEq(live, fids)
<1> DEFINE n == Len(fids)
           S == 1 .. n + 1
           R == {n + 1}
           V == Seq(FidType)
           up == [i \in S |-> i + 1]
           rank == [i \in S |-> n + 1 - i]
           base == [i \in S |-> << >>]
           grow == [i \in S |-> [v \in V |-> Live(fids[i]) \o v]]
<1>1. n \in Nat
  OBVIOUS
<1>2. ASSUME NEW i \in S \ R
      PROVE  /\ i \in 1 .. n /\ i + 1 \in S /\ up[i] = i + 1
             /\ \A v \in V : grow[i][v] = Live(fids[i]) \o v /\ grow[i][v] \in V
  <2>1. i \in 1 .. n /\ i + 1 \in S /\ up[i] = i + 1
    BY <1>1
  <2>2. Live(fids[i]) \in V
    BY <2>1, FidSizes
  <2>3. ASSUME NEW v \in V PROVE grow[i][v] = Live(fids[i]) \o v
    OBVIOUS
  <2>4. ASSUME NEW v \in V PROVE Live(fids[i]) \o v \in V
    BY <2>2
  <2> HIDE DEF grow, V
  <2>5. QED
    BY <2>1, <2>3, <2>4
<1>3. IsForest(S, R, up, rank)
  <2>1. \A i \in S : rank[i] = n + 1 - i /\ rank[i] \in Nat
    BY <1>1
  <2> HIDE DEF up, rank, R
  <2>2. ASSUME NEW i \in S \ R PROVE up[i] \in S /\ rank[up[i]] < rank[i]
    <3>1. up[i] = i + 1 /\ i + 1 \in S /\ i \in 1 .. n
      BY <1>2
    <3>2. rank[i] = n + 1 - i /\ rank[i + 1] = n + 1 - (i + 1)
      BY <2>1, <3>1
    <3>3. QED
      BY <1>1, <3>1, <3>2
  <2>3. QED
    BY <2>1, <2>2 DEF IsForest
<1>4. base[n + 1] = << >> /\ base[n + 1] \in V
  BY <1>1
<1>5. Gives(S, R, V, base, grow)
  <2> HIDE DEF base, grow, V
  <2>1. QED
    BY <1>2, <1>4 DEF Gives
<1> HIDE DEF up, rank, base, grow, V
<1>6. PICK live \in [S -> V] : Inherits(live, S, R, up, base, grow)
  BY <1>3, <1>5, ForestRecursion
<1>7. ASSUME NEW i \in S
      PROVE  live[i] = IF i > n THEN << >> ELSE Live(fids[i]) \o live[i + 1]
  <2>1. live[i] = IF i \in R THEN base[i] ELSE grow[i][live[up[i]]]
    BY <1>6 DEF Inherits
  <2>2. CASE i = n + 1
    BY <1>1, <1>4, <2>1, <2>2
  <2>3. CASE i # n + 1
    <3>1. i \in S \ R /\ ~(i > n)
      BY <1>1, <2>3
    <3>2. up[i] = i + 1 /\ i + 1 \in S
      BY <1>2, <3>1
    <3>3. live[i + 1] \in V
      BY <3>2
    <3>4. QED
      BY <1>2, <2>1, <3>1, <3>2, <3>3
  <2>4. QED
    BY <2>2, <2>3
<1>8. live = [i \in S |-> live[i]]
  OBVIOUS
<1>9. LiveEq(live, fids)
  BY <1>7, <1>8 DEF LiveEq
<1>10. QED
  BY <1>9

(* The end of the sector the i-th descriptor reaches into.                 *)
EndOf(first, i) ==
  (((Offset(disc[first].fids)[i] + disc[first].fids[i].size - 1) \div SectorSize) + 1) * SectorSize

LEMMA EndIsNumber ==
  ASSUME NEW first, disc[first].fids \in Seq(FidType), NEW i \in 1 .. Len(disc[first].fids)
  PROVE  EndOf(first, i) \in Nat
<1> DEFINE fids == disc[first].fids
           o == Offset(fids)[i]
           size == fids[i].size
           y == o + size - 1
           q == y \div SectorSize
<1>1. i \in 1 .. Len(fids) + 1
  OBVIOUS
<1>2. o \in Nat
  BY <1>1, OffsetTypes
<1>3. size \in Nat /\ size >= HeaderSize
  BY FidSizes
<1>4. HeaderSize \in Nat \ {0} /\ SectorSize \in Nat \ {0}
  BY NumbersOf
<1> HIDE DEF o, size
<1>5. y \in Nat
  BY <1>2, <1>3, <1>4
<1> HIDE DEF y
<1>6. q \in Nat
  BY <1>4, <1>5, DivMod
<1> HIDE DEF q
<1>7. (q + 1) * SectorSize \in Nat
  BY <1>4, <1>6
<1>8. QED
  BY <1>7 DEF EndOf, q, y, o, size

LEMMA FirstBeginsAtZero ==
  ASSUME NEW fids \in Seq(FidType)
  PROVE  Offset(fids)[1] = 0
<1> PICK o : o = Offset(fids)
  OBVIOUS
<1>1. o = [i \in 1 .. Len(fids) + 1 |-> IF i = 1 THEN 0 ELSE o[i - 1] + Aligned(fids[i - 1].size)]
  BY OffsetExists DEF OffsetEq
<1>2. 1 \in 1 .. Len(fids) + 1
  OBVIOUS
<1>3. QED
  BY <1>1, <1>2

(* A directory on the disc reaches into fewer sectors than may be read.    *)
LEMMA ReachIsShort ==
  ASSUME UdfTypeOK, NEW first, IsOnDisc(first), NEW m \in Reaches(first)
  PROVE  m < MaxDirSectors
<1> DEFINE T == 1 .. MaxDirSectors
<1>0. MaxDirSectors \in Nat /\ m \in 1 .. MaxDirSectors /\ SectorSize \in Nat
  BY NumbersOf DEF Reaches
<1>1. IsFiniteSet(Reaches(first))
  <2>1. IsFiniteSet(T)
    BY <1>0, FS_Interval
  <2>2. Reaches(first) \in SUBSET T
    BY DEF Reaches
  <2>3. QED
    BY <2>1, <2>2, FS_Subset
<1>2. 1 .. m \subseteq Reaches(first)
  <2> SUFFICES ASSUME NEW k \in 1 .. m PROVE k \in Reaches(first)
    OBVIOUS
  <2>1. PICK i \in 1 .. Len(disc[first].fids) :
          Offset(disc[first].fids)[i] + disc[first].fids[i].size > m * SectorSize
    BY DEF Reaches
  <2>2. disc[first].fids \in Seq(FidType)
    BY Descriptors DEF IsOnDisc
  <2>3. Offset(disc[first].fids)[i] \in Nat /\ disc[first].fids[i].size \in Nat
    BY <2>2, OffsetTypes, FidSizes, i \in 1 .. Len(disc[first].fids) + 1
  <2>4. k * SectorSize <= m * SectorSize
    BY <1>0, Monotone, NumbersOf
  <2>5. k * SectorSize \in Nat /\ m * SectorSize \in Nat
    BY <1>0
  <2>6. Offset(disc[first].fids)[i] + disc[first].fids[i].size > k * SectorSize
    <3> DEFINE x == k * SectorSize
               y == m * SectorSize
               z == Offset(disc[first].fids)[i] + disc[first].fids[i].size
    <3>1. z \in Nat
      BY <2>3
    <3> HIDE DEF x, y, z
    <3>2. QED
      BY <2>1, <2>4, <2>5, <3>1 DEF x, y, z
  <2>7. k \in 1 .. MaxDirSectors
    BY <1>0
  <2>8. QED
    BY <2>6, <2>7 DEF Reaches
<1>3. Cardinality(1 .. m) = m
  BY <1>0, FS_Interval
<1>4. m <= Cardinality(Reaches(first))
  BY <1>1, <1>2, <1>3, FS_Subset
<1>5. Cardinality(Reaches(first)) \in Nat
  BY <1>1, FS_CardinalityType
<1>6. Cardinality(Reaches(first)) < MaxDirSectors
  BY DEF IsOnDisc
<1>7. QED
  BY <1>0, <1>4, <1>5, <1>6

(* Enough sectors have been read for the header of the i-th descriptor.    *)
Enough(first, i, m) == IF i = 1 THEN m >= 1 ELSE EndOf(first, i - 1) <= m * SectorSize

(* While it is on the disc, a descriptor is read, or a sector more.        *)
LEMMA ReadingGoesOn ==
  ASSUME UdfTypeOK, NEW first, IsOnDisc(first), HeadersFollow(first),
         NEW n \in 1 .. MaxDirSectors,
         NEW i \in 1 .. Len(Fids(first)), NEW m \in n .. MaxDirSectors, Enough(first, i, m)
  PROVE  /\ ~Ends(first, i, m)
         /\ FidRead(first, i, m) => Enough(first, i + 1, m)
         /\ ~FidRead(first, i, m) => Extends(first, m) /\ Enough(first, i, m + 1)
<1> DEFINE S == SectorSize
           fids == disc[first].fids
           o == Offset(fids)[i]
           size == fids[i].size
           x == m * S
<1>0. S \in Nat \ {0} /\ HeaderSize \in Nat \ {0} /\ HeaderSize <= S /\ MaxDirSectors \in Nat /\ m \in Nat /\ m >= 1
  BY NumbersOf
<1>1. Fids(first) = fids /\ fids \in Seq(FidType) /\ i \in 1 .. Len(fids) /\ Len(fids) \in Nat
  BY Descriptors DEF Fids, IsOnDisc
<1>2. o \in Nat /\ size \in Nat /\ size >= HeaderSize
  BY <1>1, OffsetTypes, FidSizes, i \in 1 .. Len(fids) + 1
<1>3. x \in Nat /\ S <= x
  <2>1. 1 * S <= m * S
    BY <1>0, Monotone
  <2>2. 1 * S = S /\ x \in Nat
    BY <1>0
  <2>3. QED
    BY <2>1, <2>2
<1>4. o + HeaderSize <= x
  <2>1. CASE i = 1
    <3>1. o = 0
      BY <1>1, <2>1, FirstBeginsAtZero
    <3>2. QED
      BY <1>0, <1>3, <3>1
  <2>2. CASE i # 1
    <3>1. i \in 2 .. Len(fids)
      BY <1>1, <2>2
    <3>2. o + HeaderSize <= EndOf(first, i - 1)
      BY <3>1 DEF HeadersFollow, EndOf
    <3>3. EndOf(first, i - 1) <= x
      BY <2>2 DEF Enough
    <3>4. EndOf(first, i - 1) \in Int
      BY <1>1, <3>1, EndIsNumber, i - 1 \in 1 .. Len(fids)
    <3> HIDE DEF x, o
    <3>5. QED
      BY <1>0, <1>2, <1>3, <3>2, <3>3, <3>4
  <2>3. QED
    BY <2>1, <2>2
<1> HIDE DEF x
<1>5. \A k \in Reaches(first) : first + k \in DOMAIN disc /\ disc[first + k].tag = "rest"
  BY DEF IsOnDisc, Holds
<1>6. Written(first, i)
  <2> SUFFICES ASSUME ~(o < S) PROVE Holds(first + (o \div S), "rest")
    BY <1>1 DEF Written
  <2>1. o < x
    BY <1>0, <1>2, <1>3, <1>4
  <2>2. /\ o \div S \in Nat /\ (o \div S) * S \in Nat /\ (o \div S) * S <= o
        /\ o \div S < m /\ o \div S >= 1
    <3>1. o < m * S /\ o >= S
      BY <1>0, <1>2, <2>1 DEF x
    <3> HIDE DEF o
    <3>2. QED
      BY <1>0, <1>2, <3>1, NextMultiple
  <2> DEFINE k == o \div S
             y == k * S
  <2>3. k \in 1 .. MaxDirSectors
    BY <1>0, <2>2
  <2>4. o + size > y
    <3>1. y \in Nat /\ y <= o
      BY <2>2
    <3>2. o \in Nat /\ size \in Nat /\ size > 0
      BY <1>0, <1>2
    <3> HIDE DEF y, o, size
    <3>3. QED
      BY <3>1, <3>2
  <2>5. k \in Reaches(first)
    BY <1>1, <2>3, <2>4 DEF Reaches
  <2>6. QED
    BY <2>5 DEF IsOnDisc
<1>7. ~Ends(first, i, m)
  BY <1>0, <1>1, <1>4, <1>6 DEF Ends, HeaderRead, x
<1>8. FidRead(first, i, m) <=> o + size <= x
  BY <1>1 DEF FidRead, x
<1>9. ASSUME FidRead(first, i, m) PROVE Enough(first, i + 1, m)
  <2> DEFINE a == o + size - 1
  <2>1. a \in Nat /\ a < x
    BY <1>0, <1>2, <1>3, <1>8, <1>9
  <2>2. ((a \div S) + 1) * S <= x
    <3> HIDE DEF a
    <3> QED BY <1>0, <2>1, NextMultiple DEF x
  <2>3. (i + 1) - 1 = i /\ i + 1 # 1
    BY <1>1
  <2>4. EndOf(first, i) <= x
    BY <2>2 DEF EndOf
  <2>5. QED
    BY <2>3, <2>4 DEF Enough, x
<1>10. ASSUME ~FidRead(first, i, m) PROVE Extends(first, m) /\ Enough(first, i, m + 1)
  <2>1. o + size > x
    BY <1>2, <1>3, <1>8, <1>10
  <2>2. m \in Reaches(first)
    BY <1>0, <1>1, <2>1 DEF Reaches, x
  <2>3. m < MaxDirSectors
    BY <2>2, ReachIsShort
  <2>4. Extends(first, m)
    BY <1>5, <2>2, <2>3 DEF Extends, Holds
  <2>5. Enough(first, i, m + 1)
    <3>1. CASE i = 1
      BY <1>0, <3>1 DEF Enough
    <3>2. CASE i # 1
      <4>1. EndOf(first, i - 1) <= x
        BY <3>2 DEF Enough, x
      <4>2. (m + 1) * S = x + S
        BY <1>0 DEF x
      <4>3. EndOf(first, i - 1) \in Int
        BY <1>1, <3>2, EndIsNumber, i - 1 \in 1 .. Len(fids)
      <4>4. EndOf(first, i - 1) <= (m + 1) * S
        BY <1>0, <1>3, <4>1, <4>2, <4>3
      <4>5. QED
        BY <3>2, <4>4 DEF Enough
    <3>3. QED
      BY <3>1, <3>2
  <2>6. QED
    BY <2>4, <2>5
<1>11. QED
  BY <1>7, <1>9, <1>10

(* A directory that is on the disc, each header in a sector that the       *)
(* descriptor before reaches, is read whole whatever size its file entry   *)
(* claims.                                                                 *)
LEMMA StreamIsWhole ==
  ASSUME UdfTypeOK, NEW first, IsOnDisc(first), HeadersFollow(first), NEW n \in 1 .. MaxDirSectors
  PROVE  Stream(first, n) = LiveFids(first)
<1> DEFINE fids == disc[first].fids
           S == Points(first, n)
           R == Last(first, n)
<1>0. MaxDirSectors \in Nat /\ n \in Nat
  BY NumbersOf
<1>1. Fids(first) = fids /\ fids \in Seq(FidType) /\ Len(fids) \in Nat
  BY Descriptors DEF Fids, IsOnDisc
<1>2. PICK read : ReadEq(read, first, n) /\ Stream(first, n) = read[<<1, n>>]
  BY <1>0, StreamIsRead
<1>3. PICK live : LiveEq(live, fids) /\ LiveFids(first) = live[1]
  BY <1>1, LiveExists, Unfolded
<1>4. \A i \in 1 .. Len(fids) + 1 :
        live[i] = IF i > Len(fids) THEN << >> ELSE Live(fids[i]) \o live[i + 1]
  BY <1>3 DEF LiveEq
<1> DEFINE Good == {x \in S : Enough(first, x[1], x[2]) => read[x] = live[x[1]]}
<1>5. ASSUME NEW x \in S, x \in R \/ Onward(first, n)[x] \in Good, Enough(first, x[1], x[2])
      PROVE  read[x] = live[x[1]]
  <2> PICK i : i = x[1]
    OBVIOUS
  <2> PICK m : m = x[2]
    OBVIOUS
  <2>1. i \in 1 .. Len(fids) + 1 /\ m \in n .. MaxDirSectors /\ x = <<i, m>>
    BY <1>1 DEF Points
  <2>2. read[x] = IF Ends(first, i, m) THEN << >>
                  ELSE IF FidRead(first, i, m) THEN Live(fids[i]) \o read[<<i + 1, m>>]
                  ELSE IF Extends(first, m) THEN read[<<i, m + 1>>] ELSE << >>
    BY <1>1, <1>2, ReadAt
  <2>3. Onward(first, n)[x] = IF FidRead(first, i, m) THEN <<i + 1, m>> ELSE <<i, m + 1>>
    BY DEF Onward
  <2>4. CASE i > Len(fids)
    BY <1>1, <1>4, <2>1, <2>2, <2>4 DEF Ends
  <2>5. CASE ~(i > Len(fids))
    <3>1. i \in 1 .. Len(fids) /\ live[i] = Live(fids[i]) \o live[i + 1]
      <4>1. i \in 1 .. Len(fids)
        BY <1>1, <2>1, <2>5
      <4>2. live[i] = IF i > Len(fids) THEN << >> ELSE Live(fids[i]) \o live[i + 1]
        BY <1>4, <2>1
      <4>3. QED
        BY <2>5, <4>1, <4>2
    <3>2. /\ ~Ends(first, i, m)
          /\ FidRead(first, i, m) => Enough(first, i + 1, m)
          /\ ~FidRead(first, i, m) => Extends(first, m) /\ Enough(first, i, m + 1)
      BY <1>1, <1>5, <2>1, <3>1, ReadingGoesOn
    <3>3. x \notin R
      BY <3>2 DEF Last
    <3>4. Onward(first, n)[x] \in Good
      BY <1>5, <3>3
    <3>5. CASE FidRead(first, i, m)
      <4>1. <<i + 1, m>> \in Good /\ <<i + 1, m>>[1] = i + 1 /\ <<i + 1, m>>[2] = m
        BY <2>3, <3>4, <3>5
      <4>2. read[<<i + 1, m>>] = live[i + 1]
        BY <3>2, <3>5, <4>1
      <4>3. QED
        BY <2>2, <3>1, <3>2, <3>5, <4>2
    <3>6. CASE ~FidRead(first, i, m)
      <4>1. <<i, m + 1>> \in Good /\ <<i, m + 1>>[1] = i /\ <<i, m + 1>>[2] = m + 1
        BY <2>3, <3>4, <3>6
      <4>2. read[<<i, m + 1>>] = live[i]
        BY <3>2, <3>6, <4>1
      <4>3. QED
        BY <2>2, <3>2, <3>6, <4>2
    <3>7. QED
      BY <3>5, <3>6
  <2>6. QED
    BY <2>4, <2>5
<1>6. \A x \in S : x \in R \/ Onward(first, n)[x] \in Good => x \in Good
  BY <1>5
<1>7. IsForest(S, R, Onward(first, n), ToGo(first, n))
  BY <1>0, ReadingAdvances
<1> HIDE DEF Good, S, R
<1>8. S \subseteq Good
  BY <1>6, <1>7, ForestInduction
<1>9. <<1, n>> \in Good /\ <<1, n>>[1] = 1 /\ <<1, n>>[2] = n
  BY <1>0, <1>1, <1>8 DEF S, Points
<1>10. Enough(first, 1, n)
  BY DEF Enough
<1>11. QED
  BY <1>2, <1>3, <1>9, <1>10 DEF Good

LEMMA Sectors ==
  ASSUME NEW len \in Nat
  PROVE  /\ SectorsOf(len) \in Nat \ {0}
         /\ SequenceLength(len) \in 1 .. MaxSequence
<1> DEFINE n == (len + SectorSize - 1) \div SectorSize
<1>1. SectorSize \in Nat \ {0} /\ len + SectorSize - 1 \in Nat /\ MaxSequence \in Nat \ {0}
  BY NumbersOf
<1>2. n \in Nat
  <2> DEFINE a == len + SectorSize - 1
  <2> HIDE DEF a
  <2>1. a \div SectorSize \in Nat
    BY <1>1, DivMod DEF a
  <2>2. QED
    BY <2>1 DEF a
<1>3. SectorsOf(len) = IF n = 0 THEN 1 ELSE n
  BY DEF SectorsOf
<1> HIDE DEF n
<1>4. SectorsOf(len) \in Nat \ {0}
  BY <1>2, <1>3
<1>5. SequenceLength(len) \in 1 .. MaxSequence
  BY <1>1 DEF SequenceLength
<1>6. QED
  BY <1>4, <1>5

(* A reference has one place.                                              *)
LEMMA AbsoluteIsOne ==
  ASSUME NEW ref, NEW a \in Absolute(ref), NEW b \in Absolute(ref)
  PROVE  a = b
BY DEF Absolute

(* A directory can be read in one way.                                     *)
LEMMA DirectoryIsOne ==
  ASSUME NEW ref, NEW f \in Directory(ref), NEW g \in Directory(ref)
  PROVE  f = g
<1>1. PICK s \in FileEntries(ref) : \E t \in DataOf(ref, s) : f = Stream(t, SectorsOf(disc[s].len))
  BY DirectoryIs
<1>2. PICK t \in DataOf(ref, s) : f = Stream(t, SectorsOf(disc[s].len))
  BY <1>1
<1>3. PICK u \in FileEntries(ref) : \E v \in DataOf(ref, u) : g = Stream(v, SectorsOf(disc[u].len))
  BY DirectoryIs
<1>4. PICK v \in DataOf(ref, u) : g = Stream(v, SectorsOf(disc[u].len))
  BY <1>3
<1>5. u = s
  BY AbsoluteIsOne DEF FileEntries
<1>6. v = t
  BY <1>5, AbsoluteIsOne DEF DataOf
<1>7. QED
  BY <1>2, <1>4, <1>5, <1>6

LEMMA DirectoryType ==
  ASSUME UdfTypeOK, NEW ref, NEW fids \in Directory(ref)
  PROVE  fids \in Seq(FidType)
<1>1. PICK s \in FileEntries(ref) : \E t \in DataOf(ref, s) : fids = Stream(t, SectorsOf(disc[s].len))
  BY DirectoryIs
<1>2. PICK t \in DataOf(ref, s) : fids = Stream(t, SectorsOf(disc[s].len))
  BY <1>1
<1>3. disc[s].len \in Nat
  BY Descriptors DEF FileEntries
<1>4. SectorsOf(disc[s].len) \in 1 .. MaxDirSectors
  BY <1>3, Sectors, NumbersOf DEF DataOf
<1>5. QED
  BY <1>2, <1>4, StreamType

(* What is read depends on the disc and the partitions alone.              *)
LEMMA SameStream ==
  ASSUME disc' = disc, NEW first, NEW n
  PROVE  Stream(first, n)' = Stream(first, n)
BY DEF Stream, Extends, Holds

LEMMA SameDirectory ==
  ASSUME disc' = disc, starts' = starts, NEW ref
  PROVE  Directory(ref)' = Directory(ref) /\ FileEntries(ref)' = FileEntries(ref)
<1>1. FileEntries(ref)' = FileEntries(ref)
  BY DEF FileEntries, Absolute, Holds
<1>2. \A s : DataOf(ref, s)' = DataOf(ref, s)
  BY DEF DataOf, Absolute
<1>3. \A t, n : Stream(t, n)' = Stream(t, n)
  BY SameStream
<1> DEFINE Read(s) == {Stream(t, SectorsOf(disc[s].len)) : t \in DataOf(ref, s)}
<1>4. ASSUME NEW s PROVE Read(s)' = Read(s)
  BY <1>2, <1>3
<1>5. Directory(ref) = UNION {Read(s) : s \in FileEntries(ref)}
  BY DEF Directory
<1>6. Directory(ref)' = UNION {Read(s)' : s \in FileEntries(ref)'}
  BY DEF Directory
<1> HIDE DEF Read
<1>7. QED
  BY <1>1, <1>4, <1>5, <1>6

LEMMA SameHeads ==
  ASSUME disc' = disc, starts' = starts
  PROVE  \A s : HeadAt(s)' = HeadAt(s) /\ (Genuine(s)' <=> Genuine(s))
<1>1. \A ref : Directory(ref)' = Directory(ref) /\ FileEntries(ref)' = FileEntries(ref)
  BY SameDirectory
<1>2. ASSUME NEW s PROVE HeadAt(s)' = HeadAt(s)
  BY <1>1 DEF HeadAt
<1>3. \A ref : IsDirectory(ref)' <=> IsDirectory(ref)
  BY <1>1 DEF IsDirectory
<1>4. ASSUME NEW s PROVE Genuine(s)' <=> Genuine(s)
  BY <1>2, <1>3 DEF Genuine
<1>5. QED
  BY <1>2, <1>4

LEMMA SameRoot ==
  ASSUME disc' = disc, starts' = starts, fsd' = fsd
  PROVE  StandardRoot' = StandardRoot
<1>1. \A ref : Directory(ref)' = Directory(ref)
  BY SameDirectory
<1>2. StandardRefs' = StandardRefs
  BY DEF StandardRefs, Absolute, Holds
<1>3. QED
  BY <1>1, <1>2 DEF StandardRoot

LEMMA SameSequences ==
  ASSUME disc' = disc
  PROVE  \A i : SequenceOf(i)' = SequenceOf(i)
BY DEF SequenceOf, Holds, SequenceLength

(* The test of a candidate (child_dirs_resolve) is the property.           *)
LEMMA GenuineResolves ==
  ASSUME UdfTypeOK, NEW s, NEW fids \in HeadAt(s)
  PROVE  Genuine(s) <=> fids # << >> /\ Resolves(fids)
<1> DEFINE children(f) == {f[i] : i \in {k \in DOMAIN f : f[k].dir}}
           Fine(f) == f # << >> /\ \A child \in children(f) : IsDirectory(child.to) /\ ~child.stub
<1>1. \A f \in HeadAt(s) : f = fids
  BY DirectoryIsOne DEF HeadAt
<1>2. Genuine(s) <=> Fine(fids)
  BY <1>1 DEF Genuine
<1>3. fids \in Seq(FidType)
  BY DirectoryType DEF HeadAt
<1>4. DOMAIN fids = 1 .. Len(fids)
  BY <1>3
<1>5. Resolves(fids) <=> \A child \in children(fids) : IsDirectory(child.to) /\ ~child.stub
  <2>1. ASSUME Resolves(fids), NEW child \in children(fids)
        PROVE  IsDirectory(child.to) /\ ~child.stub
    <3>1. PICK i \in 1 .. Len(fids) : fids[i].dir /\ child = fids[i]
      BY <1>4, <2>1
    <3>2. QED
      BY <2>1, <3>1 DEF Resolves
  <2>2. ASSUME \A child \in children(fids) : IsDirectory(child.to) /\ ~child.stub,
               NEW i \in 1 .. Len(fids), fids[i].dir
        PROVE  ~fids[i].stub /\ IsDirectory(fids[i].to)
    <3>1. fids[i] \in children(fids)
      BY <1>4, <2>2
    <3>2. QED
      BY <2>2, <3>1
  <2>3. QED
    BY <2>1, <2>2 DEF Resolves
<1>6. QED
  BY <1>2, <1>5

-----------------------------------------------------------------------------
LEMMA Counters ==
  ASSUME UdfTypeOK
  PROVE  /\ left \in Nat /\ at \in Nat /\ pds \in Nat /\ tried \in Nat /\ anchor \in Nat
         /\ Len(starts) \in Nat
<1>1. /\ MaxSequence \in Nat /\ HeadScan \in Nat /\ MaxHeads \in Nat /\ MaxSequence + HeadScan \in Nat
  BY NumbersOf
<1>2. Len(Anchors) \in Nat
  BY UdfAssumption
<1>3. QED
  BY <1>1, <1>2 DEF UdfTypeOK

-----------------------------------------------------------------------------
(* The anchors, one after the other.                                       *)
LEMMA UdfStarts == UdfInit => UdfInv
<1> SUFFICES ASSUME UdfInit PROVE UdfInv
  OBVIOUS
<1>1. /\ pc = "anchor" /\ disc \in Discs /\ anchor = 1 /\ at = 0 /\ left = 0 /\ pds = 0
      /\ starts = << >> /\ fsd = Nowhere /\ tried = 0 /\ root = << >>
  BY DEF UdfInit
<1>2. UdfTypeOK
  <2>1. 1 \in 1 .. Len(Anchors) + 1 /\ Len(Anchors) \in Nat
    BY UdfAssumption
  <2>2. Nowhere \in RefType
    BY DEF Nowhere, RefType
  <2>3. 0 \in 0 .. MaxSequence + HeadScan /\ 0 \in 0 .. MaxSequence /\ 0 \in 0 .. MaxHeads
    BY NumbersOf
  <2>4. QED
    BY <1>1, <2>1, <2>2, <2>3 DEF UdfTypeOK
<1>3. SequenceInv /\ PassedInv /\ RootInv /\ RootIsFirstThatResolves
  BY <1>1 DEF SequenceInv, PassedInv, RootInv, RootIsFirstThatResolves
<1>4. AnchorInv
  BY <1>1 DEF AnchorInv
<1>5. QED
  BY <1>2, <1>3, <1>4 DEF UdfInv

LEMMA NothingHeard ==
  ASSUME UdfTypeOK
  PROVE  /\ Heard(0) = << >>
         /\ \A tag : Tagged(Heard(0), tag) = {}
         /\ Cardinality({}) = 0 /\ Obeyed(Heard(0))
<1>1. Heard(0) = << >>
  BY DEF Heard
<1>2. \A tag : Tagged(Heard(0), tag) = {}
  BY <1>1 DEF Tagged
<1>3. QED
  BY <1>1, <1>2, FS_EmptySet DEF Obeyed

LEMMA TryKeeps == UdfInv /\ TryAnchor => UdfInv'
<1> SUFFICES ASSUME UdfInv, TryAnchor PROVE UdfInv'
  OBVIOUS
<1>1. /\ pc = "anchor" /\ anchor <= Len(Anchors)
      /\ disc' = disc /\ starts' = starts /\ fsd' = fsd /\ tried' = tried /\ root' = root
  BY DEF TryAnchor
<1>2. UdfTypeOK /\ tried = 0 /\ root = << >> /\ \A i \in 1 .. anchor - 1 : SequenceOf(i) = {}
  BY <1>1 DEF UdfInv, RootInv, AnchorInv
<1>3. \A i : SequenceOf(i)' = SequenceOf(i)
  BY <1>1, SameSequences
<1>4. anchor \in 1 .. Len(Anchors) /\ Len(Anchors) \in Nat /\ anchor \in Nat
  BY <1>1, <1>2, UdfAssumption DEF UdfTypeOK
<1> PICK s : s = Anchors[anchor]
  OBVIOUS
<1>5. CASE Holds(s, "avdp") /\ disc[s].len > 0
  <2>1. /\ pc' = "sequence" /\ at' = disc[s].vds /\ left' = SequenceLength(disc[s].len)
        /\ pds' = 0 /\ anchor' = anchor
    BY <1>5 DEF TryAnchor, CountedFrom
  <2>2. disc[s].vds \in Nat /\ disc[s].len \in Nat
    BY <1>2, <1>5, Descriptors
  <2>3. SequenceLength(disc[s].len) \in 1 .. MaxSequence
    BY <2>2, Sectors
  <2>4. UdfTypeOK'
    BY <1>1, <1>2, <2>1, <2>2, <2>3, NumbersOf DEF UdfTypeOK
  <2>5. AnchorInv'
    BY <1>2, <1>3, <2>1 DEF AnchorInv
  <2>6. PassedInv' /\ RootInv' /\ RootIsFirstThatResolves'
    BY <1>1, <1>2, <2>1 DEF PassedInv, RootInv, RootIsFirstThatResolves
  <2>7. SequenceInv'
    <3> DEFINE n == SequenceLength(disc[Anchors[anchor]].len) - left
    <3>1. n' = 0
      BY <1>1, <2>1, <2>3 DEF SequenceLength
    <3>2. Heard(0)' = Heard(0)
      BY <1>1, <2>1 DEF Heard
    <3>3. (\A tag : Tagged(Heard(0), tag) = {})'
      BY <1>2, <3>2, NothingHeard DEF Tagged
    <3>4. Obeyed(Heard(0))'
      BY <3>3 DEF Obeyed
    <3>5. Len(starts) \in Nat
      BY <1>2 DEF UdfTypeOK
    <3>6. /\ anchor' <= Len(Anchors)
          /\ Holds(s, "avdp")' /\ (disc[s].len > 0)'
          /\ (left <= SequenceLength(disc[s].len))'
          /\ (at = disc[s].vds + 0)'
      BY <1>1, <1>4, <1>5, <2>1, <2>2, <2>3 DEF Holds, SequenceLength
    <3>7. (pds = Cardinality(Tagged(Heard(0), "pd")) /\ pds <= Len(starts))'
      BY <1>1, <2>1, <3>3, <3>5, FS_EmptySet
    <3>8. (\A k \in 0 .. 0 - 1 : disc[s].vds + k \in DOMAIN disc /\ ~Holds(disc[s].vds + k, "td"))'
      OBVIOUS
    <3>9. s = Anchors[anchor]'
      BY <2>1
    <3> HIDE DEF n
    <3>10. QED
      BY <3>1, <3>4, <3>6, <3>7, <3>8, <3>9 DEF SequenceInv, n
  <2>8. QED
    BY <2>4, <2>5, <2>6, <2>7 DEF UdfInv
<1>6. CASE ~(Holds(s, "avdp") /\ disc[s].len > 0)
  <2>1. pc' = pc /\ at' = at /\ left' = left /\ pds' = pds /\ anchor' = anchor + 1
    BY <1>6 DEF TryAnchor
  <2>2. UdfTypeOK'
    BY <1>1, <1>2, <1>4, <2>1 DEF UdfTypeOK
  <2>3. SequenceOf(anchor) = {}
    BY <1>6 DEF SequenceOf
  <2>4. \A i \in 1 .. anchor' - 1 : SequenceOf(i)' = {}
    BY <1>2, <1>3, <1>4, <2>1, <2>3
  <2>5. AnchorInv'
    BY <1>1, <2>1, <2>4 DEF AnchorInv
  <2>6. PassedInv' /\ RootInv' /\ RootIsFirstThatResolves' /\ SequenceInv'
    BY <1>1, <1>2, <2>1 DEF PassedInv, RootInv, RootIsFirstThatResolves, SequenceInv
  <2>7. QED
    BY <2>2, <2>5, <2>6 DEF UdfInv
<1>7. QED
  BY <1>5, <1>6

LEMMA NoAnchorKeeps == UdfInv /\ NoAnchor => UdfInv'
<1> SUFFICES ASSUME UdfInv, NoAnchor PROVE UdfInv'
  OBVIOUS
<1>1. /\ pc = "anchor" /\ pc' = "unopened" /\ anchor > Len(Anchors)
      /\ UNCHANGED <<disc, anchor, at, left, pds, starts, fsd, tried, root>>
  BY DEF NoAnchor
<1>2. UdfTypeOK /\ tried = 0 /\ root = << >> /\ \A i \in 1 .. anchor - 1 : SequenceOf(i) = {}
  BY <1>1 DEF UdfInv, RootInv, AnchorInv
<1>3. \A i : SequenceOf(i)' = SequenceOf(i)
  BY <1>1, SameSequences
<1>4. anchor = Len(Anchors) + 1
  BY <1>1, <1>2, UdfAssumption DEF UdfTypeOK
<1>5. UdfTypeOK'
  BY <1>1, <1>2 DEF UdfTypeOK, Outcomes
<1>6. AnchorInv'
  BY <1>1, <1>2, <1>3, <1>4 DEF AnchorInv
<1>7. PassedInv' /\ RootInv' /\ RootIsFirstThatResolves' /\ SequenceInv'
  BY <1>1 DEF PassedInv, RootInv, RootIsFirstThatResolves, SequenceInv
<1>8. QED
  BY <1>5, <1>6, <1>7 DEF UdfInv

(* A sequence that has no end in the place of its first n descriptors and  *)
(* stops there, or is not to be read further, is not complete.             *)
LEMMA GivenUpIsIncomplete ==
  ASSUME UdfTypeOK, SequenceInv, GiveUpSequence
  PROVE  SequenceOf(anchor) = {}
<1> SUFFICES ASSUME SequenceOf(anchor) # {} PROVE FALSE
  OBVIOUS
<1> PICK s : s = Anchors[anchor]
  OBVIOUS
<1> PICK l : l = SequenceLength(disc[s].len)
  OBVIOUS
<1> PICK n : n = l - left
  OBVIOUS
<1>1. pc = "sequence" /\ (left = 0 \/ at \notin DOMAIN disc)
  BY DEF GiveUpSequence
<1>2. /\ Holds(s, "avdp") /\ left <= l /\ at = disc[s].vds + n
      /\ \A k \in 0 .. n - 1 : ~Holds(disc[s].vds + k, "td")
  BY <1>1 DEF SequenceInv
<1>3. disc[s].len \in Nat
  BY <1>2, Descriptors
<1>4. l \in Nat /\ left \in Nat /\ n \in Nat
  <2>1. l \in 1 .. MaxSequence /\ MaxSequence \in Nat
    BY <1>3, Sectors, NumbersOf
  <2>2. left \in Nat
    BY Counters
  <2>3. QED
    BY <1>2, <2>1, <2>2
<1>5. PICK m \in 0 .. l - 1 :
        /\ \A k \in 0 .. m : disc[s].vds + k \in DOMAIN disc
        /\ \A k \in 0 .. m : Holds(disc[s].vds + k, "td") <=> k = m
  BY DEF SequenceOf
<1>6. Holds(disc[s].vds + m, "td")
  BY <1>4, <1>5
<1>7. m >= n
  BY <1>2, <1>4, <1>6
<1>8. left # 0
  BY <1>4, <1>5, <1>7
<1>9. at \in DOMAIN disc
  BY <1>2, <1>4, <1>5, <1>7
<1>10. QED
  BY <1>1, <1>8, <1>9

LEMMA GiveUpKeeps == UdfInv /\ GiveUpSequence => UdfInv'
<1> SUFFICES ASSUME UdfInv, GiveUpSequence PROVE UdfInv'
  OBVIOUS
<1>1. /\ pc = "sequence" /\ pc' = "anchor" /\ anchor' = anchor + 1
      /\ UNCHANGED <<disc, at, left, pds, starts, fsd, tried, root>>
  BY DEF GiveUpSequence
<1>2. /\ UdfTypeOK /\ SequenceInv /\ tried = 0 /\ root = << >> /\ anchor <= Len(Anchors)
      /\ \A i \in 1 .. anchor - 1 : SequenceOf(i) = {}
  BY <1>1 DEF UdfInv, RootInv, AnchorInv, SequenceInv
<1>3. \A i : SequenceOf(i)' = SequenceOf(i)
  BY <1>1, SameSequences
<1>4. anchor \in 1 .. Len(Anchors) /\ Len(Anchors) \in Nat
  BY <1>2, UdfAssumption DEF UdfTypeOK
<1>5. SequenceOf(anchor) = {}
  BY <1>2, GivenUpIsIncomplete
<1>6. UdfTypeOK'
  BY <1>1, <1>2, <1>4 DEF UdfTypeOK
<1>7. \A i \in 1 .. anchor' - 1 : SequenceOf(i)' = {}
  BY <1>1, <1>2, <1>3, <1>4, <1>5
<1>8. AnchorInv'
  BY <1>1, <1>7 DEF AnchorInv
<1>9. PassedInv' /\ RootInv' /\ RootIsFirstThatResolves' /\ SequenceInv'
  BY <1>1, <1>2 DEF PassedInv, RootInv, RootIsFirstThatResolves, SequenceInv
<1>10. QED
  BY <1>6, <1>8, <1>9 DEF UdfInv

LEMMA EndKeeps == UdfInv /\ EndOfSequence => UdfInv'
<1> SUFFICES ASSUME UdfInv, EndOfSequence PROVE UdfInv'
  OBVIOUS
<1> PICK s : s = Anchors[anchor]
  OBVIOUS
<1> PICK l : l = SequenceLength(disc[s].len)
  OBVIOUS
<1> PICK n : n = l - left
  OBVIOUS
<1>1. /\ pc = "sequence" /\ pc' = "root" /\ left > 0 /\ Holds(at, "td")
      /\ UNCHANGED <<disc, anchor, at, left, pds, starts, fsd, tried, root>>
  BY DEF EndOfSequence
<1>2. /\ UdfTypeOK /\ tried = 0 /\ root = << >>
      /\ \A i \in 1 .. anchor - 1 : SequenceOf(i) = {}
  BY <1>1 DEF UdfInv, RootInv, AnchorInv
<1>3. /\ Holds(s, "avdp") /\ disc[s].len > 0 /\ left <= l /\ at = disc[s].vds + n
      /\ \A k \in 0 .. n - 1 : disc[s].vds + k \in DOMAIN disc /\ ~Holds(disc[s].vds + k, "td")
      /\ Obeyed(Heard(n))
  BY <1>1 DEF UdfInv, SequenceInv
<1>4. l \in Nat /\ left \in Nat /\ n \in 0 .. l - 1
  <2>1. disc[s].len \in Nat
    BY <1>2, <1>3, Descriptors
  <2>2. l \in 1 .. MaxSequence /\ MaxSequence \in Nat
    BY <2>1, Sectors, NumbersOf
  <2>3. left \in Nat
    BY <1>2, Counters
  <2>4. QED
    BY <1>1, <1>3, <2>2, <2>3
<1>5. /\ \A k \in 0 .. n : disc[s].vds + k \in DOMAIN disc
      /\ \A k \in 0 .. n : Holds(disc[s].vds + k, "td") <=> k = n
  <2>1. \A k \in 0 .. n : k = n \/ k \in 0 .. n - 1
    BY <1>4
  <2>2. at \in DOMAIN disc
    BY <1>1 DEF Holds
  <2>3. ~(n \in 0 .. n - 1)
    BY <1>4
  <2>4. QED
    BY <1>1, <1>3, <2>1, <2>2, <2>3
<1>6. Heard(n) \in SequenceOf(anchor)
  BY <1>3, <1>4, <1>5 DEF SequenceOf, Heard
<1>7. \E sequence \in SequenceOf(anchor) : Obeyed(sequence)
  BY <1>3, <1>6
<1>8. UdfTypeOK'
  BY <1>1, <1>2 DEF UdfTypeOK
<1>9. \A i : SequenceOf(i)' = SequenceOf(i)
  BY <1>1, SameSequences
<1>10. \A sequence : Obeyed(sequence)' <=> Obeyed(sequence)
  BY <1>1 DEF Obeyed, Tagged
<1>11. AnchorInv'
  <2>1. SequenceOf(anchor)' = SequenceOf(anchor)
    BY <1>1 DEF SequenceOf, Holds, SequenceLength
  <2>2. (\E sequence \in SequenceOf(anchor) : Obeyed(sequence))'
    BY <1>7, <1>10, <2>1
  <2>3. \A i \in 1 .. anchor' - 1 : SequenceOf(i)' = {}
    BY <1>1, <1>2, <1>9
  <2>4. QED
    BY <1>1, <2>2, <2>3 DEF AnchorInv
<1>12. PassedInv' /\ RootInv' /\ RootIsFirstThatResolves' /\ SequenceInv'
  BY <1>1, <1>2 DEF PassedInv, RootInv, RootIsFirstThatResolves, SequenceInv
<1>13. QED
  BY <1>8, <1>11, <1>12 DEF UdfInv

-----------------------------------------------------------------------------
(* g is h and one descriptor more.                                         *)
Longer(g, h, n) ==
  /\ n \in Nat
  /\ DOMAIN h = 1 .. n /\ DOMAIN g = 1 .. n + 1
  /\ \A k \in 1 .. n : g[k] = h[k]

(* The descriptors with a tag, and the partition descriptors counted.      *)
LEMMA TagsGrow ==
  ASSUME NEW g, NEW h, NEW n, Longer(g, h, n), NEW tag
  PROVE  /\ Tagged(h, tag) \subseteq 1 .. n
         /\ g[n + 1].tag = tag => Tagged(g, tag) = Tagged(h, tag) \cup {n + 1}
         /\ g[n + 1].tag # tag => Tagged(g, tag) = Tagged(h, tag)
<1>1. \A k : k \in 1 .. n + 1 <=> k \in 1 .. n \/ k = n + 1
  BY DEF Longer
<1>2. \A k : k \in Tagged(g, tag) <=> k \in 1 .. n + 1 /\ g[k].tag = tag
  BY DEF Tagged, Longer
<1>3. \A k : k \in Tagged(h, tag) <=> k \in 1 .. n /\ h[k].tag = tag
  BY DEF Tagged, Longer
<1>4. \A k \in 1 .. n : g[k] = h[k]
  BY DEF Longer
<1>5. QED
  BY <1>1, <1>2, <1>3, <1>4

LEMMA PartsGrow ==
  ASSUME NEW g, NEW h, NEW n, Longer(g, h, n)
  PROVE  /\ Cardinality(Tagged(h, "pd")) \in Nat
         /\ Cardinality(Tagged(g, "pd")) \in 0 .. n + 1
         /\ g[n + 1].tag = "pd" => Cardinality(Tagged(g, "pd")) = Cardinality(Tagged(h, "pd")) + 1
         /\ {j \in Tagged(g, "pd") : j <= n + 1} = Tagged(g, "pd")
         /\ \A k \in Tagged(h, "pd") :
              /\ {j \in Tagged(g, "pd") : j <= k} = {j \in Tagged(h, "pd") : j <= k}
              /\ Cardinality({j \in Tagged(h, "pd") : j <= k}) \in 1 .. Cardinality(Tagged(h, "pd"))
<1> PICK p : p = Tagged(h, "pd")
  OBVIOUS
<1> PICK q : q = Tagged(g, "pd")
  OBVIOUS
<1>1. n \in Nat
  BY DEF Longer
<1>2. /\ p \subseteq 1 .. n
      /\ q = p \/ q = p \cup {n + 1}
      /\ g[n + 1].tag = "pd" => q = p \cup {n + 1}
  BY TagsGrow
<1>3. IsFiniteSet(1 .. n) /\ Cardinality(1 .. n) = n
  BY <1>1, FS_Interval
<1>4. IsFiniteSet(p) /\ Cardinality(p) \in Nat /\ Cardinality(p) <= n
  BY <1>2, <1>3, FS_Subset, FS_CardinalityType
<1>5. Cardinality(p \cup {n + 1}) = Cardinality(p) + 1
  <2>1. n + 1 \notin p
    BY <1>1, <1>2
  <2>2. QED
    BY <1>4, <2>1, FS_AddElement
<1>6. Cardinality(q) \in 0 .. n + 1
  BY <1>1, <1>2, <1>4, <1>5
<1>7. {j \in q : j <= n + 1} = q
  BY <1>1, <1>2
<1>8. ASSUME NEW k \in p
      PROVE  /\ {j \in q : j <= k} = {j \in p : j <= k}
             /\ Cardinality({j \in p : j <= k}) \in 1 .. Cardinality(p)
  <2> PICK c : c = {j \in p : j <= k}
    OBVIOUS
  <2>1. k \in 1 .. n
    BY <1>2
  <2>2. k \in c /\ c \subseteq p
    BY <2>1
  <2>3. IsFiniteSet(c) /\ Cardinality(c) \in Nat /\ Cardinality(c) <= Cardinality(p)
    BY <1>4, <2>2, FS_Subset, FS_CardinalityType
  <2>4. Cardinality(c) # 0
    BY <2>2, <2>3, FS_EmptySet
  <2>5. {j \in q : j <= k} = c
    BY <1>1, <1>2, <2>1
  <2>6. QED
    BY <1>4, <2>3, <2>4, <2>5
<1>9. QED
  BY <1>2, <1>4, <1>5, <1>6, <1>7, <1>8

LEMMA HeardMore ==
  ASSUME NEW n \in Nat
  PROVE  /\ Longer(Heard(n + 1), Heard(n), n)
         /\ Heard(n + 1)[n + 1] = disc[disc[Anchors[anchor]].vds + n]
         /\ Heard(n + 1) = [k \in 1 .. n + 1 |-> disc[disc[Anchors[anchor]].vds + k - 1]]
<1> PICK v : v = disc[Anchors[anchor]].vds
  OBVIOUS
<1>1. /\ Heard(n) = [k \in 1 .. n |-> disc[v + k - 1]]
      /\ Heard(n + 1) = [k \in 1 .. n + 1 |-> disc[v + k - 1]]
  BY DEF Heard
<1>2. Longer(Heard(n + 1), Heard(n), n)
  BY <1>1 DEF Longer
<1>3. n + 1 \in 1 .. n + 1
  OBVIOUS
<1>4. Heard(n + 1)[n + 1] = disc[v + (n + 1) - 1]
  BY <1>1, <1>3
<1>5. QED
  BY <1>1, <1>2, <1>4

(* parse_pd leaves the partitions before alone.                            *)
LEMMA RecordedIs ==
  ASSUME UdfTypeOK, pds <= Len(starts), NEW start \in Nat
  PROVE  /\ Recorded(start) \in Seq(Nat)
         /\ pds + 1 <= Len(Recorded(start))
         /\ Recorded(start)[pds + 1] = start
         /\ \A i \in 1 .. pds : Recorded(start)[i] = starts[i]
<1> DEFINE m == IF pds < Len(starts) THEN Len(starts) ELSE pds + 1
<1>1. starts \in Seq(Nat) /\ pds \in Nat /\ Len(starts) \in Nat
  BY Counters DEF UdfTypeOK
<1>2. m \in Nat /\ pds + 1 <= m /\ \A i \in 1 .. m : i # pds + 1 => i \in 1 .. Len(starts)
  BY <1>1
<1>3. Recorded(start) = [i \in 1 .. m |-> IF i = pds + 1 THEN start ELSE starts[i]]
  BY DEF Recorded
<1> HIDE DEF m
<1>4. \A i \in 1 .. Len(starts) : starts[i] \in Nat
  BY <1>1
<1>5. Recorded(start) \in [1 .. m -> Nat]
  BY <1>2, <1>3, <1>4
<1>6. Recorded(start) \in Seq(Nat) /\ Len(Recorded(start)) = m
  BY <1>2, <1>5
<1>7. pds + 1 \in 1 .. m /\ \A i \in 1 .. pds : i \in 1 .. m /\ i # pds + 1
  BY <1>1, <1>2
<1>8. QED
  BY <1>2, <1>3, <1>6, <1>7

(* A descriptor of the sequence: what it says holds from now on.           *)
LEMMA DescriptorKeeps == UdfInv /\ ReadDescriptor => UdfInv'
<1> SUFFICES ASSUME UdfInv, ReadDescriptor PROVE UdfInv'
  OBVIOUS
<1> PICK s : s = Anchors[anchor]
  OBVIOUS
<1> PICK l : l = SequenceLength(disc[s].len)
  OBVIOUS
<1> PICK n : n = l - left
  OBVIOUS
<1> PICK h : h = Heard(n)
  OBVIOUS
<1> PICK g : g = Heard(n + 1)
  OBVIOUS
<1>1. /\ pc = "sequence" /\ left > 0 /\ at \in DOMAIN disc /\ ~Holds(at, "td")
      /\ at' = at + 1 /\ left' = left - 1
      /\ Holds(at, "pd") => starts' = Recorded(disc[at].start) /\ pds' = pds + 1
      /\ ~Holds(at, "pd") => starts' = starts /\ pds' = pds
      /\ Holds(at, "lvd") => fsd' = disc[at].fsd
      /\ ~Holds(at, "lvd") => fsd' = fsd
      /\ pc' = pc /\ disc' = disc /\ anchor' = anchor /\ tried' = tried /\ root' = root
  BY DEF ReadDescriptor
<1>2. /\ UdfTypeOK /\ tried = 0 /\ root = << >>
      /\ \A i \in 1 .. anchor - 1 : SequenceOf(i) = {}
  BY <1>1 DEF UdfInv, RootInv, AnchorInv
<1>3. /\ anchor <= Len(Anchors) /\ Holds(s, "avdp") /\ disc[s].len > 0 /\ left <= l
      /\ at = disc[s].vds + n
      /\ \A k \in 0 .. n - 1 : disc[s].vds + k \in DOMAIN disc /\ ~Holds(disc[s].vds + k, "td")
      /\ pds = Cardinality(Tagged(h, "pd")) /\ pds <= Len(starts)
      /\ Obeyed(h)
  BY <1>1 DEF UdfInv, SequenceInv
<1>4. /\ disc[s].vds \in Nat /\ disc[s].len \in Nat
      /\ l \in 1 .. MaxSequence /\ MaxSequence \in Nat /\ HeadScan \in Nat
      /\ left \in Nat /\ at \in Nat /\ pds \in Nat /\ n \in 0 .. l - 1
  <2>1. disc[s].vds \in Nat /\ disc[s].len \in Nat
    BY <1>2, <1>3, Descriptors
  <2>2. l \in 1 .. MaxSequence /\ MaxSequence \in Nat /\ HeadScan \in Nat
    BY <2>1, Sectors, NumbersOf
  <2>3. left \in Nat /\ at \in Nat /\ pds \in Nat
    BY <1>2, Counters
  <2>4. left > 0 /\ left <= l
    BY <1>1, <1>3
  <2>5. n \in 0 .. l - 1
    BY <2>2, <2>3, <2>4
  <2>6. QED
    BY <2>1, <2>2, <2>3, <2>5
<1>5. Longer(g, h, n) /\ g[n + 1] = disc[at]
  <2>1. n \in Nat
    BY <1>4
  <2>2. QED
    BY <1>3, <2>1, HeardMore
<1>6. /\ Holds(at, "pd") <=> g[n + 1].tag = "pd"
      /\ Holds(at, "lvd") <=> g[n + 1].tag = "lvd"
  BY <1>1, <1>5 DEF Holds
<1>7. /\ Cardinality(Tagged(g, "pd")) \in 0 .. n + 1
      /\ g[n + 1].tag = "pd" => Cardinality(Tagged(g, "pd")) = pds + 1
      /\ {j \in Tagged(g, "pd") : j <= n + 1} = Tagged(g, "pd")
      /\ \A k \in Tagged(h, "pd") :
           /\ {j \in Tagged(g, "pd") : j <= k} = {j \in Tagged(h, "pd") : j <= k}
           /\ Cardinality({j \in Tagged(h, "pd") : j <= k}) \in 1 .. pds
  BY <1>3, <1>5, PartsGrow
<1>8. /\ Tagged(h, "pd") \subseteq 1 .. n /\ Tagged(h, "lvd") \subseteq 1 .. n
      /\ g[n + 1].tag = "pd" => Tagged(g, "pd") = Tagged(h, "pd") \cup {n + 1}
      /\ g[n + 1].tag # "pd" => Tagged(g, "pd") = Tagged(h, "pd")
      /\ g[n + 1].tag = "lvd" => Tagged(g, "lvd") = Tagged(h, "lvd") \cup {n + 1}
      /\ g[n + 1].tag # "lvd" => Tagged(g, "lvd") = Tagged(h, "lvd")
  <2>1. \A tag : /\ Tagged(h, tag) \subseteq 1 .. n
                 /\ g[n + 1].tag = tag => Tagged(g, tag) = Tagged(h, tag) \cup {n + 1}
                 /\ g[n + 1].tag # tag => Tagged(g, tag) = Tagged(h, tag)
    BY <1>5, TagsGrow
  <2>2. QED
    BY <2>1
<1>9. /\ starts' \in Seq(Nat) /\ pds' = Cardinality(Tagged(g, "pd")) /\ pds' <= Len(starts')
      /\ \A i \in 1 .. pds : starts'[i] = starts[i]
      /\ Holds(at, "pd") => starts'[pds + 1] = disc[at].start
  <2>1. CASE Holds(at, "pd")
    <3>1. disc[at].start \in Nat
      BY <1>2, <2>1, Descriptors
    <3>2. /\ Recorded(disc[at].start) \in Seq(Nat)
          /\ pds + 1 <= Len(Recorded(disc[at].start))
          /\ Recorded(disc[at].start)[pds + 1] = disc[at].start
          /\ \A i \in 1 .. pds : Recorded(disc[at].start)[i] = starts[i]
      BY <1>2, <1>3, <3>1, RecordedIs
    <3>3. starts' = Recorded(disc[at].start) /\ pds' = pds + 1
      BY <1>1, <2>1
    <3>4. QED
      BY <1>6, <1>7, <2>1, <3>2, <3>3
  <2>2. CASE ~Holds(at, "pd")
    <3>1. starts' = starts /\ pds' = pds
      BY <1>1, <2>2
    <3>2. Tagged(g, "pd") = Tagged(h, "pd")
      BY <1>6, <1>8, <2>2
    <3>3. QED
      BY <1>2, <1>3, <2>2, <3>1, <3>2 DEF UdfTypeOK
  <2>3. QED
    BY <2>1, <2>2
<1>10. \A k \in Tagged(g, "pd") :
         starts'[Cardinality({j \in Tagged(g, "pd") : j <= k})] = g[k].start
  <2> TAKE k \in Tagged(g, "pd")
  <2>1. CASE k \in Tagged(h, "pd")
    <3> PICK c : c = Cardinality({j \in Tagged(h, "pd") : j <= k})
      OBVIOUS
    <3>1. starts[c] = h[k].start
      BY <1>3, <2>1 DEF Obeyed
    <3>2. c \in 1 .. pds /\ Cardinality({j \in Tagged(g, "pd") : j <= k}) = c
      BY <1>7, <2>1
    <3>3. g[k] = h[k]
      BY <1>5, <1>8, <2>1 DEF Longer
    <3>4. QED
      BY <1>9, <3>1, <3>2, <3>3
  <2>2. CASE k \notin Tagged(h, "pd")
    <3>1. g[n + 1].tag = "pd" /\ k = n + 1
      BY <1>8, <2>2
    <3>2. Cardinality({j \in Tagged(g, "pd") : j <= k}) = pds + 1
      BY <1>7, <3>1
    <3>3. QED
      BY <1>5, <1>6, <1>9, <3>1, <3>2
  <2>3. QED
    BY <2>1, <2>2
<1>11. \A k \in Tagged(g, "lvd") : (\A j \in Tagged(g, "lvd") : j <= k) => fsd' = g[k].fsd
  <2> SUFFICES ASSUME NEW k \in Tagged(g, "lvd"), \A j \in Tagged(g, "lvd") : j <= k
               PROVE  fsd' = g[k].fsd
    OBVIOUS
  <2>1. CASE Holds(at, "lvd")
    <3>1. n + 1 \in Tagged(g, "lvd") /\ (k \in 1 .. n \/ k = n + 1)
      BY <1>6, <1>8, <2>1
    <3>2. k = n + 1
      BY <1>4, <3>1
    <3>3. QED
      BY <1>1, <1>5, <2>1, <3>2
  <2>2. CASE ~Holds(at, "lvd")
    <3>1. Tagged(g, "lvd") = Tagged(h, "lvd")
      BY <1>6, <1>8, <2>2
    <3>2. fsd = h[k].fsd
      BY <1>3, <3>1 DEF Obeyed
    <3>3. g[k] = h[k]
      BY <1>5, <1>8, <3>1 DEF Longer
    <3>4. QED
      BY <1>1, <2>2, <3>2, <3>3
  <2>3. QED
    BY <2>1, <2>2
<1>12. Obeyed(g)'
  BY <1>10, <1>11 DEF Obeyed, Tagged
<1>13. fsd' \in RefType
  <2>1. Holds(at, "lvd") => disc[at].fsd \in RefType
    BY <1>2, Descriptors
  <2>2. QED
    BY <1>1, <1>2, <2>1 DEF UdfTypeOK
<1>14. pds' \in 0 .. MaxSequence
  BY <1>4, <1>7, <1>9
<1>15. left' \in 0 .. MaxSequence + HeadScan /\ at' \in Nat
  <2>1. left \in 0 .. MaxSequence + HeadScan
    BY <1>2 DEF UdfTypeOK
  <2>2. QED
    BY <1>1, <1>4, <2>1
<1>16. UdfTypeOK'
  BY <1>1, <1>2, <1>9, <1>13, <1>14, <1>15 DEF UdfTypeOK
<1>17. SequenceInv'
  <2> DEFINE m == SequenceLength(disc[Anchors[anchor]].len) - left
  <2>1. Heard(n + 1)' = g
    BY <1>1 DEF Heard
  <2>2. SequenceLength(disc[s].len)' = l
    BY <1>1 DEF SequenceLength
  <2>3. m' = n + 1
    <3>1. m' = l - left'
      BY <1>1, <2>2
    <3>2. QED
      BY <1>1, <1>4, <3>1
  <2>4. (pds = Cardinality(Tagged(Heard(n + 1), "pd")) /\ pds <= Len(starts))'
    BY <1>9, <2>1 DEF Tagged
  <2>5. Obeyed(Heard(n + 1))'
    BY <1>12, <2>1 DEF Obeyed, Tagged
  <2>6. \A x, tag : Holds(x, tag)' <=> Holds(x, tag)
    BY <1>1 DEF Holds
  <2>7. \A k \in 0 .. (n + 1) - 1 : disc[s].vds + k \in DOMAIN disc /\ ~Holds(disc[s].vds + k, "td")
    <3>1. \A k \in 0 .. (n + 1) - 1 : k = n \/ k \in 0 .. n - 1
      BY <1>4
    <3>2. at \in DOMAIN disc /\ ~Holds(at, "td") /\ at = disc[s].vds + n
      BY <1>1, <1>3
    <3>3. QED
      BY <1>3, <3>1, <3>2
  <2>8. (\A k \in 0 .. (n + 1) - 1 : disc[s].vds + k \in DOMAIN disc /\ ~Holds(disc[s].vds + k, "td"))'
    BY <1>1, <2>6, <2>7
  <2>9. at' = disc[s].vds + (n + 1) /\ left' <= l
    <3>1. at' = at + 1 /\ at = disc[s].vds + n /\ left' = left - 1 /\ left <= l
      BY <1>1, <1>3
    <3>2. QED
      BY <1>4, <3>1
  <2>10. /\ anchor' <= Len(Anchors) /\ Holds(s, "avdp")' /\ (disc[s].len > 0)'
         /\ (left <= SequenceLength(disc[s].len))' /\ (at = disc[s].vds + (n + 1))'
    BY <1>1, <1>3, <2>2, <2>6, <2>9
  <2>11. s = Anchors[anchor]'
    BY <1>1
  <2> HIDE DEF m
  <2>12. QED
    BY <2>3, <2>4, <2>5, <2>8, <2>10, <2>11 DEF SequenceInv, m
<1>18. AnchorInv'
  <2>1. \A i : SequenceOf(i)' = SequenceOf(i)
    BY <1>1, SameSequences
  <2>2. QED
    BY <1>1, <1>2, <2>1 DEF AnchorInv
<1>19. PassedInv' /\ RootInv' /\ RootIsFirstThatResolves'
  BY <1>1, <1>2 DEF PassedInv, RootInv, RootIsFirstThatResolves
<1>20. QED
  BY <1>16, <1>17, <1>18, <1>19 DEF UdfInv

-----------------------------------------------------------------------------
(* The root that the pointers name, and the search when they name none.    *)
LEMMA RootKeeps == UdfInv /\ ReadRoot => UdfInv'
<1> SUFFICES ASSUME UdfInv, ReadRoot PROVE UdfInv'
  OBVIOUS
<1>1. /\ pc = "root"
      /\ \/ root' \in StandardRoot /\ pc' = "mounted"
         \/ root' = root /\ pc' = "head"
      /\ disc' = disc /\ anchor' = anchor /\ at' = at /\ left' = left /\ pds' = pds
      /\ starts' = starts /\ fsd' = fsd /\ tried' = tried
  BY DEF ReadRoot
<1>2. UdfTypeOK /\ tried = 0 /\ root = << >>
  BY <1>1 DEF UdfInv, RootInv
<1>3. \A fids \in StandardRoot : fids \in Seq(FidType)
  BY <1>2, DirectoryType DEF StandardRoot
<1>4. root' \in Seq(FidType)
  BY <1>1, <1>2, <1>3 DEF UdfTypeOK
<1>5. UdfTypeOK'
  BY <1>1, <1>2, <1>4 DEF UdfTypeOK, Outcomes
<1>6. StandardRoot' = StandardRoot
  BY <1>1, SameRoot
<1>7. RootInv'
  BY <1>1, <1>2, <1>6 DEF RootInv
<1>8. SequenceInv' /\ AnchorInv' /\ PassedInv' /\ RootIsFirstThatResolves'
  BY <1>1 DEF SequenceInv, AnchorInv, PassedInv, RootIsFirstThatResolves
<1>9. QED
  BY <1>5, <1>7, <1>8 DEF UdfInv

LEMMA FileSetKeeps == UdfInv /\ FindFileSet => UdfInv'
<1> SUFFICES ASSUME UdfInv, FindFileSet PROVE UdfInv'
  OBVIOUS
<1>1. /\ pc = "head"
      /\ disc' = disc /\ anchor' = anchor /\ pds' = pds /\ fsd' = fsd /\ tried' = tried /\ root' = root
  BY DEF FindFileSet
<1>2. UdfTypeOK /\ tried = 0 /\ root = << >>
  BY <1>1 DEF UdfInv, RootInv
<1>3. CASE pc' = "rootless" /\ at' = at /\ left' = left /\ starts' = starts
  <2>1. UdfTypeOK'
    BY <1>1, <1>2, <1>3 DEF UdfTypeOK, Outcomes
  <2>2. SequenceInv' /\ AnchorInv' /\ PassedInv' /\ RootInv' /\ RootIsFirstThatResolves'
    BY <1>3 DEF SequenceInv, AnchorInv, PassedInv, RootInv, RootIsFirstThatResolves
  <2>3. QED
    BY <2>1, <2>2 DEF UdfInv
<1>4. ASSUME NEW s \in FileSets, starts' = Rebased(s), pc' = "heads", at' = s + 1, left' = HeadScan - 1
      PROVE  UdfInv'
  <2>1. s \in Nat /\ HeadScan \in Nat \ {0} /\ MaxHeads \in Nat \ {0} /\ MaxSequence \in Nat
    <3>1. Anchors[1] \in Nat /\ HeadScan \in Nat \ {0} /\ MaxHeads \in Nat \ {0} /\ MaxSequence \in Nat
      BY UdfAssumption
    <3>2. s \in Anchors[1] + 1 .. Anchors[1] + HeadScan - 1
      BY <1>4 DEF FileSets
    <3>3. QED
      BY <3>1, <3>2
  <2>2. starts' \in Seq(Nat) /\ starts' # << >> /\ starts'[1] = s
    <3>1. starts \in Seq(Nat)
      BY <1>2 DEF UdfTypeOK
    <3>2. CASE starts = << >>
      <4>1. starts' = <<s>>
        BY <1>4, <3>2 DEF Rebased
      <4>2. QED
        BY <2>1, <4>1
    <3>3. CASE starts # << >>
      <4>1. starts' = [starts EXCEPT ![1] = s]
        BY <1>4, <3>3 DEF Rebased
      <4>2. 1 \in DOMAIN starts
        BY <3>1, <3>3
      <4>3. QED
        BY <2>1, <3>1, <3>3, <4>1, <4>2
    <3>4. QED
      BY <3>2, <3>3
  <2>3. UdfTypeOK'
    <3>1. at' \in Nat /\ left' \in 0 .. MaxSequence + HeadScan
      BY <1>4, <2>1
    <3>2. QED
      BY <1>1, <1>2, <1>4, <2>2, <3>1 DEF UdfTypeOK
  <2>4. Passed' = {}
    <3>1. Passed' \subseteq s + 1 .. (s + 1) - 1
      BY <1>4, <2>2 DEF Passed
    <3>2. QED
      BY <2>1, <3>1
  <2>5. PassedInv'
    <3>1. /\ s < s + 1 /\ s + 1 <= s + HeadScan
          /\ HeadScan - 1 = 0 => s + 1 = s + HeadScan
          /\ HeadScan - 1 > 0 => s + 1 + (HeadScan - 1) = s + HeadScan /\ 0 < MaxHeads
      BY <2>1
    <3>2. Cardinality({}) = 0
      BY FS_EmptySet
    <3>3. tried' = 0 /\ root' = << >>
      BY <1>1, <1>2
    <3>4. QED
      BY <1>4, <2>2, <2>4, <3>1, <3>2, <3>3 DEF PassedInv
  <2>6. SequenceInv' /\ AnchorInv' /\ RootInv' /\ RootIsFirstThatResolves'
    BY <1>4 DEF SequenceInv, AnchorInv, RootInv, RootIsFirstThatResolves
  <2>7. QED
    BY <2>3, <2>5, <2>6 DEF UdfInv
<1>5. QED
  BY <1>3, <1>4 DEF FindFileSet

-----------------------------------------------------------------------------
(* The readable directories behind the file set descriptor.                *)
All == {s \in starts[1] + 1 .. starts[1] + HeadScan - 1 : HeadAt(s) # {}}

LEMMA AllHeads ==
  ASSUME UdfTypeOK, starts # << >>
  PROVE  /\ starts[1] \in Nat
         /\ IsFiniteSet(All)
         /\ Heads = {s \in All : Cardinality({t \in All : t < s}) < MaxHeads}
<1>1. starts[1] \in Nat /\ HeadScan \in Nat
  BY NumbersOf DEF UdfTypeOK
<1>2. IsFiniteSet(starts[1] + 1 .. starts[1] + HeadScan - 1)
  BY <1>1, FS_Interval
<1>3. IsFiniteSet(All)
  BY <1>2, FS_Subset DEF All
<1>4. QED
  BY <1>1, <1>3 DEF All, Heads

(* Those that were passed are the ones before the sector at hand.          *)
LEMMA PassedHeads ==
  ASSUME UdfInv, pc = "heads"
  PROVE  /\ Passed = {t \in All : t < at}
         /\ IsFiniteSet(Passed) /\ Cardinality(Passed) = tried
         /\ \A t \in All : t \in Nat
<1>1. UdfTypeOK /\ starts # << >> /\ starts[1] < at /\ at <= starts[1] + HeadScan /\ tried = Cardinality(Passed)
  BY DEF UdfInv, PassedInv
<1>2. starts[1] \in Nat /\ IsFiniteSet(All) /\ at \in Nat /\ HeadScan \in Nat
  BY <1>1, AllHeads, Counters, NumbersOf
<1>3. Passed = {t \in All : t < at}
  BY <1>1, <1>2 DEF Passed, All
<1>4. IsFiniteSet(Passed)
  BY <1>2, <1>3, FS_Subset
<1>5. \A t \in All : t \in Nat
  BY <1>2 DEF All
<1>6. QED
  BY <1>1, <1>3, <1>4, <1>5

LEMMA SkipKeeps == UdfInv /\ SkipHead => UdfInv'
<1> SUFFICES ASSUME UdfInv, SkipHead PROVE UdfInv'
  OBVIOUS
<1>1. /\ pc = "heads" /\ left > 0 /\ HeadAt(at) = {}
      /\ at' = at + 1 /\ left' = left - (at' - at)
      /\ pc' = pc /\ disc' = disc /\ anchor' = anchor /\ pds' = pds /\ starts' = starts
      /\ fsd' = fsd /\ tried' = tried /\ root' = root
  BY DEF SkipHead, NextHead
<1>2. /\ UdfTypeOK /\ starts # << >> /\ starts[1] < at
      /\ tried = Cardinality(Passed)
      /\ at + left = starts[1] + HeadScan /\ tried < MaxHeads
      /\ \A s \in Passed : ~Genuine(s) /\ \A fids \in HeadAt(s) : Len(fids) <= Len(root)
      /\ root # << >> => \E s \in Passed : root \in HeadAt(s)
  BY <1>1 DEF UdfInv, PassedInv
<1>3. starts[1] \in Nat /\ at \in Nat /\ left \in Nat /\ HeadScan \in Nat /\ MaxSequence \in Nat
  BY <1>2, AllHeads, Counters, NumbersOf
<1>4. left' = left - 1 /\ left - 1 \in Nat /\ at + 1 \in Nat
  BY <1>1, <1>3
<1>5. UdfTypeOK'
  <2>1. left \in 0 .. MaxSequence + HeadScan
    BY <1>2 DEF UdfTypeOK
  <2>2. left' \in 0 .. MaxSequence + HeadScan
    BY <1>3, <1>4, <2>1
  <2>3. QED
    BY <1>1, <1>2, <1>4, <2>2 DEF UdfTypeOK
<1>6. \A s : HeadAt(s)' = HeadAt(s) /\ (Genuine(s)' <=> Genuine(s))
  BY <1>1, SameHeads
<1>7. Passed' = Passed
  <2>1. Passed' = {s \in starts[1] + 1 .. (at + 1) - 1 : HeadAt(s) # {}}
    BY <1>1, <1>6 DEF Passed
  <2>2. \A s : s \in starts[1] + 1 .. (at + 1) - 1 <=> s \in starts[1] + 1 .. at - 1 \/ s = at
    BY <1>2, <1>3
  <2>3. QED
    BY <1>1, <2>1, <2>2 DEF Passed
<1>8. PassedInv'
  <2>1. /\ starts[1] < at + 1 /\ at + 1 <= starts[1] + HeadScan
        /\ left - 1 = 0 => at + 1 = starts[1] + HeadScan
        /\ at + 1 + (left - 1) = starts[1] + HeadScan
    BY <1>1, <1>2, <1>3
  <2>2. \A s \in Passed' : ~Genuine(s)' /\ \A fids \in HeadAt(s)' : Len(fids) <= Len(root')
    BY <1>1, <1>2, <1>6, <1>7
  <2>3. root' # << >> => \E s \in Passed' : root' \in HeadAt(s)'
    BY <1>1, <1>2, <1>6, <1>7
  <2>4. QED
    BY <1>1, <1>2, <1>4, <1>7, <2>1, <2>2, <2>3 DEF PassedInv
<1>9. SequenceInv' /\ AnchorInv' /\ RootInv' /\ RootIsFirstThatResolves'
  BY <1>1 DEF SequenceInv, AnchorInv, RootInv, RootIsFirstThatResolves
<1>10. QED
  BY <1>5, <1>8, <1>9 DEF UdfInv

(* A candidate is adopted, or it is one that was passed.                   *)
LEMMA HeadKeeps == UdfInv /\ TryHead => UdfInv'
<1> SUFFICES ASSUME UdfInv, TryHead PROVE UdfInv'
  OBVIOUS
<1>1. /\ pc = "heads" /\ left > 0
      /\ disc' = disc /\ anchor' = anchor /\ pds' = pds /\ starts' = starts /\ fsd' = fsd
  BY DEF TryHead
<1>2. /\ UdfTypeOK /\ starts # << >> /\ starts[1] < at
      /\ tried = Cardinality(Passed)
      /\ at + left = starts[1] + HeadScan /\ tried < MaxHeads
      /\ \A s \in Passed : ~Genuine(s) /\ \A fids \in HeadAt(s) : Len(fids) <= Len(root)
      /\ root # << >> => \E s \in Passed : root \in HeadAt(s)
  BY <1>1 DEF UdfInv, PassedInv
<1>3. /\ starts[1] \in Nat /\ at \in Nat /\ left \in Nat /\ tried \in Nat
      /\ HeadScan \in Nat /\ MaxSequence \in Nat /\ MaxHeads \in Nat
  BY <1>2, AllHeads, Counters, NumbersOf
<1>4. /\ Passed = {t \in All : t < at} /\ IsFiniteSet(Passed) /\ \A t \in All : t \in Nat
  BY <1>1, PassedHeads
<1>5. \A s : HeadAt(s)' = HeadAt(s) /\ (Genuine(s)' <=> Genuine(s))
  BY <1>1, SameHeads
<1>6. PICK fids \in HeadAt(at) :
        IF fids # << >> /\ Resolves(fids)
        THEN root' = fids /\ pc' = "adopted" /\ at' = at /\ left' = left /\ tried' = tried
        ELSE /\ root' = IF Len(fids) > Len(root) THEN fids ELSE root
             /\ tried' = tried + 1 /\ at' = at + 1 /\ left' = HeadsLeft /\ pc' = pc
  BY DEF TryHead
<1>7. Genuine(at) <=> fids # << >> /\ Resolves(fids)
  BY <1>2, GenuineResolves
<1>8. fids \in Seq(FidType) /\ root \in Seq(FidType) /\ Len(fids) \in Nat /\ Len(root) \in Nat
  <2>1. fids \in Seq(FidType)
    BY <1>2, DirectoryType DEF HeadAt
  <2>2. QED
    BY <1>2, <2>1 DEF UdfTypeOK
<1>9. CASE fids # << >> /\ Resolves(fids)
  <2>1. root' = fids /\ pc' = "adopted" /\ at' = at /\ left' = left /\ tried' = tried
    BY <1>6, <1>9
  <2>2. UdfTypeOK'
    BY <1>1, <1>2, <1>8, <2>1 DEF UdfTypeOK, Outcomes
  <2>3. Heads = {s \in All : Cardinality({t \in All : t < s}) < MaxHeads}
    BY <1>2, AllHeads
  <2>4. at \in All
    <3>1. at \in starts[1] + 1 .. starts[1] + HeadScan - 1
      BY <1>1, <1>2, <1>3
    <3>2. QED
      BY <3>1 DEF All
  <2>5. at \in Heads
    BY <1>2, <1>4, <2>3, <2>4
  <2>6. \A t \in Heads : t < at => ~Genuine(t)
    BY <1>2, <1>4, <2>3
  <2>7. Heads' = Heads
    BY <1>1, <1>5 DEF Heads
  <2>8. RootIsFirstThatResolves'
    <3> PICK s : s = at
      OBVIOUS
    <3>1. /\ s \in Heads /\ fids \in HeadAt(s) /\ Genuine(s)
          /\ \A t \in Heads : t < s => ~Genuine(t)
      BY <1>6, <1>7, <1>9, <2>5, <2>6
    <3>2. /\ s \in Heads' /\ root' \in HeadAt(s)' /\ Genuine(s)'
          /\ \A t \in Heads' : t < s => ~Genuine(t)'
      BY <1>5, <2>1, <2>7, <3>1
    <3>3. QED
      BY <3>2 DEF RootIsFirstThatResolves
  <2>9. SequenceInv' /\ AnchorInv' /\ PassedInv' /\ RootInv'
    BY <2>1 DEF SequenceInv, AnchorInv, PassedInv, RootInv
  <2>10. QED
    BY <2>2, <2>8, <2>9 DEF UdfInv
<1>10. CASE ~(fids # << >> /\ Resolves(fids))
  <2>1. /\ root' = IF Len(fids) > Len(root) THEN fids ELSE root
        /\ tried' = tried + 1 /\ at' = at + 1 /\ left' = HeadsLeft /\ pc' = pc
    BY <1>6, <1>10
  <2>2. /\ left' = 0 \/ left' = left - 1
        /\ tried + 1 >= MaxHeads => left' = 0
        /\ ~(tried + 1 >= MaxHeads) => left' = left - 1
    BY <2>1 DEF HeadsLeft
  <2>3. root' \in Seq(FidType) /\ Len(root') \in Nat /\ Len(root) <= Len(root') /\ Len(fids) <= Len(root')
    BY <1>8, <2>1
  <2>4. tried' \in 0 .. MaxHeads /\ left' \in 0 .. MaxSequence + HeadScan /\ at' \in Nat
    <3>1. left \in 0 .. MaxSequence + HeadScan
      BY <1>2 DEF UdfTypeOK
    <3>2. QED
      BY <1>1, <1>2, <1>3, <2>1, <2>2, <3>1
  <2>5. UdfTypeOK'
    BY <1>1, <1>2, <2>1, <2>3, <2>4 DEF UdfTypeOK
  <2>6. Passed' = Passed \cup {at}
    <3>1. Passed' = {s \in starts[1] + 1 .. (at + 1) - 1 : HeadAt(s) # {}}
      BY <1>1, <1>5, <2>1 DEF Passed
    <3>2. \A s : s \in starts[1] + 1 .. (at + 1) - 1 <=> s \in starts[1] + 1 .. at - 1 \/ s = at
      BY <1>2, <1>3
    <3>3. HeadAt(at) # {}
      BY <1>6
    <3>4. QED
      BY <3>1, <3>2, <3>3 DEF Passed
  <2>7. Cardinality(Passed') = tried'
    <3>1. at \notin Passed
      BY <1>3, <1>4
    <3>2. Cardinality(Passed \cup {at}) = Cardinality(Passed) + 1
      BY <1>4, <3>1, FS_AddElement
    <3>3. QED
      BY <1>2, <2>1, <2>6, <3>2
  <2>8. \A s \in Passed' : ~Genuine(s)' /\ \A f \in HeadAt(s)' : Len(f) <= Len(root')
    <3>1. ASSUME NEW s \in Passed, NEW f \in HeadAt(s) PROVE Len(f) <= Len(root')
      <4>1. f \in Seq(FidType)
        BY <1>2, <3>1, DirectoryType DEF HeadAt
      <4>2. Len(f) \in Nat /\ Len(f) <= Len(root)
        BY <1>2, <3>1, <4>1
      <4>3. QED
        BY <1>8, <2>3, <4>2
    <3>2. ASSUME NEW f \in HeadAt(at) PROVE Len(f) <= Len(root')
      <4>1. f = fids
        BY <3>2, DirectoryIsOne DEF HeadAt
      <4>2. QED
        BY <2>3, <4>1
    <3>3. ~Genuine(at)
      BY <1>7, <1>10
    <3>4. QED
      BY <1>2, <1>5, <2>6, <3>1, <3>2, <3>3
  <2>9. root' # << >> => \E s \in Passed' : root' \in HeadAt(s)'
    BY <1>2, <1>5, <1>6, <2>1, <2>6
  <2>10. /\ starts[1] < at + 1 /\ at + 1 <= starts[1] + HeadScan
         /\ left' = 0 => at + 1 = starts[1] + HeadScan \/ tried + 1 = MaxHeads
         /\ left' > 0 => at + 1 + left' = starts[1] + HeadScan /\ tried + 1 < MaxHeads
    BY <1>1, <1>2, <1>3, <2>2
  <2>11. PassedInv'
    BY <1>1, <1>2, <2>1, <2>7, <2>8, <2>9, <2>10 DEF PassedInv
  <2>12. SequenceInv' /\ AnchorInv' /\ RootInv' /\ RootIsFirstThatResolves'
    BY <1>1, <2>1 DEF SequenceInv, AnchorInv, RootInv, RootIsFirstThatResolves
  <2>13. QED
    BY <2>5, <2>11, <2>12 DEF UdfInv
<1>11. QED
  BY <1>9, <1>10

(* When the search is over, the candidates are those that were passed.     *)
LEMMA CandidatesArePassed ==
  ASSUME UdfInv, pc = "heads", left = 0
  PROVE  Heads = Passed
<1>1. /\ UdfTypeOK /\ starts # << >> /\ starts[1] < at /\ at <= starts[1] + HeadScan
      /\ at = starts[1] + HeadScan \/ tried = MaxHeads
  BY DEF UdfInv, PassedInv
<1>2. /\ starts[1] \in Nat /\ at \in Nat /\ tried \in Nat /\ tried <= MaxHeads
      /\ HeadScan \in Nat /\ MaxHeads \in Nat
  BY <1>1, AllHeads, Counters, NumbersOf DEF UdfTypeOK
<1>3. IsFiniteSet(All) /\ Heads = {s \in All : Cardinality({t \in All : t < s}) < MaxHeads}
  BY <1>1, AllHeads
<1>4. /\ Passed = {t \in All : t < at} /\ IsFiniteSet(Passed) /\ Cardinality(Passed) = tried
      /\ \A t \in All : t \in Nat
  BY PassedHeads
<1>5. ASSUME NEW s \in Passed PROVE s \in Heads
  <2> PICK c : c = {t \in All : t < s}
    OBVIOUS
  <2>1. s \in All /\ s \in Nat /\ s < at /\ c \subseteq Passed /\ s \notin c
    BY <1>2, <1>4
  <2>2. IsFiniteSet(c) /\ Cardinality(c) \in Nat /\ Cardinality(c) <= tried /\ Cardinality(c) # tried
    BY <1>4, <1>5, <2>1, FS_Subset, FS_CardinalityType
  <2>3. Cardinality(c) < MaxHeads
    BY <1>2, <2>2
  <2>4. QED
    BY <1>3, <2>1, <2>3
<1>6. ASSUME NEW s \in Heads, s \notin Passed PROVE FALSE
  <2> PICK c : c = {t \in All : t < s}
    OBVIOUS
  <2>1. s \in All /\ s \in Nat /\ s >= at /\ Cardinality(c) < MaxHeads
    BY <1>2, <1>3, <1>4, <1>6
  <2>2. s <= starts[1] + HeadScan - 1
    BY <1>2, <2>1 DEF All
  <2>3. tried = MaxHeads
    BY <1>1, <1>2, <2>1, <2>2
  <2>4. Passed \subseteq c /\ c \subseteq All
    <3>1. ASSUME NEW t \in Passed PROVE t \in c
      <4>1. t \in All /\ t \in Nat /\ t < at
        BY <1>4, <3>1
      <4>2. t < s
        BY <1>2, <2>1, <4>1
      <4>3. QED
        BY <4>1, <4>2
    <3>2. QED
      BY <3>1
  <2>5. IsFiniteSet(c) /\ Cardinality(c) \in Nat
    BY <1>3, <2>4, FS_Subset, FS_CardinalityType
  <2>6. tried <= Cardinality(c)
    BY <1>4, <2>4, <2>5, FS_Subset
  <2>7. QED
    BY <1>2, <2>1, <2>3, <2>5, <2>6
<1>7. QED
  BY <1>3, <1>4, <1>5, <1>6

LEMMA NoMoreKeeps == UdfInv /\ NoMoreHeads => UdfInv'
<1> SUFFICES ASSUME UdfInv, NoMoreHeads PROVE UdfInv'
  OBVIOUS
<1>1. /\ pc = "heads" /\ left = 0
      /\ pc' = IF root = << >> THEN "rootless" ELSE "adopted"
      /\ disc' = disc /\ anchor' = anchor /\ at' = at /\ left' = left /\ pds' = pds
      /\ starts' = starts /\ fsd' = fsd /\ tried' = tried /\ root' = root
  BY DEF NoMoreHeads
<1>2. /\ UdfTypeOK
      /\ \A s \in Passed : ~Genuine(s) /\ \A fids \in HeadAt(s) : Len(fids) <= Len(root)
      /\ root # << >> => \E s \in Passed : root \in HeadAt(s)
  BY <1>1 DEF UdfInv, PassedInv
<1>3. UdfTypeOK'
  BY <1>1, <1>2 DEF UdfTypeOK, Outcomes
<1>4. Heads = Passed
  BY <1>1, CandidatesArePassed
<1>5. \A s : HeadAt(s)' = HeadAt(s) /\ (Genuine(s)' <=> Genuine(s))
  BY <1>1, SameHeads
<1>6. Heads' = Heads
  BY <1>1, <1>5 DEF Heads
<1>7. RootIsFirstThatResolves'
  <2> SUFFICES ASSUME pc' = "adopted"
               PROVE  \E s \in Heads' :
                        /\ root' \in HeadAt(s)'
                        /\ \A t \in Heads' : ~Genuine(t)'
                        /\ \A t \in Heads' : \A fids \in HeadAt(t)' : Len(fids) <= Len(root')
    BY DEF RootIsFirstThatResolves
  <2>1. root # << >>
    BY <1>1
  <2>2. PICK s \in Heads : root \in HeadAt(s)
    BY <1>2, <1>4, <2>1
  <2>3. QED
    BY <1>1, <1>2, <1>4, <1>5, <1>6, <2>2
<1>8. SequenceInv' /\ AnchorInv' /\ PassedInv' /\ RootInv'
  BY <1>1 DEF SequenceInv, AnchorInv, PassedInv, RootInv
<1>9. QED
  BY <1>3, <1>7, <1>8 DEF UdfInv

LEMMA UdfStutters == UdfInv /\ UNCHANGED udf => UdfInv'
<1> SUFFICES ASSUME UdfInv, UNCHANGED udf PROVE UdfInv'
  OBVIOUS
<1>1. /\ pc' = pc /\ disc' = disc /\ anchor' = anchor /\ at' = at /\ left' = left /\ pds' = pds
      /\ starts' = starts /\ fsd' = fsd /\ tried' = tried /\ root' = root
  BY DEF udf
<1>2. UdfTypeOK'
  BY <1>1 DEF UdfInv, UdfTypeOK
<1>3. \A s : HeadAt(s)' = HeadAt(s) /\ (Genuine(s)' <=> Genuine(s))
  BY <1>1, SameHeads
<1>4. \A i : SequenceOf(i)' = SequenceOf(i)
  BY <1>1, SameSequences
<1>5. StandardRoot' = StandardRoot
  BY <1>1, SameRoot
<1>6. \A x, tag : (Holds(x, tag)' <=> Holds(x, tag)) /\ \A q : Obeyed(q)' <=> Obeyed(q)
  BY <1>1 DEF Holds, Obeyed, Tagged
<1>7. Heads' = Heads /\ Passed' = Passed
  BY <1>1, <1>3 DEF Heads, Passed
<1>8. SequenceInv'
  <2> DEFINE m == SequenceLength(disc[Anchors[anchor]].len) - left
  <2>1. m' = m /\ SequenceLength(disc[Anchors[anchor]].len)' = SequenceLength(disc[Anchors[anchor]].len)
    BY <1>1 DEF SequenceLength
  <2>2. \A n : Heard(n)' = Heard(n)
    BY <1>1 DEF Heard
  <2>3. \A q, tag : Tagged(q, tag)' = Tagged(q, tag)
    BY DEF Tagged
  <2>4. SequenceInv
    BY DEF UdfInv
  <2>5. Heard(m)' = Heard(m)
    BY <1>1, <2>1 DEF Heard
  <2>6. Tagged(Heard(m), "pd")' = Tagged(Heard(m), "pd") /\ (Obeyed(Heard(m))' <=> Obeyed(Heard(m)))
    BY <1>1, <2>5 DEF Obeyed, Tagged
  <2> HIDE DEF m
  <2>7. QED
    BY <1>1, <1>6, <2>1, <2>4, <2>5, <2>6 DEF SequenceInv, m
<1>9. AnchorInv'
  <2>1. AnchorInv /\ SequenceOf(anchor)' = SequenceOf(anchor)
    BY <1>1 DEF UdfInv, SequenceOf, Holds, SequenceLength
  <2>2. (\E q \in SequenceOf(anchor) : Obeyed(q))' <=> \E q \in SequenceOf(anchor) : Obeyed(q)
    BY <1>6, <2>1
  <2>3. QED
    BY <1>1, <1>4, <2>1, <2>2 DEF AnchorInv
<1>10. PassedInv'
  <2>1. PassedInv
    BY DEF UdfInv
  <2>2. QED
    BY <1>1, <1>3, <1>7, <2>1 DEF PassedInv
<1>11. RootInv'
  BY <1>1, <1>5 DEF UdfInv, RootInv
<1>12. RootIsFirstThatResolves'
  <2>1. RootIsFirstThatResolves
    BY DEF UdfInv
  <2>2. QED
    BY <1>1, <1>3, <1>7, <2>1 DEF RootIsFirstThatResolves
<1>13. QED
  BY <1>2, <1>8, <1>9, <1>10, <1>11, <1>12 DEF UdfInv

(* Opening a volume keeps the inductive invariant                          *)
(* (providers/iso/udf/udf_parser.cpp, parse_anchor to                      *)
(* locate_root_in_head), for every disc and every limit.                   *)
THEOREM VolumeIsKept == UdfSpec => []UdfInv
<1>1. UdfInv /\ [UdfNext]_udf => UdfInv'
  BY TryKeeps, NoAnchorKeeps, DescriptorKeeps, EndKeeps, GiveUpKeeps, RootKeeps, FileSetKeeps, SkipKeeps,
     HeadKeeps, NoMoreKeeps, UdfStutters DEF UdfNext
<1>2. QED
  BY <1>1, UdfStarts, PTL DEF UdfSpec

(* The counters stay within the limits of the parser.                      *)
THEOREM VolumeTypes == UdfSpec => []UdfTypeOK
<1>1. UdfInv => UdfTypeOK
  BY DEF UdfInv
<1>2. QED
  BY <1>1, VolumeIsKept, PTL

(* A volume is opened with the first anchor that has a complete sequence,  *)
(* and with what that sequence says (parse_anchor, parse_vds).             *)
THEOREM FirstSequenceWins == UdfSpec => []AcceptedSequenceWins
<1>1. UdfInv => AcceptedSequenceWins
  <2> SUFFICES ASSUME UdfInv PROVE AcceptedSequenceWins
    OBVIOUS
  <2>1. Len(Anchors) \in Nat /\ AnchorInv
    BY UdfAssumption DEF UdfInv
  <2>2. ASSUME pc = "unopened", NEW i \in 1 .. Len(Anchors) PROVE SequenceOf(i) = {}
    <3>1. i \in 1 .. anchor - 1
      BY <2>1, <2>2 DEF AnchorInv
    <3>2. QED
      BY <2>1, <2>2, <3>1 DEF AnchorInv
  <2>3. QED
    BY <2>1, <2>2 DEF AnchorInv, AcceptedSequenceWins
<1>2. QED
  BY <1>1, VolumeIsKept, PTL

(* The root that is adopted behind a wrong pointer is the first directory  *)
(* whose children are directories, or else the largest                     *)
(* (locate_root_in_head).                                                  *)
THEOREM AdoptedRootIsTheBest == UdfSpec => []RootIsFirstThatResolves
<1>1. UdfInv => RootIsFirstThatResolves
  BY DEF UdfInv
<1>2. QED
  BY <1>1, VolumeIsKept, PTL

(* What the standard pointers name is one directory.                       *)
LEMMA StandardIsOne ==
  ASSUME NEW a \in StandardRefs, NEW b \in StandardRefs
  PROVE  a = b
BY AbsoluteIsOne DEF StandardRefs

LEMMA RootIsWhole ==
  ASSUME UdfInv, pc = "mounted", NEW t \in RootData, IsOnDisc(t), HeadersFollow(t)
  PROVE  root = LiveFids(t)
<1>1. UdfTypeOK /\ root \in StandardRoot
  BY DEF UdfInv, RootInv
<1>2. PICK ref \in StandardRefs : \E s \in FileEntries(ref) : t \in DataOf(ref, s)
  BY DEF RootData
<1>3. PICK s \in FileEntries(ref) : t \in DataOf(ref, s)
  BY <1>2
<1>4. root \in Directory(ref)
  BY <1>1, StandardIsOne DEF StandardRoot
<1>5. Stream(t, SectorsOf(disc[s].len)) \in Directory(ref)
  BY <1>3, DirectoryIs
<1>6. root = Stream(t, SectorsOf(disc[s].len))
  BY <1>4, <1>5, DirectoryIsOne
<1>7. disc[s].len \in Nat
  BY <1>1, Descriptors DEF FileEntries
<1>8. SectorsOf(disc[s].len) \in 1 .. MaxDirSectors
  BY <1>3, <1>7, Sectors, NumbersOf DEF DataOf
<1>9. QED
  BY <1>1, <1>6, <1>8, StreamIsWhole

(* A root directory is read whole, however small its file entry says it is *)
(* (read_directory), if no header is cut by the end of a sector.           *)
THEOREM RootsAreWhole == UdfSpec => []SizesMayBeTooSmall
<1>1. UdfInv => SizesMayBeTooSmall
  BY RootIsWhole DEF SizesMayBeTooSmall
<1>2. QED
  BY <1>1, VolumeIsKept, PTL

=============================================================================
