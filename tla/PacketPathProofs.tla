--------------------------- MODULE PacketPathProofs ---------------------------
(***************************************************************************)
(* Proofs about the way of a datagram through the switch, for every value  *)
(* of the constants: bytes of any width, packets of any length and content *)
(* that fits a uint16_t, with any options, in any number of fragments.     *)
(***************************************************************************)
EXTENDS PacketPathProperties, SequenceLemmas

-----------------------------------------------------------------------------
(* Numbers *)

(* Division with remainder.                                                *)
LEMMA DivMod ==
  ASSUME NEW n \in Nat, NEW b \in Nat \ {0}
  PROVE  n \div b \in Nat /\ n % b \in 0 .. b - 1 /\ n = b * (n \div b) + (n % b)
  OBVIOUS

(* There is but one quotient with a remainder below the divisor. *)
LEMMA DivUnique ==
  ASSUME NEW n \in Nat, NEW b \in Nat \ {0}, NEW q \in Nat, NEW r \in 0 .. b - 1
  PROVE  n = b * q + r => n \div b = q /\ n % b = r
  OBVIOUS

(* A multiple of the modulus does not count.                               *)
LEMMA ModAdd ==
  ASSUME NEW n \in Nat, NEW m \in Nat \ {0}, NEW k \in Nat
  PROVE  (n + m * k) % m = n % m
<1> DEFINE q == n \div m
           r == n % m
<1>1. q \in Nat /\ r \in 0 .. m - 1 /\ n = m * q + r
  BY DivMod
<1> HIDE DEF q, r
<1>2. q + k \in Nat /\ n + m * k \in Nat
  BY <1>1
<1>3. n + m * k = m * (q + k) + r
  BY <1>1
<1>4. (n + m * k) % m = r
  BY <1>1, <1>2, <1>3, DivUnique
<1> QED
  BY <1>4 DEF r

(* A word is two bytes.                                                    *)
LEMMA Widths ==
  /\ ByteBase \in Nat /\ ByteBase >= 2
  /\ WordBase = ByteBase * ByteBase /\ WordBase \in Nat /\ WordBase >= 4
<1>1. ByteBase \in Nat /\ ByteBase >= 2
  BY ByteBaseAssumption
<1>2. ByteBase * ByteBase \in Nat /\ ByteBase * ByteBase >= 4
  BY <1>1
<1> QED
  BY <1>1, <1>2 DEF WordBase

(* To add the carries back does not change a sum modulo 2^16 - 1.          *)
LEMMA FoldCongruent ==
  ASSUME NEW s \in Nat, s < WordBase * WordBase
  PROVE  /\ Fold(s) \in 0 .. 2 * (WordBase - 1)
         /\ \E k \in Nat : s = Fold(s) + (WordBase - 1) * k
<1> DEFINE B == WordBase
           q == s \div B
           r == s % B
<1>0. B \in Nat \ {0} /\ s < B * B
  BY Widths
<1> HIDE DEF B
<1>1. q \in Nat /\ r \in 0 .. B - 1 /\ s = B * q + r
  BY <1>0, DivMod
<1>2. q < B
  BY <1>0
<1> HIDE DEF q, r
<1>3. s = (q + r) + (B - 1) * q
  BY <1>0, <1>1
<1>4. q + r \in 0 .. 2 * (B - 1)
  BY <1>0, <1>1, <1>2
<1>5. Fold(s) = q + r
  BY DEF Fold, B, q, r
<1>6. s = Fold(s) + (B - 1) * q
  BY <1>3, <1>5
<1> QED
  BY <1>1, <1>4, <1>5, <1>6 DEF B

(* With the checksum in its place the sum is accepted, unless adding the   *)
(* carries back has made another one.                                      *)
LEMMA ChecksumAccepted ==
  ASSUME NEW s \in Nat, s < WordBase * WordBase
  PROVE  /\ Checksum(s) \in 0 .. WordBase - 1
         /\ (s + Checksum(s) > 0 /\ (s + Checksum(s)) % (WordBase - 1) = 0) <=> Fold(s) < WordBase
<1> DEFINE B == WordBase
           f == Fold(s)
           m == B - 1
           c == Checksum(s)
<1>1. f \in 0 .. 2 * m
  BY FoldCongruent
<1>2. PICK k \in Nat : s = f + m * k
  BY FoldCongruent
<1>3. B \in Nat \ {0} /\ m \in Nat \ {0} /\ m >= 3 /\ B = m + 1
  BY Widths
<1>4. c = m - (f % B)
  BY DEF Checksum
<1> HIDE DEF f, m, B, c
<1>5. c \in 0 .. m
  BY <1>1, <1>3, <1>4
<1>6. CASE f < B
  <2>1. f % B = f
    BY <1>1, <1>3, <1>6
  <2>2. s + c = 0 + m * (k + 1) /\ k + 1 \in Nat
    BY <1>1, <1>2, <1>3, <1>4, <2>1
  <2>3. (0 + m * (k + 1)) % m = 0 % m
    BY <1>3, <2>2, ModAdd
  <2>4. s + c > 0
    BY <1>2, <1>1, <1>3, <1>4, <2>1
  <2>5. 0 % m = 0
    BY <1>3
  <2>6. (s + c) % m = 0
    BY <2>2, <2>3, <2>5
  <2> QED
    BY <1>3, <1>5, <1>6, <2>4, <2>6 DEF f, m, B, c
<1>7. CASE f >= B
  <2>1. f % B = f - B
    <3>1. f - B \in 0 .. B - 1 /\ f = B * 1 + (f - B) /\ f \in Nat
      BY <1>1, <1>3, <1>7
    <3> QED
      BY SMTT(30), <1>3, <3>1, DivUnique
  <2>2. s + c = 1 + m * (k + 2) /\ k + 2 \in Nat
    BY <1>1, <1>2, <1>3, <1>4, <2>1
  <2>3. (1 + m * (k + 2)) % m = 1 % m
    BY <1>3, <2>2, ModAdd
  <2>4. 1 % m = 1
    BY <1>3
  <2>5. (s + c) % m = 1
    BY <2>2, <2>3, <2>4
  <2>6. ~(f < B)
    BY <1>1, <1>3, <1>7
  <2> QED
    BY <1>3, <1>5, <2>5, <2>6 DEF f, m, B, c
<1> QED
  BY <1>1, <1>3, <1>6, <1>7

-----------------------------------------------------------------------------
(* Sums of words *)

Weighted(bytes, k) == IF k % 2 = 0 THEN ByteBase * bytes[k] ELSE bytes[k]

(* The k-th byte of a sequence, and what it counts for.                    *)
LEMMA ByteTypes ==
  ASSUME NEW b \in Seq(Byte), NEW k \in 1 .. Len(b)
  PROVE  /\ b[k] \in 0 .. ByteBase - 1 /\ b[k] \in Nat
         /\ Weighted(b, k) \in 0 .. ByteBase * (ByteBase - 1)
<1>1. b[k] \in Byte
  OBVIOUS
<1>2. b[k] \in Nat /\ b[k] <= ByteBase - 1 /\ ByteBase \in Nat /\ ByteBase >= 2
  BY <1>1, Widths DEF Byte
<1> DEFINE x == b[k]
<1> HIDE DEF x
<1>3. x \in Nat /\ x <= ByteBase - 1
  BY <1>2 DEF x
<1>4. ByteBase * x \in Nat /\ ByteBase * x <= ByteBase * (ByteBase - 1)
  BY <1>2, <1>3
<1>5. x <= ByteBase * (ByteBase - 1)
  BY <1>2, <1>3
<1>6. Weighted(b, k) \in {x, ByteBase * x}
  BY DEF Weighted, x
<1> QED
  BY <1>2, <1>3, <1>4, <1>5, <1>6 DEF x

(* The function that SumUpTo defines by recursion exists.                  *)
LEMMA SumUpToIs ==
  ASSUME NEW b \in Seq(Byte)
  PROVE  /\ SumUpTo(b) \in [0 .. Len(b) -> Nat]
         /\ SumUpTo(b)[0] = 0
         /\ \A k \in 1 .. Len(b) : SumUpTo(b)[k] = SumUpTo(b)[k - 1] + Weighted(b, k)
<1> DEFINE n == Len(b)
           E(f) == f = [k \in 0 .. n |-> IF k = 0 THEN 0 ELSE f[k - 1] + Weighted(b, k)]
           F == [k \in 1 .. n |-> [t \in Nat |-> t + Weighted(b, k)]]
           u == SumUpTo(b)
<1>1. n \in Nat /\ \A k \in 1 .. n : Weighted(b, k) \in Nat
  <2>1. ASSUME NEW k \in 1 .. n PROVE Weighted(b, k) \in Nat
    BY ByteTypes, Widths
  <2> QED
    BY <2>1
<1>2. u = CHOOSE f : E(f)
  BY DEF SumUpTo, Weighted
<1>3. F \in [1 .. n -> [Nat -> Nat]]
  BY <1>1
<1> DEFINE Zero == 0
           D == Nat
<1>4. PICK f \in [0 .. n -> D] : f[0] = Zero /\ \A k \in 1 .. n : f[k] = F[k][f[k - 1]]
  <2>1. n \in Nat /\ Zero \in D /\ F \in [1 .. n -> [D -> D]]
    BY <1>1, <1>3
  <2> HIDE DEF Zero, D, F, n
  <2> QED
    BY <2>1, StepwiseExists
<1>5. E(f)
  <2>1. ASSUME NEW k \in 0 .. n
        PROVE  f[k] = IF k = 0 THEN 0 ELSE f[k - 1] + Weighted(b, k)
    <3>1. CASE k = 0
      BY <1>4, <3>1
    <3>2. CASE k # 0
      <4>1. f[k] = F[k][f[k - 1]] /\ k \in 1 .. n /\ f[k - 1] \in Nat
        <5> HIDE DEF F
        <5> QED
          BY SMTT(30), <1>1, <1>4, <3>2
      <4>2. F[k] = [t \in Nat |-> t + Weighted(b, k)]
        BY <4>1
      <4>3. F[k][f[k - 1]] = f[k - 1] + Weighted(b, k)
        BY <4>1, <4>2
      <4> QED
        BY <3>2, <4>1, <4>3
    <3> QED
      BY <3>1, <3>2
  <2> HIDE DEF F
  <2> QED
    BY <1>4, <2>1
<1>6. E(u)
  BY <1>2, <1>5
<1> HIDE DEF u, n
<1>7. DOMAIN u = 0 .. n /\ u[0] = 0 /\ \A k \in 1 .. n : u[k] = u[k - 1] + Weighted(b, k)
  BY SMTT(30), <1>1, <1>6
<1>8. 0 .. n \subseteq {k \in 0 .. n : u[k] \in Nat}
  <2> DEFINE T == {k \in 0 .. n : u[k] \in Nat}
  <2>1. 0 \in T
    BY <1>1, <1>7
  <2>2. \A k \in 1 .. n : k - 1 \in T => k \in T
    BY <1>1, <1>7
  <2> HIDE DEF T
  <2>3. 0 .. n \subseteq T
    BY <1>1, <2>1, <2>2, InductionUpTo
  <2> QED
    BY <2>3 DEF T
<1>9. u \in [0 .. n -> Nat]
  BY <1>6, <1>7, <1>8
<1> QED
  BY <1>7, <1>9 DEF u, n

(* A sum is a natural; over as many bytes as a uint16_t can say it does    *)
(* not leave a uint32_t.                                                   *)
LEMMA SumBounded ==
  ASSUME NEW b \in Seq(Byte), Len(b) < WordBase
  PROVE  \A k \in 0 .. Len(b) : SumUpTo(b)[k] \in Nat /\ SumUpTo(b)[k] < WordBase * WordBase
<1> DEFINE u == SumUpTo(b)
           n == Len(b)
           M == ByteBase * (ByteBase - 1)
           T == {k \in 0 .. n : u[k] <= k * M}
<1>1. /\ u \in [0 .. n -> Nat] /\ u[0] = 0 /\ n \in Nat
      /\ \A k \in 1 .. n : u[k] = u[k - 1] + Weighted(b, k)
  BY SumUpToIs
<1>2. M \in Nat /\ M < WordBase /\ WordBase \in Nat /\ n < WordBase
  BY Widths
<1>3. \A k \in 1 .. n : Weighted(b, k) \in Nat /\ Weighted(b, k) <= M
  BY <1>2, ByteTypes
<1> HIDE DEF u, n, M
<1>4. 0 \in T
  BY <1>1, <1>2
<1>5. ASSUME NEW k \in 1 .. n, k - 1 \in T PROVE k \in T
  <2>1. u[k - 1] <= (k - 1) * M /\ u[k] = u[k - 1] + Weighted(b, k) /\ k \in 0 .. n
    BY <1>1, <1>5
  <2>2. (k - 1) * M + M = k * M /\ (k - 1) * M \in Int /\ k * M \in Int
    BY <1>1, <1>2
  <2>3. u[k - 1] \in Nat /\ Weighted(b, k) \in Nat /\ Weighted(b, k) <= M
    BY <1>1, <1>3
  <2>4. u[k] <= k * M
    BY <1>2, <2>1, <2>2, <2>3
  <2> QED
    BY <2>1, <2>4
<1> HIDE DEF T
<1>6. 0 .. n \subseteq T
  BY <1>1, <1>4, <1>5, InductionUpTo
<1>7. ASSUME NEW k \in 0 .. n PROVE u[k] \in Nat /\ u[k] < WordBase * WordBase
  <2>1. u[k] \in Nat /\ u[k] <= k * M
    BY <1>1, <1>6 DEF T
  <2>2. k * M <= k * WordBase /\ k * WordBase < WordBase * WordBase
    BY <1>1, <1>2
  <2>3. k * M \in Int /\ k * WordBase \in Int /\ WordBase * WordBase \in Int
    BY <1>1, <1>2
  <2> QED
    BY <2>1, <2>2, <2>3
<1> QED
  BY <1>7 DEF u, n

-----------------------------------------------------------------------------
(* A word that is put into a sequence of bytes *)

(* Only its two bytes change, and it is read again.                        *)
LEMMA PutIs ==
  ASSUME NEW b \in Seq(Byte), NEW k \in 1 .. Len(b) - 1, NEW w \in 0 .. WordBase - 1
  PROVE  /\ Put(b, k, w) \in Seq(Byte) /\ Len(Put(b, k, w)) = Len(b)
         /\ \A j \in 1 .. Len(b) :
              Put(b, k, w)[j] = IF j = k THEN w % ByteBase
                                ELSE IF j = k + 1 THEN w \div ByteBase ELSE b[j]
         /\ WordAt(Put(b, k, w), k) = w
         /\ WordAt(b, k) \in 0 .. WordBase - 1
<1> DEFINE n == Len(b)
           lo == w % ByteBase
           hi == w \div ByteBase
           p == Put(b, k, w)
<1>1. n \in Nat /\ k \in 1 .. n /\ k + 1 \in 1 .. n /\ k # k + 1
  OBVIOUS
<1>2. b \in [1 .. n -> Byte]
  OBVIOUS
<1>3. lo \in Byte /\ hi \in Byte /\ w = ByteBase * hi + lo
  <2>1. w \in Nat /\ ByteBase \in Nat \ {0} /\ w < ByteBase * ByteBase
    BY Widths
  <2>2. lo \in 0 .. ByteBase - 1 /\ hi \in Nat /\ w = ByteBase * hi + lo
    BY <2>1, DivMod
  <2>3. hi < ByteBase
    BY <2>1
  <2> QED
    BY <2>1, <2>2, <2>3 DEF Byte
<1> HIDE DEF n, lo, hi
<1>4. p \in [1 .. n -> Byte] /\ \A j \in 1 .. n : p[j] = IF j = k THEN lo ELSE IF j = k + 1 THEN hi ELSE b[j]
  <2>1. p = [b EXCEPT ![k] = lo, ![k + 1] = hi]
    BY DEF Put, lo, hi
  <2> HIDE DEF p
  <2> QED
    BY <1>1, <1>2, <1>3, <2>1
<1> HIDE DEF p
<1>5. p \in Seq(Byte) /\ Len(p) = n
  BY <1>1, <1>4
<1>6. WordAt(p, k) = w
  <2>1. p[k] = lo /\ p[k + 1] = hi
    BY <1>1, <1>4
  <2>2. lo \in Int /\ hi \in Int /\ ByteBase \in Int
    BY <1>3, Widths DEF Byte
  <2> QED
    BY <1>3, <2>1, <2>2 DEF WordAt
<1>7. WordAt(b, k) \in 0 .. WordBase - 1
  <2>1. b[k] \in 0 .. ByteBase - 1 /\ b[k + 1] \in 0 .. ByteBase - 1
    BY <1>1, <1>2 DEF Byte
  <2> DEFINE x == b[k]
             y == b[k + 1]
  <2>2. x \in 0 .. ByteBase - 1 /\ y \in 0 .. ByteBase - 1 /\ WordAt(b, k) = x + ByteBase * y
    BY <2>1 DEF WordAt
  <2> HIDE DEF x, y
  <2>3. ByteBase * y \in Nat /\ ByteBase * y <= ByteBase * (ByteBase - 1)
    BY <2>2, Widths
  <2> QED
    BY <2>2, <2>3, Widths
<1> QED
  BY <1>4, <1>5, <1>6, <1>7 DEF n, lo, hi, p

(* Bytes i to j of a sequence.                                             *)
LEMMA PartIs ==
  ASSUME NEW b \in Seq(Byte), NEW i \in 1 .. Len(b) + 1, NEW j \in 0 .. Len(b), i <= j + 1
  PROVE  /\ SubSeq(b, i, j) \in Seq(Byte) /\ Len(SubSeq(b, i, j)) = j - i + 1
         /\ \A k \in 1 .. j - i + 1 : SubSeq(b, i, j)[k] = b[i + k - 1]
  OBVIOUS

(* Elsewhere a word that is put is not seen.                               *)
LEMMA PutOutside ==
  ASSUME NEW b \in Seq(Byte), NEW k \in 1 .. Len(b) - 1, NEW w \in 0 .. WordBase - 1,
         NEW i \in 1 .. Len(b) + 1, NEW j \in 0 .. Len(b), i <= j + 1,
         k + 1 < i \/ j < k
  PROVE  SubSeq(Put(b, k, w), i, j) = SubSeq(b, i, j)
<1> DEFINE p == Put(b, k, w)
           r == SubSeq(b, i, j)
           t == SubSeq(p, i, j)
<1>1. p \in Seq(Byte) /\ Len(p) = Len(b)
  BY PutIs
<1>2. \A m \in 1 .. Len(b) : m # k /\ m # k + 1 => p[m] = b[m]
  BY PutIs
<1> HIDE DEF p
<1>3. r \in Seq(Byte) /\ Len(r) = j - i + 1 /\ \A m \in 1 .. j - i + 1 : r[m] = b[i + m - 1]
  BY PartIs
<1>4. t \in Seq(Byte) /\ Len(t) = j - i + 1 /\ \A m \in 1 .. j - i + 1 : t[m] = p[i + m - 1]
  BY <1>1, PartIs
<1> HIDE DEF r, t
<1>5. \A m \in 1 .. j - i + 1 : t[m] = r[m]
  <2>1. ASSUME NEW m \in 1 .. j - i + 1 PROVE t[m] = r[m]
    <3>1. i + m - 1 \in 1 .. Len(b) /\ i + m - 1 # k /\ i + m - 1 # k + 1
      OBVIOUS
    <3> QED
      BY <1>2, <1>3, <1>4, <3>1
  <2> QED
    BY <2>1
<1>6. t = r
  BY <1>3, <1>4, <1>5, SameElements
<1> QED
  BY <1>6 DEF p, r, t

(* Inside it is put into the part.                                         *)
LEMMA PutInside ==
  ASSUME NEW b \in Seq(Byte), NEW w \in 0 .. WordBase - 1,
         NEW i \in 1 .. Len(b), NEW j \in 1 .. Len(b), NEW k \in 1 .. j - i
  PROVE  SubSeq(Put(b, i + k - 1, w), i, j) = Put(SubSeq(b, i, j), k, w)
<1> DEFINE p == Put(b, i + k - 1, w)
           r == SubSeq(b, i, j)
           t == SubSeq(p, i, j)
           q == Put(r, k, w)
<1>0. i + k - 1 \in 1 .. Len(b) - 1 /\ i <= j + 1 /\ i \in 1 .. Len(b) + 1 /\ j \in 0 .. Len(b)
  OBVIOUS
<1>1. /\ p \in Seq(Byte) /\ Len(p) = Len(b)
      /\ \A m \in 1 .. Len(b) : p[m] = IF m = i + k - 1 THEN w % ByteBase
                                       ELSE IF m = (i + k - 1) + 1 THEN w \div ByteBase ELSE b[m]
  BY <1>0, PutIs
<1> HIDE DEF p
<1>2. r \in Seq(Byte) /\ Len(r) = j - i + 1 /\ \A m \in 1 .. j - i + 1 : r[m] = b[i + m - 1]
  BY <1>0, PartIs
<1>3. t \in Seq(Byte) /\ Len(t) = j - i + 1 /\ \A m \in 1 .. j - i + 1 : t[m] = p[i + m - 1]
  BY <1>0, <1>1, PartIs
<1> HIDE DEF r, t
<1>4. /\ q \in Seq(Byte) /\ Len(q) = Len(r)
      /\ \A m \in 1 .. Len(r) : q[m] = IF m = k THEN w % ByteBase
                                       ELSE IF m = k + 1 THEN w \div ByteBase ELSE r[m]
  <2>1. k \in 1 .. Len(r) - 1 /\ r \in Seq(Byte)
    BY <1>2
  <2> QED
    BY <2>1, PutIs
<1> HIDE DEF q
<1>5. ASSUME NEW m \in 1 .. j - i + 1 PROVE t[m] = q[m]
  <2>1. i + m - 1 \in 1 .. Len(b) /\ m \in 1 .. Len(r)
    BY <1>2
  <2>2. t[m] = p[i + m - 1] /\ r[m] = b[i + m - 1]
    BY <1>2, <1>3
  <2>3. (i + m - 1 = i + k - 1 <=> m = k) /\ (i + m - 1 = (i + k - 1) + 1 <=> m = k + 1)
    OBVIOUS
  <2> QED
    BY <1>1, <1>4, <2>1, <2>2, <2>3
<1>6. t = q
  BY <1>2, <1>3, <1>4, <1>5, SameElements
<1> QED
  BY <1>6 DEF p, r, t, q

(* A word at an even distance counts in the sum for what it is.            *)
LEMMA TotalPut ==
  ASSUME NEW b \in Seq(Byte), NEW k \in 1 .. Len(b) - 1, NEW w \in 0 .. WordBase - 1, k % 2 = 1
  PROVE  /\ Total(Put(b, k, w)) = Total(b) - WordAt(b, k) + w
         /\ Total(b) - WordAt(b, k) \in Nat
<1> DEFINE p == Put(b, k, w)
           n == Len(b)
           u == SumUpTo(b)
           v == SumUpTo(p)
           old == WordAt(b, k)
           x == b[k]
           y == ByteBase * b[k + 1]
           x2 == p[k]
           y2 == ByteBase * p[k + 1]
           T == {m \in 0 .. n :
                   /\ m < k => v[m] = u[m]
                   /\ m = k => v[m] = u[m] - x + x2
                   /\ m > k => v[m] = u[m] - old + w /\ u[m] - old >= 0}
<1>1. /\ p \in Seq(Byte) /\ Len(p) = n /\ n \in Nat /\ k \in 1 .. n /\ k + 1 \in 1 .. n
      /\ \A m \in 1 .. n : m # k /\ m # k + 1 => p[m] = b[m]
      /\ WordAt(p, k) = w
  BY PutIs
<1>2. u \in [0 .. n -> Nat] /\ u[0] = 0 /\ \A m \in 1 .. n : u[m] = u[m - 1] + Weighted(b, m)
  BY SumUpToIs
<1>3. v \in [0 .. n -> Nat] /\ v[0] = 0 /\ \A m \in 1 .. n : v[m] = v[m - 1] + Weighted(p, m)
  <2>1. /\ v \in [0 .. Len(p) -> Nat] /\ v[0] = 0
        /\ \A m \in 1 .. Len(p) : v[m] = v[m - 1] + Weighted(p, m)
    <3>1. p \in Seq(Byte)
      BY <1>1
    <3> HIDE DEF p
    <3> QED
      BY <3>1, SumUpToIs
  <2> QED
    BY <1>1, <2>1
<1>4. /\ Weighted(b, k) = x /\ Weighted(p, k) = x2
      /\ Weighted(b, k + 1) = y /\ Weighted(p, k + 1) = y2
      /\ \A m \in 1 .. n : m # k /\ m # k + 1 => Weighted(p, m) = Weighted(b, m)
  <2>1. (k + 1) % 2 = 0 /\ k % 2 # 0
    BY <1>1
  <2> HIDE DEF p
  <2> QED
    BY <1>1, <2>1 DEF Weighted
<1>5. /\ old = x + y /\ w = x2 + y2
      /\ x \in Nat /\ y \in Nat /\ x2 \in Nat /\ y2 \in Nat
  <2>1. b[k] \in Nat /\ b[k + 1] \in Nat /\ p[k] \in Nat /\ p[k + 1] \in Nat
    <3> HIDE DEF p
    <3> QED
      BY <1>1, ByteTypes
  <2> HIDE DEF p
  <2> QED
    BY <1>1, <2>1, Widths DEF WordAt
<1> HIDE DEF p, n, u, v, old, x, y, x2, y2
<1>6. n \in Nat /\ k \in 1 .. n
  BY <1>1
<1>7. u \in [0 .. n -> Nat] /\ v \in [0 .. n -> Nat]
  BY <1>2, <1>3
<1>8. 0 \in T
  BY <1>1, <1>2, <1>3
<1>9. ASSUME NEW m \in 1 .. n, m - 1 \in T PROVE m \in T
  <2> DEFINE um == u[m - 1]
             vm == v[m - 1]
             wb == Weighted(b, m)
             wp == Weighted(p, m)
  <2>1. /\ m \in 0 .. n /\ m - 1 \in 0 .. n
        /\ um \in Nat /\ u[m] \in Nat /\ vm \in Nat /\ v[m] \in Nat
    <3>1. m \in 0 .. n /\ m - 1 \in 0 .. n
      BY <1>6
    <3> HIDE DEF um, vm
    <3>2. um \in Nat /\ vm \in Nat
      BY <1>7, <3>1 DEF um, vm
    <3> QED
      BY <1>7, <3>1, <3>2
  <2>2. u[m] = um + wb /\ v[m] = vm + wp
    BY <1>2, <1>3
  <2>3. /\ m - 1 < k => vm = um
        /\ m - 1 = k => vm = um - x + x2
        /\ m - 1 > k => vm = um - old + w /\ um - old >= 0
    BY <1>9
  <2>4. /\ m = k => wb = x /\ wp = x2
        /\ m = k + 1 => wb = y /\ wp = y2
        /\ m # k /\ m # k + 1 => wp = wb
    BY <1>4
  <2>5. wb \in Nat
    BY ByteTypes, Widths DEF n
  <2>6. m = k + 1 => um >= x
    <3>1. k - 1 \in 0 .. n /\ u[k - 1] \in Nat /\ u[k] = u[k - 1] + x
      <4>1. k - 1 \in 0 .. n
        BY <1>6
      <4> QED
        BY <1>2, <1>4, <1>6, <1>7, <4>1
    <3>2. m = k + 1 => um = u[k]
      BY <1>6
    <3> HIDE DEF um
    <3> QED
      BY <1>5, <3>1, <3>2
  <2> DEFINE un == u[m]
             vn == v[m]
  <2> HIDE DEF um, vm, wb, wp, un, vn
  <2>7. /\ m < k => vn = un
        /\ m = k => vn = un - x + x2
        /\ m > k => vn = un - old + w /\ un - old >= 0
    <3>1. um \in Nat /\ vm \in Nat /\ m \in Int /\ k \in Int /\ un = um + wb /\ vn = vm + wp
      BY <1>1, <2>1, <2>2 DEF un, vn
    <3> QED
      BY <1>5, <2>3, <2>4, <2>5, <2>6, <3>1
  <2> QED
    BY <2>1, <2>7 DEF un, vn
<1> HIDE DEF T
<1>10. 0 .. n \subseteq T
  BY <1>1, <1>8, <1>9, InductionUpTo
<1>11. v[n] = u[n] - old + w /\ u[n] - old >= 0
  BY <1>1, <1>10 DEF T
<1>12. u[n] \in Nat /\ old \in Int
  BY SMTT(30), <1>1, <1>2, <1>5
<1> QED
  BY <1>1, <1>11, <1>12 DEF Total, n, u, v, p, old, x, y, x2, y2

(* What is in front with an even length adds to the sum of the rest.       *)
LEMMA TotalConcat ==
  ASSUME NEW a \in Seq(Byte), NEW b \in Seq(Byte), Len(a) % 2 = 0
  PROVE  Total(a \o b) = Total(a) + Total(b) /\ Total(a) \in Nat /\ Total(b) \in Nat
<1> DEFINE c == a \o b
           m == Len(a)
           n == Len(b)
           u == SumUpTo(a)
           v == SumUpTo(b)
           w == SumUpTo(c)
           S == {k \in 0 .. m : w[k] = u[k]}
           T == {k \in 0 .. n : w[m + k] = u[m] + v[k]}
<1>1. /\ c \in Seq(Byte) /\ Len(c) = m + n /\ m \in Nat /\ n \in Nat
      /\ \A k \in 1 .. m : c[k] = a[k]
      /\ \A k \in 1 .. n : c[m + k] = b[k]
  OBVIOUS
<1>2. u \in [0 .. m -> Nat] /\ u[0] = 0 /\ \A k \in 1 .. m : u[k] = u[k - 1] + Weighted(a, k)
  BY SumUpToIs
<1>3. v \in [0 .. n -> Nat] /\ v[0] = 0 /\ \A k \in 1 .. n : v[k] = v[k - 1] + Weighted(b, k)
  BY SumUpToIs
<1>4. w[0] = 0 /\ \A k \in 1 .. m + n : w[k] = w[k - 1] + Weighted(c, k)
  <2>1. w[0] = 0 /\ \A k \in 1 .. Len(c) : w[k] = w[k - 1] + Weighted(c, k)
    <3>1. c \in Seq(Byte)
      BY <1>1
    <3> HIDE DEF c
    <3> QED
      BY <3>1, SumUpToIs
  <2> QED
    BY <1>1, <2>1
<1>5. \A k \in 1 .. m : Weighted(c, k) = Weighted(a, k)
  BY <1>1 DEF Weighted
<1>6. \A k \in 1 .. n : Weighted(c, m + k) = Weighted(b, k)
  <2>1. ASSUME NEW k \in 1 .. n PROVE Weighted(c, m + k) = Weighted(b, k)
    <3>1. (m + k) % 2 = k % 2
      <4>1. m \in Nat /\ k \in Nat /\ m % 2 = 0
        BY <1>1
      <4> HIDE DEF m
      <4> QED
        BY <4>1
    <3>2. c[m + k] = b[k]
      BY <1>1
    <3> HIDE DEF c, m
    <3> QED
      BY <3>1, <3>2 DEF Weighted
  <2> QED
    BY <2>1
<1>7. \A k \in 1 .. n : Weighted(b, k) \in Nat
  BY ByteTypes, Widths
<1> HIDE DEF c, m, n, u, v, w
<1>8. m \in S
  <2>1. 0 \in S
    BY <1>1, <1>2, <1>4
  <2>2. \A k \in 1 .. m : k - 1 \in S => k \in S
    BY SMTT(30), <1>1, <1>2, <1>4, <1>5
  <2> HIDE DEF S
  <2>3. 0 .. m \subseteq S
    BY <1>1, <2>1, <2>2, InductionUpTo
  <2> QED
    BY <1>1, <2>3
<1>9. n \in T
  <2>1. 0 \in T
    BY <1>1, <1>2, <1>3, <1>8
  <2>2. ASSUME NEW k \in 1 .. n, k - 1 \in T PROVE k \in T
    <3>1. w[m + (k - 1)] = u[m] + v[k - 1]
      BY <2>2
    <3>2. m + k \in 1 .. m + n /\ (m + k) - 1 = m + (k - 1)
      BY <1>1
    <3>3. w[m + k] = w[m + (k - 1)] + Weighted(b, k)
      BY <1>4, <1>6, <3>2
    <3>4. v[k] = v[k - 1] + Weighted(b, k) /\ v[k - 1] \in Nat /\ u[m] \in Nat /\ Weighted(b, k) \in Nat
      BY <1>1, <1>2, <1>3, <1>7
    <3>5. k \in 0 .. n
      BY <1>1
    <3> QED
      BY <3>1, <3>3, <3>4, <3>5
  <2> HIDE DEF T
  <2>3. 0 .. n \subseteq T
    BY <1>1, <2>1, <2>2, InductionUpTo
  <2> QED
    BY <1>1, <2>3
<1>10. w[m + n] = u[m] + v[n] /\ u[m] \in Nat /\ v[n] \in Nat
  BY <1>1, <1>2, <1>3, <1>9
<1> QED
  BY <1>1, <1>10 DEF Total, c, m, n, u, v, w

-----------------------------------------------------------------------------
(* The inductive invariant *)

Region == SubSeq(modified, Start(region), End(region))

(* The word at the place holds the checksum of the bytes. *)
Checksummed(bytes, at) == WordAt(bytes, at) = Checksum(Total(bytes) - WordAt(bytes, at))

(* b is all of p's bytes but those at some places. *)
IsFrame(p, b, places) ==
  /\ b \in Seq(Byte) /\ Len(b) = p.size
  /\ \A k \in DOMAIN p.bytes \ places : b[k] = p.bytes[k]

(* b begins like an echo request behind the IP header of p. *)
IsRequest(p, b) == b[p.hlen + ICMP_TYPE] = ICMP_ECHO /\ b[p.hlen + ICMP_CODE] = 0

(* The checksum of the ICMP header, where there is one, and that of IP's.  *)
IcmpDone(p, b) ==
  p.len >= p.hlen + IcmpHeader => Checksummed(SubSeq(b, p.hlen + 1, p.len), ICMP_CKSUM)
IpDone(p, b) == Checksummed(SubSeq(b, 1, p.hlen), IP_SUM)

Reply(p) == Plane!LooksLikeReply(p)

(* What may be sent for p.                                                 *)
IsSent(p, b) ==
  IF Reply(p)
    THEN IsFrame(p, b, Plane!Renewed(p)) /\ IsRequest(p, b) /\ IcmpDone(p, b) /\ IpDone(p, b)
    ELSE IsFrame(p, b, {})

Places ==
  /\ datagram \in Datagrams /\ taken \in 0 .. Len(datagram)
  /\ pc \in {"next", "decide", "copy", "rewrite", "sum", "send"}
  /\ pc = "next" => Len(wire) = taken
  /\ pc # "next" => /\ taken # 0 /\ Len(wire) = taken - 1
                    /\ packet = datagram[taken]
  /\ pc \in {"copy", "rewrite", "sum"} => Reply(packet)
  /\ wire \in Seq(Packets)

(* The loop of checksum has added up the bytes before addr.                *)
Summing ==
  /\ region \in {"icmp", "ip"}
  /\ addr \in Start(region) .. End(region) + 1
  /\ addr # End(region) + 1 => (addr - Start(region)) % 2 = 0
  /\ sum = SumUpTo(Region)[addr - Start(region)]

Working ==
  /\ pc \in {"next", "decide", "copy"} => modified = <<>>
  /\ pc = "rewrite" => IsFrame(packet, modified, {})
  /\ pc = "sum" =>
       /\ IsFrame(packet, modified, Plane!Renewed(packet)) /\ IsRequest(packet, modified)
       /\ region = "icmp" => WordAt(modified, packet.hlen + ICMP_CKSUM) = 0
       /\ region = "ip" => IcmpDone(packet, modified) /\ WordAt(modified, IP_SUM) = 0
       /\ Summing
  /\ pc = "send" => IF Reply(packet) THEN IsSent(packet, modified) ELSE modified = <<>>

(* What has been sent is what may be sent for what was captured.           *)
Delivered ==
  \A k \in 1 .. Len(wire) :
    /\ wire[k] = [datagram[k] EXCEPT !.bytes = wire[k].bytes]
    /\ IsSent(datagram[k], wire[k].bytes)

Lines == [size : Nat, len : Nat, header : {Monitor!HeaderInfo(p) : p \in Packets}]

(* The monitor has shown what was on the wire.                             *)
Shown ==
  /\ screen \in Seq(Lines) /\ Len(screen) <= Len(wire)
  /\ \A k \in 1 .. Len(screen) : screen[k].header = Monitor!HeaderInfo(wire[k])

-----------------------------------------------------------------------------
(* Checksums *)

(* The receiver accepts what has its checksum unless a carry was lost.     *)
LEMMA AcceptedIffOnce ==
  ASSUME NEW b \in Seq(Byte), Len(b) < WordBase,
         NEW k \in 1 .. Len(b) - 1, k % 2 = 1, Checksummed(b, k)
  PROVE  Accepted(b) <=> ~CarriesTwice(b, k)
<1> DEFINE t == Total(b)
           s == t - WordAt(b, k)
<1>1. 0 \in 0 .. WordBase - 1
  BY Widths
<1>2. s \in Nat /\ WordAt(b, k) \in 0 .. WordBase - 1
  BY <1>1, PutIs, TotalPut
<1>3. t \in Nat /\ t < WordBase * WordBase
  BY SumBounded DEF Total
<1>4. WordAt(b, k) = Checksum(s)
  BY DEF Checksummed
<1> DEFINE w == WordAt(b, k)
<1>5. s \in Nat /\ t \in Nat /\ w \in Nat /\ s = t - w /\ t < WordBase * WordBase
  BY <1>2, <1>3
<1>6. Accepted(b) <=> t > 0 /\ t % (WordBase - 1) = 0
  BY DEF Accepted
<1>7. CarriesTwice(b, k) <=> Fold(s) >= WordBase
  BY DEF CarriesTwice, Fold
<1> HIDE DEF t, s, w
<1>8. t = s + w /\ s < WordBase * WordBase
  BY <1>5, Widths
<1>9. (s + w > 0 /\ (s + w) % (WordBase - 1) = 0) <=> Fold(s) < WordBase
  <2>1. w = Checksum(s)
    BY <1>4 DEF w
  <2> QED
    BY <1>5, <1>8, <2>1, ChecksumAccepted
<1>10. Fold(s) \in Int /\ WordBase \in Int
  BY <1>5, <1>8, FoldCongruent, Widths
<1> QED
  BY <1>6, <1>7, <1>8, <1>9, <1>10

(* A checksum that is stored where the field was cleared is the right one. *)
LEMMA StoreChecksum ==
  ASSUME NEW b \in Seq(Byte), NEW i \in 1 .. Len(b), NEW j \in 1 .. Len(b),
         j - i >= 3, j - i + 1 < WordBase,
         WordAt(b, i + 2) = 0,
         NEW c, c = Checksum(Total(SubSeq(b, i, j)))
  PROVE  /\ c \in 0 .. WordBase - 1
         /\ Checksummed(SubSeq(Put(b, i + 2, c), i, j), 3)
<1> DEFINE r == SubSeq(b, i, j)
<1>1. r \in Seq(Byte) /\ Len(r) = j - i + 1 /\ \A k \in 1 .. j - i + 1 : r[k] = b[i + k - 1]
  <2>1. i \in 1 .. Len(b) + 1 /\ j \in 0 .. Len(b) /\ i <= j + 1
    OBVIOUS
  <2> QED
    BY <2>1, PartIs
<1>2. WordAt(r, 3) = 0
  <2>1. r[3] = b[i + 2] /\ r[4] = b[(i + 2) + 1]
    <3>1. 3 \in 1 .. j - i + 1 /\ 4 \in 1 .. j - i + 1 /\ i + 3 - 1 = i + 2 /\ i + 4 - 1 = (i + 2) + 1
      OBVIOUS
    <3> HIDE DEF r
    <3> QED
      BY <1>1, <3>1
  <2> HIDE DEF r
  <2> QED
    BY <2>1 DEF WordAt
<1>3. Total(r) \in Nat /\ Total(r) < WordBase * WordBase
  <2>1. r \in Seq(Byte) /\ Len(r) < WordBase /\ Len(r) \in 0 .. Len(r)
    BY <1>1
  <2> HIDE DEF r
  <2> QED
    BY <2>1, SumBounded DEF Total
<1>4. c \in 0 .. WordBase - 1
  BY <1>3, ChecksumAccepted
<1>5. SubSeq(Put(b, i + 2, c), i, j) = Put(r, 3, c)
  <2>1. 3 \in 1 .. j - i /\ i + 3 - 1 = i + 2
    OBVIOUS
  <2>2. SubSeq(Put(b, i + 3 - 1, c), i, j) = Put(SubSeq(b, i, j), 3, c)
    BY <1>4, <2>1, PutInside
  <2> QED
    BY <2>1, <2>2
<1> DEFINE p == Put(r, 3, c)
<1>6. WordAt(p, 3) = c /\ Total(p) = Total(r) - WordAt(r, 3) + c
  <2>1. r \in Seq(Byte) /\ 3 \in 1 .. Len(r) - 1 /\ 3 % 2 = 1
    BY <1>1
  <2> HIDE DEF r
  <2> QED
    BY <1>4, <2>1, PutIs, TotalPut
<1> HIDE DEF r, p
<1>7. Total(p) - WordAt(p, 3) = Total(r)
  BY <1>2, <1>3, <1>4, <1>6
<1>8. Checksummed(p, 3)
  BY <1>6, <1>7 DEF Checksummed, r
<1> QED
  BY <1>4, <1>5, <1>8 DEF p

-----------------------------------------------------------------------------
(* Packets and frames *)

(* What is known of the packets of a datagram.                             *)
LEMMA DatagramTypes ==
  ASSUME datagram \in Datagrams
  PROVE  /\ datagram \in Seq(Packets) /\ Len(datagram) \in Nat /\ Len(datagram) >= 1
         /\ \A k \in 1 .. Len(datagram) : IsPacket(datagram[k]) /\ IsFragment(datagram, k)
<1>1. datagram \in Seq(Packets) /\ datagram # <<>>
  BY PacketPathAssumption
<1>2. Len(datagram) \in Nat /\ Len(datagram) >= 1 /\ DOMAIN datagram = 1 .. Len(datagram)
  <2> DEFINE P == Packets
  <2>1. datagram \in Seq(P) /\ datagram # <<>>
    BY <1>1
  <2> HIDE DEF P
  <2> QED
    BY <2>1
<1>3. \A k \in DOMAIN datagram : IsPacket(datagram[k]) /\ IsFragment(datagram, k)
  BY PacketPathAssumption
<1> QED
  BY <1>1, <1>2, <1>3

(* What is known of a packet as a host sends it. *)
LEMMA PacketTypes ==
  ASSUME NEW p, IsPacket(p)
  PROVE  /\ p.bytes \in Seq(Byte) /\ Len(p.bytes) \in Nat /\ DOMAIN p.bytes = 1 .. Len(p.bytes)
         /\ p.size \in Nat /\ p.hlen \in Nat /\ p.len \in Nat /\ p.header \in Headers
         /\ p.proto \in Protocols
         /\ p.hlen >= 4 /\ p.hlen + 6 <= Len(p.bytes) /\ Len(p.bytes) <= p.size
         /\ p.hlen <= p.len /\ p.len <= p.size /\ p.len < WordBase
<1>1. p \in Packets
  BY DEF IsPacket
<1>2. p.bytes \in Seq(Byte)
  BY <1>1 DEF Packets
<1>3. Len(p.bytes) \in Nat /\ DOMAIN p.bytes = 1 .. Len(p.bytes)
  <2> DEFINE b == p.bytes
  <2>1. b \in Seq(Byte)
    BY <1>2
  <2> HIDE DEF b
  <2>2. Len(b) \in Nat /\ DOMAIN b = 1 .. Len(b)
    BY <2>1
  <2> QED
    BY <2>2 DEF b
<1>4. /\ p.size \in Nat /\ p.hlen \in Nat /\ p.len \in Nat /\ p.header \in Headers
      /\ p.proto \in Protocols
  BY <1>1 DEF Packets
<1> QED
  BY <1>2, <1>3, <1>4 DEF IsPacket, MinHeader, UdpHeader

(* SubstitutionPlane and IcmpSubstitution mean the same packets.           *)
LEMMA ReplyIs ==
  ASSUME NEW p
  PROVE  /\ Reply(p) <=> /\ IsActive /\ p.proto = "icmp" /\ p.target
                         /\ p.bytes[p.hlen + 1] = 0
         /\ Plane!Renewed(p) = {3, 4} \cup p.hlen + 1 .. p.hlen + 4
  BY DEF Reply, Plane!LooksLikeReply, Plane!Renewed, Plane!ICMP_TYPE, Plane!ICMP_ECHOREPLY,
     Plane!IP_SUM, Plane!IcmpHeader

(* The code decides as SubstitutionPlane does. *)
LEMMA SubstitutesIs == Substitutes <=> Reply(packet)
  BY ReplyIs DEF Substitutes, IcmpAt, ICMP_TYPE, ICMP_ECHOREPLY

(* The frame that is copied or sent begins with what was captured.         *)
LEMMA WholeIsFrame ==
  ASSUME IsPacket(packet), NEW frame \in WholeFrames
  PROVE  IsFrame(packet, frame, {})
<1> DEFINE b == packet.bytes
           n == packet.size - Len(b)
<1>1. b \in Seq(Byte) /\ n \in Nat /\ packet.size \in Nat /\ Len(b) + n = packet.size
  BY PacketTypes
<1>2. PICK beyond \in [1 .. n -> Byte] : frame = b \o beyond
  BY DEF WholeFrames
<1> HIDE DEF b, n
<1>3. beyond \in Seq(Byte) /\ Len(beyond) = n
  BY <1>1, <1>2
<1>4. frame \in Seq(Byte) /\ Len(frame) = Len(b) + n /\ \A k \in DOMAIN b : frame[k] = b[k]
  <2>1. b \in Seq(Byte) /\ beyond \in Seq(Byte)
    BY <1>1, <1>3
  <2>2. /\ b \o beyond \in Seq(Byte) /\ Len(b \o beyond) = Len(b) + Len(beyond)
        /\ \A k \in DOMAIN b : (b \o beyond)[k] = b[k]
    BY <2>1
  <2> QED
    BY <1>2, <1>3, <2>2
<1> QED
  BY <1>1, <1>4 DEF IsFrame, b

(* A frame of which less is asked.                                         *)
LEMMA FrameButMore ==
  ASSUME NEW p, NEW b, NEW S, NEW R, S \subseteq R, IsFrame(p, b, S)
  PROVE  IsFrame(p, b, R)
  BY DEF IsFrame

(* To put a word at places that do not count.                              *)
LEMMA FramePut ==
  ASSUME NEW p, IsPacket(p), NEW b, NEW S, IsFrame(p, b, S),
         NEW k \in 1 .. p.size - 1, k \in S, k + 1 \in S, NEW w \in 0 .. WordBase - 1
  PROVE  /\ IsFrame(p, Put(b, k, w), S)
         /\ WordAt(Put(b, k, w), k) = w
         /\ \A j \in 1 .. p.size : j # k /\ j # k + 1 => Put(b, k, w)[j] = b[j]
<1>1. b \in Seq(Byte) /\ Len(b) = p.size /\ k \in 1 .. Len(b) - 1
  BY DEF IsFrame
<1>2. /\ Put(b, k, w) \in Seq(Byte) /\ Len(Put(b, k, w)) = p.size
      /\ WordAt(Put(b, k, w), k) = w
      /\ \A j \in 1 .. p.size : j # k /\ j # k + 1 => Put(b, k, w)[j] = b[j]
  <2>1. /\ Put(b, k, w) \in Seq(Byte) /\ Len(Put(b, k, w)) = Len(b)
        /\ WordAt(Put(b, k, w), k) = w
        /\ \A j \in 1 .. Len(b) : j # k /\ j # k + 1 => Put(b, k, w)[j] = b[j]
    BY SMTT(30), <1>1, PutIs
  <2> QED
    BY <1>1, <2>1
<1>3. \A j \in DOMAIN p.bytes : j \in 1 .. p.size
  BY PacketTypes
<1>4. \A j \in DOMAIN p.bytes \ S : Put(b, k, w)[j] = p.bytes[j]
  BY <1>2, <1>3 DEF IsFrame
<1> QED
  BY <1>2, <1>4 DEF IsFrame

-----------------------------------------------------------------------------
(* The places the packets are in *)

(* The packet in processPacket is one of the datagram.                     *)
LEMMA PacketIs ==
  ASSUME Places, pc # "next"
  PROVE  /\ IsPacket(packet) /\ taken \in 1 .. Len(datagram) /\ packet = datagram[taken]
         /\ Len(wire) = taken - 1 /\ Len(wire) + 1 = taken
<1>1. taken \in 0 .. Len(datagram) /\ taken # 0 /\ Len(datagram) \in Nat
  BY DatagramTypes DEF Places
<1>2. taken \in 1 .. Len(datagram) /\ packet = datagram[taken] /\ Len(wire) = taken - 1
  BY <1>1 DEF Places
<1> QED
  BY <1>1, <1>2, DatagramTypes DEF Places

(* What is sent is for the packet that was captured.                       *)
LEMMA SendIs ==
  ASSUME Places, Working, Send
  PROVE  \E frame \in Seq(Byte) :
           /\ wire' = Append(wire, [packet EXCEPT !.bytes = frame])
           /\ IsSent(packet, frame)
<1>1. pc = "send"
  BY DEF Send
<1>2. IsPacket(packet)
  BY <1>1, PacketIs
<1>3. PICK frame \in (IF modified = <<>> THEN WholeFrames ELSE {modified}) :
        wire' = Append(wire, [packet EXCEPT !.bytes = frame])
  BY DEF Send
<1>4. CASE Reply(packet)
  <2>1. IsSent(packet, modified)
    BY <1>1, <1>4 DEF Working
  <2>2. modified \in Seq(Byte) /\ Len(modified) = packet.size
    BY <1>4, <2>1 DEF IsSent, IsFrame
  <2>3. modified # <<>>
    BY <1>2, <2>2, PacketTypes
  <2> QED
    BY <1>3, <2>1, <2>2, <2>3
<1>5. CASE ~Reply(packet)
  <2>1. frame \in WholeFrames
    BY <1>1, <1>3, <1>5 DEF Working
  <2>2. IsFrame(packet, frame, {})
    BY <1>2, <2>1, WholeIsFrame
  <2> QED
    BY <1>3, <1>5, <2>2 DEF IsSent, IsFrame
<1> QED
  BY <1>4, <1>5

(* At first nothing was captured or sent. *)
LEMMA PlacesInit ==
  ASSUME Init
  PROVE  Places
<1>1. Len(datagram) \in Nat /\ datagram \in Datagrams
  BY DatagramTypes DEF Init
<1>2. taken = 0 /\ wire = <<>> /\ pc = "next"
  BY DEF Init, SwitchInit
<1> QED
  BY <1>1, <1>2 DEF Places

(* The datagram stays as it is.                                            *)
LEMMA DatagramSame ==
  ASSUME [Next]_vars
  PROVE  datagram' = datagram
  BY DEF Next, Capture, Process, Watch, Done, vars

(* A packet is captured when the one before has been sent. *)
LEMMA PlacesCapture ==
  ASSUME Places, Capture
  PROVE  Places'
<1>1. /\ pc = "next" /\ packet' = datagram[taken + 1] /\ pc' = "decide"
      /\ taken' = taken + 1 /\ taken < Len(datagram) /\ UNCHANGED <<datagram, wire>>
  BY DEF Capture, Call
<1>2. Len(wire) = taken /\ taken \in 0 .. Len(datagram) /\ Len(datagram) \in Nat
  BY <1>1, DatagramTypes DEF Places
<1>3. taken + 1 \in 0 .. Len(datagram) /\ taken + 1 # 0 /\ Len(wire) = (taken + 1) - 1
  BY <1>1, <1>2
<1> QED
  BY <1>1, <1>3 DEF Places

(* In processPacket only replies are copied, and Send is the last step. *)
LEMMA PlacesProcess ==
  ASSUME Places, Working, Process
  PROVE  Places'
<1>0. UNCHANGED <<datagram, taken>>
  BY DEF Process
<1>1. CASE Decide
  <2>1. pc = "decide" /\ UNCHANGED <<packet, wire>> /\ pc' = IF Reply(packet) THEN "copy" ELSE "send"
    BY <1>1, SubstitutesIs DEF Decide
  <2>2. Reply(packet)' = Reply(packet)
    BY <2>1 DEF Reply, Plane!LooksLikeReply
  <2> QED
    BY <1>0, <2>1, <2>2 DEF Places
<1>2. CASE Copy \/ Rewrite \/ AddWord \/ AddByte \/ StoreIcmp \/ StoreIp
  <2>1. /\ pc \in {"copy", "rewrite", "sum"} /\ UNCHANGED <<packet, wire>>
        /\ pc' \in {"rewrite", "sum", "send"}
    BY <1>2 DEF Copy, Rewrite, RewriteTo, AddWord, AddByte, StoreIcmp, StoreIp
  <2>2. Reply(packet)' = Reply(packet)
    BY <2>1 DEF Reply, Plane!LooksLikeReply
  <2> QED
    BY <1>0, <2>1, <2>2 DEF Places
<1>3. CASE Send
  <2>1. pc = "send" /\ pc' = "next"
    BY <1>3 DEF Send
  <2>2. PICK frame \in Seq(Byte) : wire' = Append(wire, [packet EXCEPT !.bytes = frame])
    BY <1>3, SendIs
  <2>3. packet \in Packets
    BY <2>1, PacketIs DEF IsPacket
  <2>4. [packet EXCEPT !.bytes = frame] \in Packets
    BY <2>3 DEF Packets
  <2>5. wire \in Seq(Packets) /\ Len(wire) = taken - 1 /\ taken \in 1 .. Len(datagram)
    BY <2>1, PacketIs DEF Places
  <2>6. wire' \in Seq(Packets) /\ Len(wire') = taken
    <3> DEFINE P == Packets
               e == [packet EXCEPT !.bytes = frame]
    <3>1. wire \in Seq(P) /\ e \in P /\ wire' = Append(wire, e)
      BY <2>2, <2>4, <2>5
    <3> HIDE DEF P, e
    <3>2. wire' \in Seq(P) /\ Len(wire') = Len(wire) + 1
      BY <3>1
    <3>3. taken \in Int
      BY <2>5
    <3> QED
      BY <2>5, <3>2, <3>3 DEF P
  <2> QED
    BY <1>0, <2>1, <2>6 DEF Places
<1> QED
  BY <1>1, <1>2, <1>3 DEF Process, ProcessPacket

(* The other steps leave the packets in their places. *)
LEMMA PlacesNext ==
  ASSUME Places, Working, [Next]_vars
  PROVE  Places'
<1>1. CASE Watch \/ Done \/ UNCHANGED vars
  <2>1. UNCHANGED <<datagram, taken, packet, pc, wire>>
    BY <1>1 DEF Watch, Monitor!Handler, Done, vars, switchVars
  <2> QED
    BY <2>1 DEF Places, Reply, Plane!LooksLikeReply
<1> QED
  BY <1>1, PlacesCapture, PlacesProcess DEF Next

-----------------------------------------------------------------------------
(* The substitution *)

(* Type, code and checksum field are overwritten, and nothing else. *)
LEMMA RewriteKeeps ==
  ASSUME Places, Working, Rewrite
  PROVE  /\ IsFrame(packet, modified', Plane!Renewed(packet)) /\ IsRequest(packet, modified')
         /\ WordAt(modified', packet.hlen + ICMP_CKSUM) = 0
<1> DEFINE p == packet
           h == packet.hlen
           R == Plane!Renewed(packet)
           e == [modified EXCEPT ![h + 1] = 1, ![h + 2] = 0]
<1>1. pc = "rewrite"
  BY DEF Rewrite, RewriteTo
<1>2. IsPacket(p) /\ IsFrame(p, modified, {})
  BY <1>1, PacketIs DEF Working
<1>3. h \in Nat /\ h >= 4 /\ h + 6 <= p.size /\ p.size \in Nat
  BY <1>2, PacketTypes
<1>4. R = {3, 4} \cup h + 1 .. h + 4
  BY ReplyIs
<1>5. modified' = Put(e, h + 3, 0)
  BY DEF Rewrite, RewriteTo, EchoRequest, ChecksumAt, IcmpAt, ICMP_TYPE, ICMP_CODE, ICMP_CKSUM,
     ICMP_ECHO
<1> HIDE DEF p, h, R
<1>6. /\ e \in Seq(Byte) /\ Len(e) = p.size
      /\ \A k \in 1 .. p.size : e[k] = IF k = h + 1 THEN 1 ELSE IF k = h + 2 THEN 0 ELSE modified[k]
  <2>1. modified \in [1 .. p.size -> Byte] /\ 1 \in Byte /\ 0 \in Byte
    <3>1. modified \in Seq(Byte) /\ Len(modified) = p.size
      BY <1>2 DEF IsFrame
    <3> QED
      BY <3>1, Widths DEF Byte
  <2>2. h + 1 \in 1 .. p.size /\ h + 2 \in 1 .. p.size /\ h + 1 # h + 2
    BY <1>3
  <2>3. /\ e \in [1 .. p.size -> Byte]
        /\ \A k \in 1 .. p.size : e[k] = IF k = h + 1 THEN 1 ELSE IF k = h + 2 THEN 0 ELSE modified[k]
    BY <2>1, <2>2 DEF h
  <2> HIDE DEF e
  <2>4. e \in Seq(Byte) /\ Len(e) = p.size
    BY <1>3, <2>3
  <2> QED
    BY <2>3, <2>4
<1> HIDE DEF e
<1>7. IsFrame(p, e, R)
  <2>1. \A k \in DOMAIN p.bytes \ R : k \in 1 .. p.size /\ k # h + 1 /\ k # h + 2
    <3>1. \A k \in DOMAIN p.bytes : k \in 1 .. p.size
      BY <1>2, PacketTypes
    <3>2. h + 1 \in R /\ h + 2 \in R
      BY <1>3, <1>4
    <3> QED
      BY <3>1, <3>2
  <2>2. \A k \in DOMAIN p.bytes : modified[k] = p.bytes[k]
    BY <1>2 DEF IsFrame
  <2>3. \A k \in DOMAIN p.bytes \ R : e[k] = p.bytes[k]
    BY <1>6, <2>1, <2>2
  <2> QED
    BY <1>6, <2>3 DEF IsFrame
<1>8. /\ IsFrame(p, Put(e, h + 3, 0), R) /\ WordAt(Put(e, h + 3, 0), h + 3) = 0
      /\ \A j \in 1 .. p.size : j # h + 3 /\ j # (h + 3) + 1 => Put(e, h + 3, 0)[j] = e[j]
  <2>1. h + 3 \in 1 .. p.size - 1 /\ h + 3 \in R /\ (h + 3) + 1 \in R
    BY <1>3, <1>4
  <2>2. 0 \in 0 .. WordBase - 1
    BY Widths
  <2> QED
    BY <1>2, <1>7, <2>1, <2>2, FramePut
<1>9. IsRequest(p, Put(e, h + 3, 0))
  <2>1. h + 1 \in 1 .. p.size /\ h + 2 \in 1 .. p.size /\ h + 1 # h + 3 /\ h + 1 # (h + 3) + 1
        /\ h + 2 # h + 3 /\ h + 2 # (h + 3) + 1 /\ h + 2 # h + 1
    BY <1>3
  <2>2. Put(e, h + 3, 0)[h + 1] = 1 /\ Put(e, h + 3, 0)[h + 2] = 0
    BY <1>6, <1>8, <2>1
  <2> QED
    BY <2>2 DEF IsRequest, ICMP_TYPE, ICMP_CODE, ICMP_ECHO, p, h
<1> QED
  BY <1>5, <1>8, <1>9 DEF p, h, R, ICMP_CKSUM

(* The region whose checksum is computed.                                  *)
LEMMA RegionIs ==
  ASSUME Places, Working, pc = "sum"
  PROVE  /\ IsPacket(packet) /\ modified \in Seq(Byte) /\ Len(modified) = packet.size
         /\ region \in {"icmp", "ip"}
         /\ Start(region) = IF region = "ip" THEN 1 ELSE packet.hlen + 1
         /\ End(region) = IF region = "ip" THEN packet.hlen ELSE packet.len
         /\ Start(region) \in 1 .. packet.size /\ End(region) \in 1 .. packet.size
         /\ Start(region) <= End(region) + 1 /\ End(region) - Start(region) + 1 < WordBase
         /\ Region \in Seq(Byte) /\ Len(Region) = End(region) - Start(region) + 1
         /\ \A k \in 1 .. Len(Region) : Region[k] = modified[Start(region) + k - 1]
<1>1. IsPacket(packet)
  BY PacketIs
<1>2. modified \in Seq(Byte) /\ Len(modified) = packet.size /\ region \in {"icmp", "ip"}
  BY DEF Working, IsFrame, Summing
<1>3. /\ Start(region) = IF region = "ip" THEN 1 ELSE packet.hlen + 1
      /\ End(region) = IF region = "ip" THEN packet.hlen ELSE packet.len
  BY DEF Start, End
<1> DEFINE f == Start(region)
           l == End(region)
           n == packet.size
<1>4. f \in 1 .. n /\ l \in 1 .. n /\ f <= l + 1 /\ l - f + 1 < WordBase /\ n \in Nat
  <2>1. /\ n \in Nat /\ packet.hlen \in Nat /\ packet.len \in Nat
        /\ packet.hlen >= 4 /\ packet.hlen <= packet.len /\ packet.hlen + 6 <= n
        /\ packet.len <= n /\ packet.len < WordBase
    BY <1>1, PacketTypes
  <2>2. CASE region = "ip"
    BY <1>3, <2>1, <2>2, Widths
  <2>3. CASE region = "icmp"
    BY <1>3, <2>1, <2>3, Widths
  <2> QED
    BY <1>2, <2>2, <2>3
<1> HIDE DEF f, l, n
<1>5. /\ Region \in Seq(Byte) /\ Len(Region) = l - f + 1
      /\ \A k \in 1 .. l - f + 1 : Region[k] = modified[f + k - 1]
  <2>1. f \in 1 .. Len(modified) + 1 /\ l \in 0 .. Len(modified) /\ modified \in Seq(Byte)
    BY <1>2, <1>4 DEF n
  <2>2. f <= l + 1
    BY <1>4
  <2>3. Region = SubSeq(modified, f, l)
    BY DEF Region, f, l
  <2>4. /\ SubSeq(modified, f, l) \in Seq(Byte) /\ Len(SubSeq(modified, f, l)) = l - f + 1
        /\ \A k \in 1 .. l - f + 1 : SubSeq(modified, f, l)[k] = modified[f + k - 1]
    BY <2>1, <2>2, PartIs
  <2> QED
    BY <2>3, <2>4
<1> QED
  BY <1>1, <1>2, <1>3, <1>4, <1>5 DEF f, l, n

(* One turn of the loop adds the next word or the last byte, in a uint32_t *)
(* that is wide enough.                                                    *)
LEMMA AddKeeps ==
  ASSUME Places, Working, AddWord \/ AddByte
  PROVE  /\ addr' \in Start(region) .. End(region) + 1
         /\ addr' # End(region) + 1 => (addr' - Start(region)) % 2 = 0
         /\ sum' = SumUpTo(Region)[addr' - Start(region)]
<1> DEFINE f == Start(region)
           l == End(region)
           u == SumUpTo(Region)
           n == Len(Region)
           j == addr - f
<1>1. pc = "sum"
  BY DEF AddWord, AddByte
<1>2. /\ Region \in Seq(Byte) /\ n = l - f + 1 /\ n < WordBase
      /\ f \in Nat /\ l \in Nat /\ f <= l + 1
      /\ \A k \in 1 .. n : Region[k] = modified[f + k - 1]
  BY <1>1, RegionIs
<1>3. /\ addr \in f .. l + 1 /\ sum = u[j] /\ (addr # l + 1 => j % 2 = 0)
  BY <1>1 DEF Working, Summing
<1>4. Left = l - addr + 1
  BY DEF Left
<1>5. /\ \A k \in 1 .. n : u[k] = u[k - 1] + Weighted(Region, k)
      /\ \A k \in 0 .. n : u[k] \in Nat /\ u[k] < WordBase * WordBase
      /\ \A k \in 1 .. n : Region[k] \in Nat
  <2>1. Region \in Seq(Byte) /\ Len(Region) < WordBase
    BY <1>2
  <2> QED
    BY <2>1, SumUpToIs, SumBounded, ByteTypes
<1>6. \A k : Weighted(Region, k) = IF k % 2 = 0 THEN ByteBase * Region[k] ELSE Region[k]
  BY DEF Weighted
<1>7. ByteBase \in Nat /\ WordBase * WordBase \in Nat
  BY Widths
<1> HIDE DEF f, l, u, n
<1>8. n \in Nat /\ j \in 0 .. n
  BY <1>2, <1>3
<1>9. CASE AddWord
  <2>1. j + 1 \in 1 .. n /\ j + 2 \in 1 .. n /\ j % 2 = 0
    <3>1. addr < l
      BY <1>2, <1>3, <1>4, <1>9 DEF AddWord
    <3> QED
      BY <1>2, <1>3, <3>1
  <2>2. WordAt(modified, addr) = Region[j + 1] + ByteBase * Region[j + 2]
    <3>1. f + (j + 1) - 1 = addr /\ f + (j + 2) - 1 = addr + 1
      BY <1>2, <1>3
    <3>2. Region[j + 1] = modified[addr] /\ Region[j + 2] = modified[addr + 1]
      BY <1>2, <2>1, <3>1
    <3> QED
      BY <3>2 DEF WordAt
  <2>3. u[j + 2] = u[j] + (Region[j + 1] + ByteBase * Region[j + 2])
    <3>1. (j + 1) % 2 = 1 /\ (j + 2) % 2 = 0 /\ (j + 1) - 1 = j /\ (j + 2) - 1 = j + 1
      BY <1>8, <2>1
    <3>2. u[j + 1] = u[j] + Region[j + 1]
      BY <1>5, <1>6, <2>1, <3>1
    <3>3. u[j + 2] = u[j + 1] + ByteBase * Region[j + 2]
      BY <1>5, <1>6, <2>1, <3>1
    <3>4. u[j] \in Nat /\ Region[j + 1] \in Nat /\ Region[j + 2] \in Nat
      BY <1>5, <1>8, <2>1
    <3> DEFINE y == ByteBase * Region[j + 2]
    <3>5. y \in Nat
      BY <1>7, <3>4
    <3> HIDE DEF y
    <3> QED
      BY <3>2, <3>3, <3>4, <3>5 DEF y
  <2>4. sum' = (u[j] + WordAt(modified, addr)) % (WordBase * WordBase) /\ addr' = addr + 2
    BY <1>3, <1>9 DEF AddWord, Add
  <2>5. sum' = u[j + 2]
    <3>1. u[j + 2] \in Nat /\ u[j + 2] < WordBase * WordBase
      BY <1>5, <2>1
    <3>2. sum' = u[j + 2] % (WordBase * WordBase)
      BY <2>2, <2>3, <2>4
    <3> DEFINE x == u[j + 2]
               W == WordBase * WordBase
    <3>3. x \in Nat /\ W \in Nat /\ x < W /\ sum' = x % W
      BY <1>7, <3>1, <3>2
    <3> HIDE DEF x, W
    <3> QED
      BY <3>3 DEF x
  <2>6. addr' - f = j + 2 /\ addr' \in f .. l + 1 /\ (addr' - f) % 2 = 0
    BY <1>2, <1>3, <2>1, <2>4
  <2> QED
    BY <2>5, <2>6 DEF f, l, u
<1>10. CASE AddByte
  <2>1. j + 1 \in 1 .. n /\ j % 2 = 0 /\ addr = l
    <3>1. addr = l
      BY <1>2, <1>3, <1>4, <1>10 DEF AddByte
    <3> QED
      BY <1>2, <1>3, <3>1
  <2>2. modified[addr] = Region[j + 1]
    <3>1. f + (j + 1) - 1 = addr
      BY <1>2, <1>3
    <3> QED
      BY <1>2, <2>1, <3>1
  <2>3. u[j + 1] = u[j] + Region[j + 1]
    <3>1. (j + 1) % 2 = 1 /\ (j + 1) - 1 = j
      BY <1>8, <2>1
    <3> QED
      BY <1>5, <1>6, <2>1, <3>1
  <2>4. sum' = (u[j] + modified[addr]) % (WordBase * WordBase) /\ addr' = addr + 1
    BY <1>3, <1>10 DEF AddByte, Add
  <2>5. sum' = u[j + 1]
    <3>1. u[j + 1] \in Nat /\ u[j + 1] < WordBase * WordBase
      BY <1>5, <2>1
    <3>2. sum' = u[j + 1] % (WordBase * WordBase)
      BY <2>2, <2>3, <2>4
    <3> DEFINE x == u[j + 1]
               W == WordBase * WordBase
    <3>3. x \in Nat /\ W \in Nat /\ x < W /\ sum' = x % W
      BY <1>7, <3>1, <3>2
    <3> HIDE DEF x, W
    <3> QED
      BY <3>3 DEF x
  <2>6. addr' - f = j + 1 /\ addr' = l + 1 /\ addr' \in f .. l + 1
    BY <1>2, <1>3, <2>1, <2>4
  <2> QED
    BY <2>5, <2>6 DEF f, l, u
<1> QED
  BY <1>9, <1>10

(* When all bytes of the region have been added up.                        *)
LEMMA SumIsTotal ==
  ASSUME Places, Working, pc = "sum", Left = 0
  PROVE  sum = Total(Region) /\ Checksum(sum) \in 0 .. WordBase - 1
<1> DEFINE f == Start(region)
           l == End(region)
           n == Len(Region)
<1>1. /\ Region \in Seq(Byte) /\ n = l - f + 1 /\ n < WordBase /\ f \in Nat /\ l \in Nat
      /\ f <= l + 1
  BY RegionIs
<1>2. addr \in f .. l + 1 /\ sum = SumUpTo(Region)[addr - f]
  BY DEF Working, Summing
<1>3. l - addr + 1 = 0
  BY DEF Left
<1> HIDE DEF f, l
<1>4. addr - f = n /\ n \in 0 .. n
  BY <1>1, <1>2, <1>3
<1>5. sum = Total(Region)
  BY <1>2, <1>4 DEF Total
<1>6. SumUpTo(Region)[n] \in Nat /\ SumUpTo(Region)[n] < WordBase * WordBase
  <2>1. Region \in Seq(Byte) /\ Len(Region) < WordBase
    BY <1>1
  <2> QED
    BY <1>4, <2>1, SumBounded
<1>7. sum \in Nat /\ sum < WordBase * WordBase
  BY <1>2, <1>4, <1>6
<1> QED
  BY <1>5, <1>7, ChecksumAccepted

(* The checksum of the ICMP message is stored, that of IP's cleared.       *)
LEMMA StoreIcmpKeeps ==
  ASSUME Places, Working, StoreIcmp
  PROVE  /\ IsFrame(packet, modified', Plane!Renewed(packet)) /\ IsRequest(packet, modified')
         /\ IcmpDone(packet, modified') /\ WordAt(modified', IP_SUM) = 0
<1> DEFINE p == packet
           h == packet.hlen
           R == Plane!Renewed(packet)
           c == Checksum(sum)
           b == Put(modified, h + 3, c)
           q == Put(b, 3, 0)
<1>1. pc = "sum" /\ Left = 0 /\ region = "icmp"
  BY DEF StoreIcmp
<1>2. /\ IsPacket(p) /\ IsFrame(p, modified, R) /\ IsRequest(p, modified)
      /\ WordAt(modified, h + 3) = 0
  BY <1>1, PacketIs DEF Working, ICMP_CKSUM
<1>3. /\ h \in Nat /\ h >= 4 /\ h + 6 <= p.size /\ p.size \in Nat /\ p.len \in Nat
      /\ h <= p.len /\ p.len <= p.size /\ p.len < WordBase
  BY <1>2, PacketTypes
<1>4. R = {3, 4} \cup h + 1 .. h + 4
  BY ReplyIs
<1>5. modified' = q
  BY DEF StoreIcmp, ChecksumAt, IcmpAt, ICMP_CKSUM, IP_SUM
<1>6. c \in 0 .. WordBase - 1 /\ sum = Total(SubSeq(modified, h + 1, p.len))
  <2>1. Region = SubSeq(modified, h + 1, p.len)
    BY <1>1 DEF Region, Start, End
  <2> QED
    BY <1>1, <2>1, SumIsTotal
<1>7. 0 \in 0 .. WordBase - 1
  BY Widths
<1>8. /\ modified \in Seq(Byte) /\ Len(modified) = p.size
  BY <1>2 DEF IsFrame
<1>9. c = Checksum(Total(SubSeq(modified, h + 1, p.len)))
  BY <1>6
<1> HIDE DEF p, h, R, c
<1>10. /\ IsFrame(p, b, R)
       /\ \A j \in 1 .. p.size : j # h + 3 /\ j # (h + 3) + 1 => b[j] = modified[j]
  <2>1. h + 3 \in 1 .. p.size - 1 /\ h + 3 \in R /\ (h + 3) + 1 \in R
    BY <1>3, <1>4
  <2> QED
    BY <1>2, <1>6, <2>1, FramePut
<1>11. p.len >= h + 4 => Checksummed(SubSeq(b, h + 1, p.len), 3)
  <2> SUFFICES ASSUME p.len >= h + 4
               PROVE  Checksummed(SubSeq(b, h + 1, p.len), 3)
    OBVIOUS
  <2> DEFINE i == h + 1
             l == p.len
  <2>1. i \in 1 .. Len(modified) /\ l \in 1 .. Len(modified) /\ l - i >= 3 /\ l - i + 1 < WordBase
        /\ i + 2 = h + 3
    BY <1>3, <1>8, Widths
  <2>2. WordAt(modified, i + 2) = 0 /\ c = Checksum(Total(SubSeq(modified, i, l)))
    BY <1>2, <1>9, <2>1
  <2>3. modified \in Seq(Byte)
    BY <1>8
  <2> HIDE DEF i, l, b
  <2>4. Checksummed(SubSeq(Put(modified, i + 2, c), i, l), 3)
    BY <2>1, <2>2, <2>3, StoreChecksum
  <2>5. Put(modified, i + 2, c) = b
    BY <2>1 DEF b
  <2> QED
    BY <2>4, <2>5 DEF i, l
<1>12. b \in Seq(Byte) /\ Len(b) = p.size
  BY <1>10 DEF IsFrame
<1> HIDE DEF b
<1>13. /\ IsFrame(p, q, R) /\ WordAt(q, 3) = 0
       /\ \A j \in 1 .. p.size : j # 3 /\ j # 3 + 1 => q[j] = b[j]
  <2>1. 3 \in 1 .. p.size - 1 /\ 3 \in R /\ 3 + 1 \in R
    BY <1>3, <1>4
  <2> QED
    BY <1>2, <1>7, <1>10, <2>1, FramePut
<1>14. IsRequest(p, q)
  <2>1. /\ h + 1 \in 1 .. p.size /\ h + 1 # h + 3 /\ h + 1 # (h + 3) + 1 /\ h + 1 # 3 /\ h + 1 # 3 + 1
        /\ h + 2 \in 1 .. p.size /\ h + 2 # h + 3 /\ h + 2 # (h + 3) + 1 /\ h + 2 # 3 /\ h + 2 # 3 + 1
    BY <1>3
  <2>2. q[h + 1] = modified[h + 1] /\ q[h + 2] = modified[h + 2]
    BY <1>10, <1>13, <2>1
  <2> QED
    BY <1>2, <2>2 DEF IsRequest, ICMP_TYPE, ICMP_CODE, p, h
<1>15. p.len >= h + 4 => Checksummed(SubSeq(q, h + 1, p.len), 3)
  <2>1. SubSeq(q, h + 1, p.len) = SubSeq(b, h + 1, p.len)
    <3>1. /\ 3 \in 1 .. Len(b) - 1 /\ h + 1 \in 1 .. Len(b) + 1 /\ p.len \in 0 .. Len(b)
          /\ h + 1 <= p.len + 1 /\ 3 + 1 < h + 1
      BY <1>3, <1>12
    <3>2. b \in Seq(Byte)
      BY <1>12
    <3> QED
      BY <1>7, <3>1, <3>2, PutOutside
  <2> QED
    BY <1>11, <2>1
<1> HIDE DEF q
<1>16. IcmpDone(p, q)
  BY <1>15 DEF IcmpDone, IcmpHeader, ICMP_CKSUM, p, h
<1> QED
  BY <1>5, <1>13, <1>14, <1>16 DEF p, R, IP_SUM

(* The checksum of the IP header is stored, and the packet may be sent.    *)
LEMMA StoreIpKeeps ==
  ASSUME Places, Working, StoreIp
  PROVE  IsSent(packet, modified')
<1> DEFINE p == packet
           h == packet.hlen
           R == Plane!Renewed(packet)
           c == Checksum(sum)
           q == Put(modified, 3, c)
<1>1. pc = "sum" /\ Left = 0 /\ region = "ip" /\ Reply(packet)
  BY DEF StoreIp, Working, Summing, Places
<1>2. /\ IsPacket(p) /\ IsFrame(p, modified, R) /\ IsRequest(p, modified)
      /\ IcmpDone(p, modified) /\ WordAt(modified, 3) = 0
  BY <1>1, PacketIs DEF Working, IP_SUM
<1>3. /\ h \in Nat /\ h >= 4 /\ h + 6 <= p.size /\ p.size \in Nat /\ p.len \in Nat
      /\ h <= p.len /\ p.len <= p.size /\ p.len < WordBase /\ WordBase \in Nat
  BY <1>2, PacketTypes, Widths
<1>4. R = {3, 4} \cup h + 1 .. h + 4
  BY ReplyIs
<1>5. modified' = q
  BY <1>1 DEF StoreIp, ChecksumAt, IP_SUM
<1>6. c \in 0 .. WordBase - 1 /\ sum = Total(SubSeq(modified, 1, h))
  <2>1. Region = SubSeq(modified, 1, h)
    BY <1>1 DEF Region, Start, End
  <2> QED
    BY <1>1, <2>1, SumIsTotal
<1>7. modified \in Seq(Byte) /\ Len(modified) = p.size
  BY <1>2 DEF IsFrame
<1>8. c = Checksum(Total(SubSeq(modified, 1, h)))
  BY <1>6
<1> HIDE DEF p, h, R, c
<1>9. /\ IsFrame(p, q, R)
      /\ \A j \in 1 .. p.size : j # 3 /\ j # 3 + 1 => q[j] = modified[j]
  <2>1. 3 \in 1 .. p.size - 1 /\ 3 \in R /\ 3 + 1 \in R
    BY <1>3, <1>4
  <2> QED
    BY <1>2, <1>6, <2>1, FramePut
<1>10. IsRequest(p, q)
  <2>1. /\ h + 1 \in 1 .. p.size /\ h + 1 # 3 /\ h + 1 # 3 + 1
        /\ h + 2 \in 1 .. p.size /\ h + 2 # 3 /\ h + 2 # 3 + 1
    BY <1>3
  <2>2. q[h + 1] = modified[h + 1] /\ q[h + 2] = modified[h + 2]
    BY <1>9, <2>1
  <2> QED
    BY <1>2, <2>2 DEF IsRequest, ICMP_TYPE, ICMP_CODE, p, h
<1>11. IcmpDone(p, q)
  <2>1. SubSeq(q, h + 1, p.len) = SubSeq(modified, h + 1, p.len)
    <3>1. /\ 3 \in 1 .. Len(modified) - 1 /\ h + 1 \in 1 .. Len(modified) + 1
          /\ p.len \in 0 .. Len(modified) /\ h + 1 <= p.len + 1 /\ 3 + 1 < h + 1
      BY <1>3, <1>7
    <3>2. modified \in Seq(Byte)
      BY <1>7
    <3> QED
      BY <1>6, <3>1, <3>2, PutOutside
  <2> QED
    BY <1>2, <2>1 DEF IcmpDone, p, h
<1>12. Checksummed(SubSeq(q, 1, h), 3)
  <2> DEFINE i == 1
             l == h
  <2>1. i \in 1 .. Len(modified) /\ l \in 1 .. Len(modified) /\ l - i >= 3 /\ l - i + 1 < WordBase
        /\ i + 2 = 3
    BY <1>3, <1>7
  <2>2. WordAt(modified, i + 2) = 0 /\ c = Checksum(Total(SubSeq(modified, i, l)))
    BY <1>2, <1>8
  <2>3. modified \in Seq(Byte)
    BY <1>7
  <2> HIDE DEF i, l, q
  <2>4. Checksummed(SubSeq(Put(modified, i + 2, c), i, l), 3)
    BY <2>1, <2>2, <2>3, StoreChecksum
  <2>5. Put(modified, i + 2, c) = q
    BY <2>1 DEF q
  <2> QED
    BY <2>4, <2>5 DEF i, l
<1> HIDE DEF q
<1>13. IpDone(p, q)
  BY <1>12 DEF IpDone, IP_SUM, p, h
<1> QED
  BY <1>1, <1>5, <1>9, <1>10, <1>11, <1>13 DEF IsSent, p, R

(* A loop of checksum that is about to begin.                              *)
LEMMA SummingBegins ==
  ASSUME IsPacket(packet), packet' = packet, modified' \in Seq(Byte), Len(modified') = packet.size,
         region' \in {"icmp", "ip"}, sum' = 0,
         addr' = IF region' = "ip" THEN 1 ELSE packet.hlen + 1
  PROVE  Summing'
<1> DEFINE f == IF region' = "ip" THEN 1 ELSE packet.hlen + 1
           l == IF region' = "ip" THEN packet.hlen ELSE packet.len
           b == modified'
<1>1. Start(region)' = f /\ End(region)' = l /\ Region' = SubSeq(b, f, l)
  BY DEF Start, End, Region
<1>2. f \in 1 .. Len(b) + 1 /\ l \in 0 .. Len(b) /\ f <= l + 1 /\ l \in Nat /\ f \in Nat
  BY PacketTypes
<1>3. b \in Seq(Byte)
  OBVIOUS
<1>4. addr' = f
  OBVIOUS
<1> HIDE DEF f, l, b
<1>5. SubSeq(b, f, l) \in Seq(Byte)
  BY <1>2, <1>3, PartIs
<1>6. SumUpTo(Region)'[0] = 0
  <2>1. SumUpTo(SubSeq(b, f, l))[0] = 0
    BY <1>5, SumUpToIs
  <2>2. SumUpTo(Region)' = SumUpTo(SubSeq(b, f, l))
    BY <1>1 DEF SumUpTo
  <2> QED
    BY <2>1, <2>2
<1>7. addr' - f = 0 /\ addr' \in f .. l + 1
  BY <1>2, <1>4
<1> QED
  BY <1>1, <1>6, <1>7 DEF Summing

(* Every step of processPacket leads to what is due at the next one. *)
LEMMA WorkingProcess ==
  ASSUME Places, Working, Process
  PROVE  Working'
<1> DEFINE R == Plane!Renewed(packet)
<1>1. CASE Decide
  <2>1. /\ modified = <<>> /\ UNCHANGED <<packet, modified>>
        /\ pc' = IF Reply(packet) THEN "copy" ELSE "send"
    BY <1>1, SubstitutesIs DEF Decide, Working
  <2>2. Reply(packet)' = Reply(packet)
    BY <2>1 DEF Reply, Plane!LooksLikeReply
  <2> QED
    BY <2>1, <2>2 DEF Working
<1>2. CASE Copy
  <2>1. modified' \in WholeFrames /\ pc = "copy" /\ pc' = "rewrite" /\ packet' = packet
    BY <1>2 DEF Copy
  <2>2. IsFrame(packet, modified', {})
    BY <2>1, PacketIs, WholeIsFrame
  <2>3. IsFrame(packet, modified, {})'
    BY <2>1, <2>2 DEF IsFrame
  <2> QED
    BY <2>1, <2>3 DEF Working
<1>3. CASE Rewrite
  <2>1. /\ pc = "rewrite" /\ packet' = packet /\ region' = "icmp" /\ sum' = 0
        /\ addr' = packet.hlen + 1 /\ pc' = "sum"
    BY <1>3 DEF Rewrite, RewriteTo, Start
  <2>2. /\ IsFrame(packet, modified', R) /\ IsRequest(packet, modified')
        /\ WordAt(modified', packet.hlen + ICMP_CKSUM) = 0
    BY <1>3, RewriteKeeps
  <2>3. /\ IsFrame(packet, modified, Plane!Renewed(packet))' /\ IsRequest(packet, modified)'
        /\ WordAt(modified, packet.hlen + ICMP_CKSUM)' = 0
    BY <2>1, <2>2 DEF IsFrame, IsRequest, WordAt, Plane!Renewed
  <2>4. Summing'
    <3>1. IsPacket(packet) /\ modified' \in Seq(Byte) /\ Len(modified') = packet.size
      BY <2>1, <2>2, PacketIs DEF IsFrame
    <3> QED
      BY <2>1, <3>1, SummingBegins
  <2> QED
    BY <2>1, <2>3, <2>4 DEF Working
<1>4. CASE AddWord \/ AddByte
  <2>1. pc = "sum" /\ pc' = "sum" /\ UNCHANGED <<packet, modified, region>>
    BY <1>4 DEF AddWord, AddByte
  <2>2. /\ addr' \in Start(region) .. End(region) + 1
        /\ addr' # End(region) + 1 => (addr' - Start(region)) % 2 = 0
        /\ sum' = SumUpTo(Region)[addr' - Start(region)]
    BY <1>4, AddKeeps
  <2>3. Start(region)' = Start(region) /\ End(region)' = End(region) /\ Region' = Region
    BY <2>1 DEF Start, End, Region
  <2>4. SumUpTo(Region)' = SumUpTo(Region)
    BY <2>3 DEF SumUpTo
  <2>5. Summing'
    BY <2>1, <2>2, <2>3, <2>4 DEF Summing, Working
  <2>6. /\ IsFrame(packet, modified, Plane!Renewed(packet)) /\ IsRequest(packet, modified)
        /\ region = "icmp" => WordAt(modified, packet.hlen + ICMP_CKSUM) = 0
        /\ region = "ip" => IcmpDone(packet, modified) /\ WordAt(modified, IP_SUM) = 0
    BY <2>1 DEF Working
  <2>7. (/\ IsFrame(packet, modified, Plane!Renewed(packet)) /\ IsRequest(packet, modified)
         /\ region = "icmp" => WordAt(modified, packet.hlen + ICMP_CKSUM) = 0
         /\ region = "ip" => IcmpDone(packet, modified) /\ WordAt(modified, IP_SUM) = 0)'
    BY <2>1, <2>6
  <2> QED
    BY <2>1, <2>5, <2>7 DEF Working
<1>5. CASE StoreIcmp
  <2>1. /\ pc = "sum" /\ pc' = "sum" /\ packet' = packet /\ region' = "ip" /\ sum' = 0 /\ addr' = 1
    BY <1>5 DEF StoreIcmp, Start
  <2>2. /\ IsFrame(packet, modified', R) /\ IsRequest(packet, modified')
        /\ IcmpDone(packet, modified') /\ WordAt(modified', IP_SUM) = 0
    BY <1>5, StoreIcmpKeeps
  <2>3. Summing'
    <3>1. IsPacket(packet) /\ modified' \in Seq(Byte) /\ Len(modified') = packet.size
      BY <2>1, <2>2, PacketIs DEF IsFrame
    <3> QED
      BY <2>1, <3>1, SummingBegins
  <2>4. /\ IsFrame(packet, modified, Plane!Renewed(packet))' /\ IsRequest(packet, modified)'
        /\ IcmpDone(packet, modified)' /\ WordAt(modified, IP_SUM)' = 0
    BY <2>1, <2>2
  <2> QED
    BY <2>1, <2>3, <2>4 DEF Working
<1>6. CASE StoreIp
  <2>1. pc = "sum" /\ pc' = "send" /\ packet' = packet /\ Reply(packet)
    BY <1>6 DEF StoreIp, Places
  <2>2. IsSent(packet, modified')
    BY <1>6, StoreIpKeeps
  <2>3. IsSent(packet, modified)' /\ Reply(packet)'
    BY <2>1, <2>2
  <2> QED
    BY <2>1, <2>3 DEF Working
<1>7. CASE Send
  BY <1>7 DEF Send, Working
<1> QED
  BY <1>1, <1>2, <1>3, <1>4, <1>5, <1>6, <1>7 DEF Process, ProcessPacket

(* At first there is no copy. *)
LEMMA WorkingInit ==
  ASSUME Init
  PROVE  Working
  BY DEF Init, SwitchInit, Working

(* Outside processPacket there is no copy either. *)
LEMMA WorkingNext ==
  ASSUME Places, Working, [Next]_vars
  PROVE  Working'
<1>1. CASE Capture
  BY <1>1 DEF Capture, Call, Working
<1>2. CASE Watch \/ Done \/ UNCHANGED vars
  <2>1. UNCHANGED <<packet, modified, region, sum, addr, pc>>
    BY <1>2 DEF Watch, Done, vars, switchVars
  <2> QED
    BY <2>1 DEF Working, Summing, Start, End, Region
<1> QED
  BY <1>1, <1>2, WorkingProcess DEF Next

-----------------------------------------------------------------------------
(* What has been sent, and what has been shown *)

(* What was on the wire stays there.                                       *)
LEMMA WireGrows ==
  ASSUME Places, Working, [Next]_vars
  PROVE  /\ Len(wire') \in Nat /\ Len(wire) \in Nat /\ Len(wire') >= Len(wire)
         /\ \A k \in 1 .. Len(wire) : wire'[k] = wire[k]
<1> DEFINE P == Packets
<1>1. wire \in Seq(P)
  BY DEF Places
<1>2. CASE wire' = wire
  <2> HIDE DEF P
  <2> QED
    BY <1>1, <1>2
<1>3. CASE Send
  <2>1. pc = "send"
    BY <1>3 DEF Send
  <2>2. PICK frame \in Seq(Byte) : wire' = Append(wire, [packet EXCEPT !.bytes = frame])
    BY <1>3, SendIs
  <2>3. packet \in Packets
    BY <2>1, PacketIs DEF IsPacket
  <2> DEFINE e == [packet EXCEPT !.bytes = frame]
  <2>4. e \in P /\ wire' = Append(wire, e)
    BY <2>2, <2>3 DEF Packets
  <2> HIDE DEF P, e
  <2> QED
    BY <1>1, <2>4
<1>4. wire' = wire \/ Send
  BY DEF Next, Capture, Call, Process, ProcessPacket, Decide, Copy, Rewrite, RewriteTo, AddWord,
     AddByte, StoreIcmp, StoreIp, Watch, Monitor!Handler, Done, vars, switchVars
<1> QED
  BY <1>2, <1>3, <1>4

(* At first the network has seen nothing. *)
LEMMA DeliveredInit ==
  ASSUME Init
  PROVE  Delivered
<1>1. Len(wire) = 0
  BY DEF Init, SwitchInit
<1> QED
  BY <1>1 DEF Delivered

(* What is sent is what may be sent for the packet just captured. *)
LEMMA DeliveredNext ==
  ASSUME Places, Working, Delivered, [Next]_vars
  PROVE  Delivered'
<1>1. datagram' = datagram
  BY DatagramSame
<1>2. /\ Len(wire') \in Nat /\ Len(wire) \in Nat /\ Len(wire') >= Len(wire)
      /\ \A k \in 1 .. Len(wire) : wire'[k] = wire[k]
  BY WireGrows
<1>3. ASSUME NEW k \in 1 .. Len(wire)
      PROVE  /\ wire'[k] = [datagram'[k] EXCEPT !.bytes = wire'[k].bytes]
             /\ IsSent(datagram'[k], wire'[k].bytes)
  BY <1>1, <1>2, <1>3 DEF Delivered
<1>4. CASE Send
  <2>1. PICK frame \in Seq(Byte) :
          /\ wire' = Append(wire, [packet EXCEPT !.bytes = frame])
          /\ IsSent(packet, frame)
    BY <1>4, SendIs
  <2>2. pc = "send"
    BY <1>4 DEF Send
  <2>3. packet = datagram[taken] /\ Len(wire) + 1 = taken /\ packet \in Packets
    BY <2>2, PacketIs DEF IsPacket
  <2> DEFINE P == Packets
             e == [packet EXCEPT !.bytes = frame]
             n == Len(wire)
  <2>4. wire \in Seq(P) /\ e \in P /\ wire' = Append(wire, e) /\ e.bytes = frame
    BY <2>1, <2>3 DEF Packets, Places
  <2>5. Len(wire') = n + 1 /\ wire'[n + 1] = e
    <3> HIDE DEF P, e
    <3> QED
      BY <2>4
  <2>6. /\ wire'[taken] = [datagram[taken] EXCEPT !.bytes = wire'[taken].bytes]
        /\ IsSent(datagram[taken], wire'[taken].bytes)
    <3>1. wire'[taken] = e
      BY <2>3, <2>5
    <3>2. e = [datagram[taken] EXCEPT !.bytes = frame] /\ IsSent(datagram[taken], e.bytes)
      BY <2>1, <2>3, <2>4
    <3> QED
      BY <2>4, <3>1, <3>2
  <2>7. 1 .. Len(wire') = 1 .. n \cup {taken}
    BY <1>2, <2>3, <2>5
  <2> QED
    BY <1>1, <1>3, <2>6, <2>7 DEF Delivered
<1>5. wire' = wire \/ Send
  BY DEF Next, Capture, Call, Process, ProcessPacket, Decide, Copy, Rewrite, RewriteTo, AddWord,
     AddByte, StoreIcmp, StoreIp, Watch, Monitor!Handler, Done, vars, switchVars
<1> QED
  BY <1>3, <1>4, <1>5 DEF Delivered

(* At first the screen is empty. *)
LEMMA ShownInit ==
  ASSUME Init
  PROVE  Shown
<1> DEFINE L == Lines
<1>1. wire = <<>> /\ screen = <<>>
  BY DEF Init, SwitchInit, Monitor!MonitorInit
<1> HIDE DEF L
<1>2. Len(wire) = 0 /\ Len(screen) = 0 /\ screen \in Seq(L)
  BY <1>1
<1> QED
  BY <1>2 DEF Shown, L

(* The monitor shows the next packet on the network. *)
LEMMA ShownNext ==
  ASSUME Places, Working, Shown, [Next]_vars
  PROVE  Shown'
<1> DEFINE L == Lines
<1>1. /\ Len(wire') \in Nat /\ Len(wire) \in Nat /\ Len(wire') >= Len(wire)
      /\ \A k \in 1 .. Len(wire) : wire'[k] = wire[k]
  BY WireGrows
<1>2. /\ screen \in Seq(L) /\ Len(screen) <= Len(wire)
      /\ \A k \in 1 .. Len(screen) : screen[k].header = Monitor!HeaderInfo(wire[k])
  BY DEF Shown
<1>3. Len(screen) \in Nat
  <2> HIDE DEF L
  <2> QED
    BY <1>2
<1>4. \A k \in 1 .. Len(screen) : screen[k].header = Monitor!HeaderInfo(wire'[k])
  <2>1. \A k \in 1 .. Len(screen) : k \in 1 .. Len(wire)
    BY <1>1, <1>2, <1>3
  <2> QED
    BY <1>1, <1>2, <2>1
<1>5. CASE screen' = screen
  <2>1. Len(screen) <= Len(wire')
    BY <1>1, <1>2, <1>3
  <2>2. Shown' <=> /\ screen' \in Seq(L) /\ Len(screen') <= Len(wire')
                   /\ \A k \in 1 .. Len(screen') : screen'[k].header = Monitor!HeaderInfo(wire'[k])
    BY DEF Shown, Lines, Monitor!HeaderInfo, Monitor!IcmpInfo, Monitor!TcpInfo, Monitor!UdpInfo,
       Monitor!IcmpPlace
  <2> HIDE DEF L
  <2> QED
    BY <1>2, <1>4, <1>5, <2>1, <2>2
<1>6. CASE Watch
  <2> DEFINE n == Len(screen) + 1
             p == wire[n]
             e == [size |-> p.size, len |-> IF p.proto = "arp" THEN 0 ELSE p.len,
                   header |-> Monitor!HeaderInfo(p)]
  <2>1. n <= Len(wire) /\ screen' = Append(screen, e) /\ wire' = wire
    BY <1>1, <1>3, <1>6 DEF Watch, Monitor!Handler
  <2>2. p \in Packets
    <3>1. n \in 1 .. Len(wire)
      BY <1>1, <1>3, <2>1
    <3> DEFINE P == Packets
    <3>2. wire \in Seq(P)
      BY DEF Places
    <3> HIDE DEF P, n
    <3>3. wire[n] \in P
      BY <3>1, <3>2
    <3> QED
      BY <3>3 DEF P
  <2>3. e \in L /\ e.header = Monitor!HeaderInfo(p)
    <3>1. p.size \in Nat /\ p.len \in Nat
      BY <2>2 DEF Packets
    <3> HIDE DEF p
    <3> QED
      BY <2>2, <3>1 DEF Lines
  <2> HIDE DEF e, L
  <2>4. /\ screen' \in Seq(L) /\ Len(screen') = n /\ screen'[n] = e
        /\ \A k \in 1 .. Len(screen) : screen'[k] = screen[k]
    BY <1>2, <1>3, <2>1, <2>3
  <2>5. \A k \in 1 .. n : screen'[k].header = Monitor!HeaderInfo(wire[k])
    <3>1. 1 .. n = 1 .. Len(screen) \cup {n}
      BY <1>3
    <3> QED
      BY <1>2, <2>3, <2>4, <3>1
  <2>6. Shown' <=> /\ screen' \in Seq(L) /\ Len(screen') <= Len(wire')
                   /\ \A k \in 1 .. Len(screen') : screen'[k].header = Monitor!HeaderInfo(wire'[k])
    BY DEF L, Shown, Lines, Monitor!HeaderInfo, Monitor!IcmpInfo, Monitor!TcpInfo, Monitor!UdpInfo,
       Monitor!IcmpPlace
  <2> QED
    BY <2>1, <2>4, <2>5, <2>6
<1>7. screen' = screen \/ Watch
  BY DEF Next, Capture, Process, Done, vars
<1> QED
  BY <1>5, <1>6, <1>7

(* The inductive invariant, of every datagram.                              *)
LEMMA Invariance == Spec => [](Places /\ Working /\ Delivered /\ Shown)
<1>1. Init => Places /\ Working /\ Delivered /\ Shown
  BY PlacesInit, WorkingInit, DeliveredInit, ShownInit
<1>2. Places /\ Working /\ Delivered /\ Shown /\ [Next]_vars
        => (Places /\ Working /\ Delivered /\ Shown)'
  BY PlacesNext, WorkingNext, DeliveredNext, ShownNext
<1> QED
  BY <1>1, <1>2, PTL DEF Spec

-----------------------------------------------------------------------------
(* The switch implements SubstitutionPlane *)

(* What has been captured.                                                 *)
LEMMA CapturedIs ==
  ASSUME datagram \in Datagrams, NEW n \in 0 .. Len(datagram)
  PROVE  /\ SubSeq(datagram, 1, n) \in Seq(Packets)
         /\ Len(SubSeq(datagram, 1, n)) = n
         /\ \A k \in 1 .. n : SubSeq(datagram, 1, n)[k] = datagram[k]
<1> DEFINE P == Packets
<1>1. datagram \in Seq(P)
  BY DatagramTypes
<1> HIDE DEF P
<1>2. /\ SubSeq(datagram, 1, n) \in Seq(P)
      /\ Len(SubSeq(datagram, 1, n)) = n
      /\ \A k \in 1 .. n : SubSeq(datagram, 1, n)[k] = datagram[k]
  BY <1>1
<1> QED
  BY <1>2 DEF P

(* The plane begins with nothing captured and nothing sent. *)
LEMMA PlaneStarts ==
  ASSUME Init
  PROVE  Plane!PlaneInit
<1> DEFINE P == Packets
<1>1. taken = 0 /\ wire = <<>> /\ datagram \in Seq(P)
  BY DatagramTypes DEF Init, SwitchInit
<1> HIDE DEF P
<1>2. SubSeq(datagram, 1, taken) = <<>>
  BY <1>1
<1> QED
  BY <1>1, <1>2 DEF Plane!PlaneInit

(* One more packet is captured.                                            *)
LEMMA CaptureIs ==
  ASSUME Places, Capture
  PROVE  Plane!Capture
<1> DEFINE c == SubSeq(datagram, 1, taken)
           d == SubSeq(datagram, 1, taken + 1)
<1>1. /\ datagram' = datagram /\ taken' = taken + 1 /\ wire' = wire
      /\ taken \in 0 .. Len(datagram) /\ taken + 1 \in 0 .. Len(datagram)
      /\ datagram \in Datagrams
  <2>1. /\ datagram' = datagram /\ taken' = taken + 1 /\ wire' = wire /\ taken < Len(datagram)
    BY DEF Capture, Call
  <2>2. taken \in 0 .. Len(datagram) /\ datagram \in Datagrams /\ Len(datagram) \in Nat
    BY DatagramTypes DEF Places
  <2> QED
    BY <2>1, <2>2
<1> DEFINE P == Packets
<1>2. c \in Seq(P) /\ Len(c) = taken /\ \A k \in 1 .. taken : c[k] = datagram[k]
  BY <1>1, CapturedIs
<1>3. d \in Seq(P) /\ Len(d) = taken + 1 /\ \A k \in 1 .. taken + 1 : d[k] = datagram[k]
  BY <1>1, CapturedIs
<1> HIDE DEF c, d, P
<1>4. SubSeq(d, 1, Len(c)) = c
  <2> DEFINE e == SubSeq(d, 1, taken)
  <2>1. e \in Seq(P) /\ Len(e) = taken /\ \A k \in 1 .. taken : e[k] = d[k]
    BY <1>1, <1>3
  <2>2. \A k \in 1 .. taken : e[k] = c[k]
    <3>1. \A k \in 1 .. taken : k \in 1 .. taken + 1
      BY <1>1
    <3> HIDE DEF e
    <3> QED
      BY <1>2, <1>3, <2>1, <3>1
  <2> HIDE DEF e
  <2>3. e = c
    BY <1>2, <2>1, <2>2, SameElements
  <2> QED
    BY <1>2, <2>3 DEF e
<1>5. SubSeq(datagram, 1, taken)' = d /\ SubSeq(datagram, 1, taken) = c
  BY <1>1 DEF c, d
<1> QED
  BY <1>1, <1>2, <1>3, <1>4, <1>5 DEF Plane!Capture

(* The packet that was captured leaves, substituted if it is a reply.      *)
LEMMA SendForwards ==
  ASSUME Places, Working, Process, Send
  PROVE  Plane!Forward
<1> DEFINE c == SubSeq(datagram, 1, taken)
           p == packet
           P == Packets
<1>1. /\ datagram' = datagram /\ taken' = taken /\ pc = "send" /\ datagram \in Datagrams
  BY DEF Process, Send, Places
<1>2. /\ taken \in 1 .. Len(datagram) /\ p = datagram[taken] /\ Len(wire) + 1 = taken
      /\ p \in Packets /\ Len(datagram) \in Nat
  BY <1>1, PacketIs, DatagramTypes DEF IsPacket
<1>3. c \in Seq(P) /\ Len(c) = taken /\ c[taken] = p
  <2>1. taken \in 0 .. Len(datagram) /\ taken \in 1 .. taken
    BY <1>2
  <2> QED
    BY <1>1, <1>2, <2>1, CapturedIs
<1>4. PICK frame \in Seq(Byte) :
        /\ wire' = Append(wire, [packet EXCEPT !.bytes = frame])
        /\ IsSent(packet, frame)
  BY SendIs
<1> DEFINE e == [packet EXCEPT !.bytes = frame]
<1>5. e \in P /\ wire \in Seq(P) /\ wire' = Append(wire, e) /\ e.bytes = frame
      /\ e = [p EXCEPT !.bytes = e.bytes]
  BY <1>2, <1>4 DEF Packets, Places
<1>6. Len(wire') = Len(wire) + 1 /\ wire'[Len(wire) + 1] = e /\ Len(wire) \in Nat
  <2> HIDE DEF P, e
  <2> QED
    BY <1>5
<1>7. /\ Len(frame) = p.size
      /\ \A k \in DOMAIN p.bytes \ (IF Plane!LooksLikeReply(p) THEN Plane!Renewed(p) ELSE {}) :
           frame[k] = p.bytes[k]
      /\ Plane!LooksLikeReply(p) => frame[p.hlen + 1] = 1 /\ frame[p.hlen + 2] = 0
  BY <1>4 DEF IsSent, IsFrame, IsRequest, Reply, ICMP_TYPE, ICMP_CODE, ICMP_ECHO
<1>8. c[Len(wire) + 1] = p /\ Len(wire) < Len(c)
  BY <1>2, <1>3, <1>6
<1>9. SubSeq(datagram, 1, taken)' = SubSeq(datagram, 1, taken)
  BY <1>1
<1> HIDE DEF e, p, c
<1>10. /\ Len(wire) < Len(c) /\ Len(wire') = Len(wire) + 1
       /\ wire' = Append(wire, wire'[Len(wire) + 1])
       /\ wire'[Len(wire) + 1] = [c[Len(wire) + 1] EXCEPT !.bytes = wire'[Len(wire) + 1].bytes]
       /\ wire'[Len(wire) + 1].bytes = frame
  BY <1>5, <1>6, <1>8
<1> QED
  BY <1>7, <1>8, <1>9, <1>10 DEF Plane!Forward, Plane!ICMP_TYPE, Plane!ICMP_CODE, Plane!ICMP_ECHO, c

(* Every other step of the switch is out of sight.                         *)
LEMMA PlaneNext ==
  ASSUME Places, Working, [Next]_vars
  PROVE  [Plane!Capture \/ Plane!Forward]_<<SubSeq(datagram, 1, taken), wire>>
<1>1. CASE Capture
  BY <1>1, CaptureIs
<1>2. CASE Process /\ Send
  BY <1>2, SendForwards
<1>3. CASE UNCHANGED <<datagram, taken, wire>>
  BY <1>3
<1>4. Capture \/ (Process /\ Send) \/ UNCHANGED <<datagram, taken, wire>>
  BY DEF Next, Process, ProcessPacket, Decide, Copy, Rewrite, RewriteTo, AddWord, AddByte,
     StoreIcmp, StoreIp, Watch, Monitor!Handler, Done, vars, switchVars
<1> QED
  BY <1>1, <1>2, <1>3, <1>4

(* The switch forwards the packets of a datagram in their order, each with *)
(* its length on the wire and unchanged, but for ICMP packets between the  *)
(* configured addresses that begin like an echo reply: these leave as echo *)
(* requests, and of them only type, code and the two checksums change.     *)
THEOREM SwitchOnlySubstitutes == Spec => ImplementsSubstitution
<1>1. Init => Plane!PlaneInit
  BY PlaneStarts
<1>2. Places /\ Working /\ [Next]_vars
        => [Plane!Capture \/ Plane!Forward]_<<SubSeq(datagram, 1, taken), wire>>
  BY PlaneNext
<1> QED
  BY <1>1, <1>2, Invariance, PTL DEF Spec, ImplementsSubstitution, Plane!PlaneSpec

-----------------------------------------------------------------------------
(* What arrives *)

(* A packet that has arrived is the one that was sent but for its bytes.   *)
LEMMA ArrivedIs ==
  ASSUME Places, Delivered, NEW k \in 1 .. Len(wire)
  PROVE  /\ k \in 1 .. Len(datagram) /\ wire[k].header = datagram[k].header
         /\ IsPacket(datagram[k]) /\ IsFragment(datagram, k) /\ datagram[k] \in Packets
         /\ wire[k].hlen = datagram[k].hlen /\ wire[k].len = datagram[k].len
         /\ wire[k].first = datagram[k].first /\ wire[k].proto = datagram[k].proto
         /\ IsSent(datagram[k], wire[k].bytes)
         /\ wire[k].bytes \in Seq(Byte) /\ Len(wire[k].bytes) = datagram[k].size
<1>0. k \in 1 .. Len(datagram)
  <2>1. taken \in 0 .. Len(datagram) /\ Len(datagram) \in Nat
    BY DatagramTypes DEF Places
  <2>2. CASE pc = "next"
    BY <2>1, <2>2 DEF Places
  <2>3. CASE pc # "next"
    BY <2>1, <2>3 DEF Places
  <2> QED
    BY <2>2, <2>3
<1>1. IsPacket(datagram[k]) /\ IsFragment(datagram, k) /\ datagram[k] \in Packets
  BY <1>0, DatagramTypes DEF Places, IsPacket
<1>2. wire[k] = [datagram[k] EXCEPT !.bytes = wire[k].bytes] /\ IsSent(datagram[k], wire[k].bytes)
  BY DEF Delivered
<1> DEFINE p == datagram[k]
           b == wire[k].bytes
           w == wire[k]
<1>3. p \in Packets /\ w = [p EXCEPT !.bytes = b]
  BY <1>1, <1>2
<1>4. b \in Seq(Byte) /\ Len(b) = p.size
  BY <1>2 DEF IsSent, IsFrame
<1> HIDE DEF p, b, w
<1>5. /\ w.hlen = p.hlen /\ w.len = p.len /\ w.first = p.first /\ w.proto = p.proto
      /\ w.header = p.header
  BY <1>3 DEF Packets
<1> QED
  BY <1>0, <1>1, <1>2, <1>4, <1>5 DEF p, b, w

(* Where in a packet its data begin.                                       *)
DataFrom(p) == p.hlen + (IF p.first THEN IcmpHeader ELSE 0)

LEMMA DataFromIs ==
  ASSUME Places, datagram[1].proto = "icmp", NEW k \in 1 .. Len(datagram)
  PROVE  /\ DataFrom(datagram[k]) \in Nat
         /\ DataFrom(datagram[k]) = datagram[k].hlen + (IF k = 1 THEN 4 ELSE 0)
         /\ DataFrom(datagram[k]) <= datagram[k].len
         /\ k # 1 => DataFrom(datagram[k]) < datagram[k].len
<1> DEFINE p == datagram[k]
<1>1. IsPacket(p) /\ IsFragment(datagram, k)
  BY DatagramTypes DEF Places
<1>2. p.hlen \in Nat /\ p.len \in Nat
  BY <1>1, PacketTypes
<1>3. p.first = (k = 1) /\ IF k = 1 THEN HasHeader(p) ELSE p.hlen < p.len
  BY <1>1 DEF IsFragment
<1>4. k = 1 => p.len >= p.hlen + 4
  <2>1. k = 1 => p.proto = "icmp" /\ HasHeader(p)
    BY <1>3
  <2>2. HasHeader(p) /\ p.proto = "icmp" => p.len >= p.hlen + IcmpHeader
    BY DEF HasHeader
  <2> QED
    BY <2>1, <2>2 DEF IcmpHeader
<1>5. DataFrom(p) = p.hlen + (IF k = 1 THEN 4 ELSE 0)
  <2>1. CASE k = 1
    <3>1. p.first
      BY <1>3, <2>1
    <3>2. (IF p.first THEN IcmpHeader ELSE 0) = 4
      BY <3>1 DEF IcmpHeader
    <3> QED
      BY <2>1, <3>2 DEF DataFrom
  <2>2. CASE k # 1
    <3>1. ~p.first
      BY <1>3, <2>2
    <3>2. (IF p.first THEN IcmpHeader ELSE 0) = 0
      BY <3>1
    <3> QED
      BY <2>2, <3>2 DEF DataFrom
  <2> QED
    BY <2>1, <2>2
<1> HIDE DEF p
<1>6. /\ DataFrom(p) \in Nat /\ DataFrom(p) <= p.len
      /\ k # 1 => DataFrom(p) < p.len
  <2>1. CASE k = 1
    BY <1>2, <1>4, <1>5, <2>1
  <2>2. CASE k # 1
    BY <1>2, <1>3, <1>5, <2>2
  <2> QED
    BY <2>1, <2>2
<1> QED
  BY <1>2, <1>4, <1>5, <1>6 DEF p

(* The data of a packet arrive, unless it is a later fragment that was     *)
(* taken for an echo reply.                                                *)
LEMMA PayloadKept ==
  ASSUME Places, Delivered, Arrived, FullyCaptured, datagram[1].proto = "icmp",
         NEW k \in 1 .. Len(datagram)
  PROVE  /\ Payload(wire[k]) \in Seq(Byte) /\ Payload(datagram[k]) \in Seq(Byte)
         /\ Len(Payload(wire[k])) = Len(Payload(datagram[k]))
         /\ Payload(wire[k]) = Payload(datagram[k]) <=> (Reply(datagram[k]) => k = 1)
<1> DEFINE p == datagram[k]
           b == wire[k].bytes
           c == datagram[k].bytes
           n == DataFrom(datagram[k])
           l == datagram[k].len
           h == datagram[k].hlen
           s == SubSeq(b, n + 1, l)
           t == SubSeq(c, n + 1, l)
<1>1. /\ IsPacket(p) /\ IsSent(p, b) /\ b \in Seq(Byte) /\ Len(b) = p.size
      /\ wire[k].hlen = p.hlen /\ wire[k].len = p.len /\ wire[k].first = p.first
  BY ArrivedIs DEF Arrived
<1>2. Payload(wire[k]) = s /\ Payload(datagram[k]) = t
  BY <1>1 DEF Payload, DataFrom
<1>3. /\ n \in Nat /\ n <= l
      /\ k = 1 => n = h + 4
      /\ k # 1 => n = h /\ n < l
  <2>1. h \in Nat
    BY <1>1, PacketTypes
  <2> HIDE DEF h
  <2>2. n = h + (IF k = 1 THEN 4 ELSE 0)
    BY DataFromIs DEF h
  <2>3. n \in Nat /\ n <= l /\ (k # 1 => n < l)
    BY DataFromIs
  <2> HIDE DEF n
  <2> QED
    BY <2>1, <2>2, <2>3
<1>4. /\ c \in Seq(Byte) /\ Len(c) = p.size /\ DOMAIN c = 1 .. p.size
      /\ p.size \in Nat /\ l \in Nat /\ h \in Nat /\ l <= p.size /\ h >= 4
  <2>1. k \in DOMAIN datagram
    <3> DEFINE P == Packets
    <3>1. datagram \in Seq(P)
      BY DatagramTypes DEF Places
    <3> HIDE DEF P
    <3> QED
      BY <3>1
  <2>2. Len(c) = p.size
    BY <2>1 DEF FullyCaptured
  <2> QED
    BY <1>1, <2>2, PacketTypes
<1>5. Reply(p) => c[h + 1] = 0 /\ b[h + 1] = 1
  BY <1>1, ReplyIs DEF IsSent, IsRequest, ICMP_TYPE, ICMP_ECHO
<1>6. \A j \in 1 .. p.size : (Reply(p) => j > h + 4) => b[j] = c[j]
  <2>1. Plane!Renewed(p) = {3, 4} \cup h + 1 .. h + 4
    BY ReplyIs
  <2>2. CASE Reply(p)
    <3>1. \A j \in DOMAIN c \ Plane!Renewed(p) : b[j] = c[j]
      BY <1>1, <2>2 DEF IsSent, IsFrame
    <3>2. \A j \in 1 .. p.size : j > h + 4 => j \in DOMAIN c \ Plane!Renewed(p)
      BY <1>4, <2>1
    <3> QED
      BY <2>2, <3>1, <3>2
  <2>3. CASE ~Reply(p)
    BY <1>1, <1>4, <2>3 DEF IsSent, IsFrame
  <2> QED
    BY <2>2, <2>3
<1> HIDE DEF p, b, c, n, l, h
<1>7. s \in Seq(Byte) /\ Len(s) = l - n /\ \A j \in 1 .. l - n : s[j] = b[n + j]
  <2>1. n + 1 \in 1 .. Len(b) + 1 /\ l \in 0 .. Len(b) /\ n + 1 <= l + 1
        /\ l - (n + 1) + 1 = l - n
    BY <1>1, <1>3, <1>4
  <2>2. b \in Seq(Byte)
    BY <1>1
  <2>3. /\ s \in Seq(Byte) /\ Len(s) = l - (n + 1) + 1
        /\ \A j \in 1 .. l - (n + 1) + 1 : s[j] = b[(n + 1) + j - 1]
    BY <2>1, <2>2, PartIs
  <2>4. \A j \in 1 .. l - n : (n + 1) + j - 1 = n + j
    BY <1>3
  <2> HIDE DEF s
  <2> QED
    BY <2>1, <2>3, <2>4
<1>8. t \in Seq(Byte) /\ Len(t) = l - n /\ \A j \in 1 .. l - n : t[j] = c[n + j]
  <2>1. n + 1 \in 1 .. Len(c) + 1 /\ l \in 0 .. Len(c) /\ n + 1 <= l + 1
        /\ l - (n + 1) + 1 = l - n
    BY <1>3, <1>4
  <2>2. c \in Seq(Byte)
    BY <1>4
  <2>3. /\ t \in Seq(Byte) /\ Len(t) = l - (n + 1) + 1
        /\ \A j \in 1 .. l - (n + 1) + 1 : t[j] = c[(n + 1) + j - 1]
    BY <2>1, <2>2, PartIs
  <2>4. \A j \in 1 .. l - n : (n + 1) + j - 1 = n + j
    BY <1>3
  <2> HIDE DEF t
  <2> QED
    BY <2>1, <2>3, <2>4
<1> HIDE DEF s, t
<1>9. CASE Reply(p) /\ k # 1
  <2>1. n = h /\ 1 \in 1 .. l - n
    BY <1>3, <1>4, <1>9
  <2>2. s[1] = 1 /\ t[1] = 0
    BY <1>5, <1>7, <1>8, <1>9, <2>1
  <2>3. s # t
    BY <2>2
  <2> QED
    BY <1>2, <1>7, <1>8, <1>9, <2>3 DEF p
<1>10. CASE Reply(p) => k = 1
  <2>1. ASSUME NEW j \in 1 .. l - n PROVE s[j] = t[j]
    <3>1. n + j \in 1 .. p.size /\ (Reply(p) => n + j > h + 4)
      BY <1>3, <1>4, <1>10
    <3> QED
      BY <1>6, <1>7, <1>8, <3>1
  <2>2. s = t
    BY <1>7, <1>8, <2>1, SameElements
  <2> QED
    BY <1>2, <1>7, <1>8, <1>10, <2>2 DEF p
<1> QED
  BY <1>9, <1>10

(* Data that were kept packet by packet are kept together. *)
LEMMA IntactIf ==
  ASSUME Places, Delivered
  PROVE  DataIntact
<1>1. SUFFICES ASSUME Arrived, FullyCaptured, datagram[1].proto = "icmp"
               PROVE  Carried(wire) = Carried(datagram)
                        <=> \A k \in DOMAIN datagram : Reply(datagram[k]) => k = 1
  BY DEF DataIntact, Reply
<1> DEFINE n == Len(datagram)
           R == Seq(Byte)
           s == [k \in DOMAIN wire |-> Payload(wire[k])]
           t == [k \in DOMAIN datagram |-> Payload(datagram[k])]
<1>2. DOMAIN wire = 1 .. n /\ DOMAIN datagram = 1 .. n /\ n \in Nat
  <2> DEFINE P == Packets
  <2>1. wire \in Seq(P) /\ datagram \in Seq(P) /\ Len(wire) = n
    BY <1>1, DatagramTypes DEF Places, Arrived
  <2> HIDE DEF P
  <2>2. DOMAIN datagram = 1 .. Len(datagram) /\ Len(datagram) \in Nat
    BY <2>1
  <2>3. DOMAIN wire = 1 .. Len(wire)
    BY <2>1
  <2> QED
    BY <2>1, <2>2, <2>3
<1>3. \A k \in 1 .. n : /\ Payload(wire[k]) \in R /\ Payload(datagram[k]) \in R
                        /\ Len(Payload(wire[k])) = Len(Payload(datagram[k]))
                        /\ Payload(wire[k]) = Payload(datagram[k])
                             <=> (Reply(datagram[k]) => k = 1)
  BY <1>1, PayloadKept
<1>4. /\ s = [k \in 1 .. n |-> Payload(wire[k])] /\ t = [k \in 1 .. n |-> Payload(datagram[k])]
      /\ Carried(wire) = FlattenSeq(s) /\ Carried(datagram) = FlattenSeq(t)
  BY <1>2 DEF Carried
<1> HIDE DEF s, t, n
<1>5. \A k \in 1 .. n : s[k] = Payload(wire[k]) /\ t[k] = Payload(datagram[k])
  BY <1>4
<1>6. s \in Seq(R) /\ t \in Seq(R) /\ Len(s) = n /\ Len(t) = n
  <2>1. s \in [1 .. n -> R] /\ t \in [1 .. n -> R]
    BY <1>3, <1>4
  <2> HIDE DEF R
  <2> QED
    BY <1>2, <2>1
<1>7. ASSUME Carried(wire) = Carried(datagram), NEW k \in DOMAIN datagram, Reply(datagram[k])
      PROVE  k = 1
  <2>1. (/\ Len(s) = Len(t)
         /\ \A j \in 1 .. Len(s) : Len(s[j]) = Len(t[j])
         /\ FlattenSeq(s) = FlattenSeq(t))
          => \A j \in 1 .. Len(s) : s[j] = t[j]
    BY <1>6, FlattenInjective
  <2>2. \A j \in 1 .. n : Len(s[j]) = Len(t[j])
    BY <1>3, <1>5
  <2>3. FlattenSeq(s) = FlattenSeq(t)
    BY <1>4, <1>7
  <2>4. \A j \in 1 .. n : s[j] = t[j]
    BY <1>6, <2>1, <2>2, <2>3
  <2>5. k \in 1 .. n
    BY <1>2
  <2>6. Payload(wire[k]) = Payload(datagram[k])
    BY <1>5, <2>4, <2>5
  <2> QED
    BY <1>3, <1>7, <2>5, <2>6
<1>8. ASSUME \A k \in DOMAIN datagram : Reply(datagram[k]) => k = 1
      PROVE  Carried(wire) = Carried(datagram)
  <2>1. \A k \in 1 .. n : Payload(wire[k]) = Payload(datagram[k])
    BY <1>2, <1>3, <1>8
  <2>2. s = t
    BY <1>4, <2>1
  <2> QED
    BY <1>4, <2>2
<1> QED
  BY <1>7, <1>8

(* The receiver of a datagram that was captured whole gets the data of the *)
(* message that was sent, exactly unless a later fragment begins like an   *)
(* echo reply, for which the switch looks in every fragment.               *)
THEOREM DataArriveUnlessTakenForReply == Spec => []DataIntact
<1>1. Places /\ Delivered => DataIntact
  BY IntactIf
<1> QED
  BY <1>1, Invariance, PTL

-----------------------------------------------------------------------------
(* What the monitor shows *)

(* At the places that were captured of a packet that is not substituted.   *)
LEMMA NotSubstituted ==
  ASSUME NEW p, IsPacket(p), NEW b, IsSent(p, b), ~Reply(p)
  PROVE  \A j \in 1 .. p.hlen + 6 : b[j] = p.bytes[j]
<1>1. /\ DOMAIN p.bytes = 1 .. Len(p.bytes) /\ Len(p.bytes) \in Nat /\ p.hlen \in Nat
      /\ p.hlen + 6 <= Len(p.bytes)
  BY PacketTypes
<1>2. \A j \in DOMAIN p.bytes : b[j] = p.bytes[j]
  BY DEF IsSent, IsFrame
<1>3. \A j \in 1 .. p.hlen + 6 : j \in DOMAIN p.bytes
  BY <1>1
<1> QED
  BY <1>2, <1>3

(* An ICMP header, as it was or substituted.                               *)
LEMMA ShownIcmp ==
  ASSUME NEW p, IsPacket(p), NEW w, IsSent(p, w.bytes), HasHeader(p), p.proto = "icmp",
         w.hlen = p.hlen, w.len = p.len
  PROVE  Monitor!IcmpInfo(w) =
           IF Reply(p) THEN [p.header EXCEPT !.first = ICMP_ECHO, !.second = 0] ELSE p.header
<1> DEFINE h == p.hlen
           l == p.len
           b == w.bytes
           n == l - h - 4
<1>1. /\ l >= h + 4
      /\ p.header = [kind |-> "icmp", first |-> p.bytes[h + 1], second |-> p.bytes[h + 2],
                     size |-> n]
  BY DEF HasHeader, IcmpHeader, ICMP_TYPE, ICMP_CODE
<1>2. /\ h \in Nat /\ l \in Nat /\ l < WordBase /\ h >= 4
  BY PacketTypes
<1>3. Monitor!IcmpInfo(w) = [kind |-> "icmp", first |-> b[h + 1], second |-> b[h + 2],
                             size |-> n % SizeBase]
  BY DEF Monitor!IcmpInfo, Monitor!IcmpPlace, Monitor!IcmpHeader, Monitor!ICMP_TYPE,
     Monitor!ICMP_CODE
<1>4. n % SizeBase = n
  <2>1. SizeBase \in Nat /\ SizeBase >= WordBase /\ WordBase \in Nat
    BY PacketPathAssumption, Widths
  <2>2. n \in Nat /\ n < SizeBase
    <3> HIDE DEF h, l
    <3> QED
      BY <1>1, <1>2, <2>1
  <2> HIDE DEF n
  <2> QED
    BY <2>1, <2>2
<1>5. CASE Reply(p)
  <2>1. b[h + 1] = 1 /\ b[h + 2] = 0
    BY <1>5 DEF IsSent, IsRequest, ICMP_TYPE, ICMP_CODE, ICMP_ECHO
  <2> DEFINE x == p.bytes[h + 1]
             y == p.bytes[h + 2]
  <2>2. p.header = [kind |-> "icmp", first |-> x, second |-> y, size |-> n]
    BY <1>1
  <2>3. Monitor!IcmpInfo(w) = [kind |-> "icmp", first |-> 1, second |-> 0, size |-> n]
    BY <1>3, <1>4, <2>1
  <2> HIDE DEF n, x, y
  <2>4. [p.header EXCEPT !.first = 1, !.second = 0]
          = [kind |-> "icmp", first |-> 1, second |-> 0, size |-> n]
    <3>1. [p.header EXCEPT !.first = 1] = [kind |-> "icmp", first |-> 1, second |-> y, size |-> n]
      BY <2>2
    <3>2. [p.header EXCEPT !.first = 1, !.second = 0]
            = [[p.header EXCEPT !.first = 1] EXCEPT !.second = 0]
      BY <2>2
    <3>3. [[kind |-> "icmp", first |-> 1, second |-> y, size |-> n] EXCEPT !.second = 0]
            = [kind |-> "icmp", first |-> 1, second |-> 0, size |-> n]
      OBVIOUS
    <3> QED
      BY <3>1, <3>2, <3>3
  <2> QED
    BY <1>5, <2>3, <2>4 DEF ICMP_ECHO
<1>6. CASE ~Reply(p)
  <2>1. b[h + 1] = p.bytes[h + 1] /\ b[h + 2] = p.bytes[h + 2]
    <3>1. \A j \in 1 .. h + 6 : b[j] = p.bytes[j]
      BY <1>6, NotSubstituted
    <3> HIDE DEF h, b
    <3> QED
      BY <1>2, <3>1
  <2> HIDE DEF n, b, h
  <2> QED
    BY <1>1, <1>3, <1>4, <1>6, <2>1
<1> QED
  BY <1>5, <1>6

(* A TCP or UDP header behind an IP header without options.                *)
LEMMA ShownTransport ==
  ASSUME NEW p, IsPacket(p), NEW w, IsSent(p, w.bytes), HasHeader(p), p.hlen = MinHeader,
         w.bytes \in Seq(Byte), Len(w.bytes) = p.size
  PROVE  /\ p.proto = "tcp" => Monitor!TcpInfo(w) = p.header
         /\ p.proto = "udp" => Monitor!UdpInfo(w) = p.header
<1> DEFINE b == w.bytes
           c == p.bytes
<1>1. SUFFICES ASSUME p.proto \in {"tcp", "udp"}
               PROVE  /\ p.proto = "tcp" => Monitor!TcpInfo(w) = p.header
                      /\ p.proto = "udp" => Monitor!UdpInfo(w) = p.header
  OBVIOUS
<1>2. b[5] = c[5] /\ b[6] = c[6] /\ b[7] = c[7] /\ b[8] = c[8] /\ b[9] = c[9] /\ b[10] = c[10]
  <2>1. ~Reply(p)
    BY <1>1, ReplyIs
  <2>2. \A j \in 1 .. 10 : b[j] = c[j]
    BY <2>1, NotSubstituted DEF MinHeader
  <2> QED
    BY <2>2
<1>3. /\ Ntohs(b, 5) = Ntohs(c, 5) /\ Ntohs(b, 7) = Ntohs(c, 7) /\ Ntohs(b, 9) = Ntohs(c, 9)
  BY <1>2 DEF Ntohs
<1>4. /\ p.proto = "tcp" =>
           p.header = [kind |-> p.proto, first |-> Ntohs(c, 5), second |-> Ntohs(c, 7), size |-> 0]
      /\ p.proto = "udp" =>
           p.header = [kind |-> p.proto, first |-> Ntohs(c, 5), second |-> Ntohs(c, 7),
                       size |-> Ntohs(c, 9) - 6]
  BY DEF HasHeader, MinHeader, UdpHeader
<1>5. /\ Monitor!TcpInfo(w) =
           [kind |-> "tcp", first |-> Ntohs(b, 5), second |-> Ntohs(b, 7), size |-> 0]
      /\ Monitor!UdpInfo(w) =
           [kind |-> "udp", first |-> Ntohs(b, 5), second |-> Ntohs(b, 7),
            size |-> (Ntohs(b, 9) - 6) % SizeBase]
  <2> DEFINE x == Ntohs(b, 5)
             y == Ntohs(b, 7)
             z == (Ntohs(b, 9) - 6) % SizeBase
  <2>1. Monitor!TcpInfo(w) = [kind |-> "tcp", first |-> x, second |-> y, size |-> 0]
    BY DEF Monitor!TcpInfo, Monitor!TransportPlace, Monitor!MinHeader, Monitor!Ntohs, Ntohs
  <2>2. Monitor!UdpInfo(w) = [Monitor!TcpInfo(w) EXCEPT !.kind = "udp", !.size = z]
    BY DEF Monitor!UdpInfo, Monitor!TransportPlace, Monitor!MinHeader, Monitor!UdpHeader,
       Monitor!Ntohs, Ntohs
  <2> HIDE DEF x, y, z
  <2>3. Monitor!UdpInfo(w) = [kind |-> "udp", first |-> x, second |-> y, size |-> z]
    <3> DEFINE t == Monitor!TcpInfo(w)
    <3>1. t = [kind |-> "tcp", first |-> x, second |-> y, size |-> 0]
      BY <2>1
    <3> HIDE DEF t
    <3>2. [t EXCEPT !.kind = "udp"] = [kind |-> "udp", first |-> x, second |-> y, size |-> 0]
      BY <3>1
    <3>3. [t EXCEPT !.kind = "udp", !.size = z] = [[t EXCEPT !.kind = "udp"] EXCEPT !.size = z]
      BY <3>1
    <3>4. [[kind |-> "udp", first |-> x, second |-> y, size |-> 0] EXCEPT !.size = z]
            = [kind |-> "udp", first |-> x, second |-> y, size |-> z]
      OBVIOUS
    <3>5. [t EXCEPT !.kind = "udp", !.size = z]
            = [kind |-> "udp", first |-> x, second |-> y, size |-> z]
      BY <3>2, <3>3, <3>4
    <3> QED
      BY <2>2, <3>5 DEF t
  <2> QED
    BY <2>1, <2>3 DEF x, y, z
<1>6. p.proto = "udp" => (Ntohs(b, 9) - 6) % SizeBase = Ntohs(c, 9) - 6
  <2> SUFFICES ASSUME p.proto = "udp"
               PROVE  (Ntohs(b, 9) - 6) % SizeBase = Ntohs(c, 9) - 6
    OBVIOUS
  <2> DEFINE x == Ntohs(b, 9)
  <2>1. SizeBase \in Nat /\ SizeBase >= WordBase
    BY PacketPathAssumption
  <2>2. x \in Nat /\ x < WordBase
    <3>1. b[9] \in 0 .. ByteBase - 1 /\ b[10] \in 0 .. ByteBase - 1
      <4>1. b \in Seq(Byte) /\ 9 \in 1 .. Len(b) /\ 10 \in 1 .. Len(b)
        BY PacketTypes DEF MinHeader
      <4>2. b[9] \in Byte /\ b[10] \in Byte
        <5> HIDE DEF b
        <5> QED
          BY <4>1
      <4> QED
        BY <4>2 DEF Byte
    <3> DEFINE y == b[9]
               z == b[10]
    <3>2. y \in 0 .. ByteBase - 1 /\ z \in 0 .. ByteBase - 1 /\ x = ByteBase * y + z
      BY <3>1 DEF Ntohs
    <3> HIDE DEF x, y, z
    <3>3. ByteBase * y \in Nat /\ ByteBase * y <= ByteBase * (ByteBase - 1)
      BY <3>2, Widths
    <3> QED
      BY <3>2, <3>3, Widths
  <2>3. x - 6 \in Nat
    <3>1. p.header.size \in Nat
      BY PacketTypes DEF Headers
    <3>2. p.header.size = Ntohs(c, 9) - 6
      BY <1>4
    <3> QED
      BY <1>3, <3>1, <3>2
  <2>4. x - 6 < SizeBase
    BY <2>1, <2>2, Widths
  <2>5. (x - 6) % SizeBase = x - 6
    <3> DEFINE m == x - 6
    <3>1. m \in Nat /\ m < SizeBase
      BY <2>3, <2>4
    <3> HIDE DEF m
    <3>2. m % SizeBase = m
      BY <2>1, <3>1
    <3> QED
      BY <3>2 DEF m
  <2> QED
    BY <1>3, <2>5
<1> HIDE DEF b, c
<1>7. p.proto = "tcp" => Monitor!TcpInfo(w) = p.header
  BY <1>3, <1>4, <1>5
<1>8. p.proto = "udp" => Monitor!UdpInfo(w) = p.header
  BY <1>3, <1>4, <1>5, <1>6
<1> QED
  BY <1>7, <1>8

(* What is shown of a packet is in the bytes that arrived of it. *)
LEMMA ShownIf ==
  ASSUME Places, Delivered, Shown
  PROVE  ShownAsWritten
<1>1. SUFFICES ASSUME NEW k \in DOMAIN screen, datagram[k].first,
                      datagram[k].proto = "icmp" \/ datagram[k].hlen = MinHeader
               PROVE  screen[k].header =
                        IF Reply(datagram[k])
                          THEN [datagram[k].header EXCEPT !.first = ICMP_ECHO, !.second = 0]
                          ELSE datagram[k].header
  BY DEF ShownAsWritten, Reply
<1> DEFINE p == datagram[k]
           w == wire[k]
<1>2. k \in 1 .. Len(screen) /\ k \in 1 .. Len(wire)
  <2>1. DOMAIN screen = 1 .. Len(screen) /\ Len(screen) \in Nat
    <3> DEFINE L == Lines
    <3>1. screen \in Seq(L)
      BY DEF Shown
    <3> HIDE DEF L
    <3> QED
      BY <3>1
  <2>2. Len(wire) \in Nat
    <3> DEFINE P == Packets
    <3>1. wire \in Seq(P)
      BY DEF Places
    <3> HIDE DEF P
    <3> QED
      BY <3>1
  <2>3. Len(screen) <= Len(wire)
    BY DEF Shown
  <2> QED
    BY <2>1, <2>2, <2>3
<1>3. screen[k].header = Monitor!HeaderInfo(w)
  BY <1>2 DEF Shown
<1>4. /\ IsPacket(p) /\ IsFragment(datagram, k) /\ IsSent(p, w.bytes)
      /\ w.hlen = p.hlen /\ w.len = p.len /\ w.proto = p.proto
      /\ w.bytes \in Seq(Byte) /\ Len(w.bytes) = p.size
  BY <1>2, ArrivedIs
<1>5. HasHeader(p)
  <2>1. p.first = (k = 1) /\ IF k = 1 THEN HasHeader(p) ELSE p.hlen < p.len
    BY <1>4 DEF IsFragment
  <2>2. k = 1
    BY <1>1, <2>1
  <2> QED
    BY <2>1, <2>2
<1>6. p.proto \in Protocols
  BY <1>4, PacketTypes
<1>7. CASE p.proto = "icmp"
  <2>1. Monitor!HeaderInfo(w) = Monitor!IcmpInfo(w)
    BY <1>4, <1>7 DEF Monitor!HeaderInfo
  <2>2. Monitor!IcmpInfo(w) =
          IF Reply(p) THEN [p.header EXCEPT !.first = ICMP_ECHO, !.second = 0] ELSE p.header
    BY <1>4, <1>5, <1>7, ShownIcmp
  <2> QED
    BY <1>3, <2>1, <2>2
<1>8. CASE p.proto \in {"tcp", "udp"}
  <2>1. p.hlen = MinHeader /\ ~Reply(p)
    BY <1>1, <1>8, ReplyIs
  <2>2. /\ p.proto = "tcp" => Monitor!TcpInfo(w) = p.header
        /\ p.proto = "udp" => Monitor!UdpInfo(w) = p.header
    BY <1>4, <1>5, <2>1, ShownTransport
  <2>3. /\ p.proto = "tcp" => Monitor!HeaderInfo(w) = Monitor!TcpInfo(w)
        /\ p.proto = "udp" => Monitor!HeaderInfo(w) = Monitor!UdpInfo(w)
    BY <1>4 DEF Monitor!HeaderInfo
  <2> QED
    BY <1>3, <1>8, <2>1, <2>2, <2>3
<1>9. CASE p.proto \in {"arp", "other"}
  <2>1. p.header = NoHeader /\ ~Reply(p)
    BY <1>5, <1>9, ReplyIs DEF HasHeader
  <2>2. Monitor!HeaderInfo(w) = NoHeader
    BY <1>4, <1>9 DEF Monitor!HeaderInfo, Monitor!NoHeader, NoHeader
  <2> QED
    BY <1>3, <2>1, <2>2
<1> QED
  BY <1>6, <1>7, <1>8, <1>9 DEF Protocols

(* The monitor shows of every first fragment what its sender has written   *)
(* into the ICMP header, or into the TCP or UDP header behind an IP header *)
(* without options, and of a substituted echo reply an echo request with   *)
(* as much data.                                                           *)
THEOREM MonitorShowsWhatWasWritten == Spec => []ShownAsWritten
<1>1. Places /\ Delivered /\ Shown => ShownAsWritten
  BY ShownIf
<1> QED
  BY <1>1, Invariance, PTL

-----------------------------------------------------------------------------
(* What the receiver accepts *)

(* A message begins with the data of the first packet.                     *)
LEMMA MessageIs ==
  ASSUME NEW w \in Seq(Packets), w # <<>>, \A k \in 1 .. Len(w) : Data(w[k]) \in Seq(Byte)
  PROVE  /\ Message(Tail(w)) \in Seq(Byte)
         /\ Message(w) = Data(w[1]) \o Message(Tail(w))
         /\ Len(w) = 1 => Message(w) = Data(w[1])
<1> DEFINE P == Packets
           R == Seq(Byte)
           v == Tail(w)
           n == Len(w)
           f == [k \in DOMAIN w |-> Data(w[k])]
           g == [k \in DOMAIN v |-> Data(v[k])]
           a == Data(w[1])
<1>1. /\ n \in Nat /\ n >= 1 /\ DOMAIN w = 1 .. n
      /\ DOMAIN v = 1 .. n - 1 /\ \A k \in 1 .. n - 1 : v[k] = w[k + 1]
  <2>1. w \in Seq(P) /\ w # <<>>
    OBVIOUS
  <2> HIDE DEF P
  <2> QED
    BY <2>1
<1>2. \A k \in 1 .. n : Data(w[k]) \in R
  OBVIOUS
<1> HIDE DEF v, n, R
<1>3. /\ f = [k \in 1 .. n |-> Data(w[k])] /\ g = [k \in 1 .. n - 1 |-> Data(w[k + 1])]
  BY <1>1
<1>4. Message(w) = FlattenSeq(f) /\ Message(v) = FlattenSeq(g)
  BY DEF Message
<1>5. a \in R /\ \A k \in 1 .. n - 1 : Data(w[k + 1]) \in R
  BY <1>1, <1>2
<1> HIDE DEF f, g, a
<1>6. f \in Seq(R) /\ Len(f) = n /\ g \in Seq(R) /\ Len(g) = n - 1
  <2>1. f \in [1 .. n -> R] /\ g \in [1 .. n - 1 -> R] /\ n - 1 \in Nat
    BY <1>1, <1>2, <1>3, <1>5
  <2> QED
    BY <1>1, <2>1
<1>7. f = <<a>> \o g
  <2> DEFINE u == <<a>> \o g
  <2>1. u \in Seq(R) /\ Len(u) = n /\ u[1] = a /\ \A k \in 1 .. n - 1 : u[k + 1] = g[k]
    BY <1>1, <1>5, <1>6
  <2> HIDE DEF u
  <2>2. ASSUME NEW k \in 1 .. n PROVE f[k] = u[k]
    <3>1. CASE k = 1
      BY <1>1, <1>3, <2>1, <3>1 DEF a
    <3>2. CASE k # 1
      <4>1. k - 1 \in 1 .. n - 1 /\ (k - 1) + 1 = k
        BY <1>1, <3>2
      <4>2. u[(k - 1) + 1] = g[k - 1] /\ g[k - 1] = Data(w[(k - 1) + 1])
        BY <1>3, <2>1, <4>1
      <4> QED
        BY <1>3, <4>1, <4>2
    <3> QED
      BY <3>1, <3>2
  <2>3. f = u
    BY <1>6, <2>1, <2>2, SameElements
  <2> QED
    BY <2>3 DEF u
<1>8. FlattenSeq(<<a>> \o g) = a \o FlattenSeq(g) /\ FlattenSeq(g) \in R
  BY <1>5, <1>6, FlattenFront, FlattenType DEF R
<1>9. Message(w) = a \o Message(v) /\ Message(v) \in R
  BY <1>4, <1>7, <1>8
<1>10. n = 1 => Message(w) = a
  <2> SUFFICES ASSUME n = 1
               PROVE  Message(w) = a
    OBVIOUS
  <2>1. g = <<>>
    BY <1>6
  <2>2. FlattenSeq(<<>>) = <<>>
    BY DEF FlattenSeq
  <2>3. a \o <<>> = a
    BY <1>5 DEF R
  <2> QED
    BY <1>4, <1>9, <2>1, <2>2, <2>3
<1> QED
  BY <1>9, <1>10 DEF v, n, R, a

(* What was sent for the first packet has both its checksums. *)
LEMMA AcceptedIf ==
  ASSUME Places, Delivered
  PROVE  AcceptedUnlessCarriesTwice
<1> DEFINE p == datagram[1]
           w == wire[1]
           b == w.bytes
           h == p.hlen
           l == p.len
           header == SubSeq(b, 1, h)
           data == SubSeq(b, h + 1, l)
           rest == Message(Tail(wire))
           m == WordBase - 1
<1>1. SUFFICES ASSUME Arrived, Reply(p)
               PROVE  /\ Accepted(IpHeader(w)) <=> ~CarriesTwice(IpHeader(w), 3)
                      /\ Whole => (Accepted(Message(wire)) <=> ~CarriesTwice(Data(w), 3))
                      /\ ~Whole /\ ~CarriesTwice(Data(w), 3) =>
                           (Accepted(Message(wire)) <=> Total(rest) % m = 0)
  BY DEF AcceptedUnlessCarriesTwice, Reply, ICMP_CKSUM, IP_SUM
<1>2. Len(datagram) \in Nat /\ Len(datagram) >= 1 /\ Len(wire) = Len(datagram)
  BY <1>1, DatagramTypes DEF Places, Arrived
<1>3. /\ IsPacket(p) /\ IsFragment(datagram, 1) /\ IsSent(p, b) /\ w.hlen = h /\ w.len = l
      /\ b \in Seq(Byte) /\ Len(b) = p.size
  <2>1. 1 \in 1 .. Len(wire)
    BY <1>2
  <2> QED
    BY <2>1, ArrivedIs
<1>4. /\ p.size \in Nat /\ h \in Nat /\ l \in Nat /\ h >= 4 /\ h + 6 <= p.size
      /\ h <= l /\ l <= p.size /\ l < WordBase
  BY <1>3, PacketTypes
<1>5. l >= h + 4 /\ (Len(datagram) # 1 => (l - h) % 2 = 0)
  <2>1. HasHeader(p) /\ p.proto = "icmp"
    BY <1>1, <1>3, ReplyIs DEF IsFragment
  <2>2. l >= h + 4
    BY <2>1 DEF HasHeader, IcmpHeader
  <2>3. Len(datagram) # 1 => (l - h) % 2 = 0
    BY <1>3 DEF IsFragment
  <2> QED
    BY <2>2, <2>3
<1>6. Checksummed(header, 3) /\ Checksummed(data, 3)
  BY <1>1, <1>3, <1>5 DEF IsSent, IpDone, IcmpDone, IP_SUM, ICMP_CKSUM, IcmpHeader
<1>7. IpHeader(w) = header /\ Data(w) = data
  BY <1>3 DEF IpHeader, Data
<1> HIDE DEF p, w, b, h, l
<1>8. header \in Seq(Byte) /\ Len(header) = h
  <2>1. 1 \in 1 .. Len(b) + 1 /\ h \in 0 .. Len(b) /\ 1 <= h + 1 /\ h - 1 + 1 = h
    BY <1>3, <1>4
  <2>2. SubSeq(b, 1, h) \in Seq(Byte) /\ Len(SubSeq(b, 1, h)) = h - 1 + 1
    BY <1>3, <2>1, PartIs
  <2> QED
    BY <2>1, <2>2
<1>9. data \in Seq(Byte) /\ Len(data) = l - h
  <2>1. h + 1 \in 1 .. Len(b) + 1 /\ l \in 0 .. Len(b) /\ h + 1 <= l + 1
        /\ l - (h + 1) + 1 = l - h
    BY <1>3, <1>4
  <2>2. SubSeq(b, h + 1, l) \in Seq(Byte) /\ Len(SubSeq(b, h + 1, l)) = l - (h + 1) + 1
    BY <1>3, <2>1, PartIs
  <2> QED
    BY <2>1, <2>2
<1> HIDE DEF header, data
<1>10. Accepted(header) <=> ~CarriesTwice(header, 3)
  <2>1. Len(header) < WordBase /\ 3 \in 1 .. Len(header) - 1 /\ 3 % 2 = 1
    BY <1>4, <1>8, Widths
  <2>2. header \in Seq(Byte)
    BY <1>8
  <2> QED
    BY <1>6, <2>1, <2>2, AcceptedIffOnce
<1>11. Accepted(data) <=> ~CarriesTwice(data, 3)
  <2>1. Len(data) < WordBase /\ 3 \in 1 .. Len(data) - 1 /\ 3 % 2 = 1
    BY <1>4, <1>5, <1>9, Widths
  <2>2. data \in Seq(Byte)
    BY <1>9
  <2> QED
    BY <1>6, <2>1, <2>2, AcceptedIffOnce
<1>12. /\ rest \in Seq(Byte) /\ Message(wire) = data \o rest
       /\ Len(wire) = 1 => Message(wire) = data
  <2>1. ASSUME NEW k \in 1 .. Len(wire) PROVE Data(wire[k]) \in Seq(Byte)
    <3> DEFINE c == wire[k].bytes
               i == wire[k].hlen
               j == wire[k].len
    <3>1. /\ IsPacket(datagram[k]) /\ i = datagram[k].hlen /\ j = datagram[k].len
          /\ c \in Seq(Byte) /\ Len(c) = datagram[k].size
      BY ArrivedIs
    <3>2. /\ datagram[k].size \in Nat /\ i \in Nat /\ j \in Nat /\ i <= j /\ j <= datagram[k].size
      BY <3>1, PacketTypes
    <3> DEFINE n == Len(c)
    <3>3. Data(wire[k]) = SubSeq(c, i + 1, j)
      BY DEF Data
    <3>4. n \in Nat /\ i \in Nat /\ j \in Nat /\ i <= j /\ j <= n
      BY <3>1, <3>2
    <3> HIDE DEF c, i, j, n
    <3>5. c \in Seq(Byte)
      BY <3>1
    <3>6. i + 1 \in 1 .. n + 1 /\ j \in 0 .. n /\ i + 1 <= j + 1
      BY <3>4
    <3>7. SubSeq(c, i + 1, j) \in Seq(Byte)
      BY <3>5, <3>6, PartIs DEF n
    <3> QED
      BY <3>3, <3>7
  <2>2. wire \in Seq(Packets) /\ wire # <<>>
    <3>1. wire \in Seq(Packets)
      BY DEF Places
    <3>2. wire # <<>>
      BY <1>2
    <3> QED
      BY <3>1, <3>2
  <2>3. /\ Message(Tail(wire)) \in Seq(Byte)
        /\ Message(wire) = Data(wire[1]) \o Message(Tail(wire))
        /\ Len(wire) = 1 => Message(wire) = Data(wire[1])
    BY <2>1, <2>2, MessageIs
  <2> QED
    BY <1>7, <2>3 DEF w
<1>13. Whole => (Accepted(Message(wire)) <=> ~CarriesTwice(data, 3))
  BY <1>2, <1>11, <1>12 DEF Whole
<1>14. ASSUME ~Whole, ~CarriesTwice(data, 3)
       PROVE  Accepted(Message(wire)) <=> Total(rest) % m = 0
  <2> DEFINE x == Total(data)
             y == Total(rest)
             z == Total(Message(wire))
  <2>1. z = x + y /\ x \in Nat /\ y \in Nat
    <3>1. Len(data) % 2 = 0 /\ data \in Seq(Byte) /\ rest \in Seq(Byte)
      BY <1>2, <1>5, <1>9, <1>12, <1>14 DEF Whole
    <3>2. Total(data \o rest) = Total(data) + Total(rest) /\ Total(data) \in Nat /\ Total(rest) \in Nat
      <4> HIDE DEF rest
      <4> QED
        BY <3>1, TotalConcat
    <3> QED
      BY <1>12, <3>2
  <2>2. x > 0 /\ x % m = 0
    BY <1>11, <1>14 DEF Accepted
  <2>3. m \in Nat \ {0}
    BY Widths
  <2>4. Accepted(Message(wire)) <=> z > 0 /\ z % m = 0
    BY DEF Accepted
  <2> HIDE DEF x, y, z, m
  <2>5. z > 0
    BY <2>1, <2>2
  <2>6. z % m = y % m
    <3>1. x \div m \in Nat /\ x = m * (x \div m) + (x % m)
      BY <2>1, <2>3, DivMod
    <3> DEFINE q == x \div m
    <3>2. q \in Nat /\ z = y + m * q
      <4>1. q \in Nat /\ x = m * q + 0
        BY <2>2, <3>1
      <4> HIDE DEF q
      <4>2. m * q \in Nat
        BY <2>3, <4>1
      <4> QED
        BY <2>1, <4>1, <4>2
    <3> HIDE DEF q
    <3>3. (y + m * q) % m = y % m
      BY <2>1, <2>3, <3>2, ModAdd
    <3> QED
      BY <3>2, <3>3
  <2> QED
    BY <2>4, <2>5, <2>6 DEF y
<1> QED
  BY <1>7, <1>10, <1>13, <1>14

(* A substituted echo reply, of any length and with any options, is        *)
(* accepted by its receiver exactly unless adding the carries back makes a *)
(* second one in the IP header or the message; one in fragments only if    *)
(* what is behind the first does not count.                                *)
THEOREM ReplyAcceptedUnlessCarriesTwice == Spec => []AcceptedUnlessCarriesTwice
<1>1. Places /\ Delivered => AcceptedUnlessCarriesTwice
  BY AcceptedIf
<1> QED
  BY <1>1, Invariance, PTL
=============================================================================
