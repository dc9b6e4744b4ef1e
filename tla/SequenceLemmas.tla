--------------------------- MODULE SequenceLemmas ---------------------------
(***************************************************************************)
(* Facts about naturals and sequences that the proofs of the project       *)
(* share.  Induction is stated for sets of naturals, not for predicates,   *)
(* so that a proof can cite it.                                            *)
(***************************************************************************)
EXTENDS Integers, SequencesExt, WellFoundedInduction, TLAPS

(* A set of naturals that is not empty has a least element. *)
LEMMA LeastElement ==
  ASSUME NEW T \in SUBSET Nat, T # {}
  PROVE  \E m \in T : \A n \in T : m <= n
<1> DEFINE Less == {ss \in Nat \X Nat : ss[1] < ss[2]}
<1>1. IsWellFoundedOn(Less, Nat)
  BY NatLessThanWellFounded DEF OpToRel
<1> HIDE DEF Less
<1>2. PICK x \in T : \A y \in T : ~(<<y, x>> \in Less)
  BY <1>1, WFMin
<1>3. ASSUME NEW y \in T PROVE x <= y
  <2>1. y < x => <<y, x>> \in Less
    BY DEF Less
  <2> QED
    BY <1>2, <2>1
<1> QED
  BY <1>3

(* A set of naturals with 0 and with n + 1 for each n in it is Nat. *)
LEMMA Induction ==
  ASSUME NEW T \in SUBSET Nat, 0 \in T, \A n \in T : n + 1 \in T
  PROVE  T = Nat
<1> SUFFICES ASSUME Nat \ T # {} PROVE FALSE
  OBVIOUS
<1>1. PICK m \in Nat \ T : \A n \in Nat \ T : m <= n
  BY LeastElement
<1>2. m - 1 \in T
  BY <1>1
<1> QED
  BY <1>1, <1>2

(* What holds of 0, and of k if of k - 1, holds up to n. *)
LEMMA InductionUpTo ==
  ASSUME NEW n \in Nat, NEW T, 0 \in T, \A k \in 1 .. n : k - 1 \in T => k \in T
  PROVE  0 .. n \subseteq T
<1> DEFINE U == {m \in Nat : m <= n => m \in T}
<1>1. 0 \in U
  OBVIOUS
<1>2. ASSUME NEW m \in U PROVE m + 1 \in U
  <2>1. m \in Nat /\ (m <= n => m \in T)
    OBVIOUS
  <2>2. ASSUME m + 1 <= n PROVE m + 1 \in T
    <3>1. m + 1 \in 1 .. n /\ (m + 1) - 1 = m /\ m \in T
      BY <2>1, <2>2
    <3> QED
      BY <3>1
  <2> QED
    BY <2>1, <2>2
<1> HIDE DEF U
<1>3. U = Nat
  <2>1. U \in SUBSET Nat
    BY DEF U
  <2> QED
    BY <1>1, <1>2, <2>1, Induction
<1> QED
  BY <1>3 DEF U

(* A function of 0 .. n that is given at 0, and at k by its value at k - 1, *)
(* exists.                                                                 *)
LEMMA StepwiseExists ==
  ASSUME NEW D, NEW d \in D, NEW n \in Nat, NEW F \in [1 .. n -> [D -> D]]
  PROVE  \E f \in [0 .. n -> D] :
           f[0] = d /\ \A k \in 1 .. n : f[k] = F[k][f[k - 1]]
<1> DEFINE G(m) == {f \in [0 .. m -> D] : f[0] = d /\ \A k \in 1 .. m : f[k] = F[k][f[k - 1]]}
           T == {m \in 0 .. n : G(m) # {}}
<1>1. 0 \in T
  <2>1. [k \in 0 .. 0 |-> d] \in G(0)
    OBVIOUS
  <2> QED
    BY <2>1
<1>2. ASSUME NEW m \in 1 .. n, m - 1 \in T PROVE m \in T
  <2>1. PICK f \in [0 .. m - 1 -> D] :
          f[0] = d /\ \A k \in 1 .. m - 1 : f[k] = F[k][f[k - 1]]
    BY <1>2
  <2> DEFINE g == [k \in 0 .. m |-> IF k = m THEN F[m][f[m - 1]] ELSE f[k]]
  <2>2. f[m - 1] \in D /\ F[m] \in [D -> D]
    BY <2>1
  <2>3. F[m][f[m - 1]] \in D
    BY <2>2
  <2>4. g \in [0 .. m -> D]
    BY <2>1, <2>3
  <2>5. g[0] = d
    BY <2>1
  <2>6. ASSUME NEW k \in 1 .. m PROVE g[k] = F[k][g[k - 1]]
    <3>1. g[k - 1] = f[k - 1] /\ k - 1 \in 0 .. m
      OBVIOUS
    <3>2. CASE k = m
      BY <3>1, <3>2
    <3>3. CASE k # m
      <4>1. k \in 1 .. m - 1 /\ g[k] = f[k]
        BY <3>3
      <4> QED
        BY <2>1, <3>1, <4>1
    <3> QED
      BY <3>2, <3>3
  <2> HIDE DEF g
  <2>7. g \in G(m)
    BY <2>4, <2>5, <2>6
  <2> HIDE DEF G
  <2> QED
    BY <2>7
<1> HIDE DEF T
<1>3. n \in T
  <2>1. 0 .. n \subseteq T
    BY <1>1, <1>2, InductionUpTo
  <2> QED
    BY <2>1
<1> QED
  BY <1>3 DEF T

-----------------------------------------------------------------------------
(* What Append makes, as a function. *)
LEMMA AppendIsFunction ==
  ASSUME NEW S, NEW s \in Seq(S), NEW e \in S
  PROVE  Append(s, e) = [k \in 1 .. Len(s) + 1 |-> IF k = Len(s) + 1 THEN e ELSE s[k]]
<1> DEFINE t == Append(s, e)
<1>1. t \in Seq(S) /\ Len(t) = Len(s) + 1
  OBVIOUS
<1>2. \A k \in 1 .. Len(s) + 1 : t[k] = IF k = Len(s) + 1 THEN e ELSE s[k]
  OBVIOUS
<1> HIDE DEF t
<1>3. DOMAIN t = 1 .. Len(s) + 1 /\ t = [k \in DOMAIN t |-> t[k]]
  BY <1>1
<1>4. t = [k \in 1 .. Len(s) + 1 |-> IF k = Len(s) + 1 THEN e ELSE s[k]]
  BY <1>2, <1>3
<1> QED
  BY <1>4 DEF t

-----------------------------------------------------------------------------
(* FlattenSeq of the community modules *)

(* g[i] is what flattening the first i elements of s yields. *)
Flattened(g, s, i) == g[i] = IF i = 1 THEN s[i] ELSE g[i - 1] \o s[i]

FlattensFirst(g, s, n) == \A i \in 1 .. n : Flattened(g, s, i)

(* The first elements of a sequence can be flattened, however many. *)
LEMMA FlattenPrefix ==
  ASSUME NEW S, NEW s \in Seq(Seq(S)), NEW n \in Nat, n <= Len(s)
  PROVE  \E g \in [1 .. n -> Seq(S)] : \A i \in 1 .. n : Flattened(g, s, i)
<1> DEFINE G(m) == {g \in [1 .. m -> Seq(S)] : \A i \in 1 .. m : Flattened(g, s, i)}
           T == {m \in Nat : m <= Len(s) => G(m) # {}}
<1>1. 0 \in T
  <2>1. [i \in 1 .. 0 |-> <<>>] \in G(0)
    OBVIOUS
  <2> QED
    BY <2>1
<1>2. ASSUME NEW m \in T PROVE m + 1 \in T
  <2> SUFFICES ASSUME m + 1 <= Len(s) PROVE G(m + 1) # {}
    <3>1. m + 1 \in Nat
      OBVIOUS
    <3> HIDE DEF G
    <3> QED
      BY <3>1
  <2>0. m \in Nat /\ m <= Len(s) /\ G(m) # {}
    <3> HIDE DEF G
    <3> QED
      OBVIOUS
  <2>1. PICK g : g \in G(m)
    <3> HIDE DEF G
    <3> QED
      BY <2>0
  <2> DEFINE last == IF m = 0 THEN s[1] ELSE g[m] \o s[m + 1]
             h == [i \in 1 .. m + 1 |-> IF i = m + 1 THEN last ELSE g[i]]
  <2>2. last \in Seq(S)
    <3>1. CASE m = 0
      BY <3>1
    <3>2. CASE m # 0
      <4>1. g[m] \in Seq(S) /\ s[m + 1] \in Seq(S)
        BY <2>1, <3>2
      <4> QED
        BY <3>2, <4>1
    <3> QED
      BY <3>1, <3>2
  <2>3. h \in [1 .. m + 1 -> Seq(S)]
    <3> HIDE DEF last
    <3> QED
      BY <2>1, <2>2
  <2>4. ASSUME NEW i \in 1 .. m + 1 PROVE Flattened(h, s, i)
    <3>1. CASE i = m + 1
      <4>1. h[i] = last /\ (i # 1 => h[i - 1] = g[m])
        <5> HIDE DEF last
        <5> QED
          BY <3>1
      <4> HIDE DEF h
      <4> QED
        BY <3>1, <4>1 DEF Flattened
    <3>2. CASE i # m + 1
      <4>1. h[i] = g[i] /\ (i # 1 => h[i - 1] = g[i - 1]) /\ i \in 1 .. m
        <5> HIDE DEF last
        <5> QED
          BY <3>2
      <4>2. Flattened(g, s, i)
        BY <2>1, <4>1
      <4> HIDE DEF h
      <4> QED
        BY <4>1, <4>2 DEF Flattened
    <3> QED
      BY <3>1, <3>2
  <2> HIDE DEF h
  <2>5. h \in G(m + 1)
    BY <2>3, <2>4
  <2> QED
    BY <2>5
<1> HIDE DEF T
<1>3. T = Nat
  <2>1. T \in SUBSET Nat
    BY DEF T
  <2> QED
    BY <1>1, <1>2, <2>1, Induction
<1>4. n \in T
  BY <1>3
<1> QED
  BY <1>4 DEF T

(* There is but one way to flatten the first elements of a sequence. *)
LEMMA FlattenUnique ==
  ASSUME NEW s, NEW n \in Nat, NEW g, NEW h,
         FlattensFirst(g, s, n), FlattensFirst(h, s, n)
  PROVE  \A i \in 1 .. n : g[i] = h[i]
<1> DEFINE T == {m \in Nat : m \in 1 .. n => g[m] = h[m]}
<1>1. 0 \in T
  OBVIOUS
<1>2. ASSUME NEW m \in T PROVE m + 1 \in T
  <2>1. m \in Nat /\ (m \in 1 .. n => g[m] = h[m])
    OBVIOUS
  <2>2. ASSUME m + 1 \in 1 .. n PROVE g[m + 1] = h[m + 1]
    <3>1. Flattened(g, s, m + 1) /\ Flattened(h, s, m + 1)
      BY <2>2 DEF FlattensFirst
    <3>2. m = 0 \/ m \in 1 .. n
      BY <2>1, <2>2
    <3>3. (m + 1) - 1 = m /\ (m + 1 = 1 <=> m = 0)
      BY <2>1
    <3> QED
      BY <2>1, <3>1, <3>2, <3>3 DEF Flattened
  <2> QED
    BY <2>1, <2>2
<1> HIDE DEF T
<1>3. T = Nat
  <2>1. T \in SUBSET Nat
    BY DEF T
  <2> QED
    BY <1>1, <1>2, <2>1, Induction
<1>4. \A i \in 1 .. n : i \in T
  BY <1>3
<1> QED
  BY <1>4 DEF T

(* FlattenSeq is the last step of such a flattening. *)
LEMMA FlattenIs ==
  ASSUME NEW S, NEW s \in Seq(Seq(S)), s # <<>>
  PROVE  \E g \in [1 .. Len(s) -> Seq(S)] :
           /\ \A i \in 1 .. Len(s) : Flattened(g, s, i)
           /\ FlattenSeq(s) = g[Len(s)]
<1> DEFINE E(g) == g = [i \in 1 .. Len(s) |-> IF i = 1 THEN s[i] ELSE g[i - 1] \o s[i]]
           f == CHOOSE g : E(g)
<1>1. Len(s) \in Nat /\ Len(s) # 0 /\ Len(s) \in 1 .. Len(s)
  OBVIOUS
<1>2. \E h \in [1 .. Len(s) -> Seq(S)] : \A i \in 1 .. Len(s) : Flattened(h, s, i)
  <2> DEFINE n == Len(s)
  <2>1. n \in Nat /\ n <= Len(s)
    OBVIOUS
  <2> HIDE DEF n
  <2>2. \E h \in [1 .. n -> Seq(S)] : \A i \in 1 .. n : Flattened(h, s, i)
    BY <2>1, FlattenPrefix
  <2> QED
    BY <2>2 DEF n
<1>3. PICK h \in [1 .. Len(s) -> Seq(S)] : \A i \in 1 .. Len(s) : Flattened(h, s, i)
  BY <1>2
<1>4. E(h)
  BY <1>3 DEF Flattened
<1>5. E(f)
  BY <1>4
<1>6. FlattenSeq(s) = f[Len(s)]
  BY <1>1 DEF FlattenSeq
<1> HIDE DEF f
<1>7. \A i \in 1 .. Len(s) : Flattened(f, s, i)
  BY <1>5 DEF Flattened
<1>8. f[Len(s)] = h[Len(s)]
  <2>1. FlattensFirst(f, s, Len(s)) /\ FlattensFirst(h, s, Len(s))
    BY <1>3, <1>7 DEF FlattensFirst
  <2>2. \A i \in 1 .. Len(s) : f[i] = h[i]
    BY <1>1, <2>1, FlattenUnique
  <2> QED
    BY <1>1, <2>2
<1> QED
  BY <1>3, <1>6, <1>8

(* FlattenSeq yields a sequence of the elements of the elements. *)
LEMMA FlattenType ==
  ASSUME NEW S, NEW s \in Seq(Seq(S))
  PROVE  FlattenSeq(s) \in Seq(S)
<1>1. CASE s = <<>>
  BY <1>1 DEF FlattenSeq
<1>2. CASE s # <<>>
  <2>1. PICK g \in [1 .. Len(s) -> Seq(S)] : FlattenSeq(s) = g[Len(s)]
    BY <1>2, FlattenIs
  <2>2. Len(s) \in 1 .. Len(s)
    BY <1>2
  <2> QED
    BY <2>1, <2>2
<1> QED
  BY <1>1, <1>2

(* One element more is flattened to what was there, followed by it. *)
LEMMA FlattenAppend ==
  ASSUME NEW S, NEW s \in Seq(Seq(S)), NEW c \in Seq(S)
  PROVE  FlattenSeq(Append(s, c)) = FlattenSeq(s) \o c
<1> DEFINE t == Append(s, c)
<1>1. /\ t \in Seq(Seq(S)) /\ t # <<>> /\ Len(t) = Len(s) + 1 /\ Len(s) \in Nat
      /\ t[Len(t)] = c /\ \A i \in 1 .. Len(s) : t[i] = s[i]
  <2> DEFINE R == Seq(S)
  <2>1. s \in Seq(R) /\ c \in R
    OBVIOUS
  <2> HIDE DEF R
  <2>2. t \in Seq(R) /\ t # <<>> /\ Len(t) = Len(s) + 1 /\ Len(s) \in Nat
    <3>1. Len(s) \in Nat
      BY <2>1, SMTT(30)
    <3>2. t \in Seq(R)
      BY <2>1, SMTT(30)
    <3>3. Len(t) = Len(s) + 1
      BY <2>1, SMTT(30)
    <3>4. t # <<>>
      BY <3>1, <3>3, SMTT(30)
    <3> QED
      BY <3>1, <3>2, <3>3, <3>4
  <2>3. t[Len(s) + 1] = c /\ \A i \in 1 .. Len(s) : t[i] = s[i]
    BY <2>1
  <2> HIDE DEF t
  <2> QED
    BY <2>2, <2>3 DEF R
<1> HIDE DEF t
<1>2. PICK g \in [1 .. Len(t) -> Seq(S)] :
        /\ \A i \in 1 .. Len(t) : Flattened(g, t, i)
        /\ FlattenSeq(t) = g[Len(t)]
  BY <1>1, FlattenIs
<1>3. Flattened(g, t, Len(t))
  BY <1>1, <1>2
<1>4. CASE s = <<>>
  <2>1. g[Len(t)] = c
    BY <1>1, <1>3, <1>4 DEF Flattened
  <2>2. FlattenSeq(s) = <<>>
    BY <1>4 DEF FlattenSeq
  <2> QED
    BY <1>2, <2>1, <2>2 DEF t
<1>5. CASE s # <<>>
  <2>1. PICK h \in [1 .. Len(s) -> Seq(S)] :
          /\ \A i \in 1 .. Len(s) : Flattened(h, s, i)
          /\ FlattenSeq(s) = h[Len(s)]
    BY <1>5, FlattenIs
  <2>2. ASSUME NEW i \in 1 .. Len(s) PROVE Flattened(g, s, i)
    <3>1. Flattened(g, t, i) /\ t[i] = s[i]
      BY <1>1, <1>2
    <3> QED
      BY <3>1 DEF Flattened
  <2>3. Len(s) \in 1 .. Len(s)
    BY <1>1, <1>5
  <2>4. g[Len(s)] = h[Len(s)]
    <3>1. FlattensFirst(g, s, Len(s)) /\ FlattensFirst(h, s, Len(s))
      BY <2>1, <2>2 DEF FlattensFirst
    <3>2. Len(s) \in Nat
      OBVIOUS
    <3>3. \A i \in 1 .. Len(s) : g[i] = h[i]
      BY <3>1, <3>2, FlattenUnique
    <3> QED
      BY <2>3, <3>3
  <2>5. g[Len(t)] = g[Len(s)] \o c
    <3>1. Len(t) # 1 /\ Len(t) - 1 = Len(s)
      BY <1>1, <2>3
    <3> QED
      BY <1>1, <1>3, <3>1 DEF Flattened
  <2> QED
    BY <1>2, <2>1, <2>4, <2>5 DEF t
<1> QED
  BY <1>4, <1>5

(* The parts of a sequence by one element. *)
LEMMA PrefixAppend ==
  ASSUME NEW R, NEW s \in Seq(R), NEW m \in 1 .. Len(s)
  PROVE  /\ SubSeq(s, 1, m - 1) \in Seq(R) /\ s[m] \in R
         /\ SubSeq(s, 1, m) = Append(SubSeq(s, 1, m - 1), s[m])
<1> DEFINE p == SubSeq(s, 1, m - 1)
           q == SubSeq(s, 1, m)
<1>1. /\ p \in Seq(R) /\ Len(p) = m - 1 /\ \A k \in 1 .. m - 1 : p[k] = s[k]
      /\ q \in Seq(R) /\ Len(q) = m /\ \A k \in 1 .. m : q[k] = s[k]
      /\ s[m] \in R /\ m \in Nat
  OBVIOUS
<1> HIDE DEF p, q
<1>2. q = Append(p, s[m])
  BY <1>1
<1> QED
  BY <1>1, <1>2 DEF p, q

(* A sequence before the others is before what they flatten to. *)
LEMMA FlattenFront ==
  ASSUME NEW S, NEW s \in Seq(Seq(S)), NEW a \in Seq(S)
  PROVE  FlattenSeq(<<a>> \o s) = a \o FlattenSeq(s)
<1> DEFINE R == Seq(S)
           P(m) == SubSeq(s, 1, m)
           T == {m \in 0 .. Len(s) : FlattenSeq(<<a>> \o P(m)) = a \o FlattenSeq(P(m))}
<1>0. a \in R /\ s \in Seq(R) /\ <<>> \in Seq(R)
  OBVIOUS
<1>1. \A t \in Seq(R) : FlattenSeq(t) \in R
  BY FlattenType
<1>2. \A t \in Seq(R) : \A c \in R : FlattenSeq(Append(t, c)) = FlattenSeq(t) \o c
  BY FlattenAppend
<1>3. 0 \in T
  <2>1. FlattenSeq(<<>>) = <<>>
    BY DEF FlattenSeq
  <2>2. <<>> \o a = a /\ a \o <<>> = a
    OBVIOUS
  <2> HIDE DEF R
  <2>3. P(0) = <<>> /\ <<a>> \o <<>> = Append(<<>>, a)
    BY <1>0
  <2>4. FlattenSeq(Append(<<>>, a)) = FlattenSeq(<<>>) \o a
    BY <1>0, <1>2
  <2>5. FlattenSeq(<<a>> \o P(0)) = a \o FlattenSeq(P(0))
    BY <2>1, <2>2, <2>3, <2>4
  <2>6. 0 \in 0 .. Len(s)
    BY <1>0
  <2> QED
    BY <2>5, <2>6
<1>4. ASSUME NEW m \in 1 .. Len(s), m - 1 \in T PROVE m \in T
  <2> DEFINE p == P(m - 1)
             c == s[m]
  <2>0. p \in Seq(R) /\ c \in R /\ P(m) = Append(p, c) /\ m \in 0 .. Len(s)
    <3> HIDE DEF R
    <3> QED
      BY <1>0, PrefixAppend
  <2>1. FlattenSeq(<<a>> \o p) = a \o FlattenSeq(p)
    BY <1>4
  <2> HIDE DEF p, c, P
  <2>2. <<a>> \o Append(p, c) = Append(<<a>> \o p, c) /\ <<a>> \o p \in Seq(R)
    <3> HIDE DEF R
    <3> QED
      BY <1>0, <2>0
  <2>3. FlattenSeq(<<a>> \o Append(p, c)) = (a \o FlattenSeq(p)) \o c
    BY <1>2, <2>0, <2>1, <2>2
  <2>4. (a \o FlattenSeq(p)) \o c = a \o (FlattenSeq(p) \o c)
    <3>1. FlattenSeq(p) \in Seq(S) /\ c \in Seq(S)
      BY <1>1, <2>0
    <3> QED
      BY SMTT(30), <3>1
  <2>5. FlattenSeq(Append(p, c)) = FlattenSeq(p) \o c
    BY <1>2, <2>0
  <2> QED
    BY <2>0, <2>3, <2>4, <2>5
<1> HIDE DEF T
<1>5. 0 .. Len(s) \subseteq T
  <2>1. Len(s) \in Nat
    <3> HIDE DEF R
    <3> QED
      BY <1>0
  <2> QED
    BY <1>3, <1>4, <2>1, InductionUpTo
<1>6. Len(s) \in T /\ P(Len(s)) = s
  <2> HIDE DEF R
  <2> QED
    BY <1>0, <1>5
<1> QED
  BY <1>6 DEF T

(* Sequences with the same elements are the same. *)
LEMMA SameElements ==
  ASSUME NEW S, NEW s \in Seq(S), NEW t \in Seq(S)
  PROVE  Len(s) = Len(t) /\ (\A k \in 1 .. Len(s) : s[k] = t[k]) => s = t
  OBVIOUS

(* A concatenation determines its parts if their lengths are known. *)
LEMMA ConcatCancel ==
  ASSUME NEW S, NEW a \in Seq(S), NEW b \in Seq(S), NEW c \in Seq(S), NEW d \in Seq(S)
  PROVE  Len(c) = Len(d) /\ a \o c = b \o d => a = b /\ c = d
<1> SUFFICES ASSUME Len(c) = Len(d), a \o c = b \o d
             PROVE  a = b /\ c = d
  OBVIOUS
<1>0. \A u, v \in Seq(S) :
        /\ Len(u \o v) = Len(u) + Len(v) /\ Len(u) \in Nat
        /\ \A k \in 1 .. Len(u) : (u \o v)[k] = u[k]
        /\ \A k \in 1 .. Len(v) : (u \o v)[Len(u) + k] = v[k]
  OBVIOUS
<1>1. Len(a) = Len(b)
  <2>1. Len(a \o c) = Len(a) + Len(c) /\ Len(b \o d) = Len(b) + Len(d)
    BY <1>0
  <2>2. Len(a) \in Nat /\ Len(b) \in Nat /\ Len(c) \in Nat
    BY <1>0
  <2> QED
    BY <2>1, <2>2
<1>2. \A k \in 1 .. Len(a) : a[k] = (a \o c)[k] /\ b[k] = (b \o d)[k]
  BY <1>0, <1>1
<1>3. \A k \in 1 .. Len(c) : c[k] = (a \o c)[Len(a) + k] /\ d[k] = (b \o d)[Len(b) + k]
  BY SMTT(30), <1>0
<1>4. a = b
  BY <1>1, <1>2
<1>5. c = d
  <2>1. \A k \in 1 .. Len(c) : c[k] = d[k]
    BY <1>1, <1>3
  <2> QED
    BY <2>1, SameElements
<1> QED
  BY <1>4, <1>5

(* Sequences of equal lengths that flatten to the same are the same. *)
LEMMA FlattenInjective ==
  ASSUME NEW S, NEW s \in Seq(Seq(S)), NEW t \in Seq(Seq(S))
  PROVE  (/\ Len(s) = Len(t)
          /\ \A k \in 1 .. Len(s) : Len(s[k]) = Len(t[k])
          /\ FlattenSeq(s) = FlattenSeq(t))
           => \A k \in 1 .. Len(s) : s[k] = t[k]
<1> DEFINE R == Seq(S)
           P(m) == SubSeq(s, 1, m)
           Q(m) == SubSeq(t, 1, m)
           T == {m \in 0 .. Len(s) : FlattenSeq(P(m)) = FlattenSeq(Q(m))
                                       => \A k \in 1 .. m : s[k] = t[k]}
<1>1. SUFFICES ASSUME Len(s) = Len(t), \A k \in 1 .. Len(s) : Len(s[k]) = Len(t[k]),
                      FlattenSeq(s) = FlattenSeq(t)
               PROVE  \A k \in 1 .. Len(s) : s[k] = t[k]
  OBVIOUS
<1>2. s \in Seq(R) /\ t \in Seq(R)
  OBVIOUS
<1>3. \A u \in Seq(R) : FlattenSeq(u) \in R
  BY FlattenType
<1>4. \A u \in Seq(R) : \A c \in R : FlattenSeq(Append(u, c)) = FlattenSeq(u) \o c
  BY FlattenAppend
<1>5. \A u, v, c, d \in Seq(S) : Len(c) = Len(d) /\ u \o c = v \o d => u = v /\ c = d
  BY ConcatCancel
<1>6. 0 \in T
  <2>1. 0 \in 0 .. Len(s)
    <3> HIDE DEF R
    <3> QED
      BY <1>2
  <2> QED
    BY <2>1
<1>7. ASSUME NEW m \in 1 .. Len(s), m - 1 \in T PROVE m \in T
  <2>1. /\ P(m - 1) \in Seq(R) /\ s[m] \in R /\ P(m) = Append(P(m - 1), s[m])
        /\ Q(m - 1) \in Seq(R) /\ t[m] \in R /\ Q(m) = Append(Q(m - 1), t[m])
        /\ m \in 0 .. Len(s)
    <3> HIDE DEF R
    <3> QED
      BY SMTT(30), <1>2, <1>1, PrefixAppend
  <2> DEFINE u == FlattenSeq(P(m - 1))
             v == FlattenSeq(Q(m - 1))
             c == s[m]
             d == t[m]
  <2> HIDE DEF P, Q
  <2>2. SUFFICES ASSUME FlattenSeq(P(m)) = FlattenSeq(Q(m))
                 PROVE  \A k \in 1 .. m : s[k] = t[k]
    BY <2>1
  <2>3. u \o c = v \o d
    <3>1. FlattenSeq(P(m)) = u \o c /\ FlattenSeq(Q(m)) = v \o d
      BY <1>4, <2>1
    <3> QED
      BY <2>2, <3>1
  <2>4. Len(c) = Len(d)
    BY <1>1
  <2>5. u \in Seq(S) /\ v \in Seq(S) /\ c \in Seq(S) /\ d \in Seq(S)
    BY <1>3, <2>1
  <2>6. u = v /\ c = d
    <3> HIDE DEF u, v, c, d
    <3>1. Len(c) = Len(d) /\ u \o c = v \o d => u = v /\ c = d
      BY ZenonT(30), <1>5, <2>5
    <3> QED
      BY <2>3, <2>4, <3>1
  <2>7. \A k \in 1 .. m - 1 : s[k] = t[k]
    BY <1>7, <2>6
  <2> QED
    BY <2>6, <2>7
<1> HIDE DEF T
<1>8. 0 .. Len(s) \subseteq T
  <2>1. Len(s) \in Nat
    <3> HIDE DEF R
    <3> QED
      BY <1>2
  <2> QED
    BY <1>6, <1>7, <2>1, InductionUpTo
<1>9. \A z \in Seq(R) : Len(z) \in Nat /\ SubSeq(z, 1, Len(z)) = z
  <2> HIDE DEF R
  <2> QED
    OBVIOUS
<1>10. Len(s) \in T
  BY <1>2, <1>8, <1>9
<1>11. P(Len(s)) = s /\ Q(Len(s)) = t
  <2>1. SubSeq(s, 1, Len(s)) = s /\ SubSeq(t, 1, Len(t)) = t
    BY <1>2, <1>9
  <2> QED
    BY <1>1, <2>1
<1> QED
  BY <1>1, <1>10, <1>11 DEF T
=============================================================================
