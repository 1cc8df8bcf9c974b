----------------------------- MODULE SequenceFacts -----------------------------
(***************************************************************************)
(* Facts about natural numbers and sequences that the proofs of the        *)
(* components rest on: induction, stated with a set in place of a          *)
(* predicate; what FlattenSeq computes and what is left when a part is cut *)
(* out, for sequences of any length; and the order of their elements.      *)
(***************************************************************************)
EXTENDS Integers, Sequences, SequenceTheorems, WellFoundedInduction, TLAPS

-----------------------------------------------------------------------------
(* Induction: a set that holds 0 and n + 1 with every n holds all of Nat.  If not,
   the least number outside of it (WFMin) has a predecessor inside of it. *)
LEMMA NatInSet ==
    ASSUME NEW S, 0 \in S, \A n \in Nat : n \in S => n + 1 \in S
    PROVE  \A n \in Nat : n \in S
<1> DEFINE Outsiders == {n \in Nat : n \notin S}
           Less == {p \in Nat \X Nat : p[1] < p[2]}
<1>1. SUFFICES ASSUME Outsiders # {} PROVE FALSE
  OBVIOUS
<1>2. Outsiders \subseteq Nat
  OBVIOUS
<1>3. IsWellFoundedOn(Less, Nat)
  BY NatLessThanWellFounded DEF OpToRel
<1>4. \E m \in Outsiders : \A n \in Outsiders : ~(<<n, m>> \in Less)
  <2> HIDE DEF Outsiders, Less
  <2> QED
    BY <1>1, <1>2, <1>3, WFMin
<1>5. PICK m \in Outsiders : \A n \in Outsiders : ~(<<n, m>> \in Less)
  BY <1>4
<1>6. m - 1 \in Nat /\ m - 1 < m /\ (m - 1) + 1 = m
  OBVIOUS
<1>7. m - 1 \notin Outsiders
  BY <1>5, <1>6
<1> QED
  BY <1>6, <1>7

-----------------------------------------------------------------------------
(* Sequences *)

LEMMA ConcatAppend ==
    ASSUME NEW S, NEW s \in Seq(S), NEW t \in Seq(S), NEW e \in S
    PROVE  s \o Append(t, e) = Append(s \o t, e)
<1> DEFINE w == <<e>>
<1>1. w \in Seq(S) /\ Append(t, e) = t \o w
  BY AppendIsConcat
<1>2. s \o t \in Seq(S)
  BY ConcatProperties
<1>3. Append(s \o t, e) = (s \o t) \o w
  BY <1>2, AppendIsConcat
<1> HIDE DEF w
<1>4. (s \o t) \o w = s \o (t \o w)
  BY <1>1, ConcatAssociative
<1> QED
  BY <1>1, <1>3, <1>4, Zenon

(* The first element moves from one sequence to the end of the one before it. *)
LEMMA ConcatMoveHead ==
    ASSUME NEW S, NEW s \in Seq(S), NEW t \in Seq(S), t # <<>>
    PROVE  s \o t = Append(s, Head(t)) \o Tail(t)
<1>1. /\ Head(t) \in S /\ Tail(t) \in Seq(S) /\ Len(Tail(t)) = Len(t) - 1
      /\ \A i \in 1..Len(Tail(t)) : Tail(t)[i] = t[i + 1]
  BY HeadTailProperties
<1>2. Head(t) = t[1] /\ Len(t) \in Nat \ {0} /\ Len(s) \in Nat
  BY EmptySeq, LenProperties
<1> DEFINE a == Append(s, Head(t))
           l == s \o t
           r == a \o Tail(t)
<1>3. /\ a \in Seq(S) /\ Len(a) = Len(s) + 1 /\ a[Len(s) + 1] = t[1]
      /\ \A i \in 1..Len(s) : a[i] = s[i]
  BY <1>1, <1>2, AppendProperties
<1>4. /\ l \in Seq(S) /\ Len(l) = Len(s) + Len(t)
      /\ \A i \in 1..(Len(s) + Len(t)) :
             l[i] = IF i <= Len(s) THEN s[i] ELSE t[i - Len(s)]
  BY ConcatProperties
<1>5. /\ r \in Seq(S) /\ Len(r) = Len(a) + Len(Tail(t))
      /\ \A i \in 1..(Len(a) + Len(Tail(t))) :
             r[i] = IF i <= Len(a) THEN a[i] ELSE Tail(t)[i - Len(a)]
  <2> HIDE DEF a
  <2> QED
    BY <1>1, <1>3, ConcatProperties
<1> HIDE DEF a, l, r
<1>6. Len(l) = Len(r)
  BY <1>1, <1>2, <1>3, <1>4, <1>5
<1>7. ASSUME NEW i \in 1..Len(l)
      PROVE  l[i] = r[i]
  <2>1. i \in 1..(Len(s) + Len(t)) /\ i \in 1..(Len(a) + Len(Tail(t)))
    BY <1>4, <1>5, <1>6
  <2>2. CASE i <= Len(s)
    <3>1. i \in 1..Len(s) /\ i <= Len(a)
      BY <1>2, <1>3, <2>1, <2>2
    <3>2. l[i] = s[i] /\ r[i] = a[i]
      BY <1>4, <1>5, <2>1, <2>2, <3>1
    <3> QED
      BY <1>3, <3>1, <3>2
  <2>3. CASE i = Len(s) + 1
    BY <1>2, <1>3, <1>4, <1>5, <2>1, <2>3
  <2>4. CASE i > Len(s) + 1
    <3>1. l[i] = t[i - Len(s)] /\ r[i] = Tail(t)[i - Len(a)]
      BY <1>2, <1>3, <1>4, <1>5, <2>1, <2>4
    <3>2. i - Len(a) \in 1..Len(Tail(t)) /\ (i - Len(a)) + 1 = i - Len(s)
      BY <1>1, <1>2, <1>3, <2>1, <2>4
    <3> QED
      BY <1>1, <3>1, <3>2
  <2> QED
    BY <1>2, <2>1, <2>2, <2>3, <2>4
<1>8. l = r
  BY <1>4, <1>5, <1>6, <1>7, SeqEqual
<1> QED
  BY <1>8 DEF a, l, r

-----------------------------------------------------------------------------
(* FlattenSeq *)

LOCAL INSTANCE SequencesExt

(* f computes the first n partial results of flattening s. *)
Flattens(f, s, n) == f = [i \in 1..n |-> IF i = 1 THEN s[i] ELSE f[i - 1] \o s[i]]

LEMMA FlattensAt ==
    ASSUME NEW f, NEW s, NEW n \in Nat, Flattens(f, s, n), NEW i \in 1..n
    PROVE  f[i] = IF i = 1 THEN s[i] ELSE f[i - 1] \o s[i]
<1> DEFINE F == [j \in 1..n |-> IF j = 1 THEN s[j] ELSE f[j - 1] \o s[j]]
<1>1. f = F
  BY DEF Flattens
<1>2. F[i] = IF i = 1 THEN s[i] ELSE f[i - 1] \o s[i]
  BY Zenon
<1>3. f[i] = F[i]
  <2> HIDE DEF F
  <2> QED
    BY <1>1
<1> QED
  BY <1>2, <1>3, Zenon

(* The recursive function in FlattenSeq exists ... *)
LEMMA FlattenExists ==
    ASSUME NEW s, NEW n \in Nat
    PROVE  \E f : Flattens(f, s, n)
<1> DEFINE S == {k \in Nat : \E f : Flattens(f, s, k)}
<1>1. 0 \in S
  <2> DEFINE f == [i \in 1..0 |-> s[i]]
  <2>1. Flattens(f, s, 0)
    BY DEF Flattens
  <2> QED
    BY <2>1
<1>2. ASSUME NEW k \in Nat, k \in S
      PROVE  k + 1 \in S
  <2>1. PICK f : Flattens(f, s, k)
    BY <1>2
  <2> DEFINE g == [i \in 1..(k + 1) |->
                      IF i = k + 1 THEN (IF i = 1 THEN s[i] ELSE f[k] \o s[i]) ELSE f[i]]
  <2>2. \A i \in 1..k : g[i] = f[i]
    OBVIOUS
  <2>3. ASSUME NEW i \in 1..(k + 1)
        PROVE  g[i] = IF i = 1 THEN s[i] ELSE g[i - 1] \o s[i]
    <3>1. CASE i = k + 1
      <4>1. CASE i = 1
        BY <3>1, <4>1
      <4>2. CASE i # 1
        <5>1. g[i] = f[k] \o s[i]
          BY <3>1, <4>2, Zenon
        <5>2. k \in 1..k /\ i - 1 = k
          BY <3>1, <4>2
        <5>3. g[i - 1] = f[k]
          BY <2>2, <5>2
        <5> HIDE DEF g
        <5> QED
          BY <4>2, <5>1, <5>3, Zenon
      <4> QED
        BY <4>1, <4>2
    <3>2. CASE i # k + 1
      <4>1. i \in 1..k
        BY <3>2
      <4>2. f[i] = IF i = 1 THEN s[i] ELSE f[i - 1] \o s[i]
        BY <2>1, <4>1, FlattensAt
      <4>3. i # 1 => g[i - 1] = f[i - 1]
        <5>1. i # 1 => i - 1 \in 1..k
          BY <4>1
        <5> HIDE DEF g
        <5> QED
          BY <2>2, <5>1
      <4>4. g[i] = f[i]
        BY <2>2, <4>1
      <4> HIDE DEF g
      <4> QED
        BY <4>2, <4>3, <4>4, Zenon
    <3> QED
      BY <3>1, <3>2
  <2>4. Flattens(g, s, k + 1)
    <3>1. g = [i \in 1..(k + 1) |-> g[i]]
      OBVIOUS
    <3> HIDE DEF g
    <3> QED
      BY <2>3, <3>1 DEF Flattens
  <2> QED
    BY <2>4
<1>3. \A k \in Nat : k \in S
  <2> HIDE DEF S
  <2> QED
    BY <1>1, <1>2, NatInSet
<1> QED
  BY <1>3

(* ... and depends on nothing but the elements it has been given. *)
LEMMA FlattenAgrees ==
    ASSUME NEW s, NEW t, NEW f, NEW g, NEW n \in Nat,
           Flattens(f, s, n), Flattens(g, t, n + 1), \A i \in 1..n : t[i] = s[i]
    PROVE  \A i \in 1..n : g[i] = f[i]
<1> DEFINE S == {j \in Nat : j \in 1..n => g[j] = f[j]}
<1>1. 0 \in S
  OBVIOUS
<1>2. ASSUME NEW j \in Nat, j \in S
      PROVE  j + 1 \in S
  <2> SUFFICES ASSUME j + 1 \in 1..n PROVE g[j + 1] = f[j + 1]
    OBVIOUS
  <2>1. n + 1 \in Nat /\ j + 1 \in 1..(n + 1) /\ (j + 1) - 1 = j
    OBVIOUS
  <2>2. f[j + 1] = IF j + 1 = 1 THEN s[j + 1] ELSE f[(j + 1) - 1] \o s[j + 1]
    BY <2>1, FlattensAt
  <2>3. g[j + 1] = IF j + 1 = 1 THEN t[j + 1] ELSE g[(j + 1) - 1] \o t[j + 1]
    BY <2>1, FlattensAt
  <2>4. j + 1 # 1 => f[(j + 1) - 1] = g[(j + 1) - 1]
    BY <1>2, <2>1
  <2>5. s[j + 1] = t[j + 1]
    OBVIOUS
  <2> QED
    BY <2>2, <2>3, <2>4, <2>5, Zenon
<1>3. \A j \in Nat : j \in S
  <2> HIDE DEF S
  <2> QED
    BY <1>1, <1>2, NatInSet
<1> QED
  BY <1>3

LEMMA FlattenIs ==
    ASSUME NEW s, NEW n \in Nat \ {0}, Len(s) = n
    PROVE  \E f : Flattens(f, s, n) /\ FlattenSeq(s) = f[n]
<1>1. PICK f : Flattens(f, s, n)
  BY FlattenExists
<1> QED
  BY <1>1 DEF FlattenSeq, Flattens

LEMMA FlattenEmpty == FlattenSeq(<<>>) = <<>>
<1>1. Len(<<>>) = 0
  OBVIOUS
<1> QED
  BY <1>1 DEF FlattenSeq

LEMMA FlattenOne ==
    ASSUME NEW e
    PROVE  FlattenSeq(<<e>>) = e
<1>1. Len(<<e>>) = 1 /\ <<e>>[1] = e /\ 1 \in Nat \ {0}
  OBVIOUS
<1>2. PICK f : Flattens(f, <<e>>, 1) /\ FlattenSeq(<<e>>) = f[1]
  BY <1>1, FlattenIs, Zenon
<1> QED
  BY <1>1, <1>2, FlattensAt

(* A block more at the end of a queue is its bytes more at the end. *)
LEMMA FlattenAppend ==
    ASSUME NEW U, NEW s \in Seq(Seq(U)), NEW e \in Seq(U)
    PROVE  FlattenSeq(Append(s, e)) = FlattenSeq(s) \o e
<1> DEFINE t == Append(s, e)
           n == Len(s)
<1>1. /\ n \in Nat /\ Len(t) = n + 1 /\ t[n + 1] = e
      /\ \A i \in 1..n : t[i] = s[i]
  BY AppendProperties, LenProperties
<1>2. PICK g : Flattens(g, t, n + 1) /\ FlattenSeq(t) = g[n + 1]
  <2>1. n + 1 \in Nat \ {0}
    BY <1>1
  <2> HIDE DEF t, n
  <2> QED
    BY <1>1, <2>1, FlattenIs
<1>3. CASE n = 0
  <2>1. s = <<>> /\ <<>> \o e = e
    BY <1>3, EmptySeq, ConcatEmptySeq
  <2>2. g[1] = e
    <3>1. 1 \in 1..(n + 1) /\ t[1] = e
      BY <1>1, <1>3
    <3> HIDE DEF t, n
    <3> QED
      BY <1>1, <1>2, <3>1, FlattensAt
  <2> QED
    BY <1>2, <1>3, <2>1, <2>2, FlattenEmpty
<1>4. CASE n # 0
  <2>1. PICK f : Flattens(f, s, n) /\ FlattenSeq(s) = f[n]
    BY <1>1, <1>4, FlattenIs
  <2>2. \A i \in 1..n : g[i] = f[i]
    <3> HIDE DEF t, n
    <3> QED
      BY <1>1, <1>2, <2>1, FlattenAgrees
  <2>3. g[n + 1] = g[(n + 1) - 1] \o t[n + 1]
    <3>1. n + 1 \in Nat /\ n + 1 \in 1..(n + 1) /\ n + 1 # 1
      BY <1>1, <1>4
    <3> HIDE DEF t, n
    <3>2. g[n + 1] = IF n + 1 = 1 THEN t[n + 1] ELSE g[(n + 1) - 1] \o t[n + 1]
      BY <1>2, <3>1, FlattensAt
    <3> QED
      BY <3>1, <3>2, Zenon
  <2>4. (n + 1) - 1 = n /\ n \in 1..n
    BY <1>1, <1>4
  <2> QED
    BY <1>1, <1>2, <2>1, <2>2, <2>3, <2>4
<1> QED
  BY <1>3, <1>4

LEMMA FlattenType ==
    ASSUME NEW U, NEW s \in Seq(Seq(U))
    PROVE  FlattenSeq(s) \in Seq(U)
<1> DEFINE S == {n \in Nat : \A r \in Seq(Seq(U)) : Len(r) = n => FlattenSeq(r) \in Seq(U)}
<1>1. 0 \in S
  BY EmptySeq, FlattenEmpty
<1>2. ASSUME NEW n \in Nat, n \in S
      PROVE  n + 1 \in S
  <2> SUFFICES ASSUME NEW r \in Seq(Seq(U)), Len(r) = n + 1
               PROVE  FlattenSeq(r) \in Seq(U)
    OBVIOUS
  <2>1. r # <<>>
    BY EmptySeq
  <2>2. PICK q \in Seq(Seq(U)), e \in Seq(U) : r = Append(q, e)
    BY <2>1, SequenceEmptyOrAppend
  <2>3. Len(r) = Len(q) + 1 /\ Len(q) \in Nat
    BY <2>2, AppendProperties, LenProperties
  <2>4. FlattenSeq(q) \in Seq(U)
    BY <1>2, <2>3
  <2> QED
    BY <2>2, <2>4, FlattenAppend, ConcatProperties
<1>3. \A n \in Nat : n \in S
  <2> HIDE DEF S
  <2> QED
    BY <1>1, <1>2, NatInSet
<1> QED
  BY <1>3, LenProperties

LEMMA FlattenConcat ==
    ASSUME NEW U, NEW s \in Seq(Seq(U)), NEW t \in Seq(Seq(U))
    PROVE  FlattenSeq(s \o t) = FlattenSeq(s) \o FlattenSeq(t)
<1> DEFINE S == {n \in Nat : \A r \in Seq(Seq(U)) :
                     Len(r) = n => FlattenSeq(s \o r) = FlattenSeq(s) \o FlattenSeq(r)}
<1>1. 0 \in S
  <2> SUFFICES ASSUME NEW r \in Seq(Seq(U)), Len(r) = 0
               PROVE  FlattenSeq(s \o r) = FlattenSeq(s) \o FlattenSeq(r)
    OBVIOUS
  <2>1. r = <<>> /\ s \o r = s
    BY EmptySeq, ConcatEmptySeq
  <2>2. FlattenSeq(s) \o <<>> = FlattenSeq(s)
    BY FlattenType, ConcatEmptySeq
  <2> QED
    BY <2>1, <2>2, FlattenEmpty
<1>2. ASSUME NEW n \in Nat, n \in S
      PROVE  n + 1 \in S
  <2> SUFFICES ASSUME NEW r \in Seq(Seq(U)), Len(r) = n + 1
               PROVE  FlattenSeq(s \o r) = FlattenSeq(s) \o FlattenSeq(r)
    OBVIOUS
  <2>1. r # <<>>
    BY EmptySeq
  <2>2. PICK q \in Seq(Seq(U)), e \in Seq(U) : r = Append(q, e)
    BY <2>1, SequenceEmptyOrAppend
  <2>3. Len(r) = Len(q) + 1 /\ Len(q) \in Nat
    BY <2>2, AppendProperties, LenProperties
  <2>4. FlattenSeq(s \o q) = FlattenSeq(s) \o FlattenSeq(q)
    BY <1>2, <2>3
  <2>5. s \o r = Append(s \o q, e)
    BY <2>2, ConcatAppend, SMTT(30)
  <2>6. FlattenSeq(s \o r) = (FlattenSeq(s) \o FlattenSeq(q)) \o e
    <3>1. s \o q \in Seq(Seq(U))
      BY ConcatProperties
    <3> QED
      BY <2>4, <2>5, <3>1, FlattenAppend, Zenon
  <2>7. FlattenSeq(r) = FlattenSeq(q) \o e
    BY <2>2, FlattenAppend
  <2>8. FlattenSeq(s) \in Seq(U) /\ FlattenSeq(q) \in Seq(U)
    BY FlattenType
  <2>9. (FlattenSeq(s) \o FlattenSeq(q)) \o e = FlattenSeq(s) \o (FlattenSeq(q) \o e)
    BY <2>8, ConcatAssociative, SMTT(30)
  <2> QED
    BY <2>6, <2>7, <2>9, Zenon
<1>3. \A n \in Nat : n \in S
  <2> HIDE DEF S
  <2> QED
    BY <1>1, <1>2, NatInSet
<1> QED
  BY <1>3, LenProperties

-----------------------------------------------------------------------------
(* Parts of a sequence *)

LEMMA OneThenRest ==
    ASSUME NEW S, NEW b \in S, NEW r \in Seq(S)
    PROVE  <<b>> \o r # <<>> /\ Head(<<b>> \o r) = b /\ Tail(<<b>> \o r) = r
<1> DEFINE w == <<b>>
           s == w \o r
<1>1. w \in Seq(S) /\ Len(w) = 1 /\ w[1] = b /\ Len(r) \in Nat
  BY LenProperties
<1> HIDE DEF w
<1>2. /\ s \in Seq(S) /\ Len(s) = Len(w) + Len(r)
      /\ \A i \in 1..Len(w) + Len(r) : s[i] = IF i <= Len(w) THEN w[i] ELSE r[i - Len(w)]
  BY <1>1, ConcatProperties
<1> HIDE DEF s
<1>3. /\ Len(s) = 1 + Len(r) /\ s[1] = b
      /\ \A i \in 1..Len(r) : s[i + 1] = r[i]
  BY <1>1, <1>2
<1>4. s # <<>>
  BY <1>1, <1>3
<1>5. /\ Head(s) = s[1] /\ Tail(s) \in Seq(S) /\ Len(Tail(s)) = Len(s) - 1
      /\ \A i \in 1..Len(Tail(s)) : Tail(s)[i] = s[i + 1]
  BY <1>2, <1>4, HeadTailProperties
<1>6. Len(Tail(s)) = Len(r) /\ \A i \in 1..Len(r) : Tail(s)[i] = r[i]
  BY <1>1, <1>3, <1>5
<1>7. Tail(s) = r
  BY <1>5, <1>6, SeqEqual
<1> QED
  BY <1>3, <1>4, <1>5, <1>7 DEF s, w

(* v is w without one of its elements *)
OneLess(w, v) ==
    \E i \in DOMAIN w : v = SubSeq(w, 1, i - 1) \o SubSeq(w, i + 1, Len(w))

(* What is left of a sequence when its middle is cut out *)
LEMMA CutMiddle ==
    ASSUME NEW S, NEW a \in Seq(S), NEW h \in Seq(S), NEW r \in Seq(S), Len(h) = 1
    PROVE  OneLess((a \o h) \o r, a \o r)
<1> DEFINE b == a \o h
           w == b \o r
<1>1. Len(a) \in Nat /\ Len(r) \in Nat
  BY LenProperties
<1>2. /\ b \in Seq(S) /\ Len(b) = Len(a) + 1
      /\ \A i \in 1..Len(a) : b[i] = a[i]
  <2>1. /\ a \o h \in Seq(S) /\ Len(a \o h) = Len(a) + Len(h)
        /\ \A i \in 1..Len(a) + Len(h) : (a \o h)[i] = IF i <= Len(a) THEN a[i] ELSE h[i - Len(a)]
    BY ConcatProperties
  <2> QED
    BY <1>1, <2>1
<1> HIDE DEF b, w
<1>3. /\ w \in Seq(S) /\ Len(w) = Len(b) + Len(r)
      /\ \A i \in 1..Len(b) + Len(r) : w[i] = IF i <= Len(b) THEN b[i] ELSE r[i - Len(b)]
  <2>1. w = b \o r
    BY DEF w
  <2>2. b \in Seq(S) /\ r \in Seq(S)
    BY <1>2
  <2>3. /\ b \o r \in Seq(S) /\ Len(b \o r) = Len(b) + Len(r)
        /\ \A i \in 1..Len(b) + Len(r) : (b \o r)[i] = IF i <= Len(b) THEN b[i] ELSE r[i - Len(b)]
    BY <2>2, ConcatProperties
  <2> QED
    BY <2>1, <2>3, Zenon
<1>4. /\ Len(a) + 1 \in 1..Len(w)
      /\ \A i \in 1..Len(a) : w[i] = a[i]
      /\ \A i \in 1..Len(r) : w[Len(a) + 1 + i] = r[i]
      /\ Len(w) = Len(a) + 1 + Len(r)
  <2>1. Len(w) = Len(a) + 1 + Len(r)
    BY <1>1, <1>2, <1>3
  <2>2. ASSUME NEW i \in 1..Len(a) PROVE w[i] = a[i]
    <3>1. i \in 1..Len(b) + Len(r) /\ i <= Len(b)
      BY <1>1, <1>2
    <3>2. w[i] = IF i <= Len(b) THEN b[i] ELSE r[i - Len(b)]
      BY <1>3, <3>1
    <3>3. b[i] = a[i]
      BY <1>2
    <3> QED
      BY <3>1, <3>2, <3>3, Zenon
  <2>3. ASSUME NEW i \in 1..Len(r) PROVE w[Len(a) + 1 + i] = r[i]
    <3> DEFINE j == Len(a) + 1 + i
    <3>1. j \in 1..Len(b) + Len(r) /\ ~(j <= Len(b)) /\ j - Len(b) = i
      BY <1>1, <1>2
    <3> HIDE DEF j
    <3>2. w[j] = IF j <= Len(b) THEN b[j] ELSE r[j - Len(b)]
      BY <1>3, <3>1
    <3> QED
      BY <3>1, <3>2, Zenon DEF j
  <2> QED
    BY <1>1, <2>1, <2>2, <2>3
<1>5. SubSeq(w, 1, Len(a)) = a
  <2> DEFINE s == SubSeq(w, 1, Len(a))
  <2>1. s \in Seq(S) /\ Len(s) = Len(a) /\ \A i \in 1..Len(a) : s[i] = w[i]
    <3>1. \A i \in 1..Len(a) : w[i] \in S
      BY <1>4, ElementOfSeq
    <3>2. /\ s \in Seq(S) /\ Len(s) = IF 1 <= Len(a) THEN Len(a) - 1 + 1 ELSE 0
          /\ \A i \in 1..Len(a) - 1 + 1 : s[i] = w[1 + i - 1]
      BY <1>1, <3>1, SubSeqProperties
    <3> QED
      BY <1>1, <3>2
  <2> HIDE DEF s
  <2>2. s = a
    BY <1>4, <2>1, SeqEqual
  <2> QED
    BY <2>2 DEF s
<1>6. SubSeq(w, Len(a) + 2, Len(w)) = r
  <2> DEFINE s == SubSeq(w, Len(a) + 2, Len(w))
  <2>1. s \in Seq(S) /\ Len(s) = Len(r) /\ \A i \in 1..Len(r) : s[i] = w[Len(a) + 1 + i]
    <3>1. \A i \in Len(a) + 2..Len(w) : w[i] \in S
      BY <1>1, <1>3, <1>4, ElementOfSeq
    <3>2. /\ s \in Seq(S)
          /\ Len(s) = IF Len(a) + 2 <= Len(w) THEN Len(w) - (Len(a) + 2) + 1 ELSE 0
          /\ \A i \in 1..Len(w) - (Len(a) + 2) + 1 : s[i] = w[Len(a) + 2 + i - 1]
      BY <1>1, <1>4, <3>1, SubSeqProperties
    <3> QED
      BY <1>1, <1>4, <3>2
  <2> HIDE DEF s
  <2>2. s = r
    BY <1>4, <2>1, SeqEqual
  <2> QED
    BY <2>2 DEF s
<1>7. Len(a) + 1 - 1 = Len(a) /\ Len(a) + 1 + 1 = Len(a) + 2
  BY <1>1
<1> DEFINE i == Len(a) + 1
<1>8. i \in DOMAIN w /\ i - 1 = Len(a) /\ i + 1 = Len(a) + 2
  BY <1>3, <1>4, <1>7, LenProperties
<1> HIDE DEF i
<1>9. a \o r = SubSeq(w, 1, i - 1) \o SubSeq(w, i + 1, Len(w))
  BY <1>5, <1>6, <1>8, Zenon
<1>10. \E j \in DOMAIN w : a \o r = SubSeq(w, 1, j - 1) \o SubSeq(w, j + 1, Len(w))
  BY <1>8, <1>9, Zenon
<1> QED
  BY <1>10, Zenon DEF OneLess, b, w

(* v is what is left of w when some elements at its front are cut off *)
BackOf(w, v) == \E k \in 0..Len(w) : v = SubSeq(w, k + 1, Len(w))

LEMMA CutFront ==
    ASSUME NEW S, NEW a \in Seq(S), NEW r \in Seq(S)
    PROVE  BackOf(a \o r, r)
<1> DEFINE w == a \o r
           k == Len(a)
           s == SubSeq(w, k + 1, Len(w))
<1>1. k \in Nat /\ Len(r) \in Nat
  BY LenProperties
<1>2. /\ w \in Seq(S) /\ Len(w) = k + Len(r)
      /\ \A i \in 1..k + Len(r) : w[i] = IF i <= k THEN a[i] ELSE r[i - k]
  BY ConcatProperties
<1> HIDE DEF w, k
<1>3. \A i \in k + 1..Len(w) : w[i] \in S
  BY <1>1, <1>2, ElementOfSeq
<1>4. /\ s \in Seq(S)
      /\ Len(s) = IF k + 1 <= Len(w) THEN Len(w) - (k + 1) + 1 ELSE 0
      /\ \A i \in 1..Len(w) - (k + 1) + 1 : s[i] = w[k + 1 + i - 1]
  BY <1>1, <1>2, <1>3, SubSeqProperties
<1> HIDE DEF s
<1>5. Len(s) = Len(r)
  BY <1>1, <1>2, <1>4
<1>6. ASSUME NEW i \in 1..Len(r) PROVE s[i] = r[i]
  <2> DEFINE j == k + 1 + i - 1
  <2>1. j \in 1..k + Len(r) /\ ~(j <= k) /\ j - k = i /\ i \in 1..Len(w) - (k + 1) + 1
    BY <1>1, <1>2
  <2>2. s[i] = w[j]
    BY <1>4, <2>1
  <2> HIDE DEF j
  <2>3. w[j] = IF j <= k THEN a[j] ELSE r[j - k]
    BY <1>2, <2>1
  <2> QED
    BY <2>1, <2>2, <2>3, Zenon
<1>7. s = r
  BY <1>4, <1>5, <1>6, SeqEqual
<1>8. k \in 0..Len(w)
  BY <1>1, <1>2
<1>9. \E j \in 0..Len(w) : r = SubSeq(w, j + 1, Len(w))
  BY <1>7, <1>8, Zenon DEF s
<1> QED
  BY <1>9, Zenon DEF BackOf, w

-----------------------------------------------------------------------------
(* What the items of a sequence are, and their order *)

LEMMA ToSetType ==
    ASSUME NEW S, NEW s \in Seq(S)
    PROVE  ToSet(s) \subseteq S
  BY ElementOfSeq, LenProperties DEF ToSet

LEMMA ToSetEmpty == ToSet(<<>>) = {}
  BY DEF ToSet

LEMMA ToSetOne ==
    ASSUME NEW e
    PROVE  ToSet(<<e>>) = {e}
  BY DEF ToSet

LEMMA ToSetConcat ==
    ASSUME NEW S, NEW s \in Seq(S), NEW t \in Seq(S)
    PROVE  ToSet(s \o t) = ToSet(s) \union ToSet(t)
<1> DEFINE w == s \o t
<1>1. Len(s) \in Nat /\ Len(t) \in Nat /\ DOMAIN s = 1..Len(s) /\ DOMAIN t = 1..Len(t)
  BY LenProperties
<1>2. /\ w \in Seq(S) /\ Len(w) = Len(s) + Len(t)
      /\ \A i \in 1..Len(s) + Len(t) : w[i] = IF i <= Len(s) THEN s[i] ELSE t[i - Len(s)]
  BY ConcatProperties
<1> HIDE DEF w
<1>3. DOMAIN w = 1..Len(s) + Len(t)
  BY <1>2, LenProperties
<1>4. ASSUME NEW i \in DOMAIN w PROVE w[i] \in ToSet(s) \union ToSet(t)
  <2>1. CASE i <= Len(s)
    BY <1>1, <1>2, <1>3, <2>1 DEF ToSet
  <2>2. CASE ~(i <= Len(s))
    <3>1. i - Len(s) \in DOMAIN t /\ w[i] = t[i - Len(s)]
      BY <1>1, <1>2, <1>3, <2>2
    <3> QED
      BY <3>1 DEF ToSet
  <2> QED
    BY <2>1, <2>2
<1>5. ASSUME NEW i \in DOMAIN s PROVE s[i] \in ToSet(w)
  <2>1. i \in DOMAIN w /\ w[i] = s[i]
    BY <1>1, <1>2, <1>3
  <2> QED
    BY <2>1, Zenon DEF ToSet
<1>6. ASSUME NEW i \in DOMAIN t PROVE t[i] \in ToSet(w)
  <2> DEFINE j == Len(s) + i
  <2>1. j \in 1..Len(s) + Len(t) /\ ~(j <= Len(s)) /\ j - Len(s) = i
    BY <1>1
  <2> HIDE DEF j
  <2>2. w[j] = t[i] /\ j \in DOMAIN w
    BY <1>2, <1>3, <2>1
  <2> QED
    BY <2>2, Zenon DEF ToSet
<1>7. ToSet(w) = ToSet(s) \union ToSet(t)
  BY <1>4, <1>5, <1>6 DEF ToSet
<1> QED
  BY <1>7 DEF w

LEMMA ToSetAppend ==
    ASSUME NEW S, NEW s \in Seq(S), NEW e \in S
    PROVE  ToSet(Append(s, e)) = ToSet(s) \union {e}
<1> DEFINE w == <<e>>
<1>1. w \in Seq(S) /\ Append(s, e) = s \o w
  BY AppendIsConcat
<1>2. ToSet(w) = {e}
  BY ToSetOne
<1> HIDE DEF w
<1>3. ToSet(s \o w) = ToSet(s) \union ToSet(w)
  BY <1>1, ToSetConcat
<1> QED
  BY <1>1, <1>2, <1>3, Zenon

LEMMA ToSetHead ==
    ASSUME NEW S, NEW s \in Seq(S), s # <<>>
    PROVE  ToSet(s) = {Head(s)} \union ToSet(Tail(s))
<1> DEFINE w == <<Head(s)>>
           r == Tail(s)
<1>1. w \in Seq(S) /\ r \in Seq(S) /\ Head(s) \in S
  BY HeadTailProperties
<1>2. ToSet(w) = {Head(s)}
  BY ToSetOne
<1>3. <<>> \o s = Append(<<>>, Head(s)) \o r
  BY EmptySeq, ConcatMoveHead
<1>4. <<>> \o s = s /\ Append(<<>>, Head(s)) = w
  BY ConcatEmptySeq
<1> HIDE DEF w, r
<1>5. ToSet(w \o r) = ToSet(w) \union ToSet(r)
  BY <1>1, ToSetConcat
<1> QED
  BY <1>2, <1>3, <1>4, <1>5, Zenon DEF r

Increasing(x) == \A i, j \in DOMAIN x : i < j => x[i] < x[j]
Ahead(x, y)   == \A m \in ToSet(x), n \in ToSet(y) : m < n
Below(x, n)   == \A m \in ToSet(x) : m < n

LEMMA IncreasingShort == Increasing(<<>>) /\ \A e : Increasing(<<e>>)
  BY DEF Increasing

LEMMA IncreasingConcat ==
    ASSUME NEW x \in Seq(Nat), NEW y \in Seq(Nat), Increasing(x), Increasing(y), Ahead(x, y)
    PROVE  Increasing(x \o y)
<1> DEFINE w == x \o y
<1>1. Len(x) \in Nat /\ Len(y) \in Nat /\ DOMAIN x = 1..Len(x) /\ DOMAIN y = 1..Len(y)
  BY LenProperties
<1>2. /\ w \in Seq(Nat) /\ Len(w) = Len(x) + Len(y)
      /\ \A i \in 1..Len(x) + Len(y) : w[i] = IF i <= Len(x) THEN x[i] ELSE y[i - Len(x)]
  BY ConcatProperties
<1> HIDE DEF w
<1>3. DOMAIN w = 1..Len(x) + Len(y)
  BY <1>2, LenProperties
<1>4. SUFFICES ASSUME NEW i \in DOMAIN w, NEW j \in DOMAIN w, i < j PROVE w[i] < w[j]
  BY Zenon DEF Increasing, w
<1>5. i \in 1..(Len(x) + Len(y)) /\ j \in 1..(Len(x) + Len(y))
  BY <1>3, Zenon
<1>6. /\ w[i] = IF i <= Len(x) THEN x[i] ELSE y[i - Len(x)]
      /\ w[j] = IF j <= Len(x) THEN x[j] ELSE y[j - Len(x)]
  BY <1>2, <1>5
<1>7. CASE j <= Len(x)
  <2>1. i \in 1..Len(x) /\ j \in 1..Len(x) /\ i <= Len(x)
    BY <1>1, <1>4, <1>7, <1>5
  <2>2. i \in DOMAIN x /\ j \in DOMAIN x /\ w[i] = x[i] /\ w[j] = x[j]
    BY <1>1, <1>7, <1>6, <2>1, Zenon
  <2> QED
    BY <1>4, <2>2, Zenon DEF Increasing
<1>8. CASE ~(i <= Len(x))
  <2> DEFINE k == i - Len(x)
             l == j - Len(x)
  <2>1. k \in 1..Len(y) /\ l \in 1..Len(y) /\ k < l /\ ~(j <= Len(x))
    BY <1>1, <1>4, <1>8, <1>5
  <2>2. k \in DOMAIN y /\ l \in DOMAIN y /\ k < l /\ ~(j <= Len(x))
    BY <1>1, <2>1, Zenon
  <2>3. w[i] = y[k] /\ w[j] = y[l]
    BY <1>8, <1>6, <2>1, Zenon
  <2> HIDE DEF k, l
  <2> QED
    BY <2>2, <2>3, Zenon DEF Increasing
<1>9. CASE i <= Len(x) /\ ~(j <= Len(x))
  <2> DEFINE l == j - Len(x)
  <2>1. i \in 1..Len(x) /\ l \in 1..Len(y)
    BY <1>1, <1>9, <1>5
  <2>2. i \in DOMAIN x /\ l \in DOMAIN y
    BY <1>1, <2>1, Zenon
  <2>3. w[i] = x[i] /\ w[j] = y[l]
    BY <1>9, <1>6, Zenon
  <2> HIDE DEF l
  <2>4. x[i] \in ToSet(x) /\ y[l] \in ToSet(y)
    BY <2>2, Zenon DEF ToSet
  <2> QED
    BY <2>3, <2>4, Zenon DEF Ahead
<1> QED
  BY <1>7, <1>8, <1>9

LEMMA IncreasingTail ==
    ASSUME NEW x \in Seq(Nat), x # <<>>, Increasing(x)
    PROVE  Increasing(Tail(x)) /\ Ahead(<<Head(x)>>, Tail(x))
<1> DEFINE r == Tail(x)
<1>1. /\ Head(x) = x[1] /\ r \in Seq(Nat) /\ Len(r) = Len(x) - 1 /\ Len(x) \in Nat \ {0}
      /\ \A i \in 1..Len(r) : r[i] = x[i + 1]
  BY HeadTailProperties, LenProperties, EmptySeq
<1>2. DOMAIN x = 1..Len(x) /\ DOMAIN r = 1..Len(r)
  BY <1>1, LenProperties
<1> HIDE DEF r
<1>3. \A i \in DOMAIN r : i + 1 \in DOMAIN x /\ 1 \in DOMAIN x /\ 1 < i + 1
  BY <1>1, <1>2, SMTT(30)
<1>4. ASSUME NEW i \in DOMAIN r, NEW j \in DOMAIN r, i < j PROVE r[i] < r[j]
  <2> DEFINE k == i + 1
             l == j + 1
  <2>0. i \in 1..Len(x) - 1 /\ j \in 1..Len(x) - 1
    BY <1>1, <1>2
  <2>1. k \in DOMAIN x /\ l \in DOMAIN x /\ k < l
    <3>1. i \in Int /\ j \in Int
      BY <2>0
    <3>2. i + 1 < j + 1
      BY <1>4, <3>1
    <3> QED
      BY <1>3, <3>2, Zenon
  <2>2. r[i] = x[k] /\ r[j] = x[l]
    BY <1>1, <1>2
  <2> HIDE DEF k, l
  <2> QED
    BY <2>1, <2>2, Zenon DEF Increasing
<1>5. ASSUME NEW i \in DOMAIN r PROVE x[1] < r[i]
  <2> DEFINE k == i + 1
  <2>1. k \in DOMAIN x /\ 1 \in DOMAIN x /\ 1 < k /\ r[i] = x[k]
    BY <1>1, <1>2, <1>3
  <2> HIDE DEF k
  <2> QED
    BY <2>1, Zenon DEF Increasing
<1>6. Increasing(r)
  BY <1>4, Zenon DEF Increasing
<1>7. ToSet(<<Head(x)>>) = {x[1]}
  BY <1>1, ToSetOne, Zenon
<1>8. Ahead(<<Head(x)>>, r)
  BY <1>5, <1>7 DEF Ahead, ToSet
<1> QED
  BY <1>6, <1>8 DEF r

================================================================================
