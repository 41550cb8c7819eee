--------------------------- MODULE SelectionProofs ---------------------------
(***************************************************************************)
(* Lemmas about Selection and about sequences whose members may be         *)
(* anything: induction over the natural numbers from the least-number      *)
(* principle, what Picked computes for every argument, and what appending  *)
(* and putting in front do.                                                *)
(***************************************************************************)
EXTENDS Selection, SequenceTheorems, WellFoundedInduction, TLAPS

-----------------------------------------------------------------------------
(* Induction, for sets rather than for predicates.                         *)

(* A set of numbers has a least one,                                       *)
LEMMA LeastElement ==
    ASSUME NEW T \in SUBSET Nat, T # {}
    PROVE  \E n \in T : \A m \in T : n <= m
  <1> DEFINE R == {ss \in Nat \X Nat : ss[1] < ss[2]}
  <1>1. IsWellFoundedOn(R, Nat)
    BY NatLessThanWellFounded DEF OpToRel
  <1>2. PICK x \in T : \A y \in T : ~ (<<y, x>> \in R)
    BY <1>1, WFMin, Zenon
  <1>3. ASSUME NEW y \in T PROVE x <= y
    <2>1. ~ (<<y, x>> \in R)
      BY <1>2
    <2>2. <<y, x>> \in Nat \X Nat /\ <<y, x>>[1] = y /\ <<y, x>>[2] = x
      OBVIOUS
    <2>3. ~(y < x) /\ x \in Nat /\ y \in Nat
      BY <2>1, <2>2
    <2>. QED
      BY <2>3
  <1>. QED
    BY <1>3

(* so that a set that goes on from each number to the next has them all.   *)
LEMMA Climb ==
    ASSUME NEW S, 0 \in S, \A n \in Nat : n \in S => n + 1 \in S
    PROVE  \A n \in Nat : n \in S
  <1>. SUFFICES ASSUME NEW k \in Nat, k \notin S PROVE FALSE
    OBVIOUS
  <1> DEFINE T == {n \in Nat : n \notin S}
  <1>1. PICK n \in T : \A m \in T : n <= m
    <2>1. T \in SUBSET Nat /\ T # {}
      OBVIOUS
    <2>. HIDE DEF T
    <2>. QED
      BY <2>1, LeastElement
  <1>2. n \in Nat /\ n # 0 /\ n \notin S
    OBVIOUS
  <1>3. n - 1 \in Nat /\ (n - 1) + 1 = n /\ ~(n <= n - 1)
    BY <1>2
  <1>4. n - 1 \in S
    BY <1>1, <1>3
  <1>. QED
    BY <1>2, <1>3, <1>4

-----------------------------------------------------------------------------
(* What Picked computes.                                                   *)

IsPicking(f, s, K, n) ==
    f = [i \in 0 .. n |->
            IF i = 0 THEN <<>>
            ELSE IF i \in K THEN Append(f[i - 1], s[i]) ELSE f[i - 1]]

(* There is such a function.                                               *)
LEMMA PickingExists ==
    ASSUME NEW s, NEW K
    PROVE  \A n \in Nat : \E f : IsPicking(f, s, K, n)
  <1> DEFINE S == {n \in Nat : \E f : IsPicking(f, s, K, n)}
  <1>1. 0 \in S
    <2> DEFINE f == [i \in 0 .. 0 |-> <<>>]
    <2>1. \A i \in 0 .. 0 : i = 0
      OBVIOUS
    <2>2. IsPicking(f, s, K, 0)
      BY <2>1 DEF IsPicking
    <2>. QED
      BY <2>2
  <1>2. ASSUME NEW n \in Nat, n \in S PROVE n + 1 \in S
    <2>1. PICK f : IsPicking(f, s, K, n)
      BY <1>2
    <2> DEFINE e == IF n + 1 \in K THEN Append(f[n], s[n + 1]) ELSE f[n]
               g == [i \in 0 .. n + 1 |-> IF i = n + 1 THEN e ELSE f[i]]
               h == [i \in 0 .. n + 1 |->
                       IF i = 0 THEN <<>>
                       ELSE IF i \in K THEN Append(g[i - 1], s[i]) ELSE g[i - 1]]
    <2>2. ASSUME NEW i \in 0 .. n + 1 PROVE g[i] = h[i]
      <3>1. CASE i = n + 1
        <4>1. n \in 0 .. n + 1 /\ n # n + 1 /\ (n + 1) - 1 = n /\ n + 1 # 0
          OBVIOUS
        <4>2. g[n] = f[n]
          BY <4>1
        <4>3. h[i] = IF i \in K THEN Append(g[n], s[i]) ELSE g[n]
          BY <3>1, <4>1
        <4>. QED
          BY <3>1, <4>2, <4>3
      <3>2. CASE i \in 0 .. n
        <4>1. i # n + 1 /\ g[i] = f[i]
          BY <3>2
        <4>2. CASE i = 0
          BY <4>1, <4>2, <3>2, <2>1 DEF IsPicking
        <4>3. CASE i # 0
          <5>1. i - 1 \in 0 .. n + 1 /\ i - 1 # n + 1 /\ i - 1 \in 0 .. n
            BY <3>2, <4>3
          <5>2. g[i - 1] = f[i - 1]
            BY <5>1
          <5>3. f[i] = IF i \in K THEN Append(f[i - 1], s[i]) ELSE f[i - 1]
            BY <2>1, <3>2, <4>3 DEF IsPicking
          <5>4. h[i] = IF i \in K THEN Append(g[i - 1], s[i]) ELSE g[i - 1]
            BY <4>3
          <5>. QED
            BY <4>1, <5>2, <5>3, <5>4
        <4>. QED
          BY <4>2, <4>3
      <3>. QED
        BY <3>1, <3>2
    <2>3. g = h
      BY <2>2
    <2>. HIDE DEF e
    <2>4. IsPicking(g, s, K, n + 1)
      BY <2>3 DEF IsPicking
    <2>. QED
      BY <2>4
  <1>. HIDE DEF S
  <1>3. \A n \in Nat : n \in S
    BY <1>1, <1>2, Climb
  <1>. QED
    BY <1>3 DEF S

(* And it does not depend on how far it goes, nor on other positions.      *)
LEMMA PickingAgrees ==
    ASSUME NEW s, NEW K, NEW t, NEW L, NEW n \in Nat, NEW m \in Nat, NEW f, NEW g,
           IsPicking(f, s, K, n), IsPicking(g, t, L, m),
           \A i \in 1 .. n : (i \in K <=> i \in L) /\ (i \in K => s[i] = t[i])
    PROVE  \A i \in Nat : i <= n /\ i <= m => f[i] = g[i]
  <1> DEFINE S == {i \in Nat : i <= n /\ i <= m => f[i] = g[i]}
  <1>1. 0 \in S
    BY DEF IsPicking
  <1>2. ASSUME NEW i \in Nat, i \in S PROVE i + 1 \in S
    <2>. SUFFICES ASSUME i + 1 <= n, i + 1 <= m PROVE f[i + 1] = g[i + 1]
      OBVIOUS
    <2>1. i + 1 \in 0 .. n /\ i + 1 \in 0 .. m /\ i + 1 # 0 /\ (i + 1) - 1 = i
          /\ i + 1 \in 1 .. n /\ i <= n /\ i <= m
      OBVIOUS
    <2>2. f[i] = g[i]
      BY <1>2, <2>1
    <2>3. f[i + 1] = IF i + 1 \in K THEN Append(f[i], s[i + 1]) ELSE f[i]
      BY <2>1 DEF IsPicking
    <2>4. g[i + 1] = IF i + 1 \in L THEN Append(g[i], t[i + 1]) ELSE g[i]
      BY <2>1 DEF IsPicking
    <2>. QED
      BY <2>1, <2>2, <2>3, <2>4
  <1>. HIDE DEF S
  <1>3. \A i \in Nat : i \in S
    BY <1>1, <1>2, Climb
  <1>. QED
    BY <1>3 DEF S

(* The function Picked speaks of exists.                                   *)
LEMMA PickedBy ==
    ASSUME NEW s, NEW K, NEW n \in Nat
    PROVE  \E f : IsPicking(f, s, K, n) /\ Picked(s, K, n) = f[n]
  <1>1. \E f : IsPicking(f, s, K, n)
    BY PickingExists
  <1>. QED
    BY <1>1 DEF Picked, IsPicking

(* Nothing is picked from nothing,                                         *)
LEMMA PickedNone ==
    ASSUME NEW s, NEW K
    PROVE  Picked(s, K, 0) = <<>>
  BY PickedBy DEF IsPicking

(* and of one member more that member, if its place is in K.               *)
LEMMA PickedNext ==
    ASSUME NEW s, NEW K, NEW n \in Nat
    PROVE  Picked(s, K, n + 1) = IF n + 1 \in K THEN Append(Picked(s, K, n), s[n + 1])
                                 ELSE Picked(s, K, n)
  <1>1. PICK f : IsPicking(f, s, K, n) /\ Picked(s, K, n) = f[n]
    BY PickedBy
  <1>2. n + 1 \in Nat /\ n <= n + 1 /\ n + 1 \in 0 .. n + 1 /\ n + 1 # 0 /\ (n + 1) - 1 = n
    OBVIOUS
  <1>3. PICK g : IsPicking(g, s, K, n + 1) /\ Picked(s, K, n + 1) = g[n + 1]
    BY <1>2, PickedBy
  <1>4. f[n] = g[n]
    BY <1>1, <1>2, <1>3, PickingAgrees
  <1>5. g[n + 1] = IF n + 1 \in K THEN Append(g[n], s[n + 1]) ELSE g[n]
    BY <1>2, <1>3 DEF IsPicking
  <1>. QED
    BY <1>1, <1>3, <1>4, <1>5

(* Only the members at the positions that are picked count.                *)
LEMMA PickedSame ==
    ASSUME NEW s, NEW K, NEW t, NEW L, NEW n \in Nat,
           \A i \in 1 .. n : (i \in K <=> i \in L) /\ (i \in K => s[i] = t[i])
    PROVE  Picked(s, K, n) = Picked(t, L, n)
  <1>1. PICK f : IsPicking(f, s, K, n) /\ Picked(s, K, n) = f[n]
    BY PickedBy
  <1>2. PICK g : IsPicking(g, t, L, n) /\ Picked(t, L, n) = g[n]
    BY PickedBy
  <1>3. f[n] = g[n]
    BY <1>1, <1>2, PickingAgrees
  <1>. QED
    BY <1>1, <1>2, <1>3

(* What is picked comes from where the members are.                        *)
LEMMA PickedType ==
    ASSUME NEW S, NEW s, NEW K, NEW n \in Nat, \A i \in 1 .. n : i \in K => s[i] \in S
    PROVE  Picked(s, K, n) \in Seq(S)
  <1> DEFINE Z == {k \in Nat : k <= n => Picked(s, K, k) \in Seq(S)}
  <1>1. 0 \in Z
    <2>1. Picked(s, K, 0) = <<>> /\ <<>> \in Seq(S)
      BY PickedNone, EmptySeq, Zenon
    <2>2. Picked(s, K, 0) \in Seq(S)
      BY <2>1, Zenon
    <2>. QED
      BY <2>2
  <1>2. ASSUME NEW k \in Nat, k \in Z PROVE k + 1 \in Z
    <2>. SUFFICES ASSUME k + 1 <= n PROVE Picked(s, K, k + 1) \in Seq(S)
      OBVIOUS
    <2>1. k + 1 \in 1 .. n /\ k <= n
      OBVIOUS
    <2>2. Picked(s, K, k) \in Seq(S)
      BY <1>2, <2>1
    <2>3. Picked(s, K, k + 1) = IF k + 1 \in K THEN Append(Picked(s, K, k), s[k + 1])
                                ELSE Picked(s, K, k)
      BY PickedNext
    <2>4. k + 1 \in K => s[k + 1] \in S
      BY <2>1
    <2>5. \A b \in Seq(S), x \in S : Append(b, x) \in Seq(S)
      OBVIOUS
    <2>. QED
      BY <2>2, <2>3, <2>4, <2>5, Zenon
  <1>. HIDE DEF Z
  <1>3. \A k \in Nat : k \in Z
    BY <1>1, <1>2, Climb
  <1>. QED
    BY <1>3 DEF Z

-----------------------------------------------------------------------------
(* Sequences, whatever their members are.                                  *)
IsSequence(s) == \E S : s \in Seq(S)

(* Append,                                                                 *)
LEMMA Appended ==
    ASSUME NEW s, NEW e, IsSequence(s)
    PROVE  /\ IsSequence(Append(s, e))
           /\ Len(s) \in Nat
           /\ Len(Append(s, e)) = Len(s) + 1
           /\ \A k \in 1 .. Len(s) : Append(s, e)[k] = s[k]
           /\ Append(s, e)[Len(s) + 1] = e
  <1>1. PICK S : s \in Seq(S)
    BY DEF IsSequence
  <1>2. s \in Seq(S \cup {e}) /\ e \in S \cup {e}
    BY <1>1
  <1>3. Append(s, e) \in Seq(S \cup {e})
    BY <1>2
  <1>. QED
    BY <1>2, <1>3 DEF IsSequence

(* Tail,                                                                   *)
LEMMA TailTaken ==
    ASSUME NEW s, IsSequence(s), s # <<>>
    PROVE  /\ IsSequence(Tail(s))
           /\ Len(s) \in Nat \ {0}
           /\ Len(Tail(s)) = Len(s) - 1
           /\ \A k \in 1 .. Len(s) - 1 : Tail(s)[k] = s[k + 1]
  <1>1. PICK S : s \in Seq(S)
    BY DEF IsSequence
  <1>2. Tail(s) \in Seq(S) /\ Len(Tail(s)) = Len(s) - 1 /\ Len(s) \in Nat \ {0}
    BY <1>1
  <1>3. \A k \in 1 .. Len(s) - 1 : Tail(s)[k] = s[k + 1]
    BY <1>1, <1>2
  <1>. QED
    BY <1>2, <1>3 DEF IsSequence

(* What mergeExifAndJpeg makes of a file that begins with an SOI.          *)
LEMMA PutInFront ==
    ASSUME NEW s, NEW e, IsSequence(s), s # <<>>
    PROVE  LET m == <<s[1], e>> \o Tail(s)
           IN  /\ IsSequence(m)
               /\ Len(m) = Len(s) + 1
               /\ m[1] = s[1] /\ m[2] = e
               /\ \A k \in 2 .. Len(s) : m[k + 1] = s[k]
  <1>1. PICK S : s \in Seq(S)
    BY DEF IsSequence
  <1> DEFINE T == S \cup {s[1], e}
             a == <<s[1], e>>
             b == Tail(s)
             m == a \o b
  <1>2. a \in Seq(T) /\ Len(a) = 2 /\ a[1] = s[1] /\ a[2] = e
    OBVIOUS
  <1>3. s \in Seq(T)
    BY <1>1
  <1>4. /\ b \in Seq(T) /\ Len(b) = Len(s) - 1 /\ Len(s) \in Nat \ {0}
        /\ \A k \in 1 .. Len(s) - 1 : b[k] = s[k + 1]
    BY <1>3, TailTaken DEF IsSequence
  <1>5. /\ m \in Seq(T) /\ Len(m) = 2 + (Len(s) - 1)
        /\ m[1] = a[1] /\ m[2] = a[2]
        /\ \A k \in 3 .. Len(s) + 1 : m[k] = b[k - 2]
    <2>. HIDE DEF a, b
    <2>1. a \in Seq(T) /\ b \in Seq(T)
      BY <1>2, <1>4
    <2>2. /\ a \o b \in Seq(T)
          /\ Len(a \o b) = Len(a) + Len(b)
          /\ \A k \in 1 .. Len(a) + Len(b) : (a \o b)[k] = IF k <= Len(a) THEN a[k] ELSE b[k - Len(a)]
      BY <2>1, ConcatProperties, Zenon
    <2>. HIDE DEF T
    <2>3. m \in Seq(T) /\ Len(m) = 2 + (Len(s) - 1)
      BY <2>2, <1>2, <1>4
    <2>4. m[1] = a[1] /\ m[2] = a[2]
      BY <2>2, <1>2, <1>4
    <2>5. \A k \in 3 .. Len(s) + 1 : m[k] = b[k - 2]
      BY <2>2, <1>2, <1>4
    <2>. QED
      BY <2>3, <2>4, <2>5
  <1>6. \A k \in 2 .. Len(s) : m[k + 1] = s[k]
    <2>. HIDE DEF m, b, a
    <2>. SUFFICES ASSUME NEW k \in 2 .. Len(s) PROVE m[k + 1] = s[k]
      OBVIOUS
    <2>1. k + 1 \in 3 .. Len(s) + 1 /\ k - 1 \in 1 .. Len(s) - 1 /\ (k + 1) - 2 = k - 1 /\ (k - 1) + 1 = k
      BY <1>4
    <2>. QED
      BY <2>1, <1>4, <1>5
  <1>7. IsSequence(m)
    BY <1>5 DEF IsSequence
  <1>. QED
    BY <1>2, <1>4, <1>5, <1>6, <1>7

(* and joining, member by member.                                          *)
LEMMA CatAppend ==
    ASSUME NEW a, NEW b, NEW e, IsSequence(a), IsSequence(b)
    PROVE  a \o Append(b, e) = Append(a \o b, e)
  <1>1. PICK A : a \in Seq(A)
    BY DEF IsSequence
  <1>2. PICK B : b \in Seq(B)
    BY DEF IsSequence
  <1> DEFINE S == A \cup B \cup {e}
  <1>3. a \in Seq(S) /\ b \in Seq(S) /\ e \in S
    BY <1>1, <1>2
  <1>. HIDE DEF S
  <1>4. Append(b, e) = b \o <<e>> /\ <<e>> \in Seq(S) /\ a \o b \in Seq(S)
    BY <1>3, AppendIsConcat, ConcatProperties
  <1>5. Append(a \o b, e) = (a \o b) \o <<e>>
    BY <1>3, <1>4, AppendIsConcat
  <1>6. (a \o b) \o <<e>> = a \o (b \o <<e>>)
    BY <1>3, <1>4, ConcatAssociative
  <1>. QED
    BY <1>4, <1>5, <1>6

(* One more member, at the second position of a sequence whose first is    *)
(* not picked.                                                             *)
OneMore(s, K, t, L, e, n) ==
    /\ 1 \notin K /\ 1 \notin L /\ 2 \in L /\ t[2] = e
    /\ \A i \in 2 .. n : (i + 1 \in L <=> i \in K) /\ t[i + 1] = s[i]

InFront(e, s) == <<e>> \o s

(* With one more in front, that one is picked first.                       *)
LEMMA PickedWithOneInFront ==
    ASSUME NEW s, NEW K, NEW t, NEW L, NEW e, NEW n \in Nat, n >= 1, OneMore(s, K, t, L, e, n)
    PROVE  Picked(t, L, n + 1) = InFront(e, Picked(s, K, n))
  <1>. USE DEF OneMore
  <1> DEFINE Z == {k \in Nat : k < n => Picked(t, L, (k + 1) + 1) = <<e>> \o Picked(s, K, k + 1)}
  <1>0. \A k \in Nat : IsSequence(Picked(s, K, k))
    <2>. TAKE k \in Nat
    <2> DEFINE S == {s[i] : i \in 1 .. k}
    <2>1. \A i \in 1 .. k : i \in K => s[i] \in S
      OBVIOUS
    <2>. HIDE DEF S
    <2>2. Picked(s, K, k) \in Seq(S)
      BY <2>1, PickedType
    <2>. QED
      BY <2>2 DEF IsSequence
  <1>1. 0 \in Z
    <2>0. /\ \A k \in Nat : k + 1 \notin K => Picked(s, K, k + 1) = Picked(s, K, k)
          /\ \A k \in Nat : k + 1 \notin L => Picked(t, L, k + 1) = Picked(t, L, k)
          /\ \A k \in Nat : k + 1 \in L => Picked(t, L, k + 1) = Append(Picked(t, L, k), t[k + 1])
      BY PickedNext
    <2>1. Picked(s, K, 0) = <<>> /\ Picked(t, L, 0) = <<>> /\ 0 + 1 = 1 /\ 1 + 1 = 2
      BY PickedNone
    <2>. HIDE DEF Z
    <2>2. Picked(s, K, 1) = <<>> /\ Picked(t, L, 1) = <<>>
      BY <2>0, <2>1
    <2>6. Append(<<>>, e) = <<e>>
      OBVIOUS
    <2>7. Picked(t, L, 2) = Append(Picked(t, L, 1), t[2])
      BY <2>0, <2>1
    <2>3. Picked(t, L, 2) = <<e>>
      BY <2>2, <2>6, <2>7, Zenon
    <2>4. <<e>> \o <<>> = <<e>>
      OBVIOUS
    <2>5. Picked(t, L, (0 + 1) + 1) = <<e>> \o Picked(s, K, 0 + 1)
      BY <2>1, <2>2, <2>3, <2>4
    <2>. QED
      BY <2>5 DEF Z
  <1>2. ASSUME NEW k \in Nat, k \in Z PROVE k + 1 \in Z
    <2>. SUFFICES ASSUME k + 1 < n
                  PROVE  Picked(t, L, ((k + 1) + 1) + 1) = <<e>> \o Picked(s, K, (k + 1) + 1)
      OBVIOUS
    <2> DEFINE m == k + 1
    <2>1. m \in Nat /\ m + 1 \in Nat /\ m + 1 \in 2 .. n /\ k < n
      OBVIOUS
    <2>2. Picked(t, L, m + 1) = <<e>> \o Picked(s, K, m)
      BY <1>2, <2>1
    <2>. HIDE DEF m, Z
    <2>3. Picked(s, K, m + 1) = IF m + 1 \in K THEN Append(Picked(s, K, m), s[m + 1]) ELSE Picked(s, K, m)
      BY <2>1, PickedNext
    <2>4. Picked(t, L, (m + 1) + 1) = IF (m + 1) + 1 \in L THEN Append(Picked(t, L, m + 1), t[(m + 1) + 1])
                                      ELSE Picked(t, L, m + 1)
      BY <2>1, PickedNext
    <2>5. ((m + 1) + 1 \in L <=> m + 1 \in K) /\ t[(m + 1) + 1] = s[m + 1]
      BY <2>1
    <2>6. IsSequence(<<e>>)
      <3>1. <<e>> \in Seq({e})
        OBVIOUS
      <3>. QED
        BY <3>1 DEF IsSequence
    <2>7. <<e>> \o Append(Picked(s, K, m), s[m + 1]) = Append(<<e>> \o Picked(s, K, m), s[m + 1])
      BY <1>0, <2>1, <2>6, CatAppend
    <2>8. Picked(t, L, (m + 1) + 1) = <<e>> \o Picked(s, K, m + 1)
      BY <2>2, <2>3, <2>4, <2>5, <2>7
    <2>. QED
      BY <2>8 DEF m
  <1>. HIDE DEF Z
  <1>3. \A k \in Nat : k \in Z
    BY <1>1, <1>2, Climb
  <1>4. n - 1 \in Nat /\ n - 1 < n /\ (n - 1) + 1 = n
    OBVIOUS
  <1>. QED
    BY <1>3, <1>4 DEF Z, InFront


-----------------------------------------------------------------------------
(* What is in a sequence.                                                  *)

Occurs(x, s) == \E k \in 1 .. Len(s) : s[k] = x

(* What is in a sequence stays there when one is appended,                 *)
LEMMA OccursAppended ==
    ASSUME NEW x, NEW s, NEW e, IsSequence(s)
    PROVE  /\ Occurs(x, s) => Occurs(x, Append(s, e))
           /\ Occurs(e, Append(s, e))
  <1>1. /\ Len(s) \in Nat /\ Len(Append(s, e)) = Len(s) + 1
        /\ \A k \in 1 .. Len(s) : Append(s, e)[k] = s[k]
        /\ Append(s, e)[Len(s) + 1] = e
    BY Appended
  <1>2. Occurs(x, s) => Occurs(x, Append(s, e))
    <2>. SUFFICES ASSUME NEW k \in 1 .. Len(s), s[k] = x PROVE Occurs(x, Append(s, e))
      BY DEF Occurs
    <2>1. k \in 1 .. Len(Append(s, e)) /\ Append(s, e)[k] = x
      BY <1>1
    <2>. QED
      BY <2>1 DEF Occurs
  <1>3. Occurs(e, Append(s, e))
    <2>1. Len(s) + 1 \in 1 .. Len(Append(s, e))
      BY <1>1
    <2>. QED
      BY <1>1, <2>1 DEF Occurs
  <1>. QED
    BY <1>2, <1>3

(* or when another is joined to it.                                        *)
LEMMA OccursJoined ==
    ASSUME NEW x, NEW s, NEW t, IsSequence(s), IsSequence(t)
    PROVE  /\ IsSequence(s \o t)
           /\ Occurs(x, s) => Occurs(x, s \o t)
           /\ Occurs(x, t) => Occurs(x, s \o t)
  <1>1. PICK S : s \in Seq(S)
    BY DEF IsSequence
  <1>2. PICK T : t \in Seq(T)
    BY DEF IsSequence
  <1> DEFINE U == S \cup T
  <1>3. s \in Seq(U) /\ t \in Seq(U)
    BY <1>1, <1>2
  <1>. HIDE DEF U
  <1>4. /\ s \o t \in Seq(U) /\ Len(s \o t) = Len(s) + Len(t) /\ Len(s) \in Nat /\ Len(t) \in Nat
        /\ \A i \in 1 .. Len(s) + Len(t) : (s \o t)[i] = IF i <= Len(s) THEN s[i] ELSE t[i - Len(s)]
    BY <1>3, ConcatProperties, LenProperties
  <1>5. Occurs(x, s) => Occurs(x, s \o t)
    <2>. SUFFICES ASSUME NEW k \in 1 .. Len(s), s[k] = x PROVE Occurs(x, s \o t)
      BY DEF Occurs
    <2>1. k \in 1 .. Len(s \o t) /\ (s \o t)[k] = x
      BY <1>4
    <2>. QED
      BY <2>1 DEF Occurs
  <1>6. Occurs(x, t) => Occurs(x, s \o t)
    <2>. SUFFICES ASSUME NEW k \in 1 .. Len(t), t[k] = x PROVE Occurs(x, s \o t)
      BY DEF Occurs
    <2>1. /\ k + Len(s) \in 1 .. Len(s) + Len(t) /\ (k + Len(s)) - Len(s) = k
          /\ ~(k + Len(s) <= Len(s))
      BY <1>4
    <2>2. (s \o t)[k + Len(s)] = x
      BY <1>4, <2>1
    <2>. QED
      BY <1>4, <2>1, <2>2 DEF Occurs
  <1>. QED
    BY <1>4, <1>5, <1>6 DEF IsSequence

(* What is picked is a sequence.                                           *)
LEMMA PickedSequence ==
    ASSUME NEW s, NEW K, NEW n \in Nat
    PROVE  IsSequence(Picked(s, K, n))
  <1> DEFINE S == {s[i] : i \in 1 .. n}
  <1>1. \A i \in 1 .. n : i \in K => s[i] \in S
    OBVIOUS
  <1>. HIDE DEF S
  <1>2. Picked(s, K, n) \in Seq(S)
    BY <1>1, PickedType
  <1>. QED
    BY <1>2 DEF IsSequence

(* What is picked is there.                                                *)
LEMMA PickedHas ==
    ASSUME NEW s, NEW K, NEW i \in K, i \in Nat \ {0}, NEW n \in Nat, i <= n
    PROVE  Occurs(s[i], Picked(s, K, n))
  <1> DEFINE Z == {k \in Nat : i <= k => Occurs(s[i], Picked(s, K, k))}
  <1>1. 0 \in Z
    OBVIOUS
  <1>2. ASSUME NEW k \in Nat, k \in Z PROVE k + 1 \in Z
    <2>. SUFFICES ASSUME i <= k + 1 PROVE Occurs(s[i], Picked(s, K, k + 1))
      OBVIOUS
    <2>1. IsSequence(Picked(s, K, k))
      BY PickedSequence
    <2>2. Picked(s, K, k + 1) = IF k + 1 \in K THEN Append(Picked(s, K, k), s[k + 1])
                                ELSE Picked(s, K, k)
      BY PickedNext
    <2>3. CASE i <= k
      BY <1>2, <2>1, <2>2, <2>3, OccursAppended
    <2>4. CASE i = k + 1
      BY <2>1, <2>2, <2>4, OccursAppended
    <2>. QED
      BY <2>3, <2>4
  <1>. HIDE DEF Z
  <1>3. \A k \in Nat : k \in Z
    BY <1>1, <1>2, Climb
  <1>. QED
    BY <1>3 DEF Z
=============================================================================
