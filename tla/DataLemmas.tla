---------------------------- MODULE DataLemmas ----------------------------
(***************************************************************************)
(* What the proofs of several modules need to know of numbers, sequences   *)
(* and recursion.  Recursion: a fold over a sequence goes through a chain  *)
(* of values, as does a loop, and a function defined by recursion on a     *)
(* rank exists.  The operator that is repeated and the body of the         *)
(* function are parameters of the module, with the context they are used   *)
(* in; they are left open where only the other lemmas are needed.  Every   *)
(* loop to reason about is one more instance, so the module brings no more *)
(* than it needs.                                                          *)
(***************************************************************************)
EXTENDS Integers, Sequences, WellFoundedInduction, TLAPS

CONSTANTS
  Op(_, _, _, _, _),  \* Op(a, b, c, acc, x): one step of a fold, in context a, b, c
  Body(_, _, _, _)    \* Body(a, b, f, x): the value at x of the function f

(***************************************************************************)
(* Numbers: induction, stated for a set of numbers, and extrema.           *)
(***************************************************************************)
\* A set that holds 0, and with every number the next, holds them all.
LEMMA SetInduction ==
  ASSUME NEW S \in SUBSET Nat, 0 \in S, \A n \in S : n + 1 \in S
  PROVE  S = Nat
  <1> DEFINE R == OpToRel(<, Nat)
             T == Nat \ S
  <1>1. SUFFICES ASSUME T # {} PROVE FALSE
    OBVIOUS
  <1>2. IsWellFoundedOn(R, Nat)
    BY NatLessThanWellFounded
  <1>3. \A x, y \in Nat : <<x, y>> \in R <=> x < y
    BY DEF OpToRel
  <1> HIDE DEF R
  <1>4. PICK x \in T : \A y \in T : <<y, x>> \notin R
    <2> T \subseteq Nat
      OBVIOUS
    <2> HIDE DEF T
    <2> QED
      BY <1>1, <1>2, WFMin
  <1>5. x # 0 /\ x - 1 \in T
    OBVIOUS
  <1>6. <<x - 1, x>> \in R
    BY <1>3, <1>5
  <1> QED
    BY <1>4, <1>5, <1>6

\* The same up to a bound.
LEMMA UpTo ==
  ASSUME NEW n \in Nat, NEW S, 0 \in S, \A k \in 0 .. n - 1 : k \in S => k + 1 \in S
  PROVE  0 .. n \subseteq S
  <1> DEFINE T == {k \in Nat : k <= n => k \in S}
  <1>1. 0 \in T /\ \A k \in T : k + 1 \in T
    OBVIOUS
  <1>2. T = Nat
    <2> HIDE DEF T
    <2>1. T \in SUBSET Nat
      BY DEF T
    <2> QED
      BY <1>1, <2>1, SetInduction
  <1> QED
    BY <1>2

\* Min and Max of the community modules
Bottom(S) == CHOOSE x \in S : \A y \in S : x <= y
Top(S) == CHOOSE x \in S : \A y \in S : x >= y

\* A set of numbers has a least element.
LEMMA BottomIs ==
  ASSUME NEW S \in SUBSET Nat, S # {}
  PROVE  Bottom(S) \in S /\ \A y \in S : Bottom(S) <= y
  <1>1. ASSUME \A x \in S : \E y \in S : y < x PROVE FALSE
    <2> DEFINE T == {n \in Nat : \A k \in 0 .. n : k \notin S}
    <2>1. 0 \in T
      BY <1>1
    <2>2. ASSUME NEW n \in T PROVE n + 1 \in T
      <3>1. n + 1 \notin S
        BY <1>1, <2>2
      <3> QED
        BY <2>2, <3>1
    <2>3. T = Nat
      <3> T \in SUBSET Nat
        OBVIOUS
      <3> HIDE DEF T
      <3> QED
        BY <2>1, <2>2, SetInduction
    <2>4. PICK x \in S : TRUE
      OBVIOUS
    <2>5. x \in T
      BY <2>3
    <2> QED
      BY <2>4, <2>5
  <1>2. PICK x \in S : \A y \in S : x <= y
    BY <1>1
  <1> QED
    BY <1>2 DEF Bottom

\* A set of integers with a bound has a greatest one.
LEMMA TopIs ==
  ASSUME NEW b \in Int, NEW S \in SUBSET Int, S # {}, \A x \in S : x <= b
  PROVE  Top(S) \in S /\ \A y \in S : y <= Top(S)
  <1> DEFINE T == {b - x : x \in S}
  <1>1. T \in SUBSET Nat /\ T # {}
    <2>1. ASSUME NEW x \in S PROVE b - x \in Nat
      OBVIOUS
    <2> QED
      BY <2>1
  <1>2. PICK z \in T : \A y \in T : z <= y
    <2> HIDE DEF T
    <2> QED
      BY <1>1, BottomIs
  <1>3. PICK x \in S : z = b - x
    OBVIOUS
  <1>4. \A y \in S : y <= x
    <2> TAKE y \in S
    <2>1. b - y \in T
      OBVIOUS
    <2>2. b - x <= b - y
      BY <1>2, <1>3, <2>1
    <2>3. x \in Int /\ y \in Int
      OBVIOUS
    <2> HIDE DEF T
    <2> QED
      BY <2>2, <2>3
  <1> QED
    BY <1>4 DEF Top

LEMMA TopUpTo ==
  ASSUME NEW n \in Nat, NEW s \in SUBSET (1 .. n), s # {}
  PROVE  Top(s) \in s /\ \A y \in s : y <= Top(s)
  <1>1. s \in SUBSET Int /\ n \in Int /\ \A x \in s : x <= n
    OBVIOUS
  <1> QED
    BY <1>1, TopIs

(***************************************************************************)
(* Sequences.                                                              *)
(***************************************************************************)
\* A function on 1 .. n is a sequence of length n.
LEMMA FcnIsRow ==
  ASSUME NEW S, NEW n \in Nat, NEW f \in [1 .. n -> S]
  PROVE  f \in Seq(S) /\ Len(f) = n
  <1>1. f \in Seq(S)
    OBVIOUS
  <1>2. DOMAIN f = 1 .. Len(f) /\ Len(f) \in Nat
    BY <1>1
  <1> QED
    BY <1>1, <1>2

LEMMA JoinIs ==
  ASSUME NEW S, NEW t \in Seq(S), NEW u \in Seq(S)
  PROVE  /\ t \o u \in Seq(S) /\ Len(t \o u) = Len(t) + Len(u)
         /\ \A i \in 1 .. Len(t) + Len(u) : (t \o u)[i] = IF i <= Len(t) THEN t[i] ELSE u[i - Len(t)]
  OBVIOUS

\* n elements of t, behind the first a, give way to those of b.
Exchange(t, a, n, b) == SubSeq(t, 1, a) \o b \o SubSeq(t, a + n + 1, Len(t))

\* there are n elements of t behind the first a
Lies(t, a, n) == a \in Nat /\ n \in Nat /\ a + n <= Len(t)

\* The same, place by place.
Exchanged(u, t, a, n, b) ==
  /\ Len(u) = Len(t) - n + Len(b)
  /\ \A i \in 1 .. Len(t) - n + Len(b) :
       u[i] = IF i <= a THEN t[i] ELSE IF i <= a + Len(b) THEN b[i - a] ELSE t[i - Len(b) + n]

LEMMA ExchangeIs ==
  ASSUME NEW S, NEW t \in Seq(S), NEW a, NEW n, Lies(t, a, n), NEW b \in Seq(S),
         NEW u, u = Exchange(t, a, n, b)
  PROVE  u \in Seq(S) /\ Exchanged(u, t, a, n, b)
  <1> DEFINE front == SubSeq(t, 1, a)
             rest == SubSeq(t, a + n + 1, Len(t))
  <1>1. Len(t) \in Nat /\ Len(b) \in Nat /\ \A i \in 1 .. Len(t) : t[i] \in S
    OBVIOUS
  <1>0. a \in Nat /\ n \in Nat /\ a + n <= Len(t)
    BY DEF Lies
  <1>2. /\ front \in Seq(S) /\ Len(front) = a
        /\ \A i \in 1 .. a : front[i] = t[i]
    BY <1>0, <1>1
  <1>3. /\ rest \in Seq(S) /\ Len(rest) = Len(t) - (a + n)
        /\ \A i \in 1 .. Len(t) - (a + n) : rest[i] = t[a + n + i]
    BY <1>0, <1>1
  <1>4. u = (front \o b) \o rest
    BY DEF Exchange
  <1> HIDE DEF front, rest
  <1> DEFINE two == front \o b
  <1>5. /\ two \in Seq(S) /\ Len(two) = a + Len(b)
        /\ \A i \in 1 .. a + Len(b) : two[i] = IF i <= a THEN front[i] ELSE b[i - a]
    BY <1>2, JoinIs
  <1> HIDE DEF two
  <1>6. /\ two \o rest \in Seq(S) /\ Len(two \o rest) = a + Len(b) + (Len(t) - (a + n))
        /\ \A i \in 1 .. a + Len(b) + (Len(t) - (a + n)) :
             (two \o rest)[i] = IF i <= a + Len(b) THEN two[i] ELSE rest[i - (a + Len(b))]
    <2>1. /\ two \o rest \in Seq(S) /\ Len(two \o rest) = Len(two) + Len(rest)
          /\ \A i \in 1 .. Len(two) + Len(rest) :
               (two \o rest)[i] = IF i <= Len(two) THEN two[i] ELSE rest[i - Len(two)]
      BY <1>3, <1>5, JoinIs
    <2> QED BY <1>3, <1>5, <2>1
  <1>7. u = two \o rest
    BY <1>4 DEF two
  <1>8. a + Len(b) + (Len(t) - (a + n)) = Len(t) - n + Len(b)
    BY <1>0, <1>1
  <1>9. ASSUME NEW i \in 1 .. Len(t) - n + Len(b)
        PROVE  u[i] = IF i <= a THEN t[i] ELSE IF i <= a + Len(b) THEN b[i - a] ELSE t[i - Len(b) + n]
    <2>0. u[i] = IF i <= a + Len(b) THEN two[i] ELSE rest[i - (a + Len(b))]
      BY <1>6, <1>7, <1>8
    <2>1. CASE i <= a
      <3>1. i \in 1 .. a /\ i \in 1 .. a + Len(b) /\ i <= a + Len(b)
        BY <1>0, <1>1, <2>1
      <3>2. two[i] = front[i] /\ front[i] = t[i]
        BY <1>2, <1>5, <2>1, <3>1
      <3> QED BY <2>0, <2>1, <3>1, <3>2
    <2>2. CASE i > a /\ i <= a + Len(b)
      <3>1. i \in 1 .. a + Len(b) /\ ~(i <= a)
        BY <1>0, <1>1, <2>2
      <3> QED BY <1>5, <2>0, <2>2, <3>1
    <2>3. CASE i > a + Len(b)
      <3>1. /\ i - (a + Len(b)) \in 1 .. Len(t) - (a + n)
            /\ a + n + (i - (a + Len(b))) = i - Len(b) + n
            /\ ~(i <= a) /\ ~(i <= a + Len(b))
        BY <1>0, <1>1, <2>3
      <3> DEFINE j == i - (a + Len(b))
      <3>2. u[i] = rest[j] /\ rest[j] = t[a + n + j]
        <4>1. u[i] = rest[j]
          BY <2>0, <3>1
        <4>2. j \in 1 .. Len(t) - (a + n)
          BY <3>1
        <4> HIDE DEF j
        <4> QED BY <1>3, <4>1, <4>2
      <3> QED BY <3>1, <3>2
    <2> QED BY <1>0, <1>1, <2>1, <2>2, <2>3
  <1> QED
    BY <1>6, <1>7, <1>8, <1>9 DEF Exchanged

\* InsertAt and RemoveAt of the community modules
Insertion(row, p, e) == SubSeq(row, 1, p - 1) \o <<e>> \o SubSeq(row, p, Len(row))
Removal(row, p) == SubSeq(row, 1, p - 1) \o SubSeq(row, p + 1, Len(row))

\* What they make of a sequence, place by place.
LEMMA InsertionIs ==
  ASSUME NEW S, NEW row \in Seq(S), NEW p \in 1 .. Len(row) + 1, NEW e \in S,
         NEW u, u = Insertion(row, p, e)
  PROVE  /\ u \in Seq(S)
         /\ Len(u) = Len(row) + 1
         /\ \A i \in 1 .. Len(row) + 1 :
              u[i] = IF i < p THEN row[i] ELSE IF i = p THEN e ELSE row[i - 1]
  <1> DEFINE front == SubSeq(row, 1, p - 1)
             rest == SubSeq(row, p, Len(row))
  <1>1. Len(row) \in Nat /\ \A i \in 1 .. Len(row) : row[i] \in S
    OBVIOUS
  <1>2. /\ front \in Seq(S) /\ Len(front) = p - 1
        /\ \A i \in 1 .. p - 1 : front[i] = row[i]
    BY <1>1
  <1>3. /\ rest \in Seq(S) /\ Len(rest) = Len(row) - p + 1
        /\ \A i \in 1 .. Len(row) - p + 1 : rest[i] = row[p + i - 1]
    BY <1>1
  <1> HIDE DEF front, rest
  <1> DEFINE two == front \o <<e>>
  <1>4. <<e>> \in Seq(S) /\ Len(<<e>>) = 1
    OBVIOUS
  <1>5. /\ two \in Seq(S) /\ Len(two) = p
        /\ \A i \in 1 .. p : two[i] = IF i < p THEN row[i] ELSE e
    BY <1>1, <1>2, <1>4, JoinIs
  <1> HIDE DEF two
  <1>6. /\ two \o rest \in Seq(S) /\ Len(two \o rest) = Len(row) + 1
        /\ \A i \in 1 .. Len(row) + 1 :
             (two \o rest)[i] = IF i <= p THEN two[i] ELSE rest[i - p]
    <2>1. /\ two \o rest \in Seq(S) /\ Len(two \o rest) = Len(two) + Len(rest)
          /\ \A i \in 1 .. Len(two) + Len(rest) :
               (two \o rest)[i] = IF i <= Len(two) THEN two[i] ELSE rest[i - Len(two)]
      BY <1>3, <1>5, JoinIs
    <2>2. Len(two) = p /\ Len(two) + Len(rest) = Len(row) + 1
      BY <1>1, <1>3, <1>5
    <2> QED
      BY <2>1, <2>2
  <1>7. \A i \in 1 .. Len(row) + 1 : i > p => rest[i - p] = row[i - 1]
    BY <1>1, <1>3
  <1>8. u = two \o rest
    BY DEF Insertion, two, front, rest
  <1> QED
    BY <1>1, <1>5, <1>6, <1>7, <1>8

LEMMA RemovalIs ==
  ASSUME NEW S, NEW row \in Seq(S), NEW p \in 1 .. Len(row),
         NEW u, u = Removal(row, p)
  PROVE  /\ u \in Seq(S)
         /\ Len(u) = Len(row) - 1
         /\ \A i \in 1 .. Len(row) - 1 :
              u[i] = IF i < p THEN row[i] ELSE row[i + 1]
  <1> DEFINE front == SubSeq(row, 1, p - 1)
             rest == SubSeq(row, p + 1, Len(row))
  <1>1. Len(row) \in Nat /\ \A i \in 1 .. Len(row) : row[i] \in S
    OBVIOUS
  <1>2. /\ front \in Seq(S) /\ Len(front) = p - 1
        /\ \A i \in 1 .. p - 1 : front[i] = row[i]
    BY <1>1
  <1>3. /\ rest \in Seq(S) /\ Len(rest) = Len(row) - p
        /\ \A i \in 1 .. Len(row) - p : rest[i] = row[p + i]
    BY <1>1
  <1> HIDE DEF front, rest
  <1>4. /\ front \o rest \in Seq(S) /\ Len(front \o rest) = Len(row) - 1
        /\ \A i \in 1 .. Len(row) - 1 :
             (front \o rest)[i] = IF i < p THEN front[i] ELSE rest[i - p + 1]
    <2>1. /\ front \o rest \in Seq(S)
          /\ Len(front \o rest) = Len(front) + Len(rest)
          /\ \A i \in 1 .. Len(front) + Len(rest) :
               (front \o rest)[i] = IF i <= Len(front) THEN front[i] ELSE rest[i - Len(front)]
      BY <1>2, <1>3, JoinIs
    <2>2. Len(front) = p - 1 /\ Len(front) + Len(rest) = Len(row) - 1
      BY <1>1, <1>2, <1>3
    <2>3. \A i \in 1 .. Len(row) - 1 : (i <= p - 1 <=> i < p) /\ i - (p - 1) = i - p + 1
      BY <1>1
    <2> QED
      BY <2>1, <2>2, <2>3
  <1>5. \A i \in 1 .. Len(row) - 1 : i >= p => rest[i - p + 1] = row[i + 1]
    BY <1>1, <1>3
  <1>6. u = front \o rest
    BY DEF Removal, front, rest
  <1>7. ASSUME NEW i \in 1 .. Len(row) - 1
        PROVE  u[i] = IF i < p THEN row[i] ELSE row[i + 1]
    <2>1. u[i] = IF i < p THEN front[i] ELSE rest[i - p + 1]
      BY <1>4, <1>6
    <2>2. CASE i < p
      <3>1. i \in 1 .. p - 1
        BY <1>1, <2>2
      <3>2. u[i] = front[i] /\ front[i] = row[i]
        BY <1>2, <2>1, <2>2, <3>1
      <3> QED BY <2>2, <3>2
    <2>3. CASE ~(i < p)
      <3>1. i >= p
        BY <1>1, <2>3
      <3> QED BY <1>5, <2>1, <2>3, <3>1
    <2> QED BY <2>2, <2>3
  <1>8. u \in Seq(S) /\ Len(u) = Len(row) - 1
    BY <1>4, <1>6
  <1> QED
    BY <1>7, <1>8

(***************************************************************************)
(* Folds, recursion and loops.                                             *)
(***************************************************************************)
\* FoldLeft, as the community modules define it
Fold(a, b, c, base, row) ==
  LET iter[s \in SUBSET DOMAIN row] ==
        IF s = {} THEN base
        ELSE LET x == Top(s) IN Op(a, b, c, iter[s \ {x}], row[x])
  IN  iter[DOMAIN row]

\* The function on the subsets of 1 .. n that a fold is the last value of
Iter(a, b, c, base, row, n, g) ==
  g = [s \in SUBSET (1 .. n) |->
         IF s = {} THEN base ELSE Op(a, b, c, g[s \ {Top(s)}], row[Top(s)])]

\* The function of a fold exists.
LEMMA IterExists ==
  ASSUME NEW a, NEW b, NEW c, NEW base, NEW row, NEW n \in Nat
  PROVE  \E g : Iter(a, b, c, base, row, n, g)
  <1> DEFINE S == {m \in Nat : \E g : Iter(a, b, c, base, row, m, g)}
  <1>1. 0 \in S
    <2> DEFINE g == [s \in SUBSET (1 .. 0) |-> base]
    <2>1. \A s \in SUBSET (1 .. 0) : s = {}
      OBVIOUS
    <2>2. Iter(a, b, c, base, row, 0, g)
      BY <2>1 DEF Iter
    <2> QED
      BY <2>2
  <1>2. ASSUME NEW m \in S PROVE m + 1 \in S
    <2>1. PICK g : Iter(a, b, c, base, row, m, g)
      OBVIOUS
    <2> DEFINE h == [s \in SUBSET (1 .. m + 1) |->
                       IF m + 1 \in s THEN Op(a, b, c, g[s \ {m + 1}], row[m + 1])
                                      ELSE g[s]]
               next(s) == IF s = {} THEN base
                          ELSE Op(a, b, c, h[s \ {Top(s)}], row[Top(s)])
    <2>2. ASSUME NEW s \in SUBSET (1 .. m + 1) PROVE h[s] = next(s)
      <3>1. CASE m + 1 \in s
        <4>1. Top(s) = m + 1
          <5> DEFINE p == m + 1
          <5>1. p \in Nat /\ s \in SUBSET (1 .. p) /\ p \in s
            BY <3>1
          <5> HIDE DEF p
          <5>2. Top(s) \in s /\ \A y \in s : y <= Top(s)
            BY <5>1, TopUpTo
          <5>3. Top(s) \in 1 .. p /\ p <= Top(s)
            BY <5>1, <5>2
          <5>4. Top(s) = p
            BY <5>1, <5>3
          <5> QED
            BY <5>4 DEF p
        <4>2. s \ {m + 1} \in SUBSET (1 .. m + 1) /\ m + 1 \notin s \ {m + 1}
          OBVIOUS
        <4>3. h[s \ {m + 1}] = g[s \ {m + 1}]
          BY <4>2
        <4>4. h[s] = Op(a, b, c, g[s \ {m + 1}], row[m + 1])
          BY <3>1
        <4> QED
          BY <3>1, <4>1, <4>3, <4>4
      <3>2. CASE m + 1 \notin s
        <4>1. s \in SUBSET (1 .. m)
          BY <3>2
        <4>2. h[s] = IF s = {} THEN base ELSE Op(a, b, c, g[s \ {Top(s)}], row[Top(s)])
          BY <2>1, <3>2, <4>1 DEF Iter
        <4>3. s \ {Top(s)} \in SUBSET (1 .. m + 1) /\ m + 1 \notin s \ {Top(s)}
          BY <3>2
        <4>4. h[s \ {Top(s)}] = g[s \ {Top(s)}]
          BY <4>3
        <4> QED
          BY <4>2, <4>4
      <3> QED
        BY <3>1, <3>2
    <2>3. Iter(a, b, c, base, row, m + 1, h)
      <3>1. h = [s \in SUBSET (1 .. m + 1) |-> h[s]]
        OBVIOUS
      <3> HIDE DEF h
      <3>2. h = [s \in SUBSET (1 .. m + 1) |-> next(s)]
        BY <2>2, <3>1
      <3> QED
        BY <3>2 DEF Iter
    <2> QED
      BY <2>3
  <1>3. S = Nat
    <2> S \in SUBSET Nat
      OBVIOUS
    <2> HIDE DEF S
    <2> QED
      BY <1>1, <1>2, SetInduction
  <1> QED
    BY <1>3

\* The values s a fold goes through, one element of the row after the other
Chain(a, b, c, base, row, n, s) ==
  /\ s[0] = base
  /\ \A k \in 1 .. n : s[k] = Op(a, b, c, s[k - 1], row[k])
  /\ Fold(a, b, c, base, row) = s[n]

\* Every fold goes through such values.
THEOREM FoldChain ==
  ASSUME NEW a, NEW b, NEW c, NEW base, NEW row, NEW n \in Nat, DOMAIN row = 1 .. n
  PROVE  \E s : Chain(a, b, c, base, row, n, s)
  <1> DEFINE g == CHOOSE g : Iter(a, b, c, base, row, n, g)
             s == [k \in 0 .. n |-> g[1 .. k]]
  <1>1. Iter(a, b, c, base, row, n, g)
    BY IterExists
  <1>2. Fold(a, b, c, base, row) = g[1 .. n]
    BY DEF Fold, Iter
  <1> HIDE DEF g
  <1>3. s[0] = base
    <2>1. 1 .. 0 = {} /\ {} \in SUBSET (1 .. n)
      OBVIOUS
    <2>2. g[{}] = base
      BY <1>1, <2>1 DEF Iter
    <2> QED
      BY <2>1, <2>2
  <1>4. ASSUME NEW k \in 1 .. n PROVE s[k] = Op(a, b, c, s[k - 1], row[k])
    <2>1. 1 .. k \in SUBSET (1 .. n) /\ 1 .. k # {} /\ k \in 1 .. k
      <3>1. k \in 1 .. k
        OBVIOUS
      <3>2. 1 .. k \in SUBSET (1 .. n)
        OBVIOUS
      <3> QED
        BY <3>1, <3>2
    <2>2. Top(1 .. k) = k
      <3>1. Top(1 .. k) \in 1 .. k /\ \A y \in 1 .. k : y <= Top(1 .. k)
        BY <2>1, TopUpTo
      <3> QED
        BY <2>1, <3>1
    <2>3. (1 .. k) \ {k} = 1 .. k - 1
      OBVIOUS
    <2>4. g[1 .. k] = Op(a, b, c, g[(1 .. k) \ {Top(1 .. k)}], row[Top(1 .. k)])
      BY <1>1, <2>1 DEF Iter
    <2>5. s[k] = g[1 .. k] /\ s[k - 1] = g[1 .. k - 1]
      OBVIOUS
    <2> QED
      BY <2>2, <2>3, <2>4, <2>5
  <1>5. Fold(a, b, c, base, row) = s[n]
    BY <1>2
  <1> HIDE DEF s
  <1> QED
    BY <1>3, <1>4, <1>5 DEF Chain

\* f is defined by recursion on D
Recursive(a, b, D, f) == f = [x \in D |-> Body(a, b, f, x)]

\* The value at x rests on the values of higher rank, and is in V[x] when they
\* are in V
Rests(a, b, D, rank, V) ==
  \A x \in D : \A g, h :
    (\A y \in D : rank[x] < rank[y] => g[y] = h[y] /\ g[y] \in V[y])
      => Body(a, b, g, x) = Body(a, b, h, x) /\ Body(a, b, g, x) \in V[x]

\* Such a function exists, and its values are in V.
THEOREM RecursionExists ==
  ASSUME NEW a, NEW b, NEW D, NEW n \in Nat, NEW rank \in [D -> 0 .. n], NEW V,
         Rests(a, b, D, rank, V)
  PROVE  /\ \E f : Recursive(a, b, D, f)
         /\ \A f : Recursive(a, b, D, f) => \A x \in D : f[x] \in V[x]
  <1> USE DEF Recursive, Rests
  <1> DEFINE L(m) == {x \in D : rank[x] + m > n}
             Good(m, g) == /\ g = [x \in L(m) |-> Body(a, b, g, x)]
                           /\ \A x \in L(m) : g[x] \in V[x]
             S == {m \in Nat : \E g : Good(m, g)}
  <1>0. \A x \in D : rank[x] \in 0 .. n
    OBVIOUS
  <1>1. 0 \in S
    <2> DEFINE g == [x \in L(0) |-> x]
    <2>1. L(0) = {}
      BY <1>0
    <2>2. Good(0, g)
      BY <2>1
    <2> QED
      BY <2>2
  <1>2. ASSUME NEW m \in S PROVE m + 1 \in S
    <2>1. PICK g : Good(m, g)
      OBVIOUS
    <2> DEFINE h == [x \in L(m + 1) |-> IF x \in L(m) THEN g[x] ELSE Body(a, b, g, x)]
    <2>2. ASSUME NEW x \in L(m + 1) PROVE h[x] = Body(a, b, h, x) /\ h[x] \in V[x]
      <3>1. h[x] = Body(a, b, g, x)
        <4>1. CASE x \in L(m)
          <5>1. g[x] = Body(a, b, g, x)
            BY <2>1, <4>1
          <5> QED
            BY <4>1, <5>1
        <4>2. CASE x \notin L(m)
          BY <4>2
        <4> QED
          BY <4>1, <4>2
      <3>2. ASSUME NEW y \in D, rank[x] < rank[y] PROVE g[y] = h[y] /\ g[y] \in V[y]
        <4>1. y \in L(m) /\ y \in L(m + 1)
          BY <1>0, <3>2
        <4>2. g[y] \in V[y]
          BY <2>1, <4>1
        <4> QED
          BY <4>1, <4>2
      <3>3. x \in D
        OBVIOUS
      <3> HIDE DEF h
      <3>4. Body(a, b, g, x) = Body(a, b, h, x) /\ Body(a, b, g, x) \in V[x]
        BY <3>2, <3>3
      <3> QED
        BY <3>1, <3>4
    <2>3. Good(m + 1, h)
      <3>1. h = [x \in L(m + 1) |-> h[x]]
        OBVIOUS
      <3> HIDE DEF h, L
      <3> QED
        BY <2>2, <3>1
    <2>4. m + 1 \in Nat
      OBVIOUS
    <2> HIDE DEF h, L, Good
    <2> QED
      BY <2>3, <2>4
  <1>3. S = Nat
    <2> S \in SUBSET Nat
      OBVIOUS
    <2> HIDE DEF S
    <2> QED
      BY <1>1, <1>2, SetInduction
  <1>4. L(n + 1) = D
    BY <1>0
  <1>5. n + 1 \in S
    <2> HIDE DEF S
    <2> QED
      BY <1>3
  <1>6. \E g : Good(n + 1, g)
    <2> HIDE DEF Good
    <2> QED
      BY <1>5
  <1>7. ASSUME NEW f, f = [x \in D |-> Body(a, b, f, x)]
        PROVE  \A x \in D : f[x] \in V[x]
    <2> DEFINE T == {m \in Nat : \A x \in L(m) : f[x] \in V[x]}
    <2>1. 0 \in T
      BY <1>0
    <2>2. ASSUME NEW m \in T PROVE m + 1 \in T
      <3>1. ASSUME NEW x \in L(m + 1) PROVE f[x] \in V[x]
        <4>1. x \in D
          OBVIOUS
        <4>2. ASSUME NEW y \in D, rank[x] < rank[y] PROVE f[y] = f[y] /\ f[y] \in V[y]
          <5>1. y \in L(m)
            BY <1>0, <4>2
          <5> QED
            BY <5>1
        <4>3. Body(a, b, f, x) \in V[x]
          BY <4>1, <4>2
        <4>4. f[x] = Body(a, b, f, x)
          BY <1>7, <4>1
        <4> QED
          BY <4>3, <4>4
      <3> QED
        BY <3>1
    <2>3. T = Nat
      <3> T \in SUBSET Nat
        OBVIOUS
      <3> HIDE DEF T
      <3> QED
        BY <2>1, <2>2, SetInduction
    <2>4. n + 1 \in T
      <3> HIDE DEF T
      <3> QED
        BY <2>3
    <2> QED
      BY <1>4, <2>4
  <1> HIDE DEF L
  <1> QED
    BY <1>4, <1>6, <1>7

\* What a loop comes to that does the step for 1 .. n, as a recursive function
Outcome(a, b, c, base, n) ==
  LET r[k \in 0 .. n] == IF k = 0 THEN base ELSE Op(a, b, c, r[k - 1], k) IN r[n]

\* The values s it goes through
Turns(a, b, c, base, n, s) ==
  /\ s[0] = base
  /\ \A k \in 1 .. n : s[k] = Op(a, b, c, s[k - 1], k)
  /\ Outcome(a, b, c, base, n) = s[n]

\* Every loop goes through such values.
THEOREM LoopTurns ==
  ASSUME NEW a, NEW b, NEW c, NEW base, NEW n \in Nat
  PROVE  \E s : Turns(a, b, c, base, n, s)
  <1> DEFINE Is(m, g) == g = [k \in 0 .. m |-> IF k = 0 THEN base ELSE Op(a, b, c, g[k - 1], k)]
             S == {m \in Nat : \E g : Is(m, g)}
  <1>1. 0 \in S
    <2> DEFINE g == [k \in 0 .. 0 |-> base]
    <2>1. \A k \in 0 .. 0 : k = 0
      OBVIOUS
    <2>2. Is(0, g)
      BY <2>1
    <2> QED
      BY <2>2
  <1>2. ASSUME NEW m \in S PROVE m + 1 \in S
    <2>1. PICK g : Is(m, g)
      OBVIOUS
    <2> DEFINE h == [k \in 0 .. m + 1 |-> IF k = m + 1 THEN Op(a, b, c, g[m], k) ELSE g[k]]
               next(k) == IF k = 0 THEN base ELSE Op(a, b, c, h[k - 1], k)
    <2>2. ASSUME NEW k \in 0 .. m + 1 PROVE h[k] = next(k)
      <3>1. CASE k = m + 1
        <4>1. h[m] = g[m] /\ k - 1 = m /\ k # 0
          BY <3>1
        <4> QED
          BY <3>1, <4>1
      <3>2. CASE k # m + 1
        <4>1. k \in 0 .. m /\ h[k] = g[k]
          BY <3>2
        <4>2. g[k] = IF k = 0 THEN base ELSE Op(a, b, c, g[k - 1], k)
          BY <2>1, <4>1
        <4>3. k # 0 => h[k - 1] = g[k - 1]
          BY <4>1
        <4> QED
          BY <4>1, <4>2, <4>3
      <3> QED
        BY <3>1, <3>2
    <2>3. Is(m + 1, h)
      <3>1. h = [k \in 0 .. m + 1 |-> h[k]]
        OBVIOUS
      <3> HIDE DEF h
      <3> QED
        BY <2>2, <3>1
    <2> HIDE DEF h, Is
    <2> QED
      BY <2>3
  <1>3. S = Nat
    <2> S \in SUBSET Nat
      OBVIOUS
    <2> HIDE DEF S
    <2> QED
      BY <1>1, <1>2, SetInduction
  <1> DEFINE s == CHOOSE g : Is(n, g)
  <1>4. Is(n, s)
    BY <1>3
  <1>5. Outcome(a, b, c, base, n) = s[n]
    BY DEF Outcome
  <1> HIDE DEF s
  <1>6. s[0] = base /\ \A k \in 1 .. n : s[k] = Op(a, b, c, s[k - 1], k)
    <2>1. \A k \in 1 .. n : k \in 0 .. n /\ k # 0
      OBVIOUS
    <2> QED
      BY <1>4, <2>1
  <1> QED
    BY <1>5, <1>6 DEF Turns
============================================================================
