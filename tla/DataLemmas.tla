---------------------------- MODULE DataLemmas -----------------------------
(***************************************************************************)
(* Facts about the data the models are built from: induction on numbers,   *)
(* stated for sets so that the provers can use it, and functions defined by*)
(* recursion; what appending, inserting, replacing and removing do to the  *)
(* set of a list's members and to their being there once.                  *)
(***************************************************************************)
EXTENDS SequencesExt, SequenceTheorems, FiniteSetTheorems, WellFoundedInduction, TLAPS

(* The range of a remainder.                                               *)
LEMMA ModRange ==
  ASSUME NEW a \in Int, NEW c \in Nat \ {0}
  PROVE  a % c \in 0 .. c - 1
  OBVIOUS

(* A set of natural numbers that is not empty has a least member.          *)
LEMMA Least ==
  ASSUME NEW T \in SUBSET Nat, T # {}
  PROVE  \E n \in T : \A m \in T : n <= m
  <1>1. PICK x \in T : \A y \in T : ~(<<y, x>> \in OpToRel(<, Nat))
    <2>1. IsWellFoundedOn(OpToRel(<, Nat), Nat)
      BY NatLessThanWellFounded
    <2> QED BY <2>1, WFMin
  <1>2. \A y \in T : ~(y < x)
    <2> TAKE y \in T
    <2>1. x \in Nat /\ y \in Nat
      OBVIOUS
    <2>2. y < x => <<y, x>> \in OpToRel(<, Nat)
      BY <2>1 DEF OpToRel
    <2> QED BY <2>2, <1>1
  <1> QED BY <1>2

(* Induction up to N.                                                      *)
LEMMA Induct ==
  ASSUME NEW N \in Nat, NEW T, 0 \in T, \A i \in 1 .. N : i - 1 \in T => i \in T
  PROVE  \A i \in 0 .. N : i \in T
  <1> DEFINE B == {i \in 0 .. N : i \notin T}
  <1> SUFFICES ASSUME B # {} PROVE FALSE
    OBVIOUS
  <1>1. PICK n \in B : \A m \in B : n <= m
    <2>1. B \in SUBSET Nat
      OBVIOUS
    <2> HIDE DEF B
    <2> QED BY <2>1, Least
  <1>2. n \in 1 .. N /\ n - 1 \in 0 .. N /\ ~(n <= n - 1)
    OBVIOUS
  <1>3. n - 1 \notin B
    BY <1>1, <1>2
  <1> QED BY <1>2, <1>3

(* The function that recursion on 0 .. N defines, from x0 by the steps.    *)
Steps(N, X) == [1 .. N -> [X -> X]]
Computes(f, N, X, x0, step) ==
  /\ f \in [0 .. N -> X] /\ f[0] = x0
  /\ \A i \in 1 .. N : f[i] = step[i][f[i - 1]]

(* There is such a function.                                               *)
LEMMA Recursion ==
  ASSUME NEW N \in Nat, NEW X, NEW x0 \in X, NEW step \in Steps(N, X)
  PROVE  \E f : Computes(f, N, X, x0, step)
  <1> DEFINE Upto(n, f) == f \in [0 .. n -> X] /\ f[0] = x0
                           /\ \A i \in 1 .. n : f[i] = step[i][f[i - 1]]
             T == {n \in 0 .. N : \E f : Upto(n, f)}
  <1>0. step \in [1 .. N -> [X -> X]]
    BY DEF Steps
  <1>1. 0 \in T
    <2>1. Upto(0, [i \in 0 .. 0 |-> x0])
      OBVIOUS
    <2> HIDE DEF Upto
    <2> QED BY <2>1
  <1>2. ASSUME NEW n \in 1 .. N, n - 1 \in T PROVE n \in T
    <2>1. PICK f : Upto(n - 1, f)
      BY <1>2
    <2> DEFINE g == [i \in 0 .. n |-> IF i = n THEN step[n][f[n - 1]] ELSE f[i]]
    <2>2. /\ n - 1 \in 0 .. n - 1 /\ f[n - 1] \in X
          /\ \A i \in 0 .. n : i # n => i \in 0 .. n - 1
      BY <2>1
    <2>3. g \in [0 .. n -> X] /\ g[0] = x0
      BY <1>0, <2>1, <2>2
    <2>4. ASSUME NEW i \in 1 .. n PROVE g[i] = step[i][g[i - 1]]
      <3>1. i - 1 \in 0 .. n - 1 /\ g[i - 1] = f[i - 1]
        OBVIOUS
      <3>2. CASE i = n
        BY <3>1, <3>2
      <3>3. CASE i # n
        <4>1. i \in 1 .. n - 1
          BY <3>3
        <4>2. f[i] = step[i][f[i - 1]]
          BY <4>1, <2>1
        <4> QED BY <4>1, <4>2, <3>1, <3>3
      <3> QED BY <3>2, <3>3
    <2>5. Upto(n, g)
      BY <2>3, <2>4
    <2>6. n \in 0 .. N
      OBVIOUS
    <2> HIDE DEF Upto, g
    <2> QED BY <2>5, <2>6
  <1>3. N \in T
    <2>1. N \in 0 .. N
      OBVIOUS
    <2> HIDE DEF T
    <2> QED BY <1>1, <1>2, <2>1, Induct
  <1> QED BY <1>3 DEF Computes

(* Appending x adds x, at most once if it was not there.                  *)
LEMMA AppendContains ==
  ASSUME NEW S, NEW s \in Seq(S), NEW x \in S
  PROVE  /\ Append(s, x) \in Seq(S)
         /\ \A y : Contains(Append(s, x), y) <=> Contains(s, y) \/ y = x
         /\ IsInjective(s) /\ ~Contains(s, x) => IsInjective(Append(s, x))
  <1>1. /\ Append(s, x) \in Seq(S) /\ Len(s) \in Nat /\ Len(Append(s, x)) = Len(s) + 1
        /\ \A i \in 1 .. Len(s) : Append(s, x)[i] = s[i]
        /\ Append(s, x)[Len(s) + 1] = x
    OBVIOUS
  <1>2. \A i : i \in 1 .. Len(s) + 1 <=> i \in 1 .. Len(s) \/ i = Len(s) + 1
    BY <1>1
  <1>3. ASSUME NEW y PROVE Contains(Append(s, x), y) <=> Contains(s, y) \/ y = x
    BY <1>1, <1>2 DEF Contains
  <1>4. IsInjective(s) /\ ~Contains(s, x) => IsInjective(Append(s, x))
    BY <1>1, <1>2 DEF Contains, IsInjective
  <1> QED BY <1>1, <1>3, <1>4

(* Dropping the head removes it, and only it, if it was there once.       *)
LEMMA TailContains ==
  ASSUME NEW S, NEW s \in Seq(S), s # <<>>
  PROVE  /\ Tail(s) \in Seq(S) /\ Head(s) \in S /\ Contains(s, Head(s))
         /\ \A y : Contains(s, y) <=> Contains(Tail(s), y) \/ y = Head(s)
         /\ IsInjective(s) => IsInjective(Tail(s)) /\ ~Contains(Tail(s), Head(s))
  <1> DEFINE n == Len(s)
             u == Tail(s)
  <1>1. /\ u \in Seq(S) /\ Head(s) \in S /\ n \in Nat \ {0} /\ Len(u) = n - 1
        /\ \A i \in 1 .. n - 1 : u[i] = s[i + 1]
        /\ Head(s) = s[1]
    OBVIOUS
  <1> HIDE DEF n, u
  <1>a. Len(s) = n BY DEF n
  <1>2. \A i : i \in 1 .. n <=> i = 1 \/ (i \in Nat /\ i - 1 \in 1 .. n - 1)
    BY <1>1
  <1>3. \A i \in 1 .. n - 1 : i + 1 \in 1 .. n /\ i + 1 # 1
    BY <1>1
  <1>4. ASSUME NEW y PROVE Contains(s, y) <=> Contains(u, y) \/ y = Head(s)
    <2>1. ASSUME NEW i \in 1 .. n, s[i] = y, y # Head(s) PROVE Contains(u, y)
      <3>1. i - 1 \in 1 .. n - 1 /\ (i - 1) + 1 = i BY <1>1, <2>1
      <3>2. u[i - 1] = y BY <3>1, <1>1, <2>1
      <3> QED BY <3>1, <3>2, <1>1 DEF Contains
    <2>2. ASSUME NEW i \in 1 .. n - 1, u[i] = y PROVE Contains(s, y)
      BY <2>2, <1>1, <1>3, <1>a DEF Contains
    <2>3. Contains(s, Head(s)) 
      <3>1. 1 \in 1 .. n BY <1>1
      <3> QED BY <3>1, <1>1, <1>a DEF Contains
    <2> QED BY <2>1, <2>2, <2>3, <1>1, <1>a DEF Contains
  <1>5. ASSUME IsInjective(s) PROVE IsInjective(u) /\ ~Contains(u, Head(s))
    <2>1. ASSUME NEW i \in 1 .. n - 1, NEW j \in 1 .. n - 1, u[i] = u[j] PROVE i = j
      <3>1. i + 1 \in 1 .. n /\ j + 1 \in 1 .. n /\ s[i + 1] = s[j + 1]
        BY <2>1, <1>1, <1>3
      <3>2. i + 1 = j + 1 BY <3>1, <1>5, <1>a DEF IsInjective
      <3> QED BY <3>2
    <2>2. ASSUME NEW i \in 1 .. n - 1, u[i] = Head(s) PROVE FALSE
      <3>1. i + 1 \in 1 .. n /\ 1 \in 1 .. n /\ s[i + 1] = s[1]
        BY <2>2, <1>1, <1>3
      <3>2. i + 1 = 1 BY <3>1, <1>5, <1>a DEF IsInjective
      <3> QED BY <3>2
    <2>3. DOMAIN u = 1 .. n - 1
      BY <1>1
    <2> QED BY <2>1, <2>2, <2>3, <1>1 DEF IsInjective, Contains
  <1>6. Contains(s, Head(s)) BY <1>4
  <1> QED BY <1>1, <1>4, <1>5, <1>6 DEF u
-----------------------------------------------------------------------------
(* The sequence without its i-th member.                                   *)
LEMMA RemoveAtIs ==
  ASSUME NEW S, NEW s \in Seq(S), NEW i \in 1 .. Len(s)
  PROVE  /\ RemoveAt(s, i) \in Seq(S) /\ Len(RemoveAt(s, i)) = Len(s) - 1
         /\ \A j \in 1 .. Len(s) - 1 : RemoveAt(s, i)[j] = IF j < i THEN s[j] ELSE s[j + 1]
  <1> DEFINE n == Len(s)
             l == SubSeq(s, 1, i - 1)
             r == SubSeq(s, i + 1, n)
  <1>1. n \in Nat /\ i \in 1 .. n /\ \A j \in 1 .. n : s[j] \in S
    OBVIOUS
  <1> HIDE DEF n
  <1>2. l \in Seq(S) /\ Len(l) = i - 1 /\ \A j \in 1 .. i - 1 : l[j] = s[j]
    <2>1. \A j \in 1 .. i - 1 : s[j] \in S
      BY <1>1
    <2>2. l \in Seq(S) /\ Len(l) = (IF 1 <= i - 1 THEN i - 1 - 1 + 1 ELSE 0)
          /\ \A j \in 1 .. i - 1 - 1 + 1 : l[j] = s[1 + j - 1]
      BY <1>1, <2>1, SubSeqProperties
    <2> HIDE DEF l
    <2> QED BY <1>1, <2>2
  <1>3. r \in Seq(S) /\ Len(r) = n - i /\ \A j \in 1 .. n - i : r[j] = s[i + j]
    <2>1. \A j \in i + 1 .. n : s[j] \in S
      BY <1>1
    <2>2. r \in Seq(S) /\ Len(r) = (IF i + 1 <= n THEN n - (i + 1) + 1 ELSE 0)
          /\ \A j \in 1 .. n - (i + 1) + 1 : r[j] = s[i + 1 + j - 1]
      BY <1>1, <2>1, SubSeqProperties
    <2> HIDE DEF r
    <2> QED BY <1>1, <2>2
  <1> HIDE DEF l, r
  <1>4. l \o r \in Seq(S) /\ Len(l \o r) = Len(l) + Len(r)
        /\ \A j \in 1 .. Len(l) + Len(r) : (l \o r)[j] = IF j <= Len(l) THEN l[j] ELSE r[j - Len(l)]
    BY <1>2, <1>3, ConcatProperties
  <1>5. \A j \in 1 .. n - 1 : (l \o r)[j] = IF j < i THEN s[j] ELSE s[j + 1]
    <2> TAKE j \in 1 .. n - 1
    <2>1. CASE j < i
      BY <1>1, <1>2, <1>3, <1>4, <2>1
    <2>2. CASE j >= i
      <3>1. j - (i - 1) \in 1 .. n - i /\ i + (j - (i - 1)) = j + 1 /\ ~(j <= i - 1) /\ ~(j < i)
            /\ j \in 1 .. Len(l) + Len(r)
        BY <1>1, <1>2, <1>3, <2>2
      <3> QED BY <1>2, <1>3, <1>4, <3>1
    <2>3. j < i \/ j >= i
      BY <1>1
    <2> QED BY <2>1, <2>2, <2>3
  <1>6. Len(l \o r) = n - 1
    BY <1>1, <1>2, <1>3, <1>4
  <1> QED BY <1>4, <1>5, <1>6 DEF RemoveAt, l, r, n

(* The sequence with x as its new i-th member.                             *)
Inserts(t, s, i, x) ==
  /\ Len(t) = Len(s) + 1
  /\ \A j \in 1 .. Len(s) + 1 : /\ j < i => t[j] = s[j]
                                /\ j = i => t[j] = x
                                /\ j > i => t[j] = s[j - 1]

LEMMA InsertAtIs ==
  ASSUME NEW S, NEW s \in Seq(S), NEW i \in 1 .. Len(s) + 1, NEW x \in S
  PROVE  InsertAt(s, i, x) \in Seq(S) /\ Inserts(InsertAt(s, i, x), s, i, x)
  <1> DEFINE n == Len(s)
             l == SubSeq(s, 1, i - 1)
             r == SubSeq(s, i, n)
             m == l \o <<x>>
  <1>1. n \in Nat /\ i \in 1 .. n + 1 /\ \A j \in 1 .. n : s[j] \in S
    OBVIOUS
  <1> HIDE DEF n
  <1>2. l \in Seq(S) /\ Len(l) = i - 1 /\ \A j \in 1 .. i - 1 : l[j] = s[j]
    <2>1. \A j \in 1 .. i - 1 : s[j] \in S
      BY <1>1
    <2>2. l \in Seq(S) /\ Len(l) = (IF 1 <= i - 1 THEN i - 1 - 1 + 1 ELSE 0)
          /\ \A j \in 1 .. i - 1 - 1 + 1 : l[j] = s[1 + j - 1]
      BY <1>1, <2>1, SubSeqProperties
    <2> HIDE DEF l
    <2> QED BY <1>1, <2>2
  <1>3. r \in Seq(S) /\ Len(r) = n + 1 - i /\ \A j \in 1 .. n + 1 - i : r[j] = s[i + j - 1]
    <2>1. \A j \in i .. n : s[j] \in S
      BY <1>1
    <2>2. r \in Seq(S) /\ Len(r) = (IF i <= n THEN n - i + 1 ELSE 0)
          /\ \A j \in 1 .. n - i + 1 : r[j] = s[i + j - 1]
      BY <1>1, <2>1, SubSeqProperties
    <2> HIDE DEF r
    <2> QED BY <1>1, <2>2
  <1> HIDE DEF l, r
  <1>4. m \in Seq(S) /\ Len(m) = i /\ m[i] = x /\ \A j \in 1 .. i - 1 : m[j] = s[j]
    <2>1. <<x>> \in Seq(S) /\ Len(<<x>>) = 1 /\ <<x>>[1] = x
      OBVIOUS
    <2>2. m \in Seq(S) /\ Len(m) = Len(l) + 1
          /\ \A j \in 1 .. Len(l) + 1 : m[j] = IF j <= Len(l) THEN l[j] ELSE <<x>>[j - Len(l)]
      BY <1>2, <2>1, ConcatProperties
    <2>3. i \in 1 .. (i - 1) + 1 /\ ~(i <= i - 1) /\ i - (i - 1) = 1 /\ (i - 1) + 1 = i
          /\ \A j \in 1 .. i - 1 : j \in 1 .. (i - 1) + 1 /\ j <= i - 1
      BY <1>1
    <2> HIDE DEF m
    <2> QED BY <1>2, <2>1, <2>2, <2>3
  <1> HIDE DEF m
  <1>5. m \o r \in Seq(S) /\ Len(m \o r) = Len(m) + Len(r)
        /\ \A j \in 1 .. Len(m) + Len(r) : (m \o r)[j] = IF j <= Len(m) THEN m[j] ELSE r[j - Len(m)]
    BY <1>3, <1>4, ConcatProperties
  <1>6. ASSUME NEW j \in 1 .. n + 1
        PROVE  /\ j < i => (m \o r)[j] = s[j]
               /\ j = i => (m \o r)[j] = x
               /\ j > i => (m \o r)[j] = s[j - 1]
    <2>1. j \in 1 .. Len(m) + Len(r)
      BY <1>1, <1>3, <1>4
    <2>2. CASE j <= i
      BY <1>1, <1>4, <1>5, <2>1, <2>2
    <2>3. CASE j > i
      <3>1. j - i \in 1 .. n + 1 - i /\ i + (j - i) - 1 = j - 1 /\ ~(j <= i) /\ ~(j < i)
        BY <1>1, <2>3
      <3> QED BY <1>1, <1>3, <1>4, <1>5, <2>1, <3>1
    <2>4. j <= i \/ j > i
      BY <1>1
    <2> QED BY <2>2, <2>3, <2>4
  <1>7. Len(m \o r) = n + 1
    BY <1>1, <1>3, <1>4, <1>5
  <1>8. InsertAt(s, i, x) = m \o r
    BY DEF InsertAt, l, r, m, n
  <1> DEFINE t == m \o r
  <1>9. t \in Seq(S) /\ Len(t) = n + 1
    BY <1>5, <1>7
  <1>10. \A j \in 1 .. n + 1 : /\ j < i => t[j] = s[j]
                               /\ j = i => t[j] = x
                               /\ j > i => t[j] = s[j - 1]
    BY <1>6
  <1> HIDE DEF t
  <1>11. Inserts(t, s, i, x)
    BY <1>9, <1>10 DEF Inserts, n
  <1> QED BY <1>8, <1>9, <1>11 DEF t

(* What changes of a list do to the set of its members when nobody is there*)
(* twice.  The i-th is removed:                                            *)
LEMMA RemoveMembers ==
  ASSUME NEW S, NEW s \in Seq(S), IsInjective(s), NEW i \in 1 .. Len(s)
  PROVE  /\ RemoveAt(s, i) \in Seq(S) /\ IsInjective(RemoveAt(s, i))
         /\ ToSet(RemoveAt(s, i)) = ToSet(s) \ {s[i]}
  <1> DEFINE n == Len(s)
             t == RemoveAt(s, i)
  <1>1. /\ t \in Seq(S) /\ Len(t) = n - 1 /\ n \in Nat
        /\ \A j \in 1 .. n - 1 : t[j] = IF j < i THEN s[j] ELSE s[j + 1]
    <2>1. Len(s) \in Nat
      OBVIOUS
    <2>2. /\ RemoveAt(s, i) \in Seq(S) /\ Len(RemoveAt(s, i)) = Len(s) - 1
          /\ \A j \in 1 .. Len(s) - 1 : RemoveAt(s, i)[j] = IF j < i THEN s[j] ELSE s[j + 1]
      BY RemoveAtIs, Zenon
    <2> QED BY <2>1, <2>2, Zenon
  <1>2. DOMAIN s = 1 .. n /\ i \in 1 .. n /\ \A j, k \in 1 .. n : s[j] = s[k] => j = k
    BY DEF IsInjective
  <1> HIDE DEF n, t
  <1>3. DOMAIN t = 1 .. n - 1
    BY <1>1
  <1>4. \A j \in 1 .. n - 1 : /\ j \in 1 .. n /\ j + 1 \in 1 .. n
    BY <1>1
  <1>5. IsInjective(t)
    <2> SUFFICES ASSUME NEW j \in 1 .. n - 1, NEW k \in 1 .. n - 1, t[j] = t[k] PROVE j = k
      BY <1>3 DEF IsInjective
    <2>1. CASE j < i /\ k < i
      BY <1>1, <1>2, <1>4, <2>1
    <2>2. CASE j < i /\ ~(k < i)
      <3>1. j = k + 1
        BY <1>1, <1>2, <1>4, <2>2
      <3> QED BY <3>1, <2>2, <1>1, <1>2
    <2>3. CASE ~(j < i) /\ k < i
      <3>1. j + 1 = k
        BY <1>1, <1>2, <1>4, <2>3
      <3> QED BY <3>1, <2>3, <1>1, <1>2
    <2>4. CASE ~(j < i) /\ ~(k < i)
      <3>1. j + 1 = k + 1
        BY <1>1, <1>2, <1>4, <2>4
      <3> QED BY <3>1
    <2> QED BY <2>1, <2>2, <2>3, <2>4
  <1>6. ASSUME NEW j \in 1 .. n - 1 PROVE \E k \in 1 .. n : t[j] = s[k] /\ k # i
    <2>1. CASE j < i
      BY <1>1, <1>2, <1>4, <2>1
    <2>2. CASE ~(j < i)
      <3>1. j + 1 # i /\ t[j] = s[j + 1]
        BY <1>1, <1>2, <2>2
      <3> QED BY <3>1, <1>4
    <2> QED BY <2>1, <2>2
  <1>7. ASSUME NEW k \in 1 .. n, k # i PROVE \E j \in 1 .. n - 1 : t[j] = s[k]
    <2>1. CASE k < i
      <3>1. k \in 1 .. n - 1
        BY <1>1, <1>2, <2>1
      <3> QED BY <3>1, <1>1, <2>1
    <2>2. CASE ~(k < i)
      <3>1. k - 1 \in 1 .. n - 1 /\ ~(k - 1 < i) /\ (k - 1) + 1 = k
        BY <1>1, <1>2, <1>7, <2>2
      <3>2. t[k - 1] = s[k]
        BY <3>1, <1>1
      <3> QED BY <3>1, <3>2
    <2> QED BY <2>1, <2>2
  <1>8. ToSet(t) = ToSet(s) \ {s[i]}
    <2>1. ASSUME NEW y \in ToSet(t) PROVE y \in ToSet(s) \ {s[i]}
      <3>1. PICK j \in 1 .. n - 1 : y = t[j]
        BY <1>3 DEF ToSet
      <3>2. PICK k \in 1 .. n : y = s[k] /\ k # i
        BY <3>1, <1>6
      <3> QED BY <3>2, <1>2 DEF ToSet
    <2>2. ASSUME NEW y \in ToSet(s) \ {s[i]} PROVE y \in ToSet(t)
      <3>1. PICK k \in 1 .. n : y = s[k] /\ k # i
        BY <1>2 DEF ToSet
      <3>2. PICK j \in 1 .. n - 1 : t[j] = y
        BY <3>1, <1>7
      <3> QED BY <3>2, <1>3 DEF ToSet
    <2> QED BY <2>1, <2>2
  <1> QED BY <1>1, <1>5, <1>8 DEF t

(* x is new.                                                               *)
LEMMA InsertMembers ==
  ASSUME NEW S, NEW s \in Seq(S), IsInjective(s), NEW i \in 1 .. Len(s) + 1,
         NEW x \in S, x \notin ToSet(s)
  PROVE  /\ InsertAt(s, i, x) \in Seq(S) /\ IsInjective(InsertAt(s, i, x))
         /\ ToSet(InsertAt(s, i, x)) = ToSet(s) \cup {x}
  <1> DEFINE n == Len(s)
             t == InsertAt(s, i, x)
  <1>1. /\ t \in Seq(S) /\ Len(t) = n + 1 /\ n \in Nat /\ i \in 1 .. n + 1
        /\ \A j \in 1 .. n + 1 : /\ j < i => t[j] = s[j]
                                 /\ j = i => t[j] = x
                                 /\ j > i => t[j] = s[j - 1]
    <2>1. n \in Nat /\ i \in 1 .. n + 1
      OBVIOUS
    <2>2. t \in Seq(S) /\ Inserts(t, s, i, x)
      BY InsertAtIs
    <2> HIDE DEF t
    <2> QED BY <2>1, <2>2 DEF Inserts
  <1>2. /\ DOMAIN s = 1 .. n /\ \A j, k \in 1 .. n : s[j] = s[k] => j = k
        /\ \A j \in 1 .. n : s[j] # x
    BY DEF IsInjective, ToSet
  <1> HIDE DEF n, t
  <1>3. DOMAIN t = 1 .. n + 1
    BY <1>1
  <1>4. \A j \in 1 .. n + 1 : /\ j < i => j \in 1 .. n /\ t[j] = s[j]
                              /\ j = i => t[j] = x
                              /\ j > i => j - 1 \in 1 .. n /\ t[j] = s[j - 1]
    BY <1>1
  <1>5. IsInjective(t)
    <2> SUFFICES ASSUME NEW j \in 1 .. n + 1, NEW k \in 1 .. n + 1, t[j] = t[k], j < k PROVE FALSE
      <3>1. \A j, k \in 1 .. n + 1 : t[j] = t[k] => ~(j < k) /\ ~(k < j)
        OBVIOUS
      <3>2. \A j, k \in 1 .. n + 1 : ~(j < k) /\ ~(k < j) => j = k
        BY <1>1
      <3> QED BY <3>1, <3>2, <1>3 DEF IsInjective
    <2>1. CASE k < i
      BY <1>1, <1>2, <1>4, <2>1
    <2>2. CASE j > i
      <3>1. j - 1 = k - 1
        BY <1>1, <1>2, <1>4, <2>2
      <3> QED BY <3>1, <1>1
    <2>3. CASE j < i /\ k > i
      <3>1. j = k - 1
        BY <1>1, <1>2, <1>4, <2>3
      <3> QED BY <3>1, <1>1, <2>3
    <2>4. CASE j = i \/ k = i
      BY <1>1, <1>2, <1>4, <2>4
    <2> QED BY <1>1, <2>1, <2>2, <2>3, <2>4
  <1>6. ToSet(t) = ToSet(s) \cup {x}
    <2>1. ASSUME NEW y \in ToSet(t) PROVE y \in ToSet(s) \cup {x}
      <3>1. PICK j \in 1 .. n + 1 : y = t[j]
        BY <1>3 DEF ToSet
      <3>2. y = x \/ \E k \in 1 .. n : y = s[k]
        BY <3>1, <1>1, <1>4
      <3> QED BY <3>2, <1>2 DEF ToSet
    <2>2. ASSUME NEW k \in 1 .. n PROVE s[k] \in ToSet(t)
      <3>1. CASE k < i
        <4>1. k \in 1 .. n + 1 /\ t[k] = s[k]
          BY <1>1, <1>4, <3>1
        <4> QED BY <4>1, <1>3 DEF ToSet
      <3>2. CASE ~(k < i)
        <4>1. k + 1 \in 1 .. n + 1 /\ k + 1 > i /\ (k + 1) - 1 = k
          BY <1>1, <3>2
        <4>2. t[k + 1] = s[k]
          BY <4>1, <1>4
        <4> QED BY <4>1, <4>2, <1>3 DEF ToSet
      <3> QED BY <3>1, <3>2
    <2>3. x \in ToSet(t)
      BY <1>1, <1>3, <1>4 DEF ToSet
    <2> QED BY <2>1, <2>2, <2>3, <1>2 DEF ToSet
  <1> QED BY <1>1, <1>5, <1>6 DEF t

(* t is s with x for its i-th member.                                      *)
Replaces(s, i, x, t) == t = [s EXCEPT ![i] = x]

LEMMA ReplaceMembers ==
  ASSUME NEW S, NEW s \in Seq(S), IsInjective(s), NEW i \in 1 .. Len(s),
         NEW x \in S, x \notin ToSet(s), NEW t, Replaces(s, i, x, t)
  PROVE  t \in Seq(S) /\ IsInjective(t) /\ ToSet(t) = (ToSet(s) \ {s[i]}) \cup {x}
  <1> DEFINE n == Len(s)
  <1>1. /\ t \in Seq(S) /\ Len(t) = n /\ n \in Nat
        /\ \A j \in 1 .. n : t[j] = IF j = i THEN x ELSE s[j]
    BY ExceptSeq DEF Replaces
  <1>2. /\ DOMAIN s = 1 .. n /\ \A j, k \in 1 .. n : s[j] = s[k] => j = k
        /\ \A j \in 1 .. n : s[j] # x
    BY DEF IsInjective, ToSet
  <1>3. DOMAIN t = 1 .. n
    BY <1>2 DEF Replaces
  <1> HIDE DEF n
  <1>4. IsInjective(t)
    BY <1>1, <1>2, <1>3 DEF IsInjective
  <1>5. i \in 1 .. n
    BY DEF n
  <1>6. ToSet(t) = (ToSet(s) \ {s[i]}) \cup {x}
    BY <1>1, <1>2, <1>3, <1>5 DEF ToSet
  <1> QED BY <1>1, <1>4, <1>6

(* x is put in front.                                                      *)
LEMMA ConsMembers ==
  ASSUME NEW S, NEW s \in Seq(S), IsInjective(s), NEW x \in S, x \notin ToSet(s)
  PROVE  LET t == <<x>> \o s
         IN  t \in Seq(S) /\ IsInjective(t) /\ ToSet(t) = ToSet(s) \cup {x}
  <1> DEFINE n == Len(s)
             t == <<x>> \o s
  <1>1. <<x>> \in Seq(S) /\ Len(<<x>>) = 1 /\ <<x>>[1] = x /\ n \in Nat
    OBVIOUS
  <1>2. t \in Seq(S) /\ Len(t) = 1 + n
        /\ \A j \in 1 .. 1 + n : t[j] = IF j <= 1 THEN <<x>>[j] ELSE s[j - 1]
    BY <1>1, ConcatProperties
  <1>3. /\ DOMAIN s = 1 .. n /\ \A j, k \in 1 .. n : s[j] = s[k] => j = k
        /\ \A j \in 1 .. n : s[j] # x
    BY DEF IsInjective, ToSet
  <1> HIDE DEF n, t
  <1>4. /\ DOMAIN t = 1 .. n + 1 /\ t[1] = x /\ 1 \in 1 .. n + 1
        /\ \A j \in 1 .. n + 1 : j # 1 => j - 1 \in 1 .. n /\ t[j] = s[j - 1]
        /\ \A j \in 1 .. n : j + 1 \in 1 .. n + 1 /\ t[j + 1] = s[j]
    BY <1>1, <1>2
  <1>5. \A j, k \in 1 .. n + 1 : j # 1 /\ k # 1 /\ j - 1 = k - 1 => j = k
    BY <1>1
  <1>6. IsInjective(t)
    BY <1>3, <1>4, <1>5 DEF IsInjective
  <1>7. ToSet(t) = ToSet(s) \cup {x}
    BY <1>3, <1>4 DEF ToSet
  <1> QED BY <1>2, <1>6, <1>7 DEF t

(* A sequence is one of any set that holds its members.                    *)
LEMMA SeqOfMembers ==
  ASSUME NEW S, NEW s \in Seq(S), NEW T, ToSet(s) \subseteq T
  PROVE  s \in Seq(T)
  <1>1. Len(s) \in Nat /\ DOMAIN s = 1 .. Len(s) /\ s = [i \in 1 .. Len(s) |-> s[i]]
    OBVIOUS
  <1>2. \A i \in 1 .. Len(s) : s[i] \in T
    BY <1>1 DEF ToSet
  <1> QED BY <1>1, <1>2

-----------------------------------------------------------------------------
(* Sequences of anything.                                                  *)
IsSequence(s) == \E S : s \in Seq(S)

LEMMA Common ==
  ASSUME NEW s, NEW w, IsSequence(s), IsSequence(w)
  PROVE  \E S : s \in Seq(S) /\ w \in Seq(S)
  <1>1. PICK S1 : s \in Seq(S1)
    BY DEF IsSequence
  <1>2. PICK S2 : w \in Seq(S2)
    BY DEF IsSequence
  <1>3. ToSet(s) \subseteq S1 \cup S2 /\ ToSet(w) \subseteq S1 \cup S2
    BY <1>1, <1>2 DEF ToSet
  <1> DEFINE S == S1 \cup S2
  <1> HIDE DEF S
  <1>4. ToSet(s) \subseteq S /\ ToSet(w) \subseteq S
    BY <1>3 DEF S
  <1>5. s \in Seq(S)
    BY <1>1, <1>4, SeqOfMembers
  <1>6. w \in Seq(S)
    BY <1>2, <1>4, SeqOfMembers
  <1> QED BY <1>5, <1>6

Concat(s, w) == s \o w
IsConcat(p, s, w) ==
  /\ IsSequence(p) /\ Len(p) = Len(s) + Len(w)
  /\ \A k \in 1 .. Len(s) : p[k] = s[k]
  /\ \A k \in 1 .. Len(w) : p[Len(s) + k] = w[k]

LEMMA ConcatIs ==
  ASSUME NEW s, NEW w, IsSequence(s), IsSequence(w)
  PROVE  IsConcat(Concat(s, w), s, w)
  <1>1. PICK S : s \in Seq(S) /\ w \in Seq(S)
    BY Common
  <1> DEFINE n == Len(s)
             m == Len(w)
             p == s \o w
  <1>2. n \in Nat /\ m \in Nat
    BY <1>1
  <1>3. p \in Seq(S) /\ Len(p) = n + m
        /\ \A k \in 1 .. n + m : p[k] = IF k <= n THEN s[k] ELSE w[k - n]
    BY <1>1, ConcatProperties
  <1> HIDE DEF n, m, p
  <1>4. \A k \in 1 .. n : p[k] = s[k]
    BY <1>2, <1>3
  <1>5. \A k \in 1 .. m : p[n + k] = w[k]
    <2> TAKE k \in 1 .. m
    <2>1. n + k \in 1 .. n + m /\ ~(n + k <= n) /\ (n + k) - n = k
      BY <1>2
    <2> QED BY <1>3, <2>1
  <1> QED BY <1>3, <1>4, <1>5 DEF p, n, m, IsSequence, Concat, IsConcat

LEMMA OneElement ==
  ASSUME NEW a
  PROVE  IsSequence(<<a>>) /\ Len(<<a>>) = 1 /\ <<a>>[1] = a
  <1>1. <<a>> \in Seq({a})
    OBVIOUS
  <1> QED BY <1>1 DEF IsSequence

LEMMA LenNat ==
  ASSUME NEW s, IsSequence(s)
  PROVE  Len(s) \in Nat /\ DOMAIN s = 1 .. Len(s) /\ s = [i \in 1 .. Len(s) |-> s[i]]
  BY DEF IsSequence

LEMMA SameElements ==
  ASSUME NEW s, NEW b, IsSequence(s), IsSequence(b), Len(s) = Len(b), \A k \in 1 .. Len(b) : s[k] = b[k]
  PROVE  s = b
  <1>1. s = [i \in 1 .. Len(s) |-> s[i]] /\ b = [i \in 1 .. Len(b) |-> b[i]]
    BY LenNat
  <1> QED BY <1>1

LEMMA NoElements ==
  /\ IsSequence(<<>>) /\ Len(<<>>) = 0
  /\ \A s : IsSequence(s) /\ Len(s) = 0 => s = <<>>
  <1>1. <<>> \in Seq({}) /\ Len(<<>>) = 0
    OBVIOUS
  <1>2. IsSequence(<<>>)
    BY <1>1 DEF IsSequence
  <1>3. ASSUME NEW s, IsSequence(s), Len(s) = 0 PROVE s = <<>>
    <2>1. \A k \in 1 .. Len(<<>>) : s[k] = <<>>[k]
      BY <1>1
    <2> QED BY <1>1, <1>2, <1>3, <2>1, SameElements
  <1> QED BY <1>1, <1>2, <1>3

(* All but the first n.                                                    *)
Drop(s, n) == SubSeq(s, n + 1, Len(s))
IsDrop(p, s, n) ==
  /\ IsSequence(p) /\ Len(p) = Len(s) - n
  /\ \A k \in 1 .. Len(s) - n : p[k] = s[n + k]

LEMMA DropIs ==
  ASSUME NEW s, IsSequence(s), NEW n \in 0 .. Len(s)
  PROVE  IsDrop(Drop(s, n), s, n)
  <1>1. PICK S : s \in Seq(S)
    BY DEF IsSequence
  <1> DEFINE m == Len(s)
             p == SubSeq(s, n + 1, m)
  <1>2. m \in Nat /\ \A k \in 1 .. m : s[k] \in S
    BY <1>1
  <1> HIDE DEF m
  <1>3. n \in 0 .. m
    BY DEF m
  <1>4. n + 1 \in 1 .. m + 1 /\ \A k \in n + 1 .. m : s[k] \in S
    BY <1>2, <1>3
  <1>5. p \in Seq(S) /\ Len(p) = (IF n + 1 <= m THEN m - (n + 1) + 1 ELSE 0)
        /\ \A k \in 1 .. m - (n + 1) + 1 : p[k] = s[n + 1 + k - 1]
    BY <1>2, <1>3, <1>4, SubSeqProperties
  <1> HIDE DEF p
  <1>6. Len(p) = m - n /\ \A k \in 1 .. m - n : p[k] = s[n + k]
    BY <1>2, <1>3, <1>5
  <1> QED BY <1>5, <1>6 DEF Drop, p, m, IsSequence, IsDrop
=============================================================================
