--------------------------- MODULE SequenceLemmas ---------------------------
(***************************************************************************)
(* Induction and recursion over the naturals in a form that needs no       *)
(* operator as a parameter, from the fact that the naturals are well       *)
(* founded; and what FlattenSeq of the community modules computes.         *)
(***************************************************************************)
EXTENDS Naturals, SequencesExt, SequenceTheorems, WellFoundedInduction, TLAPS

\* A set of naturals that holds 0, and with each number the next, holds them all.
LEMMA SetInduction ==
  ASSUME NEW S, 0 \in S, \A n \in Nat : n \in S => n + 1 \in S
  PROVE  Nat \subseteq S
<1> DEFINE Rest == Nat \ S
<1> SUFFICES ASSUME Rest # {} PROVE FALSE
  OBVIOUS
<1>1. \E x \in Rest : \A y \in Rest : <<y, x>> \notin OpToRel(<, Nat)
  <2>1. Rest \subseteq Nat
    OBVIOUS
  <2> HIDE DEF Rest
  <2> QED
    BY <2>1, NatLessThanWellFounded, WFMin
<1>2. PICK x \in Rest : \A y \in Rest : ~(y < x)
  BY <1>1 DEF OpToRel
<1>3. x # 0 /\ x - 1 \in Nat /\ x - 1 \notin Rest
  BY <1>2
<1> QED
  BY <1>3

\* f has base at 0 and follows step, which makes of the value for i - 1 the one for i.
Follows(f, A, base, n, step) ==
  f \in [0..n -> A] /\ f[0] = base /\ \A i \in 1..n : f[i] = step[i][f[i - 1]]
IsStep(step, A, n) == \A i \in 1..n : \A a \in A : step[i][a] \in A

LEMMA RecursionExists ==
  ASSUME NEW A, NEW base \in A, NEW n \in Nat, NEW step, IsStep(step, A, n)
  PROVE  \E f : Follows(f, A, base, n, step)
<1> USE DEF IsStep
<1> DEFINE Good(k) == \E f \in [0..k -> A] : f[0] = base /\ \A i \in 1..k : f[i] = step[i][f[i - 1]]
           S == {k \in Nat : k <= n => Good(k)}
<1>1. 0 \in S
  <2> DEFINE f == [i \in 0..0 |-> base]
  <2>1. f \in [0..0 -> A] /\ f[0] = base /\ \A i \in 1..0 : f[i] = step[i][f[i - 1]]
    OBVIOUS
  <2> HIDE DEF f
  <2> QED
    BY <2>1
<1>2. ASSUME NEW k \in Nat, k \in S PROVE k + 1 \in S
  <2> SUFFICES ASSUME k + 1 <= n PROVE Good(k + 1)
    OBVIOUS
  <2>1. PICK f \in [0..k -> A] : f[0] = base /\ \A i \in 1..k : f[i] = step[i][f[i - 1]]
    BY <1>2
  <2> DEFINE g == [i \in 0..(k + 1) |-> IF i = k + 1 THEN step[k + 1][f[k]] ELSE f[i]]
  <2>2. step[k + 1][f[k]] \in A
    OBVIOUS
  <2>3. g \in [0..(k + 1) -> A]
    BY <2>2
  <2>4. g[0] = base /\ \A i \in 1..(k + 1) : g[i] = step[i][g[i - 1]]
    BY <2>1
  <2> HIDE DEF g
  <2> QED
    BY <2>3, <2>4
<1>3. n \in S
  <2> HIDE DEF S
  <2> QED
    BY <1>1, <1>2, SetInduction
<1> QED
  BY <1>3 DEF Follows

-----------------------------------------------------------------------------
(* FlattenSeq                                                              *)

\* The concatenations of the first sequences of s, whose elements are in T.
Partial(f, s, T) ==
  /\ f \in [0..Len(s) -> Seq(T)]
  /\ f[0] = <<>> /\ \A i \in 1..Len(s) : f[i] = f[i - 1] \o s[i]

LEMMA PartialExists ==
  ASSUME NEW T, NEW s \in Seq(Seq(T))
  PROVE  \E f : Partial(f, s, T)
<1> DEFINE A == Seq(T)
           n == Len(s)
           step == [i \in 1..n |-> [a \in A |-> a \o s[i]]]
<1>1. n \in Nat /\ <<>> \in A
  OBVIOUS
<1>2. \A i \in 1..n, a \in A : a \o s[i] \in A
  OBVIOUS
<1> HIDE DEF A, n
<1>3. \A i \in 1..n, a \in A : step[i][a] = a \o s[i]
  OBVIOUS
<1>4. IsStep(step, A, n)
  BY <1>2 DEF IsStep
<1> HIDE DEF step
<1>5. PICK f : Follows(f, A, <<>>, n, step)
  BY <1>1, <1>4, RecursionExists
<1>6. f \in [0..n -> A] /\ f[0] = <<>> /\ \A i \in 1..n : f[i] = step[i][f[i - 1]]
  BY <1>5 DEF Follows
<1>7. \A i \in 1..n : f[i - 1] \in A
  BY <1>1, <1>6
<1>8. \A i \in 1..n : f[i] = f[i - 1] \o s[i]
  BY <1>3, <1>6, <1>7
<1> QED
  BY <1>6, <1>8 DEF Partial, A, n

LEMMA FlattenByParts ==
  ASSUME NEW T, NEW s \in Seq(Seq(T)), NEW f, Partial(f, s, T)
  PROVE  FlattenSeq(s) = f[Len(s)]
<1> DEFINE A == Seq(T)
           n == Len(s)
<1>1. n \in Nat
  OBVIOUS
<1>2. CASE n = 0
  BY <1>2 DEF FlattenSeq, Partial
<1>3. CASE n # 0
  <2> DEFINE Rule(g) == [i \in 1..n |-> IF i = 1 THEN s[i] ELSE g[i - 1] \o s[i]]
             fl == CHOOSE g : g = Rule(g)
             h == [i \in 1..n |-> f[i]]
             S == {k \in Nat : k \in 1..n => fl[k] = f[k]}
  <2>1. FlattenSeq(s) = fl[n]
    BY <1>3 DEF FlattenSeq
  <2>2. \A i \in 1..n : f[i] = IF i = 1 THEN s[i] ELSE f[i - 1] \o s[i]
    <3>1. f[0] = <<>> /\ \A i \in 1..n : f[i] = f[i - 1] \o s[i]
      BY DEF Partial
    <3>2. 1 \in 1..n /\ s[1] \in Seq(T)
      BY <1>1, <1>3
    <3>3. <<>> \o s[1] = s[1]
      BY <3>2
    <3> HIDE DEF n
    <3>4. f[1] = f[1 - 1] \o s[1]
      BY <3>1, <3>2, Zenon
    <3>5. f[1] = s[1]
      <4>1. 1 - 1 = 0
        OBVIOUS
      <4> QED
        BY <3>1, <3>3, <3>4, <4>1, Zenon
    <3> QED
      BY <3>1, <3>5
  <2> HIDE DEF n
  <2>3. h = Rule(h)
    <3>1. \A i \in 1..n : h[i] = Rule(h)[i]
      BY <1>1, <2>2
    <3> QED
      BY <3>1
  <2>4. fl = Rule(fl)
    <3> HIDE DEF h, Rule
    <3> QED
      BY <2>3
  <2> HIDE DEF fl
  <2>5. \A i \in 1..n : fl[i] = IF i = 1 THEN s[i] ELSE fl[i - 1] \o s[i]
    <3>1. \A i \in 1..n : Rule(fl)[i] = IF i = 1 THEN s[i] ELSE fl[i - 1] \o s[i]
      OBVIOUS
    <3> HIDE DEF Rule
    <3> QED
      BY <2>4, <3>1, Zenon
  <2>6. ASSUME NEW k \in Nat, k \in S PROVE k + 1 \in S
    <3> SUFFICES ASSUME k + 1 \in 1..n PROVE fl[k + 1] = f[k + 1]
      OBVIOUS
    <3>1. fl[k + 1] = IF k + 1 = 1 THEN s[k + 1] ELSE fl[k + 1 - 1] \o s[k + 1]
      BY <2>5
    <3>2. CASE k = 0
      BY <2>2, <3>1, <3>2
    <3>3. CASE k # 0
      <4>1. k \in 1..n /\ k + 1 # 1 /\ k + 1 - 1 = k
        BY <1>1, <3>3
      <4>2. fl[k] = f[k]
        BY <2>6, <4>1
      <4>3. f[k + 1] = IF k + 1 = 1 THEN s[k + 1] ELSE f[k + 1 - 1] \o s[k + 1]
        BY <2>2
      <4> QED
        BY <3>1, <4>1, <4>2, <4>3, Zenon
    <3> QED
      BY <3>2, <3>3
  <2>7. 0 \in S
    OBVIOUS
  <2>8. n \in S
    <3> HIDE DEF S
    <3> QED
      BY <1>1, <2>6, <2>7, SetInduction
  <2> QED
    BY <1>1, <1>3, <2>1, <2>8 DEF n
<1> QED
  BY <1>2, <1>3

LEMMA FlattenEmpty == FlattenSeq(<<>>) = <<>>
  BY DEF FlattenSeq

LEMMA FlattenType ==
  ASSUME NEW T, NEW s \in Seq(Seq(T))
  PROVE  FlattenSeq(s) \in Seq(T)
<1>1. PICK f : Partial(f, s, T)
  BY PartialExists
<1>2. FlattenSeq(s) = f[Len(s)]
  BY <1>1, FlattenByParts
<1>3. Len(s) \in 0..Len(s)
  OBVIOUS
<1> QED
  BY <1>1, <1>2, <1>3 DEF Partial

LEMMA FlattenAppend ==
  ASSUME NEW T, NEW s \in Seq(Seq(T)), NEW x \in Seq(T)
  PROVE  FlattenSeq(Append(s, x)) = FlattenSeq(s) \o x
<1> DEFINE t == Append(s, x)
           n == Len(s)
<1>1. /\ t \in Seq(Seq(T)) /\ n \in Nat /\ Len(t) = n + 1
      /\ t[n + 1] = x /\ \A i \in 1..n : t[i] = s[i]
  OBVIOUS
<1> HIDE DEF t
<1>2. PICK f : Partial(f, t, T)
  BY <1>1, PartialExists
<1>3. /\ f \in [0..(n + 1) -> Seq(T)] /\ f[0] = <<>>
      /\ \A i \in 1..(n + 1) : f[i] = f[i - 1] \o t[i]
  BY <1>1, <1>2 DEF Partial
<1> DEFINE g == [i \in 0..n |-> f[i]]
<1>4. g \in [0..n -> Seq(T)] /\ g[0] = <<>> /\ \A i \in 1..n : g[i] = g[i - 1] \o s[i]
  <2> HIDE DEF n
  <2>1. \A i \in 1..n : i - 1 \in 0..n /\ i \in 0..n /\ i \in 1..(n + 1)
    BY <1>1
  <2>2. \A i \in 0..n : i \in 0..(n + 1) /\ g[i] = f[i]
    BY <1>1
  <2>3. g \in [0..n -> Seq(T)]
    BY <1>3, <2>2
  <2>4. 0 \in 0..n
    BY <1>1
  <2>5. \A i \in 1..n : f[i] = f[i - 1] \o s[i]
    BY <1>1, <1>3, <2>1
  <2> HIDE DEF g
  <2> QED
    BY <1>3, <2>1, <2>2, <2>3, <2>4, <2>5
<1>5. Partial(g, s, T) /\ g[n] = f[n]
  <2>1. n \in 0..n
    BY <1>1
  <2>2. g[n] = f[n]
    BY <2>1
  <2> HIDE DEF g
  <2> QED
    BY <1>4, <2>2 DEF Partial
<1> HIDE DEF g
<1>6. FlattenSeq(s) = f[n] /\ FlattenSeq(t) = f[n + 1]
  BY <1>1, <1>2, <1>5, FlattenByParts
<1>7. f[n + 1] = f[n] \o x
  <2> HIDE DEF n
  <2>1. n + 1 \in 1..(n + 1) /\ (n + 1) - 1 = n
    BY <1>1
  <2> QED
    BY <1>1, <1>3, <2>1
<1> QED
  BY <1>6, <1>7 DEF t

-----------------------------------------------------------------------------
(* Sequences of anything                                                   *)

IsSequence(s) == \E S : s \in Seq(S)

LEMMA AppendAny ==
  ASSUME NEW s, IsSequence(s), NEW x
  PROVE  /\ IsSequence(Append(s, x)) /\ Len(s) \in Nat /\ Len(Append(s, x)) = Len(s) + 1
         /\ Append(s, x)[Len(s) + 1] = x /\ \A i \in 1..Len(s) : Append(s, x)[i] = s[i]
         /\ Append(s, x) # <<>>
<1>1. PICK S : s \in Seq(S)
  BY DEF IsSequence
<1>2. s \in Seq(S \cup {x})
  BY <1>1
<1>3. Append(s, x) \in Seq(S \cup {x})
  BY <1>2
<1> QED
  BY <1>2, <1>3 DEF IsSequence

LEMMA FrontAny ==
  ASSUME NEW s, IsSequence(s), s # <<>>
  PROVE  /\ IsSequence(Front(s)) /\ Len(s) \in Nat \ {0} /\ Len(Front(s)) = Len(s) - 1
         /\ \A i \in 1..Len(Front(s)) : Front(s)[i] = s[i]
<1>1. PICK S : s \in Seq(S)
  BY DEF IsSequence
<1>2. Len(s) \in Nat \ {0}
  BY <1>1
<1>3. /\ SubSeq(s, 1, Len(s) - 1) \in Seq(S) /\ Len(SubSeq(s, 1, Len(s) - 1)) = Len(s) - 1
      /\ \A i \in 1..(Len(s) - 1) : SubSeq(s, 1, Len(s) - 1)[i] = s[i]
  <2>1. \A i \in 1..(Len(s) - 1) : s[i] \in S
    BY <1>1, <1>2
  <2> DEFINE n == Len(s) - 1
  <2>2. n \in Nat /\ 1 \in Int
    BY <1>2
  <2> HIDE DEF n
  <2>3. SubSeq(s, 1, n) \in Seq(S) /\ Len(SubSeq(s, 1, n)) = (IF 1 <= n THEN n - 1 + 1 ELSE 0)
        /\ \A i \in 1..(n - 1 + 1) : SubSeq(s, 1, n)[i] = s[1 + i - 1]
    BY <2>1, <2>2, SubSeqProperties DEF n
  <2>4. Len(SubSeq(s, 1, n)) = n
    BY <2>2, <2>3
  <2>5. \A i \in 1..n : SubSeq(s, 1, n)[i] = s[i]
    <3>1. n - 1 + 1 = n /\ \A i \in 1..n : 1 + i - 1 = i
      BY <2>2
    <3> QED
      BY <2>3, <3>1
  <2> QED
    BY <2>3, <2>4, <2>5 DEF n
<1> QED
  BY <1>2, <1>3 DEF IsSequence, Front

LEMMA RemoveAtAny ==
  ASSUME NEW s, IsSequence(s), NEW k \in 1..Len(s)
  PROVE  /\ IsSequence(RemoveAt(s, k)) /\ Len(s) \in Nat /\ Len(RemoveAt(s, k)) = Len(s) - 1
         /\ \A i \in 1..Len(RemoveAt(s, k)) : RemoveAt(s, k)[i] = IF i < k THEN s[i] ELSE s[i + 1]
<1>1. PICK S : s \in Seq(S)
  BY DEF IsSequence
<1> DEFINE a == SubSeq(s, 1, k - 1)
           z == SubSeq(s, k + 1, Len(s))
<1>2. /\ a \in Seq(S) /\ Len(a) = k - 1 /\ \A i \in 1..Len(a) : a[i] = s[i]
  BY <1>1
<1>3. /\ z \in Seq(S) /\ Len(z) = Len(s) - k /\ \A i \in 1..Len(z) : z[i] = s[k + i]
  BY <1>1
<1>4. k \in Nat \ {0} /\ Len(s) \in Nat /\ k <= Len(s)
  BY <1>1
<1>5. RemoveAt(s, k) = a \o z
  BY DEF RemoveAt
<1> HIDE DEF a, z
<1>6. /\ a \o z \in Seq(S) /\ Len(a \o z) = Len(a) + Len(z)
      /\ \A i \in 1..Len(a \o z) : (a \o z)[i] = IF i <= Len(a) THEN a[i] ELSE z[i - Len(a)]
  <2>1. Len(a \o z) = Len(a) + Len(z) /\ a \o z \in Seq(S)
    BY <1>2, <1>3, ConcatProperties
  <2>2. \A i \in 1..(Len(a) + Len(z)) : (a \o z)[i] = IF i <= Len(a) THEN a[i] ELSE z[i - Len(a)]
    BY <1>2, <1>3, ConcatProperties
  <2> QED
    BY <2>1, <2>2
<1>7. Len(a \o z) = Len(s) - 1
  BY <1>2, <1>3, <1>4, <1>6
<1>8. ASSUME NEW i \in 1..Len(a \o z) PROVE (a \o z)[i] = IF i < k THEN s[i] ELSE s[i + 1]
  <2>1. CASE i < k
    BY <1>2, <1>4, <1>6, <1>7, <2>1
  <2>2. CASE ~(i < k)
    <3>1. i - (k - 1) \in 1..Len(z) /\ ~(i <= k - 1) /\ k + (i - (k - 1)) = i + 1
      BY <1>3, <1>4, <1>7, <2>2
    <3> QED
      BY <1>2, <1>3, <1>6, <2>2, <3>1
  <2> QED
    BY <2>1, <2>2
<1> QED
  BY <1>4, <1>5, <1>6, <1>7, <1>8 DEF IsSequence

LEMMA AppendConcat ==
  ASSUME NEW T, NEW p \in Seq(T), NEW q \in Seq(T), NEW x \in T
  PROVE  p \o Append(q, x) = Append(p \o q, x)
<1> DEFINE l == Append(p \o q, x)
           r == p \o Append(q, x)
           m == Len(p)
           n == Len(q)
<1>1. p \o q \in Seq(T) /\ Append(q, x) \in Seq(T) /\ m \in Nat /\ n \in Nat
      /\ Len(p \o q) = m + n /\ Len(Append(q, x)) = n + 1
  OBVIOUS
<1>2. l \in Seq(T) /\ Len(l) = m + n + 1 /\ l[m + n + 1] = x
      /\ \A i \in 1..(m + n) : l[i] = (p \o q)[i]
  BY <1>1
<1>3. r \in Seq(T) /\ Len(r) = m + (n + 1)
  BY <1>1
<1>4. \A i \in 1..m : r[i] = p[i] /\ (p \o q)[i] = p[i]
  BY <1>1
<1>5. \A i \in (m + 1)..(m + n) : (p \o q)[i] = q[i - m]
  BY <1>1
<1>6. \A i \in (m + 1)..(m + n + 1) : r[i] = Append(q, x)[i - m]
  BY <1>1
<1>7. Append(q, x)[n + 1] = x /\ \A i \in 1..n : Append(q, x)[i] = q[i]
  OBVIOUS
<1> HIDE DEF l, r, m, n
<1>8. ASSUME NEW i \in 1..(m + n + 1) PROVE l[i] = r[i]
  <2>1. CASE i \in 1..m
    BY <1>1, <1>2, <1>4, <2>1
  <2>2. CASE i \in (m + 1)..(m + n)
    <3>1. i - m \in 1..n /\ i \in 1..(m + n) /\ i \in (m + 1)..(m + n + 1)
      BY <1>1, <2>2
    <3> QED
      BY <1>2, <1>5, <1>6, <1>7, <2>2, <3>1
  <2>3. CASE i = m + n + 1
    <3>1. i - m = n + 1 /\ i \in (m + 1)..(m + n + 1)
      BY <1>1, <2>3
    <3> QED
      BY <1>2, <1>6, <1>7, <2>3, <3>1
  <2> QED
    BY <1>1, <2>1, <2>2, <2>3
<1>9. Len(l) = Len(r) /\ Len(l) = m + n + 1
  BY <1>1, <1>2, <1>3
<1>10. l = r
  BY <1>2, <1>3, <1>8, <1>9
<1> QED
  BY <1>10 DEF l, r

\* The first i elements, and the next.
First(s, i) == SubSeq(s, 1, i)

LEMMA FirstProperties ==
  ASSUME NEW T, NEW s \in Seq(T), NEW i \in 0..Len(s)
  PROVE  First(s, i) \in Seq(T) /\ Len(First(s, i)) = i /\ \A j \in 1..i : First(s, i)[j] = s[j]
<1>1. Len(s) \in Nat /\ i \in Nat
  OBVIOUS
<1>2. \A j \in 1..i : s[j] \in T
  BY <1>1
<1>3. First(s, i) \in Seq(T) /\ Len(First(s, i)) = (IF 1 <= i THEN i - 1 + 1 ELSE 0)
      /\ \A j \in 1..(i - 1 + 1) : First(s, i)[j] = s[1 + j - 1]
  BY <1>1, <1>2, SubSeqProperties DEF First
<1>4. i - 1 + 1 = i /\ \A j \in 1..i : 1 + j - 1 = j
  BY <1>1
<1>5. Len(First(s, i)) = i
  BY <1>1, <1>3, <1>4
<1> QED
  BY <1>3, <1>4, <1>5

LEMMA FirstGrows ==
  ASSUME NEW T, NEW s \in Seq(T), NEW i \in Nat, i + 1 \in 1..Len(s)
  PROVE  First(s, i + 1) = Append(First(s, i), s[i + 1])
<1> DEFINE l == First(s, i + 1)
           r == Append(First(s, i), s[i + 1])
<1>1. i \in 0..Len(s) /\ i + 1 \in 0..Len(s) /\ s[i + 1] \in T
  OBVIOUS
<1>2. l \in Seq(T) /\ Len(l) = i + 1 /\ \A j \in 1..(i + 1) : l[j] = s[j]
  BY <1>1, FirstProperties
<1>3. First(s, i) \in Seq(T) /\ Len(First(s, i)) = i /\ \A j \in 1..i : First(s, i)[j] = s[j]
  BY <1>1, FirstProperties
<1>4. r \in Seq(T) /\ Len(r) = i + 1 /\ r[i + 1] = s[i + 1] /\ \A j \in 1..i : r[j] = First(s, i)[j]
  BY <1>1, <1>3
<1> HIDE DEF l, r
<1>5. \A j \in 1..(i + 1) : j \in 1..i \/ j = i + 1
  OBVIOUS
<1>6. \A j \in 1..(i + 1) : l[j] = r[j]
  BY <1>2, <1>3, <1>4, <1>5
<1>7. l = r
  BY <1>2, <1>4, <1>6
<1> QED
  BY <1>7 DEF l, r

LEMMA FirstWhole ==
  ASSUME NEW T, NEW s \in Seq(T)
  PROVE  First(s, Len(s)) = s /\ First(s, 0) = <<>>
<1>1. Len(s) \in 0..Len(s) /\ 0 \in 0..Len(s)
  OBVIOUS
<1>2. First(s, Len(s)) \in Seq(T) /\ Len(First(s, Len(s))) = Len(s)
      /\ \A j \in 1..Len(s) : First(s, Len(s))[j] = s[j]
  BY <1>1, FirstProperties
<1>3. First(s, 0) \in Seq(T) /\ Len(First(s, 0)) = 0
  BY <1>1, FirstProperties
<1> DEFINE w == First(s, Len(s))
<1> HIDE DEF w
<1>4. w = s
  BY <1>2 DEF w
<1> QED
  BY <1>3, <1>4 DEF w

LEMMA FlattenSingles ==
  ASSUME NEW T, NEW s \in Seq(T)
  PROVE  FlattenSeq([i \in DOMAIN s |-> <<s[i]>>]) = s
<1> DEFINE parts == [i \in DOMAIN s |-> <<s[i]>>]
           n == Len(s)
           f == [i \in 0..n |-> First(s, i)]
<1>1. n \in Nat /\ parts \in Seq(Seq(T)) /\ Len(parts) = n /\ \A i \in 1..n : parts[i] = <<s[i]>>
  <2>1. DOMAIN s = 1..n /\ n \in Nat /\ \A i \in 1..n : s[i] \in T
    OBVIOUS
  <2>2. \A i \in 1..n : <<s[i]>> \in Seq(T)
    BY <2>1
  <2> DEFINE A == Seq(T)
             one == [i \in 1..n |-> <<s[i]>>]
  <2> HIDE DEF A, n
  <2>3. one \in Seq(A) /\ Len(one) = n /\ \A i \in 1..n : one[i] = <<s[i]>>
    BY <2>1, <2>2 DEF A
  <2>4. parts = one
    BY <2>1
  <2> QED
    BY <2>1, <2>3, <2>4 DEF A
<1>2. f \in [0..n -> Seq(T)] /\ f[0] = <<>> /\ f[n] = s
  BY FirstProperties, FirstWhole
<1>3. \A i \in 0..n : f[i] = First(s, i)
  OBVIOUS
<1> HIDE DEF f, parts
<1>4. ASSUME NEW i \in 1..n PROVE f[i] = f[i - 1] \o parts[i]
  <2>1. i - 1 \in Nat /\ (i - 1) + 1 = i /\ i - 1 \in 0..n /\ i \in 0..n
    BY <1>1
  <2>2. First(s, (i - 1) + 1) = Append(First(s, i - 1), s[(i - 1) + 1])
    BY <2>1, FirstGrows
  <2>3. First(s, i - 1) \in Seq(T) /\ s[i] \in T
    BY <2>1, FirstProperties
  <2>4. \A p \in Seq(T) : \A x \in T : Append(p, x) = p \o <<x>>
    OBVIOUS
  <2>5. Append(First(s, i - 1), s[i]) = First(s, i - 1) \o <<s[i]>>
    BY <2>3, <2>4
  <2> QED
    BY <1>1, <1>3, <2>1, <2>2, <2>5
<1>5. Partial(f, parts, T)
  BY <1>1, <1>2, <1>4 DEF Partial
<1>6. FlattenSeq(parts) = f[n]
  BY <1>1, <1>5, FlattenByParts
<1> QED
  BY <1>2, <1>6 DEF parts

LEMMA SeqSubset == \A S, T : S \subseteq T => \A s \in Seq(S) : s \in Seq(T)
  OBVIOUS
=============================================================================
