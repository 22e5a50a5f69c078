--------------------------- MODULE SequenceLemmas ---------------------------
(***************************************************************************)
(* Induction over the naturals, stated for a set instead of a predicate,   *)
(* recursion from a step function, and what the concatenation of a         *)
(* sequence of sequences is, for sequences of any length; the places of a   *)
(* ring.                                                                    *)
(***************************************************************************)
EXTENDS Integers, Sequences, TLAPS

LOCAL WF == INSTANCE WellFoundedInduction
-----------------------------------------------------------------------------
(* What the operators of Sequences return. *)

\* A sequence is a function on an initial piece of the positive numbers.
LEMMA SeqDef == \A S : Seq(S) = UNION {[1 .. n -> S] : n \in Nat}
OBVIOUS

\* Every place of a sequence holds one of its values.
LEMMA ElementOfSeq ==
  ASSUME NEW S, NEW x \in Seq(S), NEW k \in 1 .. Len(x)
  PROVE  x[k] \in S
OBVIOUS

\* A sequence over a set is one over any larger set.
LEMMA SeqMonotonic ==
  ASSUME NEW S, NEW W, S \subseteq W, NEW x \in Seq(S)
  PROVE  x \in Seq(W)
OBVIOUS

\* Sequences that agree on their length and at every place are equal.
LEMMA SeqEqual ==
  ASSUME NEW S, NEW x \in Seq(S), NEW y \in Seq(S), Len(x) = Len(y),
         \A k \in 1 .. Len(x) : x[k] = y[k]
  PROVE  x = y
OBVIOUS

\* Append puts one more value behind the others.
LEMMA AppendProperties ==
  ASSUME NEW S, NEW x \in Seq(S), NEW e \in S
  PROVE  /\ Append(x, e) \in Seq(S) /\ Append(x, e) # <<>>
         /\ Len(Append(x, e)) = Len(x) + 1 /\ Append(x, e)[Len(x) + 1] = e
         /\ \A k \in 1 .. Len(x) : Append(x, e)[k] = x[k]
OBVIOUS

\* Concatenation puts the values of one sequence behind those of another.
LEMMA ConcatProperties ==
  ASSUME NEW S, NEW x \in Seq(S), NEW y \in Seq(S)
  PROVE  /\ x \o y \in Seq(S) /\ Len(x \o y) = Len(x) + Len(y)
         /\ \A k \in 1 .. Len(x) + Len(y) :
              (x \o y)[k] = IF k <= Len(x) THEN x[k] ELSE y[k - Len(x)]
OBVIOUS

\* The empty sequence adds nothing.
LEMMA ConcatEmptySeq ==
  ASSUME NEW S, NEW x \in Seq(S)
  PROVE  <<>> \o x = x /\ x \o <<>> = x
OBVIOUS

\* Only the empty sequence adds nothing.
LEMMA ConcatNotEmpty ==
  ASSUME NEW S, NEW x \in Seq(S), NEW y \in Seq(S), x # <<>>
  PROVE  x \o y # <<>>
OBVIOUS

\* Append is concatenation with one value.
LEMMA AppendIsConcat ==
  ASSUME NEW S, NEW x \in Seq(S), NEW e \in S
  PROVE  x \o <<e>> = Append(x, e)
OBVIOUS

\* What is left behind the first value.
LEMMA HeadTailProperties ==
  ASSUME NEW S, NEW x \in Seq(S), x # <<>>
  PROVE  /\ Head(x) \in S /\ Tail(x) \in Seq(S) /\ Len(Tail(x)) = Len(x) - 1
         /\ \A k \in 1 .. Len(Tail(x)) : Tail(x)[k] = x[k + 1]
OBVIOUS

\* Every sequence but the empty one has a last value.
LEMMA SequenceEmptyOrAppend ==
  ASSUME NEW S, NEW x \in Seq(S), x # <<>>
  PROVE  \E y \in Seq(S) : \E e \in S : x = Append(y, e)
<1> DEFINE y == [k \in 1 .. Len(x) - 1 |-> x[k]]
<1>1. y \in Seq(S) /\ x[Len(x)] \in S /\ Len(y) = Len(x) - 1 /\ \A k \in 1 .. Len(x) - 1 : y[k] = x[k]
  OBVIOUS
<1> HIDE DEF y
<1>2. x = Append(y, x[Len(x)])
  BY <1>1
<1> QED
  BY Zenon, <1>1, <1>2

\* What is left behind the first value, when a value was appended.
LEMMA TailAppend ==
  ASSUME NEW S, NEW x \in Seq(S), NEW e \in S
  PROVE  Tail(Append(x, e)) = IF x = <<>> THEN <<>> ELSE Append(Tail(x), e)
<1>1. CASE x = <<>>
  BY <1>1
<1>2. CASE x # <<>>
  <2>1. /\ Tail(x) \in Seq(S) /\ Len(Tail(x)) = Len(x) - 1 /\ Len(x) \in Nat \ {0}
        /\ \A k \in 1 .. Len(x) - 1 : Tail(x)[k] = x[k + 1]
    BY <1>2
  <2> DEFINE a == Append(x, e)
             l == Tail(a)
             r == Append(Tail(x), e)
  <2>a. /\ a \in Seq(S) /\ a # <<>> /\ Len(a) = Len(x) + 1 /\ a[Len(x) + 1] = e
        /\ \A k \in 1 .. Len(x) : a[k] = x[k]
    OBVIOUS
  <2>b. /\ r \in Seq(S) /\ Len(r) = Len(Tail(x)) + 1 /\ r[Len(Tail(x)) + 1] = e
        /\ \A k \in 1 .. Len(Tail(x)) : r[k] = Tail(x)[k]
    BY <2>1, AppendProperties
  <2> HIDE DEF a, r
  <2>2. l \in Seq(S) /\ Len(l) = Len(a) - 1 /\ \A k \in 1 .. Len(l) : l[k] = a[k + 1]
    BY Zenon, <2>a, HeadTailProperties
  <2> HIDE DEF l
  <2>3. Len(l) = Len(x) /\ Len(r) = Len(x)
    BY <2>1, <2>2, <2>a, <2>b
  <2>4. \A k \in 1 .. Len(x) : l[k] = r[k]
    <3> SUFFICES ASSUME NEW k \in 1 .. Len(x) PROVE l[k] = r[k]
      OBVIOUS
    <3>1. CASE k = Len(x)
      BY ONLY <3>1, <2>1, <2>2, <2>3, <2>a, <2>b
    <3>2. CASE k # Len(x)
      <4>1. k \in 1 .. Len(x) - 1 /\ k \in 1 .. Len(Tail(x)) /\ k \in 1 .. Len(l) /\ k + 1 \in 1 .. Len(x)
        BY ONLY <3>2, <2>1, <2>3, k \in 1 .. Len(x)
      <4> QED
        BY Zenon, <4>1, <2>1, <2>2, <2>a, <2>b
    <3> QED
      BY Zenon, <3>1, <3>2
  <2>5. l = r
    BY Zenon, <2>2, <2>3, <2>4, <2>b, SeqEqual
  <2> QED
    BY Zenon, <1>2, <2>5 DEF l, a, r
<1> QED
  BY Zenon, <1>1, <1>2
-----------------------------------------------------------------------------
(* Induction over the naturals. *)

\* A set of naturals that is not empty has a least element.
LEMMA LeastNatural ==
  ASSUME NEW T, T \subseteq Nat, T # {}
  PROVE  \E x \in T : \A y \in T : x <= y
<1>1. WF!IsWellFoundedOn(WF!OpToRel(<, Nat), Nat)
  BY Zenon, WF!NatLessThanWellFounded
<1>2. PICK x \in T : \A y \in T : ~ (<<y, x>> \in WF!OpToRel(<, Nat))
  BY Zenon, <1>1, WF!WFMin
<1>3. \A y \in T : ~(y < x)
  BY Zenon, <1>2 DEF WF!OpToRel
<1> QED
  BY <1>3

\* A set that contains 0 and the successor of each of its naturals contains
\* them all.
LEMMA SetInduction ==
  ASSUME NEW S, 0 \in S, \A n \in Nat : n \in S => n + 1 \in S
  PROVE  Nat \subseteq S
<1> SUFFICES ASSUME Nat \ S # {}
             PROVE  FALSE
  OBVIOUS
<1>1. PICK x \in Nat \ S : \A y \in Nat \ S : x <= y
  BY Zenon, LeastNatural
<1>2. x # 0 /\ x - 1 \in Nat /\ x - 1 \notin S
  BY <1>1
<1> QED
  BY <1>1, <1>2

\* A sequence with one element replaced.
LEMMA Replaced ==
  ASSUME NEW S, NEW q \in Seq(S), NEW n \in 1 .. Len(q), NEW x \in S,
         NEW r, r = [q EXCEPT ![n] = x]
  PROVE  /\ r \in Seq(S) /\ Len(r) = Len(q)
         /\ \A i \in 1 .. Len(q) : r[i] = IF i = n THEN x ELSE q[i]
OBVIOUS

\* Taking a concatenation apart.
LEMMA SplitConcat ==
  ASSUME NEW S, NEW x \in Seq(S), NEW y \in Seq(S)
  PROVE  /\ SubSeq(x \o y, 1, Len(x)) = x
         /\ SubSeq(x \o y, Len(x) + 1, Len(x \o y)) = y
         /\ Len(x \o y) = Len(x) + Len(y)
<1> DEFINE c == x \o y
           l == SubSeq(c, 1, Len(x))
           r == SubSeq(c, Len(x) + 1, Len(c))
<1>1. /\ c \in Seq(S) /\ Len(c) = Len(x) + Len(y) /\ Len(x) \in Nat /\ Len(y) \in Nat
      /\ \A i \in 1 .. Len(x) + Len(y) : c[i] = IF i <= Len(x) THEN x[i] ELSE y[i - Len(x)]
  BY ConcatProperties
<1> HIDE DEF c
<1>2. l = x
  <2>1. l \in Seq(S) /\ Len(l) = Len(x) /\ \A i \in 1 .. Len(x) : l[i] = x[i]
    BY <1>1
  <2> QED
    BY Zenon, <2>1, SeqEqual
<1>3. r = y
  <2>1. r \in Seq(S) /\ Len(r) = Len(y)
    BY <1>1
  <2>2. ASSUME NEW i \in 1 .. Len(y)
        PROVE  r[i] = y[i]
    <3>1. r[i] = c[Len(x) + i]
      BY <1>1
    <3>2. Len(x) + i \in 1 .. Len(x) + Len(y) /\ ~(Len(x) + i <= Len(x)) /\ Len(x) + i - Len(x) = i
      BY <1>1
    <3> QED
      BY <1>1, <3>1, <3>2
  <2> QED
    BY Zenon, <2>1, <2>2, SeqEqual
<1> QED
  BY Zenon, <1>1, <1>2, <1>3 DEF c

\* The places of a concatenation.
LEMMA ConcatPlaces ==
  ASSUME NEW S, NEW x \in Seq(S), NEW y \in Seq(S)
  PROVE  /\ \A k \in DOMAIN x : k \in DOMAIN (x \o y) /\ (x \o y)[k] = x[k]
         /\ \A k \in DOMAIN y : Len(x) + k \in DOMAIN (x \o y) /\ (x \o y)[Len(x) + k] = y[k]
         /\ \A k \in DOMAIN (x \o y) : k \in DOMAIN x \/ \E j \in DOMAIN y : k = Len(x) + j
         /\ \A j \in DOMAIN x, k \in DOMAIN y : j # Len(x) + k
         /\ \A j, k \in DOMAIN y : Len(x) + j = Len(x) + k => j = k
<1>1. /\ DOMAIN x = 1 .. Len(x) /\ DOMAIN y = 1 .. Len(y) /\ Len(x) \in Nat /\ Len(y) \in Nat
      /\ DOMAIN (x \o y) = 1 .. Len(x) + Len(y)
  OBVIOUS
<1>2. \A k \in DOMAIN (x \o y) : k \in DOMAIN x \/ \E j \in DOMAIN y : k = Len(x) + j
  <2> SUFFICES ASSUME NEW k \in 1 .. Len(x) + Len(y), k \notin 1 .. Len(x)
               PROVE  \E j \in 1 .. Len(y) : k = Len(x) + j
    BY Zenon, <1>1
  <2>1. k - Len(x) \in 1 .. Len(y) /\ k = Len(x) + (k - Len(x))
    BY <1>1
  <2> QED
    BY <2>1
<1> QED
  BY <1>1, <1>2
-----------------------------------------------------------------------------
(* Recursion. *)

\* f[i] comes from s by the functions G[1] .. G[i], one after the other.
Steps(f, s, n, G) == f[0] = s /\ \A i \in 1 .. n : f[i] = G[i][f[i - 1]]

\* Where f agrees with h, it agrees at the next place.
Follows(f, h, n) == f[0] = h[0] /\ \A i \in 1 .. n : f[i - 1] = h[i - 1] => f[i] = h[i]

\* The functions can be applied.
LEMMA StepsExist ==
  ASSUME NEW V, NEW s \in V, NEW n \in Nat, NEW G \in [1 .. n -> [V -> V]]
  PROVE  \E f \in [0 .. n -> V] : Steps(f, s, n, G)
<1> DEFINE Up(m, f) == f[0] = s /\ \A i \in 1 .. m : f[i] = G[i][f[i - 1]]
           Done == {m \in Nat : m <= n => \E f \in [0 .. m -> V] : Up(m, f)}
<1>1. 0 \in Done
  <2>1. [i \in 0 .. 0 |-> s] \in [0 .. 0 -> V] /\ Up(0, [i \in 0 .. 0 |-> s])
    OBVIOUS
  <2> HIDE DEF Up
  <2> QED
    BY <2>1
<1>2. ASSUME NEW m \in Nat, m \in Done
      PROVE  m + 1 \in Done
  <2>n. m + 1 \in Nat
    OBVIOUS
  <2> SUFFICES ASSUME m + 1 <= n
               PROVE  \E f \in [0 .. m + 1 -> V] : Up(m + 1, f)
    BY Zenon, <2>n
  <2>0. m <= n
    OBVIOUS
  <2>1. PICK f \in [0 .. m -> V] : Up(m, f)
    BY Zenon, <1>2, <2>0
  <2> DEFINE last == G[m + 1][f[m]]
             g == [i \in 0 .. m + 1 |-> IF i = m + 1 THEN last ELSE f[i]]
  <2>2. last \in V
    <3>1. m + 1 \in 1 .. n /\ m \in 0 .. m
      OBVIOUS
    <3> QED
      BY Zenon, <2>1, <3>1
  <2>3. f[0] = s /\ \A i \in 1 .. m : f[i] = G[i][f[i - 1]]
    BY Zenon, <2>1
  <2> HIDE DEF last, Done, Up
  <2>4. g \in [0 .. m + 1 -> V]
    BY <2>1, <2>2
  <2>5. g[0] = s
    BY <2>3
  <2>6. ASSUME NEW i \in 1 .. m + 1
        PROVE  g[i] = G[i][g[i - 1]]
    <3>1. CASE i = m + 1
      <4>1. g[i] = last /\ i - 1 = m /\ g[m] = f[m]
        BY <3>1
      <4> HIDE DEF g
      <4> QED
        BY Zenon, <3>1, <4>1 DEF last
    <3>2. CASE i # m + 1
      <4>1. i \in 1 .. m /\ g[i] = f[i] /\ g[i - 1] = f[i - 1]
        BY <3>2
      <4> HIDE DEF g
      <4> QED
        BY Zenon, <2>3, <4>1
    <3> QED
      BY Zenon, <3>1, <3>2
  <2> HIDE DEF g
  <2>7. Up(m + 1, g)
    BY Zenon, <2>5, <2>6 DEF Up
  <2> QED
    BY Zenon, <2>4, <2>7
<1> HIDE DEF Done
<1>3. Nat \subseteq Done
  BY Zenon, <1>1, <1>2, SetInduction
<1>4. n \in Done /\ n <= n
  BY <1>3
<1> QED
  BY Zenon, <1>4 DEF Done, Steps

\* A function that follows another is the same.
LEMMA StepsAgree ==
  ASSUME NEW n \in Nat, NEW f, NEW h, Follows(f, h, n)
  PROVE  \A i \in 0 .. n : f[i] = h[i]
<1> DEFINE Differ == {i \in 0 .. n : f[i] # h[i]}
<1> SUFFICES ASSUME Differ # {}
             PROVE  FALSE
  BY Zenon
<1>1. Differ \subseteq Nat
  OBVIOUS
<1>2. PICK x \in Differ : \A y \in Differ : x <= y
  BY Zenon, <1>1, LeastNatural
<1>3. x # 0
  BY Zenon, <1>2 DEF Follows
<1>4. x \in 1 .. n /\ x - 1 \in 0 .. n /\ ~(x <= x - 1)
  BY <1>2, <1>3
<1>5. x - 1 \notin Differ
  BY Zenon, <1>2, <1>4
<1> QED
  BY Zenon, <1>2, <1>4, <1>5 DEF Follows
-----------------------------------------------------------------------------
(* The concatenation of a sequence of sequences. *)

Joined(seqs) ==
  LET upTo[n \in 0 .. Len(seqs)] == IF n = 0 THEN <<>> ELSE upTo[n - 1] \o seqs[n]
  IN  upTo[Len(seqs)]

\* f[i] is the concatenation of the first i sequences.
Partial(q, f) == f[0] = <<>> /\ \A i \in 1 .. Len(q) : f[i] = f[i - 1] \o q[i]

\* The partial concatenations exist ...
LEMMA PartialExists ==
  ASSUME NEW S, NEW q \in Seq(Seq(S))
  PROVE  \E f \in [0 .. Len(q) -> Seq(S)] : Partial(q, f)
<1> DEFINE G == [i \in 1 .. Len(q) |-> [x \in Seq(S) |-> x \o q[i]]]
<1>1. Len(q) \in Nat /\ <<>> \in Seq(S) /\ \A i \in 1 .. Len(q) : q[i] \in Seq(S)
  OBVIOUS
<1>2. \A i \in 1 .. Len(q), x \in Seq(S) : x \o q[i] \in Seq(S)
  BY <1>1
<1>3. G \in [1 .. Len(q) -> [Seq(S) -> Seq(S)]]
  BY Zenon, <1>2
<1>4. \A i \in 1 .. Len(q), x \in Seq(S) : G[i][x] = x \o q[i]
  BY Zenon
<1> HIDE DEF G
<1>5. PICK f \in [0 .. Len(q) -> Seq(S)] : f[0] = <<>> /\ \A i \in 1 .. Len(q) : f[i] = G[i][f[i - 1]]
  <2>1. PICK n \in Nat, s \in Seq(S) : n = Len(q) /\ s = <<>>
    BY Zenon, <1>1
  <2>2. G \in [1 .. n -> [Seq(S) -> Seq(S)]]
    BY Zenon, <1>3, <2>1
  <2>3. \E f \in [0 .. n -> Seq(S)] : Steps(f, s, n, G)
    BY Zenon, <2>2, StepsExist
  <2> QED
    BY Zenon, <2>1, <2>3 DEF Steps
<1>6. \A i \in 1 .. Len(q) : i - 1 \in 0 .. Len(q)
  BY <1>1
<1>7. \A i \in 1 .. Len(q) : f[i] = f[i - 1] \o q[i]
  BY Zenon, <1>4, <1>5, <1>6
<1> QED
  BY Zenon, <1>5, <1>7 DEF Partial

\* ... are determined, and the concatenation is the last one.
LEMMA JoinedIsPartial ==
  ASSUME NEW S, NEW q \in Seq(Seq(S)), NEW f \in [0 .. Len(q) -> Seq(S)], Partial(q, f)
  PROVE  Joined(q) = f[Len(q)]
<1> DEFINE Rec(g) == g = [n \in 0 .. Len(q) |-> IF n = 0 THEN <<>> ELSE g[n - 1] \o q[n]]
           h == CHOOSE g : Rec(g)
<1>1. Len(q) \in Nat /\ 0 \in 0 .. Len(q) /\ Len(q) \in 0 .. Len(q)
  OBVIOUS
<1>2. Joined(q) = h[Len(q)]
  BY Zenon DEF Joined
<1>3. \A i \in 0 .. Len(q) : i # 0 => i \in 1 .. Len(q)
  BY <1>1
<1>4. \A i \in 0 .. Len(q) : f[i] = IF i = 0 THEN <<>> ELSE f[i - 1] \o q[i]
  BY Zenon, <1>3 DEF Partial
<1>5. Rec(f)
  BY Zenon, <1>4
<1>6. Rec(h)
  BY Zenon, <1>5
<1> HIDE DEF h
<1>7. \A i \in 0 .. Len(q) : h[i] = IF i = 0 THEN <<>> ELSE h[i - 1] \o q[i]
  BY Zenon, <1>6
<1>8. h[0] = <<>> /\ \A i \in 1 .. Len(q) : h[i] = h[i - 1] \o q[i]
  <2>1. \A i \in 1 .. Len(q) : i \in 0 .. Len(q) /\ i # 0
    BY <1>1
  <2> QED
    BY Zenon, <1>1, <1>7, <2>1
<1>9. \A i \in 1 .. Len(q) : f[i - 1] = h[i - 1] => f[i] = h[i]
  BY Zenon, <1>8 DEF Partial
<1>10. \A i \in 0 .. Len(q) : f[i] = h[i]
  <2>1. PICK n \in Nat : n = Len(q)
    BY Zenon, <1>1
  <2>2. Follows(f, h, n)
    BY Zenon, <1>8, <1>9, <2>1 DEF Partial, Follows
  <2>3. \A i \in 0 .. n : f[i] = h[i]
    BY Zenon, <2>2, StepsAgree
  <2> QED
    BY Zenon, <2>1, <2>3
<1> QED
  BY Zenon, <1>1, <1>2, <1>10

\* The partial concatenations, and the value of the concatenation.
LEMMA JoinedPartial ==
  ASSUME NEW S, NEW q \in Seq(Seq(S))
  PROVE  \E f \in [0 .. Len(q) -> Seq(S)] : Partial(q, f) /\ Joined(q) = f[Len(q)]
BY Zenon, PartialExists, JoinedIsPartial

\* The concatenation of no sequences.
LEMMA JoinedEmpty == Joined(<<>>) = <<>>
<1>1. <<>> \in Seq(Seq({})) /\ Len(<<>>) = 0
  OBVIOUS
<1>2. PICK q \in Seq(Seq({})) : q = <<>>
  BY Zenon, <1>1
<1>3. PICK f \in [0 .. Len(q) -> Seq({})] : Partial(q, f) /\ Joined(q) = f[Len(q)]
  BY Zenon, JoinedPartial
<1> QED
  BY Zenon, <1>1, <1>2, <1>3 DEF Partial

\* The concatenation is a sequence of what the sequences consist of.
LEMMA JoinedType ==
  ASSUME NEW S, NEW q \in Seq(Seq(S))
  PROVE  Joined(q) \in Seq(S)
<1>1. Len(q) \in 0 .. Len(q)
  OBVIOUS
<1>2. PICK f \in [0 .. Len(q) -> Seq(S)] : Joined(q) = f[Len(q)]
  BY Zenon, JoinedPartial
<1> QED
  BY Zenon, <1>1, <1>2

\* A sequence added at the end is concatenated at the end.
LEMMA JoinedAppend ==
  ASSUME NEW S, NEW q \in Seq(Seq(S)), NEW s \in Seq(S)
  PROVE  Joined(Append(q, s)) = Joined(q) \o s
<1> DEFINE r == Append(q, s)
           n == Len(q)
<1>1. /\ r \in Seq(Seq(S)) /\ Len(r) = n + 1 /\ n \in Nat
      /\ r[n + 1] = s /\ \A i \in 1 .. n : r[i] = q[i]
  BY AppendProperties
<1> HIDE DEF r
<1>2. PICK g \in [0 .. n + 1 -> Seq(S)] : Partial(r, g) /\ Joined(r) = g[n + 1]
  <2>1. PICK g \in [0 .. Len(r) -> Seq(S)] : Partial(r, g) /\ Joined(r) = g[Len(r)]
    BY Zenon, <1>1, JoinedPartial
  <2> QED
    BY Zenon, <1>1, <2>1
<1>3. g[0] = <<>> /\ \A i \in 1 .. n + 1 : g[i] = g[i - 1] \o r[i]
  BY Zenon, <1>1, <1>2 DEF Partial
<1> DEFINE f == [i \in 0 .. n |-> g[i]]
<1>4. f \in [0 .. n -> Seq(S)]
  BY <1>1, <1>2
<1>5. f[0] = <<>> /\ f[n] = g[n]
  BY <1>1, <1>3
<1>6. ASSUME NEW i \in 1 .. n
      PROVE  f[i] = f[i - 1] \o q[i]
  <2>1. i \in 1 .. n + 1 /\ r[i] = q[i] /\ f[i] = g[i] /\ f[i - 1] = g[i - 1]
    BY <1>1
  <2> QED
    BY Zenon, <1>3, <2>1
<1> HIDE DEF f
<1>7. Partial(q, f)
  BY Zenon, <1>5, <1>6 DEF Partial
<1>8. Joined(q) = f[n]
  BY Zenon, <1>4, <1>7, JoinedIsPartial
<1>9. PICK m \in 1 .. n + 1 : m = n + 1
  BY <1>1
<1>10. m - 1 = n
  BY <1>1, <1>9
<1>11. g[n + 1] = g[n] \o s
  BY Zenon, <1>1, <1>3, <1>9, <1>10
<1> QED
  BY Zenon, <1>2, <1>5, <1>8, <1>11 DEF r

\* Extending the last sequence extends the concatenation.
LEMMA JoinedExtendLast ==
  ASSUME NEW S, NEW q \in Seq(Seq(S)), q # <<>>, NEW e \in S
  PROVE  Joined([q EXCEPT ![Len(q)] = Append(@, e)]) = Append(Joined(q), e)
<1>1. PICK p \in Seq(Seq(S)), s \in Seq(S) : q = Append(p, s)
  BY Zenon, SequenceEmptyOrAppend
<1>2. [q EXCEPT ![Len(q)] = Append(@, e)] = Append(p, Append(s, e))
  <2> DEFINE l == [q EXCEPT ![Len(q)] = Append(@, e)]
             r == Append(p, Append(s, e))
  <2>1. /\ Len(q) = Len(p) + 1 /\ Len(p) \in Nat /\ q[Len(p) + 1] = s
        /\ \A i \in 1 .. Len(p) : q[i] = p[i]
    BY <1>1, AppendProperties
  <2>2. Append(s, e) \in Seq(S)
    OBVIOUS
  <2>3. /\ r \in Seq(Seq(S)) /\ Len(r) = Len(p) + 1 /\ r[Len(p) + 1] = Append(s, e)
        /\ \A i \in 1 .. Len(p) : r[i] = p[i]
    BY <2>2, AppendProperties
  <2>4. Len(q) \in 1 .. Len(q) /\ q[Len(q)] = s
    BY <2>1
  <2>5. /\ l \in Seq(Seq(S)) /\ Len(l) = Len(q)
        /\ \A i \in 1 .. Len(q) : l[i] = IF i = Len(q) THEN Append(s, e) ELSE q[i]
    <3>1. l = [q EXCEPT ![Len(q)] = Append(s, e)]
      BY Zenon, <2>4
    <3> HIDE DEF l, r
    <3>2. PICK x \in Seq(S) : x = Append(s, e)
      BY Zenon, <2>2
    <3>3. l = [q EXCEPT ![Len(q)] = x]
      BY Zenon, <3>1, <3>2
    <3>4. /\ l \in Seq(Seq(S)) /\ Len(l) = Len(q)
          /\ \A i \in 1 .. Len(q) : l[i] = IF i = Len(q) THEN x ELSE q[i]
      BY <2>4, <3>3, Replaced
    <3> QED
      BY Zenon, <3>2, <3>4
  <2> HIDE DEF l, r
  <2>6. Len(l) = Len(r) /\ \A i \in 1 .. Len(l) : l[i] = r[i]
    <3>1. Len(l) = Len(p) + 1 /\ Len(r) = Len(p) + 1
      BY Zenon, <2>1, <2>3, <2>5
    <3>2. ASSUME NEW i \in 1 .. Len(p) + 1
          PROVE  l[i] = r[i]
      <4>1. i # Len(p) + 1 => i \in 1 .. Len(p)
        BY <2>1
      <4> QED
        BY Zenon, <2>1, <2>3, <2>5, <4>1
    <3> QED
      BY Zenon, <3>1, <3>2
  <2> QED
    BY Zenon, <2>3, <2>5, <2>6, SeqEqual DEF l, r
<1>3. Append(s, e) \in Seq(S) /\ Joined(p) \in Seq(S)
  BY JoinedType
<1>4. Joined(Append(p, Append(s, e))) = Joined(p) \o Append(s, e)
  BY Zenon, <1>3, JoinedAppend
<1>5. Joined(q) = Joined(p) \o s
  BY Zenon, <1>1, JoinedAppend
<1>6. Joined(p) \o Append(s, e) = Append(Joined(p) \o s, e)
  BY <1>3
<1> QED
  BY Zenon, <1>2, <1>4, <1>5, <1>6

\* The first sequence comes first.
LEMMA JoinedFirst ==
  ASSUME NEW S, NEW q \in Seq(Seq(S)), q # <<>>
  PROVE  Joined(q) = q[1] \o Joined(Tail(q))
<1> DEFINE Good == {n \in Nat : \A p \in Seq(Seq(S)) :
                      Len(p) = n + 1 => Joined(p) = p[1] \o Joined(Tail(p))}
<1>1. 0 \in Good
  <2> SUFFICES ASSUME NEW p \in Seq(Seq(S)), Len(p) = 1
               PROVE  Joined(p) = p[1] \o Joined(Tail(p))
    OBVIOUS
  <2>1. p = Append(<<>>, p[1]) /\ Tail(p) = <<>> /\ p[1] \in Seq(S) /\ <<>> \in Seq(Seq(S))
    <3>1. p # <<>>
      <4>1. Len(<<>>) = 0 /\ 0 # 1
        OBVIOUS
      <4> QED
        BY Zenon, <4>1
    <3>2. PICK o \in Seq(Seq(S)), t \in Seq(S) : p = Append(o, t)
      BY Zenon, <3>1, SequenceEmptyOrAppend
    <3>3. Len(o) = 0 /\ p[1] = t
      BY <3>2
    <3>4. o = <<>>
      BY <3>3
    <3>5. Tail(Append(o, t)) = IF o = <<>> THEN <<>> ELSE Append(Tail(o), t)
      BY Zenon, TailAppend
    <3> QED
      BY Zenon, <3>2, <3>3, <3>4, <3>5
  <2>2. Joined(Append(<<>>, p[1])) = Joined(<<>>) \o p[1]
    BY Zenon, <2>1, JoinedAppend
  <2>3. <<>> \o p[1] = p[1] /\ p[1] \o <<>> = p[1]
    BY Zenon, <2>1, ConcatEmptySeq
  <2> QED
    BY Zenon, <2>1, <2>2, <2>3, JoinedEmpty
<1>2. ASSUME NEW n \in Nat, n \in Good
      PROVE  n + 1 \in Good
  <2>n. n + 1 \in Nat
    OBVIOUS
  <2> SUFFICES ASSUME NEW p \in Seq(Seq(S)), Len(p) = n + 1 + 1
               PROVE  Joined(p) = p[1] \o Joined(Tail(p))
    BY Zenon, <2>n
  <2>1. p # <<>>
    OBVIOUS
  <2>2. PICK o \in Seq(Seq(S)), s \in Seq(S) : p = Append(o, s)
    BY Zenon, <2>1, SequenceEmptyOrAppend
  <2>3. Len(o) = n + 1 /\ o # <<>> /\ p[1] = o[1] /\ o[1] \in Seq(S)
    BY <2>2
  <2>4. Tail(p) = Append(Tail(o), s) /\ Tail(o) \in Seq(Seq(S))
    BY Zenon, <2>2, <2>3, TailAppend, HeadTailProperties
  <2>5. Joined(o) = o[1] \o Joined(Tail(o))
    BY Zenon, <1>2, <2>3
  <2>6. Joined(p) = Joined(o) \o s /\ Joined(Tail(p)) = Joined(Tail(o)) \o s
    BY Zenon, <2>2, <2>4, JoinedAppend
  <2>7. Joined(Tail(o)) \in Seq(S)
    BY Zenon, <2>4, JoinedType
  <2>8. (o[1] \o Joined(Tail(o))) \o s = o[1] \o (Joined(Tail(o)) \o s)
    <3>1. PICK h \in Seq(S), t \in Seq(S) : h = o[1] /\ t = Joined(Tail(o))
      BY Zenon, <2>3, <2>7
    <3>2. (h \o t) \o s = h \o (t \o s)
      BY ONLY s \in Seq(S), h \in Seq(S), t \in Seq(S), SMTT(60)
    <3> QED
      BY Zenon, <3>1, <3>2
  <2> QED
    BY Zenon, <2>3, <2>5, <2>6, <2>8
<1> HIDE DEF Good
<1>3. Nat \subseteq Good
  BY Zenon, <1>1, <1>2, SetInduction
<1>4. Len(q) - 1 \in Nat /\ Len(q) = Len(q) - 1 + 1
  OBVIOUS
<1> QED
  BY Zenon, <1>3, <1>4 DEF Good
-----------------------------------------------------------------------------
(* Places in a ring of n cells, d cells after cell f. *)

\* The place, without the remainder.
LEMMA RingValue ==
  ASSUME NEW n \in Nat \ {0}, NEW f \in 0 .. n - 1, NEW d \in 0 .. n
  PROVE  /\ (f + d) % n \in 0 .. n - 1
         /\ (f + d) % n = IF f + d < n THEN f + d ELSE f + d - n
OBVIOUS

\* Two distances below the size of the ring give two cells.
LEMMA RingInjective ==
  ASSUME NEW n \in Nat \ {0}, NEW f \in 0 .. n - 1, NEW d \in 0 .. n - 1, NEW e \in 0 .. n - 1,
         (f + d) % n = (f + e) % n
  PROVE  d = e
<1>1. d \in 0 .. n /\ e \in 0 .. n
  OBVIOUS
<1>2. /\ (f + d) % n = IF f + d < n THEN f + d ELSE f + d - n
      /\ (f + e) % n = IF f + e < n THEN f + e ELSE f + e - n
  BY <1>1, RingValue
<1>3. (IF f + d < n THEN f + d ELSE f + d - n) = (IF f + e < n THEN f + e ELSE f + e - n)
  BY Zenon, <1>2
<1> QED
  BY ONLY <1>3, n \in Nat, f \in 0 .. n - 1, d \in 0 .. n - 1, e \in 0 .. n - 1

\* Every cell is at some distance from f.
LEMMA RingSurjective ==
  ASSUME NEW n \in Nat \ {0}, NEW f \in 0 .. n - 1, NEW i \in 0 .. n - 1
  PROVE  \E d \in 0 .. n - 1 : (f + d) % n = i
<1>1. CASE f <= i
  <2>1. i - f \in 0 .. n - 1 /\ f + (i - f) = i /\ i % n = i
    BY <1>1
  <2> QED
    BY <2>1
<1>2. CASE ~(f <= i)
  <2>1. i - f + n \in 0 .. n - 1 /\ f + (i - f + n) = i + n /\ (i + n) % n = i
    BY <1>2
  <2> QED
    BY <2>1
<1> QED
  BY <1>1, <1>2

\* The ring starts one cell later.
LEMMA RingNext ==
  ASSUME NEW n \in Nat \ {0}, NEW f \in 0 .. n - 1, NEW d \in 0 .. n - 1
  PROVE  (((f + 1) % n) + d) % n = (f + (d + 1)) % n
<1>1. 1 \in 0 .. n /\ d \in 0 .. n /\ d + 1 \in 0 .. n
  OBVIOUS
<1>2. (f + 1) % n \in 0 .. n - 1 /\ (f + 1) % n = IF f + 1 < n THEN f + 1 ELSE f + 1 - n
  BY <1>1, RingValue
<1>3. (f + (d + 1)) % n = IF f + (d + 1) < n THEN f + (d + 1) ELSE f + (d + 1) - n
  BY <1>1, RingValue
<1>4. (((f + 1) % n) + d) % n = IF ((f + 1) % n) + d < n THEN ((f + 1) % n) + d ELSE ((f + 1) % n) + d - n
  BY Zenon, <1>1, <1>2, RingValue
<1> DEFINE g == (f + 1) % n
<1> HIDE DEF g
<1> QED
  BY <1>1, <1>2, <1>3, <1>4 DEF g
=============================================================================
