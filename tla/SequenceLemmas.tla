---------------------------- MODULE SequenceLemmas ----------------------------
(***************************************************************************)
(* Recursion and induction over naturals and sequences, in a form without  *)
(* operator parameters: a property is a set, a step a function, and what   *)
(* would be an induction takes the least number that fails.                *)
(***************************************************************************)
EXTENDS Integers, Sequences, SequencesExt, SequenceTheorems, WellFoundedInduction, TLAPS

(* A nonempty set of naturals has a least element. *)
LEMMA LeastNatural ==
  ASSUME NEW S \in SUBSET Nat, S # {}
  PROVE  \E m \in S : \A k \in S : m <= k
<1>1. PICK m \in S : \A k \in S : <<k, m>> \notin OpToRel(<, Nat)
  BY WFMin, NatLessThanWellFounded, Zenon
<1>2. \A k \in S : ~ (k < m)
  BY <1>1, Zenon DEF OpToRel
<1>. QED  BY <1>2

(* Induction: a set of naturals that holds 0 and the successor of each of  *)
(* its members below n holds all up to n.                                  *)
LEMMA UpTo ==
  ASSUME NEW n \in Nat, NEW S, 0 \in S, \A k \in 0 .. n - 1 : k \in S => k + 1 \in S
  PROVE  0 .. n \subseteq S
<1>. DEFINE Fails == {k \in 0 .. n : k \notin S}
<1>1. SUFFICES ASSUME Fails # {} PROVE FALSE
  OBVIOUS
<1>2. Fails \in SUBSET Nat
  OBVIOUS
<1>3. PICK m \in Fails : \A k \in Fails : m <= k
  BY <1>1, <1>2, LeastNatural
<1>4. m - 1 \in 0 .. n - 1 /\ m - 1 \notin Fails
  BY <1>3
<1>. QED  BY <1>3, <1>4

(* Up to n, f is what the steps make of a first value. *)
Follows(f, n, v, step) == f[0] = v /\ \A k \in 1 .. n : f[k] = step[k][f[k - 1]]

LEMMA Recursion ==
  ASSUME NEW n \in Nat, NEW V, NEW v \in V, NEW step \in [Nat -> [V -> V]]
  PROVE  \E f \in [0 .. n -> V] : Follows(f, n, v, step)
<1>. DEFINE Reached == {k \in Nat : \E f \in [0 .. k -> V] : Follows(f, k, v, step)}
<1>1. 0 \in Reached
  <2>1. [i \in 0 .. 0 |-> v] \in [0 .. 0 -> V] /\ Follows([i \in 0 .. 0 |-> v], 0, v, step)
    BY DEF Follows
  <2>. QED  BY <2>1
<1>2. ASSUME NEW k \in 0 .. n - 1, k \in Reached PROVE k + 1 \in Reached
  <2>1. PICK f \in [0 .. k -> V] : Follows(f, k, v, step)
    BY <1>2
  <2>2. k \in Nat /\ k + 1 \in Nat /\ step[k + 1][f[k]] \in V
    BY <2>1
  <2>. DEFINE g == [i \in 0 .. k + 1 |-> IF i <= k THEN f[i] ELSE step[k + 1][f[k]]]
  <2>3. g \in [0 .. k + 1 -> V]
    BY <2>1, <2>2
  <2>4. ASSUME NEW i \in 1 .. k + 1 PROVE g[i] = step[i][g[i - 1]]
    <3>1. i - 1 \in 0 .. k /\ g[i - 1] = f[i - 1]
      BY <2>2
    <3>2. CASE i \in 1 .. k
      BY <2>1, <3>1, <3>2 DEF Follows
    <3>3. CASE i = k + 1
      BY <2>2, <3>1, <3>3
    <3>. QED  BY <3>2, <3>3
  <2>5. g[0] = v
    BY <2>1, <2>2 DEF Follows
  <2>6. Follows(g, k + 1, v, step)
    BY <2>4, <2>5 DEF Follows
  <2>. QED  BY <2>2, <2>3, <2>6
<1>3. 0 .. n \subseteq Reached
  BY <1>1, <1>2, UpTo
<1>. QED  BY <1>3

(*  FlattenSeq *)
LEMMA FlattenSteps ==
  ASSUME NEW S, NEW ss \in Seq(Seq(S))
  PROVE  \E f \in [0 .. Len(ss) -> Seq(S)] :
           /\ f[0] = <<>> /\ \A k \in 1 .. Len(ss) : f[k] = f[k - 1] \o ss[k]
           /\ FlattenSeq(ss) = f[Len(ss)]
<1>1. Len(ss) \in Nat /\ DOMAIN ss = 1 .. Len(ss) /\ <<>> \in Seq(S)
  OBVIOUS
<1>. DEFINE step == [k \in Nat |-> [q \in Seq(S) |-> IF k \in 1 .. Len(ss) THEN q \o ss[k] ELSE q]]
<1>2. step \in [Nat -> [Seq(S) -> Seq(S)]]
  <2>1. \A q \in Seq(S), k \in 1 .. Len(ss) : q \o ss[k] \in Seq(S)
    OBVIOUS
  <2>. QED  BY <2>1
<1>. HIDE DEF step
<1>3. PICK f \in [0 .. Len(ss) -> Seq(S)] :
        Follows(f, Len(ss), <<>>, step)
  BY <1>1, <1>2, Recursion
<1>8. f[0] = <<>>
  BY <1>3 DEF Follows
<1>4. ASSUME NEW k \in 1 .. Len(ss) PROVE f[k] = f[k - 1] \o ss[k]
  <2>1. k - 1 \in 0 .. Len(ss) /\ k \in Nat
    OBVIOUS
  <2>2. f[k - 1] \in Seq(S)
    BY <2>1
  <2>. QED  BY <1>3, <2>1, <2>2 DEF step, Follows
<1>5. CASE ss = <<>>
  BY <1>8, <1>4, <1>5 DEF FlattenSeq
<1>6. CASE Len(ss) # 0
  <2>. DEFINE Shape(g) == [i \in 1 .. Len(ss) |-> IF i = 1 THEN ss[i] ELSE g[i - 1] \o ss[i]]
              h == [i \in 1 .. Len(ss) |-> f[i]]
              flatten == CHOOSE g : g = Shape(g)
  <2>1. h = Shape(h)
    <3>1. ASSUME NEW i \in 1 .. Len(ss) PROVE h[i] = Shape(h)[i]
      <4>1. CASE i = 1
        <5>1. f[1] = f[1 - 1] \o ss[1]
          BY <1>4, <4>1
        <5>2. ss[1] \in Seq(S)
          BY <4>1
        <5>3. f[1] = ss[1]
          <6>1. f[1 - 1] = <<>>
            BY <1>8
          <6>2. <<>> \o ss[1] = ss[1]
            BY <5>2, ConcatEmptySeq
          <6>. QED  BY <5>1, <6>1, <6>2
        <5>. QED  BY <4>1, <5>3
      <4>2. CASE i # 1
        <5>1. i - 1 \in 1 .. Len(ss)
          BY <4>2
        <5>. QED  BY <5>1, <1>4, <4>2
      <4>. QED  BY <4>1, <4>2
    <3>. QED  BY <3>1
  <2>2. flatten = Shape(flatten)
    <3>. HIDE DEF Shape, h
    <3>. QED  BY <2>1
  <2>. HIDE DEF flatten
  <2>. DEFINE Same == {k \in 0 .. Len(ss) : k = 0 \/ flatten[k] = f[k]}
  <2>3. ASSUME NEW k \in 0 .. Len(ss) - 1, k \in Same PROVE k + 1 \in Same
    <3>1. k + 1 \in 1 .. Len(ss) /\ (k + 1) - 1 = k
      BY <1>1
    <3>2. flatten[k + 1] = IF k + 1 = 1 THEN ss[k + 1] ELSE flatten[k] \o ss[k + 1]
      BY <2>2, <3>1
    <3>3. f[k + 1] = f[k] \o ss[k + 1]
      BY <1>4, <3>1
    <3>4. k = 0 => f[k] \o ss[k + 1] = ss[k + 1]
      <4>1. ss[k + 1] \in Seq(S)
        BY <1>1, <3>1
      <4>2. <<>> \o ss[k + 1] = ss[k + 1]
        BY <4>1, ConcatEmptySeq
      <4>. QED  BY <1>8, <4>2
    <3>5. k # 0 => flatten[k] = f[k] /\ k + 1 # 1
      BY <2>3
    <3>6. flatten[k + 1] = f[k + 1]
      <4>. HIDE DEF Same
      <4>1. CASE k = 0
        <5>1. flatten[k + 1] = ss[k + 1]
          BY <3>2, <4>1
        <5>. QED  BY <3>3, <3>4, <4>1, <5>1
      <4>2. CASE k # 0
        BY <3>2, <3>3, <3>5, <4>2
      <4>. QED  BY <4>1, <4>2
    <3>. QED  BY <3>1, <3>6
  <2>4. 0 .. Len(ss) \subseteq Same
    <3>1. 0 \in Same
      BY <1>1
    <3>. HIDE DEF Same
    <3>. QED  BY <1>1, <2>3, <3>1, UpTo
  <2>5. FlattenSeq(ss) = flatten[Len(ss)]
    BY <1>6 DEF FlattenSeq, flatten
  <2>6. flatten[Len(ss)] = f[Len(ss)]
    <3>1. Len(ss) \in Same /\ Len(ss) # 0
      <4>. HIDE DEF Same
      <4>. QED  BY <1>1, <1>6, <2>4, SMTT(30)
    <3>. QED  BY <3>1
  <2>. QED  BY <1>8, <1>4, <2>5, <2>6
<1>7. ss = <<>> \/ Len(ss) # 0
  OBVIOUS
<1>. QED  BY <1>5, <1>6, <1>7

LEMMA FlattenEmpty == FlattenSeq(<<>>) = <<>>
BY DEF FlattenSeq

LEMMA FlattenType ==
  ASSUME NEW S, NEW ss \in Seq(Seq(S)) PROVE FlattenSeq(ss) \in Seq(S)
<1>1. PICK f \in [0 .. Len(ss) -> Seq(S)] : FlattenSeq(ss) = f[Len(ss)]
  BY FlattenSteps
<1>. QED  BY <1>1

LEMMA FlattenAppend ==
  ASSUME NEW S, NEW ss \in Seq(Seq(S)), NEW s \in Seq(S)
  PROVE  FlattenSeq(Append(ss, s)) = FlattenSeq(ss) \o s
<1>. DEFINE all == Append(ss, s)
<1>1. all \in Seq(Seq(S)) /\ Len(all) = Len(ss) + 1 /\ Len(ss) \in Nat
      /\ all[Len(ss) + 1] = s /\ \A k \in 1 .. Len(ss) : all[k] = ss[k]
  OBVIOUS
<1>. HIDE DEF all
<1>2. PICK f \in [0 .. Len(ss) -> Seq(S)] :
         /\ f[0] = <<>> /\ \A k \in 1 .. Len(ss) : f[k] = f[k - 1] \o ss[k]
         /\ FlattenSeq(ss) = f[Len(ss)]
  BY FlattenSteps
<1>3. PICK g \in [0 .. Len(all) -> Seq(S)] :
         /\ g[0] = <<>> /\ \A k \in 1 .. Len(all) : g[k] = g[k - 1] \o all[k]
         /\ FlattenSeq(all) = g[Len(all)]
  BY <1>1, FlattenSteps
<1>4. ASSUME NEW k \in 1 .. Len(ss), f[k - 1] = g[k - 1] PROVE f[k] = g[k]
  <2>1. k \in 1 .. Len(all) /\ all[k] = ss[k]
    BY <1>1
  <2>2. g[k] = g[k - 1] \o all[k] /\ f[k] = f[k - 1] \o ss[k]
    BY <1>2, <1>3, <2>1, Zenon
  <2>. QED  BY <1>4, <2>1, <2>2, Zenon
<1>5. f[0] = g[0]
  BY <1>2, <1>3
<1>6. \A k \in 0 .. Len(ss) : f[k] = g[k]
  <2>. DEFINE Same == {k \in 0 .. Len(ss) : f[k] = g[k]}
  <2>1. ASSUME NEW k \in 0 .. Len(ss) - 1, k \in Same PROVE k + 1 \in Same
    <3>1. k + 1 \in 1 .. Len(ss) /\ (k + 1) - 1 = k
      BY <1>1
    <3>2. f[(k + 1) - 1] = g[(k + 1) - 1]
      BY <2>1, <3>1
    <3>3. f[k + 1] = g[k + 1]
      BY <1>4, <3>1, <3>2, Zenon
    <3>. QED  BY <3>1, <3>3
  <2>2. 0 \in Same
    BY <1>1, <1>5
  <2>. HIDE DEF Same
  <2>3. 0 .. Len(ss) \subseteq Same
    BY <1>1, <2>1, <2>2, UpTo
  <2>. QED  BY <2>3 DEF Same
<1>7. g[Len(all)] = g[Len(ss)] \o s
  <2>1. Len(all) \in 1 .. Len(all) /\ Len(all) - 1 = Len(ss)
    BY <1>1
  <2>2. g[Len(all)] = g[Len(all) - 1] \o all[Len(all)]
    BY <1>3, <2>1, Zenon
  <2>3. all[Len(all)] = s
    BY <1>1
  <2>. QED  BY <2>1, <2>2, <2>3, Zenon
<1>8. Len(ss) \in 0 .. Len(ss)
  BY <1>1
<1>9. f[Len(ss)] = g[Len(ss)]
  BY <1>6, <1>8, Zenon
<1>. QED  BY <1>2, <1>3, <1>7, <1>9, Zenon DEF all

LEMMA AppendOfConcat ==
  ASSUME NEW S, NEW s \in Seq(S), NEW t \in Seq(S), NEW e \in S
  PROVE  s \o t \in Seq(S) /\ s \o Append(t, e) = Append(s \o t, e)
OBVIOUS

(* Flattening what was joined is joining what was flattened. *)
LEMMA FlattenConcat ==
  ASSUME NEW S, NEW ss \in Seq(Seq(S)), NEW tt \in Seq(Seq(S))
  PROVE  FlattenSeq(ss \o tt) = FlattenSeq(ss) \o FlattenSeq(tt)
<1>. DEFINE upTo(k) == SubSeq(tt, 1, k)
            Joins == {k \in 0 .. Len(tt) : FlattenSeq(ss \o upTo(k)) = FlattenSeq(ss) \o FlattenSeq(upTo(k))}
<1>1. FlattenSeq(ss) \in Seq(S) /\ Len(tt) \in Nat
  BY FlattenType
<1>2. 0 \in Joins
  <2>1. upTo(0) = <<>>
    BY <1>1, SubSeqEmpty
  <2>2. ss \o <<>> = ss /\ FlattenSeq(ss) \o <<>> = FlattenSeq(ss)
    BY <1>1, ConcatEmptySeq
  <2>3. FlattenSeq(ss \o upTo(0)) = FlattenSeq(ss) \o FlattenSeq(upTo(0))
    BY <2>1, <2>2, FlattenEmpty, Zenon
  <2>. QED  BY <1>1, <2>3
<1>3. ASSUME NEW k \in 0 .. Len(tt) - 1, k \in Joins PROVE k + 1 \in Joins
  <2>1. /\ upTo(k) \in Seq(Seq(S)) /\ tt[k + 1] \in Seq(S) /\ k + 1 \in 0 .. Len(tt)
        /\ upTo(k + 1) = Append(upTo(k), tt[k + 1])
    <3>1. k + 1 \in 1 .. Len(tt) /\ (k + 1) - 1 = k
      BY <1>1
    <3>2. SubSeq(tt, 1, k + 1) = SubSeq(tt, 1, k) \o <<tt[k + 1]>>
      BY <1>1, <3>1, SubSeqRecursiveSecond
    <3>3. SubSeq(tt, 1, k) \in Seq(Seq(S)) /\ tt[k + 1] \in Seq(S)
      BY <1>1, <3>1
    <3>. QED  BY <3>1, <3>2, <3>3, AppendIsConcat
  <2>. HIDE DEF upTo
  <2>2. ss \o upTo(k + 1) = Append(ss \o upTo(k), tt[k + 1]) /\ ss \o upTo(k) \in Seq(Seq(S))
    <3>. DEFINE T == Seq(S)
                t == upTo(k)
                e == tt[k + 1]
    <3>1. ss \in Seq(T) /\ t \in Seq(T) /\ e \in T
      BY <2>1
    <3>. HIDE DEF T, t, e
    <3>2. ss \o t \in Seq(T) /\ ss \o Append(t, e) = Append(ss \o t, e)
      BY <3>1, AppendOfConcat
    <3>. QED  BY <2>1, <3>2 DEF T, t, e
  <2>3. FlattenSeq(ss \o upTo(k + 1)) = FlattenSeq(ss \o upTo(k)) \o tt[k + 1]
    BY <2>1, <2>2, FlattenAppend
  <2>4. FlattenSeq(upTo(k + 1)) = FlattenSeq(upTo(k)) \o tt[k + 1]
    BY <2>1, FlattenAppend
  <2>5. FlattenSeq(upTo(k)) \in Seq(S)
    BY <2>1, FlattenType
  <2>6. (FlattenSeq(ss) \o FlattenSeq(upTo(k))) \o tt[k + 1] = FlattenSeq(ss) \o (FlattenSeq(upTo(k)) \o tt[k + 1])
    <3>. DEFINE a == FlattenSeq(ss)
                b == FlattenSeq(upTo(k))
                c == tt[k + 1]
    <3>1. a \in Seq(S) /\ b \in Seq(S) /\ c \in Seq(S)
      BY <1>1, <2>1, <2>5
    <3>. HIDE DEF a, b, c
    <3>2. (a \o b) \o c = a \o (b \o c)
      BY <3>1, SMTT(60)
    <3>. QED  BY <3>2 DEF a, b, c
  <2>. QED  BY <1>3, <2>1, <2>3, <2>4, <2>6
<1>4. Len(tt) \in Joins
  <2>. HIDE DEF Joins
  <2>1. 0 .. Len(tt) \subseteq Joins
    BY <1>1, <1>2, <1>3, UpTo
  <2>. QED  BY <1>1, <2>1
<1>5. upTo(Len(tt)) = tt
  BY SubSeqFull
<1>. QED  BY <1>4, <1>5

(* What flattens to one member: the others are empty. *)
LEMMA FlattenOnly ==
  ASSUME NEW S, NEW ss \in Seq(Seq(S)), NEW i \in 1 .. Len(ss),
         \A j \in 1 .. Len(ss) : j # i => ss[j] = <<>>
  PROVE  FlattenSeq(ss) = ss[i]
<1>1. PICK n \in Nat, one \in Seq(S) : n = Len(ss) /\ one = ss[i] /\ i \in 1 .. n
  <2>1. Len(ss) \in Nat /\ ss[i] \in Seq(S) /\ i \in 1 .. Len(ss)
    BY ElementOfSeq, LenProperties
  <2>. QED  BY <2>1
<1>2. PICK f \in [0 .. n -> Seq(S)] :
        /\ f[0] = <<>> /\ \A k \in 1 .. n : f[k] = f[k - 1] \o ss[k]
        /\ FlattenSeq(ss) = f[n]
  BY <1>1, FlattenSteps
<1>3. \A k \in 1 .. n : ss[k] = IF k = i THEN one ELSE <<>>
  BY <1>1
<1>. DEFINE Known == {k \in 0 .. n : f[k] = IF k < i THEN <<>> ELSE one}
<1>4. 0 \in Known
  BY <1>1, <1>2
<1>5. ASSUME NEW k \in 0 .. n - 1, k \in Known PROVE k + 1 \in Known
  <2>1. k + 1 \in 1 .. n /\ (k + 1) - 1 = k /\ k \in 0 .. n /\ k + 1 \in 0 .. n
    BY <1>1
  <2>2. f[k + 1] = f[k] \o ss[k + 1]
    <3>1. f[k + 1] = f[(k + 1) - 1] \o ss[k + 1]
      BY <1>2, <2>1
    <3>. QED  BY <2>1, <3>1
  <2>3. f[k] = IF k < i THEN <<>> ELSE one
    BY <1>5
  <2>4. ss[k + 1] = IF k + 1 = i THEN one ELSE <<>>
    BY <1>3, <2>1
  <2>5. /\ <<>> \o one = one /\ one \o <<>> = one
    BY <1>1, ConcatEmptySeq
  <2>6. <<>> \o <<>> = <<>>
    OBVIOUS
  <2>7. f[k + 1] = IF k + 1 < i THEN <<>> ELSE one
    <3>1. CASE k + 1 < i
      <4>1. k < i /\ k + 1 # i
        BY <1>1, <2>1, <3>1
      <4>. QED  BY <2>2, <2>3, <2>4, <2>6, <3>1, <4>1, Zenon
    <3>2. CASE k + 1 = i
      <4>1. k < i /\ ~(k + 1 < i)
        BY <1>1, <2>1, <3>2
      <4>. QED  BY <2>2, <2>3, <2>4, <2>5, <3>2, <4>1, Zenon
    <3>3. CASE k + 1 > i
      <4>1. ~(k < i) /\ k + 1 # i /\ ~(k + 1 < i)
        BY <1>1, <2>1, <3>3
      <4>. QED  BY <2>2, <2>3, <2>4, <2>5, <4>1, Zenon
    <3>. QED  BY <1>1, <2>1, <3>1, <3>2, <3>3
  <2>. QED  BY <2>1, <2>7, Zenon
<1>6. n \in Known
  <2>. HIDE DEF Known
  <2>1. 0 .. n \subseteq Known
    BY <1>1, <1>4, <1>5, UpTo
  <2>2. n \in 0 .. n
    BY <1>1
  <2>. QED  BY <2>1, <2>2
<1>7. ~(n < i)
  BY <1>1
<1>. QED  BY <1>1, <1>2, <1>6, <1>7

LEMMA FlattenNothing ==
  ASSUME NEW S, NEW ss \in Seq(Seq(S)), \A j \in 1 .. Len(ss) : ss[j] = <<>>
  PROVE  FlattenSeq(ss) = <<>>
<1>1. CASE Len(ss) = 0
  BY <1>1, FlattenEmpty
<1>2. CASE Len(ss) # 0
  <2>1. 1 \in 1 .. Len(ss)
    BY <1>2
  <2>. QED  BY <2>1, FlattenOnly
<1>. QED  BY <1>1, <1>2

(* What was put before a sequence is a prefix of both. *)
LEMMA PrefixOfJoin ==
  ASSUME NEW S, NEW s \in Seq(S), NEW t \in Seq(S)
  PROVE  /\ Len(s) <= Len(s \o t) /\ SubSeq(s, 1, Len(s)) = SubSeq(s \o t, 1, Len(s))
         /\ s \o t \in Seq(S)
OBVIOUS

(* Two elements with nothing between them come to lie side by side. *)
NothingBetween(ss, p, q) == \A k \in p + 1 .. q - 1 : ss[k] = <<>>
HasPart(s, t, S) == \E u \in Seq(S), w \in Seq(S) : s = (u \o t) \o w

LEMMA FlattenAround ==
  ASSUME NEW S, NEW ss \in Seq(Seq(S)), NEW p \in 1 .. Len(ss), NEW q \in 1 .. Len(ss), p < q,
         NothingBetween(ss, p, q)
  PROVE  HasPart(FlattenSeq(ss), ss[p] \o ss[q], S)
<1>1. PICK f \in [0 .. Len(ss) -> Seq(S)] :
        /\ \A k \in 1 .. Len(ss) : f[k] = f[k - 1] \o ss[k]
        /\ FlattenSeq(ss) = f[Len(ss)]
  BY FlattenSteps
<1>2. PICK n \in Nat : n = Len(ss)
  OBVIOUS
<1>3. PICK a \in Seq(S), b \in Seq(S) : a = ss[p] /\ b = ss[q]
  BY ElementOfSeq
<1>4. p \in 1 .. n /\ q \in 1 .. n /\ p - 1 \in 0 .. n /\ q - 1 \in 0 .. n
  BY <1>2
<1>5. PICK u \in Seq(S) : u = f[p - 1]
  BY <1>1, <1>2, <1>4
<1>6. f[q - 1] = u \o a
  <2>0. PICK d \in Nat : d = (q - 1) - p
    BY <1>4
  <2>. DEFINE Same == {k \in 0 .. d : f[p + k] = u \o a}
  <2>1. 0 \in 0 .. d /\ p + 0 = p /\ p + d = q - 1
    BY <1>4, <2>0
  <2>2. 0 \in Same
    BY <1>1, <1>2, <1>3, <1>4, <1>5, <2>1
  <2>3. ASSUME NEW k \in 0 .. d - 1, k \in Same PROVE k + 1 \in Same
    <3>1. /\ p + (k + 1) \in p + 1 .. q - 1 /\ p + (k + 1) \in 1 .. n /\ (p + (k + 1)) - 1 = p + k
          /\ k + 1 \in 0 .. d
      BY <1>4, <2>0
    <3>2. f[p + (k + 1)] = f[p + k] \o <<>>
      BY <1>1, <1>2, <3>1 DEF NothingBetween
    <3>3. f[p + k] \in Seq(S) /\ f[p + k] = u \o a
      <4>1. u \o a \in Seq(S)
        BY ConcatProperties
      <4>. QED  BY <2>3, <4>1
    <3>4. f[p + k] \o <<>> = f[p + k]
      BY <3>3, ConcatEmptySeq
    <3>. QED  BY <3>1, <3>2, <3>3, <3>4
  <2>. HIDE DEF Same
  <2>4. 0 .. d \subseteq Same
    BY <2>2, <2>3, UpTo
  <2>5. d \in 0 .. d
    OBVIOUS
  <2>. QED  BY <2>1, <2>4, <2>5 DEF Same
<1>7. f[q] = (u \o a) \o b
  BY <1>1, <1>2, <1>3, <1>4, <1>6
<1>8. (u \o a) \o b = u \o (a \o b) /\ u \o (a \o b) \in Seq(S) /\ a \o b \in Seq(S)
  <2>1. (u \o a) \o b = u \o (a \o b)
    BY SMTT(60)
  <2>. QED  BY <2>1, ConcatProperties
<1>9. PICK m \in Seq(S) : m = u \o (a \o b)
  BY <1>8
<1>10. \E w \in Seq(S) : f[n] = m \o w
  <2>0. PICK d \in Nat : d = n - q
    BY <1>4
  <2>. DEFINE Longer == {k \in 0 .. d : \E w \in Seq(S) : f[q + k] = m \o w}
  <2>1. 0 \in 0 .. d /\ q + 0 = q /\ q + d = n
    BY <1>4, <2>0
  <2>2. 0 \in Longer
    <3>1. m \o <<>> = m /\ <<>> \in Seq(S)
      BY ConcatEmptySeq
    <3>. QED  BY <1>7, <1>8, <1>9, <2>1, <3>1
  <2>3. ASSUME NEW k \in 0 .. d - 1, k \in Longer PROVE k + 1 \in Longer
    <3>1. q + (k + 1) \in 1 .. n /\ (q + (k + 1)) - 1 = q + k /\ k + 1 \in 0 .. d
      BY <1>4, <2>0
    <3>2. PICK w \in Seq(S) : f[q + k] = m \o w
      BY <2>3
    <3>3. PICK e \in Seq(S) : e = ss[q + (k + 1)]
      BY <1>2, <3>1, ElementOfSeq
    <3>4. f[q + (k + 1)] = (m \o w) \o e
      BY <1>1, <1>2, <3>1, <3>2, <3>3
    <3>5. (m \o w) \o e = m \o (w \o e) /\ w \o e \in Seq(S)
      <4>1. (m \o w) \o e = m \o (w \o e)
        BY SMTT(60)
      <4>. QED  BY <4>1, ConcatProperties
    <3>. QED  BY <3>1, <3>4, <3>5
  <2>. HIDE DEF Longer
  <2>4. 0 .. d \subseteq Longer
    BY <2>2, <2>3, UpTo
  <2>5. d \in 0 .. d
    OBVIOUS
  <2>. QED  BY <2>1, <2>4, <2>5 DEF Longer
<1>. QED  BY <1>1, <1>2, <1>3, <1>9, <1>10 DEF HasPart
===============================================================================
