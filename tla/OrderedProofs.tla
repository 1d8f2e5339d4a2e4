---------------------------- MODULE OrderedProofs ----------------------------
(***************************************************************************)
(* The members of a set of numbers in their order: each has a rank of its  *)
(* own, every rank up to the size of the set is taken, and a set whose     *)
(* members keep their order under another naming is listed as before.      *)
(* And what the models define step by step along a sequence: that there is *)
(* one such function, and what holds of it by induction.                   *)
(***************************************************************************)
EXTENDS Ordered, FiniteSetTheorems, SequenceTheorems, TLAPS

LEMMA RankGrows ==
    ASSUME NEW M \in SUBSET Nat, IsFiniteSet(M), NEW i \in Nat, NEW k \in Nat
    PROVE  /\ Rank(M, i) \in 0..Cardinality(M) /\ Cardinality(M) \in Nat
           /\ i <= k => Rank(M, i) <= Rank(M, k)
           /\ i < k /\ k \in M => Rank(M, i) < Rank(M, k)
<1> DEFINE UpTo(n) == {j \in M : j <= n}
<1>1. \A n : IsFiniteSet(UpTo(n)) /\ Cardinality(UpTo(n)) <= Cardinality(M)
    BY FS_Subset
<1>2. \A n : Cardinality(UpTo(n)) \in Nat
    BY <1>1, FS_CardinalityType
<1>3. Cardinality(M) \in Nat
    BY FS_CardinalityType
<1>4. ASSUME i <= k PROVE Cardinality(UpTo(i)) <= Cardinality(UpTo(k))
    <2>1. UpTo(i) \subseteq UpTo(k)
        <3>1. \A j \in M : j \in Nat /\ (j <= i => j <= k)
            BY <1>4
        <3> QED
            BY <3>1
    <2> QED
        BY <1>1, <2>1, FS_Subset
<1>5. ASSUME i < k, k \in M PROVE Cardinality(UpTo(i)) # Cardinality(UpTo(k))
    <2>1. UpTo(i) \subseteq UpTo(k) /\ k \in UpTo(k) /\ k \notin UpTo(i)
        <3>1. \A j \in M : j \in Nat /\ (j <= i => j <= k)
            BY <1>5
        <3>2. k <= k /\ ~(k <= i)
            BY <1>5
        <3> QED
            BY <1>5, <3>1, <3>2
    <2>2. UpTo(i) # UpTo(k)
        BY <2>1
    <2> HIDE DEF UpTo
    <2> QED
        BY <1>1, <2>1, <2>2, FS_Subset
<1>6. \A n : Rank(M, n) = Cardinality(UpTo(n))
    BY DEF Rank
<1> HIDE DEF UpTo
<1> QED
    BY <1>1, <1>2, <1>3, <1>4, <1>5, <1>6

LEMMA RankIsOwn ==
    ASSUME NEW M \in SUBSET Nat, IsFiniteSet(M), NEW i \in M
    PROVE  /\ Rank(M, i) \in 1..Cardinality(M)
           /\ Nth(M, Rank(M, i)) = i
           /\ \A k \in M : Rank(M, k) = Rank(M, i) => k = i
<1>1. Rank(M, i) \in 0..Cardinality(M) /\ Cardinality(M) \in Nat
    BY RankGrows
<1>2. Rank(M, i) # 0
    <2> DEFINE upto == {j \in M : j <= i}
    <2>1. IsFiniteSet(upto) /\ i \in upto
        BY FS_Subset
    <2>2. Cardinality(upto) # 0
        BY <2>1, FS_EmptySet
    <2> QED
        BY <2>2 DEF Rank
<1>3. ASSUME NEW k \in M, Rank(M, k) = Rank(M, i) PROVE k = i
    <2>1. k \in Nat /\ i \in Nat /\ Rank(M, k) \in Nat
        BY <1>1, <1>3
    <2>2. (k < i => Rank(M, k) < Rank(M, i)) /\ (i < k => Rank(M, i) < Rank(M, k))
        BY <2>1, RankGrows
    <2> QED
        BY <1>3, <2>1, <2>2
<1> QED
    BY <1>1, <1>2, <1>3 DEF Nth

\* An order taken over: the ranks that members of a set have in a larger one.
LEMMA RanksAreAsMany ==
    ASSUME NEW M \in SUBSET Nat, IsFiniteSet(M), NEW F \in SUBSET M
    PROVE  /\ IsFiniteSet(F) /\ IsFiniteSet({Rank(M, i) : i \in F})
           /\ Cardinality({Rank(M, i) : i \in F}) = Cardinality(F)
<1> DEFINE I == {Rank(M, i) : i \in F}
           f == [i \in F |-> Rank(M, i)]
<1>1. IsFiniteSet(F)
    BY FS_Subset
<1>2. f \in Bijection(F, I)
    BY RankIsOwn DEF Bijection, Injection, Surjection, IsInjective
<1>3. ExistsBijection(F, I)
    BY <1>2 DEF ExistsBijection
<1> QED
    BY <1>1, <1>3, FS_Bijection

LEMMA RankIsTaken ==
    ASSUME NEW M \in SUBSET Nat, IsFiniteSet(M), NEW n \in 1..Cardinality(M)
    PROVE  \E i \in M : Rank(M, i) = n /\ Nth(M, n) = i
<1> DEFINE I == {Rank(M, i) : i \in M}
<1>1. Cardinality(M) \in Nat
    BY FS_CardinalityType
<1>2. IsFiniteSet(1..Cardinality(M)) /\ Cardinality(1..Cardinality(M)) = Cardinality(M)
    BY <1>1, FS_Interval
<1>3. I \in SUBSET (1..Cardinality(M))
    <2>1. ASSUME NEW i \in M PROVE Rank(M, i) \in 1..Cardinality(M)
        BY RankIsOwn
    <2> QED
        BY <2>1
<1>4. Cardinality(I) = Cardinality(M)
    BY RanksAreAsMany
<1>5. I = 1..Cardinality(M)
    <2> HIDE DEF I
    <2> QED
        BY <1>2, <1>3, <1>4, FS_Subset
<1>6. PICK i \in M : Rank(M, i) = n
    BY <1>5
<1> QED
    BY <1>6, RankIsOwn

LEMMA ListedInOrder ==
    ASSUME NEW M \in SUBSET Nat, IsFiniteSet(M)
    PROVE  /\ Cardinality(M) \in Nat
           /\ InOrder(M) \in Seq(M) /\ Len(InOrder(M)) = Cardinality(M)
           /\ \A i \in M : InOrder(M)[Rank(M, i)] = i
<1>1. Cardinality(M) \in Nat
    BY FS_CardinalityType
<1>2. \A n \in 1..Cardinality(M) : Nth(M, n) \in M
    BY RankIsTaken
<1>3. InOrder(M) \in Seq(M) /\ Len(InOrder(M)) = Cardinality(M)
    BY <1>1, <1>2 DEF InOrder
<1>4. \A i \in M : InOrder(M)[Rank(M, i)] = i
    BY RankIsOwn DEF InOrder
<1> QED
    BY <1>1, <1>3, <1>4

LEMMA OrderAscends ==
    ASSUME NEW M \in SUBSET Nat, IsFiniteSet(M),
           NEW n \in 1..Cardinality(M), NEW k \in 1..Cardinality(M), n < k
    PROVE  InOrder(M)[n] < InOrder(M)[k]
<1>1. PICK i \in M : Rank(M, i) = n /\ Nth(M, n) = i
    BY RankIsTaken
<1>2. PICK j \in M : Rank(M, j) = k /\ Nth(M, k) = j
    BY RankIsTaken
<1>3. i \in Nat /\ j \in Nat /\ Cardinality(M) \in Nat
    BY FS_CardinalityType
<1>4. j <= i => k <= n
    BY <1>1, <1>2, <1>3, RankGrows
<1> QED
    BY <1>1, <1>2, <1>3, <1>4 DEF InOrder

LEMMA NewestIsLast ==
    ASSUME NEW M \in SUBSET Nat, IsFiniteSet(M), NEW new \in Nat, \A i \in M : i < new
    PROVE  /\ IsFiniteSet(M \cup {new}) /\ Cardinality(M \cup {new}) = Cardinality(M) + 1
           /\ \A i \in Nat : i < new => Rank(M \cup {new}, i) = Rank(M, i)
           /\ Rank(M \cup {new}, new) = Cardinality(M) + 1
           /\ InOrder(M \cup {new}) = Append(InOrder(M), new)
<1> DEFINE more == M \cup {new}
<1>1. new \notin M /\ more \in SUBSET Nat
    OBVIOUS
<1>2. IsFiniteSet(more) /\ Cardinality(more) = Cardinality(M) + 1 /\ Cardinality(M) \in Nat
    BY <1>1, FS_AddElement, FS_CardinalityType
<1>3. ASSUME NEW i \in Nat, i < new PROVE Rank(more, i) = Rank(M, i)
    <2>1. {j \in more : j <= i} = {j \in M : j <= i}
        BY <1>3
    <2> QED
        BY <2>1 DEF Rank
<1>4. Rank(more, new) = Cardinality(M) + 1
    <2>1. \A j \in more : j <= new
        OBVIOUS
    <2>2. {j \in more : j <= new} = more
        BY <2>1
    <2> QED
        BY <1>2, <2>2 DEF Rank
<1>5. ASSUME NEW n \in 1..Cardinality(M) PROVE Nth(more, n) = Nth(M, n)
    <2>1. PICK i \in M : Rank(M, i) = n /\ Nth(M, n) = i
        BY RankIsTaken
    <2>2. Nth(more, Rank(more, i)) = i
        BY <1>1, <1>2, RankIsOwn
    <2> QED
        BY <1>3, <2>1, <2>2
<1>6. Nth(more, Cardinality(M) + 1) = new
    <2>1. new \in more
        OBVIOUS
    <2> HIDE DEF more
    <2>2. Nth(more, Rank(more, new)) = new
        BY <1>1, <1>2, <2>1, RankIsOwn
    <2> QED
        BY <1>4, <2>2
<1>7. InOrder(more) = Append(InOrder(M), new)
    <2>1. InOrder(M) \in Seq(M) /\ Len(InOrder(M)) = Cardinality(M)
        BY ListedInOrder
    <2> HIDE DEF more
    <2> QED
        BY <1>2, <1>5, <1>6, <2>1 DEF InOrder
<1> QED
    BY <1>2, <1>3, <1>4, <1>7

LEMMA ListedByRank ==
    ASSUME NEW M \in SUBSET Nat, IsFiniteSet(M), NEW F \in SUBSET M
    PROVE  At(InOrder(M), {Rank(M, i) : i \in F}) = InOrder(F)
<1> DEFINE I == {Rank(M, i) : i \in F}
<1>1. IsFiniteSet(F) /\ F \in SUBSET Nat /\ IsFiniteSet(I) /\ Cardinality(I) = Cardinality(F)
    BY RanksAreAsMany
<1>2. I \in SUBSET Nat
    BY RankGrows
<1>3. ASSUME NEW n \in 1..Cardinality(F) PROVE InOrder(M)[Nth(I, n)] = Nth(F, n)
    <2>1. PICK i \in F : Rank(F, i) = n /\ Nth(F, n) = i
        BY <1>1, RankIsTaken
    <2> DEFINE k == Rank(M, i)
               below == {x \in F : x <= i}
    <2>2. {j \in I : j <= k} = {Rank(M, x) : x \in below}
        <3>1. ASSUME NEW x \in F PROVE Rank(M, x) <= k <=> x <= i
            <4>1. x \in Nat /\ i \in Nat /\ Rank(M, x) \in Nat /\ k \in Nat
                BY RankGrows
            <4>2. (x <= i => Rank(M, x) <= Rank(M, i)) /\ (i < x => Rank(M, i) < Rank(M, x))
                BY <4>1, RankGrows
            <4> QED
                BY <4>1, <4>2
        <3> QED
            BY <3>1
    <2>3. below \in SUBSET M
        OBVIOUS
    <2>4. Rank(I, k) = n
        <3>1. Cardinality({Rank(M, x) : x \in below}) = Cardinality(below)
            BY <2>3, RanksAreAsMany
        <3> QED
            BY <2>1, <2>2, <3>1 DEF Rank
    <2>5. k \in I
        OBVIOUS
    <2>6. Nth(I, n) = k
        <3> HIDE DEF I, k
        <3> QED
            BY <1>1, <1>2, <2>4, <2>5, RankIsOwn
    <2>7. InOrder(M)[k] = i
        BY ListedInOrder
    <2> QED
        BY <2>1, <2>6, <2>7
<1> HIDE DEF I
<1>4. PICK list : list = InOrder(M)
    OBVIOUS
<1>5. At(list, I) = InOrder(F)
    BY <1>1, <1>3, <1>4 DEF At, InOrder
<1> QED
    BY <1>4, <1>5 DEF I

\* Induction, for what is said of the members of a set.
LEMMA NumberInduction ==
    ASSUME NEW M, 0 \in M, \A n \in Nat : n \in M => n + 1 \in M
    PROVE  Nat \subseteq M
<1> SUFFICES ASSUME Nat \ M # {} PROVE FALSE
    OBVIOUS
<1>1. IsWellFoundedOn(OpToRel(<, Nat), Nat)
    BY NatLessThanWellFounded
<1>2. PICK T : T = Nat \ M
    OBVIOUS
<1>3. \E x \in T : \A y \in T : <<y, x>> \notin OpToRel(<, Nat)
    BY <1>1, <1>2, WFMin
<1>4. PICK x \in T : \A y \in T : ~(y < x)
    BY <1>2, <1>3 DEF OpToRel
<1>5. x \in Nat /\ x \notin M /\ x # 0
    BY <1>2
<1>6. x - 1 \in Nat /\ x - 1 < x /\ (x - 1) + 1 = x
    BY <1>5
<1>7. x - 1 \in M
    BY <1>2, <1>4, <1>6
<1> QED
    BY <1>5, <1>6, <1>7

\* Numbers have a least one.
LEMMA SmallestMember ==
    ASSUME NEW M \in SUBSET Nat, M # {}
    PROVE  \E m \in M : \A i \in M : m <= i
<1>1. IsWellFoundedOn(OpToRel(<, Nat), Nat)
    BY NatLessThanWellFounded
<1>2. \E x \in M : \A y \in M : <<y, x>> \notin OpToRel(<, Nat)
    BY <1>1, WFMin
<1>3. PICK x \in M : \A y \in M : ~(y < x)
    BY <1>2 DEF OpToRel
<1>4. \A y \in M : y \in Nat /\ x \in Nat
    OBVIOUS
<1> QED
    BY <1>3, <1>4

(* Induction over sequences, and functions defined from one number to the next. *)

LEMMA SequenceInduction ==
    ASSUME NEW T, NEW M, <<>> \in M, \A s \in Seq(T), e \in T : s \in M => Append(s, e) \in M
    PROVE  Seq(T) \subseteq M
<1> DEFINE N == {n \in Nat : \A s \in Seq(T) : Len(s) = n => s \in M}
<1>1. 0 \in N
    BY EmptySeq
<1>2. \A n \in Nat : n \in N => n + 1 \in N
    <2> SUFFICES ASSUME NEW n \in Nat, n \in N, NEW s \in Seq(T), Len(s) = n + 1 PROVE s \in M
        OBVIOUS
    <2>1. s # <<>>
        BY EmptySeq
    <2>2. PICK t \in Seq(T), e \in T : s = Append(t, e)
        BY <2>1, SequenceEmptyOrAppend
    <2>3. Len(s) = Len(t) + 1 /\ Len(t) \in Nat
        BY <2>2, AppendProperties, LenProperties
    <2>4. Len(t) = n
        BY <2>3
    <2>5. t \in M
        BY <2>4
    <2> QED
        BY <2>2, <2>5
<1>3. Nat \subseteq N
    <2> HIDE DEF N
    <2> QED
        BY <1>1, <1>2, NumberInduction
<1> QED
    <2> SUFFICES ASSUME NEW s \in Seq(T) PROVE s \in M
        OBVIOUS
    <2>1. Len(s) \in Nat
        BY LenProperties
    <2> QED
        BY <2>1, <1>3

\* A function on 0 .. n may be defined by its value at 0 and a step.
StepsFrom(f, origin, step, n) == f[0] = origin /\ \A i \in 1 .. n : f[i] = step[<<i, f[i - 1]>>]

LEMMA StepsDefine ==
    ASSUME NEW V, NEW origin \in V, NEW step \in [Nat \X V -> V], NEW n \in Nat
    PROVE  \E f \in [0 .. n -> V] : StepsFrom(f, origin, step, n)
<1> DEFINE M == {m \in Nat : \E f \in [0 .. m -> V] : StepsFrom(f, origin, step, m)}
<1>1. 0 \in M
    <2>1. [i \in 0 .. 0 |-> origin] \in [0 .. 0 -> V]
        OBVIOUS
    <2>2. StepsFrom([i \in 0 .. 0 |-> origin], origin, step, 0)
        BY DEF StepsFrom
    <2> QED
        BY <2>1, <2>2
<1>2. \A m \in Nat : m \in M => m + 1 \in M
    <2> SUFFICES ASSUME NEW m \in Nat, m \in M PROVE m + 1 \in M
        OBVIOUS
    <2>1. PICK f \in [0 .. m -> V] : StepsFrom(f, origin, step, m)
        OBVIOUS
    <2>2. step[<<m + 1, f[m]>>] \in V
        OBVIOUS
    <2>3. PICK g : g = [i \in 0 .. m + 1 |-> IF i = m + 1 THEN step[<<m + 1, f[m]>>] ELSE f[i]]
        OBVIOUS
    <2>4. g \in [0 .. m + 1 -> V]
        BY <2>2, <2>3
    <2>5. g[0] = origin
        BY <2>1, <2>3 DEF StepsFrom
    <2>6. \A i \in 1 .. m + 1 : g[i] = step[<<i, g[i - 1]>>]
        <3> SUFFICES ASSUME NEW i \in 1 .. m + 1 PROVE g[i] = step[<<i, g[i - 1]>>]
            OBVIOUS
        <3>1. CASE i = m + 1
            <4>1. m + 1 \in 0 .. m + 1 /\ m \in 0 .. m + 1 /\ m # m + 1 /\ i - 1 = m
                BY <3>1
            <4>2. g[m + 1] = step[<<m + 1, f[m]>>] /\ g[m] = f[m]
                BY <4>1, <2>3
            <4> QED
                BY <4>1, <4>2, <3>1
        <3>2. CASE i \in 1 .. m
            <4>1. g[i] = f[i] /\ g[i - 1] = f[i - 1]
                BY <3>2, <2>3
            <4> QED
                BY <4>1, <2>1, <3>2 DEF StepsFrom
        <3> QED
            BY <3>1, <3>2
    <2>7. m + 1 \in Nat /\ StepsFrom(g, origin, step, m + 1)
        BY <2>5, <2>6 DEF StepsFrom
    <2> QED
        BY <2>4, <2>7
<1>3. Nat \subseteq M
    <2> HIDE DEF M
    <2> QED
        BY <1>1, <1>2, NumberInduction
<1> QED
    BY <1>3

\* And there is one such function.
LEMMA StepsAgree ==
    ASSUME NEW n \in Nat, NEW f, NEW g, f[0] = g[0],
           \A i \in 1 .. n : f[i - 1] = g[i - 1] => f[i] = g[i]
    PROVE  \A i \in 0 .. n : f[i] = g[i]
<1> DEFINE M == {m \in Nat : m <= n => f[m] = g[m]}
<1>1. 0 \in M
    OBVIOUS
<1>2. \A m \in Nat : m \in M => m + 1 \in M
    <2> SUFFICES ASSUME NEW m \in Nat, m \in M, m + 1 <= n PROVE f[m + 1] = g[m + 1]
        OBVIOUS
    <2>1. m + 1 \in 1 .. n /\ (m + 1) - 1 = m /\ f[m] = g[m]
        OBVIOUS
    <2> QED
        BY <2>1
<1>3. Nat \subseteq M
    <2> HIDE DEF M
    <2> QED
        BY <1>1, <1>2, NumberInduction
<1> QED
    BY <1>3
=============================================================================
