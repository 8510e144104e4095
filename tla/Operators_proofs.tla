------------------------- MODULE Operators_proofs ---------------------------
(***************************************************************************)
(* Proofs about the pure algorithms, for inputs of any size: the labels of *)
(* a conversation, the percentile threshold, the balanced partitions, the  *)
(* answers of a call to the workers, the weights of the tokens and their   *)
(* credit.  Each theorem about an algorithm is followed, at the end, by    *)
(* the invariant of MCOperators it implies.                                *)
(*                                                                         *)
(* Sorting, sums and recursive functions come first.  What is proved by    *)
(* induction is proved of a set of numbers that holds 0 and the successor  *)
(* of each of its elements (Induction).                                    *)
(***************************************************************************)
EXTENDS MCOperators, SequenceTheorems, FiniteSetTheorems, FunctionTheorems,
        WellFoundedInduction, TLAPS

-----------------------------------------------------------------------------
(* Numbers, sorting and concatenation.                                     *)

(* Induction over the natural numbers, for sets.                           *)
LEMMA LeastNumber ==
  ASSUME NEW T \in SUBSET Nat, T # {}
  PROVE  \E x \in T : \A y \in T : x <= y
<1> DEFINE R == {ss \in Nat \X Nat : ss[1] < ss[2]}
<1>1. IsWellFoundedOn(R, Nat)
  BY NatLessThanWellFounded, Zenon DEF OpToRel
<1>2. \A x, y \in Nat : y < x => <<y, x>> \in R
  OBVIOUS
<1> HIDE DEF R
<1>3. PICK x \in T : \A y \in T : ~(<<y, x>> \in R)
  BY <1>1, WFMin
<1>4. ASSUME NEW y \in T PROVE x <= y
  <2>1. x \in Nat /\ y \in Nat /\ ~(y < x)
    BY <1>2, <1>3
  <2> QED BY <2>1
<1> QED BY <1>4

(* A set that holds 0, and n + 1 with every n, holds the numbers.          *)
LEMMA Induction ==
  ASSUME NEW S, 0 \in S, \A n \in Nat : n \in S => n + 1 \in S
  PROVE  Nat \subseteq S
<1> SUFFICES ASSUME Nat \ S # {} PROVE FALSE
  OBVIOUS
<1>1. PICK x \in Nat \ S : \A y \in Nat \ S : x <= y
  BY LeastNumber
<1>2. x # 0 /\ x \in Nat /\ x - 1 \in Nat
  BY <1>1
<1>3. x - 1 \in S
  BY <1>1, <1>2
<1> QED BY <1>1, <1>2, <1>3

(* A total order of 1 .. n ranks its elements from 1 to n.                 *)
LEMMA Ranks ==
  ASSUME NEW n \in Nat, NEW R,
         \A i \in 1 .. n : <<i, i>> \notin R,
         \A i, j \in 1 .. n : i # j => <<i, j>> \in R \/ <<j, i>> \in R,
         \A i, j, l \in 1 .. n : <<i, j>> \in R /\ <<j, l>> \in R => <<i, l>> \in R,
         NEW rank, rank = [i \in 1 .. n |-> 1 + Cardinality({j \in 1 .. n : <<j, i>> \in R})]
  PROVE  /\ rank \in Bijection(1 .. n, 1 .. n)
         /\ \A i, j \in 1 .. n : rank[i] < rank[j] <=> <<i, j>> \in R
<1> DEFINE below(i) == {j \in 1 .. n : <<j, i>> \in R}
<1>1. ASSUME NEW i \in 1 .. n
      PROVE  IsFiniteSet(below(i)) /\ Cardinality(below(i)) \in 0 .. n - 1
  <2>1. IsFiniteSet(1 .. n) /\ Cardinality(1 .. n) = n
    BY FS_Interval
  <2>2. below(i) \in SUBSET ((1 .. n) \ {i})
    OBVIOUS
  <2>3. IsFiniteSet((1 .. n) \ {i}) /\ Cardinality((1 .. n) \ {i}) = n - 1
    BY <2>1, FS_RemoveElement
  <2> HIDE DEF below
  <2> QED BY <2>2, <2>3, FS_Subset, FS_CardinalityType
<1>2. ASSUME NEW i \in 1 .. n, NEW j \in 1 .. n, <<i, j>> \in R
      PROVE  Cardinality(below(i)) < Cardinality(below(j))
  <2>1. below(i) \cup {i} \in SUBSET below(j) /\ i \notin below(i)
    BY <1>2
  <2>2. Cardinality(below(i) \cup {i}) = Cardinality(below(i)) + 1
    BY <1>1, <2>1, FS_AddElement
  <2>3. Cardinality(below(i) \cup {i}) <= Cardinality(below(j))
    BY <1>1, <2>1, FS_Subset
  <2> HIDE DEF below
  <2>4. Cardinality(below(i)) \in Nat /\ Cardinality(below(j)) \in Nat
    <3>1. Cardinality(below(i)) \in 0 .. n - 1 /\ Cardinality(below(j)) \in 0 .. n - 1
      BY <1>1
    <3> QED BY <3>1
  <2> QED BY <2>2, <2>3, <2>4
<1>3. \A i \in 1 .. n : rank[i] = 1 + Cardinality(below(i)) /\ Cardinality(below(i)) \in 0 .. n - 1
  BY <1>1
<1>4. \A i, j \in 1 .. n : <<i, j>> \in R => Cardinality(below(i)) < Cardinality(below(j))
  BY <1>2
<1> HIDE DEF below
<1>5. rank \in [1 .. n -> 1 .. n]
  BY <1>3
<1>6. \A i, j \in 1 .. n : <<i, j>> \in R => rank[i] < rank[j]
  <2> SUFFICES ASSUME NEW i \in 1 .. n, NEW j \in 1 .. n, <<i, j>> \in R
               PROVE  rank[i] < rank[j]
    OBVIOUS
  <2>1. PICK x, y : x = Cardinality(below(i)) /\ y = Cardinality(below(j))
    OBVIOUS
  <2>2. x < y
    BY <1>4, <2>1
  <2>3. x \in Int /\ y \in Int /\ rank[i] = 1 + x /\ rank[j] = 1 + y
    <3>1. rank[i] = 1 + Cardinality(below(i)) /\ Cardinality(below(i)) \in 0 .. n - 1
      BY <1>3
    <3>2. rank[j] = 1 + Cardinality(below(j)) /\ Cardinality(below(j)) \in 0 .. n - 1
      BY <1>3
    <3> QED BY <2>1, <3>1, <3>2
  <2> QED BY <2>2, <2>3
<1>7. \A i, j \in 1 .. n : rank[i] < rank[j] => <<i, j>> \in R
  <2> SUFFICES ASSUME NEW i \in 1 .. n, NEW j \in 1 .. n, rank[i] < rank[j], <<i, j>> \notin R
               PROVE  FALSE
    OBVIOUS
  <2>1. rank[i] \in 1 .. n /\ rank[j] \in 1 .. n
    BY <1>5
  <2>2. i # j
    BY <2>1
  <2>3. rank[j] < rank[i]
    BY <1>6, <2>2
  <2> QED BY <2>1, <2>3
<1>8. rank \in Injection(1 .. n, 1 .. n)
  <2>1. ASSUME NEW i \in 1 .. n, NEW j \in 1 .. n, rank[i] = rank[j] PROVE i = j
    <3>1. rank[i] \in 1 .. n /\ rank[j] \in 1 .. n
      BY <1>5
    <3> SUFFICES ASSUME i # j PROVE FALSE
      OBVIOUS
    <3>2. rank[i] < rank[j] \/ rank[j] < rank[i]
      BY <1>6
    <3> QED BY <2>1, <3>1, <3>2
  <2> QED BY <1>5, <2>1, Fun_IsInj
<1>9. rank \in Surjection(1 .. n, 1 .. n)
  BY <1>8, FS_Injection, FS_Interval
<1> QED BY <1>6, <1>7, <1>8, <1>9 DEF Bijection

(* What a bijection of 1 .. n is.                                          *)
LEMMA Reordering ==
  ASSUME NEW n \in Nat, NEW p \in Bijection(1 .. n, 1 .. n)
  PROVE  /\ p \in [1 .. n -> 1 .. n]
         /\ \A i, j \in 1 .. n : p[i] = p[j] => i = j
         /\ \A i \in 1 .. n : \E r \in 1 .. n : p[r] = i
<1>1. PICK S : S = 1 .. n
  OBVIOUS
<1>2. p \in Bijection(S, S)
  BY <1>1
<1>3. p \in [S -> S]
  BY <1>2, Fun_BijectionProperties
<1>4. \A i, j \in S : p[i] = p[j] => i = j
  BY <1>2, Fun_BijectionProperties
<1>5. \A i \in S : \E r \in S : p[r] = i
  BY <1>2, Fun_BijectionProperties
<1> QED BY <1>1, <1>3, <1>4, <1>5

(* The positions by rank are a reordering.                                 *)
LEMMA RankedReorders ==
  ASSUME NEW n \in Nat, NEW rank \in Bijection(1 .. n, 1 .. n)
  PROVE  /\ [r \in 1 .. n |-> Ranked(rank, r)] \in Bijection(1 .. n, 1 .. n)
         /\ \A r \in 1 .. n : Ranked(rank, r) \in 1 .. n /\ rank[Ranked(rank, r)] = r
<1> DEFINE p == [r \in 1 .. n |-> Ranked(rank, r)]
<1>1. /\ rank \in [1 .. n -> 1 .. n]
      /\ \A i, j \in 1 .. n : rank[i] = rank[j] => i = j
      /\ \A r \in 1 .. n : \E i \in 1 .. n : rank[i] = r
  BY Reordering
<1>2. \A r \in 1 .. n : Ranked(rank, r) \in 1 .. n /\ rank[Ranked(rank, r)] = r
  BY <1>1 DEF Ranked
<1>3. p \in [1 .. n -> 1 .. n] /\ \A r \in 1 .. n : p[r] = Ranked(rank, r)
  BY <1>2
<1> HIDE DEF p
<1>4. \A r, q \in 1 .. n : p[r] = p[q] => r = q
  BY <1>2, <1>3
<1>5. \A i \in 1 .. n : \E r \in 1 .. n : p[r] = i
  <2> SUFFICES ASSUME NEW i \in 1 .. n PROVE p[rank[i]] = i /\ rank[i] \in 1 .. n
    OBVIOUS
  <2>1. rank[i] \in 1 .. n
    BY <1>1
  <2>2. rank[p[rank[i]]] = rank[i] /\ p[rank[i]] \in 1 .. n
    BY <1>2, <1>3, <2>1
  <2> QED BY <1>1, <2>1, <2>2
<1>6. p \in Bijection(1 .. n, 1 .. n)
  BY <1>3, <1>4, <1>5, Fun_IsBij
<1> QED BY <1>2, <1>6 DEF p

StableRanks(n, L) ==
  [i \in 1 .. n |-> 1 + Cardinality({j \in 1 .. n : <<j, i>> \in L \/ (<<i, j>> \notin L /\ j < i)})]

(* What StableSort does when less, here as the pairs L of indices, is a    *)
(* weak order: it reorders, and nothing comes before what is less.         *)
LEMMA StableIndices ==
  ASSUME NEW n \in Nat, NEW L,
         \A i, j \in 1 .. n : <<i, j>> \in L => <<j, i>> \notin L,
         \A i, j, l \in 1 .. n : <<i, j>> \notin L /\ <<j, l>> \notin L => <<i, l>> \notin L,
         NEW rank, rank = StableRanks(n, L)
  PROVE  /\ [r \in 1 .. n |-> Ranked(rank, r)] \in Bijection(1 .. n, 1 .. n)
         /\ \A r, q \in 1 .. n : r < q => <<Ranked(rank, q), Ranked(rank, r)>> \notin L
<1> DEFINE B == {e \in (1 .. n) \X (1 .. n) :
                   <<e[1], e[2]>> \in L \/ (<<e[2], e[1]>> \notin L /\ e[1] < e[2])}
<1>1. \A i, j \in 1 .. n : <<i, j>> \in B <=> <<i, j>> \in L \/ (<<j, i>> \notin L /\ i < j)
  OBVIOUS
<1>2. rank = [i \in 1 .. n |-> 1 + Cardinality({j \in 1 .. n : <<j, i>> \in B})]
  <2>1. \A i \in 1 .. n : {j \in 1 .. n : <<j, i>> \in L \/ (<<i, j>> \notin L /\ j < i)}
                          = {j \in 1 .. n : <<j, i>> \in B}
    BY <1>1
  <2> HIDE DEF B
  <2> QED BY <2>1 DEF StableRanks
<1> HIDE DEF B
<1>3. \A i \in 1 .. n : <<i, i>> \notin B
  BY <1>1
<1>4. \A i, j \in 1 .. n : i # j => <<i, j>> \in B \/ <<j, i>> \in B
  <2> SUFFICES ASSUME NEW i \in 1 .. n, NEW j \in 1 .. n, i # j
               PROVE  <<i, j>> \in B \/ <<j, i>> \in B
    OBVIOUS
  <2>1. i < j \/ j < i
    OBVIOUS
  <2> QED BY <1>1, <2>1
<1>5. \A i, j, l \in 1 .. n : <<i, j>> \in B /\ <<j, l>> \in B => <<i, l>> \in B
  <2> SUFFICES ASSUME NEW i \in 1 .. n, NEW j \in 1 .. n, NEW l \in 1 .. n,
                      <<i, j>> \in B, <<j, l>> \in B, <<i, l>> \notin B
               PROVE  FALSE
    OBVIOUS
  <2>1. <<j, i>> \notin L /\ <<l, j>> \notin L
    BY <1>1
  <2>2. <<l, i>> \notin L
    BY <2>1
  <2>3. <<i, l>> \notin L /\ ~(i < l)
    BY <1>1, <2>2
  <2>4. <<i, j>> \in L \/ <<j, l>> \in L
    <3> SUFFICES ASSUME <<i, j>> \notin L, <<j, l>> \notin L PROVE FALSE
      OBVIOUS
    <3>1. i < j /\ j < l
      BY <1>1
    <3> QED BY <2>3, <3>1
  <2>5. CASE <<i, j>> \in L
    <3>1. <<j, l>> \in L
      BY <2>3, <2>5, <2>1
    <3> QED BY <2>2, <2>3, <3>1, <2>5, <2>1
  <2>6. CASE <<j, l>> \in L
    BY <2>1, <2>2, <2>3, <2>6
  <2> QED BY <2>4, <2>5, <2>6
<1>6. /\ rank \in Bijection(1 .. n, 1 .. n)
      /\ \A i, j \in 1 .. n : rank[i] < rank[j] <=> <<i, j>> \in B
  BY <1>2, <1>3, <1>4, <1>5, Ranks
<1>7. /\ [r \in 1 .. n |-> Ranked(rank, r)] \in Bijection(1 .. n, 1 .. n)
      /\ \A r \in 1 .. n : Ranked(rank, r) \in 1 .. n /\ rank[Ranked(rank, r)] = r
  BY <1>6, RankedReorders
<1>8. ASSUME NEW r \in 1 .. n, NEW q \in 1 .. n, r < q
      PROVE  <<Ranked(rank, q), Ranked(rank, r)>> \notin L
  <2>1. Ranked(rank, r) \in 1 .. n /\ Ranked(rank, q) \in 1 .. n
    BY <1>7
  <2>2. rank[Ranked(rank, r)] = r /\ rank[Ranked(rank, q)] = q
    BY <1>7
  <2>3. <<Ranked(rank, r), Ranked(rank, q)>> \in B
    BY <1>6, <1>8, <2>1, <2>2
  <2> QED BY <1>1, <2>1, <2>3
<1> QED BY <1>7, <1>8

(* A function on 1 .. n is a sequence, and evaluating it changes nothing.  *)
LEMMA SameSeq ==
  ASSUME NEW n \in Nat, NEW S, NEW s \in [1 .. n -> S]
  PROVE  s \in Seq(S) /\ Len(s) = n /\ DOMAIN s = 1 .. n /\ Evaluated(s) = s
<1>1. s \in Seq(S) /\ Len(s) = n
  OBVIOUS
<1> QED BY <1>1, SubSeqFull DEF Evaluated

Stable(s, L) == Evaluated([r \in DOMAIN s |-> s[Ranked(Evaluated(StableRanks(Len(s), L)), r)]])

(* A stable sort is a reordering, in which nothing is before what is less. *)
LEMMA StableReorders ==
  ASSUME NEW S, NEW s \in Seq(S), NEW L,
         \A i, j \in 1 .. Len(s) : <<i, j>> \in L => <<j, i>> \notin L,
         \A i, j, l \in 1 .. Len(s) : <<i, j>> \notin L /\ <<j, l>> \notin L => <<i, l>> \notin L
  PROVE  \E p \in Bijection(1 .. Len(s), 1 .. Len(s)) :
           /\ Stable(s, L) = [r \in 1 .. Len(s) |-> s[p[r]]]
           /\ \A r, q \in 1 .. Len(s) : r < q => <<p[q], p[r]>> \notin L
<1> DEFINE n == Len(s)
           rank == StableRanks(n, L)
           p == [r \in 1 .. n |-> Ranked(rank, r)]
<1>1. n \in Nat /\ s \in [1 .. n -> S] /\ DOMAIN s = 1 .. n
  BY LenProperties
<1>2. /\ p \in Bijection(1 .. n, 1 .. n)
      /\ \A r, q \in 1 .. n : r < q => <<Ranked(rank, q), Ranked(rank, r)>> \notin L
  BY <1>1, StableIndices
<1>3. Evaluated(rank) = rank
  <2>1. rank \in [1 .. n -> {rank[x] : x \in 1 .. n}]
    BY DEF StableRanks
  <2> QED BY <1>1, <2>1, SameSeq
<1>4. \A r \in 1 .. n : p[r] = Ranked(rank, r)
  OBVIOUS
<1>5. [r \in 1 .. n |-> s[Ranked(rank, r)]] = [r \in 1 .. n |-> s[p[r]]]
  OBVIOUS
<1>6. Stable(s, L) = Evaluated([r \in 1 .. n |-> s[Ranked(rank, r)]])
  <2> HIDE DEF p
  <2> QED BY <1>1, <1>3 DEF Stable
<1> HIDE DEF p
<1>7. [r \in 1 .. n |-> s[p[r]]] \in [1 .. n -> S]
  <2>1. p \in [1 .. n -> 1 .. n]
    BY <1>2, Fun_BijectionProperties
  <2> QED BY <1>1, <2>1
<1>8. Stable(s, L) = [r \in 1 .. n |-> s[p[r]]]
  BY <1>1, <1>5, <1>6, <1>7, SameSeq
<1>9. \A r, q \in 1 .. n : r < q => <<p[q], p[r]>> \notin L
  BY <1>2, <1>4
<1> QED BY <1>2, <1>8, <1>9

(* sorted of numbers.                                                      *)
LEMMA SortNumbers ==
  ASSUME NEW s \in Seq(Int)
  PROVE  \E p \in Bijection(1 .. Len(s), 1 .. Len(s)) :
           /\ StableSort(s, <) = [r \in 1 .. Len(s) |-> s[p[r]]]
           /\ \A r, q \in 1 .. Len(s) : r < q => s[p[r]] <= s[p[q]]
<1> DEFINE n == Len(s)
           L == {e \in (1 .. n) \X (1 .. n) : s[e[1]] < s[e[2]]}
<1>1. n \in Nat /\ s \in [1 .. n -> Int] /\ Evaluated(s) = s /\ DOMAIN s = 1 .. n
  BY LenProperties, SameSeq
<1>2. \A i, j \in 1 .. n : <<i, j>> \in L <=> s[i] < s[j]
  OBVIOUS
<1>3. \A i \in 1 .. n : s[i] \in Int
  BY <1>1
<1> HIDE DEF L
<1>4. StableSort(s, <) = Stable(s, L)
  <2>1. Rank(s, <) = StableRanks(n, L)
    <3>1. \A i, j \in 1 .. n : s[j] < s[i] \/ (~(s[i] < s[j]) /\ j < i)
                               <=> <<j, i>> \in L \/ (<<i, j>> \notin L /\ j < i)
      BY <1>2
    <3> QED BY <1>1, <3>1 DEF Rank, Before, StableRanks
  <2> QED BY <1>1, <2>1 DEF StableSort, Stable
<1>5. \A i, j \in 1 .. n : <<i, j>> \in L => <<j, i>> \notin L
  BY <1>2, <1>3
<1>6. \A i, j, l \in 1 .. n : <<i, j>> \notin L /\ <<j, l>> \notin L => <<i, l>> \notin L
  <2> SUFFICES ASSUME NEW i \in 1 .. n, NEW j \in 1 .. n, NEW l \in 1 .. n,
                      ~(s[i] < s[j]), ~(s[j] < s[l])
               PROVE  ~(s[i] < s[l])
    BY <1>2
  <2> QED BY <1>3
<1>7. PICK p \in Bijection(1 .. n, 1 .. n) :
        /\ Stable(s, L) = [r \in 1 .. n |-> s[p[r]]]
        /\ \A r, q \in 1 .. n : r < q => <<p[q], p[r]>> \notin L
  BY <1>5, <1>6, StableReorders
<1>8. \A r, q \in 1 .. n : r < q => s[p[r]] <= s[p[q]]
  <2> SUFFICES ASSUME NEW r \in 1 .. n, NEW q \in 1 .. n, r < q PROVE s[p[r]] <= s[p[q]]
    OBVIOUS
  <2>1. p[r] \in 1 .. n /\ p[q] \in 1 .. n
    <3>1. p \in [1 .. n -> 1 .. n]
      BY Fun_BijectionProperties
    <3> QED BY <3>1
  <2>2. s[p[r]] \in Int /\ s[p[q]] \in Int
    BY <1>3, <2>1
  <2>3. ~(s[p[q]] < s[p[r]])
    BY <1>2, <1>7, <2>1
  <2> QED BY <2>2, <2>3
<1> QED BY <1>4, <1>7, <1>8

(* What FlattenSeq computes, step by step.                                 *)
FlattensUpto(m, f, parts) ==
  /\ f[0] = <<>>
  /\ \A i \in 1 .. m : f[i] = f[i - 1] \o parts[i]

(* The flattened prefixes of a sequence of sequences exist.                *)
LEMMA FlattenExists ==
  ASSUME NEW S, NEW parts \in Seq(Seq(S))
  PROVE  \E f \in [0 .. Len(parts) -> Seq(S)] : FlattensUpto(Len(parts), f, parts)
<1> DEFINE n == Len(parts)
           Ok(m) == m <= n => \E f \in [0 .. m -> Seq(S)] : FlattensUpto(m, f, parts)
<1>1. Ok(0)
  <2>1. [i \in 0 .. 0 |-> <<>>] \in [0 .. 0 -> Seq(S)]
    OBVIOUS
  <2>2. FlattensUpto(0, [i \in 0 .. 0 |-> <<>>], parts)
    BY DEF FlattensUpto
  <2> QED BY <2>1, <2>2
<1>2. ASSUME NEW m \in Nat, Ok(m) PROVE Ok(m + 1)
  <2> SUFFICES ASSUME m + 1 <= n
               PROVE  \E f \in [0 .. m + 1 -> Seq(S)] : FlattensUpto(m + 1, f, parts)
    OBVIOUS
  <2>1. n \in Nat
    BY LenProperties
  <2>2. PICK f \in [0 .. m -> Seq(S)] : FlattensUpto(m, f, parts)
    <3>1. m <= n
      BY <2>1
    <3> QED BY <1>2, <3>1
  <2> DEFINE g == [i \in 0 .. m + 1 |-> IF i <= m THEN f[i] ELSE f[m] \o parts[m + 1]]
  <2>3. parts[m + 1] \in Seq(S)
    BY <2>1, ElementOfSeq
  <2>4. f[m] \o parts[m + 1] \in Seq(S)
    BY <2>3, ConcatProperties
  <2>5. g \in [0 .. m + 1 -> Seq(S)]
    BY <2>4
  <2>6. /\ \A i \in 0 .. m : g[i] = f[i]
        /\ g[m + 1] = f[m] \o parts[m + 1]
    OBVIOUS
  <2> HIDE DEF g
  <2>7. FlattensUpto(m + 1, g, parts)
    <3>1. g[0] = <<>>
      <4>1. 0 \in 0 .. m
        OBVIOUS
      <4>2. f[0] = <<>>
        BY <2>2 DEF FlattensUpto
      <4> QED BY <2>6, <4>1, <4>2
    <3>2. ASSUME NEW i \in 1 .. m + 1 PROVE g[i] = g[i - 1] \o parts[i]
      <4>1. CASE i <= m
        <5>1. i \in 0 .. m /\ i - 1 \in 0 .. m /\ i \in 1 .. m
          BY <4>1
        <5> QED BY <2>2, <2>6, <5>1 DEF FlattensUpto
      <4>2. CASE i = m + 1
        <5>1. i - 1 = m /\ m \in 0 .. m
          BY <4>2
        <5> QED BY <2>6, <4>2, <5>1
      <4>3. i <= m \/ i = m + 1
        OBVIOUS
      <4> QED BY <4>1, <4>2, <4>3
    <3> QED BY <3>1, <3>2 DEF FlattensUpto
  <2> QED BY <2>5, <2>7
<1> HIDE DEF Ok
<1>3. \A m \in Nat : Ok(m)
  <2> DEFINE E == {m \in Nat : Ok(m)}
  <2>1. 0 \in E
    BY <1>1
  <2>2. \A m \in Nat : m \in E => m + 1 \in E
    BY <1>2
  <2> HIDE DEF E
  <2>3. Nat \subseteq E
    BY <2>1, <2>2, Induction
  <2> QED BY <2>3 DEF E
<1>4. n \in Nat
  BY LenProperties
<1>5. Ok(n)
  BY <1>3, <1>4
<1> QED BY <1>4, <1>5 DEF Ok

(* FlattenSeq is the last of them.                                         *)
LEMMA FlattenLast ==
  ASSUME NEW S, NEW parts \in Seq(Seq(S)),
         NEW f \in [0 .. Len(parts) -> Seq(S)], FlattensUpto(Len(parts), f, parts)
  PROVE  FlattenSeq(parts) = f[Len(parts)]
<1> DEFINE n == Len(parts)
<1>1. n \in Nat
  BY LenProperties
<1>2. CASE n = 0
  BY <1>2, EmptySeq DEF FlattenSeq, FlattensUpto
<1>3. CASE n > 0
  <2> DEFINE Eq(g) == g = [i \in 1 .. n |-> IF i = 1 THEN parts[i] ELSE g[i - 1] \o parts[i]]
             h == [i \in 1 .. n |-> f[i]]
             flatten == CHOOSE g : Eq(g)
  <2>1. Eq(h)
    <3>1. ASSUME NEW i \in 1 .. n
          PROVE  h[i] = IF i = 1 THEN parts[i] ELSE h[i - 1] \o parts[i]
      <4>1. f[i] = f[i - 1] \o parts[i]
        BY DEF FlattensUpto
      <4>2. CASE i = 1
        <5>1. parts[1] \in Seq(S) /\ f[0] = <<>>
          BY <1>3, ElementOfSeq DEF FlattensUpto
        <5>2. f[1] = parts[1]
          <6>1. f[1] = <<>> \o parts[1]
            <7>1. i = 1 /\ i - 1 = 0
              BY <4>2
            <7> QED BY <4>1, <5>1, <7>1
          <6> QED BY <5>1, <6>1, ConcatEmptySeq
        <5> QED BY <4>2, <5>2
      <4>3. CASE i # 1
        <5>1. i - 1 \in 1 .. n
          BY <4>3
        <5> QED BY <4>1, <4>3, <5>1
      <4> QED BY <4>2, <4>3
    <3> QED BY <3>1
  <2>2. Eq(flatten)
    <3> HIDE DEF h, Eq
    <3> QED BY <2>1
  <2>3. FlattenSeq(parts) = flatten[n]
    BY <1>3 DEF FlattenSeq
  <2> HIDE DEF flatten
  <2>4. \A i \in 1 .. n : flatten[i] = IF i = 1 THEN parts[i] ELSE flatten[i - 1] \o parts[i]
    BY <2>2
  <2>5. \A i \in 1 .. n : h[i] = IF i = 1 THEN parts[i] ELSE h[i - 1] \o parts[i]
    BY <2>1
  <2> DEFINE Ok(m) == m + 1 <= n => flatten[m + 1] = h[m + 1]
  <2> HIDE DEF h
  <2>6. Ok(0)
    BY <1>3, <2>4, <2>5
  <2>7. ASSUME NEW m \in Nat, Ok(m) PROVE Ok(m + 1)
    <3> SUFFICES ASSUME m + 2 <= n PROVE flatten[m + 2] = h[m + 2]
      BY <1>1
    <3>1. m + 2 \in 1 .. n /\ m + 2 # 1 /\ (m + 2) - 1 = m + 1 /\ flatten[m + 1] = h[m + 1]
      BY <1>1, <2>7
    <3> QED BY <2>4, <2>5, <3>1
  <2> HIDE DEF Ok
  <2>8. \A m \in Nat : Ok(m)
    <3> DEFINE E == {m \in Nat : Ok(m)}
    <3>1. 0 \in E
      BY <2>6
    <3>2. \A m \in Nat : m \in E => m + 1 \in E
      BY <2>7
    <3> HIDE DEF E
    <3>3. Nat \subseteq E
      BY <3>1, <3>2, Induction
    <3> QED BY <3>3 DEF E
  <2>9. flatten[n] = h[n]
    <3>1. n - 1 \in Nat /\ (n - 1) + 1 = n
      BY <1>1, <1>3
    <3>2. Ok(n - 1)
      BY <2>8, <3>1
    <3> QED BY <3>1, <3>2 DEF Ok
  <2> QED BY <1>3, <2>3, <2>9 DEF h
<1> QED BY <1>1, <1>2, <1>3

(* off[i] elements of the flattened sequence come from the parts up to i.  *)
Offsets(off, parts) ==
  /\ off \in [0 .. Len(parts) -> Nat]
  /\ off[0] = 0
  /\ \A i \in 1 .. Len(parts) : off[i] = off[i - 1] + Len(parts[i])

(* Where each part starts in the flattened sequence.                       *)
LEMMA OffsetsExist ==
  ASSUME NEW S, NEW parts \in Seq(Seq(S))
  PROVE  \E off : Offsets(off, parts)
<1>1. PICK f \in [0 .. Len(parts) -> Seq(S)] : FlattensUpto(Len(parts), f, parts)
  BY FlattenExists
<1> DEFINE off == [i \in 0 .. Len(parts) |-> Len(f[i])]
<1>2. Len(parts) \in Nat
  BY LenProperties
<1>3. off \in [0 .. Len(parts) -> Nat] /\ \A i \in 0 .. Len(parts) : off[i] = Len(f[i])
  BY LenProperties
<1> HIDE DEF off
<1>4. off[0] = 0
  BY <1>1, <1>2, <1>3, EmptySeq DEF FlattensUpto
<1>5. ASSUME NEW i \in 1 .. Len(parts) PROVE off[i] = off[i - 1] + Len(parts[i])
  <2>1. i \in 0 .. Len(parts) /\ i - 1 \in 0 .. Len(parts) /\ parts[i] \in Seq(S)
    BY <1>2, ElementOfSeq
  <2>2. f[i] = f[i - 1] \o parts[i] /\ f[i - 1] \in Seq(S)
    BY <1>1, <2>1 DEF FlattensUpto
  <2>3. Len(f[i - 1] \o parts[i]) = Len(f[i - 1]) + Len(parts[i])
    BY <2>1, <2>2, ConcatProperties
  <2> QED BY <1>3, <2>1, <2>2, <2>3
<1> QED BY <1>3, <1>4, <1>5 DEF Offsets

(* The parts follow each other.                                            *)
LEMMA OffsetsIncrease ==
  ASSUME NEW S, NEW parts \in Seq(Seq(S)), NEW off, Offsets(off, parts)
  PROVE  \A k \in 0 .. Len(parts) : \A i \in 0 .. k : off[i] <= off[k]
<1> DEFINE Ok(k) == k <= Len(parts) => \A i \in 0 .. k : off[i] <= off[k]
<1>1. Len(parts) \in Nat
  BY LenProperties
<1>2. \A i \in 0 .. Len(parts) : off[i] \in Nat
  BY DEF Offsets
<1>3. \A i \in 1 .. Len(parts) : Len(parts[i]) \in Nat
  BY ElementOfSeq, LenProperties
<1>4. Ok(0)
  BY <1>1, <1>2
<1>5. ASSUME NEW k \in Nat, Ok(k) PROVE Ok(k + 1)
  <2> SUFFICES ASSUME k + 1 <= Len(parts), NEW i \in 0 .. k + 1 PROVE off[i] <= off[k + 1]
    OBVIOUS
  <2>1. k + 1 \in 1 .. Len(parts) /\ (k + 1) - 1 = k /\ k \in 0 .. Len(parts)
    BY <1>1
  <2>2. off[k + 1] = off[k] + Len(parts[k + 1]) /\ Len(parts[k + 1]) \in Nat
    BY <1>3, <2>1 DEF Offsets
  <2>3. off[k] \in Nat /\ off[k + 1] \in Nat /\ off[k] <= off[k + 1]
    BY <1>2, <2>1, <2>2
  <2>4. CASE i <= k
    <3>1. off[i] <= off[k] /\ off[i] \in Nat
      BY <1>1, <1>2, <1>5, <2>1, <2>4
    <3> QED BY <2>3, <3>1
  <2>5. CASE i = k + 1
    BY <2>3, <2>5
  <2>6. i <= k \/ i = k + 1
    OBVIOUS
  <2> QED BY <2>4, <2>5, <2>6
<1> HIDE DEF Ok
<1>6. \A k \in Nat : Ok(k)
  <2> DEFINE E == {k \in Nat : Ok(k)}
  <2>1. 0 \in E
    BY <1>4
  <2>2. \A k \in Nat : k \in E => k + 1 \in E
    BY <1>5
  <2> HIDE DEF E
  <2>3. Nat \subseteq E
    BY <2>1, <2>2, Induction
  <2> QED BY <2>3 DEF E
<1> QED BY <1>1, <1>6 DEF Ok

(* Every position of the flattened sequence is in a part.                  *)
LEMMA OffsetsCover ==
  ASSUME NEW S, NEW parts \in Seq(Seq(S)), NEW off, Offsets(off, parts),
         NEW t \in 1 .. off[Len(parts)]
  PROVE  \E i \in 1 .. Len(parts) : /\ off[i - 1] < t /\ t <= off[i]
                                    /\ t - off[i - 1] \in 1 .. Len(parts[i])
<1> DEFINE T == {i \in 0 .. Len(parts) : t <= off[i]}
<1>1. Len(parts) \in Nat /\ off[0] = 0 /\ \A i \in 0 .. Len(parts) : off[i] \in Nat
  BY LenProperties DEF Offsets
<1>2. T \in SUBSET Nat /\ Len(parts) \in T
  BY <1>1
<1>3. PICK i \in T : \A k \in T : i <= k
  BY <1>2, LeastNumber
<1>4. i # 0 /\ i \in 1 .. Len(parts) /\ i - 1 \in 0 .. Len(parts) /\ i \in 0 .. Len(parts)
  BY <1>1
<1>5. off[i] = off[i - 1] + Len(parts[i]) /\ Len(parts[i]) \in Nat
  BY <1>4, ElementOfSeq, LenProperties DEF Offsets
<1>6. i - 1 \notin T
  BY <1>3, <1>4
<1>8. off[i - 1] \in Nat /\ t \in Int
  BY <1>1, <1>4
<1>7. off[i - 1] < t /\ t <= off[i]
  <2>1. ~(t <= off[i - 1])
    BY <1>4, <1>6
  <2>2. t <= off[i]
    BY <1>3
  <2> QED BY <1>8, <2>1, <2>2
<1>9. t - off[i - 1] \in 1 .. Len(parts[i])
  BY <1>5, <1>7, <1>8
<1> QED BY <1>4, <1>7, <1>9

(* The elements of the flattened sequence, part by part.                   *)
LEMMA FlattenParts ==
  ASSUME NEW S, NEW parts \in Seq(Seq(S)), NEW off, Offsets(off, parts)
  PROVE  /\ FlattenSeq(parts) \in Seq(S)
         /\ Len(FlattenSeq(parts)) = off[Len(parts)]
         /\ \A i \in 1 .. Len(parts) : \A j \in 1 .. Len(parts[i]) :
              FlattenSeq(parts)[off[i - 1] + j] = parts[i][j]
<1>1. PICK f : f \in [0 .. Len(parts) -> Seq(S)] /\ FlattensUpto(Len(parts), f, parts)
  BY FlattenExists
<1>2. FlattenSeq(parts) = f[Len(parts)]
  BY <1>1, FlattenLast
<1>3. /\ Len(parts) \in Nat /\ off[0] = 0
      /\ \A i \in 0 .. Len(parts) : off[i] \in Nat
      /\ \A i \in 1 .. Len(parts) : /\ off[i] = off[i - 1] + Len(parts[i])
                                    /\ parts[i] \in Seq(S) /\ Len(parts[i]) \in Nat
                                    /\ f[i] = f[i - 1] \o parts[i]
      /\ f[0] = <<>>
  BY <1>1, LenProperties, ElementOfSeq DEF Offsets, FlattensUpto
<1> DEFINE Ok(k) == k <= Len(parts) =>
             /\ Len(f[k]) = off[k]
             /\ \A i \in 1 .. k : \A j \in 1 .. Len(parts[i]) : f[k][off[i - 1] + j] = parts[i][j]
<1>4. Ok(0)
  BY <1>3, EmptySeq
<1>5. ASSUME NEW k \in Nat, Ok(k) PROVE Ok(k + 1)
  <2> SUFFICES ASSUME k + 1 <= Len(parts)
               PROVE  /\ Len(f[k + 1]) = off[k + 1]
                      /\ \A i \in 1 .. k + 1 : \A j \in 1 .. Len(parts[i]) :
                           f[k + 1][off[i - 1] + j] = parts[i][j]
    OBVIOUS
  <2>0. Len(parts) \in Nat
    BY <1>3
  <2>1. k + 1 \in 1 .. Len(parts) /\ (k + 1) - 1 = k /\ k \in 0 .. Len(parts)
    BY <2>0
  <2>9. f[k] \in Seq(S)
    BY <1>1, <2>1
  <2>2. /\ f[k + 1] = f[k] \o parts[k + 1] /\ parts[k + 1] \in Seq(S)
        /\ off[k + 1] = off[k] + Len(parts[k + 1])
    BY <1>3, <2>1
  <2>3. Len(f[k]) = off[k] /\ off[k] \in Nat /\ Len(parts[k + 1]) \in Nat
    BY <1>3, <1>5, <2>1
  <2>4. /\ Len(f[k + 1]) = off[k] + Len(parts[k + 1])
        /\ \A x \in 1 .. off[k] + Len(parts[k + 1]) :
             f[k + 1][x] = IF x <= off[k] THEN f[k][x] ELSE parts[k + 1][x - off[k]]
    <3>1. /\ Len(f[k + 1]) = Len(f[k]) + Len(parts[k + 1])
          /\ \A x \in 1 .. Len(f[k]) + Len(parts[k + 1]) :
               f[k + 1][x] = IF x <= Len(f[k]) THEN f[k][x] ELSE parts[k + 1][x - Len(f[k])]
      <4>1. PICK s, t, r : s = f[k] /\ t = parts[k + 1] /\ r = f[k + 1]
        OBVIOUS
      <4>2. s \in Seq(S) /\ t \in Seq(S) /\ r = s \o t
        BY <2>2, <2>9, <4>1
      <4>3. /\ Len(r) = Len(s) + Len(t)
            /\ \A x \in 1 .. Len(s) + Len(t) : r[x] = IF x <= Len(s) THEN s[x] ELSE t[x - Len(s)]
        BY <4>2, ConcatProperties
      <4> QED BY <4>1, <4>3
    <3> QED BY <2>3, <3>1
  <2>5. ASSUME NEW i \in 1 .. k + 1, NEW j \in 1 .. Len(parts[i])
        PROVE  f[k + 1][off[i - 1] + j] = parts[i][j]
    <3>1. CASE i = k + 1
      <4>1. off[i - 1] + j = off[k] + j /\ off[k] + j \in 1 .. off[k] + Len(parts[k + 1])
        BY <2>1, <2>3, <3>1
      <4>2. ~(off[k] + j <= off[k]) /\ (off[k] + j) - off[k] = j
        BY <2>3
      <4> QED BY <2>4, <3>1, <4>1, <4>2
    <3>2. CASE i <= k
      <4>1. i \in 1 .. Len(parts) /\ i \in 0 .. k /\ i - 1 \in 0 .. Len(parts) /\ i \in 1 .. k
        BY <2>0, <2>1, <3>2
      <4>2. off[i] <= off[k]
        BY <2>1, <4>1, OffsetsIncrease
      <4>3. off[i - 1] \in Nat /\ off[i] = off[i - 1] + Len(parts[i]) /\ Len(parts[i]) \in Nat
        BY <1>3, <4>1
      <4>4. off[i - 1] + j \in 1 .. off[k] + Len(parts[k + 1]) /\ off[i - 1] + j <= off[k]
        <5>1. off[i - 1] + j <= off[i]
          BY <4>3
        <5>2. off[i] \in Int /\ off[i - 1] + j \in Int /\ 1 <= off[i - 1] + j
          BY <4>3
        <5>3. off[i - 1] + j <= off[k]
          BY <2>3, <4>2, <5>1, <5>2, SMTT(30)
        <5> QED BY <2>3, <5>2, <5>3, SMTT(30)
      <4>5. f[k][off[i - 1] + j] = parts[i][j]
        BY <1>5, <2>1, <4>1
      <4> QED BY <2>4, <4>4, <4>5
    <3>3. i = k + 1 \/ i <= k
      OBVIOUS
    <3> QED BY <3>1, <3>2, <3>3
  <2> QED BY <2>2, <2>4, <2>5
<1> HIDE DEF Ok
<1>6. \A k \in Nat : Ok(k)
  <2> DEFINE E == {k \in Nat : Ok(k)}
  <2>1. 0 \in E
    BY <1>4
  <2>2. \A k \in Nat : k \in E => k + 1 \in E
    BY <1>5
  <2> HIDE DEF E
  <2>3. Nat \subseteq E
    BY <2>1, <2>2, Induction
  <2> QED BY <2>3 DEF E
<1>7. Ok(Len(parts)) /\ f[Len(parts)] \in Seq(S)
  BY <1>1, <1>3, <1>6
<1> QED BY <1>2, <1>3, <1>7 DEF Ok

-----------------------------------------------------------------------------
(* encode_sft_example.                                                     *)

(* The first elements of a sequence.                                       *)
LEMMA Prefix ==
  ASSUME NEW S, NEW s \in Seq(S), NEW m \in 0 .. Len(s)
  PROVE  /\ SubSeq(s, 1, m) \in Seq(S)
         /\ Len(SubSeq(s, 1, m)) = m
         /\ \A i \in 1 .. m : SubSeq(s, 1, m)[i] = s[i]
  BY LenProperties, SubSeqProperties

TokenSet == Nat \X {"preamble", "header", "body", "end"}

(* A message has a header, its body and an end.                            *)
LEMMA TokensOf ==
  ASSUME NEW message, message.length \in Nat, NEW place \in Nat
  PROVE  /\ Tokens(message, place) \in Seq(TokenSet)
         /\ Len(Tokens(message, place)) = message.length + 2
         /\ \A j \in 1 .. message.length + 2 :
              Tokens(message, place)[j] = <<place, IF j = 1 THEN "header"
                                                   ELSE IF j = message.length + 2 THEN "end" ELSE "body">>
<1>1. PICK n, a, b, c, h : /\ n = message.length /\ a = <<<<place, "header">>>> /\ h = 1
                           /\ b = [i \in 1 .. n |-> <<place, "body">>] /\ c = <<<<place, "end">>>>
  OBVIOUS
<1>2. n \in Nat
  BY <1>1
<1>3. a \in Seq(TokenSet) /\ Len(a) = h /\ a[1] = <<place, "header">>
  BY <1>1 DEF TokenSet
<1>4. c \in Seq(TokenSet) /\ Len(c) = h /\ c[1] = <<place, "end">>
  BY <1>1 DEF TokenSet
<1>5. b \in Seq(TokenSet) /\ Len(b) = n /\ \A i \in 1 .. n : b[i] = <<place, "body">>
  <2>1. b \in [1 .. n -> TokenSet]
    BY <1>1 DEF TokenSet
  <2> QED BY <1>1, <1>2, <2>1, SameSeq
<1>6. PICK ab, abc : ab = a \o b /\ abc = ab \o c
  OBVIOUS
<1>7. /\ ab \in Seq(TokenSet) /\ Len(ab) = 1 + n
      /\ \A i \in 1 .. 1 + n : ab[i] = IF i <= 1 THEN a[i] ELSE b[i - 1]
  <2>1. /\ ab \in Seq(TokenSet) /\ Len(ab) = h + n
        /\ \A i \in 1 .. h + n : ab[i] = IF i <= h THEN a[i] ELSE b[i - h]
    <3>1. a \in Seq(TokenSet) /\ b \in Seq(TokenSet) /\ Len(a) = h /\ Len(b) = n /\ ab = a \o b
      BY <1>3, <1>5, <1>6
    <3> QED BY <3>1, ConcatProperties
  <2> QED BY <1>1, <2>1
<1>8. /\ abc \in Seq(TokenSet) /\ Len(abc) = (1 + n) + 1
      /\ \A i \in 1 .. (1 + n) + 1 : abc[i] = IF i <= 1 + n THEN ab[i] ELSE c[i - (1 + n)]
  <2>1. PICK k : k = 1 + n
    OBVIOUS
  <2>2. ab \in Seq(TokenSet) /\ Len(ab) = k
    BY <1>7, <2>1
  <2>3. /\ abc \in Seq(TokenSet) /\ Len(abc) = k + h
        /\ \A i \in 1 .. k + h : abc[i] = IF i <= k THEN ab[i] ELSE c[i - k]
    <3>1. c \in Seq(TokenSet) /\ Len(c) = h /\ abc = ab \o c
      BY <1>4, <1>6
    <3> QED BY <2>2, <3>1, ConcatProperties
  <2> QED BY <1>1, <2>1, <2>3
<1>9. (1 + n) + 1 = n + 2
  BY <1>2
<1>10. ASSUME NEW j \in 1 .. n + 2
       PROVE  abc[j] = <<place, IF j = 1 THEN "header" ELSE IF j = n + 2 THEN "end" ELSE "body">>
  <2>1. CASE j = 1
    <3>1. j \in 1 .. (1 + n) + 1 /\ j <= 1 + n /\ j \in 1 .. 1 + n /\ j <= 1
      BY <1>2, <2>1
    <3> QED BY <1>3, <1>7, <1>8, <2>1, <3>1
  <2>2. CASE j = n + 2
    <3>1. j \in 1 .. (1 + n) + 1 /\ ~(j <= 1 + n) /\ j - (1 + n) = 1 /\ j # 1
      BY <1>2, <2>2
    <3> QED BY <1>4, <1>8, <2>2, <3>1
  <2>3. CASE j # 1 /\ j # n + 2
    <3>1. j \in 1 .. (1 + n) + 1 /\ j <= 1 + n /\ j \in 1 .. 1 + n /\ ~(j <= 1) /\ j - 1 \in 1 .. n
      BY <1>2, <2>3
    <3> QED BY <1>5, <1>7, <1>8, <2>3, <3>1
  <2> QED BY <2>1, <2>2, <2>3
<1>11. Tokens(message, place) = abc
  BY <1>1, <1>6 DEF Tokens
<1> QED BY <1>1, <1>8, <1>9, <1>10, <1>11

(* Messages, whatever the roles, and the tokens of every message of a      *)
(* conversation.                                                           *)
MessageSet(Role) == [role : Role, length : Nat]
PartsOf(messages) == [i \in 1 .. Len(messages) |-> Tokens(messages[i], i)]

(* The parts of a chat are the tokens of its messages.                     *)
LEMMA PartsAreTokens ==
  ASSUME NEW Role, NEW messages \in Seq(MessageSet(Role))
  PROVE  /\ PartsOf(messages) \in Seq(Seq(TokenSet))
         /\ Len(PartsOf(messages)) = Len(messages)
         /\ \A i \in 1 .. Len(messages) :
              /\ messages[i].length \in Nat
              /\ PartsOf(messages)[i] = Tokens(messages[i], i)
              /\ Len(PartsOf(messages)[i]) = messages[i].length + 2
<1>1. Len(messages) \in Nat /\ \A i \in 1 .. Len(messages) : messages[i] \in MessageSet(Role)
  BY LenProperties, ElementOfSeq
<1>2. \A i \in 1 .. Len(messages) :
        /\ messages[i].length \in Nat
        /\ Tokens(messages[i], i) \in Seq(TokenSet)
        /\ Len(Tokens(messages[i], i)) = messages[i].length + 2
  <2> SUFFICES ASSUME NEW i \in 1 .. Len(messages)
               PROVE  /\ messages[i].length \in Nat
                      /\ Tokens(messages[i], i) \in Seq(TokenSet)
                      /\ Len(Tokens(messages[i], i)) = messages[i].length + 2
    OBVIOUS
  <2>1. messages[i].length \in Nat /\ i \in Nat
    BY <1>1 DEF MessageSet
  <2> QED BY <2>1, TokensOf
<1>3. PartsOf(messages) \in [1 .. Len(messages) -> Seq(TokenSet)]
  BY <1>2 DEF PartsOf
<1>4. PartsOf(messages) \in Seq(Seq(TokenSet)) /\ Len(PartsOf(messages)) = Len(messages)
  BY <1>1, <1>3, SameSeq
<1>5. \A i \in 1 .. Len(messages) : PartsOf(messages)[i] = Tokens(messages[i], i)
  BY DEF PartsOf
<1> QED BY <1>2, <1>4, <1>5

(* Ends of messages, in tokens after the preamble.                         *)
LEMMA EndsOf ==
  ASSUME NEW Role, NEW messages \in Seq(MessageSet(Role)),
         NEW off, Offsets(off, PartsOf(messages))
  PROVE  /\ off \in [0 .. Len(messages) -> Nat] /\ off[0] = 0
         /\ \A i \in 1 .. Len(messages) : off[i] = off[i - 1] + (messages[i].length + 2)
         /\ \A k \in 0 .. Len(messages) : \A i \in 0 .. k : off[i] <= off[k]
<1>1. /\ PartsOf(messages) \in Seq(Seq(TokenSet))
      /\ Len(PartsOf(messages)) = Len(messages)
      /\ \A i \in 1 .. Len(messages) : Len(PartsOf(messages)[i]) = messages[i].length + 2
  BY PartsAreTokens
<1>2. \A k \in 0 .. Len(PartsOf(messages)) : \A i \in 0 .. k : off[i] <= off[k]
  BY <1>1, OffsetsIncrease
<1> QED BY <1>1, <1>2 DEF Offsets

(* The conversation up to its m-th message.                                *)
LEMMA PrefixOf ==
  ASSUME NEW Role, NEW messages \in Seq(MessageSet(Role)),
         NEW off, Offsets(off, PartsOf(messages)), NEW m \in 0 .. Len(messages)
  PROVE  /\ Upto(messages, m) \in Seq(MessageSet(Role))
         /\ Len(Upto(messages, m)) = m
         /\ FlattenSeq(PartsOf(Upto(messages, m))) \in Seq(TokenSet)
         /\ Len(FlattenSeq(PartsOf(Upto(messages, m)))) = off[m]
<1> DEFINE pre == Upto(messages, m)
           sub == [i \in 0 .. m |-> off[i]]
<1>1. Len(messages) \in Nat /\ m \in Nat /\ m <= Len(messages)
  BY LenProperties
<1>2. pre \in Seq(MessageSet(Role)) /\ Len(pre) = m /\ \A i \in 1 .. m : pre[i] = messages[i]
  BY Prefix DEF Upto
<1> HIDE DEF pre
<1>3. /\ PartsOf(pre) \in Seq(Seq(TokenSet)) /\ Len(PartsOf(pre)) = m
      /\ \A i \in 1 .. m : Len(PartsOf(pre)[i]) = messages[i].length + 2
  BY <1>2, PartsAreTokens, ZenonT(30)
<1>4. /\ off \in [0 .. Len(messages) -> Nat] /\ off[0] = 0
      /\ \A i \in 1 .. Len(messages) : off[i] = off[i - 1] + (messages[i].length + 2)
  BY EndsOf
<1>5. \A i \in 0 .. m : sub[i] = off[i] /\ off[i] \in Nat
  BY <1>1, <1>4
<1>6. sub \in [0 .. m -> Nat]
  BY <1>5
<1> HIDE DEF sub
<1>7. \A i \in 1 .. m : sub[i] = sub[i - 1] + Len(PartsOf(pre)[i])
  <2> SUFFICES ASSUME NEW i \in 1 .. m PROVE sub[i] = sub[i - 1] + Len(PartsOf(pre)[i])
    OBVIOUS
  <2>1. i \in 1 .. Len(messages) /\ i \in 0 .. m /\ i - 1 \in 0 .. m
    BY <1>1
  <2> QED BY <1>3, <1>4, <1>5, <2>1
<1>8. sub[0] = 0
  BY <1>1, <1>4, <1>5
<1>9. Offsets(sub, PartsOf(pre))
  BY <1>3, <1>6, <1>7, <1>8 DEF Offsets
<1>10. FlattenSeq(PartsOf(pre)) \in Seq(TokenSet) /\ Len(FlattenSeq(PartsOf(pre))) = sub[m]
  BY <1>3, <1>9, FlattenParts
<1>11. sub[m] = off[m]
  BY <1>1, <1>5
<1> QED BY <1>2, <1>10, <1>11 DEF pre

Least(a, b) == IF b < a THEN b ELSE a

(* The chat template: preamble, messages, perhaps a prompt, cut at the     *)
(* limit.                                                                  *)
LEMMA TemplateOf ==
  ASSUME NEW messages, Len(messages) \in Nat, FlattenSeq(PartsOf(messages)) \in Seq(TokenSet),
         NEW preamble \in Nat, NEW limit \in Nat, NEW prompt \in BOOLEAN
  PROVE  /\ Template(messages, preamble, limit, prompt) \in Seq(TokenSet)
         /\ Len(Template(messages, preamble, limit, prompt))
              = Least(preamble + Len(FlattenSeq(PartsOf(messages))) + (IF prompt THEN 1 ELSE 0), limit)
         /\ \A x \in 1 .. Len(Template(messages, preamble, limit, prompt)) :
              x <= preamble + Len(FlattenSeq(PartsOf(messages))) =>
                Template(messages, preamble, limit, prompt)[x]
                  = IF x <= preamble THEN <<0, "preamble">> ELSE FlattenSeq(PartsOf(messages))[x - preamble]
<1>0. PICK flat, f : flat = FlattenSeq(PartsOf(messages)) /\ f = Len(flat)
  OBVIOUS
<1>00. flat \in Seq(TokenSet) /\ f \in Nat
  BY <1>0, LenProperties
<1>1. PICK a, c, h : /\ a = [i \in 1 .. preamble |-> <<0, "preamble">>]
                     /\ c = (IF prompt THEN <<<<Len(messages) + 1, "header">>>> ELSE <<>>)
                     /\ h = (IF prompt THEN 1 ELSE 0)
  OBVIOUS
<1>2. PICK ab, abc : ab = a \o flat /\ abc = ab \o c
  OBVIOUS
<1>3. Template(messages, preamble, limit, prompt) = Truncated(abc, limit)
  BY <1>0, <1>1, <1>2 DEF Template, PartsOf
<1>4. a \in Seq(TokenSet) /\ Len(a) = preamble /\ \A x \in 1 .. preamble : a[x] = <<0, "preamble">>
  <2>1. a \in [1 .. preamble -> TokenSet]
    BY <1>1 DEF TokenSet
  <2> QED BY <1>1, <2>1, SameSeq
<1>5. c \in Seq(TokenSet) /\ Len(c) = h
  <2>1. CASE prompt
    <3>1. <<Len(messages) + 1, "header">> \in TokenSet
      BY DEF TokenSet
    <3> QED BY <1>1, <2>1, <3>1
  <2>2. CASE ~prompt
    BY <1>1, <2>2, EmptySeq
  <2> QED BY <2>1, <2>2
<1>6. /\ ab \in Seq(TokenSet) /\ Len(ab) = preamble + f
      /\ \A x \in 1 .. preamble + f : ab[x] = IF x <= preamble THEN a[x] ELSE flat[x - preamble]
  BY <1>0, <1>00, <1>2, <1>4, ConcatProperties, ZenonT(30)
<1>7. PICK k : k = preamble + f
  OBVIOUS
<1>8. ab \in Seq(TokenSet) /\ Len(ab) = k
  BY <1>6, <1>7
<1>9. /\ abc \in Seq(TokenSet) /\ Len(abc) = k + h
      /\ \A x \in 1 .. k + h : abc[x] = IF x <= k THEN ab[x] ELSE c[x - k]
  <2>1. abc = ab \o c /\ c \in Seq(TokenSet) /\ Len(c) = h
    BY <1>2, <1>5
  <2> QED BY <1>8, <2>1, ConcatProperties
<1>10. k \in Nat /\ h \in Nat
  BY <1>00, <1>1, <1>7
<1>11. PICK t : t = Template(messages, preamble, limit, prompt)
  OBVIOUS
<1>12. /\ t \in Seq(TokenSet) /\ Len(t) = Least(k + h, limit)
       /\ \A x \in 1 .. Len(t) : t[x] = abc[x]
  <2>1. CASE limit < k + h
    <3>1. t = SubSeq(abc, 1, limit) /\ limit \in 0 .. Len(abc)
      BY <1>3, <1>9, <1>10, <1>11, <2>1 DEF Truncated
    <3> QED BY <1>9, <2>1, <3>1, Prefix DEF Least
  <2>2. CASE ~(limit < k + h)
    BY <1>3, <1>9, <1>11, <2>2 DEF Truncated, Least
  <2> QED BY <2>1, <2>2
<1>13. ASSUME NEW x \in 1 .. Len(t), x <= k
       PROVE  t[x] = IF x <= preamble THEN <<0, "preamble">> ELSE flat[x - preamble]
  <2>1. Len(t) \in Nat /\ Len(t) <= k + h
    BY <1>10, <1>12 DEF Least
  <2>2. x \in 1 .. k + h /\ x \in 1 .. k
    BY <1>10, <1>13, <2>1
  <2>3. t[x] = ab[x]
    BY <1>9, <1>12, <1>13, <2>2
  <2>4. ab[x] = IF x <= preamble THEN a[x] ELSE flat[x - preamble]
    BY <1>6, <1>7, <2>2
  <2>5. x <= preamble => a[x] = <<0, "preamble">>
    BY <1>4, <2>2
  <2> QED BY <2>3, <2>4, <2>5
<1> QED BY <1>0, <1>1, <1>7, <1>11, <1>12, <1>13

(* Starts and ends of messages in the truncated conversation.              *)
LEMMA StartsAndEnds ==
  ASSUME NEW Role, NEW messages \in Seq(MessageSet(Role)),
         NEW off, Offsets(off, PartsOf(messages)), NEW preamble \in Nat, NEW limit \in Nat,
         NEW i \in 1 .. Len(messages)
  PROVE  /\ i # 1 => MessageStart(messages, preamble, limit, i) = Least(preamble + off[i - 1], limit)
         /\ MessageEnd(messages, preamble, limit, i)
            = Least(preamble + off[i] + (IF PromptFollows(messages, i) THEN 1 ELSE 0), limit)
<1>1. /\ off \in [0 .. Len(messages) -> Nat] /\ Len(messages) \in Nat
      /\ i \in 0 .. Len(messages) /\ i - 1 \in 0 .. Len(messages)
  <2>1. off \in [0 .. Len(messages) -> Nat]
    BY EndsOf
  <2>2. Len(messages) \in Nat
    BY LenProperties
  <2> QED BY <2>1, <2>2
<1>2. ASSUME NEW m \in 0 .. Len(messages), NEW prompt \in BOOLEAN
      PROVE  Len(Template(Upto(messages, m), preamble, limit, prompt))
             = Least(preamble + off[m] + (IF prompt THEN 1 ELSE 0), limit)
  <2>1. PICK some : some = Upto(messages, m)
    OBVIOUS
  <2>2. /\ Len(Upto(messages, m)) = m
        /\ FlattenSeq(PartsOf(Upto(messages, m))) \in Seq(TokenSet)
        /\ Len(FlattenSeq(PartsOf(Upto(messages, m)))) = off[m]
    BY PrefixOf
  <2>3. /\ Len(some) \in Nat /\ FlattenSeq(PartsOf(some)) \in Seq(TokenSet)
        /\ Len(FlattenSeq(PartsOf(some))) = off[m]
    BY <1>1, <2>1, <2>2
  <2>4. Len(Template(some, preamble, limit, prompt)) = Least(preamble + off[m] + (IF prompt THEN 1 ELSE 0), limit)
    <3>1. Len(Template(some, preamble, limit, prompt))
          = Least(preamble + Len(FlattenSeq(PartsOf(some))) + (IF prompt THEN 1 ELSE 0), limit)
      BY <2>3, TemplateOf
    <3> QED BY <2>3, <3>1
  <2> QED BY <2>1, <2>4
<1>3. ASSUME i # 1 
      PROVE  MessageStart(messages, preamble, limit, i) = Least(preamble + off[i - 1], limit)
  <2>1. off[i - 1] \in Nat
    BY <1>1
  <2>2. Len(Template(Upto(messages, i - 1), preamble, limit, FALSE))
          = Least(preamble + off[i - 1] + (IF FALSE THEN 1 ELSE 0), limit)
    BY <1>1, <1>2
  <2>3. preamble + off[i - 1] + (IF FALSE THEN 1 ELSE 0) = preamble + off[i - 1]
    BY <2>1
  <2> QED BY <1>3, <2>2, <2>3 DEF MessageStart
<1>4. PromptFollows(messages, i) \in BOOLEAN
  BY DEF PromptFollows
<1>5. MessageEnd(messages, preamble, limit, i)
        = Least(preamble + off[i] + (IF PromptFollows(messages, i) THEN 1 ELSE 0), limit)
  BY <1>1, <1>2, <1>4 DEF MessageEnd
<1> QED BY <1>3, <1>5

(* What Labels masks and what LabelsOfAssistant keeps, by themselves.      *)
Turns(messages) == {i \in DOMAIN messages : messages[i].role # "assistant"}
Reached(messages, preamble, limit, i) ==
  \A j \in Turns(messages) : j < i => MessageEnd(messages, preamble, limit, j) < limit
Masked(messages, preamble, limit, t) ==
  \E i \in Turns(messages) : /\ Reached(messages, preamble, limit, i)
                             /\ MessageStart(messages, preamble, limit, i) < t
                             /\ t <= MessageEnd(messages, preamble, limit, i)
Says(messages, i) == messages[i].role = "assistant"
Learned(messages, token) ==
  CASE token[2] = "preamble" -> Says(messages, 1)
    [] token[2] = "header" -> Says(messages, token[1]) /\ (token[1] = 1 \/ Says(messages, token[1] - 1))
    [] OTHER -> Says(messages, token[1])

(* In numbers: a token at t > preamble belongs to the k-th message.        *)
LEMMA MaskedWhere ==
  ASSUME NEW Role, NEW messages \in Seq(MessageSet(Role)),
         NEW off, Offsets(off, PartsOf(messages)), NEW preamble \in Nat, NEW limit \in Nat,
         NEW t \in Nat, 1 <= t, t <= limit, NEW i \in 1 .. Len(messages), i \in Turns(messages)
  PROVE  /\ t <= preamble =>
              ((/\ Reached(messages, preamble, limit, i)
                /\ MessageStart(messages, preamble, limit, i) < t
                /\ t <= MessageEnd(messages, preamble, limit, i)) <=> i = 1)
         /\ \A k \in 1 .. Len(messages) :
              preamble + off[k - 1] < t /\ t <= preamble + off[k] =>
                ((/\ Reached(messages, preamble, limit, i)
                  /\ MessageStart(messages, preamble, limit, i) < t
                  /\ t <= MessageEnd(messages, preamble, limit, i))
                 <=> \/ i = k
                     \/ (i = k - 1 /\ t = preamble + off[k - 1] + 1 /\ Says(messages, k)))
<1> DEFINE n == Len(messages)
           h(j) == IF PromptFollows(messages, j) THEN 1 ELSE 0
<1>1. /\ n \in Nat /\ off[0] = 0
      /\ \A j \in 0 .. n : off[j] \in Nat
      /\ \A j \in 1 .. n : off[j - 1] + 2 <= off[j]
  <2>1. /\ off \in [0 .. n -> Nat] /\ off[0] = 0
        /\ \A j \in 1 .. n : off[j] = off[j - 1] + (messages[j].length + 2)
    BY EndsOf
  <2>2. n \in Nat /\ \A j \in 1 .. n : messages[j].length \in Nat
    BY LenProperties, PartsAreTokens
  <2>3. ASSUME NEW j \in 1 .. n PROVE off[j - 1] + 2 <= off[j]
    <3>1. off[j - 1] \in Nat /\ messages[j].length \in Nat /\ off[j] = off[j - 1] + (messages[j].length + 2)
      <4>1. j - 1 \in 0 .. n
        BY <2>2
      <4> QED BY <2>1, <2>2, <4>1
    <3> QED BY <3>1
  <2> QED BY <2>1, <2>2, <2>3
<1>2. \A k \in 0 .. n : \A j \in 0 .. k : off[j] <= off[k]
  BY EndsOf
<1>3. ASSUME NEW j \in 1 .. n, j # 1
      PROVE  MessageStart(messages, preamble, limit, j) = Least(preamble + off[j - 1], limit)
  BY <1>3, StartsAndEnds
<1>4. ASSUME NEW j \in 1 .. n
      PROVE  MessageEnd(messages, preamble, limit, j) = Least(preamble + off[j] + h(j), limit)
  BY StartsAndEnds
<1>5. \A j \in 1 .. n : h(j) \in 0 .. 1 /\ (h(j) = 1 <=> j < n /\ Says(messages, j + 1))
  BY DEF PromptFollows, Says
<1>6. DOMAIN messages = 1 .. n
  BY LenProperties
<1>7. \A j \in 1 .. n : j \in Turns(messages) <=> ~Says(messages, j)
  BY <1>6 DEF Turns, Says
<1> HIDE DEF n, h
(* what comes before a message that starts before t ended before limit     *)
<1>8. ASSUME i = 1 \/ preamble + off[i - 1] < t PROVE Reached(messages, preamble, limit, i)
  <2> SUFFICES ASSUME NEW j \in Turns(messages), j < i
               PROVE  MessageEnd(messages, preamble, limit, j) < limit
    BY DEF Reached
  <2>1. j \in 1 .. n /\ n \in Nat
    BY <1>1, <1>6 DEF Turns
  <2>2. i \in 1 .. n
    BY DEF n
  <2>3. i - 1 \in 0 .. n /\ j \in 0 .. i - 1 /\ i # 1 /\ j \in 0 .. n
    BY <2>1, <2>2
  <2>4. off[i - 1] \in Nat /\ off[j] \in Nat /\ h(j) \in 0 .. 1
    BY <1>1, <1>5, <2>1, <2>3
  <2>5. off[j] + h(j) <= off[i - 1]
    <3>1. CASE j = i - 1
      <4>1. ~Says(messages, i)
        BY <1>7, <2>2
      <4>2. j + 1 = i
        BY <2>1, <2>2, <3>1
      <4>3. h(j) = 0
        BY <1>5, <2>1, <4>1, <4>2
      <4> QED BY <2>4, <3>1, <4>3
    <3>2. CASE j < i - 1
      <4>1. j + 1 \in 1 .. n /\ (j + 1) - 1 = j /\ j + 1 \in 0 .. i - 1 /\ j + 1 \in 0 .. n
        BY <2>1, <2>2, <3>2
      <4>2. off[j] + 2 <= off[j + 1] /\ off[j + 1] <= off[i - 1] /\ off[j + 1] \in Nat
        BY <1>1, <1>2, <2>3, <4>1
      <4> QED BY <2>4, <4>2
    <3>3. j = i - 1 \/ j < i - 1
      BY <2>1, <2>2
    <3> QED BY <3>1, <3>2, <3>3
  <2>6. preamble + off[i - 1] < t
    BY <1>8, <2>3
  <2>7. preamble + off[j] + h(j) < limit
    BY <2>4, <2>5, <2>6
  <2>8. MessageEnd(messages, preamble, limit, j) = Least(preamble + off[j] + h(j), limit)
    BY <1>4, <2>1
  <2>9. preamble + off[j] + h(j) \in Nat
    BY <2>4
  <2>10. Least(preamble + off[j] + h(j), limit) < limit
    BY <2>7, <2>9 DEF Least
  <2> QED BY <2>8, <2>10
<1>9. i \in 1 .. n /\ off[i] \in Nat /\ off[i - 1] \in Nat /\ h(i) \in 0 .. 1
  <2>1. i \in 1 .. n
    BY DEF n
  <2>2. i \in 0 .. n /\ i - 1 \in 0 .. n
    BY <1>1, <2>1
  <2> QED BY <1>1, <1>5, <2>1, <2>2
<1>10. MessageStart(messages, preamble, limit, i) < t <=> i = 1 \/ preamble + off[i - 1] < t
  <2>1. CASE i = 1
    BY <2>1 DEF MessageStart
  <2>2. CASE i # 1
    <3>1. MessageStart(messages, preamble, limit, i) = Least(preamble + off[i - 1], limit)
      BY <1>3, <1>9, <2>2
    <3>2. Least(preamble + off[i - 1], limit) < t <=> preamble + off[i - 1] < t
      BY <1>9 DEF Least
    <3> QED BY <2>2, <3>1, <3>2
  <2> QED BY <2>1, <2>2
<1>11. t <= MessageEnd(messages, preamble, limit, i) <=> t <= preamble + off[i] + h(i)
  <2>1. MessageEnd(messages, preamble, limit, i) = Least(preamble + off[i] + h(i), limit)
    BY <1>4, <1>9
  <2>2. t <= Least(preamble + off[i] + h(i), limit) <=> t <= preamble + off[i] + h(i)
    BY <1>9 DEF Least
  <2> QED BY <2>1, <2>2
<1>12. (/\ Reached(messages, preamble, limit, i)
        /\ MessageStart(messages, preamble, limit, i) < t
        /\ t <= MessageEnd(messages, preamble, limit, i))
       <=> ((i = 1 \/ preamble + off[i - 1] < t) /\ t <= preamble + off[i] + h(i))
  BY <1>8, <1>10, <1>11
<1>13. ASSUME t <= preamble
       PROVE  ((i = 1 \/ preamble + off[i - 1] < t) /\ t <= preamble + off[i] + h(i)) <=> i = 1
  BY <1>9, <1>13
<1>14. ASSUME NEW k \in 1 .. n, preamble + off[k - 1] < t, t <= preamble + off[k]
       PROVE  ((i = 1 \/ preamble + off[i - 1] < t) /\ t <= preamble + off[i] + h(i))
              <=> (i = k \/ (i = k - 1 /\ t = preamble + off[k - 1] + 1 /\ Says(messages, k)))
  <2>1. k - 1 \in 0 .. n /\ k \in 0 .. n /\ i \in 0 .. n /\ i - 1 \in 0 .. n
    BY <1>1, <1>9
  <2>2. off[k] \in Nat /\ off[k - 1] \in Nat
    BY <1>1, <2>1
  <2>3. CASE i = k
    <3>1. t <= preamble + off[i] + h(i)
      BY <1>9, <1>14, <2>3
    <3>2. preamble + off[i - 1] < t
      BY <1>14, <2>3
    <3> QED BY <2>3, <3>1, <3>2, Zenon
  <2>4. CASE i = k - 1
    <3>1. k = i + 1 /\ i < n
      BY <1>1, <2>4
    <3>2. h(i) = 1 <=> Says(messages, k)
      BY <1>5, <1>9, <3>1
    <3>3. i = 1 \/ preamble + off[i - 1] < t
      <4>1. off[i - 1] <= off[i]
        BY <1>1, <1>9
      <4> QED BY <1>9, <1>14, <2>4, <4>1
    <3>4. t <= preamble + off[k - 1] + h(i) <=> (t = preamble + off[k - 1] + 1 /\ h(i) = 1)
      <4>1. h(i) = 0 \/ h(i) = 1
        BY <1>9
      <4>2. CASE h(i) = 0
        BY <1>14, <2>2, <4>2
      <4>3. CASE h(i) = 1
        <5>1. PICK y : y = preamble + off[k - 1]
          OBVIOUS
        <5>2. y \in Int /\ y < t /\ t \in Int
          BY <1>14, <2>2, <5>1
        <5>3. t <= y + 1 <=> t = y + 1
          BY <5>2
        <5> QED BY <4>3, <5>1, <5>3
      <4> QED BY <4>1, <4>2, <4>3
    <3>5. i # k
      BY <3>1
    <3> QED BY <2>4, <3>2, <3>3, <3>4, <3>5
  <2>5. CASE i < k - 1
    <3>1. i + 1 \in 1 .. n /\ (i + 1) - 1 = i /\ i + 1 \in 0 .. k - 1 /\ i + 1 \in 0 .. n
      BY <1>1, <1>9, <2>5
    <3>2. off[i] + 2 <= off[i + 1] /\ off[i + 1] <= off[k - 1] /\ off[i + 1] \in Nat
      BY <1>1, <1>2, <2>1, <3>1
    <3>3. ~(t <= preamble + off[i] + h(i))
      <4>1. off[i] + h(i) <= off[k - 1]
        BY <1>9, <2>2, <3>2
      <4>2. preamble + off[i] + h(i) <= preamble + off[k - 1]
        BY <1>9, <2>2, <4>1
      <4>3. preamble + off[k - 1] < t /\ preamble + off[k - 1] \in Nat /\ preamble + off[i] + h(i) \in Nat
        <5>1. preamble + off[k - 1] < t
          BY <1>14
        <5>2. preamble + off[i] + h(i) \in Nat
          BY <1>9
        <5>3. preamble + off[k - 1] \in Nat
          BY <2>2
        <5> QED BY <5>1, <5>2, <5>3
      <4> QED BY <4>2, <4>3
    <3>4. i # k /\ i # k - 1
      BY <1>9, <2>5
    <3> QED BY <3>3, <3>4
  <2>6. CASE i > k
    <3>1. k \in 0 .. i - 1 /\ i # 1
      BY <1>9, <2>6
    <3>2. off[k] <= off[i - 1]
      BY <1>2, <2>1, <3>1
    <3>3. ~(preamble + off[i - 1] < t)
      BY <1>9, <1>14, <2>2, <3>2
    <3>4. i # k /\ i # k - 1
      BY <1>9, <2>6
    <3> QED BY <3>1, <3>3, <3>4
  <2>7. i = k \/ i = k - 1 \/ i < k - 1 \/ i > k
    BY <1>9
  <2> QED BY <2>3, <2>4, <2>5, <2>6, <2>7
<1>15. t <= preamble =>
         ((/\ Reached(messages, preamble, limit, i)
           /\ MessageStart(messages, preamble, limit, i) < t
           /\ t <= MessageEnd(messages, preamble, limit, i)) <=> i = 1)
  BY <1>12, <1>13
<1>16. \A k \in 1 .. n : preamble + off[k - 1] < t /\ t <= preamble + off[k] =>
         ((/\ Reached(messages, preamble, limit, i)
           /\ MessageStart(messages, preamble, limit, i) < t
           /\ t <= MessageEnd(messages, preamble, limit, i))
          <=> (i = k \/ (i = k - 1 /\ t = preamble + off[k - 1] + 1 /\ Says(messages, k))))
  BY <1>12, <1>14
<1> QED BY <1>15, <1>16 DEF n

(* The reference: the tokens that are learned keep their label.            *)
LearnedLabels(messages, preamble, limit) ==
  LET input_ids == Template(messages, preamble, limit, FALSE)
  IN [t \in DOMAIN input_ids |-> IF Learned(messages, input_ids[t]) THEN input_ids[t] ELSE Ignored]

(* encode_sft_example masks the turns that are not the assistant's with    *)
(* the prompts that open the assistant's answers, for every conversation,  *)
(* preamble and truncation.                                                *)
THEOREM LabelsAreOfAssistant ==
  ASSUME NEW Role, NEW messages \in Seq(MessageSet(Role)), messages # <<>>,
         NEW preamble \in Nat, NEW limit \in Nat
  PROVE  Labels(messages, preamble, limit) = LearnedLabels(messages, preamble, limit)
<1> DEFINE n == Len(messages)
           ids == Template(messages, preamble, limit, FALSE)
           flat == FlattenSeq(PartsOf(messages))
<1>1. /\ PartsOf(messages) \in Seq(Seq(TokenSet)) /\ Len(PartsOf(messages)) = n
      /\ \A i \in 1 .. n : /\ messages[i].length \in Nat
                           /\ PartsOf(messages)[i] = Tokens(messages[i], i)
                           /\ Len(PartsOf(messages)[i]) = messages[i].length + 2
  BY PartsAreTokens
<1>2. PICK off : Offsets(off, PartsOf(messages))
  BY <1>1, OffsetsExist
<1>3. n \in Nat /\ n >= 1 /\ DOMAIN messages = 1 .. n
  <2>1. n \in Nat /\ DOMAIN messages = 1 .. n
    BY LenProperties
  <2>2. n # 0
    BY EmptySeq
  <2> QED BY <2>1, <2>2
<1>4. /\ off \in [0 .. n -> Nat] /\ off[0] = 0
      /\ \A k \in 0 .. n : \A i \in 0 .. k : off[i] <= off[k]
  BY <1>2, EndsOf
<1>5. /\ flat \in Seq(TokenSet) /\ Len(flat) = off[n]
      /\ \A i \in 1 .. n : \A j \in 1 .. messages[i].length + 2 : flat[off[i - 1] + j] = Tokens(messages[i], i)[j]
  <2>1. /\ flat \in Seq(TokenSet)
        /\ Len(flat) = off[Len(PartsOf(messages))]
        /\ \A i \in 1 .. Len(PartsOf(messages)) : \A j \in 1 .. Len(PartsOf(messages)[i]) :
             flat[off[i - 1] + j] = PartsOf(messages)[i][j]
    BY <1>1, <1>2, FlattenParts
  <2> HIDE DEF flat
  <2> QED BY <1>1, <2>1, SMTT(30)
<1>6. /\ ids \in Seq(TokenSet)
      /\ Len(ids) = Least(preamble + off[n], limit)
      /\ \A t \in 1 .. Len(ids) : t <= preamble + off[n] =>
           ids[t] = IF t <= preamble THEN <<0, "preamble">> ELSE flat[t - preamble]
  <2>1. /\ ids \in Seq(TokenSet)
        /\ Len(ids) = Least(preamble + Len(flat) + (IF FALSE THEN 1 ELSE 0), limit)
        /\ \A t \in 1 .. Len(ids) : t <= preamble + Len(flat) =>
             ids[t] = IF t <= preamble THEN <<0, "preamble">> ELSE flat[t - preamble]
    <3>1. Len(messages) \in Nat /\ FlattenSeq(PartsOf(messages)) \in Seq(TokenSet)
      BY <1>3, <1>5
    <3>2. /\ ids \in Seq(TokenSet)
          /\ Len(ids) = Least(preamble + Len(flat) + (IF FALSE THEN 1 ELSE 0), limit)
      BY <3>1, TemplateOf
    <3>3. \A t \in 1 .. Len(ids) : t <= preamble + Len(flat) =>
             ids[t] = IF t <= preamble THEN <<0, "preamble">> ELSE flat[t - preamble]
      BY <3>1, TemplateOf
    <3> QED BY <3>2, <3>3
  <2>2. off[n] \in Nat
    BY <1>3, <1>4
  <2>3. preamble + off[n] + (IF FALSE THEN 1 ELSE 0) = preamble + off[n]
    BY <2>2
  <2> HIDE DEF ids, flat
  <2> QED BY <1>5, <2>1, <2>3
<1>7. Labels(messages, preamble, limit)
        = [t \in DOMAIN ids |-> IF Masked(messages, preamble, limit, t) THEN Ignored ELSE ids[t]]
  BY DEF Labels, Masked, Reached, Turns
<1> HIDE DEF n, ids, flat
<1>8. off[n] \in Nat /\ Len(ids) \in Nat /\ Len(ids) <= limit /\ Len(ids) <= preamble + off[n]
      /\ DOMAIN ids = 1 .. Len(ids)
  <2>1. off[n] \in Nat
    BY <1>3, <1>4
  <2> QED BY <1>6, <2>1, LenProperties DEF Least
<1>9. \A i : Turns(messages) = {j \in 1 .. n : ~Says(messages, j)}
  BY <1>3 DEF Turns, Says
<1>10. ASSUME NEW t \in 1 .. Len(ids)
       PROVE  Masked(messages, preamble, limit, t) <=> ~Learned(messages, ids[t])
  <2>1. t \in Nat /\ 1 <= t /\ t <= limit /\ t <= preamble + off[n]
    BY <1>8
  <2>2. CASE t <= preamble
    <3>1. ids[t] = <<0, "preamble">>
      BY <1>6, <2>1, <2>2
    <3>2. Learned(messages, ids[t]) <=> Says(messages, 1)
      BY <3>1 DEF Learned, Says
    <3>3. \A i \in Turns(messages) :
            (/\ Reached(messages, preamble, limit, i)
             /\ MessageStart(messages, preamble, limit, i) < t
             /\ t <= MessageEnd(messages, preamble, limit, i)) <=> i = 1
      <4> SUFFICES ASSUME NEW i \in Turns(messages)
                   PROVE  (/\ Reached(messages, preamble, limit, i)
                           /\ MessageStart(messages, preamble, limit, i) < t
                           /\ t <= MessageEnd(messages, preamble, limit, i)) <=> i = 1
        OBVIOUS
      <4>1. i \in 1 .. Len(messages)
        BY <1>9 DEF n
      <4> QED BY <1>2, <2>1, <2>2, <4>1, MaskedWhere
    <3>4. Masked(messages, preamble, limit, t) <=> 1 \in Turns(messages)
      BY <3>3 DEF Masked
    <3>5. 1 \in Turns(messages) <=> ~Says(messages, 1)
      BY <1>3, <1>9
    <3> QED BY <3>2, <3>4, <3>5
  <2>3. CASE ~(t <= preamble)
    <3>1. t - preamble \in 1 .. off[n] /\ off[n] = off[Len(PartsOf(messages))]
      BY <1>1, <1>8, <2>1, <2>3 DEF n
    <3>2. PICK k \in 1 .. Len(PartsOf(messages)) :
            /\ off[k - 1] < t - preamble /\ t - preamble <= off[k]
            /\ t - preamble - off[k - 1] \in 1 .. Len(PartsOf(messages)[k])
      BY <1>1, <1>2, <3>1, OffsetsCover
    <3>3. k \in 1 .. n /\ k - 1 \in 0 .. n /\ k \in 0 .. n
      BY <1>1, <1>3, <3>2 DEF n
    <3>4. off[k - 1] \in Nat /\ off[k] \in Nat
      BY <1>4, <3>3
    <3>5. PICK j : j = t - preamble - off[k - 1]
      OBVIOUS
    <3>6. /\ j \in 1 .. messages[k].length + 2 /\ messages[k].length \in Nat
          /\ off[k - 1] + j = t - preamble
      <4>1. messages[k].length \in Nat /\ Len(PartsOf(messages)[k]) = messages[k].length + 2
        BY <1>1, <3>3
      <4>2. j \in 1 .. messages[k].length + 2
        BY <3>2, <3>5, <4>1
      <4>3. off[k - 1] + j = t - preamble
        BY <2>1, <3>4, <3>5
      <4> QED BY <4>1, <4>2, <4>3
    <3>7. ids[t] = Tokens(messages[k], k)[j]
      <4>1. ids[t] = flat[t - preamble]
        BY <1>6, <2>1, <2>3
      <4>2. flat[off[k - 1] + j] = Tokens(messages[k], k)[j]
        BY <1>5, <3>3, <3>6
      <4> QED BY <3>6, <4>1, <4>2
    <3>8. ids[t] = <<k, IF j = 1 THEN "header" ELSE IF j = messages[k].length + 2 THEN "end" ELSE "body">>
      <4>1. k \in Nat
        BY <3>3
      <4> QED BY <3>6, <3>7, <4>1, TokensOf, SMTT(30)
    <3>9. Learned(messages, ids[t]) <=> /\ Says(messages, k)
                                        /\ j = 1 => (k = 1 \/ Says(messages, k - 1))
      <4>1. CASE j = 1
        BY <3>8, <4>1 DEF Learned, Says
      <4>2. CASE j # 1
        BY <3>8, <4>2 DEF Learned, Says
      <4> QED BY <4>1, <4>2
    <3>10. preamble + off[k - 1] < t /\ t <= preamble + off[k]
      BY <2>1, <3>2, <3>4, SMTT(30)
    <3>11. t = preamble + off[k - 1] + 1 <=> j = 1
      BY <2>1, <3>4, <3>5
    <3>12. \A i \in Turns(messages) :
            (/\ Reached(messages, preamble, limit, i)
             /\ MessageStart(messages, preamble, limit, i) < t
             /\ t <= MessageEnd(messages, preamble, limit, i))
            <=> (i = k \/ (i = k - 1 /\ j = 1 /\ Says(messages, k)))
      <4> SUFFICES ASSUME NEW i \in Turns(messages)
                   PROVE  (/\ Reached(messages, preamble, limit, i)
                           /\ MessageStart(messages, preamble, limit, i) < t
                           /\ t <= MessageEnd(messages, preamble, limit, i))
                          <=> (i = k \/ (i = k - 1 /\ j = 1 /\ Says(messages, k)))
        OBVIOUS
      <4>1. i \in 1 .. Len(messages) /\ k \in 1 .. Len(messages)
        BY <1>9, <3>3 DEF n
      <4>2. (/\ Reached(messages, preamble, limit, i)
             /\ MessageStart(messages, preamble, limit, i) < t
             /\ t <= MessageEnd(messages, preamble, limit, i))
            <=> (i = k \/ (i = k - 1 /\ t = preamble + off[k - 1] + 1 /\ Says(messages, k)))
        BY <1>2, <2>1, <3>10, <4>1, MaskedWhere
      <4> QED BY <3>11, <4>2
    <3>13. Masked(messages, preamble, limit, t)
           <=> (k \in Turns(messages) \/ (k - 1 \in Turns(messages) /\ j = 1 /\ Says(messages, k)))
      BY <3>12 DEF Masked
    <3>14. /\ k \in Turns(messages) <=> ~Says(messages, k)
           /\ k - 1 \in Turns(messages) <=> (k # 1 /\ ~Says(messages, k - 1))
      BY <1>9, <3>3
    <3> QED BY <3>9, <3>13, <3>14
  <2> QED BY <2>2, <2>3
<1>11. [t \in DOMAIN ids |-> IF Masked(messages, preamble, limit, t) THEN Ignored ELSE ids[t]]
       = [t \in DOMAIN ids |-> IF Learned(messages, ids[t]) THEN ids[t] ELSE Ignored]
  BY <1>8, <1>10
<1> QED BY <1>7, <1>11 DEF ids, LearnedLabels

-----------------------------------------------------------------------------
(* compute_cumsum_threshold.                                               *)

(* How many are in the last places of an order.                            *)
LEMMA AtMost ==
  ASSUME NEW n \in Nat, NEW p \in Bijection(1 .. n, 1 .. n), NEW lo \in 1 .. n + 1,
         NEW A \in SUBSET (1 .. n), \A r \in 1 .. n : p[r] \in A => lo <= r
  PROVE  IsFiniteSet(A) /\ Cardinality(A) \in Nat /\ Cardinality(A) <= n - lo + 1
<1>1. \A i \in 1 .. n : \E r \in 1 .. n : p[r] = i
  BY Reordering
<1> DEFINE g == [i \in A |-> CHOOSE r \in 1 .. n : p[r] = i]
<1>2. \A i \in A : g[i] \in 1 .. n /\ p[g[i]] = i
  BY <1>1
<1> HIDE DEF g
<1>3. ASSUME NEW i \in A PROVE g[i] \in lo .. n
  <2>1. g[i] \in 1 .. n /\ p[g[i]] = i
    BY <1>2
  <2>2. lo <= g[i]
    BY <2>1
  <2> QED BY <2>1, <2>2
<1>4. g \in [A -> lo .. n]
  BY <1>3 DEF g
<1>5. g \in Injection(A, lo .. n)
  <2>1. \A i, j \in A : g[i] = g[j] => i = j
    BY <1>2
  <2> QED BY <1>4, <2>1, Fun_IsInj
<1>6. lo \in Int /\ n \in Int
  OBVIOUS
<1>7. IsFiniteSet(lo .. n) /\ Cardinality(lo .. n) = n - lo + 1
  <2>1. IsFiniteSet(lo .. n) /\ Cardinality(lo .. n) = IF lo > n THEN 0 ELSE n - lo + 1
    BY <1>6, FS_Interval
  <2> QED BY <2>1
<1>8. IsFiniteSet(A) /\ Cardinality(A) <= Cardinality(lo .. n)
  BY <1>5, <1>7, FS_Injection
<1> QED BY <1>7, <1>8, FS_CardinalityType

(* Positions from lo on in a sorted sequence stand for that many elements. *)
LEMMA AtLeast ==
  ASSUME NEW n \in Nat, NEW p \in Bijection(1 .. n, 1 .. n), NEW lo \in 1 .. n + 1,
         NEW A \in SUBSET (1 .. n), \A r \in lo .. n : p[r] \in A
  PROVE  n - lo + 1 <= Cardinality(A)
<1>1. /\ p \in [1 .. n -> 1 .. n] /\ \A r, q \in 1 .. n : p[r] = p[q] => r = q
  BY Fun_BijectionProperties
<1> DEFINE g == [r \in lo .. n |-> p[r]]
<1>2. g \in [lo .. n -> A] /\ \A r \in lo .. n : g[r] = p[r] /\ r \in 1 .. n
  OBVIOUS
<1> HIDE DEF g
<1>3. g \in Injection(lo .. n, A)
  <2>1. \A r, q \in lo .. n : g[r] = g[q] => r = q
    BY <1>1, <1>2
  <2> QED BY <1>2, <2>1, Fun_IsInj
<1>4. lo \in Int /\ n \in Int /\ 1 \in Int
  OBVIOUS
<1>5. IsFiniteSet(A)
  BY <1>4, FS_Interval, FS_Subset
<1>6. Cardinality(lo .. n) = n - lo + 1
  <2>1. Cardinality(lo .. n) = IF lo > n THEN 0 ELSE n - lo + 1
    BY <1>4, FS_Interval
  <2> QED BY <2>1
<1> QED BY <1>3, <1>5, <1>6, FS_Injection

(* Which tokens go without the extra term, for every validation set that   *)
(* is not empty, top_k and percentile: compute_cumsum_threshold takes the  *)
(* k-th largest sum, and the smallest when k is 0.                         *)
THEOREM ThresholdIsPercentile ==
  ASSUME NEW Ks, None \notin Ks, 2 \in Ks, 10 \in Ks, NEW positions \in Seq([Ks -> Int]),
         \A i \in DOMAIN positions : positions[i][2] <= positions[i][10],
         NEW top_k \in Ks \cup {None}, NEW cumsum_ratio \in 0 .. 100, positions # <<>>
  PROVE  LET k == Share(positions, CumsumK(positions, cumsum_ratio))
             threshold == CumsumThreshold(positions, top_k, cumsum_ratio)
         IN /\ Cardinality(Above(positions, top_k, threshold)) < k
            /\ top_k # None => Cardinality(Without(positions, top_k, threshold)) >= k
<1>1. PICK n, k, at, seen, s, threshold :
        /\ n = Len(positions) /\ k = Share(positions, CumsumK(positions, cumsum_ratio))
        /\ at = (IF top_k = None THEN 10 ELSE top_k) /\ seen = (IF top_k = None THEN 2 ELSE top_k)
        /\ s = [i \in DOMAIN positions |-> positions[i][at]]
        /\ threshold = CumsumThreshold(positions, top_k, cumsum_ratio)
  OBVIOUS
<1>2. /\ n \in Nat /\ DOMAIN positions = 1 .. n
      /\ \A i \in 1 .. n : positions[i] \in [Ks -> Int]
  BY <1>1, LenProperties, ElementOfSeq
<1>3. at \in Ks /\ seen \in Ks /\ (top_k # None => at = seen)
  BY <1>1 DEF None
<1>4. \A i \in 1 .. n : /\ positions[i][at] \in Int /\ positions[i][seen] \in Int
                        /\ positions[i][seen] <= positions[i][at]
  <2>1. \A i \in 1 .. n : positions[i][at] \in Int /\ positions[i][seen] \in Int
    BY <1>2, <1>3
  <2>2. \A i \in 1 .. n : positions[i][seen] <= positions[i][at]
    <3>1. CASE top_k = None
      BY <1>1, <1>2, <3>1
    <3>2. CASE top_k # None
      BY <1>3, <2>1, <3>2
    <3> QED BY <3>1, <3>2
  <2> QED BY <2>1, <2>2
<1> DEFINE taken == CumsumK(positions, cumsum_ratio)
<1>5. k \in 1 .. n /\ k = (IF taken = 0 THEN n ELSE taken)
  <2>1. taken = (cumsum_ratio * n) \div 100 /\ k = (IF taken = 0 THEN n ELSE taken)
    BY <1>1 DEF CumsumK, Share
  <2>2. cumsum_ratio * n \in Nat /\ cumsum_ratio * n <= 100 * n
    <3>1. cumsum_ratio * n \in Nat /\ (100 - cumsum_ratio) * n \in Nat
      BY <1>2
    <3>2. (100 - cumsum_ratio) * n = 100 * n - cumsum_ratio * n
      BY <1>2
    <3> QED BY <1>2, <3>1, <3>2
  <2>3. PICK m \in Nat : m = cumsum_ratio * n
    BY <2>2
  <2>4. m \div 100 <= n /\ m \div 100 \in Nat
    BY <1>2, <2>2, <2>3
  <2>5. n > 0
    BY <1>1, <1>2, EmptySeq
  <2>6. taken \in Nat /\ taken <= n
    BY <2>1, <2>3, <2>4
  <2> HIDE DEF taken
  <2> QED BY <1>2, <2>1, <2>5, <2>6
<1>51. k \in 1 .. n
  BY <1>5
<1>6. s \in Seq(Int) /\ Len(s) = n /\ \A i \in 1 .. n : s[i] = positions[i][at]
  <2>1. s \in [1 .. n -> Int]
    BY <1>1, <1>2, <1>4
  <2> QED BY <1>1, <1>2, <2>1, SameSeq
<1>7. PICK p \in Bijection(1 .. n, 1 .. n) :
        /\ StableSort(s, <) = [r \in 1 .. n |-> s[p[r]]]
        /\ \A r, q \in 1 .. n : r < q => s[p[r]] <= s[p[q]]
  BY <1>6, SortNumbers
<1>8. n - k + 1 \in 1 .. n /\ n - k + 2 \in 1 .. n + 1 /\ n - k + 1 \in 1 .. n + 1
  <2>1. n \in Int /\ k \in Int /\ 1 <= k /\ k <= n
    BY <1>2, <1>51
  <2>2. n - k + 1 \in Int /\ 1 <= n - k + 1 /\ n - k + 1 <= n
    BY <2>1
  <2>3. n - k + 2 \in Int /\ 1 <= n - k + 2 /\ n - k + 2 <= n + 1
    BY <2>1
  <2> QED BY <2>1, <2>2, <2>3
<1>9. threshold = s[p[n - k + 1]]
  <2>1. threshold = FromTheEnd(StableSort(s, <), taken)
    BY <1>1, <1>7 DEF CumsumThreshold, Threshold, Sums
  <2>2. PICK sorted : sorted = [r \in 1 .. n |-> s[p[r]]]
    OBVIOUS
  <2>3. p \in [1 .. n -> 1 .. n]
    BY Fun_BijectionProperties
  <2>4. sorted \in [1 .. n -> Int]
    BY <1>4, <1>6, <2>2, <2>3
  <2>5. Len(sorted) = n
    BY <1>2, <2>4, SameSeq
  <2> HIDE DEF taken
  <2>6. threshold = IF taken = 0 THEN sorted[1] ELSE sorted[n - taken + 1]
    BY <1>7, <2>1, <2>2, <2>5 DEF FromTheEnd
  <2>7. threshold = sorted[n - k + 1]
    <3>1. CASE taken = 0
      <4>1. n - k + 1 = 1
        BY <1>2, <1>5, <3>1
      <4> QED BY <2>6, <3>1, <4>1
    <3>2. CASE taken # 0
      BY <1>5, <2>6, <3>2
    <3> QED BY <3>1, <3>2
  <2> QED BY <1>8, <2>2, <2>7
<1> HIDE DEF taken
<1>10. \A r \in 1 .. n : p[r] \in 1 .. n /\ s[p[r]] \in Int
  <2>1. p \in [1 .. n -> 1 .. n]
    BY Fun_BijectionProperties
  <2> QED BY <1>4, <1>6, <2>1
<1>11. threshold \in Int
  BY <1>8, <1>9, <1>10
<1>12. PICK without, above :
         /\ without = {i \in 1 .. n : ~(positions[i][seen] < threshold)}
         /\ above = {i \in without : positions[i][seen] > threshold}
  OBVIOUS
<1>13. Cardinality(above) < k
  <2>1. above \in SUBSET (1 .. n)
    BY <1>12
  <2>2. ASSUME NEW r \in 1 .. n, p[r] \in above PROVE n - k + 2 <= r
    <3>1. positions[p[r]][seen] > threshold /\ p[r] \in 1 .. n
      BY <1>10, <1>12, <2>2
    <3>2. s[p[r]] > threshold
      <4>1. PICK x : x = p[r]
        OBVIOUS
      <4>2. x \in 1 .. n /\ positions[x][seen] > threshold
        BY <3>1, <4>1
      <4>3. s[x] = positions[x][at] /\ positions[x][seen] <= s[x] /\ positions[x][seen] \in Int /\ s[x] \in Int
        BY <1>4, <1>6, <4>2
      <4>4. \A a, b, c \in Int : a > c /\ a <= b => b > c
        OBVIOUS
      <4>5. s[x] > threshold
        BY <1>11, <4>2, <4>3, <4>4
      <4> QED BY <4>1, <4>5
    <3>3. ~(r = n - k + 1)
      BY <1>9, <1>11, <3>2
    <3>4. ~(r < n - k + 1)
      <4> SUFFICES ASSUME r < n - k + 1 PROVE FALSE
        OBVIOUS
      <4>1. s[p[r]] <= s[p[n - k + 1]]
        BY <1>7, <1>8
      <4> QED BY <1>9, <1>10, <1>11, <3>2, <4>1
    <3> QED BY <1>2, <1>51, <3>3, <3>4
  <2>3. Cardinality(above) \in Nat /\ Cardinality(above) <= n - (n - k + 2) + 1
    <3>1. PICK lo : lo = n - k + 2
      OBVIOUS
    <3>2. lo \in 1 .. n + 1 /\ \A r \in 1 .. n : p[r] \in above => lo <= r
      BY <1>8, <2>2, <3>1
    <3>3. Cardinality(above) \in Nat /\ Cardinality(above) <= n - lo + 1
      BY <1>2, <2>1, <3>2, AtMost
    <3> QED BY <3>1, <3>3
  <2> QED BY <1>2, <1>51, <2>3
<1>14. ASSUME top_k # None PROVE Cardinality(without) >= k
  <2>1. without \in SUBSET (1 .. n)
    BY <1>12
  <2>2. ASSUME NEW r \in (n - k + 1) .. n PROVE p[r] \in without
    <3>1. r \in 1 .. n /\ p[r] \in 1 .. n
      BY <1>2, <1>51, <1>10
    <3>2. s[p[n - k + 1]] <= s[p[r]]
      <4>1. CASE r = n - k + 1
        BY <1>9, <1>11, <4>1
      <4>2. CASE n - k + 1 < r
        BY <1>7, <1>8, <3>1, <4>2
      <4>3. r = n - k + 1 \/ n - k + 1 < r
        BY <1>2, <1>51
      <4> QED BY <4>1, <4>2, <4>3
    <3>3. threshold <= positions[p[r]][seen]
      BY <1>3, <1>6, <1>9, <1>14, <3>1, <3>2
    <3>4. ~(positions[p[r]][seen] < threshold)
      BY <1>4, <1>11, <3>1, <3>3, SMTT(30)
    <3> QED BY <1>12, <3>1, <3>4
  <2>3. n - (n - k + 1) + 1 <= Cardinality(without)
    <3>1. PICK lo : lo = n - k + 1
      OBVIOUS
    <3>2. lo \in 1 .. n + 1 /\ \A r \in lo .. n : p[r] \in without
      BY <1>8, <2>2, <3>1
    <3>3. n - lo + 1 <= Cardinality(without)
      BY <1>2, <2>1, <3>2, AtLeast
    <3> QED BY <3>1, <3>3
  <2>4. n - (n - k + 1) + 1 = k
    BY <1>2, <1>51
  <2>5. Cardinality(without) \in Int
    <3>1. IsFiniteSet(1 .. n)
      BY <1>2, FS_Interval
    <3>2. IsFiniteSet(without)
      BY <2>1, <3>1, FS_Subset
    <3> QED BY <3>2, FS_CardinalityType
  <2> QED BY <1>51, <2>3, <2>4, <2>5
<1>15. without = Without(positions, top_k, threshold)
  BY <1>1, <1>2, <1>12 DEF Without, Encouraged
<1>16. above = Above(positions, top_k, threshold)
  BY <1>1, <1>12, <1>15 DEF Above
<1> QED BY <1>1, <1>13, <1>14, <1>15, <1>16

-----------------------------------------------------------------------------
(* get_seqlen_balanced_partitions: sums, orders, the Karmarkar-Karp heap.  *)

(* Sums of loads, step by step.                                            *)
Sums0(f, load, indices) ==
  /\ f[0] = 0
  /\ \A i \in 1 .. Len(indices) : f[i] = f[i - 1] + load[indices[i]]

(* The sums of the prefixes exist.                                         *)
LEMMA SumExists ==
  ASSUME NEW D, NEW load \in [D -> Int], NEW indices \in Seq(D)
  PROVE  \E f \in [0 .. Len(indices) -> Int] : Sums0(f, load, indices)
<1> DEFINE n == Len(indices)
           Ok(m) == m <= n => \E f \in [0 .. m -> Int] :
                       f[0] = 0 /\ \A i \in 1 .. m : f[i] = f[i - 1] + load[indices[i]]
<1>1. n \in Nat /\ \A i \in 1 .. n : load[indices[i]] \in Int
  <2>1. n \in Nat /\ \A i \in 1 .. n : indices[i] \in D
    BY LenProperties, ElementOfSeq
  <2> QED BY <2>1
<1> HIDE DEF n
<1>2. Ok(0)
  <2>1. PICK g : g = [i \in 0 .. 0 |-> 0]
    OBVIOUS
  <2>2. g \in [0 .. 0 -> Int] /\ g[0] = 0
    BY <2>1
  <2> QED BY <2>2
<1>3. ASSUME NEW m \in Nat, Ok(m) PROVE Ok(m + 1)
  <2> SUFFICES ASSUME m + 1 <= n
               PROVE  \E f \in [0 .. m + 1 -> Int] :
                        f[0] = 0 /\ \A i \in 1 .. m + 1 : f[i] = f[i - 1] + load[indices[i]]
    OBVIOUS
  <2>1. m <= n /\ m + 1 \in 1 .. n
    BY <1>1
  <2>2. PICK f \in [0 .. m -> Int] : f[0] = 0 /\ \A i \in 1 .. m : f[i] = f[i - 1] + load[indices[i]]
    BY <1>3, <2>1
  <2>3. PICK g : g = [i \in 0 .. m + 1 |-> IF i <= m THEN f[i] ELSE f[m] + load[indices[m + 1]]]
    OBVIOUS
  <2>4. f[m] + load[indices[m + 1]] \in Int
    <3>1. f[m] \in Int /\ load[indices[m + 1]] \in Int
      BY <1>1, <2>1
    <3> QED BY <3>1
  <2>5. g \in [0 .. m + 1 -> Int]
    BY <2>3, <2>4
  <2>6. (\A i \in 0 .. m : g[i] = f[i]) /\ g[m + 1] = f[m] + load[indices[m + 1]]
    BY <2>3
  <2>7. ASSUME NEW i \in 1 .. m + 1 PROVE g[i] = g[i - 1] + load[indices[i]]
    <3>1. CASE i <= m
      <4>1. i \in 1 .. m /\ i \in 0 .. m /\ i - 1 \in 0 .. m
        BY <3>1
      <4> QED BY <2>2, <2>6, <4>1
    <3>2. CASE i = m + 1
      <4>1. i - 1 = m /\ m \in 0 .. m
        BY <3>2
      <4> QED BY <2>6, <3>2, <4>1
    <3>3. i <= m \/ i = m + 1
      OBVIOUS
    <3> QED BY <3>1, <3>2, <3>3
  <2>8. g[0] = 0
    BY <2>2, <2>6
  <2> QED BY <2>5, <2>7, <2>8
<1> HIDE DEF Ok
<1>4. \A m \in Nat : Ok(m)
  <2> DEFINE E == {m \in Nat : Ok(m)}
  <2>1. 0 \in E
    BY <1>2
  <2>2. \A m \in Nat : m \in E => m + 1 \in E
    BY <1>3
  <2> HIDE DEF E
  <2>3. Nat \subseteq E
    BY <2>1, <2>2, Induction
  <2> QED BY <2>3 DEF E
<1>5. Ok(n)
  BY <1>1, <1>4
<1>6. \E f \in [0 .. n -> Int] : f[0] = 0 /\ \A i \in 1 .. n : f[i] = f[i - 1] + load[indices[i]]
  <2>1. n <= n
    BY <1>1
  <2> QED BY <1>5, <2>1 DEF Ok
<1> QED BY <1>6 DEF n, Sums0

(* Sum is the last of them.                                                *)
LEMMA SumIsLast ==
  ASSUME NEW D, NEW load \in [D -> Int], NEW indices \in Seq(D),
         NEW f, f \in [0 .. Len(indices) -> Int], Sums0(f, load, indices)
  PROVE  Sum(load, indices) = f[Len(indices)]
<1> DEFINE n == Len(indices)
           Eq(g) == g = [i \in 0 .. n |-> IF i = 0 THEN 0 ELSE g[i - 1] + load[indices[i]]]
           sum == CHOOSE g : Eq(g)
<1>1. n \in Nat
  BY LenProperties
<1>2. Sum(load, indices) = sum[n]
  BY DEF Sum
<1>3. \A i \in 0 .. n : f[i] = IF i = 0 THEN 0 ELSE f[i - 1] + load[indices[i]]
  <2> SUFFICES ASSUME NEW i \in 0 .. n
               PROVE  f[i] = IF i = 0 THEN 0 ELSE f[i - 1] + load[indices[i]]
    OBVIOUS
  <2>1. CASE i = 0
    BY <2>1 DEF Sums0
  <2>2. CASE i # 0
    <3>1. i \in 1 .. Len(indices)
      BY <1>1, <2>2
    <3> QED BY <2>2, <3>1 DEF Sums0
  <2> QED BY <2>1, <2>2
<1>4. Eq(f)
  BY <1>3
<1>5. Eq(sum)
  <2> HIDE DEF Eq
  <2> QED BY <1>4
<1> HIDE DEF sum, n
<1>6. \A i \in 0 .. n : sum[i] = IF i = 0 THEN 0 ELSE sum[i - 1] + load[indices[i]]
  BY <1>5
<1> DEFINE Ok(m) == m <= n => sum[m] = f[m]
<1>7. Ok(0)
  BY <1>1, <1>3, <1>6
<1>8. ASSUME NEW m \in Nat, Ok(m) PROVE Ok(m + 1)
  <2> SUFFICES ASSUME m + 1 <= n PROVE sum[m + 1] = f[m + 1]
    OBVIOUS
  <2>1. m <= n /\ m + 1 \in 0 .. n /\ m + 1 # 0 /\ (m + 1) - 1 = m
    BY <1>1
  <2> QED BY <1>3, <1>6, <1>8, <2>1
<1> HIDE DEF Ok
<1>9. \A m \in Nat : Ok(m)
  <2> DEFINE E == {m \in Nat : Ok(m)}
  <2>1. 0 \in E
    BY <1>7
  <2>2. \A m \in Nat : m \in E => m + 1 \in E
    BY <1>8
  <2> HIDE DEF E
  <2>3. Nat \subseteq E
    BY <2>1, <2>2, Induction
  <2> QED BY <2>3 DEF E
<1>10. sum[n] = f[n]
  BY <1>1, <1>9 DEF Ok
<1> QED BY <1>2, <1>10 DEF n

(* The sum of nothing.                                                     *)
LEMMA SumOfNone ==
  ASSUME NEW load PROVE Sum(load, <<>>) = 0
<1>1. PICK D, f : D = {} /\ f = [i \in 0 .. 0 |-> 0]
  OBVIOUS
<1>2. PICK none : none = <<>>
  OBVIOUS
<1> DEFINE Eq(g) == g = [i \in 0 .. 0 |-> IF i = 0 THEN 0 ELSE g[i - 1] + load[none[i]]]
           sum == CHOOSE g : Eq(g)
<1>3. Len(none) = 0
  BY <1>2
<1>4. Sum(load, none) = sum[0]
  BY <1>3 DEF Sum
<1>5. Eq(f)
  BY <1>1
<1>6. Eq(sum)
  <2> HIDE DEF Eq
  <2> QED BY <1>5
<1> HIDE DEF sum
<1>7. sum[0] = 0
  BY <1>6
<1> QED BY <1>2, <1>4, <1>7

(* Sum of one more.                                                        *)
LEMMA SumIsInt ==
  ASSUME NEW D, NEW load \in [D -> Int], NEW indices \in Seq(D)
  PROVE  Sum(load, indices) \in Int
<1>1. PICK f : f \in [0 .. Len(indices) -> Int] /\ Sums0(f, load, indices)
  BY SumExists
<1>2. Sum(load, indices) = f[Len(indices)]
  BY <1>1, SumIsLast
<1>3. Len(indices) \in 0 .. Len(indices)
  BY LenProperties
<1> QED BY <1>1, <1>2, <1>3

(* The sum of two sequences, one behind the other.                         *)
LEMMA SumOfConcat ==
  ASSUME NEW D, NEW load \in [D -> Int], NEW a \in Seq(D), NEW b \in Seq(D)
  PROVE  Sum(load, a \o b) = Sum(load, a) + Sum(load, b)
<1>1. PICK m, n, ab : m = Len(a) /\ n = Len(b) /\ ab = a \o b
  OBVIOUS
<1>2. /\ m \in Nat /\ n \in Nat
      /\ \A i \in 1 .. m : load[a[i]] \in Int
      /\ \A i \in 1 .. n : load[b[i]] \in Int
  <2>1. m \in Nat /\ n \in Nat /\ (\A i \in 1 .. m : a[i] \in D) /\ (\A i \in 1 .. n : b[i] \in D)
    BY <1>1, LenProperties, ElementOfSeq
  <2> QED BY <2>1
<1>3. /\ ab \in Seq(D) /\ Len(ab) = m + n
      /\ \A i \in 1 .. m + n : ab[i] = IF i <= m THEN a[i] ELSE b[i - m]
  BY <1>1, ConcatProperties
<1>4. PICK f : f \in [0 .. m -> Int] /\ Sums0(f, load, a)
  BY <1>1, SumExists
<1>5. PICK g : g \in [0 .. n -> Int] /\ Sums0(g, load, b)
  BY <1>1, SumExists
<1>6. Sum(load, a) = f[m] /\ Sum(load, b) = g[n]
  BY <1>1, <1>4, <1>5, SumIsLast
<1>7. PICK h : h = [i \in 0 .. m + n |-> IF i <= m THEN f[i] ELSE f[m] + g[i - m]]
  OBVIOUS
<1>8. /\ f[0] = 0 /\ \A i \in 1 .. m : f[i] = f[i - 1] + load[a[i]]
      /\ g[0] = 0 /\ \A i \in 1 .. n : g[i] = g[i - 1] + load[b[i]]
      /\ \A i \in 0 .. m : f[i] \in Int
      /\ \A i \in 0 .. n : g[i] \in Int
  BY <1>1, <1>4, <1>5 DEF Sums0
<1>9. f[m] \in Int
  <2>1. m \in 0 .. m
    BY <1>2
  <2> QED BY <1>8, <2>1
<1>10. \A i \in 0 .. m + n : h[i] \in Int
  <2> SUFFICES ASSUME NEW i \in 0 .. m + n PROVE h[i] \in Int
    OBVIOUS
  <2>1. CASE i <= m
    <3>1. i \in 0 .. m
      BY <1>2, <2>1
    <3> QED BY <1>7, <1>8, <2>1, <3>1
  <2>2. CASE ~(i <= m)
    <3>1. i - m \in 0 .. n
      BY <1>2, <2>2
    <3>2. g[i - m] \in Int
      BY <1>8, <3>1
    <3> QED BY <1>7, <1>9, <2>2, <3>2
  <2> QED BY <2>1, <2>2
<1>11. h \in [0 .. m + n -> Int]
  BY <1>7, <1>10
<1>12. ASSUME NEW i \in 1 .. m + n PROVE h[i] = h[i - 1] + load[ab[i]]
  <2>0. i \in 0 .. m + n /\ i - 1 \in 0 .. m + n
    BY <1>2
  <2>1. CASE i <= m
    <3>1. i \in 1 .. m /\ i - 1 <= m
      BY <1>2, <2>1
    <3>2. h[i] = f[i] /\ h[i - 1] = f[i - 1] /\ ab[i] = a[i]
      BY <1>3, <1>7, <2>0, <2>1, <3>1
    <3> QED BY <1>8, <3>1, <3>2
  <2>2. CASE i = m + 1
    <3>1. i - m = 1 /\ i - 1 = m /\ 1 \in 1 .. n /\ ~(i <= m) /\ i - 1 <= m /\ 1 - 1 = 0 /\ n >= 1
      BY <1>2, <2>2
    <3>2. h[i] = f[m] + g[1] /\ h[i - 1] = f[m] /\ ab[i] = b[1]
      BY <1>3, <1>7, <2>0, <3>1
    <3>3. g[1] = g[1 - 1] + load[b[1]] /\ load[b[1]] \in Int
      BY <1>2, <1>8, <3>1
    <3>4. g[1] = load[b[1]]
      BY <1>8, <3>1, <3>3
    <3> QED BY <3>2, <3>4
  <2>3. CASE i > m + 1
    <3>1. PICK j : j = i - m
      OBVIOUS
    <3>2. j \in 1 .. n /\ j - 1 \in 0 .. n /\ j \in 0 .. n /\ (i - 1) - m = j - 1 /\ ~(i <= m) /\ ~(i - 1 <= m)
      BY <1>2, <2>3, <3>1
    <3>3. h[i] = f[m] + g[j] /\ h[i - 1] = f[m] + g[j - 1] /\ ab[i] = b[j]
      BY <1>3, <1>7, <2>0, <3>1, <3>2
    <3>4. g[j] = g[j - 1] + load[b[j]] /\ g[j - 1] \in Int /\ load[b[j]] \in Int
      BY <1>2, <1>8, <3>2
    <3> QED BY <1>9, <3>3, <3>4
  <2>4. i <= m \/ i = m + 1 \/ i > m + 1
    BY <1>2
  <2> QED BY <2>1, <2>2, <2>3, <2>4
<1>13. h[0] = 0
  BY <1>2, <1>7, <1>8
<1>14. Sums0(h, load, ab)
  BY <1>3, <1>12, <1>13 DEF Sums0
<1>15. Sum(load, ab) = h[m + n]
  BY <1>3, <1>11, <1>14, SumIsLast
<1>16. h[m + n] = f[m] + g[n]
  <2>1. m + n \in 0 .. m + n
    BY <1>2
  <2>2. CASE n = 0
    BY <1>2, <1>7, <1>8, <1>9, <2>1, <2>2
  <2>3. CASE n # 0
    <3>1. ~(m + n <= m) /\ (m + n) - m = n
      BY <1>2, <2>3
    <3> QED BY <1>7, <2>1, <3>1
  <2> QED BY <2>2, <2>3
<1> QED BY <1>1, <1>6, <1>15, <1>16

(* The sum of one element.                                                 *)
LEMMA SumOfOne ==
  ASSUME NEW D, NEW load \in [D -> Int], NEW x \in D
  PROVE  Sum(load, <<x>>) = load[x]
<1>1. PICK s, f : s = <<x>> /\ f = [i \in 0 .. 1 |-> IF i = 0 THEN 0 ELSE load[x]]
  OBVIOUS
<1>2. s \in Seq(D) /\ Len(s) = 1 /\ s[1] = x
  BY <1>1
<1>3. f \in [0 .. 1 -> Int] /\ f[0] = 0 /\ f[1] = load[x] /\ load[x] \in Int
  BY <1>1
<1>4. \A i \in 1 .. 1 : f[i] = f[i - 1] + load[s[i]]
  <2> SUFFICES ASSUME NEW i \in 1 .. 1 PROVE f[i] = f[i - 1] + load[s[i]]
    OBVIOUS
  <2>1. i = 1 /\ i - 1 = 0
    OBVIOUS
  <2> QED BY <1>2, <1>3, <2>1
<1>5. Sums0(f, load, s)
  BY <1>2, <1>3, <1>4 DEF Sums0
<1>6. Sum(load, s) = f[1]
  BY <1>2, <1>3, <1>5, SumIsLast
<1> QED BY <1>1, <1>3, <1>6

(* A sequence but for its r-th element.                                    *)
But(t, r) == SubSeq(t, 1, r - 1) \o SubSeq(t, r + 1, Len(t))

(* One element less, and the sum without its load.                         *)
LEMMA SumBut ==
  ASSUME NEW D, NEW load \in [D -> Int], NEW t \in Seq(D), NEW r \in 1 .. Len(t)
  PROVE  /\ But(t, r) \in Seq(D) /\ Len(But(t, r)) = Len(t) - 1
         /\ \A i \in 1 .. Len(t) - 1 : But(t, r)[i] = IF i < r THEN t[i] ELSE t[i + 1]
         /\ Sum(load, t) = Sum(load, But(t, r)) + load[t[r]]
<1>1. PICK n, a, b, c, m, k : /\ n = Len(t) /\ a = SubSeq(t, 1, r - 1) /\ b = SubSeq(t, r + 1, n)
                              /\ c = <<t[r]>> /\ m = r - 1 /\ k = n - r
  OBVIOUS
<1>2. /\ n \in Nat /\ r \in 1 .. n /\ m \in Nat /\ k \in Nat
      /\ \A i \in 1 .. n : t[i] \in D
  <2>1. n \in Nat /\ r \in 1 .. n
    BY <1>1, LenProperties
  <2>2. \A i \in 1 .. n : t[i] \in D
    BY <1>1, ElementOfSeq
  <2> QED BY <1>1, <2>1, <2>2
<1>3. a \in Seq(D) /\ Len(a) = m /\ \A i \in 1 .. m : a[i] = t[i]
  <2>1. m \in 0 .. Len(t)
    BY <1>1, <1>2
  <2> QED BY <1>1, <2>1, Prefix
<1>4. b \in Seq(D) /\ Len(b) = k /\ \A i \in 1 .. k : b[i] = t[r + i]
  <2>1. r + 1 \in Int /\ n \in Int /\ \A i \in (r + 1) .. n : t[i] \in D
    BY <1>2
  <2>2. /\ b \in Seq(D) /\ Len(b) = IF r + 1 <= n THEN n - (r + 1) + 1 ELSE 0
        /\ \A i \in 1 .. n - (r + 1) + 1 : b[i] = t[r + 1 + i - 1]
    BY <1>1, <2>1, SubSeqProperties
  <2>3. n - (r + 1) + 1 = k /\ (~(r + 1 <= n) => k = 0) /\ \A i \in 1 .. k : r + 1 + i - 1 = r + i
    BY <1>1, <1>2
  <2> QED BY <2>2, <2>3
<1>5. c \in Seq(D) /\ Len(c) = 1 /\ c[1] = t[r]
  BY <1>1, <1>2
<1>6. PICK ab : ab = a \o b
  OBVIOUS
<1>7. /\ ab \in Seq(D) /\ Len(ab) = m + k
      /\ \A i \in 1 .. m + k : ab[i] = IF i <= m THEN a[i] ELSE b[i - m]
  BY <1>3, <1>4, <1>6, ConcatProperties
<1>8. But(t, r) = ab
  BY <1>1, <1>6 DEF But
<1>9. m + k = n - 1
  BY <1>1, <1>2
<1>10. ASSUME NEW i \in 1 .. n - 1 PROVE ab[i] = IF i < r THEN t[i] ELSE t[i + 1]
  <2>0. i \in 1 .. m + k
    BY <1>9
  <2>1. CASE i < r
    <3>1. i <= m /\ i \in 1 .. m
      BY <1>1, <1>2, <2>1
    <3> QED BY <1>3, <1>7, <2>0, <2>1, <3>1
  <2>2. CASE ~(i < r)
    <3>1. ~(i <= m) /\ i - m \in 1 .. k /\ r + (i - m) = i + 1
      BY <1>1, <1>2, <2>2
    <3> QED BY <1>4, <1>7, <2>0, <2>2, <3>1
  <2> QED BY <2>1, <2>2
<1>11. PICK ac, acb : ac = a \o c /\ acb = ac \o b
  OBVIOUS
<1>12. ac \in Seq(D)
  BY <1>3, <1>5, <1>11, ConcatProperties
<1>13. t = acb
  <2>1. t = SubSeq(t, 1, n)
    BY <1>1, SubSeqFull
  <2>2. SubSeq(t, 1, r) = ac
    <3>1. 1 \in 1 .. Len(t) /\ r \in 1 .. Len(t)
      BY <1>1, <1>2
    <3>2. SubSeq(t, 1, r) = SubSeq(t, 1, r - 1) \o <<t[r]>>
      BY <3>1, SubSeqRecursiveSecond
    <3> QED BY <1>1, <1>11, <3>2
  <2>3. SubSeq(t, 1, n) = SubSeq(t, 1, r) \o SubSeq(t, r + 1, n)
    <3>1. 1 \in 1 .. Len(t) + 1 /\ r \in 1 - 1 .. Len(t) /\ n \in r .. Len(t)
      BY <1>1, <1>2
    <3> QED BY <3>1, ConcatAdjacentSubSeq
  <2> QED BY <1>1, <1>11, <2>1, <2>2, <2>3
<1>14. Sum(load, t) = Sum(load, ac) + Sum(load, b)
  BY <1>4, <1>11, <1>12, <1>13, SumOfConcat
<1>15. Sum(load, ac) = Sum(load, a) + load[t[r]]
  <2>1. Sum(load, ac) = Sum(load, a) + Sum(load, c)
    BY <1>3, <1>5, <1>11, SumOfConcat
  <2>2. Sum(load, c) = load[t[r]]
    BY <1>1, <1>2, SumOfOne
  <2> QED BY <2>1, <2>2
<1>16. Sum(load, ab) = Sum(load, a) + Sum(load, b)
  BY <1>3, <1>4, <1>6, SumOfConcat
<1>17. Sum(load, a) \in Int /\ Sum(load, b) \in Int /\ load[t[r]] \in Int
  BY <1>2, <1>3, <1>4, SumIsInt
<1>18. Sum(load, t) = Sum(load, ab) + load[t[r]]
  BY <1>14, <1>15, <1>16, <1>17
<1> QED BY <1>1, <1>7, <1>8, <1>9, <1>10, <1>18

(* When a function is a reordering of 1 .. n.                              *)
LEMMA IsReordering ==
  ASSUME NEW n \in Nat, NEW p \in [1 .. n -> 1 .. n],
         \A i, j \in 1 .. n : p[i] = p[j] => i = j,
         \A i \in 1 .. n : \E r \in 1 .. n : p[r] = i
  PROVE  p \in Bijection(1 .. n, 1 .. n)
  BY Fun_IsBij

(* The order of its indices does not change a sum.                         *)
LEMMA ReorderBut ==
  ASSUME NEW n \in Nat, NEW p \in Bijection(1 .. n + 1, 1 .. n + 1),
         NEW r \in 1 .. n + 1, p[r] = n + 1,
         NEW q, q = [i \in 1 .. n |-> IF i < r THEN p[i] ELSE p[i + 1]]
  PROVE  q \in Bijection(1 .. n, 1 .. n)
<1>1. n + 1 \in Nat
  OBVIOUS
<1>2. /\ p \in [1 .. n + 1 -> 1 .. n + 1]
      /\ \A i, j \in 1 .. n + 1 : p[i] = p[j] => i = j
      /\ \A i \in 1 .. n + 1 : \E j \in 1 .. n + 1 : p[j] = i
  BY <1>1, Reordering
<1> DEFINE at(i) == IF i < r THEN i ELSE i + 1
<1>3. \A i \in 1 .. n : at(i) \in 1 .. n + 1 /\ at(i) # r
  OBVIOUS
<1>4. \A i, j \in 1 .. n : at(i) = at(j) => i = j
  OBVIOUS
<1>5. \A j \in 1 .. n + 1 : j # r => \E i \in 1 .. n : at(i) = j
  <2> SUFFICES ASSUME NEW j \in 1 .. n + 1, j # r PROVE \E i \in 1 .. n : at(i) = j
    OBVIOUS
  <2>1. CASE j < r
    <3>1. j \in 1 .. n /\ at(j) = j
      BY <2>1
    <3> QED BY <3>1
  <2>2. CASE j > r
    <3>1. j - 1 \in 1 .. n /\ at(j - 1) = j
      BY <2>2
    <3> QED BY <3>1
  <2>3. j < r \/ j > r
    OBVIOUS
  <2> QED BY <2>1, <2>2, <2>3
<1>6. \A i \in 1 .. n : q[i] = p[at(i)]
  OBVIOUS
<1> HIDE DEF at
<1>7. \A i \in 1 .. n : q[i] \in 1 .. n
  <2> SUFFICES ASSUME NEW i \in 1 .. n PROVE q[i] \in 1 .. n
    OBVIOUS
  <2>1. at(i) \in 1 .. n + 1 /\ p[at(i)] \in 1 .. n + 1
    BY <1>2, <1>3
  <2>2. p[at(i)] # n + 1
    BY <1>2, <1>3
  <2>3. q[i] \in 1 .. n + 1 /\ q[i] # n + 1
    BY <1>6, <2>1, <2>2
  <2>4. \A z \in 1 .. n + 1 : z # n + 1 => z \in 1 .. n
    OBVIOUS
  <2> QED BY <2>3, <2>4
<1>8. q \in [1 .. n -> 1 .. n]
  BY <1>7
<1>9. \A i, j \in 1 .. n : q[i] = q[j] => i = j
  <2> SUFFICES ASSUME NEW i \in 1 .. n, NEW j \in 1 .. n, q[i] = q[j] PROVE i = j
    OBVIOUS
  <2>1. p[at(i)] = p[at(j)]
    BY <1>6
  <2>2. at(i) = at(j)
    BY <1>2, <1>3, <2>1
  <2> QED BY <1>4, <2>2
<1>10. \A t \in 1 .. n : \E i \in 1 .. n : q[i] = t
  <2> SUFFICES ASSUME NEW t \in 1 .. n PROVE \E i \in 1 .. n : q[i] = t
    OBVIOUS
  <2>1. t \in 1 .. n + 1 /\ t # n + 1
    OBVIOUS
  <2>2. PICK j \in 1 .. n + 1 : p[j] = t
    BY <1>2, <2>1
  <2>3. j # r
    BY <2>1, <2>2
  <2>4. PICK i \in 1 .. n : at(i) = j
    BY <1>5, <2>3
  <2> QED BY <1>6, <2>2, <2>4
<1> QED BY <1>8, <1>9, <1>10, IsReordering, ZenonT(30)

(* A reordering does not change the sum.                                   *)
LEMMA SumReordered ==
  ASSUME NEW D, NEW load \in [D -> Int], NEW s \in Seq(D), NEW p \in Bijection(1 .. Len(s), 1 .. Len(s))
  PROVE  Sum(load, [r \in 1 .. Len(s) |-> s[p[r]]]) = Sum(load, s)
<1> DEFINE Ok(n) == \A t \in [1 .. n -> D] : \A q \in Bijection(1 .. n, 1 .. n) :
                       Sum(load, [r \in 1 .. n |-> t[q[r]]]) = Sum(load, t)
<1>1. Ok(0)
  <2> SUFFICES ASSUME NEW t \in [1 .. 0 -> D], NEW q \in Bijection(1 .. 0, 1 .. 0)
               PROVE  Sum(load, [r \in 1 .. 0 |-> t[q[r]]]) = Sum(load, t)
    OBVIOUS
  <2>1. [r \in 1 .. 0 |-> t[q[r]]] = t
    OBVIOUS
  <2> QED BY <2>1
<1>2. ASSUME NEW n \in Nat, Ok(n) PROVE Ok(n + 1)
  <2> SUFFICES ASSUME NEW t \in [1 .. n + 1 -> D], NEW q \in Bijection(1 .. n + 1, 1 .. n + 1)
               PROVE  Sum(load, [r \in 1 .. n + 1 |-> t[q[r]]]) = Sum(load, t)
    OBVIOUS
  <2>1. PICK u : u = [r \in 1 .. n + 1 |-> t[q[r]]]
    OBVIOUS
  <2>2. /\ q \in [1 .. n + 1 -> 1 .. n + 1]
        /\ \A i, j \in 1 .. n + 1 : q[i] = q[j] => i = j
        /\ \A i \in 1 .. n + 1 : \E j \in 1 .. n + 1 : q[j] = i
    BY n + 1 \in Nat, Reordering
  <2>3. PICK r \in 1 .. n + 1 : q[r] = n + 1
    BY <2>2
  <2>4. u \in [1 .. n + 1 -> D] /\ \A i \in 1 .. n + 1 : u[i] = t[q[i]]
    BY <2>1, <2>2
  <2>5. u \in Seq(D) /\ Len(u) = n + 1 /\ t \in Seq(D) /\ Len(t) = n + 1
    BY <2>4, n + 1 \in Nat, SameSeq
  <2>6. PICK v, w, p1 : v = But(u, r) /\ w = But(t, n + 1)
                        /\ p1 = [i \in 1 .. n |-> IF i < r THEN q[i] ELSE q[i + 1]]
    OBVIOUS
  <2>7. p1 \in Bijection(1 .. n, 1 .. n)
    BY <2>3, <2>6, ReorderBut
  <2>8. /\ v \in Seq(D) /\ Len(v) = n
        /\ \A i \in 1 .. n : v[i] = IF i < r THEN u[i] ELSE u[i + 1]
        /\ Sum(load, u) = Sum(load, v) + load[u[r]]
    <3>1. r \in 1 .. Len(u) /\ Len(u) - 1 = n
      BY <2>5
    <3>2. /\ But(u, r) \in Seq(D) /\ Len(But(u, r)) = Len(u) - 1
          /\ \A i \in 1 .. Len(u) - 1 : But(u, r)[i] = IF i < r THEN u[i] ELSE u[i + 1]
          /\ Sum(load, u) = Sum(load, But(u, r)) + load[u[r]]
      BY <2>5, <3>1, SumBut, ZenonT(30)
    <3> QED BY <2>6, <3>1, <3>2
  <2>9. /\ w \in Seq(D) /\ Len(w) = n
        /\ \A i \in 1 .. n : w[i] = IF i < n + 1 THEN t[i] ELSE t[i + 1]
        /\ Sum(load, t) = Sum(load, w) + load[t[n + 1]]
    <3>1. n + 1 \in 1 .. Len(t) /\ Len(t) - 1 = n
      BY <2>5
    <3>2. PICK z : z = n + 1
      OBVIOUS
    <3>3. /\ But(t, z) \in Seq(D) /\ Len(But(t, z)) = Len(t) - 1
          /\ \A i \in 1 .. Len(t) - 1 : But(t, z)[i] = IF i < z THEN t[i] ELSE t[i + 1]
          /\ Sum(load, t) = Sum(load, But(t, z)) + load[t[z]]
      <4>1. z \in 1 .. Len(t)
        BY <3>1, <3>2
      <4> QED BY <2>5, <4>1, SumBut, ZenonT(30)
    <3> QED BY <2>6, <3>1, <3>2, <3>3
  <2>10. w \in [1 .. n -> D] /\ \A i \in 1 .. n : w[i] = t[i]
    <3>1. \A i \in 1 .. n : i < n + 1
      OBVIOUS
    <3>2. w \in [1 .. n -> D]
      BY <2>9, LenProperties
    <3> QED BY <2>9, <3>1, <3>2
  <2>11. v = [i \in 1 .. n |-> w[p1[i]]]
    <3>1. \A i \in 1 .. n : v[i] = w[p1[i]]
      <4> SUFFICES ASSUME NEW i \in 1 .. n PROVE v[i] = w[p1[i]]
        OBVIOUS
      <4>1. p1[i] \in 1 .. n
        <5>1. p1 \in [1 .. n -> 1 .. n]
          BY <2>7, Reordering
        <5> QED BY <5>1
      <4>2. i \in 1 .. n + 1 /\ i + 1 \in 1 .. n + 1
        OBVIOUS
      <4>3. CASE i < r
        <5>1. v[i] = t[q[i]] /\ p1[i] = q[i]
          BY <2>4, <2>6, <2>8, <4>2, <4>3
        <5> QED BY <2>10, <4>1, <5>1
      <4>4. CASE ~(i < r)
        <5>1. v[i] = t[q[i + 1]] /\ p1[i] = q[i + 1]
          BY <2>4, <2>6, <2>8, <4>2, <4>4
        <5> QED BY <2>10, <4>1, <5>1
      <4> QED BY <4>3, <4>4
    <3>2. v \in [1 .. n -> D]
      BY <2>8, LenProperties
    <3> QED BY <3>1, <3>2
  <2>12. Sum(load, v) = Sum(load, w)
    BY <1>2, <2>7, <2>10, <2>11
  <2>13. u[r] = t[n + 1]
    BY <2>3, <2>4
  <2> QED BY <2>1, <2>8, <2>9, <2>12, <2>13
<1> HIDE DEF Ok
<1>3. \A n \in Nat : Ok(n)
  <2> DEFINE E == {n \in Nat : Ok(n)}
  <2>1. 0 \in E
    BY <1>1
  <2>2. \A n \in Nat : n \in E => n + 1 \in E
    BY <1>2
  <2> HIDE DEF E
  <2>3. Nat \subseteq E
    BY <2>1, <2>2, Induction
  <2> QED BY <2>3 DEF E
<1>4. Len(s) \in Nat /\ s \in [1 .. Len(s) -> D]
  BY LenProperties
<1>5. Ok(Len(s))
  BY <1>3, <1>4
<1> QED BY <1>4, <1>5 DEF Ok

(* Loads that are not negative have such a sum.                            *)
LEMMA SumWithin ==
  ASSUME NEW D, NEW load \in [D -> Nat], NEW indices \in Seq(D)
  PROVE  Sum(load, indices) \in Nat
<1>1. load \in [D -> Int]
  OBVIOUS
<1>2. PICK f : f \in [0 .. Len(indices) -> Int] /\ Sums0(f, load, indices)
  BY <1>1, SumExists
<1>3. PICK n : n = Len(indices)
  OBVIOUS
<1>4. n \in Nat /\ \A i \in 1 .. n : load[indices[i]] \in Nat
  <2>1. n \in Nat /\ \A i \in 1 .. n : indices[i] \in D
    BY <1>3, LenProperties, ElementOfSeq
  <2> QED BY <2>1
<1> DEFINE Ok(m) == m <= n => f[m] \in Nat
<1>5. Ok(0)
  BY <1>2 DEF Sums0
<1>6. ASSUME NEW m \in Nat, Ok(m) PROVE Ok(m + 1)
  <2> SUFFICES ASSUME m + 1 <= n PROVE f[m + 1] \in Nat
    OBVIOUS
  <2>1. m <= n /\ m + 1 \in 1 .. n /\ (m + 1) - 1 = m
    BY <1>4
  <2>2. f[m + 1] = f[m] + load[indices[m + 1]]
    BY <1>2, <1>3, <2>1 DEF Sums0
  <2>3. load[indices[m + 1]] \in Nat
    BY <1>4, <2>1
  <2> QED BY <1>6, <2>1, <2>2, <2>3
<1> HIDE DEF Ok
<1>7. \A m \in Nat : Ok(m)
  <2> DEFINE E == {m \in Nat : Ok(m)}
  <2>1. 0 \in E
    BY <1>5
  <2>2. \A m \in Nat : m \in E => m + 1 \in E
    BY <1>6
  <2> HIDE DEF E
  <2>3. Nat \subseteq E
    BY <2>1, <2>2, Induction
  <2> QED BY <2>3 DEF E
<1>8. f[n] \in Nat
  BY <1>4, <1>7 DEF Ok
<1> QED BY <1>1, <1>2, <1>3, <1>8, SumIsLast

(* The order of sets: a total order, by sum, number of items and items.    *)
SetRecord(D) == [sum : Int, items : Seq(D)]
FirstLess(a, b) == \E i \in DOMAIN a : a[i] < b[i] /\ \A j \in 1 .. i - 1 : a[j] = b[j]

(* The order of sequences by their first difference is total.              *)
LEMMA FirstLessOrders ==
  ASSUME NEW n \in Nat, NEW a \in [1 .. n -> Int], NEW b \in [1 .. n -> Int], NEW c \in [1 .. n -> Int]
  PROVE  /\ FirstLess(a, b) => ~FirstLess(b, a)
         /\ a # b => FirstLess(a, b) \/ FirstLess(b, a)
         /\ FirstLess(a, b) /\ FirstLess(b, c) => FirstLess(a, c)
<1>0. \A i \in 1 .. n : a[i] \in Int /\ b[i] \in Int /\ c[i] \in Int
  OBVIOUS
<1>1. ASSUME FirstLess(a, b), FirstLess(b, a) PROVE FALSE
  <2>1. PICK i \in 1 .. n : a[i] < b[i] /\ \A j \in 1 .. i - 1 : a[j] = b[j]
    BY <1>1 DEF FirstLess
  <2>2. PICK l \in 1 .. n : b[l] < a[l] /\ \A j \in 1 .. l - 1 : b[j] = a[j]
    BY <1>1 DEF FirstLess
  <2>3. CASE i < l
    <3>1. i \in 1 .. l - 1
      BY <2>3
    <3> QED BY <1>0, <2>1, <2>2, <3>1
  <2>4. CASE l < i
    <3>1. l \in 1 .. i - 1
      BY <2>4
    <3> QED BY <1>0, <2>1, <2>2, <3>1
  <2>5. CASE i = l
    BY <1>0, <2>1, <2>2, <2>5
  <2>6. i < l \/ l < i \/ i = l
    OBVIOUS
  <2> QED BY <2>3, <2>4, <2>5, <2>6
<1>2. ASSUME a # b PROVE FirstLess(a, b) \/ FirstLess(b, a)
  <2>1. PICK T : T = {i \in 1 .. n : a[i] # b[i]}
    OBVIOUS
  <2>2. T \in SUBSET Nat /\ T # {}
    <3>1. \E i \in 1 .. n : a[i] # b[i]
      BY <1>2
    <3>2. T # {}
      BY <2>1, <3>1, Zenon
    <3>3. T \in SUBSET Nat
      BY <2>1
    <3> QED BY <3>2, <3>3
  <2>3. PICK i \in T : \A j \in T : i <= j
    BY <2>2, LeastNumber
  <2>4. i \in 1 .. n /\ a[i] # b[i]
    BY <2>1
  <2>5. \A j \in 1 .. i - 1 : a[j] = b[j]
    <3> SUFFICES ASSUME NEW j \in 1 .. i - 1 PROVE a[j] = b[j]
      OBVIOUS
    <3>1. j \in 1 .. n /\ ~(i <= j)
      BY <2>4
    <3> QED BY <2>1, <2>3, <3>1
  <2>6. a[i] < b[i] \/ b[i] < a[i]
    BY <1>0, <2>4
  <2>7. \A j \in 1 .. i - 1 : b[j] = a[j]
    BY <2>5
  <2>8. DOMAIN a = 1 .. n /\ DOMAIN b = 1 .. n
    OBVIOUS
  <2>9. CASE a[i] < b[i]
    BY <2>4, <2>5, <2>8, <2>9 DEF FirstLess
  <2>10. CASE b[i] < a[i]
    BY <2>4, <2>7, <2>8, <2>10 DEF FirstLess
  <2> QED BY <2>6, <2>9, <2>10
<1>3. ASSUME FirstLess(a, b), FirstLess(b, c) PROVE FirstLess(a, c)
  <2>1. PICK i \in 1 .. n : a[i] < b[i] /\ \A j \in 1 .. i - 1 : a[j] = b[j]
    BY <1>3 DEF FirstLess
  <2>2. PICK l \in 1 .. n : b[l] < c[l] /\ \A j \in 1 .. l - 1 : b[j] = c[j]
    BY <1>3 DEF FirstLess
  <2>3. \E m \in 1 .. n : a[m] < c[m] /\ \A j \in 1 .. m - 1 : a[j] = c[j]
    <3>1. CASE i < l
      <4>1. i \in 1 .. l - 1 /\ \A j \in 1 .. i - 1 : j \in 1 .. l - 1
        BY <3>1
      <4>2. b[i] = c[i] /\ \A j \in 1 .. i - 1 : a[j] = c[j]
        BY <2>1, <2>2, <4>1
      <4> QED BY <2>1, <4>2
    <3>2. CASE l < i
      <4>1. l \in 1 .. i - 1 /\ \A j \in 1 .. l - 1 : j \in 1 .. i - 1
        BY <3>2
      <4>2. a[l] = b[l] /\ \A j \in 1 .. l - 1 : a[j] = c[j]
        BY <2>1, <2>2, <4>1
      <4> QED BY <2>2, <4>2
    <3>3. CASE i = l
      <4>1. a[i] < c[i]
        BY <1>0, <2>1, <2>2, <3>3
      <4>2. \A j \in 1 .. i - 1 : a[j] = c[j]
        BY <2>1, <2>2, <3>3
      <4> QED BY <4>1, <4>2
    <3>4. i < l \/ l < i \/ i = l
      OBVIOUS
    <3> QED BY <3>1, <3>2, <3>3, <3>4
  <2>4. DOMAIN a = 1 .. n
    OBVIOUS
  <2> QED BY <2>3, <2>4 DEF FirstLess
<1> QED BY <1>1, <1>2, <1>3

(* The order of the sets of the heap, with that order of their items.      *)
LEMMA SetLessIs ==
  ASSUME NEW s, NEW t
  PROVE  SetLess(s, t) <=> \/ s.sum < t.sum
                           \/ s.sum = t.sum /\ Len(s.items) < Len(t.items)
                           \/ /\ s.sum = t.sum /\ Len(s.items) = Len(t.items)
                              /\ FirstLess(s.items, t.items)
  BY DEF SetLess, FirstLess

(* It is a strict order, and total on different sets.                      *)
LEMMA SetLessOrders ==
  ASSUME NEW D \in SUBSET Int, NEW s \in SetRecord(D), NEW t \in SetRecord(D), NEW u \in SetRecord(D)
  PROVE  /\ SetLess(s, t) => ~SetLess(t, s)
         /\ s # t => SetLess(s, t) \/ SetLess(t, s)
         /\ SetLess(s, t) /\ SetLess(t, u) => SetLess(s, u)
         /\ ~SetLess(s, t) /\ ~SetLess(t, u) => ~SetLess(s, u)
<1>1. \A x \in SetRecord(D) : /\ x.sum \in Int /\ x.items \in Seq(D) /\ Len(x.items) \in Nat
                              /\ x.items \in [1 .. Len(x.items) -> Int]
  <2> SUFFICES ASSUME NEW x \in SetRecord(D)
               PROVE  /\ x.sum \in Int /\ x.items \in Seq(D) /\ Len(x.items) \in Nat
                      /\ x.items \in [1 .. Len(x.items) -> Int]
    OBVIOUS
  <2>1. x.sum \in Int /\ x.items \in Seq(D)
    BY DEF SetRecord
  <2>2. Len(x.items) \in Nat /\ x.items \in [1 .. Len(x.items) -> D]
    BY <2>1, LenProperties
  <2>3. x.items \in [1 .. Len(x.items) -> Int]
    BY <2>2
  <2> QED BY <2>1, <2>2, <2>3
<1>2. \A x, y \in SetRecord(D) : SetLess(x, y) => ~SetLess(y, x)
  <2> SUFFICES ASSUME NEW x \in SetRecord(D), NEW y \in SetRecord(D), SetLess(x, y), SetLess(y, x)
               PROVE  FALSE
    OBVIOUS
  <2>1. x.sum \in Int /\ y.sum \in Int /\ Len(x.items) \in Nat /\ Len(y.items) \in Nat
    BY <1>1
  <2>2. x.sum = y.sum /\ Len(x.items) = Len(y.items) /\ FirstLess(x.items, y.items) /\ FirstLess(y.items, x.items)
    BY <2>1, SetLessIs
  <2>3. x.items \in [1 .. Len(x.items) -> Int] /\ y.items \in [1 .. Len(x.items) -> Int]
    BY <1>1, <2>2
  <2> QED BY <2>1, <2>2, <2>3, FirstLessOrders
<1>3. \A x, y \in SetRecord(D) : x # y => SetLess(x, y) \/ SetLess(y, x)
  <2> SUFFICES ASSUME NEW x \in SetRecord(D), NEW y \in SetRecord(D), x # y,
                      ~SetLess(x, y), ~SetLess(y, x)
               PROVE  FALSE
    OBVIOUS
  <2>1. x.sum \in Int /\ y.sum \in Int /\ Len(x.items) \in Nat /\ Len(y.items) \in Nat
    BY <1>1
  <2>2. ~(x.sum < y.sum) /\ ~(y.sum < x.sum)
    BY SetLessIs
  <2>3. x.sum = y.sum
    BY <2>1, <2>2
  <2>4. ~(Len(x.items) < Len(y.items)) /\ ~(Len(y.items) < Len(x.items))
    BY <2>3, SetLessIs
  <2>5. Len(x.items) = Len(y.items)
    BY <2>1, <2>4
  <2>6. ~FirstLess(x.items, y.items) /\ ~FirstLess(y.items, x.items)
    BY <2>3, <2>5, SetLessIs
  <2>7. x.items \in [1 .. Len(x.items) -> Int] /\ y.items \in [1 .. Len(x.items) -> Int]
    BY <1>1, <2>5
  <2>8. x.items = y.items
    BY <2>1, <2>6, <2>7, FirstLessOrders
  <2>9. x = y
    <3>1. /\ x = [sum |-> x.sum, items |-> x.items] /\ y = [sum |-> y.sum, items |-> y.items]
      BY DEF SetRecord
    <3> QED BY <2>3, <2>8, <3>1
  <2> QED BY <2>9
<1>4. \A x, y, z \in SetRecord(D) : SetLess(x, y) /\ SetLess(y, z) => SetLess(x, z)
  <2> SUFFICES ASSUME NEW x \in SetRecord(D), NEW y \in SetRecord(D), NEW z \in SetRecord(D),
                      SetLess(x, y), SetLess(y, z)
               PROVE  SetLess(x, z)
    OBVIOUS
  <2>1. /\ x.sum \in Int /\ y.sum \in Int /\ z.sum \in Int
        /\ Len(x.items) \in Nat /\ Len(y.items) \in Nat /\ Len(z.items) \in Nat
    BY <1>1
  <2>3. x.sum <= y.sum /\ y.sum <= z.sum
    BY <2>1, SetLessIs
  <2>4. CASE x.sum < z.sum
    BY <2>4, SetLessIs
  <2>5. CASE x.sum = z.sum
    <3>1. x.sum = y.sum /\ y.sum = z.sum
      BY <2>1, <2>3, <2>5
    <3>2. Len(x.items) <= Len(y.items) /\ Len(y.items) <= Len(z.items)
      BY <2>1, <3>1, SetLessIs
    <3>3. CASE Len(x.items) < Len(z.items)
      BY <2>5, <3>3, SetLessIs
    <3>4. CASE Len(x.items) = Len(z.items)
      <4>1. Len(x.items) = Len(y.items) /\ Len(y.items) = Len(z.items)
        BY <2>1, <3>2, <3>4
      <4>2. FirstLess(x.items, y.items) /\ FirstLess(y.items, z.items)
        BY <2>1, <3>1, <4>1, SetLessIs
      <4>3. PICK n \in Nat : n = Len(x.items)
        BY <2>1
      <4>4. x.items \in [1 .. n -> Int] /\ y.items \in [1 .. n -> Int] /\ z.items \in [1 .. n -> Int]
        BY <1>1, <4>1, <4>3
      <4>5. FirstLess(x.items, z.items)
        BY <4>2, <4>4, FirstLessOrders
      <4> QED BY <2>5, <3>4, <4>5, SetLessIs
    <3> QED BY <2>1, <3>2, <3>3, <3>4
  <2> QED BY <2>1, <2>3, <2>4, <2>5
<1>5. ~SetLess(s, t) /\ ~SetLess(t, u) => ~SetLess(s, u)
  <2> SUFFICES ASSUME ~SetLess(s, t), ~SetLess(t, u), SetLess(s, u) PROVE FALSE
    OBVIOUS
  <2>1. s = t \/ SetLess(t, s)
    BY <1>3
  <2>2. t = u \/ SetLess(u, t)
    BY <1>3
  <2>3. s # t /\ t # u
    BY <1>2
  <2>4. SetLess(u, s)
    BY <1>4, <2>1, <2>2, <2>3
  <2> QED BY <1>2, <2>4
<1> QED BY <1>2, <1>3, <1>4, <1>5

(* The sets of a state, put in order: a reordering that decreases.         *)
LEMMA DecreasingReorders ==
  ASSUME NEW D \in SUBSET Int, NEW sets \in Seq(SetRecord(D))
  PROVE  \E p \in Bijection(1 .. Len(sets), 1 .. Len(sets)) :
           /\ Decreasing(sets) = [r \in 1 .. Len(sets) |-> sets[p[r]]]
           /\ \A r, q \in 1 .. Len(sets) : r < q => ~SetLess(sets[p[r]], sets[p[q]])
<1> DEFINE n == Len(sets)
<1>1. PICK L : L = {e \in (1 .. n) \X (1 .. n) : SetLess(sets[e[2]], sets[e[1]])}
  OBVIOUS
<1>2. /\ n \in Nat /\ DOMAIN sets = 1 .. n /\ Evaluated(sets) = sets
      /\ \A i \in 1 .. n : sets[i] \in SetRecord(D)
  <2>1. n \in Nat /\ sets \in [1 .. n -> SetRecord(D)]
    BY LenProperties
  <2> QED BY <2>1, SameSeq
<1>3. \A i, j \in 1 .. n : <<i, j>> \in L <=> SetLess(sets[j], sets[i])
  BY <1>1
<1>4. Decreasing(sets) = Stable(sets, L)
  <2>1. Rank(sets, LAMBDA s, t : SetLess(t, s)) = StableRanks(n, L)
    <3>1. \A i \in 1 .. n :
            {j \in 1 .. n : SetLess(sets[i], sets[j]) \/ (~SetLess(sets[j], sets[i]) /\ j < i)}
            = {j \in 1 .. n : <<j, i>> \in L \/ (<<i, j>> \notin L /\ j < i)}
      BY <1>3
    <3>2. StableRanks(n, L) = [i \in 1 .. n |-> 1 + Cardinality(
            {j \in 1 .. n : SetLess(sets[i], sets[j]) \/ (~SetLess(sets[j], sets[i]) /\ j < i)})]
      BY <3>1 DEF StableRanks
    <3> QED BY <1>2, <3>2 DEF Rank, Before
  <2> QED BY <1>2, <2>1 DEF Decreasing, StableSort, Stable
<1>5. \A i, j \in 1 .. n : <<i, j>> \in L => <<j, i>> \notin L
  BY <1>2, <1>3, SetLessOrders
<1>6. \A i, j, l \in 1 .. n : <<i, j>> \notin L /\ <<j, l>> \notin L => <<i, l>> \notin L
  BY <1>2, <1>3, SetLessOrders
<1>7. PICK p \in Bijection(1 .. n, 1 .. n) :
        /\ Stable(sets, L) = [r \in 1 .. n |-> sets[p[r]]]
        /\ \A r, q \in 1 .. n : r < q => <<p[q], p[r]>> \notin L
  BY <1>5, <1>6, StableReorders
<1>8. \A r \in 1 .. n : p[r] \in 1 .. n
  <2>1. p \in [1 .. n -> 1 .. n]
    BY <1>2, Reordering
  <2> QED BY <2>1
<1>9. \A r, q \in 1 .. n : r < q => ~SetLess(sets[p[r]], sets[p[q]])
  BY <1>3, <1>7, <1>8
<1> QED BY <1>4, <1>7, <1>9

(* Every element of I is at one place of one part, and nothing else is.    *)
Divides(parts, I) ==
  /\ \A p \in 1 .. Len(parts) : \A j \in 1 .. Len(parts[p]) : parts[p][j] \in I
  /\ \A x \in I : \E p \in 1 .. Len(parts) : \E j \in 1 .. Len(parts[p]) : parts[p][j] = x
  /\ \A p, q \in 1 .. Len(parts) : \A j \in 1 .. Len(parts[p]), l \in 1 .. Len(parts[q]) :
       parts[p][j] = parts[q][l] => p = q /\ j = l

(* A division in another order divides the same indices.                   *)
LEMMA DividesReordered ==
  ASSUME NEW parts, NEW others, NEW I, NEW n \in Nat, Len(parts) = n, Len(others) = n,
         Divides(parts, I), NEW p \in Bijection(1 .. n, 1 .. n),
         \A r \in 1 .. n : others[r] = parts[p[r]]
  PROVE  Divides(others, I)
<1>1. /\ \A r \in 1 .. n : p[r] \in 1 .. n
      /\ \A i, j \in 1 .. n : p[i] = p[j] => i = j
      /\ \A i \in 1 .. n : \E r \in 1 .. n : p[r] = i
  <2>1. p \in [1 .. n -> 1 .. n]
    BY Reordering
  <2>2. \A r \in 1 .. n : p[r] \in 1 .. n
    BY <2>1
  <2> QED BY <2>2, Reordering
<1>2. /\ \A q \in 1 .. n : \A j \in 1 .. Len(parts[q]) : parts[q][j] \in I
      /\ \A x \in I : \E q \in 1 .. n : \E j \in 1 .. Len(parts[q]) : parts[q][j] = x
      /\ \A q, r \in 1 .. n : \A j \in 1 .. Len(parts[q]), l \in 1 .. Len(parts[r]) :
           parts[q][j] = parts[r][l] => q = r /\ j = l
  BY DEF Divides
<1>3. \A q \in 1 .. n : \A j \in 1 .. Len(others[q]) : others[q][j] \in I
  BY <1>1, <1>2
<1>4. ASSUME NEW x \in I PROVE \E q \in 1 .. n : \E j \in 1 .. Len(others[q]) : others[q][j] = x
  <2>0. PICK q \in 1 .. n : \E j \in 1 .. Len(parts[q]) : parts[q][j] = x
    BY <1>2
  <2>1. PICK j \in 1 .. Len(parts[q]) : parts[q][j] = x
    BY <2>0
  <2>2. PICK r \in 1 .. n : p[r] = q
    BY <1>1
  <2>3. others[r] = parts[q]
    BY <2>2
  <2>4. j \in 1 .. Len(others[r]) /\ others[r][j] = x
    BY <2>1, <2>3
  <2> QED BY <2>4
<1>5. ASSUME NEW q \in 1 .. n, NEW r \in 1 .. n, NEW j \in 1 .. Len(others[q]), NEW l \in 1 .. Len(others[r]),
             others[q][j] = others[r][l]
      PROVE  q = r /\ j = l
  <2>1. others[q] = parts[p[q]] /\ others[r] = parts[p[r]] /\ p[q] \in 1 .. n /\ p[r] \in 1 .. n
    BY <1>1
  <2>2. parts[p[q]][j] = parts[p[r]][l] /\ j \in 1 .. Len(parts[p[q]]) /\ l \in 1 .. Len(parts[p[r]])
    BY <1>5, <2>1
  <2>3. p[q] = p[r] /\ j = l
    BY <1>2, <2>1, <2>2, SMTT(30)
  <2> QED BY <1>1, <2>3
<1> QED BY <1>3, <1>4, <1>5 DEF Divides

(* To reverse is to reorder.                                               *)
LEMMA Reversal ==
  ASSUME NEW n \in Nat, NEW p, p = [i \in 1 .. n |-> n + 1 - i]
  PROVE  p \in Bijection(1 .. n, 1 .. n)
<1>1. \A i \in 1 .. n : n + 1 - i \in 1 .. n /\ n + 1 - (n + 1 - i) = i
  OBVIOUS
<1>2. p \in [1 .. n -> 1 .. n] /\ \A i \in 1 .. n : p[i] = n + 1 - i
  BY <1>1
<1>3. \A i, j \in 1 .. n : p[i] = p[j] => i = j
  BY <1>1, <1>2
<1>4. \A i \in 1 .. n : \E r \in 1 .. n : p[r] = i
  BY <1>1, <1>2
<1> QED BY <1>2, <1>3, <1>4, IsReordering

(* Two divisions of disjoint sets, joined end to end.                      *)
EndToEnd(D, n, a, b, c) ==
  /\ n \in Nat /\ Len(a) = n /\ Len(b) = n /\ Len(c) = n
  /\ \A i \in 1 .. n : a[i] \in Seq(D) /\ b[i] \in Seq(D) /\ c[i] = a[i] \o b[i]

(* Two divisions of different indices, joined part by part.                *)
LEMMA DividesJoined ==
  ASSUME NEW D, NEW n, NEW a, NEW b, NEW c, EndToEnd(D, n, a, b, c), NEW I, NEW J, I \cap J = {},
         Divides(a, I), Divides(b, J)
  PROVE  Divides(c, I \cup J)
<1>0. /\ n \in Nat /\ Len(a) = n /\ Len(b) = n /\ Len(c) = n
      /\ \A i \in 1 .. n : a[i] \in Seq(D) /\ b[i] \in Seq(D) /\ c[i] = a[i] \o b[i]
  BY DEF EndToEnd
<1>1. /\ \A q \in 1 .. n : \A j \in 1 .. Len(a[q]) : a[q][j] \in I
      /\ \A x \in I : \E q \in 1 .. n : \E j \in 1 .. Len(a[q]) : a[q][j] = x
      /\ \A q, r \in 1 .. n : \A j \in 1 .. Len(a[q]), l \in 1 .. Len(a[r]) :
           a[q][j] = a[r][l] => q = r /\ j = l
  BY <1>0 DEF Divides
<1>2. /\ \A q \in 1 .. n : \A j \in 1 .. Len(b[q]) : b[q][j] \in J
      /\ \A x \in J : \E q \in 1 .. n : \E j \in 1 .. Len(b[q]) : b[q][j] = x
      /\ \A q, r \in 1 .. n : \A j \in 1 .. Len(b[q]), l \in 1 .. Len(b[r]) :
           b[q][j] = b[r][l] => q = r /\ j = l
  BY <1>0 DEF Divides
<1>4. \A i \in 1 .. n : Len(a[i]) \in Nat /\ Len(b[i]) \in Nat
  BY <1>0, LenProperties
<1>5. ASSUME NEW i \in 1 .. n
      PROVE  /\ Len(c[i]) = Len(a[i]) + Len(b[i])
             /\ \A j \in 1 .. Len(a[i]) : j \in 1 .. Len(c[i]) /\ c[i][j] = a[i][j]
             /\ \A j \in 1 .. Len(b[i]) : /\ Len(a[i]) + j \in 1 .. Len(c[i])
                                                  /\ c[i][Len(a[i]) + j] = b[i][j]
             /\ \A j \in 1 .. Len(c[i]) : \/ j \in 1 .. Len(a[i])
                                          \/ j - Len(a[i]) \in 1 .. Len(b[i])
  <2>1. PICK s, t, r, k, m : s = a[i] /\ t = b[i] /\ r = c[i] /\ k = Len(s) /\ m = Len(t)
    OBVIOUS
  <2>3. s \in Seq(D) /\ t \in Seq(D) /\ r = s \o t /\ k \in Nat /\ m \in Nat
    BY <1>0, <1>4, <2>1
  <2>4. Len(r) = k + m /\ \A x \in 1 .. k + m : r[x] = IF x <= k THEN s[x] ELSE t[x - k]
    <3>1. s \in Seq(D) /\ t \in Seq(D)
      BY <2>3
    <3>2. /\ Len(s \o t) = Len(s) + Len(t)
          /\ \A x \in 1 .. Len(s) + Len(t) : (s \o t)[x] = IF x <= Len(s) THEN s[x] ELSE t[x - Len(s)]
      BY <3>1, ConcatProperties
    <3> QED BY <2>1, <2>3, <3>2
  <2>5. \A j \in 1 .. k : j \in 1 .. k + m /\ r[j] = s[j]
    BY <2>3, <2>4
  <2>6. \A j \in 1 .. m : k + j \in 1 .. k + m /\ r[k + j] = t[j]
    <3> SUFFICES ASSUME NEW j \in 1 .. m PROVE k + j \in 1 .. k + m /\ r[k + j] = t[j]
      OBVIOUS
    <3>1. k + j \in 1 .. k + m /\ ~(k + j <= k) /\ (k + j) - k = j
      BY <2>3
    <3> QED BY <2>4, <3>1
  <2>7. \A j \in 1 .. k + m : j \in 1 .. k \/ j - k \in 1 .. m
    BY <2>3
  <2> QED BY <2>1, <2>4, <2>5, <2>6, <2>7
<1>6. \A i \in 1 .. n : \A j \in 1 .. Len(c[i]) : j \in Int /\ Len(a[i]) + (j - Len(a[i])) = j
  BY <1>4, <1>5
<1>7. ASSUME NEW i \in 1 .. n, NEW j \in 1 .. Len(c[i])
      PROVE  \/ j \in 1 .. Len(a[i]) /\ c[i][j] = a[i][j] /\ c[i][j] \in I
             \/ \E l \in 1 .. Len(b[i]) : /\ j = Len(a[i]) + l /\ c[i][j] = b[i][l]
                                                  /\ c[i][j] \in J
  <2>1. CASE j \in 1 .. Len(a[i])
    BY <1>1, <1>5, <2>1, ZenonT(30)
  <2>2. CASE j - Len(a[i]) \in 1 .. Len(b[i])
    <3>1. PICK l : l = j - Len(a[i])
      OBVIOUS
    <3>2. l \in 1 .. Len(b[i]) /\ j = Len(a[i]) + l
      BY <1>6, <2>2, <3>1
    <3>3. c[i][j] = b[i][l]
      BY <1>5, <3>2
    <3>4. b[i][l] \in J
      BY <1>2, <3>2
    <3> QED BY <3>2, <3>3, <3>4
  <2> QED BY <1>5, <2>1, <2>2
<1>8. \A i \in 1 .. n : \A j \in 1 .. Len(c[i]) : c[i][j] \in I \cup J
  BY <1>7
<1>9. ASSUME NEW x \in I \cup J PROVE \E i \in 1 .. n : \E j \in 1 .. Len(c[i]) : c[i][j] = x
  <2>1. CASE x \in I
    <3>0. PICK q \in 1 .. n : \E j \in 1 .. Len(a[q]) : a[q][j] = x
      BY <1>1, <2>1
    <3>1. PICK j \in 1 .. Len(a[q]) : a[q][j] = x
      BY <3>0
    <3> QED BY <1>5, <3>1
  <2>2. CASE x \in J
    <3>0. PICK q \in 1 .. n : \E j \in 1 .. Len(b[q]) : b[q][j] = x
      BY <1>2, <2>2
    <3>1. PICK j \in 1 .. Len(b[q]) : b[q][j] = x
      BY <3>0
    <3>2. Len(a[q]) + j \in 1 .. Len(c[q]) /\ c[q][Len(a[q]) + j] = x
      BY <1>5, <3>1
    <3> QED BY <3>2
  <2> QED BY <2>1, <2>2
<1>10. ASSUME NEW q \in 1 .. n, NEW r \in 1 .. n, NEW j \in 1 .. Len(c[q]), NEW l \in 1 .. Len(c[r]),
              c[q][j] = c[r][l]
       PROVE  q = r /\ j = l
  <2>1. CASE c[q][j] \in I
    <3>1. c[q][j] \notin J /\ c[r][l] \notin J
      BY <1>10, <2>1
    <3>2. /\ j \in 1 .. Len(a[q]) /\ c[q][j] = a[q][j]
          /\ l \in 1 .. Len(a[r]) /\ c[r][l] = a[r][l]
      BY <1>7, <3>1
    <3>3. a[q][j] = a[r][l]
      BY <1>10, <3>2
    <3>4. q = r /\ j = l
      BY <1>1, <3>2, <3>3
    <3> QED BY <3>4
  <2>2. CASE c[q][j] \notin I
    <3>1. c[r][l] \notin I
      BY <1>10, <2>2
    <3>2. PICK h \in 1 .. Len(b[q]) : j = Len(a[q]) + h /\ c[q][j] = b[q][h]
      <4>1. \/ j \in 1 .. Len(a[q]) /\ c[q][j] = a[q][j] /\ c[q][j] \in I
            \/ \E h \in 1 .. Len(b[q]) : j = Len(a[q]) + h /\ c[q][j] = b[q][h] /\ c[q][j] \in J
        BY <1>7
      <4> QED BY <2>2, <4>1
    <3>3. PICK m \in 1 .. Len(b[r]) : l = Len(a[r]) + m /\ c[r][l] = b[r][m]
      <4>1. \/ l \in 1 .. Len(a[r]) /\ c[r][l] = a[r][l] /\ c[r][l] \in I
            \/ \E m \in 1 .. Len(b[r]) : l = Len(a[r]) + m /\ c[r][l] = b[r][m] /\ c[r][l] \in J
        BY <1>7
      <4> QED BY <3>1, <4>1
    <3>4. b[q][h] = b[r][m]
      BY <1>10, <3>2, <3>3
    <3>5. q = r /\ h = m
      BY <1>2, <3>2, <3>3, <3>4
    <3> QED BY <3>2, <3>3, <3>5
  <2> QED BY <2>1, <2>2
<1> QED BY <1>0, <1>8, <1>9, <1>10 DEF Divides

(* A state of the heap holds the items I, each in one of its k sets, the   *)
(* sums within M of each other.                                            *)
ItemsOf(state) == [p \in 1 .. Len(state) |-> state[p].items]

Level(load, D, k, M, equal_size, I, state) ==
  /\ D \in SUBSET Int /\ load \in [D -> Nat] /\ k \in Nat /\ M \in Int
  /\ state \in Seq(SetRecord(D)) /\ Len(state) = k
  /\ \A p \in 1 .. k : state[p].sum = Sum(load, state[p].items)
  /\ Divides(ItemsOf(state), I)
  /\ \A p, q \in 1 .. k : state[p].sum - state[q].sum <= M
  /\ equal_size => \A p, q \in 1 .. k : Len(state[p].items) = Len(state[q].items)
  /\ \/ \A p \in 1 .. k : Len(state[p].items) >= 1
     \/ \A p \in 1 .. k : Len(state[p].items) <= 1

Falling(state, k) == \A p, q \in 1 .. k : p < q => ~SetLess(state[p], state[q])

(* What a set of the heap is.                                              *)
LEMMA RecordIs ==
  ASSUME NEW D, NEW s \in SetRecord(D)
  PROVE  s.sum \in Int /\ s.items \in Seq(D) /\ Len(s.items) \in Nat
<1>1. s.sum \in Int /\ s.items \in Seq(D)
  BY DEF SetRecord
<1> QED BY <1>1, LenProperties

(* Ordering the sets of a state changes nothing else.                      *)
LEMMA LevelOrdered ==
  ASSUME NEW D, NEW load, NEW k, NEW M, NEW equal_size, NEW I, NEW state,
         Level(load, D, k, M, equal_size, I, state)
  PROVE  /\ Level(load, D, k, M, equal_size, I, Decreasing(state))
         /\ Falling(Decreasing(state), k)
<1>0. /\ D \in SUBSET Int /\ load \in [D -> Nat] /\ k \in Nat /\ M \in Int
      /\ state \in Seq(SetRecord(D)) /\ Len(state) = k
      /\ \A p \in 1 .. k : state[p].sum = Sum(load, state[p].items)
      /\ Divides(ItemsOf(state), I)
      /\ \A p, q \in 1 .. k : state[p].sum - state[q].sum <= M
      /\ equal_size => \A p, q \in 1 .. k : Len(state[p].items) = Len(state[q].items)
      /\ \/ \A p \in 1 .. k : Len(state[p].items) >= 1
         \/ \A p \in 1 .. k : Len(state[p].items) <= 1
  BY DEF Level
<1>1. PICK f \in Bijection(1 .. k, 1 .. k) :
        /\ Decreasing(state) = [r \in 1 .. k |-> state[f[r]]]
        /\ \A r, q \in 1 .. k : r < q => ~SetLess(state[f[r]], state[f[q]])
  BY <1>0, DecreasingReorders
<1>2. PICK s : s = Decreasing(state)
  OBVIOUS
<1>3. \A r \in 1 .. k : f[r] \in 1 .. k
  <2>1. f \in [1 .. k -> 1 .. k]
    BY <1>0, Reordering
  <2> QED BY <2>1
<1>4. PICK R : R = SetRecord(D)
  OBVIOUS
<1>5. state \in [1 .. k -> R]
  BY <1>0, <1>4, LenProperties
<1>6. s \in [1 .. k -> R] /\ \A r \in 1 .. k : s[r] = state[f[r]]
  BY <1>1, <1>2, <1>3, <1>5
<1>7. s \in Seq(R) /\ Len(s) = k
  BY <1>0, <1>6, SameSeq
<1>8. Divides(ItemsOf(s), I)
  <2>1. PICK a, b : a = ItemsOf(state) /\ b = ItemsOf(s)
    OBVIOUS
  <2>2. a = [p \in 1 .. k |-> state[p].items] /\ b = [p \in 1 .. k |-> s[p].items]
    BY <2>1, <1>0, <1>7 DEF ItemsOf
  <2>3. PICK S : S = Seq(D)
    OBVIOUS
  <2>4. \A p \in 1 .. k : state[p].items \in S /\ s[p].items \in S
    BY <1>3, <1>4, <1>5, <1>6, <2>3, RecordIs
  <2>5. a \in [1 .. k -> S] /\ b \in [1 .. k -> S]
    BY <2>2, <2>4
  <2>6. Len(a) = k /\ Len(b) = k
    BY <1>0, <2>5, SameSeq
  <2>7. \A r \in 1 .. k : b[r] = a[f[r]]
    BY <1>3, <1>6, <2>2
  <2> QED BY <1>0, <2>1, <2>6, <2>7, DividesReordered
<1>9. Falling(s, k)
  BY <1>1, <1>6 DEF Falling
<1>10. \A p \in 1 .. k : s[p].sum = Sum(load, s[p].items)
  BY <1>0, <1>3, <1>6
<1>11. \A p, q \in 1 .. k : s[p].sum - s[q].sum <= M
  BY <1>0, <1>3, <1>6
<1>12. equal_size => \A p, q \in 1 .. k : Len(s[p].items) = Len(s[q].items)
  <2> SUFFICES ASSUME equal_size, NEW p \in 1 .. k, NEW q \in 1 .. k
               PROVE  Len(s[p].items) = Len(s[q].items)
    OBVIOUS
  <2>1. s[p] = state[f[p]] /\ s[q] = state[f[q]] /\ f[p] \in 1 .. k /\ f[q] \in 1 .. k
    BY <1>3, <1>6
  <2>2. Len(state[f[p]].items) = Len(state[f[q]].items)
    BY <1>0, <2>1
  <2> QED BY <2>1, <2>2
<1>13. \/ \A p \in 1 .. k : Len(s[p].items) >= 1
       \/ \A p \in 1 .. k : Len(s[p].items) <= 1
  BY <1>0, <1>3, <1>6
<1>14. Level(load, D, k, M, equal_size, I, s)
  BY <1>0, <1>4, <1>7, <1>8, <1>10, <1>11, <1>12, <1>13 DEF Level
<1> QED BY <1>2, <1>9, <1>14

(* In decreasing order, the empty sets are the last ones.                  *)
LEMMA EmptySetsLast ==
  ASSUME NEW D, NEW load, NEW k, NEW M, NEW equal_size, NEW I, NEW state,
         Level(load, D, k, M, equal_size, I, state), Falling(state, k)
  PROVE  \A i, j \in 1 .. k : i <= j /\ Len(state[i].items) = 0 => Len(state[j].items) = 0
<1>0. /\ load \in [D -> Nat] /\ k \in Nat /\ state \in Seq(SetRecord(D)) /\ Len(state) = k
      /\ \A p \in 1 .. k : state[p].sum = Sum(load, state[p].items)
  BY DEF Level
<1> SUFFICES ASSUME NEW i \in 1 .. k, Len(state[i].items) = 0, NEW j \in 1 .. k, i <= j
             PROVE  Len(state[j].items) = 0
  OBVIOUS
<1>1. PICK s, t : s = state[i] /\ t = state[j]
  OBVIOUS
<1>2. s \in SetRecord(D) /\ t \in SetRecord(D)
  BY <1>0, <1>1, ElementOfSeq
<1>3. s.items \in Seq(D) /\ t.items \in Seq(D) /\ Len(t.items) \in Nat
  BY <1>2, RecordIs
<1>4. s.items = <<>>
  BY <1>1, <1>3, EmptySeq
<1>5. s.sum = 0
  BY <1>0, <1>1, <1>4, SumOfNone
<1>6. t.sum \in Nat
  BY <1>0, <1>1, <1>3, SumWithin
<1>7. CASE i < j
  <2>1. ~SetLess(s, t)
    BY <1>0, <1>1, <1>7 DEF Falling
  <2>2. ~(s.sum < t.sum) /\ ~(s.sum = t.sum /\ Len(s.items) < Len(t.items))
    BY <2>1, SetLessIs
  <2>3. Len(s.items) = 0
    BY <1>1
  <2>4. t.sum = 0
    BY <1>5, <1>6, <2>2
  <2> QED BY <1>1, <1>3, <1>5, <2>2, <2>3, <2>4
<1>8. CASE i = j
  BY <1>8
<1> QED BY <1>7, <1>8

Weighed(load, D, s) == load \in [D -> Nat] /\ s \in SetRecord(D) /\ s.sum = Sum(load, s.items)

(* The sum of joined sets is that of their items.                          *)
LEMMA JoinedIs ==
  ASSUME NEW D, NEW load, NEW s, NEW t, Weighed(load, D, s), Weighed(load, D, t)
  PROVE  Weighed(load, D, Joined(s, t))
<1>0. /\ load \in [D -> Nat] /\ s \in SetRecord(D) /\ t \in SetRecord(D)
      /\ s.sum = Sum(load, s.items) /\ t.sum = Sum(load, t.items)
  BY DEF Weighed
<1>1. PICK u, v : u = s.items /\ v = t.items
  OBVIOUS
<1>2. u \in Seq(D) /\ v \in Seq(D) /\ s.sum \in Int /\ t.sum \in Int
  BY <1>0, <1>1, RecordIs
<1>3. u \o v \in Seq(D) /\ Len(u \o v) = Len(u) + Len(v)
  BY <1>2, ConcatProperties
<1>4. load \in [D -> Int]
  BY <1>0
<1>5. Sum(load, u \o v) = Sum(load, u) + Sum(load, v)
  BY <1>2, <1>4, SumOfConcat
<1>6. Joined(s, t) = [sum |-> s.sum + t.sum, items |-> u \o v]
  BY <1>1 DEF Joined
<1> QED BY <1>0, <1>1, <1>2, <1>3, <1>5, <1>6 DEF SetRecord, Weighed

(* Merging joins the largest sets of a state to the smallest of the other. *)
LEMMA MergeLevels ==
  ASSUME NEW D, NEW load, NEW k, NEW M, NEW equal_size, NEW I, NEW J, I \cap J = {}, NEW a, NEW b,
         Level(load, D, k, M, equal_size, I, a), Falling(a, k),
         Level(load, D, k, M, equal_size, J, b), Falling(b, k)
  PROVE  /\ Level(load, D, k, M, equal_size, I \cup J, Merge(a, b))
         /\ Falling(Merge(a, b), k)
<1>0. /\ D \in SUBSET Int /\ load \in [D -> Nat] /\ k \in Nat /\ M \in Int
      /\ a \in Seq(SetRecord(D)) /\ Len(a) = k
      /\ \A p \in 1 .. k : a[p].sum = Sum(load, a[p].items)
      /\ Divides(ItemsOf(a), I)
      /\ \A p, q \in 1 .. k : a[p].sum - a[q].sum <= M
      /\ equal_size => \A p, q \in 1 .. k : Len(a[p].items) = Len(a[q].items)
      /\ \/ \A p \in 1 .. k : Len(a[p].items) >= 1
         \/ \A p \in 1 .. k : Len(a[p].items) <= 1
  BY DEF Level
<1>1. /\ b \in Seq(SetRecord(D)) /\ Len(b) = k
      /\ \A p \in 1 .. k : b[p].sum = Sum(load, b[p].items)
      /\ Divides(ItemsOf(b), J)
      /\ \A p, q \in 1 .. k : b[p].sum - b[q].sum <= M
      /\ equal_size => \A p, q \in 1 .. k : Len(b[p].items) = Len(b[q].items)
      /\ \/ \A p \in 1 .. k : Len(b[p].items) >= 1
         \/ \A p \in 1 .. k : Len(b[p].items) <= 1
  BY DEF Level
<1>2. PICK R : R = SetRecord(D)
  OBVIOUS
<1>3. a \in [1 .. k -> R] /\ b \in [1 .. k -> R]
  BY <1>0, <1>1, <1>2, LenProperties
<1>4. \A p \in 1 .. k : k + 1 - p \in 1 .. k
  BY <1>0
<1>5. PICK r : r = [i \in 1 .. k |-> b[k + 1 - i]]
  OBVIOUS
<1>6. r \in [1 .. k -> R] /\ \A p \in 1 .. k : r[p] = b[k + 1 - p]
  BY <1>3, <1>4, <1>5
<1>7. PICK c : c = [i \in 1 .. k |-> Joined(a[i], b[k + 1 - i])]
  OBVIOUS
<1>8. ASSUME NEW p \in 1 .. k
      PROVE  /\ a[p] \in R /\ r[p] \in R /\ r[p].sum = Sum(load, r[p].items)
             /\ c[p] \in R /\ c[p].items = a[p].items \o r[p].items
             /\ c[p].sum = Sum(load, c[p].items) /\ c[p].sum = a[p].sum + r[p].sum
             /\ Len(c[p].items) = Len(a[p].items) + Len(r[p].items)
  <2>1. a[p] \in R /\ r[p] \in R /\ r[p].sum = Sum(load, r[p].items)
    BY <1>1, <1>3, <1>4, <1>6
  <2>2. c[p] = Joined(a[p], r[p])
    BY <1>6, <1>7
  <2>3. a[p].sum = Sum(load, a[p].items)
    BY <1>0
  <2>4. PICK s, t, u : s = a[p] /\ t = r[p] /\ u = c[p]
    OBVIOUS
  <2>5. Weighed(load, D, s) /\ Weighed(load, D, t)
    BY <1>0, <1>2, <2>1, <2>3, <2>4 DEF Weighed
  <2>6. Weighed(load, D, Joined(s, t))
    BY <2>5, JoinedIs
  <2>8. u.items = s.items \o t.items /\ u.sum = s.sum + t.sum
    <3>1. u = Joined(s, t)
      BY <2>2, <2>4
    <3>2. u = [sum |-> s.sum + t.sum, items |-> s.items \o t.items]
      BY <3>1 DEF Joined
    <3> QED BY <3>2
  <2>9. Len(s.items \o t.items) = Len(s.items) + Len(t.items)
    <3>1. PICK x, y : x = s.items /\ y = t.items
      OBVIOUS
    <3>2. x \in Seq(D) /\ y \in Seq(D)
      BY <2>5, <3>1, RecordIs DEF Weighed
    <3>3. Len(x \o y) = Len(x) + Len(y)
      BY <3>2, ConcatProperties
    <3> QED BY <3>1, <3>3
  <2>7. u \in R /\ u.sum = Sum(load, u.items)
    BY <1>2, <2>2, <2>4, <2>6 DEF Weighed
  <2> QED BY <2>1, <2>4, <2>7, <2>8, <2>9
<1>9. c \in [1 .. k -> R]
  BY <1>7, <1>8
<1>10. c \in Seq(R) /\ Len(c) = k /\ r \in Seq(R) /\ Len(r) = k
  BY <1>0, <1>6, <1>9, SameSeq
<1>11. Divides(ItemsOf(c), I \cup J)
  <2>1. PICK x, y, z : x = ItemsOf(a) /\ y = ItemsOf(r) /\ z = ItemsOf(c)
    OBVIOUS
  <2>2. /\ x = [p \in 1 .. k |-> a[p].items] /\ y = [p \in 1 .. k |-> r[p].items]
        /\ z = [p \in 1 .. k |-> c[p].items]
    BY <2>1, <1>0, <1>10 DEF ItemsOf
  <2>3. PICK w : w = ItemsOf(b)
    OBVIOUS
  <2>4. w = [p \in 1 .. k |-> b[p].items]
    BY <2>3, <1>1 DEF ItemsOf
  <2>5. PICK S : S = Seq(D)
    OBVIOUS
  <2>6. \A p \in 1 .. k : /\ a[p].items \in S /\ r[p].items \in S
                          /\ c[p].items \in S /\ b[p].items \in S
    BY <1>2, <1>3, <1>8, <2>5, RecordIs
  <2>7. x \in [1 .. k -> S] /\ y \in [1 .. k -> S] /\ z \in [1 .. k -> S] /\ w \in [1 .. k -> S]
    BY <2>2, <2>4, <2>6
  <2>8. Len(x) = k /\ Len(y) = k /\ Len(z) = k /\ Len(w) = k
    BY <1>0, <2>7, SameSeq
  <2>9. Divides(y, J)
    <3>1. PICK f : f = [i \in 1 .. k |-> k + 1 - i]
      OBVIOUS
    <3>2. f \in Bijection(1 .. k, 1 .. k)
      BY <1>0, <3>1, Reversal
    <3>3. \A p \in 1 .. k : y[p] = w[f[p]]
      BY <3>1, <1>4, <1>6, <2>2, <2>4
    <3>4. Divides(w, J)
      BY <1>1, <2>3
    <3>5. k \in Nat /\ Len(w) = k /\ Len(y) = k
      BY <1>0, <2>8
    <3> QED BY <3>2, <3>3, <3>4, <3>5, DividesReordered
  <2>10. \A p \in 1 .. k : x[p] \in Seq(D) /\ y[p] \in Seq(D) /\ z[p] = x[p] \o y[p]
    BY <1>8, <2>2, <2>5, <2>6
  <2>11. Divides(x, I)
    BY <1>0, <2>1
  <2>12. Divides(z, I \cup J)
    <3>1. EndToEnd(D, k, x, y, z)
      BY <1>0, <2>8, <2>10 DEF EndToEnd
    <3> QED BY <2>9, <2>11, <3>1, DividesJoined
  <2> QED BY <2>1, <2>12
<1>12. ASSUME NEW p \in 1 .. k, NEW q \in 1 .. k PROVE c[p].sum - c[q].sum <= M
  <2>1. a[p].sum \in Int /\ a[q].sum \in Int /\ r[p].sum \in Int /\ r[q].sum \in Int
    BY <1>2, <1>8, RecordIs
  <2>2. c[p].sum = a[p].sum + r[p].sum /\ c[q].sum = a[q].sum + r[q].sum
    BY <1>8
  <2>3. a[p].sum - a[q].sum <= M
    BY <1>0
  <2>4. r[p].sum - r[q].sum <= M
    BY <1>1, <1>4, <1>6
  <2>5. CASE p < q
    <3>1. ~SetLess(r[q], r[p])
      <4>1. k + 1 - q < k + 1 - p
        BY <1>0, <2>5
      <4> QED BY <1>4, <1>6, <4>1 DEF Falling
    <3>2. ~(r[q].sum < r[p].sum)
      BY <3>1, SetLessIs
    <3> QED BY <1>0, <2>1, <2>2, <2>3, <3>2
  <2>6. CASE q < p
    <3>1. ~SetLess(a[q], a[p])
      BY <2>6 DEF Falling
    <3>2. ~(a[q].sum < a[p].sum)
      BY <3>1, SetLessIs
    <3> QED BY <1>0, <2>1, <2>2, <2>4, <3>2, SMTT(30)
  <2>7. CASE p = q
    <3>1. a[p].sum - a[p].sum <= M
      BY <1>0
    <3> QED BY <2>1, <2>2, <2>7, <3>1
  <2> QED BY <1>0, <2>5, <2>6, <2>7
<1>13. equal_size => \A p, q \in 1 .. k : Len(c[p].items) = Len(c[q].items)
  <2> SUFFICES ASSUME equal_size, NEW p \in 1 .. k, NEW q \in 1 .. k
               PROVE  Len(c[p].items) = Len(c[q].items)
    OBVIOUS
  <2>1. Len(a[p].items) = Len(a[q].items)
    BY <1>0
  <2>2. Len(r[p].items) = Len(r[q].items)
    <3>1. PICK x, y : x = k + 1 - p /\ y = k + 1 - q
      OBVIOUS
    <3>2. x \in 1 .. k /\ y \in 1 .. k /\ r[p] = b[x] /\ r[q] = b[y]
      BY <1>4, <1>6, <3>1
    <3>3. Len(b[x].items) = Len(b[y].items)
      BY <1>1, <3>2
    <3> QED BY <3>2, <3>3
  <2> QED BY <1>8, <2>1, <2>2
<1>14. \/ \A p \in 1 .. k : Len(c[p].items) >= 1
       \/ \A p \in 1 .. k : Len(c[p].items) <= 1
  <2>1. SUFFICES ASSUME NEW i \in 1 .. k, ~(Len(c[i].items) >= 1), NEW j \in 1 .. k
                 PROVE  Len(c[j].items) <= 1
    OBVIOUS
  <2>2. \A p \in 1 .. k : /\ Len(a[p].items) \in Nat /\ Len(r[p].items) \in Nat
                          /\ Len(c[p].items) = Len(a[p].items) + Len(r[p].items)
    BY <1>2, <1>8, RecordIs
  <2>3. Len(a[i].items) = 0 /\ Len(r[i].items) = 0
    <3>1. ~(Len(c[i].items) >= 1)
      BY <2>1
    <3>2. PICK x, y, z : x = Len(a[i].items) /\ y = Len(r[i].items) /\ z = Len(c[i].items)
      OBVIOUS
    <3>3. x \in Nat /\ y \in Nat /\ z = x + y
      BY <2>2, <3>2
    <3>5. ~(z >= 1)
      BY <3>1, <3>2
    <3>4. x = 0 /\ y = 0
      BY <3>3, <3>5
    <3> QED BY <3>2, <3>4
  <2>4. Len(b[k + 1 - i].items) = 0
    BY <2>3, <1>6
  <2>5. \A p \in 1 .. k : Len(a[p].items) <= 1
    BY <1>0, <2>3
  <2>6. \A p \in 1 .. k : Len(r[p].items) <= 1
    <3>1. k + 1 - i \in 1 .. k
      BY <1>4
    <3>2. \A p \in 1 .. k : Len(b[p].items) <= 1
      BY <1>1, <2>4, <3>1
    <3>3. \A p \in 1 .. k : r[p] = b[k + 1 - p] /\ k + 1 - p \in 1 .. k
      BY <1>4, <1>6
    <3> QED BY <3>2, <3>3
  <2>7. /\ Len(a[j].items) \in Nat /\ Len(r[j].items) \in Nat
        /\ Len(c[j].items) = Len(a[j].items) + Len(r[j].items)
        /\ Len(a[j].items) <= 1 /\ Len(r[j].items) <= 1
    BY <2>2, <2>5, <2>6
  <2>8. CASE i <= j
    <3>1. Len(a[j].items) = 0
      <4>1. \A p, q \in 1 .. k : p <= q /\ Len(a[p].items) = 0 => Len(a[q].items) = 0
        BY EmptySetsLast
      <4> QED BY <2>3, <2>8, <4>1
    <3> QED BY <2>7, <3>1
  <2>9. CASE j <= i
    <3>1. k + 1 - i <= k + 1 - j /\ k + 1 - i \in 1 .. k /\ k + 1 - j \in 1 .. k
      BY <1>0, <2>9, <1>4
    <3>2. Len(b[k + 1 - j].items) = 0
      <4>1. \A p, q \in 1 .. k : p <= q /\ Len(b[p].items) = 0 => Len(b[q].items) = 0
        BY EmptySetsLast
      <4> QED BY <2>4, <3>1, <4>1
    <3>3. Len(r[j].items) = 0
      BY <1>6, <3>2
    <3> QED BY <2>7, <3>3
  <2> QED BY <1>0, <2>8, <2>9
<1>15. Level(load, D, k, M, equal_size, I \cup J, c)
  BY <1>0, <1>2, <1>8, <1>10, <1>11, <1>12, <1>13, <1>14 DEF Level
<1>16. Merge(a, b) = Decreasing(c)
  <2>1. DOMAIN a = 1 .. k
    BY <1>3
  <2> QED BY <1>0, <1>7, <2>1 DEF Merge
<1> QED BY <1>15, <1>16, LevelOrdered

(* A finite set that a relation orders has an element above the others.    *)
LEMMA Greatest ==
  ASSUME NEW S, IsFiniteSet(S), S # {}, NEW R,
         \A x, y \in S : x # y => <<x, y>> \in R \/ <<y, x>> \in R,
         \A x, y, z \in S : <<x, y>> \in R /\ <<y, z>> \in R => <<x, z>> \in R
  PROVE  \E x \in S : \A y \in S \ {x} : <<x, y>> \in R
<1> DEFINE Ok(n) == \A T \in SUBSET S : Cardinality(T) = n + 1 =>
                      \E x \in T : \A y \in T \ {x} : <<x, y>> \in R
           E == {n \in Nat : Ok(n)}
<1>0. \A T \in SUBSET S : IsFiniteSet(T) /\ Cardinality(T) \in Nat
  BY FS_Subset, FS_CardinalityType
<1>1. Ok(0)
  <2> SUFFICES ASSUME NEW T \in SUBSET S, Cardinality(T) = 0 + 1
               PROVE  \E x \in T : \A y \in T \ {x} : <<x, y>> \in R
    OBVIOUS
  <2>1. Cardinality(T) = 1 /\ IsFiniteSet(T)
    BY <1>0
  <2>2. PICK x : T = {x}
    BY <2>1, FS_Singleton
  <2> QED BY <2>2
<1>2. ASSUME NEW n \in Nat, Ok(n) PROVE Ok(n + 1)
  <2> SUFFICES ASSUME NEW T \in SUBSET S, Cardinality(T) = n + 1 + 1
               PROVE  \E x \in T : \A y \in T \ {x} : <<x, y>> \in R
    OBVIOUS
  <2>1. T # {}
    <3>1. Cardinality({}) = 0
      BY FS_EmptySet
    <3>2. n + 1 + 1 # 0
      OBVIOUS
    <3> QED BY <3>1, <3>2
  <2>2. PICK z \in T : TRUE
    BY <2>1
  <2>3. PICK U : U = T \ {z}
    OBVIOUS
  <2>4. U \in SUBSET S /\ z \notin U /\ T = U \cup {z}
    BY <2>2, <2>3
  <2>5. Cardinality(U) = n + 1
    <3>1. IsFiniteSet(T)
      BY <1>0
    <3>2. Cardinality(U) = Cardinality(T) - 1
      BY <2>2, <2>3, <3>1, FS_RemoveElement
    <3> QED BY <3>2
  <2>6. PICK x \in U : \A y \in U \ {x} : <<x, y>> \in R
    BY <1>2, <2>4, <2>5
  <2>7. <<x, z>> \in R \/ <<z, x>> \in R
    BY <2>4, <2>6
  <2>8. CASE <<x, z>> \in R
    BY <2>4, <2>6, <2>8
  <2>9. CASE <<z, x>> \in R
    <3>1. \A y \in U : <<z, y>> \in R
      <4> SUFFICES ASSUME NEW y \in U PROVE <<z, y>> \in R
        OBVIOUS
      <4>1. CASE y = x
        BY <2>9, <4>1
      <4>2. CASE y # x
        <5>1. <<x, y>> \in R
          BY <2>6, <4>2
        <5> QED BY <2>2, <2>4, <2>9, <5>1
      <4> QED BY <4>1, <4>2
    <3> QED BY <2>4, <3>1
  <2> QED BY <2>7, <2>8, <2>9
<1>3. Nat \subseteq E
  <2> HIDE DEF Ok
  <2>1. 0 \in E
    BY <1>1
  <2>2. \A n \in Nat : n \in E => n + 1 \in E
    BY <1>2
  <2> QED BY <2>1, <2>2, Induction
<1>4. Cardinality(S) \in Nat /\ Cardinality(S) # 0
  BY <1>0, FS_EmptySet
<1>5. Cardinality(S) - 1 \in Nat /\ Cardinality(S) = Cardinality(S) - 1 + 1
  BY <1>4
<1>6. Ok(Cardinality(S) - 1)
  <2> HIDE DEF Ok
  <2> QED BY <1>3, <1>5
<1> QED BY <1>5, <1>6

(* The items of a state, and states that have no item in common.           *)
Held(D, state) ==
  {x \in D : \E p \in 1 .. Len(state) : \E j \in 1 .. Len(state[p].items) : state[p].items[j] = x}

Apart(load, D, k, M, equal_size, H) ==
  /\ IsFiniteSet(H)
  /\ \A s \in H : /\ Level(load, D, k, M, equal_size, Held(D, s), s)
                  /\ Falling(s, k) /\ Held(D, s) # {}
  /\ \A s, t \in H : s # t => Held(D, s) \cap Held(D, t) = {}

(* A state holds the indices it divides.                                   *)
LEMMA HeldIs ==
  ASSUME NEW load, NEW D, NEW k, NEW M, NEW equal_size, NEW I, NEW s,
         Level(load, D, k, M, equal_size, I, s), I \subseteq D
  PROVE  Held(D, s) = I
<1>1. Len(s) = k /\ s \in Seq(SetRecord(D)) /\ k \in Nat /\ Divides(ItemsOf(s), I)
  BY DEF Level
<1>2. PICK a : a = ItemsOf(s)
  OBVIOUS
<1>3. a = [p \in 1 .. k |-> s[p].items]
  BY <1>1, <1>2 DEF ItemsOf
<1>4. Len(a) = k
  <2>1. PICK S : S = Seq(D)
    OBVIOUS
  <2>2. \A p \in 1 .. k : s[p].items \in S
    BY <1>1, <2>1, ElementOfSeq, RecordIs
  <2>3. a \in [1 .. k -> S]
    BY <1>3, <2>2
  <2> QED BY <1>1, <2>3, SameSeq
<1>5. /\ \A p \in 1 .. k : \A j \in 1 .. Len(a[p]) : a[p][j] \in I
      /\ \A x \in I : \E p \in 1 .. k : \E j \in 1 .. Len(a[p]) : a[p][j] = x
  BY <1>1, <1>2, <1>4 DEF Divides
<1>6. \A p \in 1 .. k : a[p] = s[p].items
  BY <1>3
<1>7. ASSUME NEW x \in Held(D, s) PROVE x \in I
  <2>1. PICK p \in 1 .. k : \E j \in 1 .. Len(s[p].items) : s[p].items[j] = x
    BY <1>1, <1>7 DEF Held
  <2> QED BY <1>5, <1>6, <2>1
<1>8. ASSUME NEW x \in I PROVE x \in Held(D, s)
  <2>1. PICK p \in 1 .. k : \E j \in 1 .. Len(a[p]) : a[p][j] = x
    BY <1>5, <1>8
  <2>2. \E j \in 1 .. Len(s[p].items) : s[p].items[j] = x
    BY <1>6, <2>1
  <2> QED BY <1>1, <1>8, <2>2 DEF Held
<1> QED BY <1>7, <1>8

(* The first set of a state in decreasing order is not empty.              *)
LEMMA HeadHolds ==
  ASSUME NEW load, NEW D, NEW k, NEW M, NEW equal_size, NEW s,
         Level(load, D, k, M, equal_size, Held(D, s), s), Falling(s, k), Held(D, s) # {}
  PROVE  /\ k \in Nat /\ k >= 1 /\ Len(s) = k /\ s # <<>>
         /\ Len(s[1].items) \in Nat /\ Len(s[1].items) >= 1
         /\ s[1].items[1] \in Held(D, s)
         /\ s[1] \in SetRecord(D) /\ s[k] \in SetRecord(D)
<1>1. s \in Seq(SetRecord(D)) /\ Len(s) = k /\ k \in Nat
  BY DEF Level
<1>2. PICK x \in Held(D, s) : TRUE
  OBVIOUS
<1>3. PICK p \in 1 .. k : \E j \in 1 .. Len(s[p].items) : s[p].items[j] = x
  BY <1>1, <1>2 DEF Held
<1>4. k >= 1 /\ 1 \in 1 .. k /\ k \in 1 .. k /\ 1 <= p
  BY <1>1, <1>3
<1>5. s[1] \in SetRecord(D) /\ s[k] \in SetRecord(D) /\ s[p] \in SetRecord(D)
  BY <1>1, <1>3, <1>4, ElementOfSeq
<1>6. Len(s[1].items) \in Nat /\ Len(s[p].items) \in Nat /\ s[1].items \in Seq(D)
  BY <1>5, RecordIs
<1>7. Len(s[p].items) # 0
  BY <1>3, <1>6
<1>8. \A i, j \in 1 .. k : i <= j /\ Len(s[i].items) = 0 => Len(s[j].items) = 0
  BY EmptySetsLast
<1>9. Len(s[1].items) # 0
  BY <1>3, <1>4, <1>7, <1>8
<1>10. 1 \in 1 .. Len(s[1].items) /\ Len(s[1].items) >= 1
  BY <1>6, <1>9
<1>11. s[1].items[1] \in D
  <2>1. PICK t : t = s[1].items
    OBVIOUS
  <2>2. t \in Seq(D) /\ 1 \in 1 .. Len(t)
    BY <1>6, <1>10, <2>1
  <2> QED BY <2>1, <2>2, ElementOfSeq
<1>12. s[1].items[1] \in Held(D, s)
  <2>1. 1 \in 1 .. Len(s)
    BY <1>1, <1>4
  <2>2. \E j \in 1 .. Len(s[1].items) : s[1].items[j] = s[1].items[1]
    BY <1>10
  <2> QED BY <1>11, <2>1, <2>2 DEF Held
<1>13. s # <<>>
  BY <1>1, <1>4
<1> QED BY <1>1, <1>4, <1>5, <1>6, <1>10, <1>12, <1>13

(* What the heap pops is in it: no two states compare equal.               *)
LEMMA PoppedIs ==
  ASSUME NEW load, NEW D, NEW k, NEW M, NEW equal_size, NEW H,
         Apart(load, D, k, M, equal_size, H), H # {}
  PROVE  Popped(H) \in H
<1> DEFINE Beats(s, t) == \/ Spread(s) > Spread(t)
                          \/ Spread(s) = Spread(t) /\ SetLess(Head(t), Head(s))
<1>1. PICK R : R = {e \in H \X H : Beats(e[1], e[2])}
  OBVIOUS
<1>2. \A s, t \in H : <<s, t>> \in R <=> Beats(s, t)
  BY <1>1
<1>3. D \in SUBSET Int
  <2>1. PICK s \in H : TRUE
    OBVIOUS
  <2>2. Level(load, D, k, M, equal_size, Held(D, s), s)
    BY <2>1 DEF Apart
  <2> QED BY <2>2 DEF Level
<1>4. ASSUME NEW s \in H
      PROVE  /\ k \in Nat /\ k >= 1 /\ Len(s) = k /\ s # <<>>
             /\ Len(s[1].items) \in Nat /\ Len(s[1].items) >= 1
             /\ s[1].items[1] \in Held(D, s)
             /\ s[1] \in SetRecord(D) /\ s[k] \in SetRecord(D)
  <2>1. Level(load, D, k, M, equal_size, Held(D, s), s) /\ Falling(s, k) /\ Held(D, s) # {}
    BY DEF Apart
  <2> QED BY <2>1, HeadHolds
<1>5. ASSUME NEW s \in H PROVE Head(s) = s[1] /\ Spread(s) \in Int
  <2>1. Head(s) = s[1]
    <3>1. PICK S : S = SetRecord(D)
      OBVIOUS
    <3>2. s \in Seq(S)
      BY <3>1 DEF Apart, Level
    <3> QED BY <1>4, <3>2, HeadTailProperties
  <2>2. Last(s) = s[k]
    BY <1>4 DEF Last
  <2>3. s[1].sum \in Int /\ s[k].sum \in Int
    BY <1>4, RecordIs
  <2>4. Spread(s) = s[1].sum - s[k].sum
    BY <2>1, <2>2 DEF Spread
  <2> QED BY <2>1, <2>3, <2>4
<1>6. ASSUME NEW s \in H, NEW t \in H, s # t PROVE Head(s) # Head(t)
  <2>1. SUFFICES ASSUME s[1] = t[1] PROVE FALSE
    BY <1>5
  <2>2. s[1].items[1] = t[1].items[1]
    BY <2>1
  <2>3. s[1].items[1] \in Held(D, s) /\ t[1].items[1] \in Held(D, t)
    BY <1>4
  <2>4. Held(D, s) \cap Held(D, t) = {}
    BY <1>6 DEF Apart
  <2> QED BY <2>2, <2>3, <2>4
<1>7. ASSUME NEW s \in H PROVE Head(s) \in SetRecord(D)
  BY <1>4, <1>5
<1>8. ASSUME NEW s \in H, NEW t \in H, s # t PROVE Beats(s, t) \/ Beats(t, s)
  <2>1. SetLess(Head(s), Head(t)) \/ SetLess(Head(t), Head(s))
    BY <1>3, <1>6, <1>7, <1>8, SetLessOrders
  <2>2. Spread(s) \in Int /\ Spread(t) \in Int
    BY <1>5
  <2> QED BY <2>1, <2>2
<1>9. ASSUME NEW s \in H, NEW t \in H, NEW u \in H, Beats(s, t), Beats(t, u) PROVE Beats(s, u)
  <2>1. SetLess(Head(u), Head(t)) /\ SetLess(Head(t), Head(s)) => SetLess(Head(u), Head(s))
    BY <1>3, <1>7, SetLessOrders
  <2>2. Spread(s) \in Int /\ Spread(t) \in Int /\ Spread(u) \in Int
    BY <1>5
  <2> QED BY <1>9, <2>1, <2>2
<1>10. \E x \in H : \A y \in H \ {x} : <<x, y>> \in R
  <2> HIDE DEF Beats
  <2>1. IsFiniteSet(H)
    BY DEF Apart
  <2>2. \A x, y \in H : x # y => <<x, y>> \in R \/ <<y, x>> \in R
    BY <1>2, <1>8
  <2>3. \A x, y, z \in H : <<x, y>> \in R /\ <<y, z>> \in R => <<x, z>> \in R
    BY <1>2, <1>9
  <2> QED BY <2>1, <2>2, <2>3, Greatest
<1>11. \E x \in H : \A y \in H \ {x} : Beats(x, y)
  <2> HIDE DEF Beats
  <2> QED BY <1>2, <1>10
<1> QED BY <1>11 DEF Popped

(* A part of a heap is one, and popping two states and pushing what they   *)
(* merge to keeps the items.                                               *)
LEMMA ApartWithout ==
  ASSUME NEW load, NEW D, NEW k, NEW M, NEW equal_size, NEW H,
         Apart(load, D, k, M, equal_size, H), NEW x
  PROVE  Apart(load, D, k, M, equal_size, H \ {x})
<1>1. IsFiniteSet(H \ {x})
  BY FS_RemoveElement DEF Apart
<1> QED BY <1>1 DEF Apart

(* A merge keeps the states of the heap apart and loses no index.          *)
LEMMA MergeTwoKeeps ==
  ASSUME NEW load, NEW D, NEW k, NEW M, NEW equal_size, NEW H,
         Apart(load, D, k, M, equal_size, H), NEW n \in Nat, n >= 1, Cardinality(H) = n + 1
  PROVE  /\ Apart(load, D, k, M, equal_size, MergeTwo(H))
         /\ Cardinality(MergeTwo(H)) = n
         /\ \A x : (\E s \in H : x \in Held(D, s)) => (\E s \in MergeTwo(H) : x \in Held(D, s))
<1>1. PICK s0 : s0 = Popped(H)
  OBVIOUS
<1>2. PICK G : G = H \ {s0}
  OBVIOUS
<1>3. PICK s1 : s1 = Popped(G)
  OBVIOUS
<1>4. IsFiniteSet(H) /\ Cardinality({}) = 0
  BY FS_EmptySet DEF Apart
<1>5. s0 \in H
  <2>1. H # {}
    BY <1>4
  <2> QED BY <1>1, <2>1, PoppedIs
<1>6. Apart(load, D, k, M, equal_size, G)
  BY <1>2, ApartWithout
<1>7. IsFiniteSet(G) /\ Cardinality(G) = n
  <2>1. IsFiniteSet(H \ {s0}) /\ Cardinality(H \ {s0}) = Cardinality(H) - 1
    BY <1>4, <1>5, FS_RemoveElement
  <2> QED BY <1>2, <2>1
<1>8. s1 \in G
  <2>1. G # {}
    BY <1>4, <1>7
  <2> QED BY <1>3, <1>6, <2>1, PoppedIs
<1>9. s1 \in H /\ s1 # s0
  BY <1>2, <1>8
<1>10. PICK m : m = Merge(s0, s1)
  OBVIOUS
<1>11. PICK F : F = G \ {s1}
  OBVIOUS
<1>12. MergeTwo(H) = F \cup {m}
  BY <1>1, <1>2, <1>3, <1>10, <1>11 DEF MergeTwo
<1>13. IsFiniteSet(F) /\ Cardinality(F) = n - 1
  <2>1. IsFiniteSet(G \ {s1}) /\ Cardinality(G \ {s1}) = Cardinality(G) - 1
    BY <1>7, <1>8, FS_RemoveElement
  <2> QED BY <1>7, <1>11, <2>1
<1>14. PICK I, J : I = Held(D, s0) /\ J = Held(D, s1)
  OBVIOUS
<1>15. /\ Level(load, D, k, M, equal_size, I, s0) /\ Falling(s0, k) /\ I # {}
       /\ Level(load, D, k, M, equal_size, J, s1) /\ Falling(s1, k)
       /\ I \cap J = {}
  BY <1>5, <1>9, <1>14 DEF Apart
<1>16. Level(load, D, k, M, equal_size, I \cup J, m) /\ Falling(m, k)
  BY <1>10, <1>15, MergeLevels
<1>17. Held(D, m) = I \cup J
  <2>1. I \cup J \subseteq D
    BY <1>14 DEF Held
  <2> QED BY <1>16, <2>1, HeldIs
<1>18. \A s \in F : s \in H /\ s # s0 /\ s # s1
  BY <1>2, <1>11
<1>19. ASSUME NEW s \in F PROVE Held(D, s) \cap Held(D, m) = {} /\ s # m
  <2>1. Held(D, s) \cap I = {} /\ Held(D, s) \cap J = {}
    BY <1>5, <1>9, <1>14, <1>18 DEF Apart
  <2>2. Held(D, s) # {}
    BY <1>18 DEF Apart
  <2>3. Held(D, s) \cap Held(D, m) = {}
    BY <1>17, <2>1
  <2> QED BY <2>2, <2>3
<1>20. IsFiniteSet(F \cup {m}) /\ Cardinality(F \cup {m}) = n
  <2>1. m \notin F
    BY <1>19
  <2>2. IsFiniteSet(F \cup {m}) /\ Cardinality(F \cup {m}) = Cardinality(F) + 1
    BY <1>13, <2>1, FS_AddElement
  <2> QED BY <1>13, <2>2
<1>21. Apart(load, D, k, M, equal_size, F \cup {m})
  <2>1. ASSUME NEW s \in F \cup {m}
        PROVE  /\ Level(load, D, k, M, equal_size, Held(D, s), s)
               /\ Falling(s, k) /\ Held(D, s) # {}
    <3>1. CASE s \in F
      BY <1>18, <3>1 DEF Apart
    <3>2. CASE s = m
      BY <1>15, <1>16, <1>17, <3>2
    <3> QED BY <3>1, <3>2
  <2>2. ASSUME NEW s \in F \cup {m}, NEW t \in F \cup {m}, s # t
        PROVE  Held(D, s) \cap Held(D, t) = {}
    <3>1. CASE s \in F /\ t \in F
      BY <1>18, <2>2, <3>1 DEF Apart
    <3>2. CASE s \in F /\ t = m
      BY <1>19, <3>2
    <3>3. CASE s = m /\ t \in F
      BY <1>19, <3>3
    <3> QED BY <2>2, <3>1, <3>2, <3>3
  <2> QED BY <1>20, <2>1, <2>2 DEF Apart
<1>22. ASSUME NEW x, NEW s \in H, x \in Held(D, s)
       PROVE  \E t \in F \cup {m} : x \in Held(D, t)
  <2>1. s = s0 \/ s = s1 \/ s \in F
    BY <1>2, <1>11
  <2> QED BY <1>14, <1>17, <1>22, <2>1
<1> QED BY <1>12, <1>20, <1>21, <1>22

(* A state built from a group of items, at most one to a set.              *)
One(group, i) == IF i <= Len(group) THEN <<group[i]>> ELSE <<>>

IsGroup(load, D, k, M, equal_size, group) ==
  /\ D \in SUBSET Int /\ load \in [D -> Nat] /\ k \in Nat /\ M \in Nat
  /\ \A x \in D : load[x] <= M
  /\ group \in Seq(D) /\ 1 <= Len(group) /\ Len(group) <= k
  /\ equal_size => Len(group) = k
  /\ \A i, j \in 1 .. Len(group) : group[i] = group[j] => i = j

(* A set of a first state has at most one item.                            *)
LEMMA OneIs ==
  ASSUME NEW load, NEW D, NEW k, NEW M, NEW equal_size, NEW group,
         IsGroup(load, D, k, M, equal_size, group), NEW i \in 1 .. k
  PROVE  /\ One(group, i) \in Seq(D)
         /\ Sum(load, One(group, i)) \in 0 .. M
         /\ Len(One(group, i)) = (IF i <= Len(group) THEN 1 ELSE 0)
         /\ i <= Len(group) => One(group, i)[1] = group[i]
<1>0. /\ load \in [D -> Nat] /\ load \in [D -> Int] /\ M \in Nat
      /\ \A x \in D : load[x] \in Nat /\ load[x] <= M
      /\ group \in Seq(D) /\ k \in Nat /\ Len(group) \in Nat
  BY LenProperties DEF IsGroup
<1>1. CASE i <= Len(group)
  <2>1. PICK x : x = group[i]
    OBVIOUS
  <2>2. x \in D
    BY <1>0, <1>1, <2>1, ElementOfSeq
  <2>3. One(group, i) = <<x>>
    BY <1>1, <2>1 DEF One
  <2>4. Sum(load, <<x>>) = load[x]
    BY <1>0, <2>2, SumOfOne
  <2>5. Sum(load, <<x>>) \in 0 .. M
    BY <1>0, <2>2, <2>4
  <2>6. <<x>> \in Seq(D) /\ Len(<<x>>) = 1 /\ <<x>>[1] = x
    BY <2>2
  <2> QED BY <1>1, <2>1, <2>3, <2>5, <2>6
<1>2. CASE ~(i <= Len(group))
  <2>1. One(group, i) = <<>>
    BY <1>2 DEF One
  <2>2. Sum(load, <<>>) = 0
    BY SumOfNone
  <2>3. <<>> \in Seq(D) /\ Len(<<>>) = 0
    OBVIOUS
  <2> QED BY <1>0, <1>2, <2>1, <2>2, <2>3
<1> QED BY <1>1, <1>2

(* A first state divides its group, and the loads differ by M at most.     *)
LEMMA FirstLevel ==
  ASSUME NEW load, NEW D, NEW k, NEW M, NEW equal_size, NEW group,
         IsGroup(load, D, k, M, equal_size, group)
  PROVE  /\ Level(load, D, k, M, equal_size, {group[i] : i \in 1 .. Len(group)}, State(load, group, k))
         /\ Falling(State(load, group, k), k)
<1>0. /\ D \in SUBSET Int /\ load \in [D -> Nat] /\ k \in Nat /\ M \in Nat /\ M \in Int
      /\ group \in Seq(D) /\ 1 <= Len(group) /\ Len(group) <= k /\ Len(group) \in Nat
      /\ equal_size => Len(group) = k
      /\ \A i, j \in 1 .. Len(group) : group[i] = group[j] => i = j
  BY LenProperties DEF IsGroup
<1>1. PICK I, R, S, m : I = {group[i] : i \in 1 .. Len(group)} /\ R = SetRecord(D) /\ S = Seq(D) /\ m = Len(group)
  OBVIOUS
<1>2. PICK e, c : e = [i \in 1 .. k |-> One(group, i)] /\ c = [i \in 1 .. k |-> SetOf(load, One(group, i))]
  OBVIOUS
<1>3. ASSUME NEW i \in 1 .. k
      PROVE  /\ e[i] \in S /\ Sum(load, e[i]) \in 0 .. M
             /\ Len(e[i]) = (IF i <= m THEN 1 ELSE 0)
             /\ i <= m => e[i][1] = group[i]
  <2>1. /\ One(group, i) \in Seq(D)
        /\ Sum(load, One(group, i)) \in 0 .. M
        /\ Len(One(group, i)) = (IF i <= Len(group) THEN 1 ELSE 0)
        /\ i <= Len(group) => One(group, i)[1] = group[i]
    BY OneIs
  <2>2. e[i] = One(group, i)
    BY <1>2
  <2> QED BY <1>1, <2>1, <2>2
<1>4. ASSUME NEW i \in 1 .. k
      PROVE  c[i] \in R /\ c[i].items = e[i] /\ c[i].sum = Sum(load, e[i])
  <2>1. c[i] = SetOf(load, e[i])
    BY <1>2
  <2>2. c[i] = [sum |-> Sum(load, e[i]), items |-> e[i]]
    BY <2>1 DEF SetOf
  <2>3. e[i] \in S /\ Sum(load, e[i]) \in Int
    BY <1>0, <1>3
  <2> QED BY <1>1, <2>2, <2>3 DEF SetRecord
<1>5. c \in [1 .. k -> R] /\ e \in [1 .. k -> S]
  BY <1>2, <1>3, <1>4
<1>6. c \in Seq(R) /\ Len(c) = k /\ e \in Seq(S) /\ Len(e) = k
  BY <1>0, <1>5, SameSeq
<1>7. ItemsOf(c) = e
  <2>1. ItemsOf(c) = [p \in 1 .. k |-> c[p].items]
    BY <1>6 DEF ItemsOf
  <2>2. \A p \in 1 .. k : c[p].items = e[p]
    BY <1>4
  <2> QED BY <1>5, <2>1, <2>2
<1>8. Divides(e, I)
  <2>1. \A p \in 1 .. k : \A j \in 1 .. Len(e[p]) : j = 1 /\ p \in 1 .. m /\ e[p][j] = group[p]
    <3> SUFFICES ASSUME NEW p \in 1 .. k, NEW j \in 1 .. Len(e[p])
                 PROVE  j = 1 /\ p \in 1 .. m /\ e[p][j] = group[p]
      OBVIOUS
    <3>1. Len(e[p]) = (IF p <= m THEN 1 ELSE 0) /\ (p <= m => e[p][1] = group[p])
      BY <1>3
    <3>2. CASE p <= m
      BY <1>0, <1>1, <3>1, <3>2
    <3>3. CASE ~(p <= m)
      <4>1. j \in 1 .. 0
        BY <3>1, <3>3
      <4> QED BY <4>1
    <3> QED BY <3>2, <3>3
  <2>2. ASSUME NEW p \in 1 .. k, NEW j \in 1 .. Len(e[p]) PROVE e[p][j] \in I
    BY <1>1, <2>1
  <2>3. ASSUME NEW x \in I PROVE \E p \in 1 .. k : \E j \in 1 .. Len(e[p]) : e[p][j] = x
    <3>1. PICK i \in 1 .. m : x = group[i]
      BY <1>1
    <3>2. i \in 1 .. k /\ i <= m
      BY <1>0, <1>1
    <3>3. Len(e[i]) = 1 /\ e[i][1] = group[i]
      BY <1>3, <3>2
    <3>4. 1 \in 1 .. Len(e[i])
      BY <3>3
    <3> QED BY <3>1, <3>2, <3>3, <3>4
  <2>4. ASSUME NEW p \in 1 .. k, NEW q \in 1 .. k, NEW j \in 1 .. Len(e[p]), NEW l \in 1 .. Len(e[q]),
               e[p][j] = e[q][l]
        PROVE  p = q /\ j = l
    <3>1. j = 1 /\ p \in 1 .. m /\ e[p][j] = group[p]
      BY <2>1
    <3>2. l = 1 /\ q \in 1 .. m /\ e[q][l] = group[q]
      BY <2>1
    <3>3. group[p] = group[q]
      BY <2>4, <3>1, <3>2
    <3> QED BY <1>0, <1>1, <3>1, <3>2, <3>3
  <2> QED BY <1>6, <2>2, <2>3, <2>4 DEF Divides
<1>9. ASSUME NEW p \in 1 .. k, NEW q \in 1 .. k PROVE c[p].sum - c[q].sum <= M
  <2>1. c[p].sum \in 0 .. M /\ c[q].sum \in 0 .. M
    BY <1>3, <1>4
  <2> QED BY <1>0, <2>1
<1>10. equal_size => \A p, q \in 1 .. k : Len(c[p].items) = Len(c[q].items)
  <2> SUFFICES ASSUME equal_size, NEW p \in 1 .. k, NEW q \in 1 .. k
               PROVE  Len(c[p].items) = Len(c[q].items)
    OBVIOUS
  <2>1. p <= m /\ q <= m
    BY <1>0, <1>1
  <2>2. Len(e[p]) = 1 /\ Len(e[q]) = 1
    BY <1>3, <2>1
  <2> QED BY <1>4, <2>2
<1>11. \A p \in 1 .. k : Len(c[p].items) <= 1
  <2> SUFFICES ASSUME NEW p \in 1 .. k PROVE Len(c[p].items) <= 1
    OBVIOUS
  <2>1. Len(e[p]) = (IF p <= m THEN 1 ELSE 0) /\ c[p].items = e[p]
    BY <1>3, <1>4
  <2> QED BY <2>1
<1>12. \A p \in 1 .. k : c[p].sum = Sum(load, c[p].items)
  BY <1>4
<1>13. Level(load, D, k, M, equal_size, I, c)
  BY <1>0, <1>1, <1>6, <1>7, <1>8, <1>9, <1>10, <1>11, <1>12 DEF Level
<1>14. State(load, group, k) = Decreasing(c)
  BY <1>2 DEF State, One
<1> QED BY <1>1, <1>13, <1>14, LevelOrdered

(* The loads of a call: k partitions of at least as many indices.          *)
Divisible(load, n, k, M, equal_size) ==
  /\ n \in Nat /\ load \in [1 .. n -> Nat] /\ k \in Nat /\ 1 <= k /\ k <= n
  /\ M \in Nat /\ \A x \in 1 .. n : load[x] <= M
  /\ equal_size \in BOOLEAN /\ (equal_size => n % k = 0)

(* Groups of the same size, one behind the other, cover the items.         *)
Groups(n, k, equal_size, items) ==
  LET size == IF equal_size THEN k ELSE 1
  IN [g \in 1 .. n \div size |-> SubSeq(items, size * (g - 1) + 1, size * g)]

(* The groups of items are of the same size and cover the items once.      *)
LEMMA GroupsDivide ==
  ASSUME NEW load, NEW n, NEW k, NEW M, NEW equal_size, Divisible(load, n, k, M, equal_size),
         NEW items \in Bijection(1 .. n, 1 .. n)
  PROVE  LET G == Groups(n, k, equal_size, items)
             N == n \div (IF equal_size THEN k ELSE 1)
         IN /\ N \in Nat /\ N >= 1 /\ G = [g \in 1 .. N |-> G[g]]
            /\ \A g \in 1 .. N : IsGroup(load, 1 .. n, k, M, equal_size, G[g])
            /\ \A g, h \in 1 .. N : \A i \in 1 .. Len(G[g]), j \in 1 .. Len(G[h]) :
                 G[g][i] = G[h][j] => g = h
            /\ \A x \in 1 .. n : \E g \in 1 .. N : \E i \in 1 .. Len(G[g]) : G[g][i] = x
<1>0. /\ n \in Nat /\ load \in [1 .. n -> Nat] /\ k \in Nat /\ 1 <= k /\ k <= n
      /\ M \in Nat /\ \A x \in 1 .. n : load[x] <= M
      /\ equal_size \in BOOLEAN /\ (equal_size => n % k = 0)
  BY DEF Divisible
<1>1. PICK size : size = IF equal_size THEN k ELSE 1
  OBVIOUS
<1>2. PICK N : N = n \div size
  OBVIOUS
<1>3. PICK G : G = Groups(n, k, equal_size, items)
  OBVIOUS
<1>4. G = [g \in 1 .. N |-> SubSeq(items, size * (g - 1) + 1, size * g)]
  BY <1>1, <1>2, <1>3 DEF Groups
<1>5. size \in Nat /\ size >= 1 /\ size <= k /\ (equal_size => size = k)
  BY <1>0, <1>1
<1>6. n = size * N /\ N \in Nat
  <2>1. n % size = 0
    <3>1. CASE equal_size
      BY <1>0, <1>1, <3>1
    <3>2. CASE ~equal_size
      <4>1. size = 1 /\ n % 1 = 0
        BY <1>0, <1>1, <3>2
      <4> QED BY <4>1
    <3> QED BY <3>1, <3>2
  <2> QED BY <1>0, <1>2, <1>5, <2>1
<1>7. N >= 1
  BY <1>0, <1>5, <1>6
<1>8. PICK off : off = [g \in 0 .. N |-> size * g]
  OBVIOUS
<1>9. /\ \A g \in 0 .. N : off[g] \in Nat
      /\ \A g, h \in 0 .. N : g < h => off[g] + size <= off[h]
      /\ off[0] = 0 /\ off[N] = n
  <2>1. ASSUME NEW g \in 0 .. N, NEW h \in 0 .. N, g < h PROVE off[g] + size <= off[h]
    <3>1. off[g] = size * g /\ off[h] = size * h
      BY <1>8
    <3>2. g \in Nat /\ h \in Nat /\ g + 1 <= h
      BY <1>6, <2>1
    <3>3. size * (g + 1) <= size * h /\ size * (g + 1) = size * g + size
      BY <1>5, <3>2
    <3> QED BY <1>5, <3>1, <3>2, <3>3
  <2>2. \A g \in 0 .. N : off[g] \in Nat
    BY <1>5, <1>6, <1>8
  <2>3. off[0] = 0 /\ off[N] = n
    BY <1>5, <1>6, <1>8
  <2> QED BY <2>1, <2>2, <2>3
<1>10. ASSUME NEW g \in 1 .. N
       PROVE  /\ g - 1 \in 0 .. N /\ g \in 0 .. N /\ off[g] = off[g - 1] + size /\ off[g] <= n
              /\ G[g] = SubSeq(items, off[g - 1] + 1, off[g])
  <2>1. g - 1 \in 0 .. N /\ g \in 0 .. N /\ g - 1 < g
    BY <1>6
  <2>2. off[g] = size * g /\ off[g - 1] = size * (g - 1)
    BY <1>8, <2>1
  <2>3. off[g] = off[g - 1] + size
    BY <1>5, <1>6, <2>2
  <2>4. off[g] <= n
    <3>1. CASE g = N
      BY <1>0, <1>9, <3>1
    <3>2. CASE g # N
      <4>1. g < N /\ N \in 0 .. N
        BY <1>6, <3>2
      <4>2. off[g] + size <= off[N]
        BY <1>9, <2>1, <4>1
      <4> QED BY <1>0, <1>5, <1>9, <2>1, <4>2
    <3> QED BY <3>1, <3>2
  <2>5. G[g] = SubSeq(items, off[g - 1] + 1, off[g])
    BY <1>4, <2>2
  <2> QED BY <2>1, <2>3, <2>4, <2>5
<1>11. /\ \A i \in 1 .. n : items[i] \in 1 .. n
       /\ \A i, j \in 1 .. n : items[i] = items[j] => i = j
       /\ \A x \in 1 .. n : \E i \in 1 .. n : items[i] = x
  <2>1. items \in [1 .. n -> 1 .. n]
    BY <1>0, Reordering
  <2>2. \A i \in 1 .. n : items[i] \in 1 .. n
    BY <2>1
  <2> QED BY <1>0, <2>2, Reordering
<1>12. ASSUME NEW g \in 1 .. N
       PROVE  /\ G[g] \in Seq(1 .. n) /\ Len(G[g]) = size
              /\ \A i \in 1 .. size : off[g - 1] + i \in 1 .. n /\ G[g][i] = items[off[g - 1] + i]
  <2>0. PICK u : u = off[g - 1]
    OBVIOUS
  <2>1. PICK a, b, s : a = u + 1 /\ b = off[g] /\ s = G[g]
    OBVIOUS
  <2>2. a \in Int /\ b \in Int /\ a >= 1 /\ b <= n /\ b = a + size - 1 /\ s = SubSeq(items, a, b)
    <3>1. /\ g - 1 \in 0 .. N /\ g \in 0 .. N /\ off[g] = off[g - 1] + size /\ off[g] <= n
          /\ G[g] = SubSeq(items, off[g - 1] + 1, off[g])
      BY <1>10
    <3>2. off[g - 1] \in Nat /\ off[g] \in Nat
      BY <1>9, <3>1
    <3>3. u \in Nat /\ b = u + size /\ b <= n /\ s = SubSeq(items, a, b)
      BY <2>0, <2>1, <3>1, <3>2
    <3>4. a = u + 1 /\ size \in Nat
      BY <1>5, <2>1
    <3>5. a \in Int /\ b \in Int /\ a >= 1 /\ b = a + size - 1
      BY <3>3, <3>4
    <3> QED BY <3>3, <3>5
  <2>3. \A i \in a .. b : items[i] \in 1 .. n
    BY <1>0, <1>11, <2>2
  <2>4. /\ SubSeq(items, a, b) \in Seq(1 .. n)
        /\ Len(SubSeq(items, a, b)) = IF a <= b THEN b - a + 1 ELSE 0
        /\ \A i \in 1 .. b - a + 1 : SubSeq(items, a, b)[i] = items[a + i - 1]
    BY <2>2, <2>3, SubSeqProperties
  <2>5. b - a + 1 = size /\ a <= b
    BY <1>5, <2>2
  <2>6. s \in Seq(1 .. n) /\ Len(s) = size /\ \A i \in 1 .. size : s[i] = items[a + i - 1]
    BY <2>2, <2>4, <2>5
  <2>7. \A i \in 1 .. size : a + i - 1 \in 1 .. n /\ a + i - 1 = off[g - 1] + i
    <3> SUFFICES ASSUME NEW i \in 1 .. size
                 PROVE  a + i - 1 \in 1 .. n /\ a + i - 1 = off[g - 1] + i
      OBVIOUS
    <3>1. u \in Nat
      BY <1>9, <1>10, <2>0
    <3>2. i \in Int /\ 1 <= i /\ i <= size
      BY <1>5
    <3>3. a = u + 1 /\ a + size - 1 <= n
      BY <2>1, <2>2
    <3>4. a + i - 1 \in 1 .. n /\ a + i - 1 = u + i
      BY <1>0, <1>5, <3>1, <3>2, <3>3
    <3> QED BY <2>0, <3>4
  <2> QED BY <2>1, <2>6, <2>7
<1>13. ASSUME NEW g \in 1 .. N PROVE IsGroup(load, 1 .. n, k, M, equal_size, G[g])
  <2>1. \A i, j \in 1 .. Len(G[g]) : G[g][i] = G[g][j] => i = j
    <3> SUFFICES ASSUME NEW i \in 1 .. Len(G[g]), NEW j \in 1 .. Len(G[g]), G[g][i] = G[g][j] PROVE i = j
      OBVIOUS
    <3>1. i \in 1 .. size /\ j \in 1 .. size
      BY <1>12
    <3>2. items[off[g - 1] + i] = items[off[g - 1] + j]
      BY <1>12, <3>1
    <3>3. off[g - 1] + i = off[g - 1] + j
      BY <1>11, <1>12, <3>1, <3>2
    <3> QED BY <1>9, <1>10, <3>1, <3>3
  <2>2. G[g] \in Seq(1 .. n) /\ Len(G[g]) = size
    BY <1>12
  <2>3. 1 .. n \in SUBSET Int
    BY <1>0
  <2> QED BY <1>0, <1>5, <2>1, <2>2, <2>3 DEF IsGroup
<1>14. ASSUME NEW g \in 1 .. N, NEW h \in 1 .. N, NEW i \in 1 .. Len(G[g]), NEW j \in 1 .. Len(G[h]),
              G[g][i] = G[h][j]
       PROVE  g = h
  <2>1. i \in 1 .. size /\ j \in 1 .. size
    BY <1>12
  <2>2. off[g - 1] + i \in 1 .. n /\ G[g][i] = items[off[g - 1] + i]
    BY <1>12, <2>1
  <2>3. off[h - 1] + j \in 1 .. n /\ G[h][j] = items[off[h - 1] + j]
    BY <1>12, <2>1
  <2>4. off[g - 1] + i = off[h - 1] + j
    BY <1>11, <1>14, <2>2, <2>3, ZenonT(30)
  <2>5. off[g - 1] \in Nat /\ off[h - 1] \in Nat /\ g - 1 \in 0 .. N /\ h - 1 \in 0 .. N
    BY <1>9, <1>10
  <2>6. ~(g - 1 < h - 1)
    <3> SUFFICES ASSUME g - 1 < h - 1 PROVE FALSE
      OBVIOUS
    <3>1. off[g - 1] + size <= off[h - 1]
      BY <1>9, <2>5
    <3> QED BY <1>5, <2>1, <2>4, <2>5, <3>1
  <2>7. ~(h - 1 < g - 1)
    <3> SUFFICES ASSUME h - 1 < g - 1 PROVE FALSE
      OBVIOUS
    <3>1. off[h - 1] + size <= off[g - 1]
      BY <1>9, <2>5
    <3> QED BY <1>5, <2>1, <2>4, <2>5, <3>1
  <2> QED BY <1>6, <2>6, <2>7
<1>15. ASSUME NEW x \in 1 .. n PROVE \E g \in 1 .. N : \E i \in 1 .. Len(G[g]) : G[g][i] = x
  <2>1. PICK q \in 1 .. n : items[q] = x
    BY <1>11
  <2>2. PICK T : T = {g \in Nat : g \in 0 .. N /\ q <= off[g]}
    OBVIOUS
  <2>3. T \in SUBSET Nat /\ N \in T
    BY <1>0, <1>6, <1>9, <2>2
  <2>4. PICK g \in T : \A y \in T : g <= y
    <3>1. T # {}
      BY <2>3
    <3> QED BY <2>3, <3>1, LeastNumber
  <2>5. g \in Nat /\ g \in 0 .. N /\ q <= off[g] /\ g # 0
    <3>1. g \in Nat /\ g \in 0 .. N /\ q <= off[g]
      BY <2>2, <2>4
    <3>2. g # 0
      BY <1>9, <2>1, <3>1
    <3> QED BY <3>1, <3>2
  <2>6. g \in 1 .. N /\ g - 1 \in Nat /\ g - 1 \in 0 .. N
    BY <1>6, <2>5
  <2>7. g - 1 \notin T
    BY <2>4, <2>5, <2>6
  <2>8. off[g - 1] < q
    <3>1. ~(q <= off[g - 1])
      BY <2>2, <2>6, <2>7
    <3>2. off[g - 1] \in Nat
      BY <1>9, <2>6
    <3> QED BY <2>1, <3>1, <3>2
  <2>9. PICK i : i = q - off[g - 1]
    OBVIOUS
  <2>10. i \in 1 .. size /\ off[g - 1] + i = q
    <3>1. off[g] = off[g - 1] + size /\ off[g - 1] \in Nat
      BY <1>9, <1>10, <2>6
    <3> QED BY <1>5, <2>5, <2>8, <2>9, <3>1
  <2>11. G[g][i] = x /\ i \in 1 .. Len(G[g])
    BY <1>12, <2>1, <2>6, <2>10
  <2> QED BY <2>6, <2>11
<1>16. G = [g \in 1 .. N |-> G[g]]
  BY <1>4
<1> QED BY <1>1, <1>2, <1>3, <1>6, <1>7, <1>13, <1>14, <1>15, <1>16, SMTT(30)

(* The items by increasing load are all the items.                         *)
LEMMA SortedReorders ==
  ASSUME NEW n \in Nat, NEW load \in [1 .. n -> Nat]
  PROVE  Sorted(load) \in Bijection(1 .. n, 1 .. n)
<1>1. PICK s, L : /\ s = [i \in 1 .. n |-> i]
                  /\ L = {e \in (1 .. n) \X (1 .. n) : load[e[1]] < load[e[2]]}
  OBVIOUS
<1>2. s \in [1 .. n -> Int] /\ \A i \in 1 .. n : s[i] = i
  BY <1>1
<1>3. s \in Seq(Int) /\ Len(s) = n /\ DOMAIN s = 1 .. n /\ Evaluated(s) = s
  BY <1>2, SameSeq
<1>4. \A i, j \in 1 .. n : <<i, j>> \in L <=> load[i] < load[j]
  BY <1>1
<1>5. Sorted(load) = Stable(s, L)
  <2>1. Rank(s, LAMBDA i, j : load[i] < load[j]) = StableRanks(n, L)
    <3>1. \A i \in 1 .. n :
            {j \in 1 .. n : load[s[j]] < load[s[i]] \/ (~(load[s[i]] < load[s[j]]) /\ j < i)}
            = {j \in 1 .. n : <<j, i>> \in L \/ (<<i, j>> \notin L /\ j < i)}
      BY <1>2, <1>4
    <3>2. StableRanks(n, L) = [i \in 1 .. n |-> 1 + Cardinality(
            {j \in 1 .. n : load[s[j]] < load[s[i]] \/ (~(load[s[i]] < load[s[j]]) /\ j < i)})]
      BY <3>1 DEF StableRanks
    <3> QED BY <1>3, <3>2 DEF Rank, Before
  <2>2. DOMAIN load = 1 .. n
    OBVIOUS
  <2>3. Sorted(load) = StableSort(s, LAMBDA i, j : load[i] < load[j])
    BY <1>1, <2>2 DEF Sorted
  <2> QED BY <1>3, <2>1, <2>3 DEF StableSort, Stable
<1>6. \A i \in 1 .. n : load[i] \in Nat
  OBVIOUS
<1>7. \A i, j \in 1 .. n : <<i, j>> \in L => <<j, i>> \notin L
  BY <1>4, <1>6
<1>8. \A i, j, l \in 1 .. n : <<i, j>> \notin L /\ <<j, l>> \notin L => <<i, l>> \notin L
  BY <1>4, <1>6
<1>9. PICK p \in Bijection(1 .. n, 1 .. n) : Stable(s, L) = [r \in 1 .. n |-> s[p[r]]]
  <2>1. /\ \A i, j \in 1 .. Len(s) : <<i, j>> \in L => <<j, i>> \notin L
        /\ \A i, j, l \in 1 .. Len(s) : <<i, j>> \notin L /\ <<j, l>> \notin L => <<i, l>> \notin L
    BY <1>3, <1>7, <1>8
  <2>2. \E p \in Bijection(1 .. Len(s), 1 .. Len(s)) :
          /\ Stable(s, L) = [r \in 1 .. Len(s) |-> s[p[r]]]
          /\ \A r, q \in 1 .. Len(s) : r < q => <<p[q], p[r]>> \notin L
    BY <1>3, <2>1, StableReorders
  <2> QED BY <1>3, <2>2
<1>10. p \in [1 .. n -> 1 .. n]
  BY Reordering
<1>11. [r \in 1 .. n |-> s[p[r]]] = p
  BY <1>2, <1>10
<1> QED BY <1>5, <1>9, <1>11

(* The first states of the heap: every index is in one of them.            *)
LEMMA FirstApart ==
  ASSUME NEW load, NEW n, NEW k, NEW M, NEW equal_size, Divisible(load, n, k, M, equal_size),
         NEW items \in Bijection(1 .. n, 1 .. n)
  PROVE  LET first == FirstStates(load, items, k, equal_size)
         IN /\ Apart(load, 1 .. n, k, M, equal_size, first)
            /\ \A x \in 1 .. n : \E s \in first : x \in Held(1 .. n, s)
<1>0. n \in Nat /\ n >= 1
  BY DEF Divisible
<1>1. PICK N : N = n \div (IF equal_size THEN k ELSE 1)
  OBVIOUS
<1>2. PICK G : G = Groups(n, k, equal_size, items)
  OBVIOUS
<1>3. /\ N \in Nat /\ N >= 1 /\ G = [g \in 1 .. N |-> G[g]]
      /\ \A g \in 1 .. N : IsGroup(load, 1 .. n, k, M, equal_size, G[g])
      /\ \A g, h \in 1 .. N : \A i \in 1 .. Len(G[g]), j \in 1 .. Len(G[h]) :
           G[g][i] = G[h][j] => g = h
      /\ \A x \in 1 .. n : \E g \in 1 .. N : \E i \in 1 .. Len(G[g]) : G[g][i] = x
  BY <1>1, <1>2, GroupsDivide
<1>4. PICK f : f = [g \in 1 .. N |-> State(load, G[g], k)]
  OBVIOUS
<1>5. PICK F : F = {f[g] : g \in 1 .. N}
  OBVIOUS
<1>6. PICK D : D = 1 .. n
  OBVIOUS
<1>7. FirstStates(load, items, k, equal_size) = F
  <2>1. Len(items) = n
    <3>1. items \in [1 .. n -> 1 .. n]
      BY <1>0, Reordering
    <3> QED BY <1>0, <3>1, SameSeq
  <2>2. \A g \in 1 .. N : f[g] = State(load, SubSeq(items, (IF equal_size THEN k ELSE 1) * (g - 1) + 1,
                                                    (IF equal_size THEN k ELSE 1) * g), k)
    BY <1>1, <1>2, <1>4 DEF Groups
  <2> QED BY <1>1, <1>5, <2>1, <2>2 DEF FirstStates
<1>8. ASSUME NEW g \in 1 .. N
      PROVE  /\ Level(load, D, k, M, equal_size, Held(D, f[g]), f[g]) /\ Falling(f[g], k)
             /\ Held(D, f[g]) = {G[g][i] : i \in 1 .. Len(G[g])} /\ Held(D, f[g]) # {}
  <2>1. IsGroup(load, D, k, M, equal_size, G[g])
    BY <1>3, <1>6
  <2>2. PICK I : I = {G[g][i] : i \in 1 .. Len(G[g])}
    OBVIOUS
  <2>3. f[g] = State(load, G[g], k)
    BY <1>4
  <2>4. Level(load, D, k, M, equal_size, I, f[g]) /\ Falling(f[g], k)
    BY <2>1, <2>2, <2>3, FirstLevel
  <2>5. G[g] \in Seq(D) /\ Len(G[g]) \in Nat /\ 1 <= Len(G[g])
    BY <2>1, LenProperties DEF IsGroup
  <2>6. I \subseteq D
    BY <2>2, <2>5, ElementOfSeq
  <2>7. Held(D, f[g]) = I
    BY <2>4, <2>6, HeldIs
  <2>8. I # {}
    <3>1. 1 \in 1 .. Len(G[g])
      BY <2>5
    <3> QED BY <2>2, <3>1
  <2> QED BY <2>2, <2>4, <2>7, <2>8
<1>9. IsFiniteSet(F)
  <2>1. f \in Surjection(1 .. N, F)
    <3>1. f \in [1 .. N -> F]
      BY <1>4, <1>5
    <3>2. \A y \in F : \E g \in 1 .. N : f[g] = y
      BY <1>5
    <3> QED BY <3>1, <3>2, Fun_IsSurj
  <2>2. IsFiniteSet(1 .. N)
    BY <1>3, FS_Interval
  <2> QED BY <2>1, <2>2, FS_Surjection
<1>10. ASSUME NEW s \in F, NEW t \in F, s # t PROVE Held(D, s) \cap Held(D, t) = {}
  <2>1. PICK g \in 1 .. N : s = f[g]
    BY <1>5
  <2>2. PICK h \in 1 .. N : t = f[h]
    BY <1>5
  <2>3. g # h
    BY <1>10, <2>1, <2>2
  <2>4. SUFFICES ASSUME NEW x, x \in Held(D, f[g]), x \in Held(D, f[h]) PROVE FALSE
    BY <2>1, <2>2
  <2>5. PICK i \in 1 .. Len(G[g]) : x = G[g][i]
    BY <1>8, <2>4, ZenonT(30)
  <2>6. PICK j \in 1 .. Len(G[h]) : x = G[h][j]
    BY <1>8, <2>4
  <2>7. G[g][i] = G[h][j]
    BY <2>5, <2>6
  <2> QED BY <1>3, <2>3, <2>7
<1>11. ASSUME NEW s \in F PROVE /\ Level(load, D, k, M, equal_size, Held(D, s), s)
                               /\ Falling(s, k) /\ Held(D, s) # {}
  <2>1. PICK g \in 1 .. N : s = f[g]
    BY <1>5
  <2> QED BY <1>8, <2>1
<1>12. Apart(load, D, k, M, equal_size, F)
  BY <1>9, <1>10, <1>11 DEF Apart
<1>13. ASSUME NEW x \in 1 .. n PROVE \E s \in F : x \in Held(D, s)
  <2>1. PICK g \in 1 .. N : \E i \in 1 .. Len(G[g]) : G[g][i] = x
    BY <1>3
  <2>2. x \in Held(D, f[g])
    BY <1>8, <2>1
  <2> QED BY <1>5, <2>2
<1> QED BY <1>6, <1>7, <1>12, <1>13

(* What the heap is after n merges exists.                                 *)
LEMMA HeapExists ==
  ASSUME NEW first, NEW m \in Nat
  PROVE  \E f : f = [n \in 0 .. m |-> IF n = 0 THEN first ELSE MergeTwo(f[n - 1])]
<1> DEFINE Ok(l) == \E f : f = [n \in 0 .. l |-> IF n = 0 THEN first ELSE MergeTwo(f[n - 1])]
           E == {l \in Nat : Ok(l)}
<1>1. Ok(0)
  <2>1. PICK f : f = [n \in 0 .. 0 |-> first]
    OBVIOUS
  <2>2. f = [n \in 0 .. 0 |-> IF n = 0 THEN first ELSE MergeTwo(f[n - 1])]
    BY <2>1
  <2> QED BY <2>2
<1>2. ASSUME NEW l \in Nat, Ok(l) PROVE Ok(l + 1)
  <2>1. PICK f : f = [n \in 0 .. l |-> IF n = 0 THEN first ELSE MergeTwo(f[n - 1])]
    BY <1>2
  <2>2. PICK g : g = [n \in 0 .. l + 1 |-> IF n <= l THEN f[n] ELSE MergeTwo(f[l])]
    OBVIOUS
  <2>3. /\ \A n \in 0 .. l : g[n] = f[n] /\ f[n] = IF n = 0 THEN first ELSE MergeTwo(f[n - 1])
        /\ g[l + 1] = MergeTwo(f[l])
    BY <2>1, <2>2
  <2>4. ASSUME NEW n \in 0 .. l + 1 PROVE g[n] = IF n = 0 THEN first ELSE MergeTwo(g[n - 1])
    <3>1. CASE n = 0
      BY <2>3, <3>1
    <3>2. CASE n # 0 /\ n <= l
      <4>1. n \in 0 .. l /\ n - 1 \in 0 .. l
        BY <3>2
      <4> QED BY <2>3, <3>2, <4>1
    <3>3. CASE n = l + 1
      <4>1. l \in 0 .. l /\ n - 1 = l /\ n # 0
        BY <3>3
      <4> QED BY <2>3, <3>3, <4>1
    <3>4. n = 0 \/ (n # 0 /\ n <= l) \/ n = l + 1
      OBVIOUS
    <3> QED BY <3>1, <3>2, <3>3, <3>4
  <2>5. g = [n \in 0 .. l + 1 |-> g[n]]
    BY <2>2
  <2>6. g = [n \in 0 .. l + 1 |-> IF n = 0 THEN first ELSE MergeTwo(g[n - 1])]
    BY <2>4, <2>5
  <2> QED BY <2>6
<1> HIDE DEF Ok
<1>3. 0 \in E
  BY <1>1
<1>4. \A l \in Nat : l \in E => l + 1 \in E
  BY <1>2
<1> HIDE DEF E
<1>5. Nat \subseteq E
  BY <1>3, <1>4, Induction
<1>6. m \in E
  BY <1>5
<1> QED BY <1>6 DEF E, Ok

(* Merging until one state is left loses no index and keeps the sums       *)
(* within the largest load of each other.                                  *)
LEMMA KarmarkarKarpLevels ==
  ASSUME NEW load, NEW n, NEW k, NEW M, NEW equal_size, Divisible(load, n, k, M, equal_size)
  PROVE  Level(load, 1 .. n, k, M, equal_size, 1 .. n, KarmarkarKarp(load, k, equal_size))
<1>0. n \in Nat /\ n >= 1 /\ load \in [1 .. n -> Nat]
  BY DEF Divisible
<1>1. PICK D : D = 1 .. n
  OBVIOUS
<1>2. PICK first : first = FirstStates(load, Sorted(load), k, equal_size)
  OBVIOUS
<1>3. PICK items : items = Sorted(load)
  OBVIOUS
<1>4. items \in Bijection(1 .. n, 1 .. n)
  BY <1>0, <1>3, SortedReorders
<1>5. /\ Apart(load, D, k, M, equal_size, first)
      /\ \A x \in D : \E s \in first : x \in Held(D, s)
  BY <1>1, <1>2, <1>3, <1>4, FirstApart
<1>6. PICK c : c = Cardinality(first)
  OBVIOUS
<1>7. c \in Nat /\ c >= 1
  <2>1. IsFiniteSet(first)
    BY <1>5 DEF Apart
  <2>2. 1 \in D
    BY <1>0, <1>1
  <2>3. first # {}
    BY <1>5, <2>2
  <2>4. c \in Nat /\ c # 0
    BY <1>6, <2>1, <2>3, FS_CardinalityType, FS_EmptySet
  <2> QED BY <2>4
<1> DEFINE Eq(g) == g = [m \in 0 .. c - 1 |-> IF m = 0 THEN first ELSE MergeTwo(g[m - 1])]
           heap == CHOOSE g : Eq(g)
<1>8. KarmarkarKarp(load, k, equal_size) = CHOOSE state \in heap[c - 1] : TRUE
  BY <1>2, <1>6 DEF KarmarkarKarp
<1>9. Eq(heap)
  <2>1. c - 1 \in Nat
    BY <1>7
  <2>2. \E g : Eq(g)
    BY <2>1, HeapExists
  <2> HIDE DEF Eq
  <2> QED BY <2>2
<1> HIDE DEF heap
<1>10. heap[0] = first /\ \A m \in 1 .. c - 1 : heap[m] = MergeTwo(heap[m - 1])
  <2>1. 0 \in 0 .. c - 1 /\ \A m \in 1 .. c - 1 : m \in 0 .. c - 1 /\ m # 0
    BY <1>7
  <2> QED BY <1>9, <2>1
<1> DEFINE Ok(m) == m <= c - 1 =>
                      /\ Apart(load, D, k, M, equal_size, heap[m])
                      /\ Cardinality(heap[m]) = c - m
                      /\ \A x \in D : \E s \in heap[m] : x \in Held(D, s)
           E == {m \in Nat : Ok(m)}
<1>11. Ok(0)
  BY <1>5, <1>6, <1>7, <1>10
<1>12. ASSUME NEW m \in Nat, Ok(m) PROVE Ok(m + 1)
  <2> SUFFICES ASSUME m + 1 <= c - 1
               PROVE  /\ Apart(load, D, k, M, equal_size, heap[m + 1])
                      /\ Cardinality(heap[m + 1]) = c - (m + 1)
                      /\ \A x \in D : \E s \in heap[m + 1] : x \in Held(D, s)
    OBVIOUS
  <2>1. m <= c - 1
    BY <1>7
  <2>2. /\ Apart(load, D, k, M, equal_size, heap[m])
        /\ Cardinality(heap[m]) = c - m
        /\ \A x \in D : \E s \in heap[m] : x \in Held(D, s)
    BY <1>12, <2>1
  <2>3. PICK H, l : H = heap[m] /\ l = c - (m + 1)
    OBVIOUS
  <2>4. l \in Nat /\ l >= 1 /\ Cardinality(H) = l + 1
    BY <1>7, <2>2, <2>3
  <2>5. heap[m + 1] = MergeTwo(H)
    <3>1. m + 1 \in 1 .. c - 1 /\ (m + 1) - 1 = m
      BY <1>7
    <3> QED BY <1>10, <2>3, <3>1
  <2>6. Apart(load, D, k, M, equal_size, H)
    BY <2>2, <2>3
  <2>7. /\ Apart(load, D, k, M, equal_size, MergeTwo(H))
        /\ Cardinality(MergeTwo(H)) = l
        /\ \A x : (\E s \in H : x \in Held(D, s)) => (\E s \in MergeTwo(H) : x \in Held(D, s))
    BY <2>4, <2>6, MergeTwoKeeps
  <2> QED BY <2>2, <2>3, <2>5, <2>7
<1>13. c - 1 \in E
  <2> HIDE DEF Ok
  <2>1. 0 \in E
    BY <1>11
  <2>2. \A m \in Nat : m \in E => m + 1 \in E
    BY <1>12
  <2> HIDE DEF E
  <2>3. Nat \subseteq E
    BY <2>1, <2>2, Induction
  <2>4. c - 1 \in Nat
    BY <1>7
  <2> QED BY <2>3, <2>4
<1>14. PICK H : H = heap[c - 1]
  OBVIOUS
<1>15. /\ Apart(load, D, k, M, equal_size, H) /\ Cardinality(H) = 1
       /\ \A x \in D : \E s \in H : x \in Held(D, s)
  <2>1. c - (c - 1) = 1 /\ c - 1 <= c - 1
    BY <1>7
  <2> QED BY <1>13, <1>14, <2>1
<1>16. PICK s : H = {s}
  BY <1>15, FS_Singleton DEF Apart
<1>17. KarmarkarKarp(load, k, equal_size) = s
  BY <1>8, <1>14, <1>16
<1>18. Held(D, s) = D
  BY <1>15, <1>16 DEF Held
<1>19. Level(load, D, k, M, equal_size, Held(D, s), s)
  BY <1>15, <1>16 DEF Apart
<1> QED BY <1>1, <1>17, <1>18, <1>19

(* With at least as many items as sets, no set is empty.                   *)
LEMMA NoneEmpty ==
  ASSUME NEW load, NEW n, NEW k, NEW M, NEW equal_size, Divisible(load, n, k, M, equal_size),
         NEW s, Level(load, 1 .. n, k, M, equal_size, 1 .. n, s)
  PROVE  \A p \in 1 .. k : Len(s[p].items) >= 1
<1>0. n \in Nat /\ k \in Nat /\ 1 <= k /\ k <= n
  BY DEF Divisible
<1>1. PICK D : D = 1 .. n
  OBVIOUS
<1>2. /\ s \in Seq(SetRecord(D)) /\ Len(s) = k /\ Divides(ItemsOf(s), D)
      /\ \/ \A p \in 1 .. k : Len(s[p].items) >= 1
         \/ \A p \in 1 .. k : Len(s[p].items) <= 1
  BY <1>1 DEF Level
<1>3. PICK a : a = ItemsOf(s)
  OBVIOUS
<1>4. a = [p \in 1 .. k |-> s[p].items]
  BY <1>2, <1>3 DEF ItemsOf
<1>5. \A p \in 1 .. k : s[p].items \in Seq(D) /\ Len(s[p].items) \in Nat
  <2> SUFFICES ASSUME NEW p \in 1 .. k PROVE s[p].items \in Seq(D) /\ Len(s[p].items) \in Nat
    OBVIOUS
  <2>1. s[p] \in SetRecord(D)
    BY <1>2, ElementOfSeq
  <2> QED BY <2>1, RecordIs
<1>6. Len(a) = k /\ \A p \in 1 .. k : a[p] = s[p].items /\ Len(a[p]) \in Nat
  <2>1. PICK S : S = Seq(D)
    OBVIOUS
  <2>2. a \in [1 .. k -> S]
    BY <1>4, <1>5, <2>1
  <2>3. Len(a) = k
    BY <1>0, <2>2, SameSeq
  <2> QED BY <1>4, <1>5, <2>3
<1>7. /\ \A x \in D : \E p \in 1 .. k : \E j \in 1 .. Len(a[p]) : a[p][j] = x
      /\ \A p, q \in 1 .. k : \A j \in 1 .. Len(a[p]), l \in 1 .. Len(a[q]) :
           a[p][j] = a[q][l] => p = q /\ j = l
  BY <1>2, <1>3, <1>6 DEF Divides
<1>8. SUFFICES ASSUME \A p \in 1 .. k : Len(a[p]) <= 1, NEW e \in 1 .. k, ~(Len(a[e]) >= 1)
               PROVE  FALSE
  BY <1>2, <1>6
<1>9. Len(a[e]) = 0
  BY <1>6, <1>8
<1>10. PICK B : B = (1 .. k) \ {e}
  OBVIOUS
<1>11. IsFiniteSet(B) /\ Cardinality(B) = k - 1
  <2>1. IsFiniteSet(1 .. k) /\ Cardinality(1 .. k) = k
    BY <1>0, FS_Interval
  <2>2. IsFiniteSet((1 .. k) \ {e}) /\ Cardinality((1 .. k) \ {e}) = Cardinality(1 .. k) - 1
    BY <2>1, FS_RemoveElement
  <2> QED BY <1>10, <2>1, <2>2
<1> DEFINE g == [x \in D |-> CHOOSE p \in 1 .. k : \E j \in 1 .. Len(a[p]) : a[p][j] = x]
<1>12. \A x \in D : g[x] \in 1 .. k /\ \E j \in 1 .. Len(a[g[x]]) : a[g[x]][j] = x
  BY <1>7
<1>13. ASSUME NEW x \in D PROVE g[x] \in B /\ Len(a[g[x]]) = 1 /\ a[g[x]][1] = x
  <2> HIDE DEF g
  <2>1. PICK p : p = g[x]
    OBVIOUS
  <2>2. p \in 1 .. k /\ \E j \in 1 .. Len(a[p]) : a[p][j] = x
    BY <1>12, <2>1
  <2>3. PICK j \in 1 .. Len(a[p]) : a[p][j] = x
    BY <2>2
  <2>4. Len(a[p]) \in Nat /\ Len(a[p]) <= 1
    BY <1>6, <1>8, <2>2
  <2>5. j = 1 /\ Len(a[p]) = 1
    <3>1. PICK l : l = Len(a[p])
      OBVIOUS
    <3>2. l \in Nat /\ l <= 1 /\ j \in 1 .. l
      BY <2>3, <2>4, <3>1
    <3>3. j = 1 /\ l = 1
      BY <3>2
    <3> QED BY <3>1, <3>3
  <2>6. p # e
    BY <1>9, <2>5
  <2> QED BY <1>10, <2>1, <2>2, <2>3, <2>5, <2>6
<1>14. g \in Injection(D, B)
  <2>1. g \in [D -> B]
    BY <1>13
  <2> HIDE DEF g
  <2>2. \A x, y \in D : g[x] = g[y] => x = y
    BY <1>13
  <2> QED BY <2>1, <2>2, Fun_IsInj
<1>15. Cardinality(D) <= Cardinality(B)
  <2> HIDE DEF g
  <2> QED BY <1>11, <1>14, FS_Injection
<1>16. Cardinality(D) = n
  BY <1>0, <1>1, FS_Interval
<1> QED BY <1>0, <1>11, <1>15, <1>16

(* What get_seqlen_balanced_partitions promises of its partitions.         *)
Balanced(load, n, k, M, equal_size, parts) ==
  /\ parts \in [1 .. k -> Seq(1 .. n)]
  /\ IsPartition(parts, n, k)
  /\ \A p, q \in DOMAIN parts : p # q => ToSet(parts[p]) \cap ToSet(parts[q]) = {}
  /\ \A p \in DOMAIN parts : IsInjective(parts[p])
  /\ equal_size => \A p, q \in DOMAIN parts : Len(parts[p]) = Len(parts[q])
  /\ \A p, q \in DOMAIN parts : Sum(load, parts[p]) - Sum(load, parts[q]) <= M

(* Sorting the items of a part changes neither them nor their sum.         *)
LEMMA SortedItems ==
  ASSUME NEW load, NEW n \in Nat, load \in [1 .. n -> Nat], NEW b \in Seq(1 .. n)
  PROVE  \E f \in Bijection(1 .. Len(b), 1 .. Len(b)) :
           /\ StableSort(b, <) = [r \in 1 .. Len(b) |-> b[f[r]]]
           /\ StableSort(b, <) \in Seq(1 .. n) /\ Len(StableSort(b, <)) = Len(b)
           /\ Sum(load, StableSort(b, <)) = Sum(load, b)
<1>1. PICK D : D = 1 .. n
  OBVIOUS
<1>2. b \in Seq(D) /\ Len(b) \in Nat /\ \A i \in 1 .. Len(b) : b[i] \in D
  BY <1>1, LenProperties, ElementOfSeq
<1>3. b \in Seq(Int)
  <2>1. \A i \in 1 .. Len(b) : b[i] \in Int
    BY <1>1, <1>2
  <2> QED BY <1>2, <2>1
<1>4. PICK f \in Bijection(1 .. Len(b), 1 .. Len(b)) : StableSort(b, <) = [r \in 1 .. Len(b) |-> b[f[r]]]
  BY <1>3, SortNumbers
<1>5. PICK c : c = StableSort(b, <)
  OBVIOUS
<1>6. \A r \in 1 .. Len(b) : f[r] \in 1 .. Len(b)
  <2>1. f \in [1 .. Len(b) -> 1 .. Len(b)]
    BY <1>2, Reordering
  <2> QED BY <2>1
<1>7. c \in [1 .. Len(b) -> D]
  BY <1>2, <1>4, <1>5, <1>6
<1>8. c \in Seq(D) /\ Len(c) = Len(b)
  BY <1>2, <1>7, SameSeq
<1>9. load \in [D -> Int]
  BY <1>1
<1>10. Sum(load, [r \in 1 .. Len(b) |-> b[f[r]]]) = Sum(load, b)
  BY <1>2, <1>9, SumReordered
<1> QED BY <1>1, <1>4, <1>5, <1>8, <1>10

(* For every list of loads, and every number of partitions up to its       *)
(* length: each index is in one partition, none is empty, they have the    *)
(* same size if asked, and no two differ by more than the largest load.    *)
THEOREM PartitionsAreBalanced ==
  ASSUME NEW load, NEW n, NEW k, NEW M, NEW equal_size, Divisible(load, n, k, M, equal_size)
  PROVE  Balanced(load, n, k, M, equal_size, BalancedPartitions(load, k, equal_size))
<1>0. n \in Nat /\ n >= 1 /\ load \in [1 .. n -> Nat] /\ k \in Nat
  BY DEF Divisible
<1>1. PICK D, s, c : D = 1 .. n /\ s = KarmarkarKarp(load, k, equal_size)
                     /\ c = BalancedPartitions(load, k, equal_size)
  OBVIOUS
<1>2. Level(load, D, k, M, equal_size, D, s)
  BY <1>1, KarmarkarKarpLevels
<1>3. \A p \in 1 .. k : Len(s[p].items) >= 1
  BY <1>1, <1>2, NoneEmpty
<1>4. /\ s \in Seq(SetRecord(D)) /\ Len(s) = k /\ Divides(ItemsOf(s), D)
      /\ \A p \in 1 .. k : s[p].sum = Sum(load, s[p].items)
      /\ \A p, q \in 1 .. k : s[p].sum - s[q].sum <= M
      /\ equal_size => \A p, q \in 1 .. k : Len(s[p].items) = Len(s[q].items)
  BY <1>2 DEF Level
<1>5. PICK a : a = ItemsOf(s)
  OBVIOUS
<1>6. a = [p \in 1 .. k |-> s[p].items]
  BY <1>4, <1>5 DEF ItemsOf
<1>7. ASSUME NEW p \in 1 .. k PROVE s[p].items \in Seq(D) /\ a[p] = s[p].items
  <2>1. s[p] \in SetRecord(D)
    BY <1>4, ElementOfSeq
  <2> QED BY <1>6, <2>1, RecordIs
<1>8. Len(a) = k
  <2>1. PICK S : S = Seq(D)
    OBVIOUS
  <2>2. a \in [1 .. k -> S]
    BY <1>6, <1>7, <2>1
  <2> QED BY <1>0, <2>2, SameSeq
<1>9. /\ \A x \in D : \E p \in 1 .. k : \E j \in 1 .. Len(a[p]) : a[p][j] = x
      /\ \A p, q \in 1 .. k : \A j \in 1 .. Len(a[p]), l \in 1 .. Len(a[q]) :
           a[p][j] = a[q][l] => p = q /\ j = l
  BY <1>4, <1>5, <1>8 DEF Divides
<1>10. c = [p \in 1 .. k |-> StableSort(a[p], <)]
  <2>1. c = [p \in 1 .. k |-> StableSort(s[p].items, <)]
    BY <1>1 DEF BalancedPartitions
  <2> QED BY <1>7, <2>1
<1>11. c = [p \in 1 .. k |-> c[p]] /\ DOMAIN c = 1 .. k /\ \A p \in 1 .. k : c[p] = StableSort(a[p], <)
  BY <1>10
<1>12. ASSUME NEW p \in 1 .. k
       PROVE  /\ c[p] \in Seq(D) /\ Len(c[p]) = Len(a[p]) /\ Sum(load, c[p]) = s[p].sum
              /\ Len(a[p]) \in Nat /\ Len(a[p]) >= 1 /\ DOMAIN c[p] = 1 .. Len(a[p])
              /\ \A r \in 1 .. Len(a[p]) : c[p][r] \in D
              /\ \E f \in Bijection(1 .. Len(a[p]), 1 .. Len(a[p])) :
                   \A r \in 1 .. Len(a[p]) : c[p][r] = a[p][f[r]]
  <2>1. PICK b : b = a[p]
    OBVIOUS
  <2>2. b \in Seq(D) /\ b = s[p].items
    BY <1>7, <2>1
  <2>3. b \in Seq(1 .. n)
    BY <1>1, <2>2
  <2>4. PICK f \in Bijection(1 .. Len(b), 1 .. Len(b)) :
           /\ StableSort(b, <) = [r \in 1 .. Len(b) |-> b[f[r]]]
           /\ StableSort(b, <) \in Seq(1 .. n) /\ Len(StableSort(b, <)) = Len(b)
           /\ Sum(load, StableSort(b, <)) = Sum(load, b)
    BY <1>0, <2>3, SortedItems
  <2>5. c[p] = StableSort(b, <)
    BY <1>11, <2>1
  <2>6. c[p] \in Seq(D) /\ Len(c[p]) = Len(b) /\ Sum(load, c[p]) = Sum(load, b)
    BY <1>1, <2>4, <2>5
  <2>7. \A r \in 1 .. Len(b) : c[p][r] = b[f[r]]
    BY <2>4, <2>5
  <2>8. Len(b) \in Nat /\ Len(b) >= 1
    BY <1>3, <2>2, LenProperties
  <2>9. DOMAIN c[p] = 1 .. Len(b) /\ \A r \in 1 .. Len(b) : c[p][r] \in D
    <3>1. PICK d : d = c[p]
      OBVIOUS
    <3>2. d \in Seq(D) /\ Len(d) = Len(b)
      BY <2>6, <3>1
    <3>3. DOMAIN d = 1 .. Len(d) /\ \A r \in 1 .. Len(d) : d[r] \in D
      BY <3>2, LenProperties, ElementOfSeq
    <3> QED BY <3>1, <3>2, <3>3
  <2>10. Sum(load, b) = s[p].sum
    BY <1>4, <2>2
  <2> QED BY <2>1, <2>4, <2>6, <2>7, <2>8, <2>9, <2>10
<1>13. ASSUME NEW p \in 1 .. k, NEW q \in 1 .. k, NEW r \in 1 .. Len(a[p]), NEW l \in 1 .. Len(a[q]),
              c[p][r] = c[q][l]
       PROVE  p = q /\ r = l
  <2>1. PICK f \in Bijection(1 .. Len(a[p]), 1 .. Len(a[p])) :
           \A i \in 1 .. Len(a[p]) : c[p][i] = a[p][f[i]]
    BY <1>12
  <2>2. PICK g \in Bijection(1 .. Len(a[q]), 1 .. Len(a[q])) :
           \A i \in 1 .. Len(a[q]) : c[q][i] = a[q][g[i]]
    BY <1>12
  <2>3. Len(a[p]) \in Nat /\ Len(a[q]) \in Nat
    BY <1>12
  <2>4. /\ f[r] \in 1 .. Len(a[p]) /\ g[l] \in 1 .. Len(a[q])
        /\ \A i, j \in 1 .. Len(a[p]) : f[i] = f[j] => i = j
    <3>1. f \in [1 .. Len(a[p]) -> 1 .. Len(a[p])] /\ g \in [1 .. Len(a[q]) -> 1 .. Len(a[q])]
      BY <2>3, Reordering
    <3> QED BY <2>3, <3>1, Reordering
  <2>5. a[p][f[r]] = a[q][g[l]]
    BY <1>13, <2>1, <2>2
  <2>6. p = q /\ f[r] = g[l]
    BY <1>9, <2>4, <2>5
  <2>7. r \in 1 .. Len(a[p]) /\ l \in 1 .. Len(a[p])
    BY <2>6
  <2>8. c[p][l] = a[p][g[l]]
    BY <2>2, <2>6
  <2>9. f[l] \in 1 .. Len(a[p]) /\ a[p][f[l]] = a[p][f[r]]
    <3>1. f \in [1 .. Len(a[p]) -> 1 .. Len(a[p])]
      BY <2>3, Reordering
    <3> QED BY <2>1, <2>6, <2>7, <2>8, <3>1
  <2>10. f[l] = f[r]
    BY <1>9, <2>4, <2>9
  <2> QED BY <2>4, <2>6, <2>7, <2>10
<1>14. IsPartition(c, n, k)
  <2>1. Len(c) = k
    <3>1. PICK S : S = Seq(D)
      OBVIOUS
    <3>2. c \in [1 .. k -> S]
      BY <1>11, <1>12, <3>1
    <3> QED BY <1>0, <3>2, SameSeq
  <2>2. \A p \in 1 .. k : c[p] # <<>>
    <3> SUFFICES ASSUME NEW p \in 1 .. k, c[p] = <<>> PROVE FALSE
      OBVIOUS
    <3>1. Len(c[p]) = 0
      OBVIOUS
    <3>2. Len(c[p]) >= 1
      BY <1>12
    <3> QED BY <3>1, <3>2
  <2>3. UNION {ToSet(c[p]) : p \in 1 .. k} = D
    <3>1. ASSUME NEW x \in D PROVE \E p \in 1 .. k : x \in ToSet(c[p])
      <4>1. PICK p \in 1 .. k : \E j \in 1 .. Len(a[p]) : a[p][j] = x
        BY <1>9
      <4>2. PICK j \in 1 .. Len(a[p]) : a[p][j] = x
        BY <4>1
      <4>3. PICK f \in Bijection(1 .. Len(a[p]), 1 .. Len(a[p])) :
               \A i \in 1 .. Len(a[p]) : c[p][i] = a[p][f[i]]
        BY <1>12
      <4>4. PICK r \in 1 .. Len(a[p]) : f[r] = j
        BY <1>12, Reordering
      <4>5. c[p][r] = x /\ r \in DOMAIN c[p]
        BY <1>12, <4>2, <4>3, <4>4
      <4> QED BY <4>5 DEF ToSet
    <3>2. ASSUME NEW p \in 1 .. k, NEW x \in ToSet(c[p]) PROVE x \in D
      <4>1. PICK r \in DOMAIN c[p] : x = c[p][r]
        BY DEF ToSet
      <4> QED BY <1>12, <4>1
    <3> QED BY <3>1, <3>2
  <2> QED BY <1>1, <1>11, <2>1, <2>2, <2>3 DEF IsPartition
<1>15. ASSUME NEW p \in 1 .. k, NEW q \in 1 .. k, p # q PROVE ToSet(c[p]) \cap ToSet(c[q]) = {}
  <2> SUFFICES ASSUME NEW x \in ToSet(c[p]), x \in ToSet(c[q]) PROVE FALSE
    OBVIOUS
  <2>1. PICK r \in DOMAIN c[p] : x = c[p][r]
    BY DEF ToSet
  <2>2. PICK l \in DOMAIN c[q] : x = c[q][l]
    BY DEF ToSet
  <2>3. r \in 1 .. Len(a[p]) /\ l \in 1 .. Len(a[q])
    BY <1>12
  <2> QED BY <1>13, <1>15, <2>1, <2>2, <2>3, ZenonT(30)
<1>16. ASSUME NEW p \in 1 .. k PROVE IsInjective(c[p])
  <2>1. \A r, l \in DOMAIN c[p] : c[p][r] = c[p][l] => r = l
    BY <1>12, <1>13
  <2> QED BY <2>1 DEF IsInjective
<1>17. ASSUME equal_size, NEW p \in 1 .. k, NEW q \in 1 .. k PROVE Len(c[p]) = Len(c[q])
  <2>1. Len(s[p].items) = Len(s[q].items)
    BY <1>4, <1>17
  <2> QED BY <1>7, <1>12, <2>1
<1>18. ASSUME NEW p \in 1 .. k, NEW q \in 1 .. k PROVE Sum(load, c[p]) - Sum(load, c[q]) <= M
  <2>1. s[p].sum - s[q].sum <= M
    BY <1>4
  <2> QED BY <1>12, <2>1
<1>19. c \in [1 .. k -> Seq(1 .. n)]
  <2>1. PICK S : S = Seq(D)
    OBVIOUS
  <2>2. c \in [1 .. k -> S]
    BY <1>11, <1>12, <2>1
  <2> QED BY <1>1, <2>1, <2>2
<1> QED BY <1>1, <1>11, <1>19, <1>14, <1>15, <1>16, <1>17, <1>18 DEF Balanced

-----------------------------------------------------------------------------
(* Series, and reorderings of them.                                        *)

Series(S, n, s) == n \in Nat /\ s \in [1 .. n -> S]

(* What a series of n elements is as a sequence.                           *)
LEMMA SeriesIs ==
  ASSUME NEW S, NEW n, NEW s, Series(S, n, s)
  PROVE  /\ n \in Nat /\ s \in Seq(S) /\ Len(s) = n /\ DOMAIN s = 1 .. n
         /\ \A i \in 1 .. n : s[i] \in S
<1>1. n \in Nat /\ s \in [1 .. n -> S]
  BY DEF Series
<1>2. s \in Seq(S) /\ Len(s) = n /\ DOMAIN s = 1 .. n
  BY <1>1, SameSeq
<1> QED BY <1>1, <1>2

(* A sequence is a series of its length.                                   *)
LEMMA SeqIsSeries ==
  ASSUME NEW S, NEW s \in Seq(S)
  PROVE  Series(S, Len(s), s)
  BY LenProperties DEF Series

(* A sequence of n elements of S, and its two halves.                      *)
Halved(S, n, s, o, e) ==
  /\ Series(S, n, s)
  /\ o \in Nat /\ e \in Nat /\ n = o + e /\ (o = e \/ o = e + 1)

(* Every sequence has two halves, the first the longer by one at most.     *)
LEMMA HalvesExist ==
  ASSUME NEW S, NEW n, NEW s, Series(S, n, s)
  PROVE  \E o, e : Halved(S, n, s, o, e)
<1>0. n \in Nat
  BY SeriesIs
<1>1. PICK o, e : o = (n + 1) \div 2 /\ e = n \div 2
  OBVIOUS
<1>2. /\ o \in Nat /\ e \in Nat /\ n = o + e /\ (o = e \/ o = e + 1)
  BY <1>0, <1>1
<1>3. Halved(S, n, s, o, e)
  BY <1>2 DEF Halved
<1> QED BY <1>3

(* s[::2] and s[1::2].                                                     *)
LEMMA OddEven ==
  ASSUME NEW S, NEW n, NEW s, NEW o, NEW e, Halved(S, n, s, o, e)
  PROVE  /\ Series(S, o, Odd(s)) /\ Series(S, e, Even(s))
         /\ \A i \in 1 .. o : 2 * i - 1 \in 1 .. n /\ Odd(s)[i] = s[2 * i - 1]
         /\ \A i \in 1 .. e : 2 * i \in 1 .. n /\ Even(s)[i] = s[2 * i]
<1>0. Series(S, n, s) /\ o \in Nat /\ e \in Nat /\ n = o + e /\ (o = e \/ o = e + 1)
  BY DEF Halved
<1>1. n \in Nat /\ Len(s) = n /\ \A i \in 1 .. n : s[i] \in S
  BY <1>0, SeriesIs
<1>2. CeilDiv(n - 1 + 1, 2) = o /\ CeilDiv(n - 2 + 1, 2) = e
  <2>1. CeilDiv(n - 1 + 1, 2) = (n - 1 + 1 + 2 - 1) \div 2 /\ CeilDiv(n - 2 + 1, 2) = (n - 2 + 1 + 2 - 1) \div 2
    BY DEF CeilDiv
  <2>2. n - 1 + 1 + 2 - 1 = n + 1 /\ n - 2 + 1 + 2 - 1 = n
    BY <1>1
  <2>3. (n + 1) \div 2 = o /\ n \div 2 = e
    BY <1>0
  <2> QED BY <2>1, <2>2, <2>3
<1>3. PICK a, b : a = Odd(s) /\ b = Even(s)
  OBVIOUS
<1>4. a = [i \in 1 .. o |-> s[1 + (i - 1) * 2]] /\ b = [i \in 1 .. e |-> s[2 + (i - 1) * 2]]
  BY <1>1, <1>2, <1>3 DEF Odd, Even, Slice
<1>5. /\ \A i \in 1 .. o : 1 + (i - 1) * 2 = 2 * i - 1 /\ 2 * i - 1 \in 1 .. n
      /\ \A i \in 1 .. e : 2 + (i - 1) * 2 = 2 * i /\ 2 * i \in 1 .. n
  BY <1>0
<1>7. /\ \A i \in 1 .. o : a[i] = s[2 * i - 1] /\ a[i] \in S
      /\ \A i \in 1 .. e : b[i] = s[2 * i] /\ b[i] \in S
  BY <1>1, <1>4, <1>5
<1>8. Series(S, o, a) /\ Series(S, e, b)
  BY <1>0, <1>4, <1>7 DEF Series
<1> QED BY <1>3, <1>5, <1>7, <1>8

(* A sequence reversed.                                                    *)
LEMMA Turned ==
  ASSUME NEW S, NEW n, NEW s, Series(S, n, s)
  PROVE  /\ Series(S, n, Reverse(s))
         /\ \A i \in 1 .. n : n + 1 - i \in 1 .. n /\ Reverse(s)[i] = s[n + 1 - i]
<1>1. n \in Nat /\ Len(s) = n /\ \A i \in 1 .. n : s[i] \in S
  BY SeriesIs
<1>2. \A i \in 1 .. n : (n - i) + 1 = n + 1 - i /\ n + 1 - i \in 1 .. n
  BY <1>1
<1>3. PICK r : r = Reverse(s)
  OBVIOUS
<1>4. r = [i \in 1 .. n |-> s[(n - i) + 1]]
  BY <1>1, <1>3 DEF Reverse
<1>5. \A i \in 1 .. n : r[i] = s[n + 1 - i] /\ s[n + 1 - i] \in S
  BY <1>1, <1>2, <1>4
<1>6. Series(S, n, r)
  BY <1>1, <1>4, <1>5 DEF Series
<1> QED BY <1>2, <1>3, <1>5, <1>6

TwoSeries(S, m, n, s, t) == Series(S, m, s) /\ Series(S, n, t)

(* Two sequences, one behind the other.                                    *)
LEMMA Appended ==
  ASSUME NEW S, NEW m, NEW n, NEW s, NEW t, TwoSeries(S, m, n, s, t)
  PROVE  /\ s \o t \in Seq(S) /\ Len(s \o t) = m + n
         /\ \A i \in 1 .. m + n : (s \o t)[i] = IF i <= m THEN s[i] ELSE t[i - m]
<1>1. s \in Seq(S) /\ t \in Seq(S) /\ Len(s) = m /\ Len(t) = n
  BY SeriesIs DEF TwoSeries
<1>2. s \o t \in Seq(S)
  BY <1>1, ConcatProperties
<1>3. /\ Len(s \o t) = Len(s) + Len(t)
      /\ \A i \in 1 .. Len(s) + Len(t) : (s \o t)[i] = IF i <= Len(s) THEN s[i] ELSE t[i - Len(s)]
  BY <1>1, ConcatProperties
<1> QED BY <1>1, <1>2, <1>3

(* One sequence in another order.                                          *)
Shuffle(S, n, s, t) ==
  /\ Series(S, n, s) /\ Series(S, n, t)
  /\ \E f \in Bijection(1 .. n, 1 .. n) : \A i \in 1 .. n : t[i] = s[f[i]]

(* The larger ones in the middle: a reordering.                            *)
LEMMA MiddleReorders ==
  ASSUME NEW S, NEW n, NEW s, Series(S, n, s)
  PROVE  Shuffle(S, n, s, Reverse(Odd(s)) \o Even(s))
<1>14. PICK o, e : Halved(S, n, s, o, e)
  BY HalvesExist
<1>0. o \in Nat /\ e \in Nat /\ n \in Nat /\ n = o + e /\ (o = e \/ o = e + 1)
  BY <1>14 DEF Halved
<1>1. /\ Series(S, o, Odd(s)) /\ Series(S, e, Even(s))
      /\ \A i \in 1 .. o : 2 * i - 1 \in 1 .. n /\ Odd(s)[i] = s[2 * i - 1]
      /\ \A i \in 1 .. e : 2 * i \in 1 .. n /\ Even(s)[i] = s[2 * i]
  BY <1>14, OddEven
<1>2. PICK a, b, r : a = Odd(s) /\ b = Even(s) /\ r = Reverse(a)
  OBVIOUS
<1>3. /\ Series(S, o, a) /\ Series(S, e, b)
      /\ \A i \in 1 .. o : a[i] = s[2 * i - 1]
      /\ \A i \in 1 .. e : b[i] = s[2 * i]
  BY <1>1, <1>2
<1>4. Series(S, o, r) /\ \A i \in 1 .. o : o + 1 - i \in 1 .. o /\ r[i] = a[o + 1 - i]
  BY <1>2, <1>3, Turned
<1>5. /\ r \o b \in Seq(S) /\ Len(r \o b) = o + e
      /\ \A i \in 1 .. o + e : (r \o b)[i] = IF i <= o THEN r[i] ELSE b[i - o]
  <2>1. TwoSeries(S, o, e, r, b)
    BY <1>3, <1>4 DEF TwoSeries
  <2> QED BY <2>1, Appended
<1>6. PICK f : f = [i \in 1 .. n |-> IF i <= o THEN 2 * (o + 1 - i) - 1 ELSE 2 * (i - o)]
  OBVIOUS
<1>7. \A i \in 1 .. n : f[i] = IF i <= o THEN 2 * (o + 1 - i) - 1 ELSE 2 * (i - o)
  BY <1>6
<1>8. \A i \in 1 .. n : f[i] \in 1 .. n
  BY <1>0, <1>7
<1>9. f \in [1 .. n -> 1 .. n]
  BY <1>6, <1>8
<1>10. \A i, j \in 1 .. n : f[i] = f[j] => i = j
  BY <1>0, <1>7
<1>11. ASSUME NEW x \in 1 .. n PROVE \E i \in 1 .. n : f[i] = x
  <2>1. CASE x % 2 = 0
    <3>1. PICK h : h = x \div 2
      OBVIOUS
    <3>2. h \in Nat /\ x = 2 * h
      BY <2>1, <3>1
    <3>3. o + h \in 1 .. n /\ ~(o + h <= o) /\ 2 * ((o + h) - o) = x
      BY <1>0, <3>2
    <3> QED BY <1>7, <3>3
  <2>2. CASE x % 2 = 1
    <3>1. PICK h : h = x \div 2
      OBVIOUS
    <3>2. h \in Nat /\ x = 2 * h + 1
      BY <2>2, <3>1
    <3>3. o - h \in 1 .. n /\ o - h <= o /\ 2 * (o + 1 - (o - h)) - 1 = x
      BY <1>0, <3>2
    <3> QED BY <1>7, <3>3
  <2>3. x % 2 = 0 \/ x % 2 = 1
    BY <1>0
  <2> QED BY <2>1, <2>2, <2>3
<1>12. f \in Bijection(1 .. n, 1 .. n)
  BY <1>0, <1>9, <1>10, <1>11, IsReordering
<1>13. ASSUME NEW i \in 1 .. n PROVE (r \o b)[i] = s[f[i]]
  <2>1. CASE i <= o
    <3>1. i \in 1 .. o /\ o + 1 - i \in 1 .. o
      BY <1>0, <2>1
    <3>2. r[i] = s[2 * (o + 1 - i) - 1]
      BY <1>3, <1>4, <3>1
    <3> QED BY <1>0, <1>5, <1>7, <2>1, <3>2
  <2>2. CASE ~(i <= o)
    <3>1. i - o \in 1 .. e
      BY <1>0, <2>2
    <3>2. b[i - o] = s[2 * (i - o)]
      BY <1>3, <3>1
    <3> QED BY <1>0, <1>5, <1>7, <2>2, <3>2
  <2> QED BY <2>1, <2>2
<1>15. PICK u : u = r \o b
  OBVIOUS
<1>16. Series(S, n, u)
  BY <1>0, <1>5, <1>15, SeqIsSeries
<1>17. Shuffle(S, n, s, u)
  BY <1>12, <1>13, <1>15, <1>16 DEF Shuffle
<1> QED BY <1>2, <1>15, <1>17

(* The smaller ones at both ends: a reordering.                            *)
LEMMA EndsReorder ==
  ASSUME NEW S, NEW n, NEW s, Series(S, n, s)
  PROVE  Shuffle(S, n, s, Odd(s) \o Reverse(Even(s)))
<1>14. PICK o, e : Halved(S, n, s, o, e)
  BY HalvesExist
<1>0. o \in Nat /\ e \in Nat /\ n \in Nat /\ n = o + e /\ (o = e \/ o = e + 1)
  BY <1>14 DEF Halved
<1>1. /\ Series(S, o, Odd(s)) /\ Series(S, e, Even(s))
      /\ \A i \in 1 .. o : 2 * i - 1 \in 1 .. n /\ Odd(s)[i] = s[2 * i - 1]
      /\ \A i \in 1 .. e : 2 * i \in 1 .. n /\ Even(s)[i] = s[2 * i]
  BY <1>14, OddEven
<1>2. PICK a, b, r : a = Odd(s) /\ b = Even(s) /\ r = Reverse(b)
  OBVIOUS
<1>3. /\ Series(S, o, a) /\ Series(S, e, b)
      /\ \A i \in 1 .. o : a[i] = s[2 * i - 1]
      /\ \A i \in 1 .. e : b[i] = s[2 * i]
  BY <1>1, <1>2
<1>4. Series(S, e, r) /\ \A i \in 1 .. e : e + 1 - i \in 1 .. e /\ r[i] = b[e + 1 - i]
  BY <1>2, <1>3, Turned
<1>5. /\ a \o r \in Seq(S) /\ Len(a \o r) = o + e
      /\ \A i \in 1 .. o + e : (a \o r)[i] = IF i <= o THEN a[i] ELSE r[i - o]
  <2>1. TwoSeries(S, o, e, a, r)
    BY <1>3, <1>4 DEF TwoSeries
  <2> QED BY <2>1, Appended
<1>6. PICK f : f = [i \in 1 .. n |-> IF i <= o THEN 2 * i - 1 ELSE 2 * (e + 1 - (i - o))]
  OBVIOUS
<1>7. \A i \in 1 .. n : f[i] = IF i <= o THEN 2 * i - 1 ELSE 2 * (e + 1 - (i - o))
  BY <1>6
<1>8. \A i \in 1 .. n : f[i] \in 1 .. n
  BY <1>0, <1>7
<1>9. f \in [1 .. n -> 1 .. n]
  BY <1>6, <1>8
<1>10. \A i, j \in 1 .. n : f[i] = f[j] => i = j
  BY <1>0, <1>7
<1>11. ASSUME NEW x \in 1 .. n PROVE \E i \in 1 .. n : f[i] = x
  <2>1. CASE x % 2 = 0
    <3>1. PICK h : h = x \div 2
      OBVIOUS
    <3>2. h \in Nat /\ x = 2 * h
      BY <2>1, <3>1
    <3>3. PICK i : i = o + (e + 1 - h)
      OBVIOUS
    <3>4. i \in 1 .. n /\ ~(i <= o) /\ 2 * (e + 1 - (i - o)) = x
      BY <1>0, <3>2, <3>3
    <3> QED BY <1>7, <3>4
  <2>2. CASE x % 2 = 1
    <3>1. PICK h : h = x \div 2
      OBVIOUS
    <3>2. h \in Nat /\ x = 2 * h + 1
      BY <2>2, <3>1
    <3>3. h + 1 \in 1 .. n /\ h + 1 <= o /\ 2 * (h + 1) - 1 = x
      BY <1>0, <3>2
    <3> QED BY <1>7, <3>3
  <2>3. x % 2 = 0 \/ x % 2 = 1
    BY <1>0
  <2> QED BY <2>1, <2>2, <2>3
<1>12. f \in Bijection(1 .. n, 1 .. n)
  BY <1>0, <1>9, <1>10, <1>11, IsReordering
<1>13. ASSUME NEW i \in 1 .. n PROVE (a \o r)[i] = s[f[i]]
  <2>1. CASE i <= o
    <3>1. i \in 1 .. o
      BY <1>0, <2>1
    <3> QED BY <1>0, <1>3, <1>5, <1>7, <2>1, <3>1
  <2>2. CASE ~(i <= o)
    <3>1. i - o \in 1 .. e /\ e + 1 - (i - o) \in 1 .. e
      BY <1>0, <2>2
    <3>2. r[i - o] = s[2 * (e + 1 - (i - o))]
      BY <1>3, <1>4, <3>1
    <3> QED BY <1>0, <1>5, <1>7, <2>2, <3>2
  <2> QED BY <2>1, <2>2
<1>15. PICK u : u = a \o r
  OBVIOUS
<1>16. Series(S, n, u)
  BY <1>0, <1>5, <1>15, SeqIsSeries
<1>17. Shuffle(S, n, s, u)
  BY <1>12, <1>13, <1>15, <1>16 DEF Shuffle
<1> QED BY <1>2, <1>15, <1>17

(* A reordering of a reordering is one.                                    *)
LEMMA ShuffledTwice ==
  ASSUME NEW S, NEW n, NEW s, NEW t, NEW u, Shuffle(S, n, s, t), Shuffle(S, n, t, u)
  PROVE  Shuffle(S, n, s, u)
<1>0. n \in Nat
  BY SeriesIs DEF Shuffle
<1>1. PICK f \in Bijection(1 .. n, 1 .. n) : \A i \in 1 .. n : t[i] = s[f[i]]
  BY DEF Shuffle
<1>2. PICK g \in Bijection(1 .. n, 1 .. n) : \A i \in 1 .. n : u[i] = t[g[i]]
  BY DEF Shuffle
<1>3. /\ f \in [1 .. n -> 1 .. n] /\ g \in [1 .. n -> 1 .. n]
      /\ \A i, j \in 1 .. n : f[i] = f[j] => i = j
      /\ \A i, j \in 1 .. n : g[i] = g[j] => i = j
  BY <1>0, Reordering
<1>4. /\ \A i \in 1 .. n : \E r \in 1 .. n : f[r] = i
      /\ \A i \in 1 .. n : \E r \in 1 .. n : g[r] = i
  BY <1>0, Reordering
<1>5. PICK h : h = [i \in 1 .. n |-> f[g[i]]]
  OBVIOUS
<1>6. \A i \in 1 .. n : f[i] \in 1 .. n /\ g[i] \in 1 .. n
  BY <1>3
<1>7. h \in [1 .. n -> 1 .. n] /\ \A i \in 1 .. n : h[i] = f[g[i]]
  BY <1>5, <1>6
<1>8. \A i, j \in 1 .. n : h[i] = h[j] => i = j
  BY <1>3, <1>6, <1>7
<1>9. \A i \in 1 .. n : \E r \in 1 .. n : h[r] = i
  <2> SUFFICES ASSUME NEW i \in 1 .. n PROVE \E r \in 1 .. n : h[r] = i
    OBVIOUS
  <2>1. PICK q \in 1 .. n : f[q] = i
    BY <1>4
  <2>2. PICK r \in 1 .. n : g[r] = q
    BY <1>4
  <2> QED BY <1>7, <2>1, <2>2
<1>10. h \in Bijection(1 .. n, 1 .. n)
  BY <1>0, <1>7, <1>8, <1>9, IsReordering
<1>11. \A i \in 1 .. n : u[i] = s[h[i]]
  BY <1>1, <1>2, <1>6, <1>7
<1> QED BY <1>10, <1>11 DEF Shuffle

(* Partitions of the indices 1 .. n, none of them empty.                   *)
Parts(load, n, k, parts) ==
  /\ n \in Nat /\ load \in [1 .. n -> Nat] /\ k \in Nat
  /\ Series(Seq(1 .. n), k, parts) /\ \A p \in 1 .. k : parts[p] # <<>>

(* rearrange_micro_batches puts the partitions in another order.           *)
LEMMA MiddleOutShuffles ==
  ASSUME NEW load, NEW n, NEW k, NEW parts, Parts(load, n, k, parts)
  PROVE  Shuffle(Seq(1 .. n), k, parts, MiddleOut(load, parts))
<1>0. n \in Nat /\ load \in [1 .. n -> Nat] /\ k \in Nat /\ \A p \in 1 .. k : parts[p] # <<>>
  BY DEF Parts
<1>1. PICK S : S = Seq(1 .. n)
  OBVIOUS
<1>2. Series(S, k, parts)
  BY <1>1 DEF Parts
<1>3. parts \in Seq(S) /\ Len(parts) = k /\ DOMAIN parts = 1 .. k /\ \A p \in 1 .. k : parts[p] \in S
  BY <1>2, SeriesIs
<1>4. parts \in [1 .. k -> S]
  BY <1>2 DEF Series
<1>5. Evaluated(parts) = parts
  BY <1>0, <1>4, SameSeq
<1> DEFINE Larger(p, q) == \/ Sum(load, p) > Sum(load, q)
                           \/ Sum(load, p) = Sum(load, q) /\ p[1] > q[1]
<1>6. PICK L : L = {e \in (1 .. k) \X (1 .. k) : Larger(parts[e[1]], parts[e[2]])}
  OBVIOUS
<1>7. \A i, j \in 1 .. k : <<i, j>> \in L <=> Larger(parts[i], parts[j])
  BY <1>6
<1>8. ASSUME NEW i \in 1 .. k PROVE Sum(load, parts[i]) \in Int /\ parts[i][1] \in Int
  <2>1. PICK p : p = parts[i]
    OBVIOUS
  <2>2. p \in Seq(1 .. n) /\ p # <<>>
    BY <1>0, <1>1, <1>3, <2>1
  <2>3. load \in [1 .. n -> Int]
    BY <1>0
  <2>4. Sum(load, p) \in Int
    BY <2>2, <2>3, SumIsInt
  <2>5. Len(p) \in Nat /\ Len(p) # 0
    BY <2>2, LenProperties, EmptySeq
  <2>6. p[1] \in 1 .. n
    <3>1. 1 \in 1 .. Len(p)
      BY <2>5
    <3> QED BY <2>2, <3>1, ElementOfSeq
  <2>7. p[1] \in Int
    BY <2>6
  <2> QED BY <2>1, <2>4, <2>7
<1>9. \A i, j \in 1 .. k : <<i, j>> \in L => <<j, i>> \notin L
  BY <1>7, <1>8
<1>10. \A i, j, l \in 1 .. k : <<i, j>> \notin L /\ <<j, l>> \notin L => <<i, l>> \notin L
  BY <1>7, <1>8
<1>11. StableSort(parts, Larger) = Stable(parts, L)
  <2>1. Rank(parts, Larger) = StableRanks(k, L)
    <3>1. \A i, j \in 1 .. k :
            Larger(parts[j], parts[i]) \/ (~Larger(parts[i], parts[j]) /\ j < i)
            <=> <<j, i>> \in L \/ (<<i, j>> \notin L /\ j < i)
      BY <1>7
    <3> HIDE DEF Larger
    <3> QED BY <1>3, <3>1 DEF Rank, Before, StableRanks
  <2> HIDE DEF Larger
  <2> QED BY <1>3, <1>5, <2>1 DEF StableSort, Stable
<1>12. PICK t : t = StableSort(parts, Larger)
  OBVIOUS
<1>13. MiddleOut(load, parts) = Reverse(Odd(t)) \o Even(t)
  BY <1>12 DEF MiddleOut
<1> HIDE DEF Larger
<1>14. PICK p \in Bijection(1 .. k, 1 .. k) : Stable(parts, L) = [r \in 1 .. k |-> parts[p[r]]]
  <2>1. /\ \A i, j \in 1 .. Len(parts) : <<i, j>> \in L => <<j, i>> \notin L
        /\ \A i, j, l \in 1 .. Len(parts) : <<i, j>> \notin L /\ <<j, l>> \notin L => <<i, l>> \notin L
    BY <1>3, <1>9, <1>10
  <2>2. \E q \in Bijection(1 .. Len(parts), 1 .. Len(parts)) :
          /\ Stable(parts, L) = [r \in 1 .. Len(parts) |-> parts[q[r]]]
          /\ \A r, l \in 1 .. Len(parts) : r < l => <<q[l], q[r]>> \notin L
    BY <1>3, <2>1, StableReorders
  <2> QED BY <1>3, <2>2
<1>15. \A r \in 1 .. k : p[r] \in 1 .. k
  <2>1. p \in [1 .. k -> 1 .. k]
    BY <1>0, Reordering
  <2> QED BY <2>1
<1>16. t = [r \in 1 .. k |-> parts[p[r]]]
  BY <1>11, <1>12, <1>14
<1>17. Series(S, k, t)
  BY <1>0, <1>3, <1>15, <1>16 DEF Series
<1>18. Shuffle(S, k, parts, t)
  BY <1>2, <1>16, <1>17 DEF Shuffle
<1>19. PICK u : u = Reverse(Odd(t)) \o Even(t)
  OBVIOUS
<1>21. Shuffle(S, k, t, u)
  BY <1>17, <1>19, MiddleReorders
<1>22. Shuffle(S, k, parts, u)
  BY <1>18, <1>21, ShuffledTwice
<1> QED BY <1>1, <1>13, <1>19, <1>22

(* The largest of a set of numbers is one of them.                         *)
LEMMA GreatestNumber ==
  ASSUME NEW S, IsFiniteSet(S), S # {}, \A x \in S : x \in Int
  PROVE  Max(S) \in S /\ \A x \in S : x <= Max(S)
<1>3. PICK R : R = {e \in S \X S : e[1] >= e[2]}
  OBVIOUS
<1>4. \A x, y \in S : <<x, y>> \in R <=> x >= y
  BY <1>3
<1>5. /\ \A x, y \in S : x # y => <<x, y>> \in R \/ <<y, x>> \in R
      /\ \A x, y, z \in S : <<x, y>> \in R /\ <<y, z>> \in R => <<x, z>> \in R
  BY <1>4
<1>6. PICK x \in S : \A y \in S \ {x} : <<x, y>> \in R
  BY <1>5, Greatest
<1>7. \A y \in S : x >= y
  <2> SUFFICES ASSUME NEW y \in S PROVE x >= y
    OBVIOUS
  <2>1. CASE y = x
    BY <2>1
  <2>2. CASE y # x
    BY <1>4, <1>6, <2>2
  <2> QED BY <2>1, <2>2
<1>8. PICK m : m = Max(S)
  OBVIOUS
<1>9. m \in S /\ \A y \in S : m >= y
  BY <1>7, <1>8 DEF Max
<1>10. \A y \in S : y <= m
  BY <1>9
<1> QED BY <1>8, <1>9, <1>10

(* The largest load.                                                       *)
LEMMA MaxIs ==
  ASSUME NEW n \in Nat, n >= 1, NEW load \in [1 .. n -> Nat], NEW M, M = Max({load[i] : i \in DOMAIN load})
  PROVE  M \in Nat /\ \A i \in 1 .. n : load[i] <= M
<1>1. PICK S : S = {load[i] : i \in DOMAIN load}
  OBVIOUS
<1>2. DOMAIN load = 1 .. n /\ S \in SUBSET Nat
  BY <1>1
<1>3. S # {}
  <2>1. 1 \in DOMAIN load
    BY <1>2
  <2> QED BY <1>1, <2>1
<1>4. IsFiniteSet(S)
  <2>1. load \in Surjection(1 .. n, S)
    <3>1. load \in [1 .. n -> S]
      BY <1>1, <1>2
    <3>2. \A y \in S : \E i \in 1 .. n : load[i] = y
      BY <1>1, <1>2
    <3> QED BY <3>1, <3>2, Fun_IsSurj
  <2>2. IsFiniteSet(1 .. n)
    BY FS_Interval
  <2> QED BY <2>1, <2>2, FS_Surjection
<1>5. \A x \in S : x \in Int
  BY <1>2
<1>6. M \in S /\ \A y \in S : y <= M
  BY <1>1, <1>3, <1>4, <1>5, GreatestNumber
<1> QED BY <1>1, <1>2, <1>6

(* Partitions of the indices put each of them in one place.                *)
LEMMA PartitionsDivide ==
  ASSUME NEW load, NEW n, NEW k, NEW M, NEW equal_size, Divisible(load, n, k, M, equal_size)
  PROVE  /\ Parts(load, n, k, BalancedPartitions(load, k, equal_size))
         /\ Divides(BalancedPartitions(load, k, equal_size), 1 .. n)
<1>0. n \in Nat /\ n >= 1 /\ load \in [1 .. n -> Nat] /\ k \in Nat
  BY DEF Divisible
<1>1. PICK c, S : c = BalancedPartitions(load, k, equal_size) /\ S = Seq(1 .. n)
  OBVIOUS
<1>2. Balanced(load, n, k, M, equal_size, c)
  BY <1>1, PartitionsAreBalanced
<1>3. c \in [1 .. k -> S] /\ DOMAIN c = 1 .. k
  BY <1>1, <1>2 DEF Balanced
<1>4. Series(S, k, c)
  BY <1>0, <1>3 DEF Series
<1>5. Len(c) = k
  BY <1>4, SeriesIs
<1>6. /\ \A p \in 1 .. k : c[p] # <<>>
      /\ UNION {ToSet(c[p]) : p \in 1 .. k} = 1 .. n
      /\ \A p, q \in 1 .. k : p # q => ToSet(c[p]) \cap ToSet(c[q]) = {}
      /\ \A p \in 1 .. k : IsInjective(c[p])
  BY <1>2, <1>3 DEF Balanced, IsPartition
<1>7. Parts(load, n, k, c)
  BY <1>0, <1>1, <1>4, <1>6 DEF Parts
<1>8. ASSUME NEW p \in 1 .. k
      PROVE  /\ DOMAIN c[p] = 1 .. Len(c[p]) /\ \A j \in 1 .. Len(c[p]) : c[p][j] \in 1 .. n
  <2>1. PICK d : d = c[p]
    OBVIOUS
  <2>2. d \in Seq(1 .. n)
    BY <1>1, <1>3, <2>1
  <2> QED BY <2>1, <2>2, LenProperties, ElementOfSeq
<1>9. \A p \in 1 .. k : \A x : x \in ToSet(c[p]) <=> \E j \in 1 .. Len(c[p]) : c[p][j] = x
  BY <1>8 DEF ToSet
<1>10. \A x \in 1 .. n : \E p \in 1 .. k : \E j \in 1 .. Len(c[p]) : c[p][j] = x
  <2> SUFFICES ASSUME NEW x \in 1 .. n PROVE \E p \in 1 .. k : \E j \in 1 .. Len(c[p]) : c[p][j] = x
    OBVIOUS
  <2>1. PICK p \in 1 .. k : x \in ToSet(c[p])
    BY <1>6
  <2> QED BY <1>9, <2>1
<1>11. ASSUME NEW p \in 1 .. k, NEW q \in 1 .. k, NEW j \in 1 .. Len(c[p]), NEW l \in 1 .. Len(c[q]),
              c[p][j] = c[q][l]
       PROVE  p = q /\ j = l
  <2>1. PICK x : x = c[p][j]
    OBVIOUS
  <2>2. x \in ToSet(c[p]) /\ x \in ToSet(c[q])
    BY <1>9, <1>11, <2>1
  <2>3. p = q
    BY <1>6, <2>2
  <2>4. j \in DOMAIN c[p] /\ l \in DOMAIN c[p] /\ c[p][j] = c[p][l] /\ IsInjective(c[p])
    BY <1>6, <1>8, <1>11, <2>3
  <2>5. j = l
    BY <2>4 DEF IsInjective
  <2> QED BY <2>3, <2>5
<1>12. Divides(c, 1 .. n)
  BY <1>5, <1>8, <1>10, <1>11 DEF Divides
<1> QED BY <1>1, <1>7, <1>12

(* The micro-batches of a dynamic batch have each row in one place.        *)
Dividing(lens, n, k) ==
  /\ n \in Nat /\ lens \in [1 .. n -> Nat] /\ k \in Nat /\ 1 <= k /\ k <= n

(* Every row is in one micro-batch, at one place.                          *)
LEMMA MicroBatchesDivide ==
  ASSUME NEW lens, NEW n, NEW k, Dividing(lens, n, k)
  PROVE  /\ Series(Seq(1 .. n), k, MicroBatches(lens, k))
         /\ Divides(MicroBatches(lens, k), 1 .. n)
<1>0. n \in Nat /\ lens \in [1 .. n -> Nat] /\ k \in Nat /\ 1 <= k /\ k <= n /\ n >= 1
  BY DEF Dividing
<1>1. PICK load, M : load = [i \in DOMAIN lens |-> Workload(lens[i])] /\ M = Max({load[i] : i \in DOMAIN load})
  OBVIOUS
<1>2. load \in [1 .. n -> Nat]
  <2>1. load = [i \in 1 .. n |-> Workload(lens[i])]
    BY <1>0, <1>1
  <2>2. \A x \in Nat : Workload(x) \in Nat
    BY DEF Workload
  <2> QED BY <1>0, <2>1, <2>2
<1>3. M \in Nat /\ \A i \in 1 .. n : load[i] <= M
  BY <1>0, <1>1, <1>2, MaxIs
<1>4. Divisible(load, n, k, M, FALSE)
  BY <1>0, <1>2, <1>3 DEF Divisible
<1>5. PICK c, u, S : c = BalancedPartitions(load, k, FALSE) /\ u = MiddleOut(load, c) /\ S = Seq(1 .. n)
  OBVIOUS
<1>6. Parts(load, n, k, c) /\ Divides(c, 1 .. n)
  BY <1>4, <1>5, PartitionsDivide
<1>7. Shuffle(S, k, c, u)
  BY <1>5, <1>6, MiddleOutShuffles
<1>8. Series(S, k, c) /\ Series(S, k, u)
  BY <1>7 DEF Shuffle
<1>9. Len(c) = k /\ Len(u) = k
  BY <1>8, SeriesIs
<1>10. PICK f \in Bijection(1 .. k, 1 .. k) : \A i \in 1 .. k : u[i] = c[f[i]]
  BY <1>7 DEF Shuffle
<1>11. Divides(u, 1 .. n)
  BY <1>0, <1>6, <1>9, <1>10, DividesReordered
<1>12. MicroBatches(lens, k) = u
  BY <1>1, <1>5 DEF MicroBatches
<1> QED BY <1>5, <1>8, <1>11, <1>12

-----------------------------------------------------------------------------
(* The micro-batches and the weights of the tokens.                        *)

(* Division with remainder.                                                *)
LEMMA Division ==
  ASSUME NEW a \in Nat, NEW b \in Nat, b >= 1
  PROVE  a \div b \in Nat /\ b * (a \div b) <= a /\ a < b * (a \div b) + b /\ (a % b = 0 => (a \div b) * b = a)
  OBVIOUS

(* Multiples of s are s apart.                                             *)
LEMMA Multiples ==
  ASSUME NEW s \in Nat, NEW a \in Int, NEW b \in Int, a < b
  PROVE  s * a + s <= s * b
<1>1. PICK d : d = b - a - 1
  OBVIOUS
<1>2. d \in Nat /\ b = a + 1 + d
  BY <1>1
<1>3. s * d >= 0 /\ s * d \in Int
  BY <1>2
<1>4. s * (a + 1 + d) = s * a + s + s * d
  BY <1>2
<1> QED BY <1>2, <1>3, <1>4

(* The smaller of two numbers.                                             *)
LEMMA MinIs ==
  ASSUME NEW a \in Int, NEW b \in Int
  PROVE  Min({a, b}) = IF a <= b THEN a ELSE b
<1>1. PICK m : m = IF a <= b THEN a ELSE b
  OBVIOUS
<1>2. m \in {a, b} /\ m \in Int /\ m <= a /\ m <= b
  BY <1>1
<1>3. PICK x : x = Min({a, b})
  OBVIOUS
<1>4. x \in {a, b} /\ x <= a /\ x <= b
  BY <1>2, <1>3 DEF Min
<1> QED BY <1>1, <1>2, <1>3, <1>4

(* A batch in slices of the same size, the last one possibly shorter.      *)
Sliced(n, size, N) == n \in Nat /\ size \in Nat /\ size >= 1 /\ N = CeilDiv(n, size)

(* Where the micro-batches of a fixed size start and end.                  *)
LEMMA SlicesAre ==
  ASSUME NEW n, NEW size, NEW N, Sliced(n, size, N)
  PROVE  /\ N \in Nat
         /\ \A m \in 1 .. N : size * (m - 1) \in Nat /\ size * (m - 1) < n
         /\ \A x \in 1 .. n : \E m \in 1 .. N : size * (m - 1) < x /\ x <= size * (m - 1) + size
         /\ \A m, l \in 1 .. N : m < l => size * (m - 1) + size <= size * (l - 1)
         /\ n % size = 0 => \A m \in 1 .. N : size * (m - 1) + size <= n
         /\ n <= size * N
<1>0. n \in Nat /\ size \in Nat /\ size >= 1 /\ N = (n + size - 1) \div size
  BY DEF Sliced, CeilDiv
<1>1. N \in Nat /\ size * N <= n + size - 1 /\ n + size - 1 < size * N + size
  BY <1>0, Division
<1>2. \A m, l \in 1 .. N : m < l => size * (m - 1) + size <= size * (l - 1)
  <2> SUFFICES ASSUME NEW m \in 1 .. N, NEW l \in 1 .. N, m < l
               PROVE  size * (m - 1) + size <= size * (l - 1)
    OBVIOUS
  <2>1. m - 1 \in Int /\ l - 1 \in Int /\ m - 1 < l - 1
    BY <1>1
  <2> QED BY <1>0, <2>1, Multiples
<1>3. \A m \in 1 .. N : size * (m - 1) \in Nat /\ size * (m - 1) < n
  <2> SUFFICES ASSUME NEW m \in 1 .. N PROVE size * (m - 1) \in Nat /\ size * (m - 1) < n
    OBVIOUS
  <2>1. m - 1 \in Nat /\ m - 1 < N
    BY <1>1
  <2>2. size * (m - 1) + size <= size * N
    BY <1>0, <1>1, <2>1, Multiples
  <2>3. size * (m - 1) \in Nat /\ size * N \in Int
    BY <1>0, <1>1, <2>1
  <2> QED BY <1>0, <1>1, <2>2, <2>3
<1>4. ASSUME NEW x \in 1 .. n
      PROVE  \E m \in 1 .. N : size * (m - 1) < x /\ x <= size * (m - 1) + size
  <2>1. PICK q : q = (x - 1) \div size
    OBVIOUS
  <2>2. x - 1 \in Nat
    BY <1>0
  <2>3. q \in Nat /\ size * q <= x - 1 /\ x - 1 < size * q + size
    BY <1>0, <2>1, <2>2, Division
  <2>4. q + 1 <= N
    <3> SUFFICES ASSUME N < q + 1 PROVE FALSE
      BY <1>1, <2>3
    <3>1. N <= q
      BY <1>1, <2>3
    <3>2. size * N <= size * q
      <4>1. CASE N = q
        BY <1>0, <2>3, <4>1
      <4>2. CASE N < q
        <5>1. size * N + size <= size * q
          BY <1>0, <1>1, <2>3, <4>2, Multiples
        <5> QED BY <1>0, <1>1, <2>3, <5>1
      <4> QED BY <1>1, <2>3, <3>1, <4>1, <4>2
    <3>3. size * N \in Int /\ size * q \in Int
      BY <1>0, <1>1, <2>3
    <3> QED BY <1>0, <1>1, <2>3, <3>2, <3>3
  <2>5. PICK m : m = q + 1
    OBVIOUS
  <2>6. m \in 1 .. N /\ m - 1 = q
    BY <1>1, <2>3, <2>4, <2>5
  <2>7. size * q \in Int
    BY <1>0, <2>3
  <2>8. size * q < x /\ x <= size * q + size
    BY <1>0, <2>3, <2>7
  <2> QED BY <2>6, <2>8
<1>5. ASSUME n % size = 0, NEW m \in 1 .. N PROVE size * (m - 1) + size <= n
  <2>1. PICK q : q = n \div size
    OBVIOUS
  <2>2. q \in Nat /\ q * size = n
    BY <1>0, <1>5, <2>1, Division
  <2>3. size * q = n
    BY <1>0, <2>2
  <2>4. m - 1 < q
    <3> SUFFICES ASSUME q <= m - 1 PROVE FALSE
      BY <1>1, <2>2
    <3>1. size * (m - 1) \in Nat /\ size * (m - 1) < n
      BY <1>3
    <3>2. CASE q = m - 1
      BY <2>3, <3>1, <3>2
    <3>3. CASE q < m - 1
      <4>1. size * q + size <= size * (m - 1)
        BY <1>0, <1>1, <2>2, <3>3, Multiples
      <4> QED BY <1>0, <2>3, <3>1, <4>1
    <3> QED BY <1>1, <2>2, <3>2, <3>3
  <2>5. size * (m - 1) + size <= size * q
    BY <1>0, <1>1, <2>2, <2>4, Multiples
  <2> QED BY <2>3, <2>5
<1>6. n <= size * N
  <2>1. size * N \in Nat
    BY <1>0, <1>1
  <2> QED BY <1>0, <1>1, <2>1
<1> QED BY <1>1, <1>2, <1>3, <1>4, <1>5, <1>6

(* What data.split returns, where its slices start.                        *)
Slices(n, size, N, off, c) ==
  /\ n \in Nat /\ size \in Nat /\ size >= 1 /\ Series(Seq(1 .. n), N, c)
  /\ \A m \in 1 .. N : off[m] \in Nat /\ off[m] < n
  /\ \A x \in 1 .. n : \E m \in 1 .. N : off[m] < x /\ x <= off[m] + size
  /\ \A m, l \in 1 .. N : m < l => off[m] + size <= off[l]
  /\ n % size = 0 => \A m \in 1 .. N : off[m] + size <= n
  /\ \A m \in 1 .. N : /\ Len(c[m]) = (IF size <= n - off[m] THEN size ELSE n - off[m])
                        /\ Len(c[m]) \in Nat /\ Len(c[m]) <= size
                        /\ \A i \in 1 .. Len(c[m]) : c[m][i] = off[m] + i /\ c[m][i] \in 1 .. n
  /\ N >= 1 => off[1] = 0 /\ n <= off[N] + size
  /\ \A m \in 1 .. N - 1 : off[m + 1] = off[m] + size
  /\ n >= 1 => N >= 1

(* A split into micro-batches of a fixed size, with their offsets.         *)
LEMMA SplitIs ==
  ASSUME NEW n, NEW size, NEW N, Sliced(n, size, N)
  PROVE  \E off : Slices(n, size, N, off, Split(n, size))
<1>0. n \in Nat /\ size \in Nat /\ size >= 1 /\ N = CeilDiv(n, size)
  BY DEF Sliced
<1>1. /\ N \in Nat
      /\ \A m \in 1 .. N : size * (m - 1) \in Nat /\ size * (m - 1) < n
      /\ \A x \in 1 .. n : \E m \in 1 .. N : size * (m - 1) < x /\ x <= size * (m - 1) + size
      /\ \A m, l \in 1 .. N : m < l => size * (m - 1) + size <= size * (l - 1)
      /\ n % size = 0 => \A m \in 1 .. N : size * (m - 1) + size <= n
      /\ n <= size * N
  BY SlicesAre
<1>2. PICK off : off = [m \in 1 .. N |-> size * (m - 1)]
  OBVIOUS
<1>3. /\ \A m \in 1 .. N : off[m] = size * (m - 1) /\ off[m] \in Nat /\ off[m] < n
      /\ \A x \in 1 .. n : \E m \in 1 .. N : off[m] < x /\ x <= off[m] + size
      /\ \A m, l \in 1 .. N : m < l => off[m] + size <= off[l]
      /\ n % size = 0 => \A m \in 1 .. N : off[m] + size <= n
  BY <1>1, <1>2
<1>4. PICK c, S : c = Split(n, size) /\ S = Seq(1 .. n)
  OBVIOUS
<1>5. PICK len : len = [m \in 1 .. N |-> IF size <= n - off[m] THEN size ELSE n - off[m]]
  OBVIOUS
<1>6. ASSUME NEW m \in 1 .. N
      PROVE  len[m] = (IF size <= n - off[m] THEN size ELSE n - off[m]) /\ len[m] \in Nat /\ len[m] <= size
  <2>1. off[m] \in Nat /\ off[m] < n
    BY <1>3
  <2>2. len[m] = IF size <= n - off[m] THEN size ELSE n - off[m]
    BY <1>5
  <2> QED BY <1>0, <2>1, <2>2
<1>7. \A m \in 1 .. N : Min({size, n - size * (m - 1)}) = len[m]
  <2> SUFFICES ASSUME NEW m \in 1 .. N PROVE Min({size, n - size * (m - 1)}) = len[m]
    OBVIOUS
  <2>1. n - size * (m - 1) = n - off[m] /\ n - off[m] \in Int /\ size \in Int
    BY <1>0, <1>3
  <2>2. Min({size, n - off[m]}) = IF size <= n - off[m] THEN size ELSE n - off[m]
    BY <2>1, MinIs
  <2> QED BY <1>6, <2>1, <2>2
<1>8. c = [m \in 1 .. N |-> [i \in 1 .. len[m] |-> off[m] + i]]
  BY <1>0, <1>3, <1>4, <1>7 DEF Split
<1>9. ASSUME NEW m \in 1 .. N
      PROVE  c[m] \in S /\ Len(c[m]) = len[m] /\ \A i \in 1 .. len[m] : c[m][i] = off[m] + i /\ c[m][i] \in 1 .. n
  <2>1. PICK d : d = c[m]
    OBVIOUS
  <2>2. d = [i \in 1 .. len[m] |-> off[m] + i]
    BY <1>8, <2>1
  <2>7. off[m] \in Nat /\ off[m] < n /\ len[m] \in Nat
        /\ len[m] = IF size <= n - off[m] THEN size ELSE n - off[m]
    BY <1>3, <1>6
  <2>3. \A i \in 1 .. len[m] : off[m] + i \in 1 .. n
    BY <1>0, <2>7
  <2>4. d \in [1 .. len[m] -> 1 .. n]
    BY <2>2, <2>3
  <2>6. d \in Seq(1 .. n) /\ Len(d) = len[m]
    BY <2>4, <2>7, SameSeq
  <2> QED BY <1>4, <2>1, <2>2, <2>3, <2>6
<1>10. Series(Seq(1 .. n), N, c)
  <2>1. c \in [1 .. N -> S]
    BY <1>8, <1>9
  <2> QED BY <1>1, <1>4, <2>1 DEF Series
<1>11. N >= 1 => off[1] = 0 /\ n <= off[N] + size
  <2> SUFFICES ASSUME N >= 1 PROVE off[1] = 0 /\ n <= off[N] + size
    OBVIOUS
  <2>1. off[1] = size * (1 - 1) /\ off[N] = size * (N - 1)
    BY <1>1, <1>3
  <2>2. size * (1 - 1) = 0 /\ size * (N - 1) + size = size * N
    BY <1>0, <1>1
  <2> QED BY <1>1, <2>1, <2>2
<1>12. ASSUME NEW m \in 1 .. N - 1 PROVE off[m + 1] = off[m] + size
  <2>1. m \in 1 .. N /\ m + 1 \in 1 .. N
    BY <1>1
  <2>2. off[m] = size * (m - 1) /\ off[m + 1] = size * ((m + 1) - 1)
    BY <1>3, <2>1
  <2>3. size * ((m + 1) - 1) = size * (m - 1) + size
    BY <1>0
  <2> QED BY <2>2, <2>3
<1>13. n >= 1 => N >= 1
  <2> SUFFICES ASSUME n >= 1, N = 0 PROVE FALSE
    BY <1>1
  <2>1. size * N = 0
    BY <1>0
  <2> QED BY <1>0, <1>1, <2>1
<1>14. \A m \in 1 .. N : /\ Len(c[m]) = (IF size <= n - off[m] THEN size ELSE n - off[m])
                         /\ Len(c[m]) \in Nat /\ Len(c[m]) <= size
                         /\ \A i \in 1 .. Len(c[m]) : c[m][i] = off[m] + i /\ c[m][i] \in 1 .. n
  BY <1>6, <1>9
<1>15. Slices(n, size, N, off, c)
  BY <1>0, <1>3, <1>10, <1>11, <1>12, <1>13, <1>14 DEF Slices
<1> QED BY <1>4, <1>15

(* data.split puts each row in one place, and when the size divides the    *)
(* batch every micro-batch has that many.                                  *)
LEMMA SplitDivides ==
  ASSUME NEW n, NEW size, NEW N, Sliced(n, size, N)
  PROVE  /\ Series(Seq(1 .. n), N, Split(n, size)) /\ Divides(Split(n, size), 1 .. n)
         /\ n % size = 0 => \A m \in 1 .. N : Len(Split(n, size)[m]) = size
<1>1. PICK c : c = Split(n, size)
  OBVIOUS
<1>2. PICK off : Slices(n, size, N, off, c)
  BY <1>1, SplitIs
<1>3. /\ n \in Nat /\ size \in Nat /\ size >= 1 /\ Series(Seq(1 .. n), N, c)
      /\ \A m \in 1 .. N : off[m] \in Nat /\ off[m] < n
      /\ \A x \in 1 .. n : \E m \in 1 .. N : off[m] < x /\ x <= off[m] + size
      /\ \A m, l \in 1 .. N : m < l => off[m] + size <= off[l]
      /\ n % size = 0 => \A m \in 1 .. N : off[m] + size <= n
      /\ \A m \in 1 .. N : /\ Len(c[m]) = (IF size <= n - off[m] THEN size ELSE n - off[m])
                            /\ Len(c[m]) \in Nat /\ Len(c[m]) <= size
                            /\ \A i \in 1 .. Len(c[m]) : c[m][i] = off[m] + i /\ c[m][i] \in 1 .. n
  BY <1>2 DEF Slices
<1>4. N \in Nat /\ Len(c) = N
  BY <1>3, SeriesIs
<1>5. ASSUME NEW x \in 1 .. n PROVE \E m \in 1 .. N : \E i \in 1 .. Len(c[m]) : c[m][i] = x
  <2>1. PICK m \in 1 .. N : off[m] < x /\ x <= off[m] + size
    BY <1>3
  <2>2. PICK i : i = x - off[m]
    OBVIOUS
  <2>3. off[m] \in Nat /\ Len(c[m]) = IF size <= n - off[m] THEN size ELSE n - off[m]
    BY <1>3
  <2>4. i \in 1 .. Len(c[m]) /\ off[m] + i = x
    <3>1. n \in Nat /\ size \in Nat
      BY <1>3
    <3>2. PICK a, l : a = off[m] /\ l = Len(c[m])
      OBVIOUS
    <3>3. a \in Nat /\ l = (IF size <= n - a THEN size ELSE n - a) /\ a < x /\ x <= a + size
      BY <2>1, <2>3, <3>2
    <3>4. x \in Int /\ x <= n /\ i = x - a
      BY <2>2, <3>2
    <3>5. i \in 1 .. l /\ a + i = x
      BY <3>1, <3>3, <3>4
    <3> QED BY <3>2, <3>5
  <2> QED BY <1>3, <2>4
<1>6. ASSUME NEW m \in 1 .. N, NEW l \in 1 .. N, NEW i \in 1 .. Len(c[m]), NEW j \in 1 .. Len(c[l]),
             c[m][i] = c[l][j]
      PROVE  m = l /\ i = j
  <2>1. off[m] + i = off[l] + j
    <3>1. \A h \in 1 .. N : \A x \in 1 .. Len(c[h]) : c[h][x] = off[h] + x
      BY <1>3
    <3>2. c[m][i] = off[m] + i /\ c[l][j] = off[l] + j
      BY <3>1
    <3> QED BY <1>6, <3>2
  <2>2. /\ Len(c[m]) \in Nat /\ Len(c[m]) <= size /\ Len(c[l]) \in Nat /\ Len(c[l]) <= size
        /\ off[m] \in Nat /\ off[l] \in Nat
    BY <1>3
  <2>3. i \in Nat /\ 1 <= i /\ i <= size /\ j \in Nat /\ 1 <= j /\ j <= size /\ size \in Nat
    BY <1>3, <2>2, SMTT(30)
  <2>4. ASSUME m < l PROVE FALSE
    <3>1. off[m] + size <= off[l]
      BY <1>3, <2>4
    <3> QED BY <2>1, <2>2, <2>3, <3>1
  <2>5. ASSUME l < m PROVE FALSE
    <3>1. off[l] + size <= off[m]
      BY <1>3, <2>5
    <3> QED BY <2>1, <2>2, <2>3, <3>1
  <2>6. m = l
    BY <1>4, <2>4, <2>5
  <2> QED BY <2>1, <2>2, <2>3, <2>6
<1>7. \A m \in 1 .. N : \A i \in 1 .. Len(c[m]) : c[m][i] \in 1 .. n
  BY <1>3
<1>8. Divides(c, 1 .. n)
  BY <1>4, <1>5, <1>6, <1>7 DEF Divides
<1>9. n % size = 0 => \A m \in 1 .. N : Len(c[m]) = size
  <2> SUFFICES ASSUME n % size = 0, NEW m \in 1 .. N PROVE Len(c[m]) = size
    OBVIOUS
  <2>1. off[m] + size <= n /\ off[m] \in Nat
    BY <1>3
  <2>2. size <= n - off[m]
    BY <1>3, <2>1
  <2> QED BY <1>3, <2>2
<1> QED BY <1>1, <1>3, <1>8, <1>9

(* The sum of what is at least 1 is at least 1.                            *)
LEMMA SumAtLeastOne ==
  ASSUME NEW n \in Nat, n >= 1, NEW lens \in [1 .. n -> Nat], \A i \in 1 .. n : lens[i] >= 1,
         NEW s, s = [i \in 1 .. n |-> i]
  PROVE  Sum(lens, s) \in Nat /\ Sum(lens, s) >= 1
<1>1. PICK D : D = 1 .. n
  OBVIOUS
<1>2. s \in Seq(D) /\ Len(s) = n
  <2>1. s \in [1 .. n -> D]
    BY <1>1
  <2> QED BY <2>1, SameSeq
<1>3. lens \in [D -> Nat] /\ lens \in [D -> Int]
  BY <1>1
<1>4. n \in 1 .. Len(s) /\ s[n] = n
  BY <1>2
<1>5. PICK t : t = But(s, n)
  OBVIOUS
<1>6. t \in Seq(D) /\ Sum(lens, s) = Sum(lens, t) + lens[s[n]]
  BY <1>2, <1>3, <1>4, <1>5, SumBut
<1>7. Sum(lens, t) \in Nat
  BY <1>3, <1>6, SumWithin
<1>8. lens[n] \in Nat /\ lens[n] >= 1
  OBVIOUS
<1> QED BY <1>4, <1>6, <1>7, <1>8

(* As many micro-batches as max_token_len asks for, at most one a row.     *)
LEMMA NumMicroBatchesIs ==
  ASSUME NEW n \in Nat, n >= 1, NEW lens \in [1 .. n -> Nat], \A i \in 1 .. n : lens[i] >= 1,
         NEW max_token_len \in Nat, max_token_len >= 1
  PROVE  NumMicroBatches(lens, max_token_len) \in 1 .. n
<1>1. PICK s, total : s = [i \in DOMAIN lens |-> i] /\ total = Sum(lens, s)
  OBVIOUS
<1>2. total \in Nat /\ total >= 1
  <2>1. s = [i \in 1 .. n |-> i]
    BY <1>1
  <2> QED BY <1>1, <2>1, SumAtLeastOne
<1>3. Len(lens) = n
  BY SameSeq
<1>4. PICK wanted : wanted = CeilDiv(total, max_token_len)
  OBVIOUS
<1>5. wanted \in Nat /\ wanted >= 1
  <2>1. PICK a : a = total + max_token_len - 1
    OBVIOUS
  <2>2. a \in Nat /\ a >= max_token_len
    BY <1>2, <2>1
  <2>3. PICK q : q = a \div max_token_len
    OBVIOUS
  <2>4. q \in Nat /\ a < max_token_len * q + max_token_len
    BY <2>2, <2>3, Division
  <2>5. q # 0
    BY <2>2, <2>4
  <2>6. wanted = q
    BY <1>4, <2>1, <2>3 DEF CeilDiv
  <2> QED BY <2>4, <2>5, <2>6
<1>6. NumMicroBatches(lens, max_token_len) = IF wanted < n THEN wanted ELSE n
  BY <1>1, <1>3, <1>4 DEF NumMicroBatches
<1> QED BY <1>5, <1>6

(* A mini-batch of n responses, each of at least one token.                *)
Updating(n, tokens, lens, use) ==
  /\ n \in Nat /\ n >= 1
  /\ tokens \in [1 .. n -> Nat] /\ \A i \in 1 .. n : tokens[i] >= 1
  /\ lens \in [1 .. n -> Nat] /\ \A i \in 1 .. n : lens[i] >= 1
  /\ use.use_dynamic_bsz \in BOOLEAN
  /\ use.max_token_len \in Nat /\ use.max_token_len >= 1
  /\ use.micro_batch_size \in Nat /\ use.micro_batch_size >= 1
  /\ ~use.use_dynamic_bsz => n % use.micro_batch_size = 0

(* Every row of a mini-batch is in a micro-batch, and the micro-batches of *)
(* a fixed size all have it.                                               *)
Cut(n, use, k, mbs) ==
  /\ Series(Seq(1 .. n), k, mbs) /\ Divides(mbs, 1 .. n)
  /\ ~use.use_dynamic_bsz => \A m \in 1 .. k : Len(mbs[m]) = use.micro_batch_size

(* The micro-batches of an update, of either kind, cut the mini-batch.     *)
LEMMA MicroBatchesCover ==
  ASSUME NEW n, NEW tokens, NEW lens, NEW use, Updating(n, tokens, lens, use)
  PROVE  \E k : Cut(n, use, k, MicroBatchesOf(lens, use))
<1>1. PICK mbs : mbs = MicroBatchesOf(lens, use)
  OBVIOUS
<1>2. Len(lens) = n /\ n \in Nat
  BY SameSeq DEF Updating
<1>3. CASE use.use_dynamic_bsz
  <2>1. PICK k : k = NumMicroBatches(lens, use.max_token_len)
    OBVIOUS
  <2>2. k \in 1 .. n
    BY <2>1, NumMicroBatchesIs DEF Updating
  <2>3. Dividing(lens, n, k)
    BY <2>2 DEF Updating, Dividing
  <2>4. Series(Seq(1 .. n), k, MicroBatches(lens, k)) /\ Divides(MicroBatches(lens, k), 1 .. n)
    BY <2>3, MicroBatchesDivide
  <2>5. mbs = MicroBatches(lens, k)
    BY <1>1, <1>3, <2>1 DEF MicroBatchesOf
  <2> QED BY <1>1, <1>3, <2>4, <2>5 DEF Cut
<1>4. CASE ~use.use_dynamic_bsz
  <2>1. PICK size, k : size = use.micro_batch_size /\ k = CeilDiv(n, size)
    OBVIOUS
  <2>2. Sliced(n, size, k) /\ n % size = 0
    BY <1>4, <2>1 DEF Updating, Sliced
  <2>3. /\ Series(Seq(1 .. n), k, Split(n, size)) /\ Divides(Split(n, size), 1 .. n)
        /\ \A m \in 1 .. k : Len(Split(n, size)[m]) = size
    BY <2>2, SplitDivides
  <2>4. mbs = Split(n, size)
    BY <1>1, <1>2, <1>4, <2>1 DEF MicroBatchesOf
  <2> QED BY <1>1, <2>1, <2>3, <2>4 DEF Cut
<1> QED BY <1>3, <1>4

Averages == {"seq-mean-token-sum", "seq-mean-token-mean"}

(* A mean over sequences counts all rows of a micro-batch.                 *)
LEMMA InLossIs ==
  ASSUME NEW n \in Nat, NEW tokens \in [1 .. n -> Nat], \A i \in 1 .. n : tokens[i] >= 1,
         NEW mb \in Seq(1 .. n), NEW mode \in Averages, NEW i \in 1 .. n
  PROVE  InLoss(mode, tokens, mb, i)
         = Fraction(1, IF mode = "seq-mean-token-sum" THEN Len(mb) ELSE tokens[i] * Len(mb))
<1>1. Len(mb) \in Nat /\ DOMAIN mb = 1 .. Len(mb) /\ \A m \in 1 .. Len(mb) : mb[m] \in 1 .. n
  BY LenProperties, ElementOfSeq
<1>2. \A m \in 1 .. Len(mb) : tokens[mb[m]] > 0
  BY <1>1
<1>3. {m \in DOMAIN mb : tokens[mb[m]] > 0} = 1 .. Len(mb)
  BY <1>1, <1>2
<1>4. Cardinality({m \in DOMAIN mb : tokens[mb[m]] > 0}) = Len(mb)
  <2>1. PICK l : l = Len(mb)
    OBVIOUS
  <2>2. l \in Nat
    BY <1>1, <2>1
  <2>3. Cardinality(1 .. l) = l
    BY <2>2, FS_Interval
  <2> QED BY <1>3, <2>1, <2>3
<1>5. CASE mode = "seq-mean-token-sum"
  BY <1>4, <1>5 DEF InLoss
<1>6. CASE mode = "seq-mean-token-mean"
  BY <1>4, <1>6 DEF InLoss
<1> QED BY <1>5, <1>6 DEF Averages

(* With a mean over the sequences, however a mini-batch is cut into        *)
(* micro-batches, a token weighs in the gradient what it would weigh if    *)
(* the mini-batch were not cut, times the share of a full mini-batch that  *)
(* there is; if the cuts are of one size, that size divides both.          *)
THEOREM MicroBatchesAreNeutral ==
  ASSUME NEW n, NEW tokens, NEW lens, NEW use, Updating(n, tokens, lens, use), NEW mode \in Averages,
         NEW mini \in Nat, mini >= 1, ~use.use_dynamic_bsz => mini % use.micro_batch_size = 0,
         NEW i \in 1 .. n
  PROVE  SameFraction(TokenWeights(mode, tokens, lens, mini, use)[i],
                      Times(Fraction(n, mini), InLoss(mode, tokens, [x \in DOMAIN tokens |-> x], i)))
<1>0. /\ n \in Nat /\ n >= 1 /\ tokens \in [1 .. n -> Nat] /\ \A x \in 1 .. n : tokens[x] >= 1
      /\ use.use_dynamic_bsz \in BOOLEAN
      /\ use.micro_batch_size \in Nat /\ use.micro_batch_size >= 1
      /\ ~use.use_dynamic_bsz => n % use.micro_batch_size = 0
  BY DEF Updating
<1>15. PICK mbs : mbs = MicroBatchesOf(lens, use)
  OBVIOUS
<1>16. PICK k : Cut(n, use, k, mbs)
  BY <1>15, MicroBatchesCover
<1>1. /\ mbs = MicroBatchesOf(lens, use) /\ Series(Seq(1 .. n), k, mbs) /\ Divides(mbs, 1 .. n)
      /\ ~use.use_dynamic_bsz => \A m \in 1 .. k : Len(mbs[m]) = use.micro_batch_size
  BY <1>15, <1>16 DEF Cut
<1>2. k \in Nat /\ Len(mbs) = k /\ DOMAIN mbs = 1 .. k /\ \A m \in 1 .. k : mbs[m] \in Seq(1 .. n)
  <2>1. PICK S : S = Seq(1 .. n)
    OBVIOUS
  <2>2. k \in Nat /\ Len(mbs) = k /\ DOMAIN mbs = 1 .. k /\ \A m \in 1 .. k : mbs[m] \in S
    BY <1>1, <2>1, SeriesIs
  <2> QED BY <2>1, <2>2
<1>3. PICK of : of = CHOOSE m \in DOMAIN mbs : Contains(mbs[m], i)
  OBVIOUS
<1>4. of \in 1 .. k
  <2>1. PICK m \in 1 .. k : \E j \in 1 .. Len(mbs[m]) : mbs[m][j] = i
    BY <1>1, <1>2 DEF Divides
  <2>2. PICK j \in 1 .. Len(mbs[m]) : mbs[m][j] = i
    BY <2>1
  <2>3. Contains(mbs[m], i)
    BY <2>2 DEF Contains
  <2> QED BY <1>2, <1>3, <2>3
<1>5. PICK mb, all : mb = mbs[of] /\ all = [x \in DOMAIN tokens |-> x]
  OBVIOUS
<1>6. mb \in Seq(1 .. n) /\ Len(mb) \in Nat
  <2>1. mb \in Seq(1 .. n)
    BY <1>2, <1>4, <1>5
  <2> QED BY <2>1, LenProperties
<1>7. all \in Seq(1 .. n) /\ Len(all) = n /\ Len(tokens) = n /\ DOMAIN tokens = 1 .. n
  <2>1. all \in [1 .. n -> 1 .. n]
    BY <1>0, <1>5
  <2> QED BY <1>0, <2>1, SameSeq
<1>8. PICK r, t, w, w0 : /\ r = Len(mb) /\ t = tokens[i]
                         /\ w = (IF mode = "seq-mean-token-sum" THEN r ELSE t * r)
                         /\ w0 = (IF mode = "seq-mean-token-sum" THEN n ELSE t * n)
  OBVIOUS
<1>17. ASSUME NEW s \in Seq(1 .. n)
       PROVE  InLoss(mode, tokens, s, i)
              = Fraction(1, IF mode = "seq-mean-token-sum" THEN Len(s) ELSE t * Len(s))
  BY <1>0, <1>8, InLossIs
<1>9. InLoss(mode, tokens, mb, i) = Fraction(1, w)
  BY <1>6, <1>8, <1>17
<1>10. InLoss(mode, tokens, all, i) = Fraction(1, w0)
  <2>1. InLoss(mode, tokens, all, i)
        = Fraction(1, IF mode = "seq-mean-token-sum" THEN Len(all) ELSE t * Len(all))
    BY <1>7, <1>17
  <2>2. Len(all) = n
    BY <1>7
  <2> QED BY <1>8, <2>1, <2>2
<1>11. TokenWeights(mode, tokens, lens, mini, use)[i] = Times(LossScaleFactor(mini, mb, use), Fraction(1, w))
  <2>1. TokenWeights(mode, tokens, lens, mini, use)[i]
        = Times(LossScaleFactor(mini, mbs[of], use), InLoss(mode, tokens, mbs[of], i))
    BY <1>1, <1>3, <1>7 DEF TokenWeights
  <2> QED BY <1>5, <1>9, <2>1
<1>18. Times(Fraction(n, mini), InLoss(mode, tokens, all, i)) = Fraction(n * 1, mini * w0)
  BY <1>10 DEF Times, Fraction
<1>12. r \in Nat /\ t \in Nat
  BY <1>0, <1>6, <1>8
<1>13. CASE use.use_dynamic_bsz
  <2>1. LossScaleFactor(mini, mb, use) = Fraction(r, mini)
    BY <1>8, <1>13 DEF LossScaleFactor
  <2>2. Times(Fraction(r, mini), Fraction(1, w)) = Fraction(r * 1, mini * w)
    BY DEF Times, Fraction
  <2>3. (r * 1) * (mini * w0) = (n * 1) * (mini * w)
    <3>1. CASE mode = "seq-mean-token-sum"
      <4>1. (r * 1) * (mini * n) = (n * 1) * (mini * r)
        BY <1>0, <1>12
      <4> QED BY <1>8, <3>1, <4>1
    <3>2. CASE mode # "seq-mean-token-sum"
      <4>1. (r * 1) * (mini * (t * n)) = (n * 1) * (mini * (t * r))
        BY <1>0, <1>12
      <4> QED BY <1>8, <3>2, <4>1
    <3> QED BY <3>1, <3>2
  <2>4. SameFraction(Fraction(r * 1, mini * w), Fraction(n * 1, mini * w0))
    BY <2>3 DEF SameFraction, Fraction
  <2> QED BY <1>5, <1>11, <1>18, <2>1, <2>2, <2>4
<1>14. CASE ~use.use_dynamic_bsz
  <2>1. PICK size, q : size = use.micro_batch_size /\ q = mini \div size
    OBVIOUS
  <2>2. q \in Nat /\ q * size = mini /\ size \in Nat
    BY <1>0, <1>14, <2>1, Division
  <2>3. r = size
    BY <1>1, <1>4, <1>5, <1>8, <1>14, <2>1
  <2>4. LossScaleFactor(mini, mb, use) = Fraction(1, q)
    BY <1>14, <2>1 DEF LossScaleFactor
  <2>5. Times(Fraction(1, q), Fraction(1, w)) = Fraction(1 * 1, q * w)
    BY DEF Times, Fraction
  <2>6. (1 * 1) * (mini * w0) = (n * 1) * (q * w)
    <3>1. CASE mode = "seq-mean-token-sum"
      <4>1. (1 * 1) * ((q * r) * n) = (n * 1) * (q * r)
        BY <1>0, <1>12, <2>2
      <4> QED BY <1>8, <2>2, <2>3, <3>1, <4>1
    <3>2. CASE mode # "seq-mean-token-sum"
      <4>1. (1 * 1) * ((q * r) * (t * n)) = (n * 1) * (q * (t * r))
        BY <1>0, <1>12, <2>2
      <4>2. w0 = t * n /\ mini = q * r /\ w = t * r
        BY <1>8, <2>2, <2>3, <3>2
      <4> QED BY <4>1, <4>2
    <3> QED BY <3>1, <3>2
  <2>7. SameFraction(Fraction(1 * 1, q * w), Fraction(n * 1, mini * w0))
    BY <2>6 DEF SameFraction, Fraction
  <2> QED BY <1>5, <1>11, <1>18, <2>4, <2>5, <2>7
<1> QED BY <1>0, <1>13, <1>14

-----------------------------------------------------------------------------
(* A call: padding, chunks, ranks, micro-batches, and back.                *)

(* Where the elements of a flattened sequence come from.                   *)
Flat(S, k, parts, off, flat) ==
  /\ Series(Seq(S), k, parts) /\ Offsets(off, parts) /\ Series(S, off[k], flat)
  /\ \A i \in 1 .. k : \A j \in 1 .. Len(parts[i]) :
       off[i - 1] + j \in 1 .. off[k] /\ flat[off[i - 1] + j] = parts[i][j]
  /\ \A t \in 1 .. off[k] : \E i \in 1 .. k : \E j \in 1 .. Len(parts[i]) : t = off[i - 1] + j

(* A flattened sequence, with given offsets.                               *)
LEMMA FlatWith ==
  ASSUME NEW S, NEW k, NEW parts, Series(Seq(S), k, parts), NEW off, Offsets(off, parts)
  PROVE  Flat(S, k, parts, off, FlattenSeq(parts))
<1>0. PICK T : T = Seq(S)
  OBVIOUS
<1>1. k \in Nat /\ parts \in Seq(T) /\ Len(parts) = k /\ \A i \in 1 .. k : parts[i] \in T
  BY <1>0, SeriesIs
<1>2. parts \in Seq(Seq(S)) /\ \A i \in 1 .. k : parts[i] \in Seq(S) /\ Len(parts[i]) \in Nat
  BY <1>0, <1>1, LenProperties
<1>3. PICK flat : flat = FlattenSeq(parts)
  OBVIOUS
<1>4. /\ flat \in Seq(S) /\ Len(flat) = off[k]
      /\ \A i \in 1 .. k : \A j \in 1 .. Len(parts[i]) : flat[off[i - 1] + j] = parts[i][j]
  <2>1. /\ FlattenSeq(parts) \in Seq(S)
        /\ Len(FlattenSeq(parts)) = off[Len(parts)]
        /\ \A i \in 1 .. Len(parts) : \A j \in 1 .. Len(parts[i]) :
             FlattenSeq(parts)[off[i - 1] + j] = parts[i][j]
    BY <1>2, FlattenParts
  <2> QED BY <1>1, <1>3, <2>1
<1>5. Series(S, off[k], flat)
  BY <1>4, SeqIsSeries
<1>6. /\ \A i \in 0 .. k : off[i] \in Nat /\ off[i] <= off[k]
      /\ \A i \in 1 .. k : off[i] = off[i - 1] + Len(parts[i])
  <2>1. \A i \in 0 .. k : off[i] \in Nat
    BY <1>1 DEF Offsets
  <2>2. k \in 0 .. k /\ \A l \in 0 .. k : \A i \in 0 .. l : off[i] <= off[l]
    BY <1>1, <1>2, OffsetsIncrease
  <2>3. \A i \in 1 .. k : off[i] = off[i - 1] + Len(parts[i])
    BY <1>1 DEF Offsets
  <2> QED BY <2>1, <2>2, <2>3
<1>7. ASSUME NEW i \in 1 .. k, NEW j \in 1 .. Len(parts[i]) PROVE off[i - 1] + j \in 1 .. off[k]
  <2>1. i - 1 \in 0 .. k /\ i \in 0 .. k
    BY <1>1
  <2>2. off[i - 1] \in Nat /\ off[i] = off[i - 1] + Len(parts[i]) /\ off[i] <= off[k] /\ off[k] \in Nat
    <3>1. k \in 0 .. k
      BY <1>1
    <3> QED BY <1>6, <2>1, <3>1
  <2>3. Len(parts[i]) \in Nat
    BY <1>2
  <2> QED BY <2>2, <2>3
<1>8. ASSUME NEW t \in 1 .. off[k]
      PROVE  \E i \in 1 .. k : \E j \in 1 .. Len(parts[i]) : t = off[i - 1] + j
  <2>1. PICK i \in 1 .. k : t - off[i - 1] \in 1 .. Len(parts[i])
    BY <1>1, <1>2, OffsetsCover
  <2>2. PICK j : j = t - off[i - 1]
    OBVIOUS
  <2>3. off[i - 1] \in Nat /\ t \in Int
    <3>1. i - 1 \in 0 .. k /\ k \in 0 .. k
      BY <1>1
    <3> QED BY <1>6, <3>1
  <2>4. j \in 1 .. Len(parts[i]) /\ t = off[i - 1] + j
    BY <2>1, <2>2, <2>3
  <2> QED BY <2>4
<1> QED BY <1>3, <1>4, <1>5, <1>7, <1>8 DEF Flat

(* Every sequence of sequences has its flattened form.                     *)
LEMMA FlatExists ==
  ASSUME NEW S, NEW k, NEW parts, Series(Seq(S), k, parts)
  PROVE  \E off : Flat(S, k, parts, off, FlattenSeq(parts))
<1>0. PICK T : T = Seq(S)
  OBVIOUS
<1>1. parts \in Seq(T)
  BY <1>0, SeriesIs
<1>2. parts \in Seq(Seq(S))
  BY <1>0, <1>1
<1>3. PICK off : Offsets(off, parts)
  BY <1>2, OffsetsExist
<1> QED BY <1>3, FlatWith

(* A division of the indices, flattened, is an order of them.              *)
Splits(n, k, parts) == n \in Nat /\ Series(Seq(1 .. n), k, parts) /\ Divides(parts, 1 .. n)

(* A division of 1 .. n, flattened, is a reordering of it.                 *)
LEMMA FlattenReorders ==
  ASSUME NEW n, NEW k, NEW parts, Splits(n, k, parts)
  PROVE  FlattenSeq(parts) \in Bijection(1 .. n, 1 .. n)
<1>0. n \in Nat
  BY DEF Splits
<1>1. PICK D, flat : D = 1 .. n /\ flat = FlattenSeq(parts)
  OBVIOUS
<1>2. PICK off : Flat(D, k, parts, off, flat)
  BY <1>1, FlatExists DEF Splits
<1>3. PICK m : m = off[k]
  OBVIOUS
<1>4. /\ Series(D, m, flat)
      /\ \A i \in 1 .. k : \A j \in 1 .. Len(parts[i]) :
           off[i - 1] + j \in 1 .. m /\ flat[off[i - 1] + j] = parts[i][j]
      /\ \A t \in 1 .. m : \E i \in 1 .. k : \E j \in 1 .. Len(parts[i]) : t = off[i - 1] + j
  BY <1>2, <1>3 DEF Flat
<1>5. Len(parts) = k
  BY SeriesIs DEF Splits
<1>6. m \in Nat /\ flat \in [1 .. m -> D]
  BY <1>4 DEF Series
<1>7. /\ \A x \in D : \E p \in 1 .. k : \E j \in 1 .. Len(parts[p]) : parts[p][j] = x
      /\ \A p, q \in 1 .. k : \A j \in 1 .. Len(parts[p]), l \in 1 .. Len(parts[q]) :
           parts[p][j] = parts[q][l] => p = q /\ j = l
  BY <1>1, <1>5 DEF Splits, Divides
<1>8. ASSUME NEW t \in 1 .. m, NEW u \in 1 .. m, flat[t] = flat[u] PROVE t = u
  <2>1. PICK i \in 1 .. k : \E j \in 1 .. Len(parts[i]) : t = off[i - 1] + j
    BY <1>4
  <2>2. PICK j \in 1 .. Len(parts[i]) : t = off[i - 1] + j
    BY <2>1
  <2>3. PICK p \in 1 .. k : \E l \in 1 .. Len(parts[p]) : u = off[p - 1] + l
    BY <1>4
  <2>4. PICK l \in 1 .. Len(parts[p]) : u = off[p - 1] + l
    BY <2>3
  <2>5. flat[t] = parts[i][j] /\ flat[u] = parts[p][l]
    BY <1>4, <2>2, <2>4
  <2>7. parts[i][j] = parts[p][l]
    BY <1>8, <2>5
  <2>6. i = p /\ j = l
    BY <1>7, <2>7
  <2> QED BY <2>2, <2>4, <2>6
<1>9. ASSUME NEW x \in D PROVE \E t \in 1 .. m : flat[t] = x
  <2>1. PICK i \in 1 .. k : \E j \in 1 .. Len(parts[i]) : parts[i][j] = x
    BY <1>7
  <2>2. PICK j \in 1 .. Len(parts[i]) : parts[i][j] = x
    BY <2>1
  <2> QED BY <1>4, <2>2
<1>10. m = n
  <2>1. flat \in Bijection(1 .. m, D)
    BY <1>6, <1>8, <1>9, Fun_IsBij
  <2>2. IsFiniteSet(1 .. m) /\ Cardinality(1 .. m) = m /\ Cardinality(D) = n
    BY <1>0, <1>1, <1>6, FS_Interval
  <2>3. Cardinality(D) = Cardinality(1 .. m)
    <3>1. ExistsBijection(1 .. m, D)
      BY <2>1 DEF ExistsBijection
    <3> QED BY <2>2, <3>1, FS_Bijection
  <2> QED BY <2>2, <2>3
<1>11. /\ flat \in [1 .. n -> 1 .. n]
       /\ \A t, u \in 1 .. n : flat[t] = flat[u] => t = u
       /\ \A x \in 1 .. n : \E t \in 1 .. n : flat[t] = x
  BY <1>1, <1>6, <1>8, <1>9, <1>10
<1> QED BY <1>0, <1>1, <1>11, IsReordering

(* Answers by micro-batch, flattened: those of the flattened indices.      *)
AnswersTo(ids, parts) == [m \in DOMAIN parts |-> [i \in DOMAIN parts[m] |-> ids[parts[m][i]]]]

Numbered(n, k, parts, ids) == Splits(n, k, parts) /\ ids = [i \in 1 .. n |-> ids[i]]

(* Answers by micro-batch, flattened, are answers by flattened index.      *)
LEMMA FlattenAnswers ==
  ASSUME NEW n, NEW k, NEW parts, NEW ids, Numbered(n, k, parts, ids)
  PROVE  FlattenSeq(AnswersTo(ids, parts)) = [t \in 1 .. n |-> ids[FlattenSeq(parts)[t]]]
<1>14. Splits(n, k, parts) /\ ids = [i \in 1 .. n |-> ids[i]]
  BY DEF Numbered
<1>0. n \in Nat
  BY <1>14 DEF Splits
<1>1. PICK D, flat, A, answers, all, T : /\ D = 1 .. n /\ flat = FlattenSeq(parts) /\ A = {ids[x] : x \in D}
                                         /\ answers = AnswersTo(ids, parts) /\ all = FlattenSeq(answers)
                                         /\ T = Seq(D)
  OBVIOUS
<1>2. /\ k \in Nat /\ Series(Seq(D), k, parts) /\ DOMAIN parts = 1 .. k /\ Len(parts) = k
      /\ \A m \in 1 .. k : parts[m] \in Seq(D)
  <2>1. Series(T, k, parts)
    BY <1>1, <1>14 DEF Splits
  <2>2. k \in Nat /\ DOMAIN parts = 1 .. k /\ Len(parts) = k /\ \A m \in 1 .. k : parts[m] \in T
    BY <2>1, SeriesIs
  <2> QED BY <1>1, <2>1, <2>2
<1>3. PICK off : Flat(D, k, parts, off, flat)
  BY <1>1, <1>2, FlatExists
<1>4. answers = [m \in 1 .. k |-> [i \in DOMAIN parts[m] |-> ids[parts[m][i]]]]
  BY <1>1, <1>2 DEF AnswersTo
<1>5. ASSUME NEW m \in 1 .. k
      PROVE  /\ answers[m] \in Seq(A) /\ Len(answers[m]) = Len(parts[m])
             /\ \A i \in 1 .. Len(parts[m]) : answers[m][i] = ids[parts[m][i]]
  <2>1. PICK p, a, l : p = parts[m] /\ a = answers[m] /\ l = Len(p)
    OBVIOUS
  <2>2. l \in Nat /\ DOMAIN p = 1 .. l /\ \A i \in 1 .. l : p[i] \in D
    BY <1>2, <2>1, LenProperties, ElementOfSeq
  <2>3. a = [i \in 1 .. l |-> ids[p[i]]]
    BY <1>4, <2>1, <2>2
  <2>4. a \in [1 .. l -> A]
    BY <1>1, <2>2, <2>3
  <2>5. a \in Seq(A) /\ Len(a) = l
    BY <2>2, <2>4, SameSeq
  <2> QED BY <2>1, <2>3, <2>5
<1>6. Series(Seq(A), k, answers)
  <2>1. PICK U : U = Seq(A)
    OBVIOUS
  <2>2. answers \in [1 .. k -> U]
    BY <1>4, <1>5, <2>1
  <2> QED BY <1>2, <2>1, <2>2 DEF Series
<1>7. Len(answers) = k
  BY <1>6, SeriesIs
<1>8. Offsets(off, answers)
  <2>1. Offsets(off, parts)
    BY <1>3 DEF Flat
  <2> QED BY <1>2, <1>5, <1>7, <2>1 DEF Offsets
<1>9. Flat(A, k, answers, off, all)
  BY <1>1, <1>6, <1>8, FlatWith
<1>10. off[k] = n
  <2>1. flat \in [1 .. off[k] -> D] /\ off[k] \in Nat
    BY <1>3 DEF Flat, Series
  <2>2. flat \in Bijection(1 .. n, 1 .. n)
    BY <1>1, <1>14, FlattenReorders
  <2>3. flat \in [1 .. n -> 1 .. n]
    BY <1>0, <2>2, Reordering
  <2>4. 1 .. off[k] = 1 .. n
    <3>1. DOMAIN flat = 1 .. off[k] /\ DOMAIN flat = 1 .. n
      BY <2>1, <2>3
    <3> QED BY <3>1
  <2>5. Cardinality(1 .. n) = n /\ Cardinality(1 .. off[k]) = off[k]
    <3>1. PICK m : m = off[k]
      OBVIOUS
    <3>2. m \in Nat
      BY <2>1, <3>1
    <3>3. Cardinality(1 .. n) = n /\ Cardinality(1 .. m) = m
      BY <1>0, <3>2, FS_Interval
    <3> QED BY <3>1, <3>3
  <2> QED BY <2>4, <2>5
<1>11. ASSUME NEW t \in 1 .. n PROVE all[t] = ids[flat[t]]
  <2>1. /\ \A i \in 1 .. k : \A j \in 1 .. Len(parts[i]) : flat[off[i - 1] + j] = parts[i][j]
        /\ \A u \in 1 .. n : \E i \in 1 .. k : \E j \in 1 .. Len(parts[i]) : u = off[i - 1] + j
    BY <1>3, <1>10 DEF Flat
  <2>2. \A i \in 1 .. k : \A j \in 1 .. Len(answers[i]) : all[off[i - 1] + j] = answers[i][j]
    BY <1>9 DEF Flat
  <2>3. PICK i \in 1 .. k : \E j \in 1 .. Len(parts[i]) : t = off[i - 1] + j
    BY <2>1
  <2>4. PICK j \in 1 .. Len(parts[i]) : t = off[i - 1] + j
    BY <2>3
  <2>5. j \in 1 .. Len(answers[i]) /\ answers[i][j] = ids[parts[i][j]]
    BY <1>5
  <2> QED BY <2>1, <2>2, <2>4, <2>5
<1>12. all \in [1 .. n -> A]
  BY <1>9, <1>10 DEF Flat, Series
<1>13. all = [t \in 1 .. n |-> ids[flat[t]]]
  BY <1>11, <1>12
<1> QED BY <1>1, <1>13

(* Consecutive slices of a sequence.                                       *)
InOrder(S, n, s, k, parts, off) ==
  /\ Series(S, n, s) /\ Series(Seq(S), k, parts) /\ Offsets(off, parts) /\ off[k] = n
  /\ \A i \in 1 .. k : \A j \in 1 .. Len(parts[i]) : parts[i][j] = s[off[i - 1] + j]

(* Parts that are consecutive pieces of s flatten to s.                    *)
LEMMA FlattenInOrder ==
  ASSUME NEW S, NEW n, NEW s, NEW k, NEW parts, NEW off, InOrder(S, n, s, k, parts, off)
  PROVE  FlattenSeq(parts) = s
<1>1. PICK flat : flat = FlattenSeq(parts)
  OBVIOUS
<1>2. Series(S, n, s) /\ Series(Seq(S), k, parts) /\ Offsets(off, parts) /\ off[k] = n
  BY DEF InOrder
<1>3. Flat(S, k, parts, off, flat)
  BY <1>1, <1>2, FlatWith
<1>4. /\ Series(S, n, flat)
      /\ \A i \in 1 .. k : \A j \in 1 .. Len(parts[i]) : flat[off[i - 1] + j] = parts[i][j]
      /\ \A t \in 1 .. n : \E i \in 1 .. k : \E j \in 1 .. Len(parts[i]) : t = off[i - 1] + j
  BY <1>2, <1>3 DEF Flat
<1>5. ASSUME NEW t \in 1 .. n PROVE flat[t] = s[t]
  <2>1. PICK i \in 1 .. k : \E j \in 1 .. Len(parts[i]) : t = off[i - 1] + j
    BY <1>4
  <2>2. PICK j \in 1 .. Len(parts[i]) : t = off[i - 1] + j
    BY <2>1
  <2>3. parts[i][j] = s[off[i - 1] + j]
    BY DEF InOrder
  <2> QED BY <1>4, <2>2, <2>3
<1>6. flat \in [1 .. n -> S] /\ s \in [1 .. n -> S]
  BY <1>2, <1>4 DEF Series
<1>7. flat = s
  <2>1. flat = [t \in 1 .. n |-> flat[t]] /\ s = [t \in 1 .. n |-> s[t]]
    BY <1>6
  <2> QED BY <1>5, <2>1
<1> QED BY <1>1, <1>7

(* Micro-batches of a fixed size keep the order.                           *)
LEMMA SplitFlattens ==
  ASSUME NEW n, NEW size, NEW N, Sliced(n, size, N), n >= 1
  PROVE  FlattenSeq(Split(n, size)) = [t \in 1 .. n |-> t]
<1>1. PICK c, s, D : c = Split(n, size) /\ s = [t \in 1 .. n |-> t] /\ D = 1 .. n
  OBVIOUS
<1>2. PICK st : Slices(n, size, N, st, c)
  BY <1>1, SplitIs
<1>3. /\ n \in Nat /\ size \in Nat /\ size >= 1 /\ Series(Seq(D), N, c)
      /\ \A m \in 1 .. N : st[m] \in Nat /\ st[m] < n
      /\ \A m \in 1 .. N : /\ Len(c[m]) = (IF size <= n - st[m] THEN size ELSE n - st[m])
                            /\ \A i \in 1 .. Len(c[m]) : c[m][i] = st[m] + i /\ c[m][i] \in 1 .. n
      /\ st[1] = 0 /\ n <= st[N] + size
      /\ \A m \in 1 .. N - 1 : st[m + 1] = st[m] + size
      /\ N >= 1
  BY <1>1, <1>2 DEF Slices
<1>4. N \in Nat /\ Len(c) = N
  BY <1>3, SeriesIs
<1>5. PICK off : off = [m \in 0 .. N |-> IF m = N THEN n ELSE st[m + 1]]
  OBVIOUS
<1>6. /\ off \in [0 .. N -> Nat] /\ off[0] = 0 /\ off[N] = n
      /\ \A m \in 1 .. N : off[m - 1] = st[m]
  <2>1. \A m \in 0 .. N : m # N => m + 1 \in 1 .. N
    BY <1>4
  <2>2. \A m \in 0 .. N : off[m] = IF m = N THEN n ELSE st[m + 1]
    BY <1>5
  <2>3. \A m \in 0 .. N : off[m] \in Nat
    BY <1>3, <2>1, <2>2
  <2>4. ASSUME NEW m \in 1 .. N PROVE off[m - 1] = st[m]
    <3>1. m - 1 \in 0 .. N /\ m - 1 # N /\ (m - 1) + 1 = m
      BY <1>4
    <3> QED BY <2>2, <3>1
  <2>5. 0 \in 0 .. N /\ N \in 0 .. N /\ 0 # N /\ 0 + 1 = 1
    BY <1>3, <1>4
  <2> QED BY <1>3, <1>5, <2>2, <2>3, <2>4, <2>5
<1>7. ASSUME NEW m \in 1 .. N PROVE off[m] = off[m - 1] + Len(c[m])
  <2>1. st[m] \in Nat /\ st[m] < n /\ Len(c[m]) = (IF size <= n - st[m] THEN size ELSE n - st[m])
    BY <1>3
  <2>2. n \in Nat /\ size \in Nat
    BY <1>3
  <2>3. CASE m = N
    <3>1. n <= st[m] + size
      BY <1>3, <2>3
    <3>2. Len(c[m]) = n - st[m]
      BY <2>1, <2>2, <3>1
    <3> QED BY <1>6, <2>1, <2>2, <2>3, <3>2
  <2>4. CASE m # N
    <3>1. m \in 1 .. N - 1 /\ m + 1 \in 1 .. N /\ m \in 0 .. N
      BY <1>4, <2>4
    <3>2. st[m + 1] = st[m] + size /\ st[m + 1] < n
      BY <1>3, <3>1
    <3>3. Len(c[m]) = size
      BY <2>1, <2>2, <3>2
    <3>4. off[m] = st[m + 1]
      BY <1>5, <2>4, <3>1
    <3> QED BY <1>6, <3>2, <3>3, <3>4
  <2> QED BY <2>3, <2>4
<1>8. Offsets(off, c)
  BY <1>4, <1>6, <1>7 DEF Offsets
<1>9. ASSUME NEW m \in 1 .. N, NEW i \in 1 .. Len(c[m]) PROVE c[m][i] = s[off[m - 1] + i]
  <2>1. c[m][i] = st[m] + i /\ c[m][i] \in 1 .. n
    BY <1>3
  <2>2. off[m - 1] = st[m]
    BY <1>6
  <2>3. PICK t : t = st[m] + i
    OBVIOUS
  <2>4. s[t] = t
    BY <1>1, <2>1, <2>3
  <2> QED BY <2>1, <2>2, <2>3, <2>4
<1>10. Series(D, n, s)
  BY <1>1, <1>3 DEF Series
<1>11. InOrder(D, n, s, N, c, off)
  BY <1>3, <1>6, <1>8, <1>9, <1>10 DEF InOrder
<1> QED BY <1>1, <1>11, FlattenInOrder

(* restore_dynamic_batch undoes the order of the micro-batches.            *)
LEMMA RestoresOrder ==
  ASSUME NEW n, NEW k, NEW parts, NEW ids, Numbered(n, k, parts, ids)
  PROVE  Restore(FlattenSeq(AnswersTo(ids, parts)), parts) = ids
<1>0. Splits(n, k, parts) /\ n \in Nat
  BY DEF Numbered, Splits
<1>1. PICK flat, answers, reverse : /\ flat = FlattenSeq(parts) /\ answers = FlattenSeq(AnswersTo(ids, parts))
                                    /\ reverse = ReverseIdx(flat)
  OBVIOUS
<1>2. flat \in Bijection(1 .. n, 1 .. n)
  BY <1>0, <1>1, FlattenReorders
<1>3. /\ flat \in [1 .. n -> 1 .. n]
      /\ \A i, j \in 1 .. n : flat[i] = flat[j] => i = j
      /\ \A i \in 1 .. n : \E r \in 1 .. n : flat[r] = i
  BY <1>0, <1>2, Reordering
<1>5. answers = [t \in 1 .. n |-> ids[flat[t]]]
  <2>1. FlattenSeq(AnswersTo(ids, parts)) = [t \in 1 .. n |-> ids[FlattenSeq(parts)[t]]]
    BY FlattenAnswers
  <2> QED BY <1>1, <2>1
<1>6. reverse = [j \in 1 .. n |-> CHOOSE i \in 1 .. n : flat[i] = j]
  <2>1. DOMAIN flat = 1 .. n
    BY <1>3
  <2> QED BY <1>1, <2>1 DEF ReverseIdx
<1>7. \A j \in 1 .. n : reverse[j] \in 1 .. n /\ flat[reverse[j]] = j
  BY <1>3, <1>6
<1>8. \A j \in 1 .. n : answers[reverse[j]] = ids[j]
  BY <1>5, <1>7
<1>9. Restore(answers, parts) = [j \in 1 .. n |-> answers[reverse[j]]]
  <2>1. DOMAIN answers = 1 .. n
    BY <1>5
  <2> QED BY <1>1, <2>1 DEF Restore
<1>10. Restore(answers, parts) = [j \in 1 .. n |-> ids[j]]
  BY <1>8, <1>9
<1>11. ids = [j \in 1 .. n |-> ids[j]]
  BY DEF Numbered
<1> QED BY <1>1, <1>10, <1>11

(* The rows of a rank, and in how many micro-batches it takes them.        *)
Rows(I) == [id : I, len : Nat \ {0}]

Computing(I, n, rows, number, use) ==
  /\ n >= 1 /\ Series(Rows(I), n, rows) /\ number \in 1 .. n
  /\ use.use_dynamic_bsz \in BOOLEAN
  /\ use.micro_batch_size \in Nat /\ use.micro_batch_size >= 1

(* The identities and the lengths of rows.                                 *)
LEMMA RowsAre ==
  ASSUME NEW I, NEW n, NEW rows, Series(Rows(I), n, rows)
  PROVE  /\ n \in Nat /\ Len(rows) = n /\ DOMAIN rows = 1 .. n
         /\ Ids(rows) = [i \in 1 .. n |-> rows[i].id] /\ Ids(rows) \in [1 .. n -> I]
         /\ Lens(rows) \in [1 .. n -> Nat] /\ \A i \in 1 .. n : Lens(rows)[i] >= 1
<1>1. PICK R, ids, lens : R = Rows(I) /\ ids = Ids(rows) /\ lens = Lens(rows)
  OBVIOUS
<1>2. n \in Nat /\ Len(rows) = n /\ DOMAIN rows = 1 .. n /\ \A i \in 1 .. n : rows[i] \in R
  BY <1>1, SeriesIs
<1>3. \A r \in R : r.id \in I /\ r.len \in Nat /\ r.len >= 1
  BY <1>1 DEF Rows
<1>4. ids = [i \in 1 .. n |-> rows[i].id] /\ lens = [i \in 1 .. n |-> rows[i].len]
  BY <1>1, <1>2 DEF Ids, Lens
<1>5. \A i \in 1 .. n : rows[i].id \in I /\ rows[i].len \in Nat /\ rows[i].len >= 1
  BY <1>2, <1>3
<1> QED BY <1>1, <1>2, <1>4, <1>5

(* Whatever its micro-batches, a rank answers its rows in their order.     *)
LEMMA RankAnswers ==
  ASSUME NEW I, NEW n, NEW rows, NEW number, NEW use, Computing(I, n, rows, number, use)
  PROVE  ComputeLogProb(rows, number, use) = Ids(rows)
<1>1. PICK ids, b, size : ids = Ids(rows) /\ b = Batching(rows, number, use) /\ size = use.micro_batch_size
  OBVIOUS
<1>2. /\ n \in Nat /\ n >= 1 /\ Len(rows) = n /\ DOMAIN rows = 1 .. n /\ number \in 1 .. n
      /\ ids = [i \in 1 .. n |-> rows[i].id]
      /\ Lens(rows) \in [1 .. n -> Nat]
      /\ use.use_dynamic_bsz \in BOOLEAN /\ size \in Nat /\ size >= 1
  BY <1>1, RowsAre DEF Computing
<1>3. PICK k : Splits(n, k, b) /\ (~use.use_dynamic_bsz => FlattenSeq(b) = [t \in 1 .. n |-> t])
  <2>1. CASE use.use_dynamic_bsz
    <3>1. b = MicroBatches(Lens(rows), number)
      BY <1>1, <2>1 DEF Batching
    <3>2. Dividing(Lens(rows), n, number)
      BY <1>2 DEF Dividing
    <3>3. /\ Series(Seq(1 .. n), number, MicroBatches(Lens(rows), number))
          /\ Divides(MicroBatches(Lens(rows), number), 1 .. n)
      BY <3>2, MicroBatchesDivide
    <3>4. Splits(n, number, b)
      BY <1>2, <3>1, <3>3 DEF Splits
    <3> QED BY <2>1, <3>4
  <2>2. CASE ~use.use_dynamic_bsz
    <3>1. b = Split(n, size)
      BY <1>1, <1>2, <2>2 DEF Batching
    <3>2. PICK N : N = CeilDiv(n, size)
      OBVIOUS
    <3>3. Sliced(n, size, N)
      BY <1>2, <3>2 DEF Sliced
    <3>4. Series(Seq(1 .. n), N, Split(n, size)) /\ Divides(Split(n, size), 1 .. n)
      BY <3>3, SplitDivides
    <3>5. Splits(n, N, b)
      BY <1>2, <3>1, <3>4 DEF Splits
    <3>6. FlattenSeq(Split(n, size)) = [t \in 1 .. n |-> t]
      BY <1>2, <3>3, SplitFlattens
    <3> QED BY <3>1, <3>5, <3>6
  <2> QED BY <1>2, <2>1, <2>2
<1>4. Numbered(n, k, b, ids)
  <2>1. ids = [i \in 1 .. n |-> ids[i]]
    BY <1>2
  <2> QED BY <1>3, <2>1 DEF Numbered
<1>5. PICK answers : answers = FlattenSeq([m \in DOMAIN b |-> [i \in DOMAIN b[m] |-> rows[b[m][i]].id]])
  OBVIOUS
<1>6. [m \in DOMAIN b |-> [i \in DOMAIN b[m] |-> rows[b[m][i]].id]] = AnswersTo(ids, b)
  <2>1. PICK T : T = Seq(1 .. n)
    OBVIOUS
  <2>2. DOMAIN b = 1 .. k /\ \A m \in 1 .. k : b[m] \in T
    <3>1. Series(T, k, b)
      BY <1>3, <2>1 DEF Splits
    <3> QED BY <3>1, SeriesIs
  <2>3. ASSUME NEW m \in 1 .. k, NEW i \in DOMAIN b[m] PROVE rows[b[m][i]].id = ids[b[m][i]]
    <3>1. PICK p : p = b[m]
      OBVIOUS
    <3>2. p \in Seq(1 .. n)
      BY <2>1, <2>2, <3>1
    <3>3. i \in 1 .. Len(p)
      BY <3>1, <3>2, LenProperties
    <3>4. p[i] \in 1 .. n
      BY <3>2, <3>3, ElementOfSeq
    <3> QED BY <1>2, <3>1, <3>4
  <2>4. \A m \in 1 .. k : [i \in DOMAIN b[m] |-> rows[b[m][i]].id] = [i \in DOMAIN b[m] |-> ids[b[m][i]]]
    BY <2>3
  <2> QED BY <2>2, <2>4 DEF AnswersTo
<1>7. answers = FlattenSeq(AnswersTo(ids, b))
  BY <1>5, <1>6
<1>8. ComputeLogProb(rows, number, use) = IF use.use_dynamic_bsz THEN Restore(answers, b) ELSE answers
  BY <1>1, <1>5 DEF ComputeLogProb
<1>9. CASE use.use_dynamic_bsz
  <2>1. Restore(FlattenSeq(AnswersTo(ids, b)), b) = ids
    BY <1>4, RestoresOrder
  <2> QED BY <1>1, <1>7, <1>8, <1>9, <2>1
<1>10. CASE ~use.use_dynamic_bsz
  <2>1. FlattenSeq(AnswersTo(ids, b)) = [t \in 1 .. n |-> ids[FlattenSeq(b)[t]]]
    BY <1>4, FlattenAnswers
  <2>2. \A t \in 1 .. n : FlattenSeq(b)[t] = t
    BY <1>3, <1>10
  <2>3. [t \in 1 .. n |-> ids[FlattenSeq(b)[t]]] = [t \in 1 .. n |-> ids[t]]
    BY <2>2
  <2>4. ids = [i \in 1 .. n |-> ids[i]]
    BY <1>2
  <2> QED BY <1>1, <1>7, <1>8, <1>10, <2>1, <2>3, <2>4
<1> QED BY <1>2, <1>9, <1>10

(* A batch padded to a multiple d * q of the number of chunks.             *)
LEMMA PadSizeIs ==
  ASSUME NEW n \in Nat, n >= 1, NEW d \in Nat, d >= 1
  PROVE  /\ PadSize(n, d) \in Nat
         /\ \E q \in Nat : q >= 1 /\ n + PadSize(n, d) = d * q
<1>1. PICK q : q = n \div d
  OBVIOUS
<1>2. PICK r : r = n % d
  OBVIOUS
<1>3. q \in Nat /\ r \in Nat /\ r < d /\ n = d * q + r
  BY <1>1, <1>2
<1>4. d * q \in Nat
  BY <1>3
<1>5. CASE r = 0
  <2>1. PadSize(n, d) = 0
    BY <1>2, <1>5 DEF PadSize
  <2>2. q # 0
    <3> SUFFICES ASSUME q = 0 PROVE FALSE
      OBVIOUS
    <3>1. d * q = 0
      OBVIOUS
    <3> QED BY <1>3, <1>5, <3>1
  <2>3. q >= 1 /\ n = d * q
    BY <1>3, <1>4, <1>5, <2>2
  <2>4. n + PadSize(n, d) = n
    BY <2>1
  <2> QED BY <1>3, <2>1, <2>3, <2>4
<1>6. CASE r # 0
  <2>1. PadSize(n, d) = d - r
    BY <1>2, <1>6 DEF PadSize
  <2>2. d - r \in Nat
    BY <1>3
  <2>3. d * (q + 1) = d * q + d
    BY <1>3
  <2>4. n + (d - r) = d * (q + 1)
    BY <1>3, <1>4, <2>3
  <2>5. q + 1 \in Nat /\ q + 1 >= 1
    BY <1>3
  <2> QED BY <2>1, <2>2, <2>4, <2>5
<1> QED BY <1>5, <1>6

(* Padding keeps the rows and makes the batch a multiple.                  *)
LEMMA PaddedIs ==
  ASSUME NEW S, NEW n, NEW rows, Series(S, n, rows), NEW d \in Nat, NEW candidate, n >= 1, d >= 1,
         NEW pad \in Nat, pad = PadSize(n, d)
  PROVE  /\ Series(S, n + pad, Padded(rows, d, candidate))
         /\ \A i \in 1 .. n : Padded(rows, d, candidate)[i] = rows[i]
<1>1. n \in Nat /\ Len(rows) = n /\ \A i \in 1 .. n : rows[i] \in S
  BY SeriesIs
<1>2. PICK t, c : /\ t = [i \in 1 .. pad |-> IF candidate = "first" THEN rows[((i - 1) % n) + 1] ELSE rows[n]]
                  /\ c = Padded(rows, d, candidate)
  OBVIOUS
<1>3. c = rows \o t
  <2>1. Last(rows) = rows[n] /\ PadSize(Len(rows), d) = pad
    BY <1>1 DEF Last
  <2> QED BY <1>1, <1>2, <2>1 DEF Padded
<1>4. \A i \in 1 .. pad : ((i - 1) % n) + 1 \in 1 .. n /\ n \in 1 .. n
  BY <1>1
<1>5. \A i \in 1 .. pad : t[i] \in S
  BY <1>1, <1>2, <1>4
<1>6. Series(S, pad, t)
  BY <1>2, <1>5 DEF Series
<1>7. TwoSeries(S, n, pad, rows, t)
  BY <1>6 DEF TwoSeries
<1>8. /\ rows \o t \in Seq(S) /\ Len(rows \o t) = n + pad
      /\ \A i \in 1 .. n + pad : (rows \o t)[i] = IF i <= n THEN rows[i] ELSE t[i - n]
  BY <1>7, Appended
<1>9. c \in Seq(S) /\ Len(c) = n + pad /\ \A i \in 1 .. n + pad : c[i] = IF i <= n THEN rows[i] ELSE t[i - n]
  BY <1>3, <1>8
<1>10. Series(S, n + pad, c)
  BY <1>9, SeqIsSeries
<1>11. \A i \in 1 .. n : i \in 1 .. n + pad /\ i <= n
  BY <1>1
<1> QED BY <1>2, <1>9, <1>10, <1>11

(* d chunks of q elements of a sequence, and where they start.             *)
ChunksOf(S, s, d, q, off, chunks) ==
  /\ d \in Nat /\ q \in Nat /\ Series(Seq(S), d, chunks)
  /\ off \in [0 .. d -> Nat] /\ off[0] = 0 /\ off[d] = d * q
  /\ \A c \in 1 .. d : off[c] = off[c - 1] + q
  /\ \A c \in 1 .. d : Series(S, q, chunks[c])
  /\ \A c \in 1 .. d : \A i \in 1 .. q : chunks[c][i] = s[off[c - 1] + i]

(* The chunks of a batch that is a multiple.                               *)
LEMMA ChunksAre ==
  ASSUME NEW S, NEW L, NEW s, Series(S, L, s), NEW d \in Nat, NEW q \in Nat, d >= 1, L = d * q
  PROVE  \E off : ChunksOf(S, s, d, q, off, Chunk(s, d))
<1>1. L \in Nat /\ Len(s) = L /\ s \in Seq(S)
  BY SeriesIs
<1>2. L \div d = q
  <2>1. PICK x : x = L \div d
    OBVIOUS
  <2>2. x \in Nat /\ d * x <= L /\ L < d * x + d
    BY <1>1, <2>1, Division
  <2>3. d * x \in Nat
    BY <2>2
  <2>4. ~(x < q)
    <3> SUFFICES ASSUME x < q PROVE FALSE
      OBVIOUS
    <3>1. d * x + d <= d * q
      BY <2>2, Multiples
    <3> QED BY <1>1, <2>2, <2>3, <3>1
  <2>5. ~(q < x)
    <3> SUFFICES ASSUME q < x PROVE FALSE
      OBVIOUS
    <3>1. d * q + d <= d * x
      BY <2>2, Multiples
    <3> QED BY <1>1, <2>2, <2>3, <3>1
  <2> QED BY <2>1, <2>2, <2>4, <2>5
<1>3. PICK off : off = [c \in 0 .. d |-> q * c]
  OBVIOUS
<1>4. /\ off \in [0 .. d -> Nat] /\ off[0] = 0 /\ off[d] = d * q
      /\ \A c \in 0 .. d : off[c] = q * c /\ off[c] \in Nat
  <2>1. \A c \in 0 .. d : q * c \in Nat
    OBVIOUS
  <2>2. q * 0 = 0 /\ q * d = d * q /\ 0 \in 0 .. d /\ d \in 0 .. d
    OBVIOUS
  <2> QED BY <1>3, <2>1, <2>2
<1>5. ASSUME NEW c \in 1 .. d
      PROVE  /\ c - 1 \in 0 .. d /\ c \in 0 .. d /\ off[c] = off[c - 1] + q /\ off[c] <= L
             /\ q * (c - 1) = off[c - 1] /\ q * c = off[c]
  <2>1. c - 1 \in 0 .. d /\ c \in 0 .. d
    OBVIOUS
  <2>2. off[c - 1] = q * (c - 1) /\ off[c] = q * c
    BY <1>4, <2>1
  <2>3. q * c = q * (c - 1) + q
    OBVIOUS
  <2>4. q * c <= q * d
    <3>1. CASE c = d
      <4>1. q * c \in Nat
        OBVIOUS
      <4> QED BY <3>1, <4>1
    <3>2. CASE c < d
      <4>1. q * c + q <= q * d
        BY <3>2, Multiples
      <4>2. q * c \in Nat /\ q * d \in Nat
        OBVIOUS
      <4> QED BY <4>1, <4>2
    <3> QED BY <3>1, <3>2
  <2>5. q * d = L
    OBVIOUS
  <2> QED BY <2>1, <2>2, <2>3, <2>4, <2>5
<1>6. PICK ch : ch = Chunk(s, d)
  OBVIOUS
<1>7. ch = [c \in 1 .. d |-> SubSeq(s, q * (c - 1) + 1, q * c)]
  BY <1>1, <1>2, <1>6 DEF Chunk
<1>8. ASSUME NEW c \in 1 .. d
      PROVE  Series(S, q, ch[c]) /\ ch[c] \in Seq(S) /\ \A i \in 1 .. q : ch[c][i] = s[off[c - 1] + i]
  <2>1. PICK a, b : a = off[c - 1] /\ b = off[c]
    OBVIOUS
  <2>2. a \in Nat /\ b \in Nat /\ b = a + q /\ b <= L
    BY <1>4, <1>5, <2>1
  <2>3. ch[c] = SubSeq(s, a + 1, b)
    BY <1>5, <1>7, <2>1
  <2>4. PICK u : u = SubSeq(s, a + 1, b)
    OBVIOUS
  <2>5. \A i \in a + 1 .. b : s[i] \in S
    <3>1. \A i \in a + 1 .. b : i \in 1 .. L
      BY <1>1, <2>2
    <3> QED BY <1>1, <3>1, ElementOfSeq
  <2>6. /\ u \in Seq(S) /\ Len(u) = (IF a + 1 <= b THEN b - (a + 1) + 1 ELSE 0)
        /\ \A i \in 1 .. b - (a + 1) + 1 : u[i] = s[(a + 1) + i - 1]
    <3>1. a + 1 \in Int /\ b \in Int
      BY <2>2
    <3> QED BY <2>4, <2>5, <3>1, SubSeqProperties
  <2>7. Len(u) = q /\ \A i \in 1 .. q : u[i] = s[a + i]
    <3>1. /\ (IF a + 1 <= b THEN b - (a + 1) + 1 ELSE 0) = q /\ b - (a + 1) + 1 = q
          /\ \A i \in 1 .. q : (a + 1) + i - 1 = a + i
      BY <2>2
    <3> QED BY <2>6, <3>1
  <2>10. Series(S, q, u)
    BY <2>6, <2>7, SeqIsSeries
  <2> QED BY <2>1, <2>3, <2>4, <2>6, <2>7, <2>10
<1>9. Series(Seq(S), d, ch)
  <2>1. PICK T : T = Seq(S)
    OBVIOUS
  <2>2. ch \in [1 .. d -> T]
    BY <1>7, <1>8, <2>1
  <2> QED BY <2>1, <2>2 DEF Series
<1>10. ChunksOf(S, s, d, q, off, ch)
  BY <1>4, <1>5, <1>8, <1>9 DEF ChunksOf
<1> QED BY <1>6, <1>10

(* So is that of a bounded set.                                            *)
LEMMA MaxWithin ==
  ASSUME NEW q \in Nat, NEW S \in SUBSET (0 .. q), S # {}
  PROVE  Max(S) \in S /\ \A x \in S : x <= Max(S)
<1>1. \A x \in S : x \in Int
  OBVIOUS
<1>2. IsFiniteSet(S)
  <2>1. IsFiniteSet(0 .. q)
    BY FS_Interval
  <2> QED BY <2>1, FS_Subset
<1> QED BY <1>1, <1>2, GreatestNumber

(* Numbers in increasing order: the sorted set of them.                    *)
Rising(d, at, S) ==
  /\ d \in Nat /\ at \in [1 .. d -> Int] /\ S = {at[i] : i \in 1 .. d}
  /\ \A i, j \in 1 .. d : i < j => at[i] < at[j]

(* sorted of a set whose elements are known in their order.                *)
LEMMA AscendingIs ==
  ASSUME NEW d, NEW at, NEW S, Rising(d, at, S)
  PROVE  Ascending(S) = at
<1>1. /\ d \in Nat /\ at \in [1 .. d -> Int] /\ S = {at[i] : i \in 1 .. d}
      /\ \A i, j \in 1 .. d : i < j => at[i] < at[j]
  BY DEF Rising
<1>2. ASSUME NEW m \in 0 .. d, NEW T, T = {at[i] : i \in 1 .. m}
      PROVE  IsFiniteSet(T) /\ Cardinality(T) = m
  <2>1. PICK f : f = [i \in 1 .. m |-> at[i]]
    OBVIOUS
  <2>2. f \in [1 .. m -> T] /\ \A i \in 1 .. m : i \in 1 .. d /\ f[i] = at[i]
    BY <1>1, <1>2, <2>1
  <2>3. \A i, j \in 1 .. m : f[i] = f[j] => i = j
    <3> SUFFICES ASSUME NEW i \in 1 .. m, NEW j \in 1 .. m, f[i] = f[j], i # j PROVE FALSE
      OBVIOUS
    <3>1. at[i] = at[j] /\ at[i] \in Int /\ i \in 1 .. d /\ j \in 1 .. d
      BY <1>1, <2>2
    <3>2. i < j \/ j < i
      OBVIOUS
    <3>3. at[i] < at[j] \/ at[j] < at[i]
      BY <1>1, <3>1, <3>2
    <3> QED BY <1>1, <3>1, <3>3
  <2>4. \A x \in T : \E i \in 1 .. m : f[i] = x
    BY <1>2, <2>2
  <2>5. ExistsBijection(1 .. m, T)
    <3>1. f \in Bijection(1 .. m, T)
      BY <2>2, <2>3, <2>4, Fun_IsBij
    <3> QED BY <3>1 DEF ExistsBijection
  <2>6. IsFiniteSet(1 .. m) /\ Cardinality(1 .. m) = m
    BY FS_Interval
  <2> QED BY <2>5, <2>6, FS_Bijection
<1>3. Cardinality(S) = d
  <2>1. d \in 0 .. d
    BY <1>1
  <2> QED BY <1>1, <1>2, <2>1
<1>4. ASSUME NEW j \in 1 .. d PROVE Cardinality({y \in S : y < at[j]}) = j - 1
  <2>1. PICK m, T : m = j - 1 /\ T = {at[i] : i \in 1 .. m}
    OBVIOUS
  <2>2. m \in 0 .. d /\ m = j - 1
    BY <1>1, <2>1
  <2>3. Cardinality(T) = m
    BY <1>2, <2>1, <2>2
  <2>4. ASSUME NEW i \in 1 .. d PROVE at[i] < at[j] <=> i \in 1 .. m
    <3>1. at[i] \in Int /\ at[j] \in Int /\ (i < j => at[i] < at[j]) /\ (j < i => at[j] < at[i])
      BY <1>1
    <3>2. i < j \/ j < i \/ i = j
      BY <1>1
    <3>3. i < j <=> i \in 1 .. m
      BY <1>1, <2>2
    <3> QED BY <3>1, <3>2, <3>3
  <2>5. \A i \in 1 .. m : i \in 1 .. d
    BY <1>1, <2>2
  <2>6. {y \in S : y < at[j]} = T
    BY <1>1, <2>1, <2>4, <2>5
  <2> QED BY <2>2, <2>3, <2>6
<1>5. ASSUME NEW r \in 1 .. d
      PROVE  (CHOOSE x \in S : Cardinality({y \in S : y < x}) = r - 1) = at[r]
  <2>1. PICK x : x = CHOOSE z \in S : Cardinality({y \in S : y < z}) = r - 1
    OBVIOUS
  <2>2. at[r] \in S /\ Cardinality({y \in S : y < at[r]}) = r - 1
    BY <1>1, <1>4
  <2>3. x \in S /\ Cardinality({y \in S : y < x}) = r - 1
    BY <2>1, <2>2
  <2>4. PICK j \in 1 .. d : x = at[j]
    BY <1>1, <2>3
  <2>5. Cardinality({y \in S : y < x}) = j - 1
    BY <1>4, <2>4
  <2>6. j - 1 = r - 1
    BY <2>3, <2>5
  <2>7. j = r
    BY <1>1, <2>6
  <2> QED BY <2>1, <2>4, <2>7
<1>6. Ascending(S) = [r \in 1 .. d |-> at[r]]
  BY <1>3, <1>5 DEF Ascending
<1> QED BY <1>1, <1>6

(* A mesh of W ranks: d groups in the data parallel dimension, and of each *)
(* one rank, in their order, whose answer is collected.                    *)
Ordered(mesh, W, d, at) ==
  /\ W \in Nat /\ d \in Nat /\ d >= 1
  /\ mesh.dp_rank \in [0 .. W - 1 -> 0 .. d - 1]
  /\ Rising(d, at, mesh.collects) /\ at \in [1 .. d -> 0 .. W - 1]
  /\ \A i \in 1 .. d : mesh.dp_rank[at[i]] = i - 1

(* The data parallel size of such a mesh.                                  *)
LEMMA DpSizeIs ==
  ASSUME NEW mesh, NEW W, NEW d, NEW at, Ordered(mesh, W, d, at)
  PROVE  DpSize(mesh) = d
<1>1. /\ W \in Nat /\ d \in Nat /\ d >= 1 /\ mesh.dp_rank \in [0 .. W - 1 -> 0 .. d - 1]
      /\ at \in [1 .. d -> 0 .. W - 1] /\ \A i \in 1 .. d : mesh.dp_rank[at[i]] = i - 1
  BY DEF Ordered
<1>2. PICK S, q : S = {mesh.dp_rank[r] : r \in DOMAIN mesh.dp_rank} /\ q = d - 1
  OBVIOUS
<1>3. q \in Nat /\ S \in SUBSET (0 .. q)
  BY <1>1, <1>2
<1>4. q \in S
  <2>1. d \in 1 .. d
    BY <1>1
  <2>2. at[d] \in 0 .. W - 1 /\ mesh.dp_rank[at[d]] = d - 1
    BY <1>1, <2>1
  <2>3. at[d] \in DOMAIN mesh.dp_rank
    BY <1>1, <2>2
  <2> QED BY <1>2, <2>2, <2>3
<1>5. Max(S) \in S /\ \A x \in S : x <= Max(S)
  BY <1>3, <1>4, MaxWithin
<1>6. PICK m : m = Max(S)
  OBVIOUS
<1>7. m = q
  <2>1. m \in 0 .. q /\ q <= m
    BY <1>3, <1>4, <1>5, <1>6
  <2> QED BY <1>3, <2>1
<1>8. DpSize(mesh) = m + 1
  BY <1>2, <1>6 DEF DpSize
<1> QED BY <1>1, <1>2, <1>7, <1>8

(* A call of n rows on a mesh.                                             *)
Calling(I, n, rows, mesh, W, d, at, use) ==
  /\ n >= 1 /\ Series(Rows(I), n, rows) /\ Ordered(mesh, W, d, at)
  /\ use.use_dynamic_bsz \in BOOLEAN
  /\ use.max_token_len \in Nat /\ use.max_token_len >= 1
  /\ use.micro_batch_size \in Nat /\ use.micro_batch_size >= 1

(* What is dispatched to the ranks: d chunks of q rows, a whole batch.     *)
Dispatching(I, d, q, off, padded, chunks, mesh, W, at, inputs) ==
  /\ q >= 1 /\ Series(Rows(I), d * q, padded) /\ ChunksOf(Rows(I), padded, d, q, off, chunks)
  /\ Ordered(mesh, W, d, at) /\ inputs = Dispatched(mesh, chunks)

(* Every rank answers its chunk.                                           *)
LEMMA RanksAnswer ==
  ASSUME NEW I, NEW d, NEW q, NEW off, NEW padded, NEW chunks, NEW mesh, NEW W, NEW at, NEW inputs,
         Dispatching(I, d, q, off, padded, chunks, mesh, W, at, inputs), NEW use,
         use.use_dynamic_bsz \in BOOLEAN,
         use.max_token_len \in Nat, use.max_token_len >= 1,
         use.micro_batch_size \in Nat, use.micro_batch_size >= 1,
         NEW number, number = Max({NumMicroBatches(Lens(inputs[r]), use.max_token_len) : r \in DOMAIN inputs})
  PROVE  /\ DOMAIN inputs = 0 .. W - 1
         /\ \A r \in 0 .. W - 1 : ComputeLogProb(inputs[r], number, use) = Ids(inputs[r])
         /\ \A c \in 1 .. d : at[c] \in 0 .. W - 1 /\ inputs[at[c]] = chunks[c]
<1>1. /\ q >= 1 /\ d \in Nat /\ q \in Nat /\ d >= 1 /\ W \in Nat
      /\ \A c \in 1 .. d : Series(Rows(I), q, chunks[c])
      /\ mesh.dp_rank \in [0 .. W - 1 -> 0 .. d - 1]
      /\ at \in [1 .. d -> 0 .. W - 1] /\ \A c \in 1 .. d : mesh.dp_rank[at[c]] = c - 1
      /\ inputs = Dispatched(mesh, chunks)
  BY DEF Dispatching, ChunksOf, Ordered
<1>2. inputs = [r \in 0 .. W - 1 |-> chunks[mesh.dp_rank[r] + 1]]
  BY <1>1 DEF Dispatched
<1>3. ASSUME NEW r \in 0 .. W - 1 PROVE mesh.dp_rank[r] + 1 \in 1 .. d
  <2>1. mesh.dp_rank[r] \in 0 .. d - 1 /\ d \in Nat
    BY <1>1
  <2> QED BY <2>1
<1>4. \A r \in 0 .. W - 1 : Series(Rows(I), q, inputs[r])
  BY <1>1, <1>2, <1>3
<1>5. ASSUME NEW r \in 0 .. W - 1
      PROVE  NumMicroBatches(Lens(inputs[r]), use.max_token_len) \in 1 .. q
  <2>1. Series(Rows(I), q, inputs[r])
    BY <1>4
  <2>2. PICK lens, l : lens = Lens(inputs[r]) /\ l = use.max_token_len
    OBVIOUS
  <2>3. lens \in [1 .. q -> Nat] /\ \A i \in 1 .. q : lens[i] >= 1
    BY <2>1, <2>2, RowsAre
  <2>4. l \in Nat /\ l >= 1
    BY <2>2
  <2>5. NumMicroBatches(lens, l) \in 1 .. q
    BY <1>1, <2>3, <2>4, NumMicroBatchesIs
  <2> QED BY <2>2, <2>5
<1>6. PICK S : S = {NumMicroBatches(Lens(inputs[r]), use.max_token_len) : r \in DOMAIN inputs}
  OBVIOUS
<1>7. S \in SUBSET (0 .. q) /\ S \subseteq 1 .. q
  <2>1. ASSUME NEW x \in S PROVE x \in 1 .. q
    <3>1. PICK r \in 0 .. W - 1 : x = NumMicroBatches(Lens(inputs[r]), use.max_token_len)
      BY <1>2, <1>6
    <3> QED BY <1>5, <3>1
  <2>2. \A x \in 1 .. q : x \in 0 .. q
    BY <1>1
  <2> QED BY <2>1, <2>2
<1>8. S # {}
  <2>1. 1 \in 1 .. d
    BY <1>1
  <2>2. at[1] \in 0 .. W - 1
    BY <1>1, <2>1
  <2>3. at[1] \in DOMAIN inputs
    BY <1>2, <2>2
  <2> QED BY <1>6, <2>3
<1>9. number \in 1 .. q
  <2>1. Max(S) \in S
    BY <1>1, <1>7, <1>8, MaxWithin
  <2>2. number = Max(S)
    BY <1>6
  <2> QED BY <1>7, <2>1, <2>2
<1>10. ASSUME NEW r \in 0 .. W - 1 PROVE ComputeLogProb(inputs[r], number, use) = Ids(inputs[r])
  <2>1. Computing(I, q, inputs[r], number, use)
    BY <1>1, <1>4, <1>9 DEF Computing
  <2> QED BY <2>1, RankAnswers
<1>11. ASSUME NEW c \in 1 .. d PROVE at[c] \in 0 .. W - 1 /\ inputs[at[c]] = chunks[c]
  <2>1. at[c] \in 0 .. W - 1 /\ mesh.dp_rank[at[c]] = c - 1
    BY <1>1
  <2>2. (c - 1) + 1 = c
    BY <1>1
  <2> QED BY <1>2, <2>1, <2>2
<1> QED BY <1>2, <1>10, <1>11

(* The answers that are collected, flattened, are those of the batch.      *)
AllAnswered(W, d, at, chunks, inputs, output) ==
  /\ output = [r \in 0 .. W - 1 |-> Ids(inputs[r])]
  /\ \A c \in 1 .. d : at[c] \in 0 .. W - 1 /\ inputs[at[c]] = chunks[c]

(* One rank of each group, in their order, gives the whole batch back.     *)
LEMMA CollectedInOrder ==
  ASSUME NEW I, NEW d, NEW q, NEW off, NEW padded, NEW chunks, NEW mesh, NEW W, NEW at, NEW inputs,
         Dispatching(I, d, q, off, padded, chunks, mesh, W, at, inputs),
         NEW output, AllAnswered(W, d, at, chunks, inputs, output)
  PROVE  Collected(mesh, output) = Ids(padded)
<1>1. /\ d \in Nat /\ q \in Nat /\ q >= 1 /\ Series(Rows(I), d * q, padded)
      /\ off \in [0 .. d -> Nat] /\ off[0] = 0 /\ off[d] = d * q
      /\ \A c \in 1 .. d : off[c] = off[c - 1] + q
      /\ \A c \in 1 .. d : Series(Rows(I), q, chunks[c])
      /\ \A c \in 1 .. d : \A i \in 1 .. q : chunks[c][i] = padded[off[c - 1] + i]
      /\ Rising(d, at, mesh.collects)
  BY DEF Dispatching, ChunksOf, Ordered
<1>2. Ascending(mesh.collects) = at /\ DOMAIN at = 1 .. d
  BY <1>1, AscendingIs DEF Rising
<1>3. PICK parts, all, n : /\ parts = [c \in 1 .. d |-> output[at[c]]] /\ all = Ids(padded)
                           /\ n = d * q
  OBVIOUS
<1>4. Collected(mesh, output) = FlattenSeq(parts)
  BY <1>2, <1>3 DEF Collected
<1>5. n \in Nat /\ all = [i \in 1 .. n |-> padded[i].id] /\ all \in [1 .. n -> I]
  <2>1. Series(Rows(I), n, padded)
    BY <1>1, <1>3
  <2> QED BY <1>3, <2>1, RowsAre
<1>6. ASSUME NEW c \in 1 .. d
      PROVE  /\ parts[c] = Ids(chunks[c]) /\ parts[c] \in [1 .. q -> I] /\ parts[c] \in Seq(I) /\ Len(parts[c]) = q
             /\ \A i \in 1 .. q : parts[c][i] = chunks[c][i].id
  <2>1. parts[c] = Ids(chunks[c])
    <3>1. at[c] \in 0 .. W - 1 /\ inputs[at[c]] = chunks[c] /\ output = [r \in 0 .. W - 1 |-> Ids(inputs[r])]
      BY DEF AllAnswered
    <3>2. output[at[c]] = Ids(chunks[c])
      BY <3>1
    <3> QED BY <1>3, <3>2
  <2>2. Series(Rows(I), q, chunks[c])
    BY <1>1
  <2>3. PICK p : p = Ids(chunks[c])
    OBVIOUS
  <2>4. p = [i \in 1 .. q |-> chunks[c][i].id] /\ p \in [1 .. q -> I]
    BY <2>2, <2>3, RowsAre
  <2>5. p \in Seq(I) /\ Len(p) = q
    BY <1>1, <2>4, SameSeq
  <2>6. \A i \in 1 .. q : p[i] = chunks[c][i].id
    BY <2>4
  <2> QED BY <2>1, <2>3, <2>4, <2>5, <2>6
<1>7. Series(Seq(I), d, parts)
  <2>1. PICK T : T = Seq(I)
    OBVIOUS
  <2>2. parts \in [1 .. d -> T]
    BY <1>3, <1>6, <2>1
  <2> QED BY <1>1, <2>1, <2>2 DEF Series
<1>8. Len(parts) = d
  BY <1>7, SeriesIs
<1>9. Offsets(off, parts)
  BY <1>1, <1>6, <1>8 DEF Offsets
<1>10. ASSUME NEW c \in 1 .. d, NEW i \in 1 .. Len(parts[c]) PROVE parts[c][i] = all[off[c - 1] + i]
  <2>1. i \in 1 .. q
    BY <1>6
  <2>2. parts[c][i] = chunks[c][i].id /\ chunks[c][i] = padded[off[c - 1] + i]
    BY <1>1, <1>6, <2>1
  <2>3. Flat(I, d, parts, off, FlattenSeq(parts))
    BY <1>7, <1>9, FlatWith
  <2>4. off[c - 1] + i \in 1 .. off[d]
    BY <2>3 DEF Flat
  <2>5. off[d] = n
    BY <1>1, <1>3
  <2> QED BY <1>5, <2>2, <2>4, <2>5
<1>11. Series(I, n, all)
  BY <1>5 DEF Series
<1>12. InOrder(I, n, all, d, parts, off)
  BY <1>1, <1>3, <1>7, <1>9, <1>10, <1>11 DEF InOrder
<1>13. FlattenSeq(parts) = all
  BY <1>12, FlattenInOrder
<1> QED BY <1>3, <1>4, <1>13

(* Every row of a call gets its own answer, in the order of the rows,      *)
(* whatever the mesh, the padding and the micro-batches.                   *)
THEOREM CallAnswersInOrder ==
  ASSUME NEW I, NEW n, NEW rows, NEW mesh, NEW W, NEW d, NEW at, NEW use,
         Calling(I, n, rows, mesh, W, d, at, use)
  PROVE  Call(rows, mesh, use) = Ids(rows)
<1>1. /\ n >= 1 /\ Series(Rows(I), n, rows) /\ Ordered(mesh, W, d, at)
      /\ use.use_dynamic_bsz \in BOOLEAN
      /\ use.max_token_len \in Nat /\ use.max_token_len >= 1
      /\ use.micro_batch_size \in Nat /\ use.micro_batch_size >= 1
      /\ d \in Nat /\ d >= 1
  BY DEF Calling, Ordered
<1>2. n \in Nat /\ Len(rows) = n /\ Ids(rows) = [i \in 1 .. n |-> rows[i].id]
  BY <1>1, RowsAre
<1>3. DpSize(mesh) = d
  BY <1>1, DpSizeIs
<1>4. PICK pad, padded, chunks, inputs, number, output :
        /\ pad = PadSize(n, d) /\ padded = Padded(rows, d, use.candidate) /\ chunks = Chunk(padded, d)
        /\ inputs = Dispatched(mesh, chunks)
        /\ number = Max({NumMicroBatches(Lens(inputs[r]), use.max_token_len) : r \in DOMAIN inputs})
        /\ output = [r \in DOMAIN inputs |-> ComputeLogProb(inputs[r], number, use)]
  OBVIOUS
<1>5. Call(rows, mesh, use) = Unpadded(Collected(mesh, output), pad)
  BY <1>2, <1>3, <1>4 DEF Call
<1>6. pad \in Nat /\ \E q \in Nat : q >= 1 /\ n + pad = d * q
  BY <1>1, <1>2, <1>4, PadSizeIs
<1>7. PICK q \in Nat : q >= 1 /\ n + pad = d * q
  BY <1>6
<1>8. Series(Rows(I), n + pad, padded) /\ \A i \in 1 .. n : padded[i] = rows[i]
  BY <1>1, <1>2, <1>4, <1>6, PaddedIs
<1>9. PICK off : ChunksOf(Rows(I), padded, d, q, off, chunks)
  BY <1>1, <1>4, <1>7, <1>8, ChunksAre
<1>10. Dispatching(I, d, q, off, padded, chunks, mesh, W, at, inputs)
  BY <1>1, <1>4, <1>7, <1>8, <1>9 DEF Dispatching
<1>11. /\ DOMAIN inputs = 0 .. W - 1
       /\ \A r \in 0 .. W - 1 : ComputeLogProb(inputs[r], number, use) = Ids(inputs[r])
       /\ \A c \in 1 .. d : at[c] \in 0 .. W - 1 /\ inputs[at[c]] = chunks[c]
  BY <1>1, <1>4, <1>10, RanksAnswer
<1>12. output = [r \in 0 .. W - 1 |-> Ids(inputs[r])]
  BY <1>4, <1>11
<1>13. Collected(mesh, output) = Ids(padded)
  <2>1. AllAnswered(W, d, at, chunks, inputs, output)
    BY <1>11, <1>12 DEF AllAnswered
  <2> QED BY <1>10, <2>1, CollectedInOrder
<1>14. PICK all, m : all = Ids(padded) /\ m = n + pad
  OBVIOUS
<1>15. all = [i \in 1 .. m |-> padded[i].id] /\ all \in [1 .. m -> I] /\ m \in Nat
  BY <1>8, <1>14, RowsAre
<1>16. all \in Seq(I) /\ Len(all) = m
  BY <1>15, SameSeq
<1>17. m - pad = n /\ n \in 0 .. m /\ \A i \in 1 .. n : i \in 1 .. m
  BY <1>2, <1>6, <1>14
<1>18. Unpadded(all, pad) = SubSeq(all, 1, n)
  BY <1>16, <1>17 DEF Unpadded
<1>19. PICK ans : ans = SubSeq(all, 1, n)
  OBVIOUS
<1>20. ans \in Seq(I) /\ Len(ans) = n /\ \A i \in 1 .. n : ans[i] = all[i]
  BY <1>16, <1>17, <1>19, Prefix
<1>21. ans = [i \in 1 .. n |-> rows[i].id]
  <2>1. \A i \in 1 .. n : ans[i] = rows[i].id
    BY <1>8, <1>15, <1>17, <1>20
  <2>2. ans = [i \in 1 .. n |-> ans[i]]
    BY <1>20, LenProperties
  <2> QED BY <2>1, <2>2
<1> QED BY <1>2, <1>5, <1>13, <1>14, <1>18, <1>19, <1>21

(* A quotient is where its multiple is.                                    *)
LEMMA QuotientIs ==
  ASSUME NEW a \in Nat, NEW b \in Nat, b >= 1, NEW q \in Nat, b * q <= a, a < b * q + b
  PROVE  a \div b = q
<1>1. PICK x : x = a \div b
  OBVIOUS
<1>2. x \in Nat /\ b * x <= a /\ a < b * x + b
  BY <1>1, Division
<1>3. b * x \in Nat /\ b * q \in Nat
  BY <1>2
<1>4. ~(x < q)
  <2> SUFFICES ASSUME x < q PROVE FALSE
    OBVIOUS
  <2>1. b * x + b <= b * q
    BY <1>2, Multiples
  <2> QED BY <1>2, <1>3, <2>1
<1>5. ~(q < x)
  <2> SUFFICES ASSUME q < x PROVE FALSE
    OBVIOUS
  <2>1. b * q + b <= b * x
    BY <1>2, Multiples
  <2> QED BY <1>2, <1>3, <2>1
<1> QED BY <1>1, <1>2, <1>4, <1>5

(* The quotient and the remainder of a multiple.                           *)
LEMMA ExactQuotient ==
  ASSUME NEW b \in Nat, b >= 1, NEW q \in Nat
  PROVE  b * q \in Nat /\ (b * q) \div b = q /\ (b * q) % b = 0
<1>1. PICK a : a = b * q
  OBVIOUS
<1>2. a \in Nat
  BY <1>1
<1>3. b * q <= a /\ a < b * q + b
  BY <1>1, <1>2
<1>4. a \div b = q
  BY <1>2, <1>3, QuotientIs
<1>5. a % b = a - b * (a \div b)
  BY <1>2
<1>6. a % b = a - b * q
  BY <1>4, <1>5
<1>7. a - b * q = 0
  BY <1>1, <1>2
<1> QED BY <1>1, <1>2, <1>4, <1>6, <1>7

(* Below a multiple the quotient is smaller.                               *)
LEMMA QuotientBelow ==
  ASSUME NEW a \in Nat, NEW b \in Nat, b >= 1, NEW q \in Nat, a < b * q
  PROVE  a \div b < q
<1>1. PICK x : x = a \div b
  OBVIOUS
<1>2. x \in Nat /\ b * x <= a /\ a < b * x + b
  BY <1>1, Division
<1>3. b * x \in Nat /\ b * q \in Nat
  BY <1>2
<1>4. SUFFICES ASSUME q <= x PROVE FALSE
  BY <1>1, <1>2
<1>5. q # x
  BY <1>2, <1>3
<1>6. q < x
  BY <1>2, <1>4, <1>5
<1>7. b * q + b <= b * x
  BY <1>2, <1>6, Multiples
<1> QED BY <1>2, <1>3, <1>7

(* The mesh of the FSDP workers collects the first rank of each sequence   *)
(* parallel group.                                                         *)
LEMMA FsdpMeshOrdered ==
  ASSUME NEW dp \in Nat, dp >= 1, NEW sp \in Nat, sp >= 1
  PROVE  Ordered(FsdpMesh(dp, sp), dp * sp, dp, [i \in 1 .. dp |-> sp * (i - 1)])
<1>1. PICK W, at, mesh : W = dp * sp /\ at = [i \in 1 .. dp |-> sp * (i - 1)] /\ mesh = FsdpMesh(dp, sp)
  OBVIOUS
<1>2. W \in Nat /\ W = sp * dp
  BY <1>1
<1>3. /\ mesh.dp_rank = [r \in 0 .. W - 1 |-> r \div sp]
      /\ mesh.collects = {r \in 0 .. W - 1 : r % sp = 0}
  BY <1>1 DEF FsdpMesh
<1>4. ASSUME NEW r \in 0 .. W - 1 PROVE r \in Nat /\ r \div sp \in 0 .. dp - 1
  <2>1. r \in Nat /\ r < sp * dp
    BY <1>2
  <2>2. r \div sp \in Nat
    BY <2>1, Division
  <2>3. r \div sp < dp
    BY <2>1, QuotientBelow
  <2> QED BY <2>1, <2>2, <2>3
<1>5. ASSUME NEW i \in 1 .. dp
      PROVE  at[i] = sp * (i - 1) /\ at[i] \in 0 .. W - 1 /\ at[i] \in Nat /\ at[i] \div sp = i - 1 /\ at[i] % sp = 0
  <2>1. i - 1 \in Nat /\ i - 1 < dp
    OBVIOUS
  <2>2. at[i] = sp * (i - 1)
    BY <1>1
  <2>3. sp * (i - 1) \in Nat /\ (sp * (i - 1)) \div sp = i - 1 /\ (sp * (i - 1)) % sp = 0
    BY <2>1, ExactQuotient
  <2>4. sp * (i - 1) + sp <= sp * dp
    BY <2>1, Multiples
  <2>5. at[i] \in Nat /\ at[i] + sp <= W
    BY <1>2, <2>2, <2>3, <2>4
  <2>6. at[i] \in 0 .. W - 1
    BY <1>2, <2>5
  <2> QED BY <2>2, <2>3, <2>5, <2>6
<1>6. mesh.collects = {at[i] : i \in 1 .. dp}
  <2>1. ASSUME NEW r \in 0 .. W - 1, r % sp = 0 PROVE \E i \in 1 .. dp : r = at[i]
    <3>1. PICK x : x = r \div sp
      OBVIOUS
    <3>2. r \in Nat /\ x \in 0 .. dp - 1
      BY <1>4, <3>1
    <3>3. x * sp = r
      BY <2>1, <3>1, <3>2, Division
    <3>4. PICK i : i = x + 1
      OBVIOUS
    <3>5. i \in 1 .. dp /\ i - 1 = x
      BY <3>2, <3>4
    <3>6. at[i] = sp * x
      BY <1>5, <3>5
    <3>7. sp * x = x * sp
      BY <3>2
    <3> QED BY <3>3, <3>5, <3>6, <3>7
  <2>2. \A i \in 1 .. dp : at[i] \in 0 .. W - 1 /\ at[i] % sp = 0
    BY <1>5
  <2> QED BY <1>3, <2>1, <2>2
<1>7. ASSUME NEW i \in 1 .. dp, NEW j \in 1 .. dp, i < j PROVE at[i] < at[j]
  <2>1. i - 1 \in Int /\ j - 1 \in Int /\ i - 1 < j - 1
    BY <1>7
  <2>2. sp * (i - 1) + sp <= sp * (j - 1)
    BY <2>1, Multiples
  <2>3. at[i] = sp * (i - 1) /\ at[j] = sp * (j - 1) /\ at[i] \in Nat /\ at[j] \in Nat
    BY <1>5
  <2>4. at[i] + sp <= at[j]
    BY <2>2, <2>3
  <2> QED BY <2>3, <2>4
<1>8. /\ at \in [1 .. dp -> 0 .. W - 1] /\ at \in [1 .. dp -> Int]
      /\ mesh.dp_rank \in [0 .. W - 1 -> 0 .. dp - 1]
      /\ \A i \in 1 .. dp : mesh.dp_rank[at[i]] = i - 1
  <2>1. at = [i \in 1 .. dp |-> at[i]]
    BY <1>1
  <2>2. \A i \in 1 .. dp : at[i] \in 0 .. W - 1 /\ at[i] \in Int
    BY <1>5
  <2>3. ASSUME NEW i \in 1 .. dp PROVE mesh.dp_rank[at[i]] = i - 1
    <3>1. at[i] \in 0 .. W - 1 /\ at[i] \div sp = i - 1
      BY <1>5
    <3> QED BY <1>3, <3>1
  <2> QED BY <1>3, <1>4, <2>1, <2>2, <2>3, ZenonT(30)
<1>9. Rising(dp, at, mesh.collects)
  BY <1>6, <1>7, <1>8 DEF Rising
<1>10. Ordered(mesh, W, dp, at)
  BY <1>2, <1>8, <1>9 DEF Ordered
<1> QED BY <1>1, <1>10

(* That of the Megatron workers collects the first rank of each tensor     *)
(* parallel group of the last stage.                                       *)
LEMMA MegatronMeshOrdered ==
  ASSUME NEW pp \in Nat, pp >= 1, NEW dp \in Nat, dp >= 1, NEW tp \in Nat, tp >= 1
  PROVE  Ordered(MegatronMesh(pp, dp, tp), pp * dp * tp, dp,
                 [i \in 1 .. dp |-> tp * (dp * (pp - 1) + (i - 1))])
<1>1. PICK W, b, g, at, mesh : /\ W = pp * dp * tp /\ b = dp * (pp - 1) /\ g = tp * dp
                               /\ at = [i \in 1 .. dp |-> tp * (dp * (pp - 1) + (i - 1))]
                               /\ mesh = MegatronMesh(pp, dp, tp)
  OBVIOUS
<1>2. /\ b \in Nat /\ g \in Nat /\ g >= 1 /\ W \in Nat /\ W = tp * (b + dp)
  <2>1. dp * (pp - 1) \in Nat /\ tp * dp \in Nat /\ tp * dp >= 1
    OBVIOUS
  <2>2. dp * (pp - 1) + dp = dp * pp
    OBVIOUS
  <2>3. pp * dp * tp = tp * (dp * pp)
    OBVIOUS
  <2> QED BY <1>1, <2>1, <2>2, <2>3
<1>3. /\ mesh.dp_rank = [r \in 0 .. W - 1 |-> (r \div tp) % dp]
      /\ mesh.collects = {r \in 0 .. W - 1 : r % tp = 0 /\ r \div g = pp - 1}
  BY <1>1 DEF MegatronMesh
<1>4. ASSUME NEW r \in 0 .. W - 1 PROVE r \in Nat /\ r \div tp \in Nat /\ (r \div tp) % dp \in 0 .. dp - 1
  <2>1. r \in Nat
    BY <1>2
  <2>2. PICK x : x = r \div tp
    OBVIOUS
  <2>3. x \in Nat
    BY <2>1, <2>2, Division
  <2>4. x % dp \in 0 .. dp - 1
    BY <2>3
  <2> QED BY <2>1, <2>2, <2>3, <2>4
(* The quotient by g of a multiple of tp.                                  *)
<1>5. ASSUME NEW u \in Nat PROVE (tp * u) \div g = u \div dp
  <2>1. PICK x : x = u \div dp
    OBVIOUS
  <2>2. x \in Nat /\ dp * x <= u /\ u < dp * x + dp
    BY <2>1, Division
  <2>3. PICK y, z : y = dp * x /\ z = u - y
    OBVIOUS
  <2>4. y \in Nat /\ z \in Nat /\ z < dp /\ u = y + z
    BY <2>2, <2>3
  <2>5. tp * (y + z) = tp * y + tp * z /\ tp * y \in Nat /\ tp * z \in Nat /\ tp * u \in Nat
    BY <2>4
  <2>6. tp * z + tp <= tp * dp
    BY <2>4, Multiples
  <2>7. g * x = tp * y
    <3>1. (tp * dp) * x = tp * (dp * x)
      BY <2>2
    <3> QED BY <1>1, <2>3, <3>1
  <2>8. g * x <= tp * u /\ tp * u < g * x + g
    BY <1>1, <1>2, <2>4, <2>5, <2>6, <2>7
  <2>9. (tp * u) \div g = x
    <3>1. PICK a : a = tp * u
      OBVIOUS
    <3>2. a \in Nat /\ g * x <= a /\ a < g * x + g
      BY <2>5, <2>8, <3>1
    <3>3. a \div g = x
      BY <1>2, <2>2, <3>2, QuotientIs
    <3> QED BY <3>1, <3>3
  <2> QED BY <2>1, <2>9
<1>6. ASSUME NEW i \in 1 .. dp
      PROVE  /\ at[i] = tp * (b + (i - 1)) /\ at[i] \in 0 .. W - 1 /\ at[i] \in Nat
             /\ at[i] \div tp = b + (i - 1) /\ at[i] % tp = 0
             /\ (b + (i - 1)) \div dp = pp - 1 /\ (b + (i - 1)) % dp = i - 1
  <2>1. PICK u : u = b + (i - 1)
    OBVIOUS
  <2>2. u \in Nat /\ u < b + dp /\ b <= u /\ i - 1 = u - b
    BY <1>2, <2>1
  <2>3. at[i] = tp * u
    BY <1>1, <2>1
  <2>4. tp * u \in Nat /\ (tp * u) \div tp = u /\ (tp * u) % tp = 0
    BY <2>2, ExactQuotient
  <2>5. tp * u + tp <= tp * (b + dp)
    BY <1>2, <2>2, Multiples
  <2>6. at[i] \in Nat /\ at[i] + tp <= W
    BY <1>2, <2>3, <2>4, <2>5
  <2>7. at[i] \in 0 .. W - 1
    BY <1>2, <2>6
  <2>8. pp - 1 \in Nat /\ dp * (pp - 1) <= u /\ u < dp * (pp - 1) + dp
    BY <1>1, <2>2
  <2>9. u \div dp = pp - 1
    BY <2>2, <2>8, QuotientIs
  <2>10. u % dp = u - dp * (u \div dp)
    BY <2>2
  <2>11. u % dp = i - 1
    BY <1>1, <2>2, <2>9, <2>10
  <2> QED BY <2>1, <2>3, <2>4, <2>6, <2>7, <2>9, <2>11
<1>7. mesh.collects = {at[i] : i \in 1 .. dp}
  <2>1. ASSUME NEW r \in 0 .. W - 1, r % tp = 0, r \div g = pp - 1 PROVE \E i \in 1 .. dp : r = at[i]
    <3>1. PICK u : u = r \div tp
      OBVIOUS
    <3>2. r \in Nat /\ u \in Nat /\ u * tp = r
      BY <1>4, <2>1, <3>1, Division
    <3>3. tp * u = r
      BY <3>2
    <3>4. u \div dp = pp - 1
      BY <1>5, <2>1, <3>2, <3>3
    <3>5. PICK x : x = u \div dp
      OBVIOUS
    <3>6. dp * x <= u /\ u < dp * x + dp
      BY <3>2, <3>5, Division
    <3>7. b <= u /\ u < b + dp
      BY <1>1, <3>4, <3>5, <3>6
    <3>8. PICK i : i = u - b + 1
      OBVIOUS
    <3>9. i \in 1 .. dp /\ b + (i - 1) = u
      BY <1>2, <3>2, <3>7, <3>8
    <3> QED BY <1>6, <3>3, <3>9
  <2>2. ASSUME NEW i \in 1 .. dp PROVE at[i] \in 0 .. W - 1 /\ at[i] % tp = 0 /\ at[i] \div g = pp - 1
    <3>1. PICK u : u = b + (i - 1)
      OBVIOUS
    <3>2. u \in Nat /\ at[i] = tp * u /\ u \div dp = pp - 1 /\ at[i] \in 0 .. W - 1 /\ at[i] % tp = 0
      BY <1>2, <1>6, <3>1
    <3> QED BY <1>5, <3>2
  <2>3. PICK S, T : S = mesh.collects /\ T = {at[i] : i \in 1 .. dp}
    OBVIOUS
  <2>4. ASSUME NEW r PROVE r \in S <=> r \in 0 .. W - 1 /\ r % tp = 0 /\ r \div g = pp - 1
    BY <1>3, <2>3
  <2>5. ASSUME NEW r \in S PROVE r \in T
    <3>1. \E i \in 1 .. dp : r = at[i]
      BY <2>1, <2>4
    <3> QED BY <2>3, <3>1
  <2>6. ASSUME NEW r \in T PROVE r \in S
    <3>1. PICK i \in 1 .. dp : r = at[i]
      BY <2>3
    <3> QED BY <2>2, <2>4, <3>1
  <2> QED BY <2>3, <2>5, <2>6
<1>8. ASSUME NEW i \in 1 .. dp, NEW j \in 1 .. dp, i < j PROVE at[i] < at[j]
  <2>1. PICK u, v : u = b + (i - 1) /\ v = b + (j - 1)
    OBVIOUS
  <2>2. u \in Int /\ v \in Int /\ u < v
    BY <1>2, <1>8, <2>1
  <2>3. tp * u + tp <= tp * v
    BY <2>2, Multiples
  <2>4. at[i] = tp * u /\ at[j] = tp * v /\ at[i] \in Nat /\ at[j] \in Nat
    BY <1>6, <2>1
  <2>5. at[i] + tp <= at[j]
    BY <2>3, <2>4
  <2> QED BY <2>4, <2>5
<1>9. /\ at \in [1 .. dp -> 0 .. W - 1] /\ at \in [1 .. dp -> Int]
      /\ mesh.dp_rank \in [0 .. W - 1 -> 0 .. dp - 1]
      /\ \A i \in 1 .. dp : mesh.dp_rank[at[i]] = i - 1
  <2>1. at = [i \in 1 .. dp |-> at[i]]
    BY <1>1
  <2>2. \A i \in 1 .. dp : at[i] \in 0 .. W - 1 /\ at[i] \in Int
    BY <1>6
  <2>3. ASSUME NEW i \in 1 .. dp PROVE mesh.dp_rank[at[i]] = i - 1
    <3>1. at[i] \in 0 .. W - 1 /\ (at[i] \div tp) % dp = i - 1
      BY <1>6
    <3> QED BY <1>3, <3>1
  <2> QED BY <1>3, <1>4, <2>1, <2>2, <2>3
<1>10. Rising(dp, at, mesh.collects)
  BY <1>7, <1>8, <1>9 DEF Rising
<1>11. Ordered(mesh, W, dp, at)
  BY <1>2, <1>9, <1>10 DEF Ordered
<1> QED BY <1>1, <1>11

-----------------------------------------------------------------------------
(* _balance_batch.                                                         *)

(* What _balance_batch makes of a partition: the smaller rows at both ends. *)
Alternated(load, p) ==
  LET lighter(i, j) == load[i] < load[j] \/ (load[i] = load[j] /\ i < j)
      s == StableSort(p, lighter)
  IN Odd(s) \o Reverse(Even(s))

Items(load, n, p) == n \in Nat /\ load \in [1 .. n -> Nat] /\ p \in Seq(1 .. n)

(* It is a reordering of the partition.                                    *)
LEMMA AlternatedShuffles ==
  ASSUME NEW load, NEW n, NEW p, Items(load, n, p)
  PROVE  Shuffle(1 .. n, Len(p), p, Alternated(load, p))
<1>0. n \in Nat /\ load \in [1 .. n -> Nat]
  BY DEF Items
<1>1. PICK S, k : S = 1 .. n /\ k = Len(p)
  OBVIOUS
<1>2. Series(S, k, p)
  <2>1. p \in Seq(S)
    BY <1>1 DEF Items
  <2> QED BY <1>1, <2>1, SeqIsSeries
<1>3. k \in Nat /\ p \in Seq(S) /\ Len(p) = k /\ DOMAIN p = 1 .. k /\ \A i \in 1 .. k : p[i] \in S
  BY <1>2, SeriesIs
<1>4. p \in [1 .. k -> S]
  BY <1>2 DEF Series
<1>5. Evaluated(p) = p
  BY <1>3, <1>4, SameSeq
<1> DEFINE Lighter(i, j) == load[i] < load[j] \/ (load[i] = load[j] /\ i < j)
<1>6. PICK L : L = {e \in (1 .. k) \X (1 .. k) : Lighter(p[e[1]], p[e[2]])}
  OBVIOUS
<1>7. \A i, j \in 1 .. k : <<i, j>> \in L <=> Lighter(p[i], p[j])
  BY <1>6
<1>8. ASSUME NEW i \in 1 .. k PROVE load[p[i]] \in Int /\ p[i] \in Int
  <2>1. p[i] \in 1 .. n
    BY <1>1, <1>3
  <2> QED BY <1>0, <2>1
<1>9. \A i, j \in 1 .. k : <<i, j>> \in L => <<j, i>> \notin L
  BY <1>7, <1>8
<1>10. \A i, j, l \in 1 .. k : <<i, j>> \notin L /\ <<j, l>> \notin L => <<i, l>> \notin L
  BY <1>7, <1>8
<1>11. StableSort(p, Lighter) = Stable(p, L)
  <2>1. Rank(p, Lighter) = StableRanks(k, L)
    <3>1. \A i, j \in 1 .. k :
            Lighter(p[j], p[i]) \/ (~Lighter(p[i], p[j]) /\ j < i)
            <=> <<j, i>> \in L \/ (<<i, j>> \notin L /\ j < i)
      BY <1>7
    <3> HIDE DEF Lighter
    <3> QED BY <1>3, <3>1 DEF Rank, Before, StableRanks
  <2> HIDE DEF Lighter
  <2> QED BY <1>3, <1>5, <2>1 DEF StableSort, Stable
<1>12. PICK t : t = StableSort(p, Lighter)
  OBVIOUS
<1>13. Alternated(load, p) = Odd(t) \o Reverse(Even(t))
  BY <1>12 DEF Alternated
<1> HIDE DEF Lighter
<1>14. PICK f \in Bijection(1 .. k, 1 .. k) : Stable(p, L) = [r \in 1 .. k |-> p[f[r]]]
  <2>1. /\ \A i, j \in 1 .. Len(p) : <<i, j>> \in L => <<j, i>> \notin L
        /\ \A i, j, l \in 1 .. Len(p) : <<i, j>> \notin L /\ <<j, l>> \notin L => <<i, l>> \notin L
    BY <1>3, <1>9, <1>10
  <2>2. \E q \in Bijection(1 .. Len(p), 1 .. Len(p)) :
          /\ Stable(p, L) = [r \in 1 .. Len(p) |-> p[q[r]]]
          /\ \A r, l \in 1 .. Len(p) : r < l => <<q[l], q[r]>> \notin L
    BY <1>3, <2>1, StableReorders
  <2> QED BY <1>3, <2>2
<1>15. \A r \in 1 .. k : f[r] \in 1 .. k
  <2>1. f \in [1 .. k -> 1 .. k]
    BY <1>3, Reordering
  <2> QED BY <2>1
<1>16. t = [r \in 1 .. k |-> p[f[r]]]
  BY <1>11, <1>12, <1>14
<1>17. Series(S, k, t)
  BY <1>3, <1>15, <1>16 DEF Series
<1>18. Shuffle(S, k, p, t)
  BY <1>2, <1>16, <1>17 DEF Shuffle
<1>19. PICK u : u = Odd(t) \o Reverse(Even(t))
  OBVIOUS
<1>20. Shuffle(S, k, t, u)
  BY <1>17, <1>19, EndsReorder
<1>21. Shuffle(S, k, p, u)
  BY <1>18, <1>20, ShuffledTwice
<1> QED BY <1>1, <1>13, <1>19, <1>21

(* A division whose parts are each put in another order.                   *)
Within(n, k, parts, others) ==
  /\ Splits(n, k, parts) /\ DOMAIN others = 1 .. k
  /\ \A p \in 1 .. k : Shuffle(1 .. n, Len(parts[p]), parts[p], others[p])

(* b is a with its m elements in another order, f.                         *)
Moved(f, m, a, b) ==
  /\ \A i \in 1 .. m : f[i] \in 1 .. m /\ b[i] = a[f[i]]
  /\ \A i, j \in 1 .. m : f[i] = f[j] => i = j
  /\ \A i \in 1 .. m : \E r \in 1 .. m : f[r] = i

(* Such parts still divide 1 .. n.                                         *)
LEMMA ShuffledWithin ==
  ASSUME NEW n, NEW k, NEW parts, NEW others, Within(n, k, parts, others),
         others = [p \in 1 .. k |-> others[p]]
  PROVE  Splits(n, k, others)
<1>1. PICK D, T : D = 1 .. n /\ T = Seq(D)
  OBVIOUS
<1>2. /\ n \in Nat /\ Series(T, k, parts) /\ Divides(parts, D)
      /\ \A p \in 1 .. k : Shuffle(D, Len(parts[p]), parts[p], others[p])
  BY <1>1 DEF Within, Splits
<1>3. k \in Nat /\ Len(parts) = k
  BY <1>2, SeriesIs
<1>4. ASSUME NEW p \in 1 .. k
      PROVE  /\ others[p] \in T /\ Len(others[p]) = Len(parts[p]) /\ Len(parts[p]) \in Nat
             /\ \A i \in 1 .. Len(parts[p]) : others[p][i] \in D
  <2>1. PICK m, a, b : m = Len(parts[p]) /\ a = parts[p] /\ b = others[p]
    OBVIOUS
  <2>2. Shuffle(D, m, a, b)
    BY <1>2, <2>1
  <2>3. Series(D, m, b)
    BY <2>2 DEF Shuffle
  <2>4. m \in Nat /\ b \in Seq(D) /\ Len(b) = m /\ \A i \in 1 .. m : b[i] \in D
    BY <2>3, SeriesIs
  <2> QED BY <1>1, <2>1, <2>4
<1>5. Series(T, k, others)
  <2>1. others \in [1 .. k -> T]
    BY <1>4
  <2> QED BY <1>3, <2>1 DEF Series
<1>6. Len(others) = k
  BY <1>5, SeriesIs
<1>7. /\ \A x \in D : \E p \in 1 .. k : \E j \in 1 .. Len(parts[p]) : parts[p][j] = x
      /\ \A p, q \in 1 .. k : \A j \in 1 .. Len(parts[p]), l \in 1 .. Len(parts[q]) :
           parts[p][j] = parts[q][l] => p = q /\ j = l
  BY <1>2, <1>3 DEF Divides
(* Where an element of a part went.                                        *)
<1>8. ASSUME NEW p \in 1 .. k PROVE \E f : Moved(f, Len(parts[p]), parts[p], others[p])
  <2>1. PICK m, a, b : m = Len(parts[p]) /\ a = parts[p] /\ b = others[p]
    OBVIOUS
  <2>2. Shuffle(D, m, a, b) /\ m \in Nat
    BY <1>2, <1>4, <2>1
  <2>3. PICK f \in Bijection(1 .. m, 1 .. m) : \A i \in 1 .. m : b[i] = a[f[i]]
    BY <2>2 DEF Shuffle
  <2>4. f \in [1 .. m -> 1 .. m]
    BY <2>2, <2>3, Reordering
  <2>5. /\ \A i, j \in 1 .. m : f[i] = f[j] => i = j
        /\ \A i \in 1 .. m : \E r \in 1 .. m : f[r] = i
    BY <2>2, <2>3, Reordering
  <2>6. \A i \in 1 .. m : f[i] \in 1 .. m
    BY <2>4
  <2>7. Moved(f, m, a, b)
    BY <2>3, <2>5, <2>6 DEF Moved
  <2> QED BY <2>1, <2>7
<1>9. ASSUME NEW x \in D PROVE \E p \in 1 .. k : \E j \in 1 .. Len(others[p]) : others[p][j] = x
  <2>1. PICK p \in 1 .. k : \E j \in 1 .. Len(parts[p]) : parts[p][j] = x
    BY <1>7
  <2>2. PICK j \in 1 .. Len(parts[p]) : parts[p][j] = x
    BY <2>1
  <2>3. PICK f : Moved(f, Len(parts[p]), parts[p], others[p])
    BY <1>8
  <2>4. PICK r \in 1 .. Len(parts[p]) : f[r] = j
    BY <2>3 DEF Moved
  <2>6. others[p][r] = parts[p][f[r]]
    BY <2>3 DEF Moved
  <2>5. others[p][r] = x /\ r \in 1 .. Len(others[p])
    BY <1>4, <2>2, <2>4, <2>6
  <2> QED BY <2>5
<1>10. ASSUME NEW p \in 1 .. k, NEW q \in 1 .. k, NEW j \in 1 .. Len(others[p]), NEW l \in 1 .. Len(others[q]),
              others[p][j] = others[q][l]
       PROVE  p = q /\ j = l
  <2>1. PICK f : Moved(f, Len(parts[p]), parts[p], others[p])
    BY <1>8
  <2>2. PICK g : Moved(g, Len(parts[q]), parts[q], others[q])
    BY <1>8
  <2>3. j \in 1 .. Len(parts[p]) /\ l \in 1 .. Len(parts[q])
    BY <1>4
  <2>4. others[p][j] = parts[p][f[j]] /\ f[j] \in 1 .. Len(parts[p])
    BY <2>1, <2>3 DEF Moved
  <2>5. others[q][l] = parts[q][g[l]] /\ g[l] \in 1 .. Len(parts[q])
    BY <2>2, <2>3 DEF Moved
  <2>6. p = q
    BY <1>7, <1>10, <2>4, <2>5
  <2>7. others[p][l] = parts[p][f[l]] /\ f[l] \in 1 .. Len(parts[p])
    BY <2>1, <2>3, <2>6 DEF Moved
  <2>8. parts[p][f[j]] = parts[p][f[l]]
    BY <1>10, <2>4, <2>6, <2>7
  <2>9. f[j] = f[l]
    BY <1>7, <2>4, <2>7, <2>8
  <2>10. j = l
    BY <2>1, <2>3, <2>6, <2>9 DEF Moved
  <2> QED BY <2>6, <2>10
<1>11. Divides(others, D)
  BY <1>4, <1>6, <1>9, <1>10 DEF Divides
<1> QED BY <1>1, <1>2, <1>5, <1>11 DEF Splits

(* _balance_batch sends every row, in some order, whenever the number of   *)
(* rows is a multiple of the number of ranks.                              *)
THEOREM BalancedOrderReorders ==
  ASSUME NEW lens, NEW n, NEW world_size, Dividing(lens, n, world_size), n % world_size = 0
  PROVE  BalancedOrder(lens, world_size) \in Bijection(1 .. n, 1 .. n)
<1>0. PICK k : k = world_size
  OBVIOUS
<1>1. n \in Nat /\ lens \in [1 .. n -> Nat] /\ k \in Nat /\ 1 <= k /\ k <= n /\ n >= 1 /\ n % k = 0
  BY <1>0 DEF Dividing
<1>2. PICK load, M : load = [i \in DOMAIN lens |-> Workload(lens[i])] /\ M = Max({load[i] : i \in DOMAIN load})
  OBVIOUS
<1>3. load \in [1 .. n -> Nat]
  <2>1. load = [i \in 1 .. n |-> Workload(lens[i])]
    BY <1>1, <1>2
  <2>2. \A x \in Nat : Workload(x) \in Nat
    BY DEF Workload
  <2> QED BY <1>1, <2>1, <2>2
<1>4. M \in Nat /\ \A i \in 1 .. n : load[i] <= M
  BY <1>1, <1>2, <1>3, MaxIs
<1>5. Divisible(load, n, k, M, TRUE)
  BY <1>1, <1>3, <1>4 DEF Divisible
<1>6. PICK parts, others, S : /\ parts = BalancedPartitions(load, k, TRUE) /\ S = Seq(1 .. n)
                              /\ others = [p \in DOMAIN parts |-> Alternated(load, parts[p])]
  OBVIOUS
<1>7. Parts(load, n, k, parts) /\ Divides(parts, 1 .. n)
  BY <1>5, <1>6, PartitionsDivide
<1>8. Series(S, k, parts) /\ Splits(n, k, parts)
  BY <1>1, <1>6, <1>7 DEF Parts, Splits
<1>9. DOMAIN parts = 1 .. k /\ \A p \in 1 .. k : parts[p] \in S
  BY <1>8, SeriesIs
<1>10. ASSUME NEW p \in 1 .. k PROVE Shuffle(1 .. n, Len(parts[p]), parts[p], others[p])
  <2>1. Items(load, n, parts[p])
    BY <1>1, <1>3, <1>6, <1>9 DEF Items
  <2>2. Shuffle(1 .. n, Len(parts[p]), parts[p], Alternated(load, parts[p]))
    BY <2>1, AlternatedShuffles
  <2>3. others[p] = Alternated(load, parts[p])
    BY <1>6, <1>9
  <2> QED BY <2>2, <2>3
<1>11. others = [p \in 1 .. k |-> others[p]]
  BY <1>6, <1>9
<1>12. Within(n, k, parts, others)
  BY <1>6, <1>8, <1>9, <1>10 DEF Within
<1>13. Splits(n, k, others)
  BY <1>11, <1>12, ShuffledWithin
<1>14. BalancedOrder(lens, k) = FlattenSeq(others)
  <2> DEFINE weights == [i \in DOMAIN lens |-> Workload(lens[i])]
             divided == BalancedPartitions(weights, k, TRUE)
  <2>1. BalancedOrder(lens, k) = FlattenSeq([p \in DOMAIN divided |-> Alternated(weights, divided[p])])
    BY DEF BalancedOrder, Alternated
  <2>2. load = weights /\ parts = divided
    BY <1>2, <1>6
  <2> HIDE DEF weights, divided
  <2> QED BY <1>6, <2>1, <2>2
<1>15. FlattenSeq(others) \in Bijection(1 .. n, 1 .. n)
  BY <1>13, FlattenReorders
<1> QED BY <1>0, <1>14, <1>15

(* The ranks are numbered from 0.                                          *)
LEMMA RankCount ==
  ASSUME NEW W \in Nat, W >= 1
  PROVE  Cardinality(0 .. W - 1) = W
<1>1. PICK v : v = W - 1
  OBVIOUS
<1>2. v \in Nat /\ v + 1 = W
  BY <1>1
<1>3. Cardinality(0 .. v) = IF 0 > v THEN 0 ELSE v - 0 + 1
  BY <1>2, FS_Interval
<1> QED BY <1>1, <1>2, <1>3

(* The rows of a question about a call, balanced or not.                   *)
Sending(n, lens, mesh, W) ==
  /\ n \in Nat /\ n >= 1 /\ lens \in [1 .. n -> Nat \ {0}] /\ W \in Nat /\ W >= 1
  /\ DOMAIN mesh.dp_rank = 0 .. W - 1

(* Balanced or not, n rows are sent.                                       *)
LEMMA RowsSentAre ==
  ASSUME NEW n, NEW q, NEW W, Sending(n, q.lens, q.mesh, W),
         q.balance \in BOOLEAN, q.balance => Len(q.lens) % W = 0
  PROVE  Series(Rows(Nat), n, RowsSent(q))
<1>1. PICK lens, rows, R : lens = q.lens /\ rows = RowsOf(lens) /\ R = Rows(Nat)
  OBVIOUS
<1>2. n \in Nat /\ n >= 1 /\ lens \in [1 .. n -> Nat \ {0}] /\ W \in Nat /\ W >= 1
  BY <1>1 DEF Sending
<1>3. rows = [i \in 1 .. n |-> [id |-> i, len |-> lens[i]]]
  BY <1>1, <1>2 DEF RowsOf
<1>4. ASSUME NEW i \in 1 .. n PROVE rows[i] \in R
  <2>1. i \in Nat /\ lens[i] \in Nat \ {0}
    BY <1>2
  <2>2. [id |-> i, len |-> lens[i]] \in [id : Nat, len : Nat \ {0}]
    BY <2>1
  <2> QED BY <1>1, <1>3, <2>2 DEF Rows
<1>5. CASE q.balance
  <2>1. PICK order : order = BalancedOrder(lens, W)
    OBVIOUS
  <2>2. Cardinality(DOMAIN q.mesh.dp_rank) = W
    <3>1. DOMAIN q.mesh.dp_rank = 0 .. W - 1
      BY DEF Sending
    <3> QED BY <1>2, <3>1, RankCount
  <2>3. RowsSent(q) = [i \in DOMAIN order |-> rows[order[i]]]
    BY <1>1, <1>5, <2>1, <2>2 DEF RowsSent
  <2>4. Len(lens) = n
    <3>1. lens \in Seq(Nat \ {0}) /\ Len(lens) = n
      BY <1>2, SameSeq
    <3> QED BY <3>1
  <2>5. n % W = 0
    BY <1>1, <1>5, <2>4
  <2>6. W <= n
    <3>1. PICK x : x = n \div W
      OBVIOUS
    <3>2. x \in Nat /\ x * W = n
      BY <1>2, <2>5, <3>1, Division
    <3>3. x # 0
      BY <1>2, <3>2
    <3>4. PICK y : y = x - 1
      OBVIOUS
    <3>5. y \in Nat /\ x = y + 1
      BY <3>2, <3>3, <3>4
    <3>6. x * W = y * W + W /\ y * W \in Nat
      BY <1>2, <3>5
    <3> QED BY <1>2, <3>2, <3>6
  <2>7. lens \in [1 .. n -> Nat]
    BY <1>2
  <2>8. Dividing(lens, n, W)
    BY <1>2, <2>6, <2>7 DEF Dividing
  <2>9. order \in Bijection(1 .. n, 1 .. n)
    BY <2>1, <2>5, <2>8, BalancedOrderReorders
  <2>10. order \in [1 .. n -> 1 .. n]
    BY <1>2, <2>9, Reordering
  <2>11. RowsSent(q) \in [1 .. n -> R]
    BY <1>4, <2>3, <2>10
  <2> QED BY <1>1, <1>2, <2>11 DEF Series
<1>6. CASE ~q.balance
  <2>1. RowsSent(q) = rows
    BY <1>1, <1>6 DEF RowsSent
  <2>2. rows \in [1 .. n -> R]
    BY <1>3, <1>4
  <2> QED BY <1>1, <1>2, <2>1, <2>2 DEF Series
<1> QED BY <1>5, <1>6

-----------------------------------------------------------------------------
(* Sums of functions, powers, and functions computed backwards.            *)

(* The sums of the subsets of S, taken as MapThenFoldSet takes them: one   *)
(* element, then the others.                                               *)
Folds0(f, L, g) ==
  \A w \in L : /\ w = {} => g[w] = 0
               /\ w # {} => /\ w \ {CHOOSE x \in w : TRUE} \in L
                            /\ g[w] = f[CHOOSE x \in w : TRUE] + g[w \ {CHOOSE x \in w : TRUE}]

Small(S, n) == {w \in SUBSET S : IsFiniteSet(w) /\ Cardinality(w) \in 0 .. n}

(* They exist for the subsets of at most n elements.                       *)
LEMMA FoldsUpto ==
  ASSUME NEW S, NEW f \in [S -> Int], NEW n \in Nat
  PROVE  \E g \in [Small(S, n) -> Int] : Folds0(f, Small(S, n), g)
<1> DEFINE Ok(m) == \E g \in [Small(S, m) -> Int] : Folds0(f, Small(S, m), g)
<1>1. ASSUME NEW w \in SUBSET S, IsFiniteSet(w), w # {}
      PROVE  /\ (CHOOSE x \in w : TRUE) \in w /\ f[CHOOSE x \in w : TRUE] \in Int
             /\ w \ {CHOOSE x \in w : TRUE} \in SUBSET S
             /\ IsFiniteSet(w \ {CHOOSE x \in w : TRUE})
             /\ Cardinality(w \ {CHOOSE x \in w : TRUE}) = Cardinality(w) - 1
             /\ Cardinality(w) \in Nat /\ Cardinality(w) >= 1
  <2>1. PICK y : y = CHOOSE x \in w : TRUE
    OBVIOUS
  <2>2. y \in w
    BY <1>1, <2>1
  <2>3. IsFiniteSet(w \ {y}) /\ Cardinality(w \ {y}) = Cardinality(w) - 1
    BY <1>1, <2>2, FS_RemoveElement
  <2>4. Cardinality(w) \in Nat /\ Cardinality(w \ {y}) \in Nat
    BY <1>1, <2>3, FS_CardinalityType
  <2>5. f[y] \in Int
    BY <2>2
  <2>6. Cardinality(w) >= 1
    BY <2>3, <2>4
  <2> QED BY <2>1, <2>2, <2>3, <2>4, <2>5, <2>6
<1>2. Ok(0)
  <2>1. PICK g : g = [w \in Small(S, 0) |-> 0]
    OBVIOUS
  <2>2. ASSUME NEW w \in Small(S, 0) PROVE w = {}
    <3>1. IsFiniteSet(w) /\ Cardinality(w) = 0
      BY DEF Small
    <3> QED BY <3>1, FS_EmptySet
  <2>3. g \in [Small(S, 0) -> Int] /\ \A w \in Small(S, 0) : g[w] = 0
    BY <2>1
  <2> QED BY <2>2, <2>3 DEF Folds0
<1>3. ASSUME NEW m \in Nat, Ok(m) PROVE Ok(m + 1)
  <2>1. PICK L, K : L = Small(S, m) /\ K = Small(S, m + 1)
    OBVIOUS
  <2>2. PICK g \in [L -> Int] : Folds0(f, L, g)
    BY <1>3, <2>1
  <2>3. ASSUME NEW w \in K, w # {} PROVE w \ {CHOOSE x \in w : TRUE} \in L /\ f[CHOOSE x \in w : TRUE] \in Int
    <3>1. w \in SUBSET S /\ IsFiniteSet(w) /\ Cardinality(w) \in 0 .. m + 1
      BY <2>1 DEF Small
    <3>2. PICK v : v = w \ {CHOOSE x \in w : TRUE}
      OBVIOUS
    <3>3. /\ f[CHOOSE x \in w : TRUE] \in Int /\ v \in SUBSET S /\ IsFiniteSet(v)
          /\ Cardinality(v) = Cardinality(w) - 1 /\ Cardinality(w) >= 1
      BY <1>1, <2>3, <3>1, <3>2
    <3>4. Cardinality(v) \in 0 .. m
      BY <3>1, <3>3
    <3>5. v \in L
      BY <2>1, <3>3, <3>4 DEF Small
    <3> QED BY <3>2, <3>3, <3>5
  <2>4. PICK h : h = [w \in K |-> IF w = {} THEN 0
                                  ELSE f[CHOOSE x \in w : TRUE] + g[w \ {CHOOSE x \in w : TRUE}]]
    OBVIOUS
  <2>5. /\ \A w \in K : w = {} => h[w] = 0
        /\ \A w \in K : w # {} => h[w] = f[CHOOSE x \in w : TRUE] + g[w \ {CHOOSE x \in w : TRUE}]
    BY <2>4
  <2>6. ASSUME NEW w \in K PROVE h[w] \in Int
    <3>1. CASE w = {}
      BY <2>5, <3>1
    <3>2. CASE w # {}
      <4>1. PICK v, y : v = w \ {CHOOSE x \in w : TRUE} /\ y = f[CHOOSE x \in w : TRUE]
        OBVIOUS
      <4>2. v \in L /\ y \in Int
        BY <2>3, <3>2, <4>1
      <4>3. g[v] \in Int
        BY <4>2
      <4>4. h[w] = y + g[v]
        BY <2>5, <3>2, <4>1
      <4> QED BY <4>2, <4>3, <4>4
    <3> QED BY <3>1, <3>2
  <2>7. h \in [K -> Int]
    BY <2>4, <2>6
  <2>8. ASSUME NEW w \in L PROVE w \in K /\ h[w] = g[w]
    <3>1. w \in SUBSET S /\ IsFiniteSet(w) /\ Cardinality(w) \in 0 .. m
      BY <2>1 DEF Small
    <3>2. Cardinality(w) \in 0 .. m + 1
      BY <3>1
    <3>3. w \in K
      BY <2>1, <3>1, <3>2 DEF Small
    <3>4. CASE w = {}
      <4>1. g[w] = 0
        BY <2>2, <3>4 DEF Folds0
      <4> QED BY <2>5, <3>3, <3>4, <4>1
    <3>5. CASE w # {}
      <4>1. g[w] = f[CHOOSE x \in w : TRUE] + g[w \ {CHOOSE x \in w : TRUE}]
        BY <2>2, <3>5 DEF Folds0
      <4> QED BY <2>5, <3>3, <3>5, <4>1
    <3> QED BY <3>3, <3>4, <3>5
  <2>9. ASSUME NEW w \in K, w # {}
        PROVE  /\ w \ {CHOOSE x \in w : TRUE} \in K
               /\ h[w] = f[CHOOSE x \in w : TRUE] + h[w \ {CHOOSE x \in w : TRUE}]
    <3>1. PICK v : v = w \ {CHOOSE x \in w : TRUE}
      OBVIOUS
    <3>2. v \in L
      BY <2>3, <2>9, <3>1
    <3>3. v \in K /\ h[v] = g[v]
      BY <2>8, <3>2
    <3> QED BY <2>5, <2>9, <3>1, <3>3
  <2>10. Folds0(f, K, h)
    BY <2>5, <2>9 DEF Folds0
  <2> QED BY <2>1, <2>7, <2>10
<1> HIDE DEF Ok
<1>4. \A m \in Nat : Ok(m)
  <2> DEFINE E == {m \in Nat : Ok(m)}
  <2>1. 0 \in E
    BY <1>2
  <2>2. \A m \in Nat : m \in E => m + 1 \in E
    BY <1>3
  <2> HIDE DEF E
  <2>3. Nat \subseteq E
    BY <2>1, <2>2, Induction
  <2> QED BY <2>3 DEF E
<1> QED BY <1>4 DEF Ok

(* Loads that are c times as large.                                        *)
Scaled(S, f, g, T, e, h, c) ==
  /\ IsFiniteSet(S) /\ S \subseteq T /\ f \in [S -> Int] /\ g \in [SUBSET S -> Int] /\ c \in Int
  /\ Folds0(f, SUBSET S, g) /\ Folds0(e, SUBSET T, h)
  /\ \A x \in S : e[x] = c * f[x]

(* Multiples of the summands sum up to the multiple of the sum.            *)
LEMMA FoldsScaled ==
  ASSUME NEW S, NEW f, NEW g, NEW T, NEW e, NEW h, NEW c, Scaled(S, f, g, T, e, h, c)
  PROVE  h[S] = c * g[S]
<1>1. /\ IsFiniteSet(S) /\ S \subseteq T /\ f \in [S -> Int] /\ g \in [SUBSET S -> Int] /\ c \in Int
      /\ \A x \in S : e[x] = c * f[x]
  BY DEF Scaled
<1> DEFINE E == {m \in Nat : \A w \in SUBSET S : Cardinality(w) = m => h[w] = c * g[w]}
<1>2. ASSUME NEW w \in SUBSET S
      PROVE  IsFiniteSet(w) /\ Cardinality(w) \in Nat /\ w \in SUBSET T
  BY <1>1, FS_Subset, FS_CardinalityType
<1>3. 0 \in E
  <2> SUFFICES ASSUME NEW w \in SUBSET S, Cardinality(w) = 0 PROVE h[w] = c * g[w]
    OBVIOUS
  <2>1. w = {}
    BY <1>2, FS_EmptySet
  <2>2. h[w] = 0 /\ g[w] = 0
    BY <1>2, <2>1 DEF Scaled, Folds0
  <2> QED BY <1>1, <2>2
<1>4. ASSUME NEW m \in Nat, m \in E PROVE m + 1 \in E
  <2> SUFFICES ASSUME NEW w \in SUBSET S, Cardinality(w) = m + 1 PROVE h[w] = c * g[w]
    OBVIOUS
  <2>1. PICK y, v : y = (CHOOSE x \in w : TRUE) /\ v = w \ {y}
    OBVIOUS
  <2>2. w # {}
    <3>1. Cardinality({}) = 0
      BY FS_EmptySet
    <3> QED BY <3>1
  <2>3. y \in w
    BY <2>1, <2>2
  <2>4. v \in SUBSET S /\ Cardinality(v) = m
    <3>1. Cardinality(w \ {y}) = Cardinality(w) - 1
      BY <1>2, <2>3, FS_RemoveElement
    <3> QED BY <2>1, <3>1
  <2>5. h[v] = c * g[v]
    BY <1>4, <2>4
  <2>6. h[w] = e[y] + h[v] /\ g[w] = f[y] + g[v]
    BY <1>2, <2>1, <2>2 DEF Scaled, Folds0
  <2>7. e[y] = c * f[y] /\ f[y] \in Int /\ g[v] \in Int
    BY <1>1, <2>3, <2>4
  <2>8. c * (f[y] + g[v]) = c * f[y] + c * g[v]
    BY <1>1, <2>7
  <2> QED BY <2>5, <2>6, <2>7, <2>8
<1> HIDE DEF E
<1>5. Nat \subseteq E
  BY <1>3, <1>4, Induction
<1>6. Cardinality(S) \in E
  BY <1>2, <1>5
<1> QED BY <1>6 DEF E

(* SumFunction is the last of them.                                        *)
LEMMA SumFunctionIs ==
  ASSUME NEW S, IsFiniteSet(S), NEW f \in [S -> Int]
  PROVE  \E g \in [SUBSET S -> Int] : Folds0(f, SUBSET S, g) /\ SumFunction(f) = g[S]
<1>1. PICK n : n = Cardinality(S)
  OBVIOUS
<1>2. n \in Nat
  BY <1>1, FS_CardinalityType
<1>3. Small(S, n) = SUBSET S
  <2>1. ASSUME NEW w \in SUBSET S PROVE w \in Small(S, n)
    <3>1. IsFiniteSet(w) /\ Cardinality(w) <= n
      BY <1>1, FS_Subset
    <3>2. Cardinality(w) \in Nat
      BY <3>1, FS_CardinalityType
    <3>3. Cardinality(w) \in 0 .. n
      BY <1>2, <3>1, <3>2
    <3> QED BY <3>1, <3>3 DEF Small
  <2> QED BY <2>1 DEF Small
<1>4. PICK g \in [SUBSET S -> Int] : Folds0(f, SUBSET S, g)
  <2>1. \E g \in [Small(S, n) -> Int] : Folds0(f, Small(S, n), g)
    BY <1>2, FoldsUpto
  <2> QED BY <1>3, <2>1
<1> DEFINE Eq(h) == h = [w \in SUBSET S |-> IF w = {} THEN 0
                                            ELSE f[CHOOSE x \in w : TRUE] + h[w \ {CHOOSE x \in w : TRUE}]]
           it == CHOOSE h : Eq(h)
<1>5. Eq(g)
  <2>1. \A w \in SUBSET S : g[w] = IF w = {} THEN 0
                                   ELSE f[CHOOSE x \in w : TRUE] + g[w \ {CHOOSE x \in w : TRUE}]
    BY <1>4 DEF Folds0
  <2>2. g = [w \in SUBSET S |-> g[w]]
    OBVIOUS
  <2> QED BY <2>1, <2>2
<1>6. Eq(it)
  <2> HIDE DEF Eq
  <2> QED BY <1>5
<1>7. SumFunction(f) = it[S]
  <2>1. DOMAIN f = S
    OBVIOUS
  <2>2. SumFunction(f) = (CHOOSE h : h = [w \in SUBSET DOMAIN f |-> IF w = {} THEN 0
                           ELSE f[CHOOSE x \in w : TRUE] + h[w \ {CHOOSE x \in w : TRUE}]])[DOMAIN f]
    BY DEF SumFunction, SumFunctionOnSet, FoldFunctionOnSet, MapThenFoldSet
  <2> QED BY <2>1, <2>2
<1>8. /\ \A w \in SUBSET S : w = {} => it[w] = 0
      /\ \A w \in SUBSET S : w # {} => it[w] = f[CHOOSE x \in w : TRUE] + it[w \ {CHOOSE x \in w : TRUE}]
  <2> HIDE DEF it
  <2> QED BY <1>6
<1> HIDE DEF Eq, it
<1>9. Folds0(f, SUBSET S, it)
  BY <1>8 DEF Folds0
<1>10. Scaled(S, f, g, S, f, it, 1)
  <2>1. \A x \in S : f[x] = 1 * f[x]
    OBVIOUS
  <2> QED BY <1>4, <1>9, <2>1 DEF Scaled
<1>11. it[S] = 1 * g[S]
  BY <1>10, FoldsScaled
<1>12. g[S] \in Int
  BY <1>4
<1> QED BY <1>4, <1>7, <1>11, <1>12

(* Whichever element is taken first.                                       *)
LEMMA FoldsAnyFirst ==
  ASSUME NEW S, IsFiniteSet(S), NEW f \in [S -> Int], NEW g \in [SUBSET S -> Int],
         Folds0(f, SUBSET S, g), NEW z \in S
  PROVE  g[S] = f[z] + g[S \ {z}]
<1> DEFINE E == {m \in Nat : \A w \in SUBSET S : Cardinality(w) = m => \A x \in w : g[w] = f[x] + g[w \ {x}]}
<1>1. ASSUME NEW w \in SUBSET S PROVE IsFiniteSet(w) /\ Cardinality(w) \in Nat
  BY FS_Subset, FS_CardinalityType
<1>2. 0 \in E
  <2> SUFFICES ASSUME NEW w \in SUBSET S, Cardinality(w) = 0, NEW x \in w PROVE FALSE
    OBVIOUS
  <2>1. w = {}
    BY <1>1, FS_EmptySet
  <2> QED BY <2>1
<1>3. ASSUME NEW m \in Nat, m \in E PROVE m + 1 \in E
  <2> SUFFICES ASSUME NEW w \in SUBSET S, Cardinality(w) = m + 1, NEW x \in w
               PROVE  g[w] = f[x] + g[w \ {x}]
    OBVIOUS
  <2>1. PICK y, u, v : y = (CHOOSE q \in w : TRUE) /\ u = w \ {y} /\ v = w \ {x}
    OBVIOUS
  <2>2. y \in w
    BY <2>1
  <2>3. u \in SUBSET S /\ v \in SUBSET S /\ Cardinality(u) = m /\ Cardinality(v) = m
    <3>1. Cardinality(w \ {y}) = Cardinality(w) - 1
      BY <1>1, <2>2, FS_RemoveElement
    <3>2. Cardinality(w \ {x}) = Cardinality(w) - 1
      BY <1>1, FS_RemoveElement
    <3> QED BY <2>1, <3>1, <3>2
  <2>4. g[w] = f[y] + g[u]
    BY <2>1, <2>2 DEF Folds0
  <2>5. CASE x = y
    BY <2>1, <2>4, <2>5
  <2>6. CASE x # y
    <3>1. PICK r : r = u \ {x}
      OBVIOUS
    <3>2. x \in u /\ y \in v /\ r = v \ {y} /\ r \in SUBSET S
      BY <2>1, <2>2, <2>3, <2>6, <3>1
    <3>3. g[u] = f[x] + g[u \ {x}]
      BY <1>3, <2>3, <3>2
    <3>4. g[v] = f[y] + g[v \ {y}]
      BY <1>3, <2>3, <3>2
    <3>5. f[x] \in Int /\ f[y] \in Int /\ g[r] \in Int
      BY <2>2, <3>2
    <3>6. g[u] = f[x] + g[r] /\ g[v] = f[y] + g[r]
      BY <3>1, <3>2, <3>3, <3>4
    <3>7. g[w] = f[x] + g[v]
      BY <2>4, <3>5, <3>6
    <3> QED BY <2>1, <3>7
  <2> QED BY <2>5, <2>6
<1> HIDE DEF E
<1>4. Nat \subseteq E
  BY <1>2, <1>3, Induction
<1>5. Cardinality(S) \in E
  BY <1>1, <1>4
<1> QED BY <1>5 DEF E

(* A sum of one element and of others that were summed and scaled before.  *)
Enlarged(S, t, f, e, c) ==
  /\ IsFiniteSet(S) /\ t \in S /\ f \in [S -> Int] /\ e \in [S \ {t} -> Int] /\ c \in Int
  /\ \A u \in S \ {t} : f[u] = c * e[u]

(* Its sum is that element and c times the sum of the others.              *)
LEMMA SumEnlarged ==
  ASSUME NEW S, NEW t, NEW f, NEW e, NEW c, Enlarged(S, t, f, e, c)
  PROVE  SumFunction(f) = f[t] + c * SumFunction(e)
<1>1. /\ IsFiniteSet(S) /\ t \in S /\ f \in [S -> Int] /\ e \in [S \ {t} -> Int] /\ c \in Int
      /\ \A u \in S \ {t} : f[u] = c * e[u]
  BY DEF Enlarged
<1>2. PICK E : E = S \ {t}
  OBVIOUS
<1>3. IsFiniteSet(E) /\ E \subseteq S /\ e \in [E -> Int]
  BY <1>1, <1>2, FS_Subset
<1>4. PICK g \in [SUBSET S -> Int] : Folds0(f, SUBSET S, g) /\ SumFunction(f) = g[S]
  BY <1>1, SumFunctionIs
<1>5. PICK h \in [SUBSET E -> Int] : Folds0(e, SUBSET E, h) /\ SumFunction(e) = h[E]
  BY <1>3, SumFunctionIs
<1>6. Scaled(E, e, h, S, f, g, c)
  BY <1>1, <1>2, <1>3, <1>4, <1>5 DEF Scaled
<1>7. g[E] = c * h[E]
  BY <1>6, FoldsScaled
<1>8. g[S] = f[t] + g[E]
  BY <1>1, <1>2, <1>4, FoldsAnyFirst
<1> QED BY <1>4, <1>5, <1>7, <1>8

(* The sum of integers is one, and that of none is 0.                      *)
LEMMA SumFunctionType ==
  ASSUME NEW S, IsFiniteSet(S), NEW f \in [S -> Int]
  PROVE  SumFunction(f) \in Int /\ (S = {} => SumFunction(f) = 0)
<1>1. PICK g \in [SUBSET S -> Int] : Folds0(f, SUBSET S, g) /\ SumFunction(f) = g[S]
  BY SumFunctionIs
<1>2. S = {} => g[S] = 0
  BY <1>1 DEF Folds0
<1> QED BY <1>1, <1>2

(* Powers.                                                                 *)
Powers(b, n, f) == f \in [0 .. n -> Int] /\ f[0] = 1 /\ \A i \in 1 .. n : f[i] = b * f[i - 1]

(* A power is the last of the powers up to it.                             *)
LEMMA PowerIs ==
  ASSUME NEW b \in Int, NEW n \in Nat
  PROVE  \E f : Powers(b, n, f) /\ Power(b, n) = f[n]
<1> DEFINE T == {m \in Nat : \E f : Powers(b, m, f)}
<1>1. 0 \in T
  <2>1. PICK f : f = [i \in 0 .. 0 |-> 1]
    OBVIOUS
  <2>2. f \in [0 .. 0 -> Int] /\ f[0] = 1
    BY <2>1
  <2>3. Powers(b, 0, f)
    BY <2>2 DEF Powers
  <2> QED BY <2>3
<1>2. ASSUME NEW m \in Nat, m \in T PROVE m + 1 \in T
  <2>1. PICK f : Powers(b, m, f)
    BY <1>2
  <2>2. f \in [0 .. m -> Int] /\ f[0] = 1 /\ \A i \in 1 .. m : f[i] = b * f[i - 1]
    BY <2>1 DEF Powers
  <2>3. PICK p : p = b * f[m]
    OBVIOUS
  <2>4. p \in Int
    <3>1. f[m] \in Int
      BY <2>2
    <3> QED BY <2>3, <3>1
  <2>5. PICK g : g = [i \in 0 .. m + 1 |-> IF i <= m THEN f[i] ELSE p]
    OBVIOUS
  <2>6. g \in [0 .. m + 1 -> Int] /\ g[m + 1] = p /\ \A i \in 0 .. m : g[i] = f[i]
    BY <2>2, <2>4, <2>5
  <2>7. ASSUME NEW i \in 1 .. m + 1 PROVE g[i] = b * g[i - 1]
    <3>1. CASE i = m + 1
      <4>1. i - 1 = m /\ m \in 0 .. m
        BY <3>1
      <4> QED BY <2>3, <2>6, <3>1, <4>1
    <3>2. CASE i # m + 1
      <4>1. i \in 1 .. m /\ i \in 0 .. m /\ i - 1 \in 0 .. m
        BY <3>2
      <4> QED BY <2>2, <2>6, <4>1
    <3> QED BY <3>1, <3>2
  <2>8. Powers(b, m + 1, g)
    BY <2>2, <2>6, <2>7 DEF Powers
  <2> QED BY <2>8
<1>3. n \in T
  <2> HIDE DEF T
  <2> QED BY <1>1, <1>2, Induction
<1>4. PICK f : Powers(b, n, f)
  BY <1>3
<1>5. f \in [0 .. n -> Int] /\ f[0] = 1 /\ \A i \in 1 .. n : f[i] = b * f[i - 1]
  BY <1>4 DEF Powers
<1> DEFINE Eq(g) == g = [m \in 0 .. n |-> IF m = 0 THEN 1 ELSE b * g[m - 1]]
           power == CHOOSE g : Eq(g)
<1>6. Eq(f)
  <2>1. \A m \in 0 .. n : m # 0 => m \in 1 .. n
    OBVIOUS
  <2>2. \A m \in 0 .. n : f[m] = IF m = 0 THEN 1 ELSE b * f[m - 1]
    BY <1>5, <2>1
  <2> QED BY <1>5, <2>2
<1>7. Eq(power)
  <2> HIDE DEF Eq
  <2> QED BY <1>6
<1>8. Power(b, n) = power[n]
  BY DEF Power
<1> HIDE DEF power
<1>9. \A m \in 0 .. n : power[m] = IF m = 0 THEN 1 ELSE b * power[m - 1]
  BY <1>7
<1> DEFINE U == {m \in Nat : m <= n => power[m] = f[m]}
<1>10. 0 \in U
  BY <1>5, <1>9
<1>11. ASSUME NEW m \in Nat, m \in U PROVE m + 1 \in U
  <2> SUFFICES ASSUME m + 1 <= n PROVE power[m + 1] = f[m + 1]
    OBVIOUS
  <2>1. m <= n /\ m + 1 \in 0 .. n /\ m + 1 \in 1 .. n /\ m + 1 # 0 /\ (m + 1) - 1 = m
    OBVIOUS
  <2> QED BY <1>5, <1>9, <1>11, <2>1
<1>12. power[n] = f[n]
  <2> HIDE DEF U
  <2>1. n \in U
    BY <1>10, <1>11, Induction
  <2> QED BY <2>1 DEF U
<1> QED BY <1>4, <1>8, <1>12

(* The laws of the exponent that the discounts need.                       *)
LEMMA PowersAgree ==
  ASSUME NEW b \in Int, NEW n \in Nat
  PROVE  Power(b, n) \in Int /\ Power(b, 0) = 1 /\ Power(b, n + 1) = b * Power(b, n)
<1>1. PICK f : Powers(b, n, f) /\ Power(b, n) = f[n]
  BY PowerIs
<1>2. PICK g : Powers(b, n + 1, g) /\ Power(b, n + 1) = g[n + 1]
  BY PowerIs
<1>3. PICK z : Powers(b, 0, z) /\ Power(b, 0) = z[0]
  BY PowerIs
<1>4. /\ f \in [0 .. n -> Int] /\ f[0] = 1 /\ \A i \in 1 .. n : f[i] = b * f[i - 1]
      /\ g \in [0 .. n + 1 -> Int] /\ g[0] = 1 /\ \A i \in 1 .. n + 1 : g[i] = b * g[i - 1]
      /\ z[0] = 1
  BY <1>1, <1>2, <1>3 DEF Powers
<1> DEFINE U == {m \in Nat : m <= n => g[m] = f[m]}
<1>5. 0 \in U
  BY <1>4
<1>6. ASSUME NEW m \in Nat, m \in U PROVE m + 1 \in U
  <2> SUFFICES ASSUME m + 1 <= n PROVE g[m + 1] = f[m + 1]
    OBVIOUS
  <2>1. m <= n /\ m + 1 \in 1 .. n /\ m + 1 \in 1 .. n + 1 /\ (m + 1) - 1 = m
    OBVIOUS
  <2> QED BY <1>4, <1>6, <2>1
<1>7. g[n] = f[n]
  <2> HIDE DEF U
  <2>1. n \in U
    BY <1>5, <1>6, Induction
  <2> QED BY <2>1 DEF U
<1>8. g[n + 1] = b * g[n] /\ f[n] \in Int
  <2>1. n + 1 \in 1 .. n + 1 /\ (n + 1) - 1 = n /\ n \in 0 .. n
    OBVIOUS
  <2> QED BY <1>4, <2>1
<1> QED BY <1>1, <1>2, <1>3, <1>4, <1>7, <1>8

(* A recursion from the end: what position t makes of position t + 1.      *)
Backward(V, n, step, last, g) ==
  /\ g \in [1 .. n + 1 -> V] /\ g[n + 1] = last
  /\ \A t \in 1 .. n : g[t] = step[t][g[t + 1]]

Stepping(V, n, step, last) == n \in Nat /\ last \in V /\ step \in [1 .. n -> [V -> V]]

(* There is such a function, from the last token to the first.             *)
LEMMA BackwardExists ==
  ASSUME NEW V, NEW n, NEW step, NEW last, Stepping(V, n, step, last)
  PROVE  \E g : Backward(V, n, step, last, g)
<1>1. n \in Nat /\ last \in V /\ step \in [1 .. n -> [V -> V]]
  BY DEF Stepping
<1> DEFINE Ok(m, g) == /\ g \in [n + 1 - m .. n + 1 -> V] /\ g[n + 1] = last
                       /\ \A t \in n + 1 - m .. n : g[t] = step[t][g[t + 1]]
           T == {m \in Nat : m <= n => \E g : Ok(m, g)}
<1>2. 0 \in T
  <2>1. PICK g : g = [t \in n + 1 - 0 .. n + 1 |-> last]
    OBVIOUS
  <2>2. n + 1 \in n + 1 - 0 .. n + 1
    BY <1>1
  <2>3. g \in [n + 1 - 0 .. n + 1 -> V] /\ g[n + 1] = last
    BY <1>1, <2>1, <2>2
  <2>4. \A t \in n + 1 - 0 .. n : FALSE
    BY <1>1
  <2>5. Ok(0, g)
    BY <2>3, <2>4
  <2> QED BY <2>5
<1>3. ASSUME NEW m \in Nat, m \in T PROVE m + 1 \in T
  <2> SUFFICES ASSUME m + 1 <= n PROVE \E g : Ok(m + 1, g)
    OBVIOUS
  <2>1. PICK s : s = n - m
    OBVIOUS
  <2>2. m <= n /\ s \in 1 .. n /\ n + 1 - (m + 1) = s /\ n + 1 - m = s + 1
    BY <1>1, <2>1
  <2>3. PICK g : Ok(m, g)
    BY <1>3, <2>2
  <2>4. /\ g \in [s + 1 .. n + 1 -> V] /\ g[n + 1] = last
        /\ \A t \in s + 1 .. n : g[t] = step[t][g[t + 1]]
    BY <2>2, <2>3
  <2>5. PICK v : v = step[s][g[s + 1]]
    OBVIOUS
  <2>6. v \in V
    <3>1. s + 1 \in s + 1 .. n + 1
      BY <1>1, <2>2
    <3>2. g[s + 1] \in V
      BY <2>4, <3>1
    <3>3. step[s] \in [V -> V]
      BY <1>1, <2>2
    <3> QED BY <2>5, <3>2, <3>3
  <2>7. PICK h : h = [t \in s .. n + 1 |-> IF t = s THEN v ELSE g[t]]
    OBVIOUS
  <2>8. \A t \in s + 1 .. n + 1 : t \in s .. n + 1 /\ t # s /\ h[t] = g[t] /\ h[t] \in V
    BY <1>1, <2>2, <2>4, <2>7
  <2>9. s \in s .. n + 1 /\ h[s] = v
    BY <1>1, <2>2, <2>7
  <2>10. h \in [s .. n + 1 -> V]
    <3>1. \A t \in s .. n + 1 : t = s \/ t \in s + 1 .. n + 1
      BY <1>1, <2>2
    <3> QED BY <2>6, <2>7, <2>8, <2>9, <3>1
  <2>11. n + 1 \in s + 1 .. n + 1 /\ s + 1 \in s + 1 .. n + 1
    BY <1>1, <2>2
  <2>12. ASSUME NEW t \in s .. n PROVE h[t] = step[t][h[t + 1]]
    <3>1. CASE t = s
      BY <2>5, <2>8, <2>9, <2>11, <3>1
    <3>2. CASE t # s
      <4>1. t \in s + 1 .. n /\ t \in s + 1 .. n + 1 /\ t + 1 \in s + 1 .. n + 1
        BY <1>1, <2>2, <3>2
      <4> QED BY <2>4, <2>8, <4>1
    <3> QED BY <3>1, <3>2
  <2>13. h[n + 1] = last
    BY <2>4, <2>8, <2>11
  <2>14. Ok(m + 1, h)
    BY <2>2, <2>10, <2>12, <2>13
  <2> QED BY <2>14
<1>4. n \in T
  <2> HIDE DEF T
  <2> QED BY <1>1, <1>2, <1>3, Induction
<1>5. PICK g : Ok(n, g)
  BY <1>1, <1>4
<1>6. n + 1 - n = 1
  BY <1>1
<1>7. Backward(V, n, step, last, g)
  BY <1>5, <1>6 DEF Backward
<1> QED BY <1>7

-----------------------------------------------------------------------------
(* GAE and REINFORCE++.                                                    *)

(* A response, its tokens masked or not.                                   *)
Crediting(n, rewards, values, mask, gamma, lam) ==
  /\ n \in Nat /\ rewards \in [1 .. n -> Int] /\ values \in [1 .. n -> Int]
  /\ mask \in [1 .. n -> {0, 1}] /\ gamma \in Int /\ lam \in Int

Gaes == [nextvalues : Int, lastgaelam : Int]

(* The recursion of compute_gae_advantage_return, with its selections by   *)
(* the mask resolved.                                                      *)
GaeSteps(n, rewards, values, mask, gamma, lam, g) ==
  /\ g \in [1 .. n + 1 -> Gaes] /\ g[n + 1] = [nextvalues |-> 0, lastgaelam |-> 0]
  /\ \A t \in 1 .. n : mask[t] = 0 => g[t] = g[t + 1]
  /\ \A t \in 1 .. n : mask[t] = 1 =>
       /\ g[t].nextvalues = values[t]
       /\ g[t].lastgaelam = rewards[t] + gamma * g[t + 1].nextvalues - values[t]
                            + gamma * lam * g[t + 1].lastgaelam

(* GAE is computed by these steps.                                         *)
LEMMA GaeIs ==
  ASSUME NEW n, NEW rewards, NEW values, NEW mask, NEW gamma, NEW lam,
         Crediting(n, rewards, values, mask, gamma, lam)
  PROVE  \E g : /\ GaeSteps(n, rewards, values, mask, gamma, lam, g)
                /\ Gae(rewards, values, mask, gamma, lam) = [t \in 1 .. n |-> g[t].lastgaelam]
<1>1. /\ n \in Nat /\ rewards \in [1 .. n -> Int] /\ values \in [1 .. n -> Int]
      /\ mask \in [1 .. n -> {0, 1}] /\ gamma \in Int /\ lam \in Int
  BY DEF Crediting
<1>2. Len(rewards) = n
  BY <1>1, SameSeq
<1> DEFINE Made(t, v) ==
             [nextvalues |-> Select(mask[t], values[t], v.nextvalues),
              lastgaelam |-> Select(mask[t], rewards[t] + gamma * v.nextvalues - values[t]
                                             + gamma * lam * v.lastgaelam, v.lastgaelam)]
           none == [nextvalues |-> 0, lastgaelam |-> 0]
           step == [t \in 1 .. n |-> [v \in Gaes |-> Made(t, v)]]
<1>3. ASSUME NEW t \in 1 .. n, NEW v \in Gaes
      PROVE  /\ Made(t, v) \in Gaes
             /\ mask[t] = 0 => Made(t, v) = v
             /\ mask[t] = 1 => /\ Made(t, v).nextvalues = values[t]
                               /\ Made(t, v).lastgaelam = rewards[t] + gamma * v.nextvalues - values[t]
                                                          + gamma * lam * v.lastgaelam
  <2>1. PICK r, q, a, b, c :
          /\ r = rewards[t] /\ q = values[t] /\ a = v.nextvalues /\ b = v.lastgaelam
          /\ c = r + gamma * a - q + gamma * lam * b
    OBVIOUS
  <2>2. r \in Int /\ q \in Int /\ a \in Int /\ b \in Int /\ v = [nextvalues |-> a, lastgaelam |-> b]
    BY <1>1, <2>1 DEF Gaes
  <2>3. c \in Int
    <3>1. gamma * a \in Int /\ gamma * lam * b \in Int
      BY <1>1, <2>2
    <3> QED BY <2>1, <2>2, <3>1
  <2>4. Made(t, v) = [nextvalues |-> Select(mask[t], q, a), lastgaelam |-> Select(mask[t], c, b)]
    BY <2>1
  <2> HIDE DEF Made
  <2>5. CASE mask[t] = 0
    <3>1. Select(mask[t], q, a) = a /\ Select(mask[t], c, b) = b
      BY <2>2, <2>3, <2>5 DEF Select
    <3> QED BY <2>2, <2>4, <2>5, <3>1
  <2>6. CASE mask[t] = 1
    <3>1. Select(mask[t], q, a) = q /\ Select(mask[t], c, b) = c
      BY <2>2, <2>3, <2>6 DEF Select
    <3>2. Made(t, v) = [nextvalues |-> q, lastgaelam |-> c]
      BY <2>4, <3>1
    <3>3. [nextvalues |-> q, lastgaelam |-> c] \in Gaes
      BY <2>2, <2>3 DEF Gaes
    <3> QED BY <2>1, <2>6, <3>2, <3>3
  <2>7. mask[t] = 0 \/ mask[t] = 1
    BY <1>1
  <2> QED BY <2>5, <2>6, <2>7
<1>4. PICK g : Backward(Gaes, n, step, none, g)
  <2>1. none \in Gaes
    BY DEF Gaes
  <2> HIDE DEF none, Made
  <2>2. step \in [1 .. n -> [Gaes -> Gaes]]
    BY <1>3
  <2>3. Stepping(Gaes, n, step, none)
    BY <1>1, <2>1, <2>2 DEF Stepping
  <2> QED BY <2>3, BackwardExists
<1>5. /\ g \in [1 .. n + 1 -> Gaes] /\ g[n + 1] = none
      /\ \A t \in 1 .. n : g[t] = Made(t, g[t + 1]) /\ g[t + 1] \in Gaes
  <2> HIDE DEF Made, none
  <2>1. g \in [1 .. n + 1 -> Gaes] /\ g[n + 1] = none /\ \A t \in 1 .. n : g[t] = step[t][g[t + 1]]
    BY <1>4 DEF Backward
  <2>2. ASSUME NEW t \in 1 .. n PROVE g[t] = Made(t, g[t + 1]) /\ g[t + 1] \in Gaes
    <3>1. t + 1 \in 1 .. n + 1
      BY <1>1
    <3>2. g[t + 1] \in Gaes
      BY <2>1, <3>1
    <3> QED BY <2>1, <3>2
  <2> QED BY <2>1, <2>2
<1> DEFINE Eq(h) == h = [t \in 1 .. n + 1 |-> IF t > n THEN none ELSE Made(t, h[t + 1])]
           from == CHOOSE h : Eq(h)
<1>6. Eq(g)
  <2> HIDE DEF Made, none
  <2>1. ASSUME NEW t \in 1 .. n + 1 PROVE g[t] = IF t > n THEN none ELSE Made(t, g[t + 1])
    <3>1. CASE t > n
      <4>1. t = n + 1
        BY <1>1, <3>1
      <4> QED BY <1>5, <3>1, <4>1
    <3>2. CASE ~(t > n)
      <4>1. t \in 1 .. n
        BY <1>1, <3>2
      <4> QED BY <1>5, <3>2, <4>1
    <3> QED BY <3>1, <3>2
  <2>2. g = [t \in 1 .. n + 1 |-> g[t]]
    BY <1>5
  <2> QED BY <2>1, <2>2
<1>7. Eq(from)
  <2> HIDE DEF Eq
  <2> QED BY <1>6
<1>8. Gae(rewards, values, mask, gamma, lam) = [t \in 1 .. n |-> from[t].lastgaelam]
  BY <1>2 DEF Gae
<1> HIDE DEF from
<1>9. \A t \in 1 .. n + 1 : from[t] = IF t > n THEN none ELSE Made(t, from[t + 1])
  <2> HIDE DEF Made, none
  <2> QED BY <1>7
<1> HIDE DEF Made, none, Eq
<1> DEFINE T == {m \in Nat : m <= n => from[n + 1 - m] = g[n + 1 - m]}
<1>10. 0 \in T
  <2>1. n + 1 - 0 = n + 1 /\ n + 1 \in 1 .. n + 1 /\ n + 1 > n
    BY <1>1
  <2> QED BY <1>5, <1>9, <2>1
<1>11. ASSUME NEW m \in Nat, m \in T PROVE m + 1 \in T
  <2> SUFFICES ASSUME m + 1 <= n PROVE from[n + 1 - (m + 1)] = g[n + 1 - (m + 1)]
    OBVIOUS
  <2>1. PICK s : s = n - m
    OBVIOUS
  <2>2. /\ m <= n /\ s \in 1 .. n /\ n + 1 - (m + 1) = s /\ n + 1 - m = s + 1 /\ s \in 1 .. n + 1 /\ ~(s > n)
    BY <1>1, <2>1
  <2>3. from[s + 1] = g[s + 1]
    BY <1>11, <2>2
  <2> QED BY <1>5, <1>9, <2>2, <2>3
<1>12. \A t \in 1 .. n : from[t] = g[t]
  <2> SUFFICES ASSUME NEW t \in 1 .. n PROVE from[t] = g[t]
    OBVIOUS
  <2>1. PICK m : m = n + 1 - t
    OBVIOUS
  <2>2. m \in Nat /\ m <= n /\ n + 1 - m = t
    BY <1>1, <2>1
  <2>3. m \in T
    <3> HIDE DEF T
    <3> QED BY <1>10, <1>11, <2>2, Induction
  <2> QED BY <2>2, <2>3
<1>13. GaeSteps(n, rewards, values, mask, gamma, lam, g)
  <2>1. ASSUME NEW t \in 1 .. n
        PROVE  /\ mask[t] = 0 => g[t] = g[t + 1]
               /\ mask[t] = 1 =>
                    /\ g[t].nextvalues = values[t]
                    /\ g[t].lastgaelam = rewards[t] + gamma * g[t + 1].nextvalues - values[t]
                                         + gamma * lam * g[t + 1].lastgaelam
    <3>1. PICK v : v = g[t + 1]
      OBVIOUS
    <3>2. v \in Gaes /\ g[t] = Made(t, v)
      BY <1>5, <3>1
    <3> QED BY <1>3, <3>1, <3>2
  <2>2. g[n + 1] = [nextvalues |-> 0, lastgaelam |-> 0]
    BY <1>5 DEF none
  <2> QED BY <1>5, <2>1, <2>2 DEF GaeSteps
<1>14. [t \in 1 .. n |-> from[t].lastgaelam] = [t \in 1 .. n |-> g[t].lastgaelam]
  BY <1>12
<1> QED BY <1>8, <1>13, <1>14

(* The tokens of the response from s on, those before u, and the value of  *)
(* the first.                                                              *)
OwnFrom(mask, n, s) == {u \in 1 .. n : mask[u] = 1 /\ s <= u}

OwnBetween(mask, n, s, u) == {w \in 1 .. n : mask[w] = 1 /\ s <= w /\ w < u}

FirstValue(values, mask, n, s) ==
  IF OwnFrom(mask, n, s) = {} THEN 0 ELSE values[Min(OwnFrom(mask, n, s))]

Deltas(rewards, values, mask, n, gamma) ==
  [t \in 1 .. n |-> rewards[t] + gamma * FirstValue(values, mask, n, t + 1) - values[t]]

Decayed(delta, mask, n, b, s) ==
  [u \in OwnFrom(mask, n, s) |-> Power(b, Cardinality(OwnBetween(mask, n, s, u))) * delta[u]]

(* The smallest of a set of numbers.                                       *)
LEMMA LeastIs ==
  ASSUME NEW n \in Nat, NEW S \in SUBSET (1 .. n), S # {}
  PROVE  Min(S) \in S /\ \A y \in S : Min(S) <= y
<1>1. S \in SUBSET Nat
  OBVIOUS
<1>2. \E x \in S : \A y \in S : x <= y
  BY <1>1, LeastNumber
<1> QED BY <1>2 DEF Min

(* It is the value of s if s is of the response.                           *)
LEMMA FirstValueIs ==
  ASSUME NEW n \in Nat, NEW values \in [1 .. n -> Int], NEW mask, NEW s \in 1 .. n + 1
  PROVE  /\ FirstValue(values, mask, n, s) \in Int
         /\ s = n + 1 => FirstValue(values, mask, n, s) = 0 /\ OwnFrom(mask, n, s) = {}
         /\ s <= n /\ mask[s] = 1 => FirstValue(values, mask, n, s) = values[s]
<1>1. PICK S, m : S = OwnFrom(mask, n, s) /\ m = Min(S)
  OBVIOUS
<1>2. S \in SUBSET (1 .. n) /\ \A u \in S : s <= u
  BY <1>1 DEF OwnFrom
<1>3. S # {} => m \in S /\ \A y \in S : m <= y
  BY <1>1, <1>2, LeastIs
<1>4. FirstValue(values, mask, n, s) = IF S = {} THEN 0 ELSE values[m]
  BY <1>1 DEF FirstValue
<1>5. FirstValue(values, mask, n, s) \in Int
  <2>1. S # {} => values[m] \in Int
    BY <1>2, <1>3
  <2> QED BY <1>4, <2>1
<1>6. s = n + 1 => S = {}
  <2> SUFFICES ASSUME s = n + 1, NEW u \in S PROVE FALSE
    OBVIOUS
  <2>1. u \in 1 .. n /\ s <= u
    BY <1>2
  <2> QED BY <2>1
<1>7. ASSUME s <= n, mask[s] = 1 PROVE FirstValue(values, mask, n, s) = values[s]
  <2>1. s \in S
    BY <1>1, <1>7 DEF OwnFrom
  <2>2. m \in 1 .. n /\ m <= s /\ s <= m
    BY <1>2, <1>3, <2>1
  <2>3. m = s
    BY <2>2
  <2> QED BY <1>4, <2>1, <2>3
<1> QED BY <1>1, <1>4, <1>5, <1>6, <1>7

(* What the decayed deltas from s on are, given those from s + 1 on.       *)
Decaying(delta, mask, n, b, s) ==
  /\ n \in Nat /\ s \in 1 .. n /\ delta \in [1 .. n -> Int] /\ b \in Int

(* There are finitely many, and they are integers.                         *)
LEMMA DecayedType ==
  ASSUME NEW delta, NEW mask, NEW n \in Nat, NEW b \in Int, NEW s \in Int, delta \in [1 .. n -> Int]
  PROVE  /\ IsFiniteSet(OwnFrom(mask, n, s))
         /\ Decayed(delta, mask, n, b, s) \in [OwnFrom(mask, n, s) -> Int]
<1>1. PICK S, f : S = OwnFrom(mask, n, s) /\ f = Decayed(delta, mask, n, b, s)
  OBVIOUS
<1>2. S \in SUBSET (1 .. n)
  BY <1>1 DEF OwnFrom
<1>3. IsFiniteSet(1 .. n)
  BY FS_Interval
<1>4. IsFiniteSet(S)
  BY <1>2, <1>3, FS_Subset
<1>5. ASSUME NEW u \in S PROVE f[u] \in Int
  <2>1. PICK B, k, p : B = OwnBetween(mask, n, s, u) /\ k = Cardinality(B) /\ p = Power(b, k)
    OBVIOUS
  <2>2. B \in SUBSET (1 .. n)
    BY <2>1 DEF OwnBetween
  <2>3. k \in Nat
    BY <1>3, <2>1, <2>2, FS_Subset, FS_CardinalityType
  <2>4. p \in Int
    BY <2>1, <2>3, PowersAgree
  <2>5. delta[u] \in Int
    BY <1>2
  <2>6. f[u] = p * delta[u]
    BY <1>1, <2>1 DEF Decayed
  <2> QED BY <2>4, <2>5, <2>6
<1>6. f \in [S -> Int]
  <2>1. f = [u \in S |-> f[u]]
    BY <1>1 DEF Decayed
  <2> QED BY <1>5, <2>1
<1> QED BY <1>1, <1>4, <1>6

(* An observation adds nothing; a token of the response adds its delta,    *)
(* and all the others decay once more.                                     *)
LEMMA DecayedStep ==
  ASSUME NEW delta, NEW mask, NEW n, NEW b, NEW s, Decaying(delta, mask, n, b, s)
  PROVE  /\ mask[s] # 1 => Decayed(delta, mask, n, b, s) = Decayed(delta, mask, n, b, s + 1)
         /\ mask[s] = 1 => SumFunction(Decayed(delta, mask, n, b, s))
                             = delta[s] + b * SumFunction(Decayed(delta, mask, n, b, s + 1))
<1>1. n \in Nat /\ s \in 1 .. n /\ s \in Int /\ s + 1 \in Int /\ delta \in [1 .. n -> Int] /\ b \in Int
  BY DEF Decaying
<1>2. PICK S, E, f, e : /\ S = OwnFrom(mask, n, s) /\ E = OwnFrom(mask, n, s + 1)
                        /\ f = Decayed(delta, mask, n, b, s) /\ e = Decayed(delta, mask, n, b, s + 1)
  OBVIOUS
<1>3. \A u \in 1 .. n : (s <= u <=> u = s \/ s + 1 <= u) /\ (s + 1 <= u => u # s /\ s < u)
  BY <1>1
<1>4. ASSUME mask[s] # 1 PROVE f = e
  <2>1. S = E
    BY <1>2, <1>3, <1>4 DEF OwnFrom
  <2>2. ASSUME NEW u PROVE OwnBetween(mask, n, s, u) = OwnBetween(mask, n, s + 1, u)
    BY <1>3, <1>4 DEF OwnBetween
  <2> QED BY <1>2, <2>1, <2>2 DEF Decayed
<1>5. ASSUME mask[s] = 1 PROVE SumFunction(f) = delta[s] + b * SumFunction(e)
  <2>1. s \in S /\ S \ {s} = E
    BY <1>1, <1>2, <1>3, <1>5 DEF OwnFrom
  <2>2. IsFiniteSet(S) /\ f \in [S -> Int] /\ e \in [E -> Int]
    BY <1>1, <1>2, DecayedType
  <2>3. ASSUME NEW u \in E PROVE f[u] = b * e[u]
    <3>1. PICK B, C, k : /\ B = OwnBetween(mask, n, s, u) /\ C = OwnBetween(mask, n, s + 1, u)
                         /\ k = Cardinality(C)
      OBVIOUS
    <3>2. u \in 1 .. n /\ s + 1 <= u /\ s < u /\ u \in S
      BY <1>2, <1>3, <2>1 DEF OwnFrom
    <3>3. B = C \cup {s} /\ s \notin C
      BY <1>1, <1>3, <1>5, <3>1, <3>2 DEF OwnBetween
    <3>4. IsFiniteSet(C) /\ k \in Nat
      <4>1. IsFiniteSet(1 .. n)
        BY <1>1, FS_Interval
      <4>2. C \in SUBSET (1 .. n)
        BY <3>1 DEF OwnBetween
      <4> QED BY <3>1, <4>1, <4>2, FS_Subset, FS_CardinalityType
    <3>5. Cardinality(B) = k + 1
      BY <3>1, <3>3, <3>4, FS_AddElement
    <3>6. PICK p : p = Power(b, k)
      OBVIOUS
    <3>7. p \in Int /\ Power(b, k + 1) = b * p
      BY <1>1, <3>4, <3>6, PowersAgree
    <3>8. f[u] = (b * p) * delta[u] /\ e[u] = p * delta[u] /\ delta[u] \in Int
      <4>1. f[u] = Power(b, Cardinality(B)) * delta[u]
        BY <1>2, <3>1, <3>2 DEF Decayed
      <4>2. e[u] = Power(b, k) * delta[u]
        BY <1>2, <3>1 DEF Decayed
      <4>3. delta[u] \in Int
        BY <1>1, <3>2
      <4> QED BY <3>5, <3>6, <3>7, <4>1, <4>2, <4>3
    <3>9. (b * p) * delta[u] = b * (p * delta[u])
      BY <1>1, <3>7, <3>8
    <3> QED BY <3>8, <3>9
  <2>4. Enlarged(S, s, f, e, b)
    BY <1>1, <2>1, <2>2, <2>3 DEF Enlarged
  <2>5. SumFunction(f) = f[s] + b * SumFunction(e)
    BY <2>4, SumEnlarged
  <2>6. f[s] = delta[s]
    <3>1. OwnBetween(mask, n, s, s) = {}
      BY <1>1 DEF OwnBetween
    <3>2. Cardinality(OwnBetween(mask, n, s, s)) = 0
      BY <3>1, FS_EmptySet
    <3>3. f[s] = Power(b, 0) * delta[s]
      BY <1>2, <2>1, <3>2 DEF Decayed
    <3>4. Power(b, 0) = 1
      BY <1>1, PowersAgree
    <3>5. delta[s] \in Int
      BY <1>1
    <3> QED BY <3>3, <3>4, <3>5
  <2> QED BY <2>5, <2>6
<1> QED BY <1>2, <1>4, <1>5

(* GAE gives a token of the response the deltas from it on, those of the   *)
(* response without its observations, each decayed by the tokens before.   *)
THEOREM GaeSkipsObservations ==
  ASSUME NEW n, NEW rewards, NEW values, NEW mask, NEW gamma, NEW lam,
         Crediting(n, rewards, values, mask, gamma, lam), NEW t \in 1 .. n
  PROVE  Gae(rewards, values, mask, gamma, lam)[t]
           = SumFunction(Decayed(Deltas(rewards, values, mask, n, gamma), mask, n, gamma * lam, t))
<1>1. /\ n \in Nat /\ rewards \in [1 .. n -> Int] /\ values \in [1 .. n -> Int]
      /\ mask \in [1 .. n -> {0, 1}] /\ gamma \in Int /\ lam \in Int
  BY DEF Crediting
<1>2. PICK delta, b : delta = Deltas(rewards, values, mask, n, gamma) /\ b = gamma * lam
  OBVIOUS
<1>3. b \in Int
  BY <1>1, <1>2
<1>4. ASSUME NEW s \in 1 .. n
      PROVE  /\ delta[s] = rewards[s] + gamma * FirstValue(values, mask, n, s + 1) - values[s]
             /\ delta[s] \in Int
  <2>1. PICK v : v = FirstValue(values, mask, n, s + 1)
    OBVIOUS
  <2>2. s + 1 \in 1 .. n + 1
    BY <1>1
  <2>3. v \in Int
    BY <1>1, <2>1, <2>2, FirstValueIs
  <2>4. delta[s] = rewards[s] + gamma * v - values[s]
    BY <1>2, <2>1 DEF Deltas
  <2>5. rewards[s] \in Int /\ values[s] \in Int /\ gamma * v \in Int
    BY <1>1, <2>3
  <2> QED BY <2>1, <2>4, <2>5
<1>5. delta \in [1 .. n -> Int]
  <2>1. delta = [s \in 1 .. n |-> delta[s]]
    BY <1>2 DEF Deltas
  <2> QED BY <1>4, <2>1
<1>6. PICK g : /\ GaeSteps(n, rewards, values, mask, gamma, lam, g)
               /\ Gae(rewards, values, mask, gamma, lam) = [s \in 1 .. n |-> g[s].lastgaelam]
  BY GaeIs
<1>7. /\ g \in [1 .. n + 1 -> Gaes] /\ g[n + 1] = [nextvalues |-> 0, lastgaelam |-> 0]
      /\ \A s \in 1 .. n : mask[s] = 0 => g[s] = g[s + 1]
      /\ \A s \in 1 .. n : mask[s] = 1 =>
           /\ g[s].nextvalues = values[s]
           /\ g[s].lastgaelam = rewards[s] + gamma * g[s + 1].nextvalues - values[s]
                                + gamma * lam * g[s + 1].lastgaelam
  BY <1>6 DEF GaeSteps
<1> DEFINE Ok(s) == /\ g[s].nextvalues = FirstValue(values, mask, n, s)
                    /\ g[s].lastgaelam = SumFunction(Decayed(delta, mask, n, b, s))
<1>8. Ok(n + 1)
  <2>1. n + 1 \in 1 .. n + 1 /\ n + 1 \in Int
    BY <1>1
  <2>2. FirstValue(values, mask, n, n + 1) = 0 /\ OwnFrom(mask, n, n + 1) = {}
    BY <1>1, <2>1, FirstValueIs
  <2>3. PICK S, f : S = OwnFrom(mask, n, n + 1) /\ f = Decayed(delta, mask, n, b, n + 1)
    OBVIOUS
  <2>4. IsFiniteSet(S) /\ f \in [S -> Int]
    BY <1>1, <1>3, <1>5, <2>1, <2>3, DecayedType
  <2>5. SumFunction(f) = 0
    BY <2>2, <2>3, <2>4, SumFunctionType
  <2> QED BY <1>7, <2>2, <2>3, <2>5
<1>9. ASSUME NEW s \in 1 .. n, Ok(s + 1) PROVE Ok(s)
  <2>1. Decaying(delta, mask, n, b, s)
    BY <1>1, <1>3, <1>5 DEF Decaying
  <2>2. CASE mask[s] = 0
    <3>1. g[s] = g[s + 1]
      BY <1>7, <2>2
    <3>2. Decayed(delta, mask, n, b, s) = Decayed(delta, mask, n, b, s + 1)
      BY <2>1, <2>2, DecayedStep
    <3>3. OwnFrom(mask, n, s) = OwnFrom(mask, n, s + 1)
      <4>1. \A u \in 1 .. n : mask[u] = 1 => (s <= u <=> s + 1 <= u)
        BY <1>1, <2>2
      <4> QED BY <4>1 DEF OwnFrom
    <3>4. FirstValue(values, mask, n, s) = FirstValue(values, mask, n, s + 1)
      BY <3>3 DEF FirstValue
    <3> QED BY <1>9, <3>1, <3>2, <3>4
  <2>3. CASE mask[s] = 1
    <3>1. /\ g[s].nextvalues = values[s]
          /\ g[s].lastgaelam = rewards[s] + gamma * g[s + 1].nextvalues - values[s]
                               + gamma * lam * g[s + 1].lastgaelam
      BY <1>7, <2>3
    <3>2. FirstValue(values, mask, n, s) = values[s]
      <4>1. s \in 1 .. n + 1 /\ s <= n /\ n \in Nat /\ values \in [1 .. n -> Int]
        BY <1>1
      <4>2. s <= n /\ mask[s] = 1 => FirstValue(values, mask, n, s) = values[s]
        BY <4>1, FirstValueIs
      <4> QED BY <2>3, <4>1, <4>2
    <3>3. PICK x, y : x = g[s + 1].lastgaelam /\ y = g[s + 1].nextvalues
      OBVIOUS
    <3>4. y = FirstValue(values, mask, n, s + 1) /\ x = SumFunction(Decayed(delta, mask, n, b, s + 1))
      BY <1>9, <3>3
    <3>5. g[s].lastgaelam = delta[s] + b * x
      BY <1>2, <1>4, <3>1, <3>3, <3>4
    <3>6. SumFunction(Decayed(delta, mask, n, b, s)) = delta[s] + b * x
      BY <2>1, <2>3, <3>4, DecayedStep
    <3> QED BY <3>1, <3>2, <3>5, <3>6
  <2>4. mask[s] = 0 \/ mask[s] = 1
    BY <1>1
  <2> QED BY <2>2, <2>3, <2>4
<1> HIDE DEF Ok
<1> DEFINE T == {m \in Nat : m <= n => Ok(n + 1 - m)}
<1>10. 0 \in T
  <2>1. n + 1 - 0 = n + 1
    BY <1>1
  <2> QED BY <1>8, <2>1
<1>11. ASSUME NEW m \in Nat, m \in T PROVE m + 1 \in T
  <2> SUFFICES ASSUME m + 1 <= n PROVE Ok(n + 1 - (m + 1))
    OBVIOUS
  <2>1. PICK s : s = n - m
    OBVIOUS
  <2>2. m <= n /\ s \in 1 .. n /\ n + 1 - (m + 1) = s /\ n + 1 - m = s + 1
    BY <1>1, <2>1
  <2>3. Ok(s + 1)
    BY <1>11, <2>2
  <2> QED BY <1>9, <2>2, <2>3
<1>12. Ok(t)
  <2>1. PICK m : m = n + 1 - t
    OBVIOUS
  <2>2. m \in Nat /\ m <= n /\ n + 1 - m = t
    BY <1>1, <2>1
  <2>3. m \in T
    <3> HIDE DEF T
    <3> QED BY <1>10, <1>11, <2>2, Induction
  <2> QED BY <2>2, <2>3
<1>13. Gae(rewards, values, mask, gamma, lam)[t] = g[t].lastgaelam
  BY <1>6
<1> QED BY <1>2, <1>12, <1>13 DEF Ok

(* The recursion of compute_reinforce_plus_plus_outcome_advantage.         *)
ReturnSteps(n, rewards, mask, gamma, g) ==
  /\ g \in [1 .. n -> Int]
  /\ n > 0 => g[n] = rewards[n]
  /\ \A t \in 1 .. n - 1 : g[t] = rewards[t] + gamma * g[t + 1] * mask[t + 1]

Rewarding(n, rewards, mask, gamma) ==
  n \in Nat /\ rewards \in [1 .. n -> Int] /\ mask \in [1 .. n -> {0, 1}] /\ gamma \in Int

(* The returns are computed by these steps.                                *)
LEMMA ReturnsAre ==
  ASSUME NEW n, NEW rewards, NEW mask, NEW gamma, Rewarding(n, rewards, mask, gamma)
  PROVE  \E g : /\ ReturnSteps(n, rewards, mask, gamma, g)
                /\ ReinforcePlusPlus(rewards, mask, gamma) = g
<1>1. n \in Nat /\ rewards \in [1 .. n -> Int] /\ mask \in [1 .. n -> {0, 1}] /\ gamma \in Int
  BY DEF Rewarding
<1>2. Len(rewards) = n
  BY <1>1, SameSeq
<1> DEFINE Made(t, v) == rewards[t] + (IF t = n THEN 0 ELSE gamma * v * mask[t + 1])
           step == [t \in 1 .. n |-> [v \in Int |-> Made(t, v)]]
<1>3. ASSUME NEW t \in 1 .. n, NEW v \in Int PROVE Made(t, v) \in Int
  <2>1. PICK r : r = rewards[t]
    OBVIOUS
  <2>2. r \in Int
    BY <1>1, <2>1
  <2>3. CASE t = n
    BY <2>1, <2>2, <2>3
  <2>4. CASE t # n
    <3>1. t + 1 \in 1 .. n
      BY <1>1, <2>4
    <3>2. PICK k : k = mask[t + 1]
      OBVIOUS
    <3>3. k \in Int
      BY <1>1, <3>1, <3>2
    <3>4. gamma * v * k \in Int
      BY <1>1, <3>3
    <3>5. Made(t, v) = r + gamma * v * k
      BY <2>1, <2>4, <3>2
    <3> QED BY <2>2, <3>4, <3>5
  <2> QED BY <2>3, <2>4
<1>4. PICK h : Backward(Int, n, step, 0, h)
  <2> HIDE DEF Made
  <2>1. step \in [1 .. n -> [Int -> Int]]
    BY <1>3
  <2>2. Stepping(Int, n, step, 0)
    BY <1>1, <2>1 DEF Stepping
  <2> QED BY <2>2, BackwardExists
<1> DEFINE g == [t \in 1 .. n |-> h[t]]
<1>5. /\ g \in [1 .. n -> Int]
      /\ \A t \in 1 .. n : t < n => g[t] = Made(t, g[t + 1])
      /\ \A t \in 1 .. n : t = n => g[t] = rewards[t]
  <2>1. /\ h \in [1 .. n + 1 -> Int] /\ h[n + 1] = 0
        /\ \A t \in 1 .. n : h[t] = step[t][h[t + 1]]
    BY <1>4 DEF Backward
  <2>2. ASSUME NEW t \in 1 .. n PROVE h[t] = Made(t, h[t + 1]) /\ h[t + 1] \in Int /\ h[t] \in Int
    <3> HIDE DEF Made
    <3>1. t + 1 \in 1 .. n + 1 /\ t \in 1 .. n + 1
      BY <1>1
    <3>2. h[t + 1] \in Int /\ h[t] \in Int
      BY <2>1, <3>1
    <3> QED BY <2>1, <3>2
  <2>3. ASSUME NEW t \in 1 .. n, t < n PROVE g[t] = Made(t, g[t + 1])
    <3> HIDE DEF Made
    <3>1. t + 1 \in 1 .. n
      BY <1>1, <2>3
    <3>2. g[t + 1] = h[t + 1] /\ g[t] = h[t]
      BY <3>1
    <3> QED BY <2>2, <3>2
  <2>4. ASSUME NEW t \in 1 .. n, t = n PROVE g[t] = rewards[t]
    <3>1. PICK r : r = rewards[t]
      OBVIOUS
    <3>2. r \in Int
      BY <1>1, <3>1
    <3>3. Made(t, h[t + 1]) = r + 0
      BY <2>4, <3>1
    <3> HIDE DEF Made
    <3>4. h[t] = r + 0
      BY <2>2, <3>3
    <3> QED BY <3>1, <3>2, <3>4
  <2>5. g \in [1 .. n -> Int]
    BY <2>2
  <2> QED BY <2>3, <2>4, <2>5
<1> DEFINE Eq(e) == e = [t \in 1 .. n |-> rewards[t] + (IF t = n THEN 0 ELSE gamma * e[t + 1] * mask[t + 1])]
           from == CHOOSE e : Eq(e)
<1>6. Eq(g)
  <2> HIDE DEF g
  <2>1. ASSUME NEW t \in 1 .. n
        PROVE  g[t] = rewards[t] + (IF t = n THEN 0 ELSE gamma * g[t + 1] * mask[t + 1])
    <3>1. CASE t = n
      <4>1. PICK r : r = rewards[t]
        OBVIOUS
      <4>2. r \in Int /\ g[t] = r
        BY <1>1, <1>5, <3>1, <4>1
      <4>3. g[t] = r + 0
        BY <4>2
      <4> QED BY <3>1, <4>1, <4>3
    <3>2. CASE t # n
      <4>1. t < n
        BY <1>1, <3>2
      <4> QED BY <1>5, <4>1
    <3> QED BY <3>1, <3>2
  <2>2. g = [t \in 1 .. n |-> g[t]]
    BY <1>5
  <2> QED BY <2>1, <2>2
<1>7. Eq(from)
  <2> HIDE DEF Eq, g
  <2> QED BY <1>6
<1>8. ReinforcePlusPlus(rewards, mask, gamma) = [t \in 1 .. n |-> from[t]]
  BY <1>2 DEF ReinforcePlusPlus
<1> HIDE DEF from, g
<1>9. \A t \in 1 .. n : from[t] = rewards[t] + (IF t = n THEN 0 ELSE gamma * from[t + 1] * mask[t + 1])
  BY <1>7
<1>10. \A t \in 1 .. n : g[t] = rewards[t] + (IF t = n THEN 0 ELSE gamma * g[t + 1] * mask[t + 1])
  BY <1>6
<1> HIDE DEF Made, Eq
<1> DEFINE T == {m \in Nat : m < n => from[n - m] = g[n - m]}
<1>11. 0 \in T
  <2> SUFFICES ASSUME 0 < n PROVE from[n - 0] = g[n - 0]
    OBVIOUS
  <2>1. n - 0 = n /\ n \in 1 .. n
    BY <1>1
  <2>2. from[n] = rewards[n] + 0
    BY <1>9, <2>1
  <2>3. g[n] = rewards[n] + 0
    BY <1>10, <2>1
  <2> QED BY <2>1, <2>2, <2>3
<1>12. ASSUME NEW m \in Nat, m \in T PROVE m + 1 \in T
  <2> SUFFICES ASSUME m + 1 < n PROVE from[n - (m + 1)] = g[n - (m + 1)]
    OBVIOUS
  <2>1. PICK s : s = n - (m + 1)
    OBVIOUS
  <2>2. m < n /\ s \in 1 .. n /\ s # n /\ n - m = s + 1
    BY <1>1, <2>1
  <2>3. from[s + 1] = g[s + 1]
    BY <1>12, <2>2
  <2>4. from[s] = rewards[s] + gamma * from[s + 1] * mask[s + 1]
    BY <1>9, <2>2
  <2>5. g[s] = rewards[s] + gamma * g[s + 1] * mask[s + 1]
    BY <1>10, <2>2
  <2> QED BY <2>1, <2>3, <2>4, <2>5
<1>13. \A t \in 1 .. n : from[t] = g[t]
  <2> SUFFICES ASSUME NEW t \in 1 .. n PROVE from[t] = g[t]
    OBVIOUS
  <2>1. PICK m : m = n - t
    OBVIOUS
  <2>2. m \in Nat /\ m < n /\ n - m = t
    BY <1>1, <2>1
  <2>3. m \in T
    <3> HIDE DEF T
    <3> QED BY <1>11, <1>12, <2>2, Induction
  <2> QED BY <2>2, <2>3
<1>14. ReturnSteps(n, rewards, mask, gamma, g)
  <2>1. ASSUME NEW t \in 1 .. n - 1 PROVE g[t] = rewards[t] + gamma * g[t + 1] * mask[t + 1]
    <3>1. t \in 1 .. n /\ t # n
      BY <1>1
    <3> QED BY <1>10, <3>1
  <2>2. n > 0 => g[n] = rewards[n]
    <3>1. n > 0 => n \in 1 .. n
      BY <1>1
    <3> QED BY <1>5, <3>1
  <2> QED BY <1>5, <2>1, <2>2 DEF ReturnSteps
<1>15. [t \in 1 .. n |-> from[t]] = [t \in 1 .. n |-> g[t]]
  BY <1>13
<1>16. g = [t \in 1 .. n |-> g[t]]
  BY <1>5
<1> QED BY <1>8, <1>14, <1>15, <1>16

(* The tokens of the turn of the token s, from s on, and the rewards they  *)
(* get, discounted to s.                                                   *)
TurnFrom(mask, n, s) == {u \in 1 .. n : s <= u /\ \A w \in s .. u : mask[w] = 1}

Discounted(rewards, mask, n, gamma, s) ==
  [u \in TurnFrom(mask, n, s) |-> Power(gamma, u - s) * rewards[u]]

(* A turn ends before an observation, or goes on with the next token.      *)
LEMMA TurnIs ==
  ASSUME NEW n \in Nat, NEW mask, NEW s \in 1 .. n, mask[s] = 1
  PROVE  /\ s \in TurnFrom(mask, n, s) /\ IsFiniteSet(TurnFrom(mask, n, s))
         /\ s = n => TurnFrom(mask, n, s) \ {s} = {}
         /\ s < n /\ mask[s + 1] # 1 => TurnFrom(mask, n, s) \ {s} = {}
         /\ s < n /\ mask[s + 1] = 1 => TurnFrom(mask, n, s) \ {s} = TurnFrom(mask, n, s + 1)
<1>1. PICK S : S = TurnFrom(mask, n, s)
  OBVIOUS
<1>2. \A u : u \in S <=> u \in 1 .. n /\ s <= u /\ \A w \in s .. u : mask[w] = 1
  BY <1>1 DEF TurnFrom
<1>3. s \in S
  BY <1>2
<1>4. IsFiniteSet(S)
  <2>1. IsFiniteSet(1 .. n)
    BY FS_Interval
  <2>2. S \in SUBSET (1 .. n)
    BY <1>2
  <2> QED BY <2>1, <2>2, FS_Subset
<1>5. ASSUME NEW u \in S, u # s PROVE s + 1 \in 1 .. n /\ s < n /\ mask[s + 1] = 1 /\ s + 1 <= u
  <2>1. u \in 1 .. n /\ s <= u /\ \A w \in s .. u : mask[w] = 1
    BY <1>2
  <2>2. s + 1 \in s .. u /\ s + 1 <= u /\ s < n
    BY <1>5, <2>1
  <2> QED BY <2>1, <2>2
<1>6. s = n \/ mask[s + 1] # 1 => S \ {s} = {}
  BY <1>5
<1>7. ASSUME s < n, mask[s + 1] = 1 PROVE S \ {s} = TurnFrom(mask, n, s + 1)
  <2>1. ASSUME NEW u, u \in S, u # s PROVE u \in TurnFrom(mask, n, s + 1)
    <3>1. u \in 1 .. n /\ s + 1 <= u /\ \A w \in s .. u : mask[w] = 1
      BY <1>2, <1>5, <2>1
    <3>2. \A w \in s + 1 .. u : w \in s .. u
      BY <3>1
    <3> QED BY <3>1, <3>2 DEF TurnFrom
  <2>2. ASSUME NEW u, u \in TurnFrom(mask, n, s + 1) PROVE u \in S /\ u # s
    <3>1. u \in 1 .. n /\ s + 1 <= u /\ \A w \in s + 1 .. u : mask[w] = 1
      BY <2>2 DEF TurnFrom
    <3>2. \A w \in s .. u : w = s \/ w \in s + 1 .. u
      BY <3>1
    <3>3. s <= u /\ u # s /\ \A w \in s .. u : mask[w] = 1
      BY <3>1, <3>2
    <3> QED BY <1>2, <3>1, <3>3
  <2> QED BY <2>1, <2>2
<1> QED BY <1>1, <1>3, <1>4, <1>6, <1>7

(* The discounted rewards are integers.                                    *)
LEMMA DiscountedType ==
  ASSUME NEW rewards, NEW mask, NEW n, NEW gamma, Rewarding(n, rewards, mask, gamma),
         NEW s \in 1 .. n
  PROVE  Discounted(rewards, mask, n, gamma, s) \in [TurnFrom(mask, n, s) -> Int]
<1>1. n \in Nat /\ rewards \in [1 .. n -> Int] /\ gamma \in Int
  BY DEF Rewarding
<1>2. PICK S, f : S = TurnFrom(mask, n, s) /\ f = Discounted(rewards, mask, n, gamma, s)
  OBVIOUS
<1>3. ASSUME NEW u \in S PROVE f[u] \in Int
  <2>1. u \in 1 .. n /\ s <= u
    BY <1>2 DEF TurnFrom
  <2>2. PICK k, p : k = u - s /\ p = Power(gamma, k)
    OBVIOUS
  <2>3. k \in Nat
    BY <2>1, <2>2
  <2>4. p \in Int
    BY <1>1, <2>2, <2>3, PowersAgree
  <2>5. rewards[u] \in Int
    BY <1>1, <2>1
  <2>6. f[u] = p * rewards[u]
    BY <1>2, <2>2 DEF Discounted
  <2> QED BY <2>4, <2>5, <2>6
<1>4. f = [u \in S |-> f[u]]
  BY <1>2 DEF Discounted
<1> QED BY <1>2, <1>3, <1>4

(* A token gets its reward and those after it in its turn, discounted:     *)
(* what follows an observation does not reach it.                          *)
THEOREM ReturnsStayInTurn ==
  ASSUME NEW n, NEW rewards, NEW mask, NEW gamma, Rewarding(n, rewards, mask, gamma),
         NEW t \in 1 .. n, mask[t] = 1
  PROVE  ReinforcePlusPlus(rewards, mask, gamma)[t]
           = SumFunction(Discounted(rewards, mask, n, gamma, t))
<1>1. n \in Nat /\ rewards \in [1 .. n -> Int] /\ mask \in [1 .. n -> {0, 1}] /\ gamma \in Int
  BY DEF Rewarding
<1>2. PICK g : ReturnSteps(n, rewards, mask, gamma, g) /\ ReinforcePlusPlus(rewards, mask, gamma) = g
  BY ReturnsAre
<1>3. /\ g \in [1 .. n -> Int]
      /\ n > 0 => g[n] = rewards[n]
      /\ \A s \in 1 .. n - 1 : g[s] = rewards[s] + gamma * g[s + 1] * mask[s + 1]
  BY <1>2 DEF ReturnSteps
<1> DEFINE D(s) == Discounted(rewards, mask, n, gamma, s)
           Turn(s) == TurnFrom(mask, n, s)
           Ok(s) == mask[s] = 1 => g[s] = SumFunction(D(s))
<1>4. ASSUME NEW s \in 1 .. n, mask[s] = 1
      PROVE  /\ s \in Turn(s) /\ IsFiniteSet(Turn(s)) /\ D(s) \in [Turn(s) -> Int]
             /\ D(s)[s] = rewards[s]
  <2>1. s \in Turn(s) /\ IsFiniteSet(Turn(s))
    BY <1>1, <1>4, TurnIs
  <2>2. D(s) \in [Turn(s) -> Int]
    BY DiscountedType
  <2>3. D(s)[s] = Power(gamma, s - s) * rewards[s]
    BY <2>1 DEF Discounted
  <2>4. s - s = 0 /\ rewards[s] \in Int
    BY <1>1
  <2>5. Power(gamma, 0) = 1
    BY <1>1, PowersAgree
  <2> QED BY <2>1, <2>2, <2>3, <2>4, <2>5
<1>5. ASSUME NEW s \in 1 .. n, mask[s] = 1, Turn(s) \ {s} = {} PROVE SumFunction(D(s)) = rewards[s]
  <2>1. PICK S, f, e : S = Turn(s) /\ f = D(s) /\ e = [u \in {} |-> 0]
    OBVIOUS
  <2>2. s \in S /\ IsFiniteSet(S) /\ f \in [S -> Int] /\ f[s] = rewards[s] /\ S \ {s} = {}
    BY <1>4, <1>5, <2>1
  <2>3. e \in [{} -> Int]
    BY <2>1
  <2>4. Enlarged(S, s, f, e, 0)
    BY <2>2, <2>3 DEF Enlarged
  <2>5. SumFunction(f) = f[s] + 0 * SumFunction(e)
    BY <2>4, SumEnlarged
  <2>6. SumFunction(e) \in Int
    BY <2>3, FS_EmptySet, SumFunctionType
  <2>7. rewards[s] \in Int
    BY <1>1
  <2> QED BY <2>1, <2>2, <2>5, <2>6, <2>7
<1>6. ASSUME NEW s \in 1 .. n, s + 1 \in 1 .. n, mask[s] = 1, mask[s + 1] = 1
      PROVE  SumFunction(D(s)) = rewards[s] + gamma * SumFunction(D(s + 1))
  <2>1. PICK S, E, f, e : S = Turn(s) /\ E = Turn(s + 1) /\ f = D(s) /\ e = D(s + 1)
    OBVIOUS
  <2>2. /\ s \in S /\ IsFiniteSet(S) /\ f \in [S -> Int] /\ f[s] = rewards[s] /\ e \in [E -> Int]
    BY <1>4, <1>6, <2>1
  <2>3. S \ {s} = E
    <3>1. s < n
      BY <1>1, <1>6
    <3> QED BY <1>1, <1>6, <2>1, <3>1, TurnIs
  <2>4. ASSUME NEW u \in E PROVE f[u] = gamma * e[u]
    <3>1. u \in 1 .. n /\ s + 1 <= u /\ u \in S
      BY <2>1, <2>3 DEF TurnFrom
    <3>2. PICK k, p : k = u - (s + 1) /\ p = Power(gamma, k)
      OBVIOUS
    <3>3. k \in Nat /\ u - s = k + 1
      BY <1>1, <3>1, <3>2
    <3>4. p \in Int /\ Power(gamma, k + 1) = gamma * p
      BY <1>1, <3>2, <3>3, PowersAgree
    <3>5. PICK r : r = rewards[u]
      OBVIOUS
    <3>6. r \in Int
      BY <1>1, <3>1, <3>5
    <3>7. f[u] = Power(gamma, u - s) * r
      BY <2>1, <3>1, <3>5 DEF Discounted
    <3>8. e[u] = p * r
      BY <2>1, <3>2, <3>5 DEF Discounted
    <3>9. f[u] = (gamma * p) * r
      BY <3>3, <3>4, <3>7
    <3>10. (gamma * p) * r = gamma * (p * r)
      BY <1>1, <3>4, <3>6
    <3> QED BY <3>8, <3>9, <3>10
  <2>5. Enlarged(S, s, f, e, gamma)
    BY <1>1, <2>2, <2>3, <2>4 DEF Enlarged
  <2>6. SumFunction(f) = f[s] + gamma * SumFunction(e)
    BY <2>5, SumEnlarged
  <2> QED BY <2>1, <2>2, <2>6
<1>7. ASSUME NEW s \in 1 .. n, s = n PROVE Ok(s)
  <2> SUFFICES ASSUME mask[s] = 1 PROVE g[s] = SumFunction(D(s))
    OBVIOUS
  <2>1. Turn(s) \ {s} = {}
    BY <1>1, <1>7, TurnIs
  <2>2. SumFunction(D(s)) = rewards[s]
    BY <1>5, <2>1
  <2>3. g[n] = rewards[n]
    BY <1>1, <1>3
  <2> QED BY <1>7, <2>2, <2>3
<1>8. ASSUME NEW s \in 1 .. n, s < n, Ok(s + 1) PROVE Ok(s)
  <2> SUFFICES ASSUME mask[s] = 1 PROVE g[s] = SumFunction(D(s))
    OBVIOUS
  <2>1. s \in 1 .. n - 1 /\ s + 1 \in 1 .. n
    BY <1>1, <1>8
  <2>2. PICK x, k, r : x = g[s + 1] /\ k = mask[s + 1] /\ r = rewards[s]
    OBVIOUS
  <2>3. x \in Int /\ k \in {0, 1} /\ r \in Int
    BY <1>1, <1>3, <2>1, <2>2
  <2>4. g[s] = r + gamma * x * k
    BY <1>3, <2>1, <2>2
  <2>5. CASE k = 0
    <3>1. Turn(s) \ {s} = {}
      <4>1. mask[s + 1] # 1
        BY <2>2, <2>5
      <4> QED BY <1>1, <1>8, <4>1, TurnIs
    <3>2. SumFunction(D(s)) = r
      BY <1>5, <2>2, <3>1
    <3>3. gamma * x * 0 = 0
      BY <1>1, <2>3
    <3>4. g[s] = r + 0
      BY <2>4, <2>5, <3>3
    <3> QED BY <2>3, <3>2, <3>4
  <2>6. CASE k = 1
    <3>1. x = SumFunction(D(s + 1))
      BY <1>8, <2>2, <2>6
    <3>2. SumFunction(D(s)) = r + gamma * x
      BY <1>6, <2>1, <2>2, <2>6, <3>1
    <3>3. gamma * x * 1 = gamma * x
      BY <1>1, <2>3
    <3> QED BY <2>4, <2>6, <3>2, <3>3
  <2> QED BY <2>3, <2>5, <2>6
<1> HIDE DEF Ok
<1> DEFINE T == {m \in Nat : m < n => Ok(n - m)}
<1>9. 0 \in T
  <2> SUFFICES ASSUME 0 < n PROVE Ok(n - 0)
    OBVIOUS
  <2>1. n - 0 = n /\ n \in 1 .. n
    BY <1>1
  <2>2. Ok(n)
    BY <1>7, <2>1
  <2> QED BY <2>1, <2>2
<1>10. ASSUME NEW m \in Nat, m \in T PROVE m + 1 \in T
  <2> SUFFICES ASSUME m + 1 < n PROVE Ok(n - (m + 1))
    OBVIOUS
  <2>1. PICK s : s = n - (m + 1)
    OBVIOUS
  <2>2. m < n /\ s \in 1 .. n /\ s < n /\ n - m = s + 1
    BY <1>1, <2>1
  <2>3. Ok(s + 1)
    BY <1>10, <2>2
  <2>4. Ok(s)
    BY <1>8, <2>2, <2>3
  <2> QED BY <2>1, <2>4
<1>11. Ok(t)
  <2>1. PICK m : m = n - t
    OBVIOUS
  <2>2. m \in Nat /\ m < n /\ n - m = t
    BY <1>1, <2>1
  <2>3. m \in T
    <3> HIDE DEF T
    <3> QED BY <1>9, <1>10, <2>2, Induction
  <2> QED BY <2>2, <2>3
<1> QED BY <1>2, <1>11 DEF Ok

-----------------------------------------------------------------------------
(* The invariants of MCOperators.                                          *)

(* A question and its answer, from the first state on.                     *)
Asking == question \in Encodings \cup Thresholds \cup Calls \cup Partitions \cup Credits \cup Updates

Answering ==
  /\ Answered("labels") => answer = Labels(question.messages, question.preamble, question.limit)
  /\ Answered("threshold") =>
       answer = <<CumsumThreshold(question.positions, question.top_k, question.cumsum_ratio)>>
  /\ Answered("partition") =>
       answer = BalancedPartitions(Load(question.lens), question.k, question.equal_size)
  /\ Answered("call") => answer = Call(RowsSent(question), question.mesh, question.use)
  /\ Answered("credit") =>
       answer = <<Gae(question.rewards, question.values, question.mask, Gamma, Lam),
                  ReinforcePlusPlus(question.rewards, question.mask, Gamma)>>
  /\ Answered("update") =>
       answer = TokenWeights(question.mode, question.tokens,
                             [i \in DOMAIN question.tokens |-> question.tokens[i]],
                             question.mini_batch_size, question.use)

QuestionInv == Asking /\ Answering

(* The kind of a question says what it asks.                               *)
LEMMA KindOfQuestion ==
  ASSUME Asking
  PROVE  /\ question.kind = "labels" => question \in Encodings
         /\ question.kind = "threshold" => question \in Thresholds
         /\ question.kind = "partition" => question \in Partitions
         /\ question.kind = "call" => question \in Calls
         /\ question.kind = "credit" => question \in Credits
         /\ question.kind = "update" => question \in Updates
<1>1. ASSUME question \in Encodings PROVE question.kind = "labels"
  BY <1>1 DEF Encodings
<1>2. ASSUME question \in Thresholds PROVE question.kind = "threshold"
  BY <1>2 DEF Thresholds
<1>3. ASSUME question \in Calls PROVE question.kind = "call"
  BY <1>3 DEF Calls
<1>4. ASSUME question \in Partitions PROVE question.kind = "partition"
  BY <1>4 DEF Partitions
<1>5. ASSUME question \in Credits PROVE question.kind = "credit"
  <2>1. PICK n \in 1 .. 4 : question \in [kind : {"credit"}, rewards : [1 .. n -> {0, 1}],
                               values : [1 .. n -> {0, 2}], mask : [1 .. n -> {0, 1}]]
    BY <1>5 DEF Credits
  <2> QED BY <2>1
<1>6. ASSUME question \in Updates PROVE question.kind = "update"
  BY <1>6 DEF Updates
<1> QED BY <1>1, <1>2, <1>3, <1>4, <1>5, <1>6 DEF Asking

(* No step changes the question or an answer that was given.               *)
LEMMA QuestionStep ==
  ASSUME QuestionInv, [Next]_<<question, answer>>
  PROVE  QuestionInv'
<1>1. CASE EncodeExample
  BY <1>1 DEF EncodeExample, QuestionInv, Asking, Answering, Asked, Answered
<1>2. CASE ComputeThreshold
  BY <1>2 DEF ComputeThreshold, QuestionInv, Asking, Answering, Asked, Answered
<1>3. CASE CallWorkers
  BY <1>3 DEF CallWorkers, QuestionInv, Asking, Answering, Asked, Answered
<1>4. CASE Partition
  BY <1>4 DEF Partition, QuestionInv, Asking, Answering, Asked, Answered
<1>5. CASE AssignCredit
  BY <1>5 DEF AssignCredit, QuestionInv, Asking, Answering, Asked, Answered
<1>6. CASE UpdatePolicy
  BY <1>6 DEF UpdatePolicy, QuestionInv, Asking, Answering, Asked, Answered
<1>7. CASE UNCHANGED <<question, answer>>
  BY <1>7 DEF QuestionInv, Asking, Answering, Answered
<1> QED BY <1>1, <1>2, <1>3, <1>4, <1>5, <1>6, <1>7 DEF Next

(* The answer is what the code computes for the question.                  *)
LEMMA QuestionInvariant == Spec => []QuestionInv
<1>1. Init => QuestionInv
  BY DEF Init, QuestionInv, Asking, Answering, Answered
<1>2. QuestionInv /\ [Next]_<<question, answer>> => QuestionInv'
  BY QuestionStep
<1> QED BY <1>1, <1>2, PTL DEF Spec

(* A sequence of a bounded length.                                         *)
LEMMA UptoIsSeq ==
  ASSUME NEW S, NEW n \in Nat, NEW s \in SeqsUpto(S, n)
  PROVE  s \in Seq(S) /\ Len(s) \in 1 .. n /\ DOMAIN s = 1 .. Len(s)
<1>1. PICK m \in 1 .. n : s \in [1 .. m -> S]
  BY DEF SeqsUpto
<1> QED BY <1>1

(* The settings under study are legal ones.                                *)
LEMMA UsesAre ==
  ASSUME NEW use \in Uses
  PROVE  /\ use.use_dynamic_bsz \in BOOLEAN
         /\ use.max_token_len \in Nat /\ use.max_token_len >= 1
         /\ use.micro_batch_size \in Nat /\ use.micro_batch_size >= 1
<1>1. CASE use \in [use_dynamic_bsz : {TRUE}, max_token_len : {3, 4, 6}, micro_batch_size : {1},
                    candidate : {"first", "last"}]
  <2>1. /\ use.use_dynamic_bsz \in {TRUE} /\ use.max_token_len \in {3, 4, 6}
        /\ use.micro_batch_size \in {1}
    BY <1>1
  <2>2. use.use_dynamic_bsz \in BOOLEAN
    BY <2>1, Zenon
  <2>3. /\ use.max_token_len \in Nat /\ use.max_token_len >= 1
        /\ use.micro_batch_size \in Nat /\ use.micro_batch_size >= 1
    BY <2>1
  <2> QED BY <2>2, <2>3
<1>2. CASE use \in [use_dynamic_bsz : {FALSE}, max_token_len : {3}, micro_batch_size : {1, 2},
                    candidate : {"first"}]
  <2>1. /\ use.use_dynamic_bsz \in {FALSE} /\ use.max_token_len \in {3}
        /\ use.micro_batch_size \in {1, 2}
    BY <1>2
  <2>2. use.use_dynamic_bsz \in BOOLEAN
    BY <2>1, Zenon
  <2>3. /\ use.max_token_len \in Nat /\ use.max_token_len >= 1
        /\ use.micro_batch_size \in Nat /\ use.micro_batch_size >= 1
    BY <2>1
  <2> QED BY <2>2, <2>3
<1> QED BY <1>1, <1>2 DEF Uses

(* So are the meshes.                                                      *)
LEMMA MeshesAre ==
  ASSUME NEW mesh \in {FsdpMesh(2, 2), FsdpMesh(3, 1), MegatronMesh(2, 2, 2)}
  PROVE  \E W \in Nat : \E d, at : W >= 1 /\ Ordered(mesh, W, d, at)
<1>1. CASE mesh = FsdpMesh(2, 2)
  <2>1. Ordered(FsdpMesh(2, 2), 2 * 2, 2, [i \in 1 .. 2 |-> 2 * (i - 1)])
    <3>1. 2 \in Nat /\ 2 >= 1
      OBVIOUS
    <3> QED BY <3>1, FsdpMeshOrdered
  <2>2. 2 * 2 \in Nat /\ 2 * 2 >= 1
    OBVIOUS
  <2> QED BY <1>1, <2>1, <2>2
<1>2. CASE mesh = FsdpMesh(3, 1)
  <2>1. Ordered(FsdpMesh(3, 1), 3 * 1, 3, [i \in 1 .. 3 |-> 1 * (i - 1)])
    <3>1. 3 \in Nat /\ 3 >= 1 /\ 1 \in Nat /\ 1 >= 1
      OBVIOUS
    <3> QED BY <3>1, FsdpMeshOrdered
  <2>2. 3 * 1 \in Nat /\ 3 * 1 >= 1
    OBVIOUS
  <2> QED BY <1>2, <2>1, <2>2
<1>3. CASE mesh = MegatronMesh(2, 2, 2)
  <2>1. Ordered(MegatronMesh(2, 2, 2), 2 * 2 * 2, 2, [i \in 1 .. 2 |-> 2 * (2 * (2 - 1) + (i - 1))])
    <3>1. 2 \in Nat /\ 2 >= 1
      OBVIOUS
    <3> QED BY <3>1, MegatronMeshOrdered
  <2>2. 2 * 2 * 2 \in Nat /\ 2 * 2 * 2 >= 1
    OBVIOUS
  <2> QED BY <1>3, <2>1, <2>2
<1> QED BY <1>1, <1>2, <1>3

(* encode_sft_example learns what the assistant says and nothing else, in  *)
(* every state: the case LabelsAreOfAssistant is general about.            *)
THEOREM LabelsInvariant == Spec => []LabelsOfAssistant
<1>1. QuestionInv => LabelsOfAssistant
  <2> SUFFICES ASSUME QuestionInv, Answered("labels") PROVE LabelsOfAssistant
    BY DEF LabelsOfAssistant
  <2>1. question \in Encodings
    BY KindOfQuestion DEF QuestionInv, Answered
  <2>2. answer = Labels(question.messages, question.preamble, question.limit)
    BY DEF QuestionInv, Answering
  <2>3. PICK Role : Role = {"user", "assistant"}
    OBVIOUS
  <2>4. PICK messages, preamble, limit :
          messages = question.messages /\ preamble = question.preamble /\ limit = question.limit
    OBVIOUS
  <2>5. PICK R : R = [role : {"user", "assistant"}, length : {1, 2}]
    OBVIOUS
  <2>6. messages \in SeqsUpto(R, 4) /\ preamble \in Nat /\ limit \in Nat
    BY <2>1, <2>4, <2>5 DEF Encodings
  <2>7. messages \in Seq(R) /\ Len(messages) \in 1 .. 4 /\ DOMAIN messages = 1 .. Len(messages)
    BY <2>6, UptoIsSeq
  <2>8. \A r \in R : r \in MessageSet(Role)
    BY <2>3, <2>5 DEF MessageSet
  <2>9. messages \in Seq(MessageSet(Role)) /\ messages # <<>>
    <3>1. PICK M : M = MessageSet(Role)
      OBVIOUS
    <3>2. messages \in Seq(M)
      BY <2>7, <2>8, <3>1
    <3>3. messages # <<>>
      BY <2>7
    <3> QED BY <3>1, <3>2, <3>3
  <2>10. Labels(messages, preamble, limit) = LearnedLabels(messages, preamble, limit)
    BY <2>6, <2>9, LabelsAreOfAssistant
  <2> QED BY <2>2, <2>4, <2>10 DEF LabelsOfAssistant, LearnedLabels, Learned, Says
<1> QED BY <1>1, QuestionInvariant, PTL

(* compute_cumsum_threshold is the percentile it says it is, in every      *)
(* state (see ThresholdIsPercentile).                                      *)
THEOREM ThresholdInvariant == Spec => []ThresholdPercentile
<1>1. QuestionInv => ThresholdPercentile
  <2> SUFFICES ASSUME QuestionInv, Answered("threshold") PROVE ThresholdPercentile
    BY DEF ThresholdPercentile
  <2>1. question \in Thresholds
    BY KindOfQuestion DEF QuestionInv, Answered
  <2>2. PICK Ks : Ks = {2, 10}
    OBVIOUS
  <2>3. PICK positions, top_k, cumsum_ratio, k, threshold :
          /\ positions = question.positions /\ top_k = question.top_k
          /\ cumsum_ratio = question.cumsum_ratio
          /\ k = Share(positions, CumsumK(positions, cumsum_ratio))
          /\ threshold = CumsumThreshold(positions, top_k, cumsum_ratio)
    OBVIOUS
  <2>4. answer[1] = threshold
    <3>1. answer = <<CumsumThreshold(question.positions, question.top_k, question.cumsum_ratio)>>
      BY DEF QuestionInv, Answering
    <3>2. answer = <<threshold>>
      BY <3>1, <2>3
    <3> QED BY <3>2
  <2>5. \A p \in Positions : p \in [Ks -> Int] /\ p[2] <= p[10]
    <3> SUFFICES ASSUME NEW x \in {20, 50, 90}, NEW q \in {0, 5}, NEW p,
                        p = [at \in {2, 10} |-> IF at = 2 THEN x ELSE x + q]
                 PROVE  p \in [Ks -> Int] /\ p[2] <= p[10]
      BY DEF Positions
    <3>1. x \in Int /\ x + q \in Int /\ x <= x + q
      OBVIOUS
    <3> QED BY <2>2, <3>1
  <2>6. positions \in SeqsUpto(Positions, 4) /\ top_k \in Ks \cup {None} /\ cumsum_ratio \in 0 .. 100
    BY <2>1, <2>2, <2>3 DEF Thresholds
  <2>7. positions \in Seq(Positions) /\ Len(positions) \in 1 .. 4 /\ DOMAIN positions = 1 .. Len(positions)
    BY <2>6, UptoIsSeq
  <2>8. /\ positions \in Seq([Ks -> Int])
        /\ \A i \in DOMAIN positions : positions[i][2] <= positions[i][10]
    <3>1. PICK F : F = [Ks -> Int]
      OBVIOUS
    <3>2. \A i \in DOMAIN positions : positions[i] \in F /\ positions[i][2] <= positions[i][10]
      BY <2>5, <2>7, <3>1
    <3>3. positions \in Seq(F)
      BY <2>7, <3>2
    <3> QED BY <3>1, <3>2, <3>3
  <2>9. None \notin Ks /\ 2 \in Ks /\ 10 \in Ks
    BY <2>2 DEF None
  <2>10. positions # <<>>
    BY <2>7, EmptySeq
  <2>11. /\ Cardinality(Above(positions, top_k, threshold)) < k
         /\ top_k # None => Cardinality(Without(positions, top_k, threshold)) >= k
    BY <2>3, <2>6, <2>8, <2>9, <2>10, ThresholdIsPercentile, ZenonT(30)
  <2> QED BY <2>3, <2>4, <2>11 DEF ThresholdPercentile
<1> QED BY <1>1, QuestionInvariant, PTL

(* get_seqlen_balanced_partitions keeps its promise, in every state (see   *)
(* PartitionsAreBalanced).                                                 *)
THEOREM PartitionsInvariant == Spec => []PartitionsBalanced
<1>1. QuestionInv => PartitionsBalanced
  <2> SUFFICES ASSUME QuestionInv, Answered("partition") PROVE PartitionsBalanced
    BY DEF PartitionsBalanced
  <2>1. question \in Partitions
    BY KindOfQuestion DEF QuestionInv, Answered
  <2>2. PICK lens, k, equal_size, n, load, M :
          /\ lens = question.lens /\ k = question.k /\ equal_size = question.equal_size
          /\ n = Len(lens) /\ load = Load(lens) /\ M = Max({load[i] : i \in DOMAIN load})
    OBVIOUS
  <2>3. answer = BalancedPartitions(load, k, equal_size)
    BY <2>2 DEF QuestionInv, Answering
  <2>4. /\ lens \in SeqsUpto(1 .. 4, 5) \cup [1 .. 6 -> {1, 2, 4}] /\ k \in 1 .. 4
        /\ equal_size \in BOOLEAN /\ k <= Len(lens) /\ (equal_size => Len(lens) % k = 0)
    BY <2>1, <2>2 DEF Partitions
  <2>5. lens \in Seq(Nat) /\ n \in Nat
    <3>1. CASE lens \in SeqsUpto(1 .. 4, 5)
      <4>1. lens \in Seq(1 .. 4)
        BY <3>1, UptoIsSeq
      <4>2. lens \in Seq(Nat)
        BY <4>1, ElementOfSeq, LenProperties
      <4> QED BY <2>2, <4>2, LenProperties
    <3>2. CASE lens \in [1 .. 6 -> {1, 2, 4}]
      <4>1. \A i \in 1 .. 6 : lens[i] \in Nat
        BY <3>2
      <4>2. lens \in [1 .. 6 -> Nat]
        BY <3>2, <4>1
      <4>3. 6 \in Nat
        OBVIOUS
      <4>4. lens \in Seq(Nat) /\ Len(lens) = 6
        BY <4>2, <4>3, SameSeq
      <4> QED BY <2>2, <4>4
    <3> QED BY <2>4, <3>1, <3>2
  <2>6. k \in Nat /\ 1 <= k /\ k <= n /\ n >= 1
    BY <2>2, <2>4, <2>5
  <2>7. load \in [1 .. n -> Nat]
    <3>1. load = [i \in 1 .. n |-> Workload(lens[i])]
      BY <2>2, <2>5, LenProperties DEF Load
    <3>2. \A i \in 1 .. n : lens[i] \in Nat
      BY <2>2, <2>5, ElementOfSeq
    <3>3. \A x \in Nat : Workload(x) \in Nat
      BY DEF Workload
    <3> QED BY <3>1, <3>2, <3>3
  <2>8. M \in Nat /\ \A x \in 1 .. n : load[x] <= M
    BY <2>2, <2>5, <2>6, <2>7, MaxIs
  <2>9. Divisible(load, n, k, M, equal_size)
    BY <2>2, <2>4, <2>5, <2>6, <2>7, <2>8 DEF Divisible
  <2>10. Balanced(load, n, k, M, equal_size, answer)
    BY <2>3, <2>9, PartitionsAreBalanced
  <2>11. Len(load) = n
    BY <2>5, <2>7, SameSeq
  <2> QED BY <2>2, <2>10, <2>11 DEF PartitionsBalanced, Balanced
<1> QED BY <1>1, QuestionInvariant, PTL

(* Micro-batches do not change what a token weighs, in every state, when   *)
(* the losses average over sequences (see MicroBatchesAreNeutral).         *)
THEOREM MicroBatchesInvariant ==
  ASSUME LossAggModes \subseteq Averages
  PROVE  Spec => []MicroBatchesNeutral
<1>1. QuestionInv => MicroBatchesNeutral
  <2> SUFFICES ASSUME QuestionInv, Answered("update"), question.use.use_dynamic_bsz \/ Multiple
               PROVE  MicroBatchesNeutral
    BY DEF MicroBatchesNeutral
  <2>1. question \in Updates
    BY KindOfQuestion DEF QuestionInv, Answered
  <2>2. PICK tokens, n, mode, use, lens, mini :
          /\ tokens = question.tokens /\ n = Len(tokens) /\ mode = question.mode /\ use = question.use
          /\ mini = question.mini_batch_size
          /\ lens = [i \in DOMAIN question.tokens |-> question.tokens[i]]
    OBVIOUS
  <2>3. answer = TokenWeights(mode, tokens, lens, mini, use)
    BY <2>2 DEF QuestionInv, Answering
  <2>4. /\ tokens \in SeqsUpto(1 .. 3, 4) /\ mode \in LossAggModes /\ use \in Uses
        /\ mini \in {3, 4} /\ (~use.use_dynamic_bsz => mini % use.micro_batch_size = 0)
        /\ ~use.use_dynamic_bsz => n % use.micro_batch_size = 0
    BY <2>1, <2>2 DEF Updates, Multiple
  <2>5. tokens \in Seq(1 .. 3) /\ n \in 1 .. 4 /\ DOMAIN tokens = 1 .. n
    BY <2>2, <2>4, UptoIsSeq
  <2>6. \A i \in 1 .. n : tokens[i] \in 1 .. 3
    BY <2>2, <2>5, ElementOfSeq
  <2>7. /\ tokens \in [1 .. n -> Nat] /\ \A i \in 1 .. n : tokens[i] >= 1
        /\ lens \in [1 .. n -> Nat] /\ \A i \in 1 .. n : lens[i] >= 1
    <3>1. lens = [i \in 1 .. n |-> tokens[i]]
      BY <2>2, <2>5
    <3>2. tokens \in [1 .. n -> 1 .. 3]
      BY <2>2, <2>5
    <3>3. \A i \in 1 .. n : tokens[i] \in Nat /\ tokens[i] >= 1
      BY <2>6
    <3> QED BY <3>1, <3>2, <3>3
  <2>8. /\ use.use_dynamic_bsz \in BOOLEAN
        /\ use.max_token_len \in Nat /\ use.max_token_len >= 1
        /\ use.micro_batch_size \in Nat /\ use.micro_batch_size >= 1
    BY <2>4, UsesAre
  <2>9. Updating(n, tokens, lens, use)
    BY <2>4, <2>5, <2>7, <2>8 DEF Updating
  <2>10. mode \in Averages
    BY <2>4
  <2>11. ASSUME NEW i \in 1 .. n
         PROVE  SameFraction(answer[i], Times(Fraction(n, mini),
                                              InLoss(mode, tokens, [x \in DOMAIN tokens |-> x], i)))
    <3>1. mini \in Nat /\ mini >= 1
      BY <2>4
    <3> QED BY <2>3, <2>4, <2>9, <2>10, <3>1, MicroBatchesAreNeutral
  <2>12. DOMAIN answer = 1 .. n
    BY <2>3, <2>5 DEF TokenWeights
  <2> QED BY <2>2, <2>11, <2>12 DEF MicroBatchesNeutral, Uncut
<1> QED BY <1>1, QuestionInvariant, PTL

(* Every row gets its own answer, in order, in every state (see            *)
(* CallAnswersInOrder and BalancedOrderReorders).                          *)
THEOREM AnswersInvariant == Spec => []AnswerInOrder
<1>1. QuestionInv => AnswerInOrder
  <2> SUFFICES ASSUME QuestionInv, Answered("call") PROVE AnswerInOrder
    BY DEF AnswerInOrder
  <2>1. question \in Calls
    BY KindOfQuestion DEF QuestionInv, Answered
  <2>2. PICK q, lens, n, mesh, use :
          q = question /\ lens = q.lens /\ n = Len(lens) /\ mesh = q.mesh /\ use = q.use
    OBVIOUS
  <2>3. answer = Call(RowsSent(q), mesh, use)
    BY <2>2 DEF QuestionInv, Answering
  <2>4. /\ lens \in SeqsUpto(1 .. 3, 4) \cup [1 .. 6 -> {1, 3}] /\ use \in Uses
        /\ mesh \in {FsdpMesh(2, 2), FsdpMesh(3, 1), MegatronMesh(2, 2, 2)}
        /\ q.balance \in BOOLEAN /\ (q.balance => n % Cardinality(DOMAIN mesh.dp_rank) = 0)
    <3>1. PICK M : M = {FsdpMesh(2, 2), FsdpMesh(3, 1), MegatronMesh(2, 2, 2)}
      OBVIOUS
    <3>2. q \in {x \in [kind : {"call"}, lens : SeqsUpto(1 .. 3, 4) \cup [1 .. 6 -> {1, 3}],
                         mesh : M, balance : BOOLEAN, use : Uses] :
                    x.balance => Len(x.lens) % Cardinality(DOMAIN x.mesh.dp_rank) = 0}
      BY <2>1, <2>2, <3>1 DEF Calls
    <3>3. /\ q.lens \in SeqsUpto(1 .. 3, 4) \cup [1 .. 6 -> {1, 3}] /\ q.mesh \in M
          /\ q.use \in Uses
      BY <3>2
    <3>4. q.balance \in BOOLEAN
      BY <3>2, Zenon
    <3>5. q.balance => Len(q.lens) % Cardinality(DOMAIN q.mesh.dp_rank) = 0
      BY <3>2
    <3> QED BY <2>2, <3>1, <3>3, <3>4, <3>5
  <2>5. n \in Nat /\ n >= 1 /\ lens \in [1 .. n -> Nat \ {0}]
    <3>1. CASE lens \in SeqsUpto(1 .. 3, 4)
      <4>1. lens \in Seq(1 .. 3) /\ n \in 1 .. 4 /\ DOMAIN lens = 1 .. n
        BY <2>2, <3>1, UptoIsSeq
      <4>2. lens \in [1 .. n -> 1 .. 3]
        BY <2>2, <4>1
      <4>3. \A i \in 1 .. n : lens[i] \in Nat \ {0}
        BY <4>2
      <4> QED BY <4>1, <4>2, <4>3
    <3>2. CASE lens \in [1 .. 6 -> {1, 3}]
      <4>1. lens \in Seq({1, 3}) /\ Len(lens) = 6
        <5>1. 6 \in Nat
          OBVIOUS
        <5> QED BY <3>2, <5>1, SameSeq
      <4>2. \A i \in 1 .. 6 : lens[i] \in Nat \ {0}
        BY <3>2
      <4>3. lens \in [1 .. 6 -> Nat \ {0}]
        BY <3>2, <4>2
      <4> QED BY <2>2, <4>1, <4>3
    <3> QED BY <2>4, <3>1, <3>2
  <2>6. \E W \in Nat : \E d, at : W >= 1 /\ Ordered(mesh, W, d, at)
    BY <2>4, MeshesAre
  <2>7. PICK W \in Nat : \E d, at : W >= 1 /\ Ordered(mesh, W, d, at)
    BY <2>6
  <2>8. PICK d, at : W >= 1 /\ Ordered(mesh, W, d, at)
    BY <2>7
  <2>9. mesh.dp_rank \in [0 .. W - 1 -> 0 .. d - 1]
    BY <2>8 DEF Ordered
  <2>10. Sending(n, q.lens, q.mesh, W)
    BY <2>2, <2>5, <2>8, <2>9 DEF Sending
  <2>11. q.balance => Len(q.lens) % W = 0
    <3>1. Cardinality(DOMAIN mesh.dp_rank) = W
      BY <2>8, <2>9, RankCount
    <3> QED BY <2>2, <2>4, <3>1
  <2>12. Series(Rows(Nat), n, RowsSent(q))
    BY <2>4, <2>10, <2>11, RowsSentAre
  <2>13. /\ use.use_dynamic_bsz \in BOOLEAN
         /\ use.max_token_len \in Nat /\ use.max_token_len >= 1
         /\ use.micro_batch_size \in Nat /\ use.micro_batch_size >= 1
    BY <2>4, UsesAre
  <2>14. Calling(Nat, n, RowsSent(q), mesh, W, d, at, use)
    BY <2>5, <2>8, <2>12, <2>13 DEF Calling
  <2>15. Call(RowsSent(q), mesh, use) = Ids(RowsSent(q))
    BY <2>14, CallAnswersInOrder
  <2> QED BY <2>2, <2>3, <2>15 DEF AnswerInOrder
<1> QED BY <1>1, QuestionInvariant, PTL

(* GAE and REINFORCE++ credit the tokens as they should, in every state    *)
(* (see GaeSkipsObservations and ReturnsStayInTurn).                       *)
THEOREM CreditInvariant == Spec => []CreditAssigned
<1>1. QuestionInv => CreditAssigned
  <2> SUFFICES ASSUME QuestionInv, Answered("credit") PROVE CreditAssigned
    BY DEF CreditAssigned
  <2>1. question \in Credits
    BY KindOfQuestion DEF QuestionInv, Answered
  <2>2. PICK q, rewards, values, mask, b :
          /\ q = question /\ rewards = q.rewards /\ values = q.values /\ mask = q.mask
          /\ b = Gamma * Lam
    OBVIOUS
  <2>3. answer = <<Gae(rewards, values, mask, Gamma, Lam), ReinforcePlusPlus(rewards, mask, Gamma)>>
    BY <2>2 DEF QuestionInv, Answering
  <2>4. PICK n \in 1 .. 4 : /\ rewards \in [1 .. n -> {0, 1}] /\ values \in [1 .. n -> {0, 2}]
                            /\ mask \in [1 .. n -> {0, 1}]
    <3>1. PICK n \in 1 .. 4 : q \in [kind : {"credit"}, rewards : [1 .. n -> {0, 1}],
                                    values : [1 .. n -> {0, 2}], mask : [1 .. n -> {0, 1}]]
      BY <2>1, <2>2 DEF Credits
    <3>2. /\ q.rewards \in [1 .. n -> {0, 1}] /\ q.values \in [1 .. n -> {0, 2}]
          /\ q.mask \in [1 .. n -> {0, 1}]
      BY <3>1
    <3> QED BY <2>2, <3>2
  <2>5. /\ n \in Nat /\ rewards \in [1 .. n -> Int] /\ values \in [1 .. n -> Int]
        /\ Gamma \in Int /\ Lam \in Int
    <3>1. n \in Nat /\ Gamma \in Int /\ Lam \in Int
      BY DEF Gamma, Lam
    <3>2. \A t \in 1 .. n : rewards[t] \in Int /\ values[t] \in Int
      BY <2>4
    <3> QED BY <2>4, <3>1, <3>2
  <2>6. Crediting(n, rewards, values, mask, Gamma, Lam) /\ Rewarding(n, rewards, mask, Gamma)
    BY <2>4, <2>5 DEF Crediting, Rewarding
  <2> DEFINE own == {t \in DOMAIN question.mask : question.mask[t] = 1}
             after(t) == {u \in own : u > t}
             value(t) == question.values[t]
             next(t) == IF after(t) = {} THEN 0 ELSE value(Min(after(t)))
             delta(t) == question.rewards[t] + Gamma * next(t) - value(t)
             steps(t, u) == Cardinality({w \in own : t <= w /\ w < u})
             turn(t) == {u \in after(t) \cup {t} : t .. u \subseteq own}
             gae(t) == [u \in after(t) \cup {t} |-> Power(Gamma * Lam, steps(t, u)) * delta(u)]
             return(t) == [u \in turn(t) |-> Power(Gamma, u - t) * question.rewards[u]]
  <2>7. own = {t \in 1 .. n : mask[t] = 1}
    BY <2>2, <2>4
  <2>8. ASSUME NEW t \in own
        PROVE  /\ t \in 1 .. n /\ mask[t] = 1 /\ after(t) = OwnFrom(mask, n, t + 1)
               /\ after(t) \cup {t} = OwnFrom(mask, n, t) /\ turn(t) = TurnFrom(mask, n, t)
    <3>1. t \in 1 .. n /\ mask[t] = 1
      BY <2>7
    <3>2. \A u \in 1 .. n : (u > t <=> t + 1 <= u) /\ (u > t \/ u = t <=> t <= u)
      BY <3>1
    <3>3. \A u : u \in after(t) <=> u \in 1 .. n /\ mask[u] = 1 /\ u > t
      BY <2>7
    <3>4. after(t) = OwnFrom(mask, n, t + 1)
      BY <3>2, <3>3 DEF OwnFrom
    <3>5. after(t) \cup {t} = OwnFrom(mask, n, t)
      BY <3>1, <3>2, <3>3 DEF OwnFrom
    <3>6. turn(t) = TurnFrom(mask, n, t)
      <4> DEFINE A == after(t) \cup {t}
      <4>1. ASSUME NEW u \in 1 .. n, t <= u
            PROVE  t .. u \subseteq own <=> \A w \in t .. u : mask[w] = 1
        <5>1. \A w \in t .. u : w \in 1 .. n
          BY <3>1
        <5> QED BY <2>7, <5>1
      <4>2. \A u : u \in A <=> u \in 1 .. n /\ mask[u] = 1 /\ t <= u
        BY <3>1, <3>2, <3>3
      <4>3. \A u \in 1 .. n : t <= u /\ (\A w \in t .. u : mask[w] = 1) => mask[u] = 1
        BY <3>1
      <4>4. turn(t) = {u \in A : t .. u \subseteq own}
        OBVIOUS
      <4> HIDE DEF A, own, after, turn
      <4> QED BY <4>1, <4>2, <4>3, <4>4 DEF TurnFrom
    <3> QED BY <3>1, <3>4, <3>5, <3>6
  <2>9. ASSUME NEW t \in own PROVE delta(t) = Deltas(rewards, values, mask, n, Gamma)[t]
    <3>1. next(t) = FirstValue(values, mask, n, t + 1)
      BY <2>2, <2>8 DEF FirstValue
    <3> QED BY <2>2, <2>8, <3>1 DEF Deltas
  <2>10. ASSUME NEW t \in own
         PROVE  gae(t) = Decayed(Deltas(rewards, values, mask, n, Gamma), mask, n, b, t)
    <3>1. PICK S, d : S = OwnFrom(mask, n, t) /\ d = Deltas(rewards, values, mask, n, Gamma)
      OBVIOUS
    <3>2. ASSUME NEW u \in S PROVE steps(t, u) = Cardinality(OwnBetween(mask, n, t, u))
      <4>1. {w \in own : t <= w /\ w < u} = OwnBetween(mask, n, t, u)
        BY <2>7 DEF OwnBetween
      <4> QED BY <4>1
    <3>3. ASSUME NEW u \in S PROVE delta(u) = d[u]
      <4>1. u \in own
        BY <2>7, <3>1 DEF OwnFrom
      <4> QED BY <2>9, <3>1, <4>1
    <3>4. gae(t) = [u \in S |-> Power(Gamma * Lam, steps(t, u)) * delta(u)]
      BY <2>8, <3>1
    <3> HIDE DEF gae, steps, delta
    <3>5. gae(t) = [u \in S |-> Power(b, Cardinality(OwnBetween(mask, n, t, u))) * d[u]]
      BY <2>2, <3>2, <3>3, <3>4
    <3> QED BY <3>1, <3>5 DEF Decayed
  <2>11. ASSUME NEW t \in own PROVE return(t) = Discounted(rewards, mask, n, Gamma, t)
    BY <2>2, <2>8 DEF Discounted
  <2>12. ASSUME NEW t \in own
         PROVE  answer[1][t] = SumFunction(gae(t)) /\ answer[2][t] = SumFunction(return(t))
    <3>1. PICK G, R : G = gae(t) /\ R = return(t)
      OBVIOUS
    <3>2. /\ G = Decayed(Deltas(rewards, values, mask, n, Gamma), mask, n, b, t)
          /\ R = Discounted(rewards, mask, n, Gamma, t)
      BY <2>10, <2>11, <3>1
    <3>3. t \in 1 .. n /\ mask[t] = 1
      BY <2>8
    <3> HIDE DEF gae, return, own
    <3>4. Gae(rewards, values, mask, Gamma, Lam)[t]
            = SumFunction(Decayed(Deltas(rewards, values, mask, n, Gamma), mask, n, Gamma * Lam, t))
      BY <2>6, <3>3, GaeSkipsObservations
    <3>5. ReinforcePlusPlus(rewards, mask, Gamma)[t] = SumFunction(Discounted(rewards, mask, n, Gamma, t))
      BY <2>6, <3>3, ReturnsStayInTurn
    <3> QED BY <2>2, <2>3, <3>1, <3>2, <3>4, <3>5
  <2> QED BY <2>12, Zenon DEF CreditAssigned
<1> QED BY <1>1, QuestionInvariant, PTL
=============================================================================
