-------------------------- MODULE MerkleFoldProofs --------------------------
(***************************************************************************)
(* The inclusion and consistency proofs of merkle.py are sound and         *)
(* complete for every log and every tree size: first what the recursive    *)
(* helpers compute, then verify_inclusion and inclusion_proof, then        *)
(* verify_consistency and consistency_proof, then the fold as a state      *)
(* machine, and the reader of MerkleLog that rests on all of them.         *)
(***************************************************************************)
EXTENDS MerkleFold, MerkleLog, SequenceTheorems, WellFoundedInduction, TLAPS

-----------------------------------------------------------------------------
(* Induction over the natural numbers, for sets of them.                   *)

\* A set of natural numbers that is not empty has a least one.
LEMMA LeastNat ==
    ASSUME NEW T \in SUBSET Nat, T # {}
    PROVE  \E x \in T : \A y \in T : x <= y
  <1> DEFINE R == OpToRel(<, Nat)
  <1>1. IsWellFoundedOn(R, Nat)
    BY NatLessThanWellFounded
  <1>2. \A a, b \in Nat : a < b => <<a, b>> \in R
    BY Zenon DEF OpToRel
  <1> HIDE DEF R
  <1>3. PICK x \in T : \A y \in T : ~(<<y, x>> \in R)
    BY <1>1, WFMin
  <1>4. ASSUME NEW y \in T PROVE x <= y
    <2>1. x \in Nat /\ y \in Nat
      OBVIOUS
    <2>2. ~(y < x)
      BY <1>2, <1>3, <2>1, Zenon
    <2> QED BY <2>1, <2>2
  <1> QED BY <1>4

\* Strong induction: a set that holds every number whose predecessors it holds is Nat.
LEMMA NatStrong ==
    ASSUME NEW P \in SUBSET Nat,
           \A n \in Nat : (\A mm \in 0..(n - 1) : mm \in P) => n \in P
    PROVE  P = Nat
  <1> DEFINE T == Nat \ P
  <1> SUFFICES ASSUME T # {} PROVE FALSE
    OBVIOUS
  <1>1. PICK x \in T : \A y \in T : x <= y
    <2>1. T \in SUBSET Nat
      OBVIOUS
    <2> HIDE DEF T
    <2> QED BY <2>1, LeastNat
  <1>2. \A mm \in 0..(x - 1) : mm \in P
    BY <1>1
  <1> QED BY <1>1, <1>2

-----------------------------------------------------------------------------
(* The recursive functions of Merkle exist.  Turn is the body of the one    *)
(* that is named, as it calls f; a stands for what surrounds it, Calls for  *)
(* its domain and Rank for what falls with every call.                      *)

PathTurn(entries, f, p) ==
    IF p[2] = 1 THEN << >>
    ELSE IF p[3] < largest_pow2_below(p[2])
    THEN Append(f[<<p[1], largest_pow2_below(p[2]), p[3]>>],
                mth(SubSeq(LeavesOf(entries), p[1] + largest_pow2_below(p[2]) + 1, p[1] + p[2])))
    ELSE Append(f[<<p[1] + largest_pow2_below(p[2]), p[2] - largest_pow2_below(p[2]),
                    p[3] - largest_pow2_below(p[2])>>],
                mth(SubSeq(LeavesOf(entries), p[1] + 1, p[1] + largest_pow2_below(p[2]))))

SubproofTurn(leaves, f, p) ==
    IF p[1] = p[3] THEN IF p[4] THEN << >> ELSE <<mth(SubSeq(leaves, p[2] + 1, p[2] + p[3]))>>
    ELSE IF p[1] <= largest_pow2_below(p[3])
    THEN Append(f[<<p[1], p[2], largest_pow2_below(p[3]), p[4]>>],
                mth(SubSeq(leaves, p[2] + largest_pow2_below(p[3]) + 1, p[2] + p[3])))
    ELSE Append(f[<<p[1] - largest_pow2_below(p[3]), p[2] + largest_pow2_below(p[3]),
                    p[3] - largest_pow2_below(p[3]), FALSE>>],
                mth(SubSeq(leaves, p[2] + 1, p[2] + largest_pow2_below(p[3]))))

ConsistencyLoops == {"shift", "run", "subproof"}

\* The condition of the two loops that shift fn and sn.
Shifts(odd, x) == (odd /\ Odd(x)) \/ (~odd /\ ~Odd(x) /\ x # 0)

ConsistencyTurn(fn, a, f, p) ==
    IF fn = "shift" THEN IF Shifts(a.odd, p[1]) THEN f[<<p[1] \div 2, p[2] \div 2>>] ELSE p
    ELSE IF fn = "run"
    THEN IF p = 1 THEN <<a.start[1], a.start[2], a.nodes[1], a.nodes[1]>>
         ELSE IF f[p - 1] = NoRoot \/ f[p - 1][2] = 0 THEN NoRoot
         ELSE ConsistencyStep(f[p - 1], a.nodes[p])
    ELSE SubproofTurn(a, f, p)

Turn(fn, a, f, p) ==
    IF fn = "loop" THEN IF p * 2 < a THEN f[p * 2] ELSE p
    ELSE IF fn = "mth"
    THEN IF p[2] = 0 THEN empty_hash
         ELSE IF p[2] = 1 THEN a[p[1] + 1]
         ELSE node_hash(f[<<p[1], largest_pow2_below(p[2])>>],
                        f[<<p[1] + largest_pow2_below(p[2]), p[2] - largest_pow2_below(p[2])>>])
    ELSE IF fn = "depth"
    THEN IF p[1] <= 1 THEN 0
         ELSE IF p[2] < largest_pow2_below(p[1]) THEN 1 + f[<<largest_pow2_below(p[1]), p[2]>>]
         ELSE 1 + f[<<p[1] - largest_pow2_below(p[1]), p[2] - largest_pow2_below(p[1])>>]
    ELSE IF fn = "path"
    THEN PathTurn(a, f, p)
    ELSE IF fn \in ConsistencyLoops
    THEN ConsistencyTurn(fn, a, f, p)
    ELSE LET k     == largest_pow2_below(p[1])
             child == IF p[2] < k THEN f[<<k, p[2], p[3] - 1>>] ELSE f[<<p[1] - k, p[2] - k, p[3] - 1>>]
         IN  IF p[1] = 1 THEN <<leaf_hash(a.leaf), p[3]>>
             ELSE IF p[3] = 0 THEN NoRoot
             ELSE IF child = NoRoot THEN NoRoot
             ELSE <<IF p[2] < k THEN node_hash(child[1], a.path[p[3]])
                                ELSE node_hash(a.path[p[3]], child[1]), child[2]>>

Calls(fn, a) ==
    IF fn = "loop" THEN 1..a
    ELSE IF fn = "mth" THEN Nat \X (0..Len(a))
    ELSE IF fn = "depth" THEN (0..a) \X Nat
    ELSE IF fn = "path" THEN Nat \X (1..Len(a)) \X Nat
    ELSE IF fn = "shift" THEN (0..a.top) \X Nat
    ELSE IF fn = "run" THEN 1..Len(a.nodes)
    ELSE IF fn = "subproof" THEN {q \in Nat \X Nat \X (1..Len(a)) \X BOOLEAN : q[1] \in 1..q[3]}
    ELSE (1..a.size) \X Nat \X Nat

Rank(fn, a, p) ==
    IF fn = "loop" THEN a - p ELSE IF fn = "run" THEN p
    ELSE IF fn \in {"mth", "path"} THEN p[2] ELSE IF fn = "subproof" THEN p[3] ELSE p[1]

\* A turn depends only on calls of lower rank.
Local(fn, a) ==
    \A f, g : \A p \in Calls(fn, a) :
        (\A c \in Calls(fn, a) : Rank(fn, a, c) < Rank(fn, a, p) => f[c] = g[c])
            => Turn(fn, a, f, p) = Turn(fn, a, g, p)

\* A recursive definition whose calls fall in rank has a solution.
LEMMA Recursion ==
    ASSUME NEW fn, NEW a, NEW N \in Nat, Local(fn, a),
           \A p \in Calls(fn, a) : Rank(fn, a, p) \in 0..N
    PROVE  \E f : f = [p \in Calls(fn, a) |-> Turn(fn, a, f, p)]
  <1> DEFINE D == Calls(fn, a)
             R(p) == Rank(fn, a, p)
             Solves(f, n) == \A p \in D : R(p) < n => f[p] = Turn(fn, a, f, p)
             P == {n \in Nat : \E f : Solves(f, n)}
  <1>1. \A p \in D : R(p) \in Nat /\ R(p) < N + 1
    OBVIOUS
  <1>2. ASSUME NEW n \in Nat, n \in P PROVE n + 1 \in P
    <2>1. PICK f : Solves(f, n)
      BY <1>2
    <2> DEFINE g == [p \in D |-> IF R(p) < n THEN f[p] ELSE Turn(fn, a, f, p)]
    <2>2. \A p \in D : g[p] = IF R(p) < n THEN f[p] ELSE Turn(fn, a, f, p)
      OBVIOUS
    <2> HIDE DEF g
    <2>3. ASSUME NEW p \in D, R(p) < n + 1 PROVE g[p] = Turn(fn, a, g, p)
      <3>1. \A c \in D : R(c) < R(p) => f[c] = g[c]
        BY <1>1, <2>2, <2>3
      <3>2. Turn(fn, a, f, p) = Turn(fn, a, g, p)
        BY <3>1, Zenon DEF Local
      <3>3. g[p] = Turn(fn, a, f, p)
        BY <2>1, <2>2
      <3> QED BY <3>2, <3>3
    <2>4. Solves(g, n + 1)
      BY <2>3
    <2> QED BY <2>4
  <1>3. 0 \in P
    <2>1. \A f : Solves(f, 0)
      BY <1>1
    <2> QED BY <2>1
  <1>4. P = Nat
    <2>1. P \in SUBSET Nat
      OBVIOUS
    <2> HIDE DEF P
    <2>2. ASSUME NEW n \in Nat, \A mm \in 0..(n - 1) : mm \in P PROVE n \in P
      <3>1. CASE n = 0
        BY <1>3, <3>1
      <3>2. CASE n # 0
        <4>1. n - 1 \in Nat /\ n - 1 \in 0..(n - 1) /\ (n - 1) + 1 = n
          BY <3>2
        <4> QED BY <1>2, <2>2, <4>1
      <3> QED BY <3>1, <3>2
    <2> QED BY <2>1, <2>2, NatStrong
  <1>5. PICK f : Solves(f, N + 1)
    BY <1>4
  <1>6. \A p \in D : f[p] = Turn(fn, a, f, p)
    BY <1>1, <1>5
  <1> DEFINE h == [p \in D |-> f[p]]
  <1>7. \A p \in D : h[p] = f[p]
    OBVIOUS
  <1>8. h = [p \in D |-> h[p]]
    OBVIOUS
  <1> HIDE DEF h
  <1>9. \A p \in D : Turn(fn, a, f, p) = Turn(fn, a, h, p)
    BY <1>7, Zenon DEF Local
  <1>10. \A p \in D : h[p] = Turn(fn, a, h, p)
    BY <1>6, <1>7, <1>9
  <1>11. h = [p \in D |-> Turn(fn, a, h, p)]
    BY <1>8, <1>10, Zenon
  <1> QED BY <1>11, Zenon

-----------------------------------------------------------------------------
(* Powers of two: the least set that has 1 and is closed under doubling.   *)

Doubling(S) == 1 \in S /\ \A x \in S : 2 * x \in S

Pow2 == {w \in Nat : \A S \in SUBSET Nat : Doubling(S) => w \in S}

\* 1 is a power of two, and so is the double of one.
LEMMA Pow2Doubles == /\ 1 \in Pow2
                     /\ \A w \in Pow2 : 2 * w \in Pow2 /\ w \in Nat /\ w >= 1
  <1>1. 1 \in Pow2
    BY DEF Pow2, Doubling
  <1>2. ASSUME NEW w \in Pow2 PROVE 2 * w \in Pow2
    <2>1. w \in Nat /\ 2 * w \in Nat
      BY DEF Pow2
    <2>2. ASSUME NEW S \in SUBSET Nat, Doubling(S) PROVE 2 * w \in S
      <3>1. w \in S
        BY <2>2 DEF Pow2
      <3> QED BY <2>2, <3>1 DEF Doubling
    <2> QED BY <2>1, <2>2 DEF Pow2
  <1>3. ASSUME NEW w \in Pow2 PROVE w \in Nat /\ w >= 1
    <2> DEFINE S == Nat \ {0}
    <2>1. S \in SUBSET Nat /\ Doubling(S)
      BY DEF Doubling
    <2>2. w \in S /\ w \in Nat
      BY <2>1 DEF Pow2
    <2> QED BY <2>2
  <1> QED BY <1>1, <1>2, <1>3

\* Induction over the powers of two.
LEMMA Pow2Least ==
    ASSUME NEW S, 1 \in S, \A x \in S : x \in Pow2 => 2 * x \in S
    PROVE  Pow2 \subseteq S
  <1> DEFINE T == {w \in Pow2 : w \in S}
  <1>1. T \in SUBSET Nat
    BY DEF Pow2
  <1>2. Doubling(T)
    <2>1. 1 \in T
      BY Pow2Doubles
    <2>2. \A x \in T : 2 * x \in T
      BY Pow2Doubles
    <2> HIDE DEF T
    <2> QED BY <2>1, <2>2 DEF Doubling
  <1>3. ASSUME NEW w \in Pow2 PROVE w \in T
    <2> HIDE DEF T
    <2> QED BY <1>1, <1>2 DEF Pow2
  <1> QED BY <1>3

\* A power of two is 1 or the double of one.
LEMMA Pow2Halves ==
    ASSUME NEW w \in Pow2, w # 1
    PROVE  \E v \in Pow2 : w = 2 * v
  <1> DEFINE S == {x \in Pow2 : x = 1 \/ \E v \in Pow2 : x = 2 * v}
  <1>1. 1 \in S /\ \A x \in S : x \in Pow2 => 2 * x \in S
    BY Pow2Doubles
  <1>2. Pow2 \subseteq S
    <2> HIDE DEF S
    <2> QED BY <1>1, Pow2Least
  <1> QED BY <1>2

\* The lesser of two powers of two divides the other, and twice it is no larger.
LEMMA Pow2Divides ==
    ASSUME NEW v \in Pow2, NEW w \in Pow2
    PROVE  /\ v <= w => \E c \in Nat : w = c * v
           /\ v < w => 2 * v <= w
  <1> DEFINE Good(a, b) == (a <= b => \E c \in Nat : b = c * a) /\ (a < b => 2 * a <= b)
             S == {b \in Pow2 : \A a \in Pow2 : Good(a, b)}
  <1>1. 1 \in S
    <2>1. ASSUME NEW a \in Pow2 PROVE Good(a, 1)
      <3>1. a \in Nat /\ a >= 1
        BY Pow2Doubles
      <3>2. a <= 1 => 1 = 1 * a
        BY <3>1
      <3> QED BY <3>1, <3>2
    <2> QED BY <2>1, Pow2Doubles
  <1>2. ASSUME NEW x \in S PROVE 2 * x \in S
    <2>0. x \in Pow2 /\ 2 * x \in Pow2 /\ x \in Nat /\ x >= 1
      BY Pow2Doubles
    <2>1. ASSUME NEW a \in Pow2 PROVE Good(a, 2 * x)
      <3>0. a \in Nat /\ a >= 1
        BY Pow2Doubles
      <3>1. CASE a = 1
        <4>1. 2 * x \in Nat /\ 2 * x = (2 * x) * a
          BY <2>0, <3>1
        <4> QED BY <2>0, <3>1, <4>1
      <3>2. CASE a # 1
        <4>1. PICK v1 \in Pow2 : a = 2 * v1
          BY <3>2, Pow2Halves
        <4>2. Good(v1, x) /\ v1 \in Nat
          BY Pow2Doubles
        <4>3. a < 2 * x => 2 * a <= 2 * x
          BY <2>0, <4>1, <4>2
        <4>4. ASSUME a <= 2 * x PROVE \E c \in Nat : 2 * x = c * a
          <5>1. v1 <= x
            BY <2>0, <4>1, <4>2, <4>4
          <5>2. PICK c \in Nat : x = c * v1
            BY <4>2, <5>1
          <5>3. 2 * x = c * (2 * v1)
            BY <4>2, <5>2
          <5> QED BY <4>1, <5>3
        <4> QED BY <4>3, <4>4
      <3> QED BY <3>1, <3>2
    <2> HIDE DEF Good
    <2> QED BY <2>0, <2>1
  <1>3. Pow2 \subseteq S
    <2> HIDE DEF S
    <2> QED BY <1>1, <1>2, Pow2Least
  <1>4. Good(v, w)
    BY <1>3
  <1> QED BY <1>4

\* Only one power of two is below n and not below half of it.
LEMMA Pow2Unique ==
    ASSUME NEW v \in Pow2, NEW w \in Pow2, NEW n \in Nat, v < n, n <= 2 * v, w < n, n <= 2 * w
    PROVE  v = w
  <1>1. v \in Nat /\ w \in Nat
    BY Pow2Doubles
  <1>2. (v < w => 2 * v <= w) /\ (w < v => 2 * w <= v)
    BY Pow2Divides
  <1> QED BY <1>1, <1>2

\* A number that is not 0 has one odd part.
LEMMA OddPart ==
    ASSUME NEW v \in Pow2, NEW w \in Pow2, NEW f \in Nat, NEW g \in Nat, Odd(f), Odd(g), f * v = g * w
    PROVE  v = w /\ f = g
  <1>0. v \in Nat /\ w \in Nat /\ v >= 1 /\ w >= 1
    BY Pow2Doubles
  <1>1. ASSUME NEW a \in Pow2, NEW b \in Pow2, a < b, NEW x \in Nat, NEW y \in Nat, x * a = y * b
        PROVE  ~Odd(x)
    <2>1. a \in Nat /\ a >= 1 /\ b \in Nat
      BY Pow2Doubles
    <2>2. 2 * a <= b /\ 2 * a \in Pow2
      BY <1>1, Pow2Divides, Pow2Doubles
    <2>3. PICK c \in Nat : b = c * (2 * a)
      BY <2>2, Pow2Divides
    <2> DEFINE e == y * c
    <2>4. e \in Nat
      OBVIOUS
    <2>5. y * b = e * (2 * a)
      BY <2>1, <2>3
    <2>6. e * (2 * a) = (2 * e) * a
      <3> HIDE DEF e
      <3> QED BY <2>1, <2>4
    <2> HIDE DEF e
    <2>7. x * a = (2 * e) * a
      BY <1>1, <2>5, <2>6
    <2>8. x = 2 * e
      BY <2>1, <2>4, <2>7
    <2> QED BY <2>4, <2>8 DEF Odd
  <1>2. ~(v < w)
    BY <1>1
  <1>3. ~(w < v)
    BY <1>1
  <1>4. v = w
    BY <1>0, <1>2, <1>3
  <1>5. f = g
    BY <1>0, <1>4
  <1> QED BY <1>4, <1>5

-----------------------------------------------------------------------------
(* largest_pow2_below, and the width of the node over a range.              *)

\* _largest_pow2_below is the power of two below n that is not below half of it.
LEMMA PowSplits ==
    ASSUME NEW n \in Nat, n > 1
    PROVE  /\ largest_pow2_below(n) \in Pow2 /\ largest_pow2_below(n) \in 1..(n - 1)
           /\ n <= 2 * largest_pow2_below(n)
  <1> DEFINE loop == CHOOSE f : f = [k \in 1..n |-> IF k * 2 < n THEN f[k * 2] ELSE k]
  <1>1. largest_pow2_below(n) = loop[1]
    BY Zenon DEF largest_pow2_below
  <1>2. \A p \in 1..n : Rank("loop", n, p) = n - p
    BY DEF Rank
  <1>3. Local("loop", n)
    <2> SUFFICES ASSUME NEW f, NEW g, NEW p \in 1..n,
                        \A c \in 1..n : n - c < n - p => f[c] = g[c]
                 PROVE  Turn("loop", n, f, p) = Turn("loop", n, g, p)
      BY <1>2 DEF Local, Calls
    <2>1. CASE p * 2 < n
      <3>1. p * 2 \in 1..n /\ n - p * 2 < n - p
        BY <2>1
      <3> QED BY <2>1, <3>1 DEF Turn
    <2>2. CASE ~(p * 2 < n)
      BY <2>2 DEF Turn
    <2> QED BY <2>1, <2>2
  <1>4. \E f : f = [k \in 1..n |-> IF k * 2 < n THEN f[k * 2] ELSE k]
    <2>1. Calls("loop", n) = 1..n /\ \A p \in 1..n : Rank("loop", n, p) \in 0..n
      BY <1>2 DEF Calls
    <2>2. PICK f : f = [p \in Calls("loop", n) |-> Turn("loop", n, f, p)]
      BY <1>3, <2>1, Recursion
    <2>3. \A p \in 1..n : Turn("loop", n, f, p) = IF p * 2 < n THEN f[p * 2] ELSE p
      BY DEF Turn
    <2>4. f = [k \in 1..n |-> IF k * 2 < n THEN f[k * 2] ELSE k]
      BY <2>1, <2>2, <2>3
    <2> QED BY <2>4
  <1>5. loop = [k \in 1..n |-> IF k * 2 < n THEN loop[k * 2] ELSE k]
    BY <1>4, Zenon
  <1> HIDE DEF loop
  <1>6. \A k \in 1..n : loop[k] = IF k * 2 < n THEN loop[k * 2] ELSE k
    BY <1>5, Zenon
  <1> DEFINE Splits(r) == r \in Pow2 /\ r \in 1..(n - 1) /\ n <= 2 * r
             P == {d \in Nat : \A k \in 1..(n - 1) : k \in Pow2 /\ n - k = d => Splits(loop[k])}
  <1>7. ASSUME NEW d \in Nat, \A e \in 0..(d - 1) : e \in P PROVE d \in P
    <2> SUFFICES ASSUME NEW k \in 1..(n - 1), k \in Pow2, n - k = d PROVE Splits(loop[k])
      OBVIOUS
    <2>1. CASE k * 2 < n
      <3>1. k * 2 \in 1..(n - 1) /\ n - k * 2 \in 0..(d - 1) /\ k \in 1..n /\ k * 2 = 2 * k
        BY <2>1
      <3>2. k * 2 \in Pow2
        BY <3>1, Pow2Doubles
      <3> HIDE DEF Splits
      <3>3. Splits(loop[k * 2])
        BY <1>7, <3>1, <3>2
      <3> QED BY <1>6, <2>1, <3>1, <3>3
    <2>2. CASE ~(k * 2 < n)
      BY <1>6, <2>2
    <2> QED BY <2>1, <2>2
  <1>8. P = Nat
    <2>1. P \in SUBSET Nat
      OBVIOUS
    <2> HIDE DEF P
    <2> QED BY <1>7, <2>1, NatStrong
  <1>9. 1 \in 1..(n - 1) /\ n - 1 \in Nat /\ 1 \in Pow2
    BY Pow2Doubles
  <1> HIDE DEF Splits
  <1>10. Splits(loop[1])
    BY <1>8, <1>9
  <1> QED BY <1>1, <1>10 DEF Splits

\* The split of a range of more than w and at most 2w leaves is w.
LEMMA SplitIs ==
    ASSUME NEW w \in Pow2, NEW n \in Nat, w < n, n <= 2 * w
    PROVE  largest_pow2_below(n) = w
  <1>1. w \in Nat /\ w >= 1
    BY Pow2Doubles
  <1>2. n > 1
    BY <1>1
  <1> DEFINE k == largest_pow2_below(n)
  <1>3. k \in Pow2 /\ k \in 1..(n - 1) /\ n <= 2 * k
    BY <1>2, PowSplits
  <1> HIDE DEF k
  <1>4. k < n
    BY <1>3
  <1> QED BY <1>3, <1>4, Pow2Unique DEF k

\* The test m & (m - 1) = 0 finds the powers of two.
LEMMA IsPow2Is ==
    ASSUME NEW n \in Nat, n >= 1
    PROVE  IsPow2(n) <=> n \in Pow2
  <1>1. n + 1 \in Nat /\ n + 1 > 1 /\ n < n + 1 /\ n + 1 <= 2 * n
    OBVIOUS
  <1>2. largest_pow2_below(n + 1) \in Pow2
    <2> DEFINE k == n + 1
    <2>1. k \in Nat /\ k > 1
      BY <1>1
    <2> HIDE DEF k
    <2>2. largest_pow2_below(k) \in Pow2
      BY <2>1, PowSplits
    <2> QED BY <2>2 DEF k
  <1>3. n \in Pow2 => largest_pow2_below(n + 1) = n
    <2> DEFINE k == n + 1
    <2>1. k \in Nat /\ n < k /\ k <= 2 * n
      BY <1>1
    <2> HIDE DEF k
    <2>2. n \in Pow2 => largest_pow2_below(k) = n
      BY <2>1, SplitIs
    <2> QED BY <2>2 DEF k
  <1> QED BY <1>2, <1>3 DEF IsPow2

\* The least power of two that is not below s.
Span(s) == IF s = 1 THEN 1 ELSE 2 * largest_pow2_below(s)

\* What Span is.
LEMMA SpanIs ==
    ASSUME NEW s \in Nat, s >= 1
    PROVE  Span(s) \in Pow2 /\ s <= Span(s) /\ Span(s) < 2 * s
  <1>1. CASE s = 1
    BY <1>1, Pow2Doubles DEF Span
  <1>2. CASE s # 1
    <2> DEFINE k == largest_pow2_below(s)
    <2>1. s > 1
      BY <1>2
    <2>2. k \in Pow2 /\ k \in 1..(s - 1) /\ s <= 2 * k
      BY <2>1, PowSplits
    <2>3. Span(s) = 2 * k
      BY <1>2 DEF Span
    <2> HIDE DEF k
    <2>4. 2 * k \in Pow2
      BY <2>2, Pow2Doubles
    <2> QED BY <2>2, <2>3, <2>4
  <1> QED BY <1>1, <1>2

\* The span of a power of two is itself, and that of a range between two is the larger.
LEMMA SpanUnique ==
    ASSUME NEW s \in Nat, s >= 1, NEW w \in Pow2, s <= w, w < 2 * s
    PROVE  Span(s) = w
  <1>1. Span(s) \in Pow2 /\ s <= Span(s) /\ Span(s) < 2 * s
    BY SpanIs
  <1> DEFINE v == Span(s)
  <1>2. v \in Nat /\ w \in Nat
    BY <1>1, Pow2Doubles
  <1>3. (v < w => 2 * v <= w) /\ (w < v => 2 * w <= v)
    BY <1>1, Pow2Divides
  <1> HIDE DEF v
  <1>4. v = w
    BY <1>1, <1>2, <1>3 DEF v
  <1> QED BY <1>4 DEF v

\* _largest_pow2_below splits a range of two entries or more into two that are not empty.
LEMMA PowBelow ==
    ASSUME NEW n \in Nat, n > 1
    PROVE  largest_pow2_below(n) \in 1..(n - 1)
  BY PowSplits

-----------------------------------------------------------------------------
(* The tree hash of a slice, by the slices it is made of.                   *)

Slice(leaves, lo, n) == SubSeq(leaves, lo + 1, lo + n)

RangeOf(leaves) ==
    CHOOSE f : f = [r \in Nat \X (0..Len(leaves)) |->
                       IF r[2] = 0 THEN empty_hash
                       ELSE IF r[2] = 1 THEN leaves[r[1] + 1]
                       ELSE node_hash(f[<<r[1], largest_pow2_below(r[2])>>],
                                      f[<<r[1] + largest_pow2_below(r[2]),
                                          r[2] - largest_pow2_below(r[2])>>])]

\* _mth hashes the range that is the whole sequence.
LEMMA MthIsRange ==
    ASSUME NEW leaves
    PROVE  mth(leaves) = RangeOf(leaves)[<<0, Len(leaves)>>]
  BY Zenon DEF mth, RangeOf

\* The body of the recursion of _mth, at every range.
LEMMA RangeUnfolds ==
    ASSUME NEW leaves, Len(leaves) \in Nat, NEW lo \in Nat, NEW n \in 0..Len(leaves)
    PROVE  RangeOf(leaves)[<<lo, n>>] =
               IF n = 0 THEN empty_hash
               ELSE IF n = 1 THEN leaves[lo + 1]
               ELSE node_hash(RangeOf(leaves)[<<lo, largest_pow2_below(n)>>],
                              RangeOf(leaves)[<<lo + largest_pow2_below(n), n - largest_pow2_below(n)>>])
  <1> DEFINE D == Nat \X (0..Len(leaves))
  <1>1. Calls("mth", leaves) = D /\ \A p \in D : Rank("mth", leaves, p) = p[2]
    BY DEF Calls, Rank
  <1>2. Local("mth", leaves)
    <2> SUFFICES ASSUME NEW f, NEW g, NEW p \in D, \A c \in D : c[2] < p[2] => f[c] = g[c]
                 PROVE  Turn("mth", leaves, f, p) = Turn("mth", leaves, g, p)
      BY <1>1 DEF Local
    <2>1. CASE p[2] = 0 \/ p[2] = 1
      BY <2>1 DEF Turn
    <2>2. CASE ~(p[2] = 0 \/ p[2] = 1)
      <3> DEFINE k == largest_pow2_below(p[2])
                 c1 == <<p[1], k>>
                 c2 == <<p[1] + k, p[2] - k>>
      <3>1. p[1] \in Nat /\ p[2] \in Nat /\ p[2] > 1 /\ p[2] <= Len(leaves)
        BY <2>2
      <3>2. k \in 1..(p[2] - 1)
        BY <3>1, PowBelow
      <3> HIDE DEF k
      <3>3. k \in 0..Len(leaves) /\ k < p[2] /\ p[1] + k \in Nat
            /\ p[2] - k \in 0..Len(leaves) /\ p[2] - k < p[2]
        BY <3>1, <3>2
      <3>4. c1 \in D /\ c2 \in D /\ c1[2] < p[2] /\ c2[2] < p[2]
        BY <3>1, <3>3
      <3>5. f[c1] = g[c1] /\ f[c2] = g[c2]
        BY <3>4
      <3>6. \A h : Turn("mth", leaves, h, p) = node_hash(h[c1], h[c2])
        BY <2>2 DEF Turn, k
      <3> QED BY <3>5, <3>6
    <2> QED BY <2>1, <2>2
  <1>3. RangeOf(leaves) = [r \in D |->
                       IF r[2] = 0 THEN empty_hash
                       ELSE IF r[2] = 1 THEN leaves[r[1] + 1]
                       ELSE node_hash(RangeOf(leaves)[<<r[1], largest_pow2_below(r[2])>>],
                                      RangeOf(leaves)[<<r[1] + largest_pow2_below(r[2]),
                                          r[2] - largest_pow2_below(r[2])>>])]
    <2>1. PICK f : f = [p \in Calls("mth", leaves) |-> Turn("mth", leaves, f, p)]
      <3>1. \A p \in Calls("mth", leaves) : Rank("mth", leaves, p) \in 0..Len(leaves)
        BY <1>1
      <3> QED BY <1>2, <3>1, Recursion
    <2>2. \A r \in D : Turn("mth", leaves, f, r) = 
                       IF r[2] = 0 THEN empty_hash
                       ELSE IF r[2] = 1 THEN leaves[r[1] + 1]
                       ELSE node_hash(f[<<r[1], largest_pow2_below(r[2])>>],
                                      f[<<r[1] + largest_pow2_below(r[2]),
                                          r[2] - largest_pow2_below(r[2])>>])
      BY ZenonT(60) DEF Turn
    <2>3. f = [r \in D |->
                       IF r[2] = 0 THEN empty_hash
                       ELSE IF r[2] = 1 THEN leaves[r[1] + 1]
                       ELSE node_hash(f[<<r[1], largest_pow2_below(r[2])>>],
                                      f[<<r[1] + largest_pow2_below(r[2]),
                                          r[2] - largest_pow2_below(r[2])>>])]
      BY <1>1, <2>1, <2>2
    <2> HIDE DEF D
    <2> QED BY <2>3, Zenon DEF RangeOf, D
  <1>4. <<lo, n>> \in D
    OBVIOUS
  <1> HIDE DEF D
  <1> DEFINE F == RangeOf(leaves)
  <1> HIDE DEF F
  <1>5. \A r \in D : F[r] = IF r[2] = 0 THEN empty_hash
                       ELSE IF r[2] = 1 THEN leaves[r[1] + 1]
                       ELSE node_hash(F[<<r[1], largest_pow2_below(r[2])>>],
                                      F[<<r[1] + largest_pow2_below(r[2]),
                                          r[2] - largest_pow2_below(r[2])>>])
    BY <1>3, Zenon DEF F
  <1>6. <<lo, n>>[1] = lo /\ <<lo, n>>[2] = n
    OBVIOUS
  <1> QED BY <1>4, <1>5, <1>6 DEF F

\* What a slice of the leaves holds.
LEMMA SliceIs ==
    ASSUME NEW S, NEW leaves \in Seq(S), NEW lo \in Nat, NEW n \in Nat, lo + n <= Len(leaves)
    PROVE  /\ Slice(leaves, lo, n) \in Seq(S) /\ Len(Slice(leaves, lo, n)) = n
           /\ \A i \in 1..n : Slice(leaves, lo, n)[i] = leaves[lo + i]
  <1>1. \A i \in (lo + 1)..(lo + n) : leaves[i] \in S
    OBVIOUS
  <1> QED BY <1>1, SubSeqProperties DEF Slice

\* A range of a slice is a range of the sequence it was cut from.
LEMMA RangeOfSlice ==
    ASSUME NEW S, NEW leaves \in Seq(S), NEW lo \in Nat, NEW n \in Nat, lo + n <= Len(leaves),
           NEW a \in Nat, NEW c \in Nat, a + c <= n
    PROVE  RangeOf(Slice(leaves, lo, n))[<<a, c>>] = RangeOf(leaves)[<<lo + a, c>>]
  <1> DEFINE s == Slice(leaves, lo, n)
             F == RangeOf(s)
             G == RangeOf(leaves)
             P == {d \in Nat : \A b \in Nat : b + d <= n => F[<<b, d>>] = G[<<lo + b, d>>]}
  <1>1. Len(s) = n /\ \A i \in 1..n : s[i] = leaves[lo + i]
    BY SliceIs, ZenonT(60)
  <1>2. Len(leaves) \in Nat
    OBVIOUS
  <1> HIDE DEF s
  <1>3. ASSUME NEW d \in Nat, \A e \in 0..(d - 1) : e \in P PROVE d \in P
    <2> SUFFICES ASSUME NEW b \in Nat, b + d <= n PROVE F[<<b, d>>] = G[<<lo + b, d>>]
      OBVIOUS
    <2> DEFINE k == largest_pow2_below(d)
    <2>1. F[<<b, d>>] = IF d = 0 THEN empty_hash ELSE IF d = 1 THEN s[b + 1]
                        ELSE node_hash(F[<<b, k>>], F[<<b + k, d - k>>])
      <3>1. Len(s) \in Nat /\ d \in 0..Len(s)
        BY <1>1
      <3> QED BY <3>1, RangeUnfolds
    <2>2. G[<<lo + b, d>>] = IF d = 0 THEN empty_hash ELSE IF d = 1 THEN leaves[lo + b + 1]
                             ELSE node_hash(G[<<lo + b, k>>], G[<<lo + b + k, d - k>>])
      <3>1. lo + b \in Nat /\ d \in 0..Len(leaves)
        BY <1>2
      <3> QED BY <1>2, <3>1, RangeUnfolds
    <2>3. CASE d = 0
      BY <2>1, <2>2, <2>3
    <2>4. CASE d = 1
      <3>1. s[b + 1] = leaves[lo + b + 1]
        BY <1>1, <2>4
      <3> QED BY <2>1, <2>2, <2>4, <3>1
    <2>5. CASE d > 1
      <3>1. k \in 1..(d - 1)
        BY <2>5, PowBelow
      <3> HIDE DEF k, F, G
      <3>2. k \in P /\ d - k \in P
        BY <1>3, <3>1
      <3>3. F[<<b, k>>] = G[<<lo + b, k>>]
        BY <3>1, <3>2
      <3>4. F[<<b + k, d - k>>] = G[<<lo + (b + k), d - k>>]
        BY <3>1, <3>2
      <3>5. lo + (b + k) = lo + b + k
        BY <3>1
      <3>6. F[<<b, d>>] = node_hash(F[<<b, k>>], F[<<b + k, d - k>>])
        BY <2>1, <2>5
      <3>7. G[<<lo + b, d>>] = node_hash(G[<<lo + b, k>>], G[<<lo + b + k, d - k>>])
        BY <2>2, <2>5
      <3> QED BY <3>3, <3>4, <3>5, <3>6, <3>7
    <2> QED BY <2>3, <2>4, <2>5
  <1>4. P = Nat
    <2>1. P \in SUBSET Nat
      OBVIOUS
    <2> HIDE DEF P
    <2> QED BY <1>3, <2>1, NatStrong
  <1>5. c \in P
    BY <1>4
  <1> QED BY <1>5 DEF s

\* _mth of a slice, as the recursion over the whole sequence computes it.
LEMMA MthOfSlice ==
    ASSUME NEW S, NEW leaves \in Seq(S), NEW lo \in Nat, NEW n \in Nat, lo + n <= Len(leaves)
    PROVE  mth(Slice(leaves, lo, n)) = RangeOf(leaves)[<<lo, n>>]
  <1>1. Len(Slice(leaves, lo, n)) = n
    BY SliceIs
  <1>2. mth(Slice(leaves, lo, n)) = RangeOf(Slice(leaves, lo, n))[<<0, n>>]
    BY <1>1, MthIsRange
  <1>3. RangeOf(Slice(leaves, lo, n))[<<0, n>>] = RangeOf(leaves)[<<lo + 0, n>>]
    BY RangeOfSlice
  <1>4. lo + 0 = lo
    OBVIOUS
  <1> QED BY <1>2, <1>3, <1>4

\* The three equations of the tree hash: a slice of one leaf, a longer one, and
\* the slice that is the whole sequence.
LEMMA MthLeaf ==
    ASSUME NEW S, NEW leaves \in Seq(S), NEW lo \in Nat, lo + 1 <= Len(leaves)
    PROVE  mth(Slice(leaves, lo, 1)) = leaves[lo + 1]
  <1>1. mth(Slice(leaves, lo, 1)) = RangeOf(leaves)[<<lo, 1>>]
    BY MthOfSlice
  <1>2. Len(leaves) \in Nat /\ 1 \in 0..Len(leaves)
    OBVIOUS
  <1>3. RangeOf(leaves)[<<lo, 1>>] = leaves[lo + 1]
    <2> DEFINE n == 1
    <2>1. n \in 0..Len(leaves) /\ n = 1 /\ n # 0
      BY <1>2
    <2> HIDE DEF n
    <2> QED BY <1>2, <2>1, RangeUnfolds
  <1> QED BY <1>1, <1>3

\* A slice of several leaves hashes its two halves.
LEMMA MthNode ==
    ASSUME NEW S, NEW leaves \in Seq(S), NEW lo \in Nat, NEW n \in Nat, n > 1, lo + n <= Len(leaves)
    PROVE  mth(Slice(leaves, lo, n)) =
               node_hash(mth(Slice(leaves, lo, largest_pow2_below(n))),
                         mth(Slice(leaves, lo + largest_pow2_below(n), n - largest_pow2_below(n))))
  <1> DEFINE k == largest_pow2_below(n)
  <1>1. k \in 1..(n - 1)
    BY PowBelow
  <1>2. Len(leaves) \in Nat /\ n \in 0..Len(leaves)
    OBVIOUS
  <1>3. RangeOf(leaves)[<<lo, n>>] = node_hash(RangeOf(leaves)[<<lo, k>>], RangeOf(leaves)[<<lo + k, n - k>>])
    BY <1>2, RangeUnfolds
  <1>4. mth(Slice(leaves, lo, n)) = RangeOf(leaves)[<<lo, n>>]
    BY MthOfSlice
  <1> HIDE DEF k
  <1>5. mth(Slice(leaves, lo, k)) = RangeOf(leaves)[<<lo, k>>]
    <2>1. k \in Nat /\ lo + k <= Len(leaves)
      BY <1>1, <1>2
    <2> QED BY <2>1, MthOfSlice
  <1>6. mth(Slice(leaves, lo + k, n - k)) = RangeOf(leaves)[<<lo + k, n - k>>]
    <2>1. lo + k \in Nat /\ n - k \in Nat /\ (lo + k) + (n - k) <= Len(leaves)
      BY <1>1, <1>2
    <2> QED BY <2>1, MthOfSlice
  <1> QED BY <1>3, <1>4, <1>5, <1>6 DEF k

\* The slice of no leaves.
LEMMA MthEmpty ==
    ASSUME NEW S, NEW leaves \in Seq(S), NEW lo \in Nat, lo <= Len(leaves)
    PROVE  mth(Slice(leaves, lo, 0)) = empty_hash
  <1> DEFINE n == 0
  <1>1. n \in Nat /\ n \in 0..Len(leaves) /\ n = 0 /\ lo + n <= Len(leaves) /\ Len(leaves) \in Nat
    OBVIOUS
  <1> HIDE DEF n
  <1>2. mth(Slice(leaves, lo, n)) = RangeOf(leaves)[<<lo, n>>]
    BY <1>1, MthOfSlice
  <1>3. RangeOf(leaves)[<<lo, n>>] = empty_hash
    BY <1>1, RangeUnfolds
  <1> QED BY <1>2, <1>3 DEF n

\* The tree hash is that of the slice that is the whole sequence.
LEMMA MthWhole ==
    ASSUME NEW S, NEW leaves \in Seq(S)
    PROVE  mth(leaves) = mth(Slice(leaves, 0, Len(leaves)))
  <1>1. Len(leaves) \in Nat /\ 0 + Len(leaves) <= Len(leaves)
    OBVIOUS
  <1>2. mth(Slice(leaves, 0, Len(leaves))) = RangeOf(leaves)[<<0, Len(leaves)>>]
    BY <1>1, MthOfSlice
  <1> QED BY <1>2, MthIsRange

-----------------------------------------------------------------------------
(* The length that is expected of a path.                                   *)

DepthOf(tree_size) ==
    CHOOSE f : f = [p \in (0..tree_size) \X Nat |->
                       IF p[1] <= 1 THEN 0
                       ELSE IF p[2] < largest_pow2_below(p[1])
                       THEN 1 + f[<<largest_pow2_below(p[1]), p[2]>>]
                       ELSE 1 + f[<<p[1] - largest_pow2_below(p[1]), p[2] - largest_pow2_below(p[1])>>]]

\* The body of the recursion of expected_inclusion_path_len.
LEMMA DepthUnfolds ==
    ASSUME NEW N \in Nat, NEW sz \in 0..N, NEW mm \in Nat
    PROVE  DepthOf(N)[<<sz, mm>>] =
               IF sz <= 1 THEN 0
               ELSE IF mm < largest_pow2_below(sz)
               THEN 1 + DepthOf(N)[<<largest_pow2_below(sz), mm>>]
               ELSE 1 + DepthOf(N)[<<sz - largest_pow2_below(sz), mm - largest_pow2_below(sz)>>]
  <1> DEFINE D == (0..N) \X Nat
             Body(f, p) == IF p[1] <= 1 THEN 0
                       ELSE IF p[2] < largest_pow2_below(p[1])
                       THEN 1 + f[<<largest_pow2_below(p[1]), p[2]>>]
                       ELSE 1 + f[<<p[1] - largest_pow2_below(p[1]), p[2] - largest_pow2_below(p[1])>>]
  <1>1. Calls("depth", N) = D /\ \A p \in D : Rank("depth", N, p) = p[1]
    BY DEF Calls, Rank
  <1>2. \A f : \A p \in D : Turn("depth", N, f, p) = Body(f, p)
    BY ZenonT(60) DEF Turn
  <1>3. Local("depth", N)
    <2> HIDE DEF Body, D
    <2> SUFFICES ASSUME NEW f, NEW g, NEW p \in D, \A c \in D : c[1] < p[1] => f[c] = g[c]
                 PROVE  Body(f, p) = Body(g, p)
      BY <1>1, <1>2 DEF Local
    <2> USE DEF Body, D
    <2>1. CASE p[1] <= 1
      BY <2>1
    <2>2. CASE ~(p[1] <= 1)
      <3> DEFINE k == largest_pow2_below(p[1])
                 c1 == <<k, p[2]>>
                 c2 == <<p[1] - k, p[2] - k>>
      <3>1. p[1] \in Nat /\ p[2] \in Nat /\ p[1] > 1 /\ p[1] <= N
        BY <2>2
      <3>2. k \in 1..(p[1] - 1)
        BY <3>1, PowBelow
      <3>3. Body(f, p) = IF p[2] < k THEN 1 + f[c1] ELSE 1 + f[c2]
        BY <2>2
      <3>4. Body(g, p) = IF p[2] < k THEN 1 + g[c1] ELSE 1 + g[c2]
        BY <2>2
      <3> HIDE DEF k, Body
      <3>5. c1 \in D /\ c1[1] < p[1]
        BY <3>1, <3>2
      <3>6. p[2] >= k => c2 \in D /\ c2[1] < p[1]
        BY <3>1, <3>2
      <3>7. CASE p[2] < k
        BY <3>3, <3>4, <3>5, <3>7
      <3>8. CASE ~(p[2] < k)
        <4>1. p[2] >= k
          BY <3>1, <3>2, <3>8
        <4>2. f[c2] = g[c2]
          BY <3>6, <4>1
        <4> QED BY <3>3, <3>4, <3>8, <4>2
      <3> QED BY <3>7, <3>8
    <2> QED BY <2>1, <2>2
  <1>4. \E f : f = [p \in D |-> Body(f, p)]
    <2>1. \A p \in Calls("depth", N) : Rank("depth", N, p) \in 0..N
      BY <1>1
    <2>2. PICK f : f = [p \in Calls("depth", N) |-> Turn("depth", N, f, p)]
      BY <1>3, <2>1, Recursion
    <2> HIDE DEF Body, D
    <2>3. f = [p \in D |-> Body(f, p)]
      BY <1>1, <1>2, <2>2
    <2> QED BY <2>3
  <1>5. DepthOf(N) = [p \in D |-> Body(DepthOf(N), p)]
    BY <1>4, Zenon DEF DepthOf
  <1> DEFINE F == DepthOf(N)
  <1> HIDE DEF D, Body, F
  <1>6. \A p \in D : F[p] = Body(F, p)
    BY <1>5, Zenon DEF F
  <1>7. <<sz, mm>> \in D
    BY DEF D
  <1>8. F[<<sz, mm>>] = Body(F, <<sz, mm>>)
    BY <1>6, <1>7
  <1>9. <<sz, mm>>[1] = sz /\ <<sz, mm>>[2] = mm
    OBVIOUS
  <1> QED BY <1>8, <1>9 DEF F, Body

\* The depth of a leaf does not depend on the tree the recursion was started for.
LEMMA DepthAgrees ==
    ASSUME NEW N \in Nat, NEW M \in Nat, NEW sz \in Nat, sz <= N, sz <= M, NEW mm \in Nat
    PROVE  DepthOf(N)[<<sz, mm>>] = DepthOf(M)[<<sz, mm>>] /\ DepthOf(N)[<<sz, mm>>] \in Nat
  <1> DEFINE F == DepthOf(N)
             G == DepthOf(M)
             P == {s \in Nat : \A j \in Nat : s <= N /\ s <= M => F[<<s, j>>] = G[<<s, j>>] /\ F[<<s, j>>] \in Nat}
  <1>1. ASSUME NEW s \in Nat, \A e \in 0..(s - 1) : e \in P PROVE s \in P
    <2> SUFFICES ASSUME NEW j \in Nat, s <= N, s <= M PROVE F[<<s, j>>] = G[<<s, j>>] /\ F[<<s, j>>] \in Nat
      OBVIOUS
    <2> DEFINE k == largest_pow2_below(s)
    <2>1. F[<<s, j>>] = IF s <= 1 THEN 0 ELSE IF j < k THEN 1 + F[<<k, j>>] ELSE 1 + F[<<s - k, j - k>>]
      BY DepthUnfolds
    <2>2. G[<<s, j>>] = IF s <= 1 THEN 0 ELSE IF j < k THEN 1 + G[<<k, j>>] ELSE 1 + G[<<s - k, j - k>>]
      BY DepthUnfolds
    <2>3. CASE s <= 1
      BY <2>1, <2>2, <2>3
    <2>4. CASE ~(s <= 1)
      <3>1. k \in 1..(s - 1)
        BY <2>4, PowBelow
      <3> HIDE DEF k, F, G
      <3>2. k \in P /\ s - k \in P
        BY <1>1, <3>1
      <3>3. CASE j < k
        <4>1. F[<<k, j>>] = G[<<k, j>>] /\ F[<<k, j>>] \in Nat
          BY <3>1, <3>2
        <4> QED BY <2>1, <2>2, <2>4, <3>3, <4>1
      <3>4. CASE ~(j < k)
        <4>1. j - k \in Nat
          BY <3>1, <3>4
        <4>2. F[<<s - k, j - k>>] = G[<<s - k, j - k>>] /\ F[<<s - k, j - k>>] \in Nat
          BY <3>1, <3>2, <4>1
        <4> QED BY <2>1, <2>2, <2>4, <3>4, <4>2
      <3> QED BY <3>3, <3>4
    <2> QED BY <2>3, <2>4
  <1>2. P = Nat
    <2>1. P \in SUBSET Nat
      OBVIOUS
    <2> HIDE DEF P
    <2> QED BY <1>1, <2>1, NatStrong
  <1>3. sz \in P
    BY <1>2
  <1> QED BY <1>3

\* The three equations of expected_inclusion_path_len.
LEMMA DepthFacts ==
    ASSUME NEW sz \in Nat, NEW mm \in Nat
    PROVE  /\ expected_inclusion_path_len(sz, mm) \in Nat
           /\ sz <= 1 => expected_inclusion_path_len(sz, mm) = 0
           /\ sz > 1 /\ mm < largest_pow2_below(sz) =>
                 expected_inclusion_path_len(sz, mm) = 1 + expected_inclusion_path_len(largest_pow2_below(sz), mm)
           /\ sz > 1 /\ mm >= largest_pow2_below(sz) =>
                 expected_inclusion_path_len(sz, mm) =
                     1 + expected_inclusion_path_len(sz - largest_pow2_below(sz), mm - largest_pow2_below(sz))
  <1> DEFINE k == largest_pow2_below(sz)
  <1>1. \A s, j : expected_inclusion_path_len(s, j) = DepthOf(s)[<<s, j>>]
    BY Zenon DEF expected_inclusion_path_len, DepthOf
  <1>2. DepthOf(sz)[<<sz, mm>>] = IF sz <= 1 THEN 0 ELSE IF mm < k THEN 1 + DepthOf(sz)[<<k, mm>>]
                                     ELSE 1 + DepthOf(sz)[<<sz - k, mm - k>>]
    BY DepthUnfolds
  <1>3. DepthOf(sz)[<<sz, mm>>] \in Nat
    BY DepthAgrees
  <1>4. ASSUME sz > 1, mm < k PROVE DepthOf(sz)[<<k, mm>>] = DepthOf(k)[<<k, mm>>]
    <2>1. k \in 1..(sz - 1)
      BY <1>4, PowBelow
    <2> HIDE DEF k
    <2>2. k \in Nat /\ k <= sz /\ k <= k
      BY <2>1
    <2> QED BY <2>2, DepthAgrees
  <1>5. ASSUME sz > 1, mm >= k PROVE DepthOf(sz)[<<sz - k, mm - k>>] = DepthOf(sz - k)[<<sz - k, mm - k>>]
    <2>1. k \in 1..(sz - 1)
      BY <1>5, PowBelow
    <2> HIDE DEF k
    <2>2. sz - k \in Nat /\ sz - k <= sz /\ sz - k <= sz - k /\ mm - k \in Nat
      BY <1>5, <2>1
    <2> QED BY <2>2, DepthAgrees
  <1>6. sz > 1 => k \in 1..(sz - 1)
    BY PowBelow
  <1> HIDE DEF k
  <1>7. sz > 1 /\ mm < k => DepthOf(sz)[<<sz, mm>>] = 1 + DepthOf(k)[<<k, mm>>]
    BY <1>2, <1>4
  <1>8. sz > 1 /\ mm >= k => DepthOf(sz)[<<sz, mm>>] = 1 + DepthOf(sz - k)[<<sz - k, mm - k>>]
    BY <1>2, <1>5, <1>6
  <1>9. sz <= 1 => DepthOf(sz)[<<sz, mm>>] = 0
    BY <1>2
  <1> QED BY <1>1, <1>3, <1>7, <1>8, <1>9 DEF k

-----------------------------------------------------------------------------
(* The path that inclusion_proof makes.                                     *)

PathOf(entries) ==
    CHOOSE f : f = [p \in Nat \X (1..Len(entries)) \X Nat |->
         IF p[2] = 1 THEN << >>
         ELSE IF p[3] < largest_pow2_below(p[2])
         THEN Append(f[<<p[1], largest_pow2_below(p[2]), p[3]>>],
                     mth(SubSeq(LeavesOf(entries), p[1] + largest_pow2_below(p[2]) + 1, p[1] + p[2])))
         ELSE Append(f[<<p[1] + largest_pow2_below(p[2]), p[2] - largest_pow2_below(p[2]),
                         p[3] - largest_pow2_below(p[2])>>],
                     mth(SubSeq(LeavesOf(entries), p[1] + 1, p[1] + largest_pow2_below(p[2]))))]

\* The body of the recursion of inclusion_proof.
LEMMA PathUnfolds ==
    ASSUME NEW entries, Len(entries) \in Nat, NEW lo \in Nat, NEW n \in 1..Len(entries), NEW mm \in Nat
    PROVE  PathOf(entries)[<<lo, n, mm>>] =
               IF n = 1 THEN << >>
               ELSE IF mm < largest_pow2_below(n)
               THEN Append(PathOf(entries)[<<lo, largest_pow2_below(n), mm>>],
                           mth(SubSeq(LeavesOf(entries), lo + largest_pow2_below(n) + 1, lo + n)))
               ELSE Append(PathOf(entries)[<<lo + largest_pow2_below(n), n - largest_pow2_below(n),
                                             mm - largest_pow2_below(n)>>],
                           mth(SubSeq(LeavesOf(entries), lo + 1, lo + largest_pow2_below(n))))
  <1> DEFINE D == Nat \X (1..Len(entries)) \X Nat
             Body(f, p) ==
                 IF p[2] = 1 THEN << >>
                 ELSE IF p[3] < largest_pow2_below(p[2])
                 THEN Append(f[<<p[1], largest_pow2_below(p[2]), p[3]>>],
                             mth(SubSeq(LeavesOf(entries), p[1] + largest_pow2_below(p[2]) + 1, p[1] + p[2])))
                 ELSE Append(f[<<p[1] + largest_pow2_below(p[2]), p[2] - largest_pow2_below(p[2]),
                                 p[3] - largest_pow2_below(p[2])>>],
                             mth(SubSeq(LeavesOf(entries), p[1] + 1, p[1] + largest_pow2_below(p[2]))))
  <1>1. Calls("path", entries) = D /\ \A p \in D : Rank("path", entries, p) = p[2]
    BY DEF Calls, Rank
  <1>2. \A f : \A p \in D : Turn("path", entries, f, p) = Body(f, p)
    <2>1. \A f, p : Turn("path", entries, f, p) = PathTurn(entries, f, p)
      BY ZenonT(60) DEF Turn
    <2> QED BY <2>1, Zenon DEF PathTurn
  <1>3. Local("path", entries)
    <2> HIDE DEF Body, D
    <2> SUFFICES ASSUME NEW f, NEW g, NEW p \in D, \A c \in D : c[2] < p[2] => f[c] = g[c]
                 PROVE  Body(f, p) = Body(g, p)
      BY <1>1, <1>2 DEF Local
    <2> USE DEF D
    <2>1. CASE p[2] = 1
      BY <2>1 DEF Body
    <2>2. CASE p[2] # 1
      <3> DEFINE k == largest_pow2_below(p[2])
                 c1 == <<p[1], k, p[3]>>
                 c2 == <<p[1] + k, p[2] - k, p[3] - k>>
                 right == mth(SubSeq(LeavesOf(entries), p[1] + k + 1, p[1] + p[2]))
                 left == mth(SubSeq(LeavesOf(entries), p[1] + 1, p[1] + k))
      <3>1. p[1] \in Nat /\ p[2] \in Nat /\ p[3] \in Nat /\ p[2] > 1 /\ p[2] <= Len(entries)
        BY <2>2
      <3>2. k \in 1..(p[2] - 1)
        BY <3>1, PowBelow
      <3>3. Body(f, p) = IF p[3] < k THEN Append(f[c1], right) ELSE Append(f[c2], left)
        BY <2>2 DEF Body
      <3>4. Body(g, p) = IF p[3] < k THEN Append(g[c1], right) ELSE Append(g[c2], left)
        BY <2>2 DEF Body
      <3> HIDE DEF k, left, right
      <3>5. c1 \in D /\ c1[2] < p[2]
        BY <3>1, <3>2
      <3>6. p[3] >= k => c2 \in D /\ c2[2] < p[2]
        BY <3>1, <3>2
      <3>7. CASE p[3] < k
        BY <3>3, <3>4, <3>5, <3>7
      <3>8. CASE ~(p[3] < k)
        <4>1. p[3] >= k
          BY <3>1, <3>2, <3>8
        <4>2. f[c2] = g[c2]
          BY <3>6, <4>1
        <4> QED BY <3>3, <3>4, <3>8, <4>2
      <3> QED BY <3>7, <3>8
    <2> QED BY <2>1, <2>2
  <1>4. \E f : f = [p \in D |-> Body(f, p)]
    <2>1. \A p \in Calls("path", entries) : Rank("path", entries, p) \in 0..Len(entries)
      BY <1>1
    <2>2. PICK f : f = [p \in Calls("path", entries) |-> Turn("path", entries, f, p)]
      BY <1>3, <2>1, Recursion
    <2> HIDE DEF Body, D
    <2>3. f = [p \in D |-> Body(f, p)]
      BY <1>1, <1>2, <2>2
    <2> QED BY <2>3
  <1>5. PathOf(entries) = [p \in D |-> Body(PathOf(entries), p)]
    BY <1>4, Zenon DEF PathOf
  <1> DEFINE F == PathOf(entries)
  <1> HIDE DEF D, Body, F
  <1>6. \A p \in D : F[p] = Body(F, p)
    BY <1>5, Zenon DEF F
  <1>7. <<lo, n, mm>> \in D
    BY DEF D
  <1>8. F[<<lo, n, mm>>] = Body(F, <<lo, n, mm>>)
    BY <1>6, <1>7
  <1>9. <<lo, n, mm>>[1] = lo /\ <<lo, n, mm>>[2] = n /\ <<lo, n, mm>>[3] = mm
    OBVIOUS
  <1> QED BY <1>8, <1>9 DEF F, Body

\* What appending one element does.
LEMMA Longer ==
    ASSUME NEW X, NEW t \in Seq(X), NEW e \in X
    PROVE  /\ Append(t, e) \in Seq(X) /\ Len(Append(t, e)) = Len(t) + 1 /\ Len(t) \in Nat
           /\ Append(t, e)[Len(t) + 1] = e
           /\ \A i \in 1..Len(t) : Append(t, e)[i] = t[i]
  BY AppendProperties

\* X holds the digests of all the ranges of the log.
Digests(entries, X) == \A i, i2 \in Int : mth(SubSeq(LeavesOf(entries), i, i2)) \in X

\* The path of an entry has the length that is expected of it.
LEMMA PathFacts ==
    ASSUME NEW entries, Len(entries) \in Nat, NEW X,
           Digests(entries, X),
           NEW lo \in Nat, NEW n \in 1..Len(entries), NEW mm \in 0..(n - 1)
    PROVE  /\ PathOf(entries)[<<lo, n, mm>>] \in Seq(X)
           /\ Len(PathOf(entries)[<<lo, n, mm>>]) = expected_inclusion_path_len(n, mm)
  <1> DEFINE F == PathOf(entries)
             Good(b, s, j) == F[<<b, s, j>>] \in Seq(X) /\ Len(F[<<b, s, j>>]) = expected_inclusion_path_len(s, j)
             P == {s \in Nat : s \in 1..Len(entries) => \A b \in Nat, j \in 0..(s - 1) : Good(b, s, j)}
  <1> HIDE DEF Good
  <1>1. ASSUME NEW s \in Nat, \A e \in 0..(s - 1) : e \in P PROVE s \in P
    <2> SUFFICES ASSUME s \in 1..Len(entries), NEW b \in Nat, NEW j \in 0..(s - 1)
                 PROVE  Good(b, s, j)
      OBVIOUS
    <2> HIDE DEF F
    <2> DEFINE k == largest_pow2_below(s)
               right == mth(SubSeq(LeavesOf(entries), b + k + 1, b + s))
               left == mth(SubSeq(LeavesOf(entries), b + 1, b + k))
    <2>1. F[<<b, s, j>>] = IF s = 1 THEN << >> ELSE IF j < k THEN Append(F[<<b, k, j>>], right)
                           ELSE Append(F[<<b + k, s - k, j - k>>], left)
      BY PathUnfolds DEF F
    <2>j. j \in Nat /\ s \in Nat
      OBVIOUS
    <2>2. /\ s <= 1 => expected_inclusion_path_len(s, j) = 0
          /\ s > 1 /\ j < k => expected_inclusion_path_len(s, j) = 1 + expected_inclusion_path_len(k, j)
          /\ s > 1 /\ j >= k => expected_inclusion_path_len(s, j) = 1 + expected_inclusion_path_len(s - k, j - k)
      BY <2>j, DepthFacts
    <2> HIDE DEF P
    <2>3. CASE s = 1
      BY <2>1, <2>2, <2>3 DEF Good
    <2>4. CASE s # 1
      <3>1. k \in 1..(s - 1)
        BY <2>4, PowBelow
      <3> HIDE DEF k
      <3>2. right \in X /\ left \in X
        <4>1. b + k + 1 \in Int /\ b + s \in Int /\ b + 1 \in Int /\ b + k \in Int
          BY <3>1
        <4> QED BY <4>1 DEF Digests
      <3> HIDE DEF right, left
      <3>3. k \in P /\ s - k \in P
        <4>1. k \in 0..(s - 1) /\ s - k \in 0..(s - 1)
          BY <3>1
        <4> QED BY <1>1, <4>1
      <3>4. CASE j < k
        <4>1. k \in 1..Len(entries) /\ j \in 0..(k - 1)
          BY <3>1, <3>4
        <4>2. Good(b, k, j)
          BY <3>3, <4>1 DEF P
        <4> DEFINE t == F[<<b, k, j>>]
                   u == expected_inclusion_path_len(k, j)
        <4>3. t \in Seq(X) /\ Len(t) = u /\ F[<<b, s, j>>] = Append(t, right) /\ expected_inclusion_path_len(s, j) = 1 + u
          BY <2>1, <2>2, <2>4, <3>4, <4>2 DEF Good
        <4> HIDE DEF t, u
        <4>4. Append(t, right) \in Seq(X) /\ Len(Append(t, right)) = Len(t) + 1 /\ Len(t) \in Nat
          BY <3>2, <4>3, Longer
        <4> QED BY <4>3, <4>4 DEF Good
      <3>5. CASE ~(j < k)
        <4>1. s - k \in 1..Len(entries) /\ j - k \in 0..((s - k) - 1) /\ b + k \in Nat /\ j >= k
          BY <3>1, <3>5
        <4>2. Good(b + k, s - k, j - k)
          BY <3>3, <4>1 DEF P
        <4> DEFINE t == F[<<b + k, s - k, j - k>>]
                   u == expected_inclusion_path_len(s - k, j - k)
        <4>3. t \in Seq(X) /\ Len(t) = u /\ F[<<b, s, j>>] = Append(t, left) /\ expected_inclusion_path_len(s, j) = 1 + u
          BY <2>1, <2>2, <2>4, <3>1, <3>5, <4>1, <4>2 DEF Good
        <4> HIDE DEF t, u
        <4>4. Append(t, left) \in Seq(X) /\ Len(Append(t, left)) = Len(t) + 1 /\ Len(t) \in Nat
          BY <3>2, <4>3, Longer
        <4> QED BY <4>3, <4>4 DEF Good
      <3> QED BY <3>4, <3>5
    <2> QED BY <2>3, <2>4
  <1>2. P = Nat
    <2>1. P \in SUBSET Nat
      OBVIOUS
    <2> HIDE DEF P
    <2> QED BY <1>1, <2>1, NatStrong
  <1>n. n \in Nat
    OBVIOUS
  <1> HIDE DEF P
  <1>3. n \in P
    BY <1>2, <1>n
  <1>4. Good(lo, n, mm)
    BY <1>3 DEF P
  <1> QED BY <1>4 DEF Good, F

-----------------------------------------------------------------------------
(* The fold of a leaf up a path.                                            *)

FoldOf(leaf, N, path) ==
    CHOOSE f : f = [p \in (1..N) \X Nat \X Nat |->
        IF p[1] = 1 THEN <<leaf_hash(leaf), p[3]>>
        ELSE IF p[3] = 0 THEN NoRoot
        ELSE IF (IF p[2] < largest_pow2_below(p[1]) THEN f[<<largest_pow2_below(p[1]), p[2], p[3] - 1>>]
                 ELSE f[<<p[1] - largest_pow2_below(p[1]), p[2] - largest_pow2_below(p[1]), p[3] - 1>>]) = NoRoot
             THEN NoRoot
        ELSE <<IF p[2] < largest_pow2_below(p[1])
               THEN node_hash((IF p[2] < largest_pow2_below(p[1]) THEN f[<<largest_pow2_below(p[1]), p[2], p[3] - 1>>]
                               ELSE f[<<p[1] - largest_pow2_below(p[1]), p[2] - largest_pow2_below(p[1]), p[3] - 1>>])[1],
                              path[p[3]])
               ELSE node_hash(path[p[3]],
                              (IF p[2] < largest_pow2_below(p[1]) THEN f[<<largest_pow2_below(p[1]), p[2], p[3] - 1>>]
                               ELSE f[<<p[1] - largest_pow2_below(p[1]), p[2] - largest_pow2_below(p[1]), p[3] - 1>>])[1]),
               (IF p[2] < largest_pow2_below(p[1]) THEN f[<<largest_pow2_below(p[1]), p[2], p[3] - 1>>]
                ELSE f[<<p[1] - largest_pow2_below(p[1]), p[2] - largest_pow2_below(p[1]), p[3] - 1>>])[2]>>]

\* What fold(sz, mm) gets from its own call, with one sibling fewer left.
Below(f, sz, mm, spare) ==
    IF mm < largest_pow2_below(sz) THEN f[<<largest_pow2_below(sz), mm, spare - 1>>]
    ELSE f[<<sz - largest_pow2_below(sz), mm - largest_pow2_below(sz), spare - 1>>]

\* root_from_inclusion_proof is its guards around the fold.
LEMMA RootIsFold ==
    ASSUME NEW leaf, NEW index, NEW sz, NEW path
    PROVE  root_from_inclusion_proof(leaf, index, sz, path) =
               IF /\ InclusionShapeOK(index, sz, Len(path))
                  /\ FoldOf(leaf, sz, path)[<<sz, index, Len(path)>>] # NoRoot
                  /\ FoldOf(leaf, sz, path)[<<sz, index, Len(path)>>][2] = 0
               THEN FoldOf(leaf, sz, path)[<<sz, index, Len(path)>>][1] ELSE NoRoot
  BY Zenon DEF root_from_inclusion_proof, FoldOf

\* The body of the recursion of fold.
LEMMA FoldUnfolds ==
    ASSUME NEW leaf, NEW N \in Nat, NEW path, NEW sz \in 1..N, NEW mm \in Nat, NEW spare \in Nat
    PROVE  FoldOf(leaf, N, path)[<<sz, mm, spare>>] =
               IF sz = 1 THEN <<leaf_hash(leaf), spare>>
               ELSE IF spare = 0 THEN NoRoot
               ELSE IF Below(FoldOf(leaf, N, path), sz, mm, spare) = NoRoot THEN NoRoot
               ELSE <<IF mm < largest_pow2_below(sz)
                      THEN node_hash(Below(FoldOf(leaf, N, path), sz, mm, spare)[1], path[spare])
                      ELSE node_hash(path[spare], Below(FoldOf(leaf, N, path), sz, mm, spare)[1]),
                      Below(FoldOf(leaf, N, path), sz, mm, spare)[2]>>
  <1> DEFINE a == [leaf |-> leaf, size |-> N, path |-> path]
             D == (1..N) \X Nat \X Nat
             Body(f, p) ==
               IF p[1] = 1 THEN <<leaf_hash(leaf), p[3]>>
               ELSE IF p[3] = 0 THEN NoRoot
               ELSE IF Below(f, p[1], p[2], p[3]) = NoRoot THEN NoRoot
               ELSE <<IF p[2] < largest_pow2_below(p[1])
                      THEN node_hash(Below(f, p[1], p[2], p[3])[1], path[p[3]])
                      ELSE node_hash(path[p[3]], Below(f, p[1], p[2], p[3])[1]),
                      Below(f, p[1], p[2], p[3])[2]>>
  <1>1. a.leaf = leaf /\ a.size = N /\ a.path = path
    OBVIOUS
  <1>2. Calls("fold", a) = D /\ \A p \in D : Rank("fold", a, p) = p[1]
    BY <1>1 DEF Calls, Rank
  <1> HIDE DEF a
  <1>3. \A f : \A p \in D : Turn("fold", a, f, p) = Body(f, p)
    BY <1>1 DEF Turn, ConsistencyLoops, Below
  <1>4. Local("fold", a)
    <2> HIDE DEF Body, D
    <2> SUFFICES ASSUME NEW f, NEW g, NEW p \in D, \A c \in D : c[1] < p[1] => f[c] = g[c]
                 PROVE  Body(f, p) = Body(g, p)
      BY <1>2, <1>3 DEF Local
    <2> USE DEF D
    <2>1. CASE p[1] = 1 \/ p[3] = 0
      BY <2>1 DEF Body
    <2>2. CASE ~(p[1] = 1 \/ p[3] = 0)
      <3> DEFINE k == largest_pow2_below(p[1])
                 c1 == <<k, p[2], p[3] - 1>>
                 c2 == <<p[1] - k, p[2] - k, p[3] - 1>>
      <3>1. p[1] \in Nat /\ p[2] \in Nat /\ p[3] \in Nat /\ p[1] > 1 /\ p[1] <= N /\ p[3] - 1 \in Nat
        BY <2>2
      <3>2. k \in 1..(p[1] - 1)
        BY <3>1, PowBelow
      <3>3. Below(f, p[1], p[2], p[3]) = IF p[2] < k THEN f[c1] ELSE f[c2]
        BY DEF Below
      <3>4. Below(g, p[1], p[2], p[3]) = IF p[2] < k THEN g[c1] ELSE g[c2]
        BY DEF Below
      <3> HIDE DEF k
      <3>5. c1 \in D /\ c1[1] < p[1]
        BY <3>1, <3>2
      <3>6. p[2] >= k => c2 \in D /\ c2[1] < p[1]
        BY <3>1, <3>2
      <3>7. Below(f, p[1], p[2], p[3]) = Below(g, p[1], p[2], p[3])
        <4>1. CASE p[2] < k
          BY <3>3, <3>4, <3>5, <4>1
        <4>2. CASE ~(p[2] < k)
          <5>1. p[2] >= k
            BY <3>1, <3>2, <4>2
          <5>2. f[c2] = g[c2]
            BY <3>6, <5>1
          <5> QED BY <3>3, <3>4, <4>2, <5>2
        <4> QED BY <4>1, <4>2
      <3> QED BY <3>7 DEF Body
    <2> QED BY <2>1, <2>2
  <1>5. \E f : f = [p \in D |-> Body(f, p)]
    <2>1. \A p \in Calls("fold", a) : Rank("fold", a, p) \in 0..N
      BY <1>2
    <2>2. PICK f : f = [p \in Calls("fold", a) |-> Turn("fold", a, f, p)]
      BY <1>4, <2>1, Recursion
    <2> HIDE DEF Body, D
    <2>3. f = [p \in D |-> Body(f, p)]
      BY <1>2, <1>3, <2>2
    <2> QED BY <2>3
  <1>6. FoldOf(leaf, N, path) = [p \in D |-> Body(FoldOf(leaf, N, path), p)]
    BY <1>5, Zenon DEF FoldOf, Below
  <1> DEFINE F == FoldOf(leaf, N, path)
  <1> HIDE DEF D, Body, F
  <1>7. \A p \in D : F[p] = Body(F, p)
    BY <1>6, Zenon DEF F
  <1>8. <<sz, mm, spare>> \in D
    BY DEF D
  <1>9. F[<<sz, mm, spare>>] = Body(F, <<sz, mm, spare>>)
    BY <1>7, <1>8
  <1>10. <<sz, mm, spare>>[1] = sz /\ <<sz, mm, spare>>[2] = mm /\ <<sz, mm, spare>>[3] = spare
    OBVIOUS
  <1> QED BY <1>9, <1>10 DEF F, Body

-----------------------------------------------------------------------------
(* What the verifier accepts, and what the prover hands out.                *)

\* The leaf digests of a log, one for each entry.
LEMMA LeavesTyped ==
    ASSUME NEW S, NEW h \in Seq(S)
    PROVE  /\ LeavesOf(h) \in Seq({leaf_hash(e) : e \in S})
           /\ Len(LeavesOf(h)) = Len(h) /\ Len(h) \in Nat
           /\ \A i \in 1..Len(h) : LeavesOf(h)[i] = leaf_hash(h[i])
  <1> DEFINE T == {leaf_hash(e) : e \in S}
             L == LeavesOf(h)
  <1>1. Len(h) \in Nat /\ DOMAIN h = 1..Len(h) /\ \A i \in 1..Len(h) : h[i] \in S
    OBVIOUS
  <1>2. L = [i \in 1..Len(h) |-> leaf_hash(h[i])]
    BY DEF LeavesOf
  <1>3. \A i \in 1..Len(h) : leaf_hash(h[i]) \in T
    BY <1>1, Zenon
  <1> HIDE DEF T, L
  <1>4. L \in [1..Len(h) -> T]
    BY <1>2, <1>3
  <1>5. L \in Seq(T) /\ Len(L) = Len(h)
    BY <1>1, <1>4
  <1> QED BY <1>1, <1>2, <1>5 DEF L, T

\* fold(s, j) with r siblings left returns the digest d.
Returns(leaf, N, path, s, j, r, d) ==
    FoldOf(leaf, N, path)[<<s, j, r>>] # NoRoot /\ FoldOf(leaf, N, path)[<<s, j, r>>][1] = d

\* The siblings of a range of the log are the first ones of the path.
Starts(path, h, lo, s, j) ==
    \A i \in 1..expected_inclusion_path_len(s, j) : path[i] = PathOf(h)[<<lo, s, j>>][i]

\* Equal interior digests have equal children.
LEMMA NodeInjective ==
    ASSUME NEW x1, NEW x2, NEW y1, NEW y2, node_hash(x1, x2) = node_hash(y1, y2)
    PROVE  x1 = y1 /\ x2 = y2
  BY DEF node_hash

\* A fold that ends in the digest of a range of the log started from the log's
\* own leaf, whatever the siblings were.
LEMMA FoldIsSound ==
    ASSUME NEW S, NEW h \in Seq(S), NEW leaf, NEW N \in Nat, NEW path,
           NEW lo \in Nat, NEW s \in 1..N, NEW j \in 0..(s - 1), NEW r \in Nat
    PROVE  lo + s <= Len(h) /\ Returns(leaf, N, path, s, j, r, mth(Slice(LeavesOf(h), lo, s)))
              => leaf = h[lo + j + 1]
  <1> DEFINE F == FoldOf(leaf, N, path)
             L == LeavesOf(h)
             Good(b, n, mm, q) == (F[<<n, mm, q>>] # NoRoot /\ F[<<n, mm, q>>][1] = mth(Slice(L, b, n)))
                                    => leaf = h[b + mm + 1]
             P == {n \in Nat : n \in 1..N =>
                      \A b, q \in Nat, mm \in 0..(n - 1) : b + n <= Len(h) => Good(b, n, mm, q)}
  <1>L. Len(h) \in Nat /\ Len(L) = Len(h) /\ L \in Seq({leaf_hash(e) : e \in S})
        /\ \A i \in 1..Len(h) : L[i] = leaf_hash(h[i])
    BY LeavesTyped
  <1> DEFINE T == {leaf_hash(e) : e \in S}
  <1> HIDE DEF L, F, Good, T
  <1>T. L \in Seq(T)
    BY <1>L DEF T
  <1>1. ASSUME NEW n \in Nat, \A e \in 0..(n - 1) : e \in P PROVE n \in P
    <2> SUFFICES ASSUME n \in 1..N, NEW b \in Nat, NEW q \in Nat, NEW mm \in 0..(n - 1), b + n <= Len(h)
                 PROVE  Good(b, n, mm, q)
      OBVIOUS
    <2> HIDE DEF P
    <2>a. SUFFICES ASSUME F[<<n, mm, q>>] # NoRoot, F[<<n, mm, q>>][1] = mth(Slice(L, b, n))
                 PROVE  leaf = h[b + mm + 1]
      BY DEF Good
    <2> DEFINE k == largest_pow2_below(n)
               c == Below(F, n, mm, q)
    <2>1. F[<<n, mm, q>>] = IF n = 1 THEN <<leaf_hash(leaf), q>>
                           ELSE IF q = 0 THEN NoRoot
                           ELSE IF c = NoRoot THEN NoRoot
                           ELSE <<IF mm < k THEN node_hash(c[1], path[q]) ELSE node_hash(path[q], c[1]), c[2]>>
      <3>1. mm \in Nat
        OBVIOUS
      <3> QED BY <3>1, FoldUnfolds DEF F
    <2>2. CASE n = 1
      <3>1. b \in Nat /\ b + 1 <= Len(h) /\ mm = 0 /\ b + mm + 1 = b + 1 /\ b + 1 \in 1..Len(h)
        BY <1>L, <2>2
      <3>2. mth(Slice(L, b, 1)) = L[b + 1]
        BY <1>L, <1>T, <3>1, MthLeaf
      <3>3. L[b + 1] = leaf_hash(h[b + 1])
        BY <1>L, <3>1
      <3>4. F[<<n, mm, q>>][1] = leaf_hash(leaf)
        BY <2>1, <2>2
      <3>5. leaf_hash(leaf) = leaf_hash(h[b + 1])
        BY <2>a, <2>2, <3>2, <3>3, <3>4
      <3> QED BY <3>1, <3>5 DEF leaf_hash
    <2>3. CASE n # 1
      <3>1. k \in 1..(n - 1)
        <4>1. n > 1
          BY <2>3
        <4> HIDE DEF c
        <4> QED BY <4>1, PowBelow
      <3>2. q # 0 /\ c # NoRoot /\ F[<<n, mm, q>>][1] = IF mm < k THEN node_hash(c[1], path[q]) ELSE node_hash(path[q], c[1])
        <4> HIDE DEF c, k
        <4> QED BY <2>a, <2>1, <2>3
      <3>3. mth(Slice(L, b, n)) = node_hash(mth(Slice(L, b, k)), mth(Slice(L, b + k, n - k)))
        <4>1. n > 1 /\ b + n <= Len(L)
          BY <1>L, <2>3
        <4> HIDE DEF c
        <4> QED BY <1>T, <4>1, MthNode
      <3>x. Len(h) \in Nat
        BY <1>L
      <3> HIDE DEF k, c
      <3>4. k \in P /\ n - k \in P
        <4>1. k \in 0..(n - 1) /\ n - k \in 0..(n - 1)
          BY <3>1
        <4> QED BY <1>1, <4>1
      <3>5. CASE mm < k
        <4>1. k \in 1..N /\ mm \in 0..(k - 1) /\ b + k <= Len(h) /\ q - 1 \in Nat
          BY <3>x, <3>1, <3>2, <3>5
        <4>2. Good(b, k, mm, q - 1)
          BY <3>4, <4>1 DEF P
        <4>3. c = F[<<k, mm, q - 1>>]
          BY <3>5 DEF Below, c, k
        <4>4. c[1] = mth(Slice(L, b, k))
          <5>1. node_hash(c[1], path[q]) = node_hash(mth(Slice(L, b, k)), mth(Slice(L, b + k, n - k)))
            BY <2>a, <3>2, <3>3, <3>5
          <5> QED BY <5>1, NodeInjective
        <4> QED BY <3>2, <4>2, <4>3, <4>4 DEF Good
      <3>6. CASE ~(mm < k)
        <4>1. n - k \in 1..N /\ mm - k \in 0..((n - k) - 1) /\ b + k \in Nat /\ (b + k) + (n - k) <= Len(h) /\ q - 1 \in Nat
              /\ (b + k) + (mm - k) + 1 = b + mm + 1
          <5>1. q # 0 /\ mm >= k
            BY <3>1, <3>2, <3>6
          <5>2. n - k \in 1..N /\ mm - k \in 0..((n - k) - 1)
            BY <3>1, <5>1
          <5>3. (b + k) + (n - k) = b + n /\ (b + k) + (mm - k) + 1 = b + mm + 1 /\ b + k \in Nat /\ q - 1 \in Nat
            BY <3>1, <5>1
          <5> QED BY <3>x, <5>2, <5>3
        <4>2. Good(b + k, n - k, mm - k, q - 1)
          BY <3>4, <4>1 DEF P
        <4>3. c = F[<<n - k, mm - k, q - 1>>]
          BY <3>6 DEF Below, c, k
        <4>4. c[1] = mth(Slice(L, b + k, n - k))
          <5>1. node_hash(path[q], c[1]) = node_hash(mth(Slice(L, b, k)), mth(Slice(L, b + k, n - k)))
            BY <2>a, <3>2, <3>3, <3>6
          <5> QED BY <5>1, NodeInjective
        <4> QED BY <3>2, <4>1, <4>2, <4>3, <4>4 DEF Good
      <3> QED BY <3>5, <3>6
    <2> QED BY <2>2, <2>3
  <1>2. P = Nat
    <2>1. P \in SUBSET Nat
      OBVIOUS
    <2> HIDE DEF P
    <2> QED BY <1>1, <2>1, NatStrong
  <1>n. s \in Nat
    OBVIOUS
  <1> HIDE DEF P
  <1>3. s \in P
    BY <1>2, <1>n
  <1>4. lo + s <= Len(h) => Good(lo, s, j, r)
    BY <1>3 DEF P
  <1> QED BY <1>4 DEF Good, F, L, Returns

\* A leaf's digest is no interior one, and neither is the empty one.
LEMMA DigestsDistinct ==
    ASSUME NEW e, NEW x, NEW y
    PROVE  /\ leaf_hash(e) # node_hash(x, y) /\ leaf_hash(e) # empty_hash
           /\ node_hash(x, y) # empty_hash
  BY DEF leaf_hash, node_hash, empty_hash

\* A fold that ends in the digest of any range of the log started from some leaf
\* of the log, whatever size and index it was for and whatever the siblings were.
LEMMA FoldStartsAtALeaf ==
    ASSUME NEW S, NEW h \in Seq(S), NEW leaf, NEW N \in Nat, NEW path,
           NEW s \in 1..N, NEW j \in 0..(s - 1), NEW r \in Nat, NEW lo \in Nat, NEW w \in Nat
    PROVE  lo + w <= Len(h) /\ Returns(leaf, N, path, s, j, r, mth(Slice(LeavesOf(h), lo, w)))
              => \E i \in 1..Len(h) : leaf = h[i]
  <1> DEFINE F == FoldOf(leaf, N, path)
             L == LeavesOf(h)
             Found == \E i \in 1..Len(h) : leaf = h[i]
             Good(b, v, n, mm, q) == F[<<n, mm, q>>] # NoRoot /\ F[<<n, mm, q>>][1] = mth(Slice(L, b, v)) => Found
             P == {n \in Nat : n \in 1..N =>
                      \A b, v, q \in Nat, mm \in 0..(n - 1) : b + v <= Len(h) => Good(b, v, n, mm, q)}
             T == {leaf_hash(e) : e \in S}
  <1>L. Len(h) \in Nat /\ Len(L) = Len(h) /\ L \in Seq(T) /\ \A i \in 1..Len(h) : L[i] = leaf_hash(h[i])
    BY LeavesTyped
  <1> HIDE DEF L, F, Good, T, Found
  <1>1. ASSUME NEW n \in Nat, \A e \in 0..(n - 1) : e \in P PROVE n \in P
    <2> SUFFICES ASSUME n \in 1..N, NEW b \in Nat, NEW v \in Nat, NEW q \in Nat, NEW mm \in 0..(n - 1),
                        b + v <= Len(h)
                 PROVE  Good(b, v, n, mm, q)
      OBVIOUS
    <2> HIDE DEF P
    <2>a. SUFFICES ASSUME F[<<n, mm, q>>] # NoRoot, F[<<n, mm, q>>][1] = mth(Slice(L, b, v))
                   PROVE  Found
      BY DEF Good
    <2> DEFINE k == largest_pow2_below(n)
               c == Below(F, n, mm, q)
               u == largest_pow2_below(v)
    <2>1. F[<<n, mm, q>>] = IF n = 1 THEN <<leaf_hash(leaf), q>>
                           ELSE IF q = 0 THEN NoRoot
                           ELSE IF c = NoRoot THEN NoRoot
                           ELSE <<IF mm < k THEN node_hash(c[1], path[q]) ELSE node_hash(path[q], c[1]), c[2]>>
      <3>1. mm \in Nat
        OBVIOUS
      <3> QED BY <3>1, FoldUnfolds DEF F
    <2>2. v = 0 => mth(Slice(L, b, v)) = empty_hash
      BY <1>L, MthEmpty
    <2>3. v = 1 => mth(Slice(L, b, v)) = leaf_hash(h[b + 1]) /\ b + 1 \in 1..Len(h)
      <3> SUFFICES ASSUME v = 1 PROVE mth(Slice(L, b, 1)) = leaf_hash(h[b + 1]) /\ b + 1 \in 1..Len(h)
        OBVIOUS
      <3>1. b + 1 \in 1..Len(h) /\ b + 1 <= Len(L)
        BY <1>L
      <3>2. mth(Slice(L, b, 1)) = L[b + 1]
        BY <1>L, <3>1, MthLeaf
      <3> QED BY <1>L, <3>1, <3>2
    <2>4. v > 1 => mth(Slice(L, b, v)) = node_hash(mth(Slice(L, b, u)), mth(Slice(L, b + u, v - u)))
      BY <1>L, MthNode
    <2>5. v > 1 => u \in 1..(v - 1)
      BY PowBelow
    <2>6. n # 1 => k \in 1..(n - 1)
      <3>1. n # 1 => n > 1
        OBVIOUS
      <3> QED BY <3>1, PowBelow
    <2>z. Len(h) \in Nat
      BY <1>L
    <2> HIDE DEF k, c, u
    <2>7. CASE n = 1
      <3>1. F[<<n, mm, q>>][1] = leaf_hash(leaf)
        BY <2>1, <2>7
      <3>2. v = 1
        <4>1. v # 0
          BY <2>a, <2>2, <3>1, DigestsDistinct
        <4>2. ~(v > 1)
          BY <2>a, <2>4, <3>1, DigestsDistinct
        <4> QED BY <4>1, <4>2
      <3>3. leaf_hash(leaf) = leaf_hash(h[b + 1]) /\ b + 1 \in 1..Len(h)
        BY <2>a, <2>3, <3>1, <3>2
      <3> QED BY <3>3 DEF leaf_hash, Found
    <2>8. CASE n # 1
      <3>1. /\ q # 0 /\ c # NoRoot
            /\ F[<<n, mm, q>>][1] = IF mm < k THEN node_hash(c[1], path[q]) ELSE node_hash(path[q], c[1])
        BY <2>a, <2>1, <2>8
      <3>2. v > 1
        <4>1. v # 0
          BY <2>a, <2>2, <3>1, DigestsDistinct
        <4>2. v # 1
          BY <2>a, <2>3, <3>1, DigestsDistinct
        <4> QED BY <4>1, <4>2
      <3>3. k \in P /\ n - k \in P
        <4>1. k \in 0..(n - 1) /\ n - k \in 0..(n - 1)
          BY <2>6, <2>8
        <4> QED BY <1>1, <4>1
      <3>4. q - 1 \in Nat /\ u \in Nat /\ v - u \in Nat /\ b + u \in Nat
            /\ b + u <= Len(h) /\ (b + u) + (v - u) <= Len(h)
        BY <2>5, <2>z, <3>1, <3>2
      <3>5. CASE mm < k
        <4>1. k \in 1..N /\ mm \in 0..(k - 1)
          BY <2>6, <2>8, <3>5
        <4>2. Good(b, u, k, mm, q - 1)
          BY <3>3, <3>4, <4>1 DEF P
        <4>3. c = F[<<k, mm, q - 1>>]
          BY <3>5 DEF Below, c, k
        <4>4. c[1] = mth(Slice(L, b, u))
          <5>1. node_hash(c[1], path[q]) = node_hash(mth(Slice(L, b, u)), mth(Slice(L, b + u, v - u)))
            BY <2>a, <2>4, <3>1, <3>2, <3>5
          <5> QED BY <5>1, NodeInjective
        <4> QED BY <3>1, <4>2, <4>3, <4>4 DEF Good
      <3>6. CASE ~(mm < k)
        <4>1. n - k \in 1..N /\ mm - k \in 0..((n - k) - 1)
          BY <2>6, <2>8, <3>6
        <4>2. Good(b + u, v - u, n - k, mm - k, q - 1)
          BY <3>3, <3>4, <4>1 DEF P
        <4>3. c = F[<<n - k, mm - k, q - 1>>]
          BY <3>6 DEF Below, c, k
        <4>4. c[1] = mth(Slice(L, b + u, v - u))
          <5>1. node_hash(path[q], c[1]) = node_hash(mth(Slice(L, b, u)), mth(Slice(L, b + u, v - u)))
            BY <2>a, <2>4, <3>1, <3>2, <3>6
          <5> QED BY <5>1, NodeInjective
        <4> QED BY <3>1, <4>2, <4>3, <4>4 DEF Good
      <3> QED BY <3>5, <3>6
    <2> QED BY <2>7, <2>8
  <1>2. P = Nat
    <2>1. P \in SUBSET Nat
      OBVIOUS
    <2> HIDE DEF P
    <2> QED BY <1>1, <2>1, NatStrong
  <1>n. s \in Nat
    OBVIOUS
  <1> HIDE DEF P
  <1>3. s \in P
    BY <1>2, <1>n
  <1>4. lo + w <= Len(h) => Good(lo, w, s, j, r)
    BY <1>3 DEF P
  <1> QED BY <1>4 DEF Good, F, L, Returns, Found

\* A fold with as many siblings as the depth of its leaf ends in a digest and
\* leaves none over.
LEMMA FoldIsTotal ==
    ASSUME NEW leaf, NEW N \in Nat, NEW path, NEW s \in 1..N, NEW j \in 0..(s - 1)
    PROVE  /\ FoldOf(leaf, N, path)[<<s, j, expected_inclusion_path_len(s, j)>>] # NoRoot
           /\ FoldOf(leaf, N, path)[<<s, j, expected_inclusion_path_len(s, j)>>][2] = 0
  <1> DEFINE F == FoldOf(leaf, N, path)
             E(n, mm) == expected_inclusion_path_len(n, mm)
             Good(n, mm) == F[<<n, mm, E(n, mm)>>] # NoRoot /\ F[<<n, mm, E(n, mm)>>][2] = 0
             P == {n \in Nat : n \in 1..N => \A mm \in 0..(n - 1) : Good(n, mm)}
  <1>u. ASSUME NEW n \in 1..N, NEW mm \in Nat, NEW r \in Nat
        PROVE  F[<<n, mm, r>>] = IF n = 1 THEN <<leaf_hash(leaf), r>>
                                 ELSE IF r = 0 THEN NoRoot
                                 ELSE IF Below(F, n, mm, r) = NoRoot THEN NoRoot
                                 ELSE <<IF mm < largest_pow2_below(n)
                                        THEN node_hash(Below(F, n, mm, r)[1], path[r])
                                        ELSE node_hash(path[r], Below(F, n, mm, r)[1]), Below(F, n, mm, r)[2]>>
    BY FoldUnfolds
  <1> HIDE DEF Good
  <1>1. ASSUME NEW n \in Nat, \A e \in 0..(n - 1) : e \in P PROVE n \in P
    <2> SUFFICES ASSUME n \in 1..N, NEW mm \in 0..(n - 1)
                 PROVE  Good(n, mm)
      OBVIOUS
    <2> HIDE DEF P
    <2> DEFINE k == largest_pow2_below(n)
               q == E(n, mm)
               c == Below(F, n, mm, q)
    <2>mm. mm \in Nat
      OBVIOUS
    <2>0. /\ E(n, mm) \in Nat
          /\ n <= 1 => E(n, mm) = 0
          /\ n > 1 /\ mm < k => E(n, mm) = 1 + E(k, mm)
          /\ n > 1 /\ mm >= k => E(n, mm) = 1 + E(n - k, mm - k)
      <3> HIDE DEF F, c
      <3> QED BY <2>mm, DepthFacts
    <2> HIDE DEF E
    <2>1. F[<<n, mm, q>>] = IF n = 1 THEN <<leaf_hash(leaf), q>>
                           ELSE IF q = 0 THEN NoRoot
                           ELSE IF c = NoRoot THEN NoRoot
                           ELSE <<IF mm < k THEN node_hash(c[1], path[q]) ELSE node_hash(path[q], c[1]), c[2]>>
      <3>1. q \in Nat
        BY <2>0
      <3> HIDE DEF q
      <3> HIDE DEF q, F
      <3> QED BY <1>u, <2>mm, <3>1
    <2> HIDE DEF F
    <2>2. CASE n = 1
      <3>1. q = 0 /\ F[<<n, mm, q>>] = <<leaf_hash(leaf), q>>
        BY <2>0, <2>1, <2>2
      <3>2. <<leaf_hash(leaf), q>> # NoRoot
        BY DEF NoRoot
      <3> HIDE DEF q
      <3>3. F[<<n, mm, q>>] # NoRoot /\ F[<<n, mm, q>>][2] = 0
        BY <3>1, <3>2
      <3> QED BY <3>3 DEF Good, q
    <2>3. CASE n # 1
      <3>1. n > 1
        BY <2>3
      <3>2. k \in 1..(n - 1)
        <4> HIDE DEF c, q
        <4> QED BY <3>1, PowBelow
      <3>3. k \in P /\ n - k \in P
        <4> HIDE DEF c, k
        <4>1. k \in 0..(n - 1) /\ n - k \in 0..(n - 1)
          BY <3>2
        <4> QED BY <1>1, <4>1
      <3>4. q # 0 /\ c # NoRoot /\ c[2] = 0
        <4>1. CASE mm < k
          <5>1. k \in 1..N /\ mm \in 0..(k - 1)
            <6> HIDE DEF k, c
            <6> QED BY <3>2, <4>1
          <5>2. Good(k, mm)
            <6> HIDE DEF k, c
            <6> QED BY <3>3, <5>1 DEF P
          <5>3. E(k, mm) \in Nat
            <6> HIDE DEF k, c
            <6>1. k \in Nat
              BY <3>2
            <6> QED BY <6>1, <2>mm, DepthFacts DEF E
          <5>4. c = F[<<k, mm, q - 1>>]
            BY <4>1 DEF Below
          <5>5. q = 1 + E(k, mm)
            BY <2>0, <3>1, <4>1
          <5> HIDE DEF k, c, q
          <5>6. q - 1 = E(k, mm) /\ q # 0
            BY <5>3, <5>5
          <5> QED BY <5>2, <5>4, <5>6 DEF Good
        <4>2. CASE ~(mm < k)
          <5>1. n - k \in 1..N /\ mm - k \in 0..((n - k) - 1) /\ mm >= k /\ mm - k \in Nat
            <6> HIDE DEF k, c
            <6> QED BY <3>2, <4>2
          <5>2. Good(n - k, mm - k)
            <6> HIDE DEF k, c
            <6> QED BY <3>3, <5>1 DEF P
          <5>3. E(n - k, mm - k) \in Nat
            <6> HIDE DEF k, c
            <6>1. n - k \in Nat
              BY <5>1
            <6> QED BY <6>1, <5>1, DepthFacts DEF E
          <5>4. c = F[<<n - k, mm - k, q - 1>>]
            BY <4>2 DEF Below
          <5>5. q = 1 + E(n - k, mm - k)
            BY <2>0, <3>1, <5>1
          <5> HIDE DEF k, c, q
          <5>6. q - 1 = E(n - k, mm - k) /\ q # 0
            BY <5>3, <5>5
          <5> QED BY <5>2, <5>4, <5>6 DEF Good
        <4> QED BY <4>1, <4>2
      <3> DEFINE d == IF mm < k THEN node_hash(c[1], path[q]) ELSE node_hash(path[q], c[1])
      <3>5. F[<<n, mm, q>>] = <<d, c[2]>>
        <4> HIDE DEF q, c, k
        <4> QED BY <2>1, <2>3, <3>4
      <3> HIDE DEF q, c, k, d
      <3>6. F[<<n, mm, q>>] # NoRoot /\ F[<<n, mm, q>>][2] = 0
        BY <3>4, <3>5 DEF NoRoot
      <3> QED BY <3>6 DEF Good, q
    <2> QED BY <2>2, <2>3
  <1>2. P = Nat
    <2>1. P \in SUBSET Nat
      OBVIOUS
    <2> HIDE DEF P
    <2> QED BY <1>1, <2>1, NatStrong
  <1>n. s \in Nat
    OBVIOUS
  <1> HIDE DEF P
  <1>3. s \in P
    BY <1>2, <1>n
  <1>4. Good(s, j)
    BY <1>3 DEF P
  <1> QED BY <1>4 DEF Good, F, E

\* Some set holds the digests of all the ranges of a log.
LEMMA DigestsFormASet ==
    ASSUME NEW entries
    PROVE  \E X : Digests(entries, X)
  <1> DEFINE L == LeavesOf(entries)
             X == {mth(SubSeq(L, p[1], p[2])) : p \in Int \X Int}
  <1>1. ASSUME NEW i \in Int, NEW i2 \in Int PROVE mth(SubSeq(L, i, i2)) \in X
    <2> DEFINE p == <<i, i2>>
    <2>1. p \in Int \X Int /\ p[1] = i /\ p[2] = i2
      OBVIOUS
    <2> HIDE DEF p
    <2>2. mth(SubSeq(L, p[1], p[2])) \in X
      BY <2>1
    <2> QED BY <2>1, <2>2
  <1> HIDE DEF X
  <1>2. Digests(entries, X)
    BY <1>1 DEF Digests
  <1> QED BY <1>2


\* The siblings of the log's own path fold its own leaf up to its own digest.
LEMMA FoldIsComplete ==
    ASSUME NEW S, NEW h \in Seq(S), NEW leaf, NEW N \in Nat, N <= Len(h), NEW path,
           NEW lo \in Nat, NEW s \in 1..N, NEW j \in 0..(s - 1)
    PROVE  lo + s <= Len(h) /\ leaf = h[lo + j + 1] /\ Starts(path, h, lo, s, j)
              => Returns(leaf, N, path, s, j, expected_inclusion_path_len(s, j), mth(Slice(LeavesOf(h), lo, s)))
  <1> DEFINE F == FoldOf(leaf, N, path)
             G == PathOf(h)
             L == LeavesOf(h)
             T == {leaf_hash(e) : e \in S}
             E(n, mm) == expected_inclusion_path_len(n, mm)
             Given(b, n, mm) == /\ b + n <= Len(h)
                               /\ leaf = h[b + mm + 1]
                               /\ \A i \in 1..E(n, mm) : path[i] = G[<<b, n, mm>>][i]
             Good(b, n, mm) == Given(b, n, mm) => F[<<n, mm, E(n, mm)>>][1] = mth(Slice(L, b, n))
             P == {n \in Nat : n \in 1..N => \A b \in Nat, mm \in 0..(n - 1) : Good(b, n, mm)}
  <1>L. Len(h) \in Nat /\ Len(L) = Len(h) /\ L \in Seq(T)
        /\ \A i \in 1..Len(h) : L[i] = leaf_hash(h[i])
    BY LeavesTyped
  <1>l. Len(h) \in Nat /\ Len(L) = Len(h) /\ L \in Seq(T)
    BY <1>L
  <1>X. PICK X : Digests(h, X)
    BY DigestsFormASet
  <1>P. ASSUME NEW b \in Nat, NEW n \in 1..Len(h), NEW mm \in 0..(n - 1)
        PROVE  G[<<b, n, mm>>] \in Seq(X) /\ Len(G[<<b, n, mm>>]) = E(n, mm)
    <2>1. Len(h) \in Nat
      BY <1>l
    <2> HIDE DEF F
    <2> QED BY <1>X, <2>1, PathFacts
  <1> HIDE DEF Good, Given, T
  <1>1. ASSUME NEW n \in Nat, \A e \in 0..(n - 1) : e \in P PROVE n \in P
    <2> SUFFICES ASSUME n \in 1..N, NEW b \in Nat, NEW mm \in 0..(n - 1)
                 PROVE  Good(b, n, mm)
      OBVIOUS
    <2> HIDE DEF P
    <2>a. SUFFICES ASSUME Given(b, n, mm)
                   PROVE  F[<<n, mm, E(n, mm)>>][1] = mth(Slice(L, b, n))
      BY DEF Good
    <2> DEFINE k == largest_pow2_below(n)
               q == E(n, mm)
               c == Below(F, n, mm, q)
               right == mth(SubSeq(L, b + k + 1, b + n))
               left == mth(SubSeq(L, b + 1, b + k))
    <2>mm. mm \in Nat /\ n \in 1..Len(h)
      BY <1>l
    <2>0. /\ E(n, mm) \in Nat
          /\ n <= 1 => E(n, mm) = 0
          /\ n > 1 /\ mm < k => E(n, mm) = 1 + E(k, mm)
          /\ n > 1 /\ mm >= k => E(n, mm) = 1 + E(n - k, mm - k)
      <3> HIDE DEF F, c, right, left, G
      <3> QED BY <2>mm, DepthFacts
    <2>t. F[<<n, mm, E(n, mm)>>] # NoRoot
      BY FoldIsTotal
    <2>1. F[<<n, mm, q>>] = IF n = 1 THEN <<leaf_hash(leaf), q>>
                           ELSE IF q = 0 THEN NoRoot
                           ELSE IF c = NoRoot THEN NoRoot
                           ELSE <<IF mm < k THEN node_hash(c[1], path[q]) ELSE node_hash(path[q], c[1]), c[2]>>
      <3>1. q \in Nat
        BY <2>0
      <3> HIDE DEF q
      <3> QED BY <2>mm, <3>1, FoldUnfolds DEF F
    <2>2. G[<<b, n, mm>>] = IF n = 1 THEN << >> ELSE IF mm < k THEN Append(G[<<b, k, mm>>], right)
                           ELSE Append(G[<<b + k, n - k, mm - k>>], left)
      BY <1>l, <2>mm, PathUnfolds, SMTT(30)
    <2> HIDE DEF F, G
    <2>3. CASE n = 1
      <3> HIDE DEF E
      <3>1. b \in Nat /\ mm = 0 /\ b + mm + 1 = b + 1
        BY <2>3
      <3>2. b + 1 <= Len(h) /\ b + 1 \in 1..Len(h) /\ leaf = h[b + 1]
        BY <1>l, <2>a, <2>3, <3>1 DEF Given
      <3>3. mth(Slice(L, b, 1)) = L[b + 1]
        <4> HIDE DEF L
        <4> QED BY <1>l, <3>2, MthLeaf
      <3>4. L[b + 1] = leaf_hash(h[b + 1])
        BY <1>L, <3>2
      <3>5. F[<<n, mm, q>>][1] = leaf_hash(leaf)
        <4> HIDE DEF q
        <4> QED BY <2>1, <2>3
      <3> QED BY <2>3, <3>2, <3>3, <3>4, <3>5
    <2>4. CASE n # 1
      <3>1. n > 1
        BY <2>4
      <3>2. k \in 1..(n - 1)
        <4> HIDE DEF c, q, right, left, L
        <4> QED BY <3>1, PowBelow
      <3>3. k \in P /\ n - k \in P
        <4> HIDE DEF c, k
        <4>1. k \in 0..(n - 1) /\ n - k \in 0..(n - 1)
          BY <3>2
        <4> QED BY <1>1, <4>1
      <3>4. q # 0 /\ F[<<n, mm, q>>][1] = IF mm < k THEN node_hash(c[1], path[q]) ELSE node_hash(path[q], c[1])
        <4>1. F[<<n, mm, q>>] # NoRoot
          BY <2>t
        <4> HIDE DEF q, c, k, L
        <4> QED BY <2>1, <2>4, <4>1
      <3>5. mth(Slice(L, b, n)) = node_hash(mth(Slice(L, b, k)), mth(Slice(L, b + k, n - k)))
        <4>1. b + n <= Len(L)
          BY <1>l, <2>a DEF Given
        <4> HIDE DEF L, c, q
        <4> QED BY <1>l, <3>1, <4>1, MthNode
      <3>g. b + n <= Len(h) /\ leaf = h[b + mm + 1] /\ \A i \in 1..q : path[i] = G[<<b, n, mm>>][i]
        BY <2>a DEF Given
      <3>6. CASE mm < k
        <4> DEFINE u == E(k, mm)
                   t == G[<<b, k, mm>>]
        <4>1. k \in 1..N /\ k \in 1..Len(h) /\ mm \in 0..(k - 1) /\ b + k <= Len(h) /\ k \in Nat
          <5> HIDE DEF k, c, L, q
          <5> QED BY <1>l, <3>2, <3>6, <3>g
        <4>2. Good(b, k, mm)
          <5> HIDE DEF k, c
          <5> QED BY <3>3, <4>1 DEF P
        <4>3. t \in Seq(X) /\ Len(t) = u /\ right \in X
          <5>1. t \in Seq(X) /\ Len(t) = u
            <6> HIDE DEF k, c, q
            <6> QED BY <1>P, <4>1
          <5>2. b + k + 1 \in Int /\ b + n \in Int
            <6> HIDE DEF k
            <6> QED BY <4>1
          <5> QED BY <1>X, <5>1, <5>2 DEF Digests
        <4>4. q = 1 + u /\ u \in Nat
          <5>1. q = 1 + u
            BY <2>0, <3>1, <3>6
          <5>2. u \in Nat
            <6> HIDE DEF k, c, L, q, t
            <6> QED BY <2>mm, <4>1, DepthFacts
          <5> QED BY <5>1, <5>2
        <4>5. G[<<b, n, mm>>] = Append(t, right)
          BY <2>2, <2>4, <3>6
        <4>6. c = F[<<k, mm, q - 1>>]
          BY <3>6 DEF Below
        <4> HIDE DEF u, t, q
        <4>7. path[q] = right /\ \A i \in 1..u : path[i] = t[i]
          <5>1. Append(t, right)[Len(t) + 1] = right /\ \A i \in 1..Len(t) : Append(t, right)[i] = t[i]
            BY <4>3, Longer
          <5>2. q \in 1..q /\ q = Len(t) + 1 /\ \A i \in 1..u : i \in 1..q
            BY <4>3, <4>4
          <5> HIDE DEF right, k, c, L
          <5> QED BY <3>g, <4>3, <4>5, <5>1, <5>2
        <4>8. q - 1 = u
          <5> HIDE DEF c, right, left, k, L
          <5> QED BY <4>4
        <4>9. c[1] = mth(Slice(L, b, k))
          <5>1. Given(b, k, mm)
            BY <3>g, <4>1, <4>7 DEF Given, u, t
          <5> QED BY <4>2, <4>6, <4>8, <5>1 DEF Good, u
        <4>10. right = mth(Slice(L, b + k, n - k))
          <5>1. b + n = (b + k) + (n - k) /\ b + k + 1 = (b + k) + 1
            <6> HIDE DEF k
            <6> QED BY <4>1
          <5> QED BY <5>1 DEF Slice
        <4> HIDE DEF k, c, right, left, L
        <4> QED BY <3>4, <3>5, <3>6, <4>7, <4>9, <4>10 DEF q
      <3>7. CASE ~(mm < k)
        <4> DEFINE u == E(n - k, mm - k)
                   t == G[<<b + k, n - k, mm - k>>]
        <4>1. n - k \in 1..N /\ n - k \in 1..Len(h) /\ mm - k \in 0..((n - k) - 1) /\ b + k \in Nat
              /\ (b + k) + (n - k) <= Len(h) /\ n - k \in Nat /\ mm - k \in Nat /\ mm >= k
              /\ (b + k) + (mm - k) + 1 = b + mm + 1
          <5> HIDE DEF k, c, L, q
          <5> QED BY <1>l, <3>2, <3>7, <3>g
        <4>2. Good(b + k, n - k, mm - k)
          <5> HIDE DEF k, c
          <5> QED BY <3>3, <4>1 DEF P
        <4>3. t \in Seq(X) /\ Len(t) = u /\ left \in X
          <5>1. t \in Seq(X) /\ Len(t) = u
            <6> HIDE DEF k, c, q
            <6> QED BY <1>P, <4>1
          <5>2. b + 1 \in Int /\ b + k \in Int
            <6> HIDE DEF k
            <6> QED BY <4>1
          <5> QED BY <1>X, <5>1, <5>2 DEF Digests
        <4>4. q = 1 + u /\ u \in Nat
          <5>1. q = 1 + u
            BY <2>0, <3>1, <4>1
          <5>2. u \in Nat
            <6> HIDE DEF k, c, L, q, t
            <6> QED BY <2>mm, <4>1, DepthFacts
          <5> QED BY <5>1, <5>2
        <4>5. G[<<b, n, mm>>] = Append(t, left)
          BY <2>2, <2>4, <3>7
        <4>6. c = F[<<n - k, mm - k, q - 1>>]
          BY <3>7 DEF Below
        <4> HIDE DEF u, t, q
        <4>7. path[q] = left /\ \A i \in 1..u : path[i] = t[i]
          <5>1. Append(t, left)[Len(t) + 1] = left /\ \A i \in 1..Len(t) : Append(t, left)[i] = t[i]
            BY <4>3, Longer
          <5>2. q \in 1..q /\ q = Len(t) + 1 /\ \A i \in 1..u : i \in 1..q
            BY <4>3, <4>4
          <5> HIDE DEF left, k, c, L
          <5> QED BY <3>g, <4>3, <4>5, <5>1, <5>2
        <4>8. q - 1 = u
          <5> HIDE DEF c, right, left, k, L
          <5> QED BY <4>4
        <4>9. c[1] = mth(Slice(L, b + k, n - k))
          <5>1. Given(b + k, n - k, mm - k)
            BY <3>g, <4>1, <4>7 DEF Given, u, t
          <5> QED BY <4>2, <4>6, <4>8, <5>1 DEF Good, u
        <4>10. left = mth(Slice(L, b, k))
          BY DEF Slice
        <4> HIDE DEF k, c, right, left, L
        <4> QED BY <3>4, <3>5, <3>7, <4>7, <4>9, <4>10 DEF q
      <3> QED BY <3>6, <3>7
    <2> QED BY <2>3, <2>4
  <1>2. P = Nat
    <2>1. P \in SUBSET Nat
      OBVIOUS
    <2> HIDE DEF P
    <2> QED BY <1>1, <2>1, NatStrong
  <1>n. s \in Nat
    OBVIOUS
  <1> HIDE DEF P
  <1>3. s \in P
    BY <1>2, <1>n
  <1>4. Good(lo, s, j)
    BY <1>3 DEF P
  <1>5. F[<<s, j, E(s, j)>>] # NoRoot
    BY FoldIsTotal
  <1> QED BY <1>4, <1>5 DEF Good, Given, F, E, G, L, Returns, Starts

(* Soundness of verify_inclusion: for every log and every audit path, a proof
   that verifies against the log's root is about the log's own entry. *)
THEOREM InclusionProofsAreSound ==
    ASSUME NEW S, NEW h \in Seq(S), NEW e, NEW index \in Int, NEW path,
           verify_inclusion(e, index, Len(h), path, merkle_root(h))
    PROVE  index \in 0..(Len(h) - 1) /\ e = h[index + 1]
  <1> DEFINE n == Len(h)
             F == FoldOf(e, n, path)
             r == Len(path)
             L == LeavesOf(h)
             T == {leaf_hash(x) : x \in S}
  <1>1. n \in Nat /\ Len(L) = n /\ L \in Seq(T)
    BY LeavesTyped
  <1>2. /\ InclusionShapeOK(index, n, r)
        /\ F[<<n, index, r>>] # NoRoot
        /\ F[<<n, index, r>>][1] = merkle_root(h)
    <2> DEFINE g == root_from_inclusion_proof(e, index, n, path)
    <2>1. g # NoRoot /\ g = merkle_root(h)
      BY DEF verify_inclusion
    <2>2. g = IF InclusionShapeOK(index, n, r) /\ F[<<n, index, r>>] # NoRoot /\ F[<<n, index, r>>][2] = 0
              THEN F[<<n, index, r>>][1] ELSE NoRoot
      BY RootIsFold
    <2> HIDE DEF g, F, r, n
    <2> QED BY <2>1, <2>2
  <1>3. index \in 0..(n - 1) /\ n \in 1..n /\ r = expected_inclusion_path_len(n, index)
    <2> HIDE DEF r, n
    <2> QED BY <1>1, <1>2 DEF InclusionShapeOK
  <1>4. r \in Nat
    <2>1. index \in Nat
      <3> HIDE DEF n
      <3> QED BY <1>1, <1>3
    <2> HIDE DEF r, n
    <2> QED BY <1>1, <1>3, <2>1, DepthFacts
  <1>5. merkle_root(h) = mth(Slice(L, 0, n))
    <2> HIDE DEF L, T
    <2>1. mth(L) = mth(Slice(L, 0, n))
      BY <1>1, MthWhole
    <2> QED BY <2>1 DEF merkle_root, L
  <1>6. e = h[0 + index + 1]
    <2> DEFINE z == 0
    <2>1. z \in Nat /\ z + n <= Len(h)
      BY <1>1
    <2>2. F[<<n, index, r>>] # NoRoot /\ F[<<n, index, r>>][1] = mth(Slice(L, z, n))
      BY <1>2, <1>5
    <2>3. n \in Nat /\ n \in 1..n /\ index \in 0..(n - 1) /\ r \in Nat
      BY <1>1, <1>3, <1>4
    <2> HIDE DEF r, z, T, n
    <2>4. z + n <= Len(h) /\ Returns(e, n, path, n, index, r, mth(Slice(L, z, n)))
             => e = h[z + index + 1]
      <3>1. ASSUME NEW N \in Nat, NEW lo \in Nat, NEW s \in 1..N, NEW j \in 0..(s - 1), NEW q \in Nat
            PROVE  lo + s <= Len(h) /\ Returns(e, N, path, s, j, q, mth(Slice(LeavesOf(h), lo, s)))
                      => e = h[lo + j + 1]
        <4> HIDE DEF F, L
        <4> QED BY FoldIsSound
      <3> QED BY <2>1, <2>3, <3>1
    <2>5. Returns(e, n, path, n, index, r, mth(Slice(L, z, n)))
      BY <2>2 DEF Returns
    <2> QED BY <2>1, <2>4, <2>5 DEF z
  <1> QED BY <1>3, <1>6

(* The size and the index that a proof claims need not be the log's: a proof for
   any of them that rebuilds the log's root is at least about an entry of the log. *)
THEOREM InclusionProofsAreOfEntries ==
    ASSUME NEW S, NEW h \in Seq(S), NEW e, NEW index \in Int, NEW n \in Nat, NEW path,
           verify_inclusion(e, index, n, path, merkle_root(h))
    PROVE  \E i \in 1..Len(h) : e = h[i]
  <1> DEFINE F == FoldOf(e, n, path)
             r == Len(path)
             L == LeavesOf(h)
             T == {leaf_hash(x) : x \in S}
             w == Len(h)
             z == 0
  <1>1. w \in Nat /\ Len(L) = w /\ L \in Seq(T)
    BY LeavesTyped
  <1>2. /\ InclusionShapeOK(index, n, r)
        /\ F[<<n, index, r>>] # NoRoot
        /\ F[<<n, index, r>>][1] = merkle_root(h)
    <2> DEFINE g == root_from_inclusion_proof(e, index, n, path)
    <2>1. g # NoRoot /\ g = merkle_root(h)
      BY DEF verify_inclusion
    <2>2. g = IF InclusionShapeOK(index, n, r) /\ F[<<n, index, r>>] # NoRoot /\ F[<<n, index, r>>][2] = 0
              THEN F[<<n, index, r>>][1] ELSE NoRoot
      BY RootIsFold
    <2> HIDE DEF g, F, r
    <2> QED BY <2>1, <2>2
  <1>3. index \in 0..(n - 1) /\ n \in 1..n /\ r = expected_inclusion_path_len(n, index)
    <2> HIDE DEF r
    <2> QED BY <1>2 DEF InclusionShapeOK
  <1>4. r \in Nat
    <2>1. index \in Nat
      BY <1>3
    <2> HIDE DEF r
    <2> QED BY <1>3, <2>1, DepthFacts
  <1>5. merkle_root(h) = mth(Slice(L, z, w))
    <2> HIDE DEF L, T
    <2>1. mth(L) = mth(Slice(L, 0, w))
      BY <1>1, MthWhole
    <2> QED BY <2>1 DEF merkle_root, L
  <1>6. Returns(e, n, path, n, index, r, mth(Slice(L, z, w)))
    BY <1>2, <1>5 DEF Returns
  <1>7. z \in Nat /\ z + w <= Len(h)
    BY <1>1
  <1> HIDE DEF r, z, T, w, F
  <1> QED BY <1>1, <1>3, <1>4, <1>6, <1>7, FoldStartsAtALeaf

(* Completeness: for every log up to the ceiling, the proof that inclusion_proof
   hands out for an entry has the length verify_inclusion expects of it, and
   verifies against the log's root. *)
THEOREM InclusionProofsVerify ==
    ASSUME NEW S, NEW h \in Seq(S), Len(h) <= MAX_TREE_SIZE, NEW index \in 0..(Len(h) - 1)
    PROVE  /\ Len(inclusion_proof(h, index)) = expected_inclusion_path_len(Len(h), index)
           /\ verify_inclusion(h[index + 1], index, Len(h), inclusion_proof(h, index), merkle_root(h))
  <1> DEFINE n == Len(h)
             leaf == h[index + 1]
             path == inclusion_proof(h, index)
             F == FoldOf(leaf, n, path)
             E == expected_inclusion_path_len(n, index)
             L == LeavesOf(h)
             T == {leaf_hash(x) : x \in S}
  <1>1. n \in Nat /\ Len(L) = n /\ L \in Seq(T)
    BY LeavesTyped
  <1>2. index \in Nat /\ n \in 1..n /\ n <= n /\ 0 + n <= n /\ index \in 0..(n - 1) /\ 0 <= index /\ index < n
    <2>1. n \in Nat /\ index \in 0..(n - 1)
      BY <1>1
    <2> HIDE DEF n
    <2> QED BY <2>1
  <1>3. path = PathOf(h)[<<0, n, index>>]
    BY Zenon DEF inclusion_proof, PathOf
  <1>4. PICK X : Digests(h, X)
    BY DigestsFormASet
  <1>5. Len(path) = E
    <2>1. Len(PathOf(h)[<<0, n, index>>]) = E
      BY <1>1, <1>2, <1>4, PathFacts, SMTT(30)
    <2> HIDE DEF path, n, E
    <2> QED BY <1>3, <2>1
  <1>6. F[<<n, index, E>>] # NoRoot /\ F[<<n, index, E>>][2] = 0
    <2> HIDE DEF path, leaf
    <2> QED BY <1>1, <1>2, FoldIsTotal
  <1>7. F[<<n, index, E>>][1] = mth(Slice(L, 0, n))
    <2> DEFINE z == 0
    <2>1. leaf = h[z + index + 1] /\ z \in Nat /\ z + n <= Len(h)
      BY <1>2
    <2>2. \A i \in 1..E : path[i] = PathOf(h)[<<z, n, index>>][i]
      <3>1. path = PathOf(h)[<<z, n, index>>]
        BY <1>3
      <3> HIDE DEF path, n, E, z
      <3> QED BY <3>1
    <2>3. n \in Nat /\ n \in 1..n /\ index \in 0..(n - 1) /\ n <= Len(h)
      BY <1>1, <1>2
    <2> HIDE DEF path, leaf, z, n
    <2>4. z + n <= Len(h) /\ leaf = h[z + index + 1] /\ Starts(path, h, z, n, index)
             => Returns(leaf, n, path, n, index, E, mth(Slice(L, z, n)))
      <3>1. ASSUME NEW N \in Nat, N <= Len(h), NEW lo \in Nat, NEW s \in 1..N, NEW j \in 0..(s - 1)
            PROVE  lo + s <= Len(h) /\ leaf = h[lo + j + 1] /\ Starts(path, h, lo, s, j)
                      => Returns(leaf, N, path, s, j, expected_inclusion_path_len(s, j), mth(Slice(LeavesOf(h), lo, s)))
        <4> HIDE DEF F, L, E
        <4> QED BY <3>1, FoldIsComplete
      <3> QED BY <2>1, <2>3, <3>1
    <2>5. Starts(path, h, z, n, index)
      BY <2>2 DEF Starts
    <2> QED BY <2>1, <2>4, <2>5 DEF z, Returns
  <1>8. mth(Slice(L, 0, n)) = merkle_root(h) /\ merkle_root(h) # NoRoot
    <2>1. mth(L) = mth(Slice(L, 0, n))
      <3> HIDE DEF L, T
      <3> QED BY <1>1, MthWhole
    <2>2. CASE n = 1
      <3>1. mth(Slice(L, 0, 1)) = L[1]
        <4>1. 0 \in Nat /\ 0 + 1 = 1 /\ 0 + 1 <= Len(L)
          BY <1>1, <2>2
        <4>2. mth(Slice(L, 0, 1)) = L[0 + 1]
          <5> HIDE DEF L, T
          <5> QED BY <1>1, <4>1, MthLeaf
        <4> QED BY <4>1, <4>2
      <3>2. L[1] = leaf_hash(h[1])
        BY <1>2, <2>2, LeavesTyped
      <3>3. leaf_hash(h[1]) # NoRoot
        BY DEF leaf_hash, NoRoot
      <3> HIDE DEF L, n
      <3> QED BY <2>1, <2>2, <3>1, <3>2, <3>3 DEF merkle_root, L
    <2>3. CASE n # 1
      <3>1. n > 1 /\ n \in Nat /\ 0 \in Nat /\ 0 + n <= Len(L)
        <4>1. n \in Nat /\ Len(L) = n /\ n \in 1..n
          BY <1>1, <1>2
        <4> HIDE DEF n, L
        <4> QED BY <2>3, <4>1
      <3>2. PICK x, y : mth(Slice(L, 0, n)) = node_hash(x, y)
        <4> DEFINE z == 0
        <4>1. z \in Nat /\ z + n <= Len(L) /\ n > 1 /\ n \in Nat /\ L \in Seq(T)
          BY <1>1, <3>1
        <4> HIDE DEF L, T, n, z
        <4>2. mth(Slice(L, z, n)) = node_hash(mth(Slice(L, z, largest_pow2_below(n))),
                 mth(Slice(L, z + largest_pow2_below(n), n - largest_pow2_below(n))))
          BY <4>1, MthNode
        <4> QED BY <4>2 DEF z
      <3>3. node_hash(x, y) # NoRoot
        BY DEF node_hash, NoRoot
      <3> HIDE DEF n
      <3> QED BY <2>1, <3>2, <3>3 DEF merkle_root
    <2> QED BY <2>2, <2>3
  <1>9. InclusionShapeOK(index, n, Len(path))
    <2> HIDE DEF path, E, n
    <2> QED BY <1>2, <1>5 DEF InclusionShapeOK, n, E
  <1>10. root_from_inclusion_proof(leaf, index, n, path) = merkle_root(h)
    <2> DEFINE g == root_from_inclusion_proof(leaf, index, n, path)
               r == Len(path)
    <2>1. g = IF InclusionShapeOK(index, n, r) /\ F[<<n, index, r>>] # NoRoot /\ F[<<n, index, r>>][2] = 0
              THEN F[<<n, index, r>>][1] ELSE NoRoot
      <3> HIDE DEF path, leaf
      <3> QED BY RootIsFold
    <2>2. r = E
      BY <1>5
    <2>3. InclusionShapeOK(index, n, r)
      BY <1>9
    <2> HIDE DEF g, F, r, n, E, path, L, leaf
    <2> QED BY <1>6, <1>7, <1>8, <2>1, <2>2, <2>3 DEF g
  <1>11. verify_inclusion(leaf, index, n, path, merkle_root(h))
    <2> HIDE DEF path, leaf, n
    <2> QED BY <1>8, <1>10 DEF verify_inclusion
  <1> QED BY <1>5, <1>11

-----------------------------------------------------------------------------
(* The loops of verify_consistency.                                        *)

ShiftFn(odd, top) ==
    CHOOSE s : s = [p \in (0..top) \X Nat |->
                       IF Shifts(odd, p[1]) THEN s[<<p[1] \div 2, p[2] \div 2>>] ELSE p]

\* The body of the two loops that shift fn and sn.
LEMMA ShiftUnfolds ==
    ASSUME NEW odd \in BOOLEAN, NEW N \in Nat, NEW x \in 0..N, NEW y \in Nat
    PROVE  ShiftFn(odd, N)[<<x, y>>] =
               IF Shifts(odd, x) THEN ShiftFn(odd, N)[<<x \div 2, y \div 2>>] ELSE <<x, y>>
  <1> DEFINE D == (0..N) \X Nat
             a == [odd |-> odd, top |-> N]
             Body(f, p) == IF Shifts(odd, p[1]) THEN f[<<p[1] \div 2, p[2] \div 2>>] ELSE p
  <1>1. Calls("shift", a) = D /\ \A p \in D : Rank("shift", a, p) = p[1]
    BY DEF Calls, Rank
  <1>2. \A f : \A p \in D : Turn("shift", a, f, p) = Body(f, p)
    <2>1. \A f, p : Turn("shift", a, f, p) = ConsistencyTurn("shift", a, f, p)
      BY ZenonT(60) DEF Turn, ConsistencyLoops
    <2>2. \A f, p : ConsistencyTurn("shift", a, f, p) = IF Shifts(a.odd, p[1]) THEN f[<<p[1] \div 2, p[2] \div 2>>] ELSE p
      BY ZenonT(60) DEF ConsistencyTurn
    <2>3. a.odd = odd
      OBVIOUS
    <2> HIDE DEF a, D
    <2>4. ASSUME NEW f, NEW p \in D PROVE Turn("shift", a, f, p) = Body(f, p)
      <3>1. Shifts(a.odd, p[1]) <=> Shifts(odd, p[1])
        BY <2>3, Zenon
      <3>2. Turn("shift", a, f, p) = IF Shifts(a.odd, p[1]) THEN f[<<p[1] \div 2, p[2] \div 2>>] ELSE p
        BY <2>1, <2>2
      <3> QED BY <3>1, <3>2
    <2> QED BY <2>4
  <1>3. Local("shift", a)
    <2> HIDE DEF Body, D, a
    <2> SUFFICES ASSUME NEW f, NEW g, NEW p \in D, \A c \in D : c[1] < p[1] => f[c] = g[c]
                 PROVE  Body(f, p) = Body(g, p)
      BY <1>1, <1>2 DEF Local
    <2>1. CASE ~Shifts(odd, p[1])
      BY <2>1 DEF Body
    <2>2. CASE Shifts(odd, p[1])
      <3>1. p[1] \in Nat /\ p[2] \in Nat /\ p[1] <= N
        BY DEF D
      <3>2. p[1] # 0
        BY <2>2, <3>1 DEF Shifts, Odd
      <3> DEFINE c == <<p[1] \div 2, p[2] \div 2>>
      <3>3. c \in D /\ c[1] < p[1]
        BY <3>1, <3>2 DEF D
      <3> HIDE DEF c
      <3>4. f[c] = g[c]
        BY <3>3
      <3> QED BY <2>2, <3>4 DEF Body, c
    <2> QED BY <2>1, <2>2
  <1>4. \E f : f = [p \in D |-> Body(f, p)]
    <2>1. \A p \in Calls("shift", a) : Rank("shift", a, p) \in 0..N
      BY <1>1
    <2> HIDE DEF a
    <2>2. PICK f : f = [p \in Calls("shift", a) |-> Turn("shift", a, f, p)]
      BY <1>3, <2>1, Recursion
    <2> HIDE DEF Body, D
    <2>3. f = [p \in D |-> Body(f, p)]
      BY <1>1, <1>2, <2>2
    <2> QED BY <2>3
  <1>5. ShiftFn(odd, N) = [p \in D |-> Body(ShiftFn(odd, N), p)]
    BY <1>4, Zenon DEF ShiftFn
  <1> DEFINE F == ShiftFn(odd, N)
  <1> HIDE DEF D, Body, F
  <1>6. \A p \in D : F[p] = Body(F, p)
    BY <1>5, Zenon DEF F
  <1>7. <<x, y>> \in D
    BY DEF D
  <1>8. F[<<x, y>>] = Body(F, <<x, y>>)
    BY <1>6, <1>7
  <1>9. <<x, y>>[1] = x /\ <<x, y>>[2] = y
    OBVIOUS
  <1> QED BY <1>8, <1>9 DEF F, Body

\* The two loops of verify_consistency are these.
LEMMA ShiftsAre ==
    ASSUME NEW f, NEW t
    PROVE  /\ ShiftWhileOdd(f, t) = ShiftFn(TRUE, f)[<<f, t>>]
           /\ ShiftWhileEven(f, t) = ShiftFn(FALSE, f)[<<f, t>>]
  <1> DEFINE D == (0..f) \X Nat
             O(s) == [p \in D |-> IF Odd(p[1]) THEN s[<<p[1] \div 2, p[2] \div 2>>] ELSE p]
             E(s) == [p \in D |-> IF ~Odd(p[1]) /\ p[1] # 0 THEN s[<<p[1] \div 2, p[2] \div 2>>] ELSE p]
             G(odd, s) == [p \in D |-> IF Shifts(odd, p[1]) THEN s[<<p[1] \div 2, p[2] \div 2>>] ELSE p]
  <1>1. \A x : (Shifts(TRUE, x) <=> Odd(x)) /\ (Shifts(FALSE, x) <=> (~Odd(x) /\ x # 0))
    BY DEF Shifts
  <1>2. \A s : G(TRUE, s) = O(s) /\ G(FALSE, s) = E(s)
    BY <1>1
  <1>3. ShiftWhileOdd(f, t) = (CHOOSE s : s = O(s))[<<f, t>>]
    BY Zenon DEF ShiftWhileOdd
  <1>4. ShiftWhileEven(f, t) = (CHOOSE s : s = E(s))[<<f, t>>]
    BY Zenon DEF ShiftWhileEven
  <1>5. ShiftFn(TRUE, f) = CHOOSE s : s = G(TRUE, s)
    BY Zenon DEF ShiftFn
  <1>6. ShiftFn(FALSE, f) = CHOOSE s : s = G(FALSE, s)
    BY Zenon DEF ShiftFn
  <1> HIDE DEF G, O, E
  <1>7. (CHOOSE s : s = G(TRUE, s)) = (CHOOSE s : s = O(s))
    BY <1>2, Zenon
  <1>8. (CHOOSE s : s = G(FALSE, s)) = (CHOOSE s : s = E(s))
    BY <1>2, Zenon
  <1> QED BY <1>3, <1>4, <1>5, <1>6, <1>7, <1>8, Zenon

\* fn and sn at a level of the trees: the places of the last leaves, A of the
\* old tree and B of the new one, divided by the width of the level.
Level(f, t, w, A, B) ==
    /\ f \in Nat /\ t \in Nat /\ w \in Pow2
    /\ f * w <= A /\ A < f * w + w
    /\ t * w <= B /\ B < t * w + w

\* Halving the index of a node.
LEMMA Halve ==
    ASSUME NEW q \in Nat, NEW w \in Nat
    PROVE  /\ q \div 2 \in Nat
           /\ Odd(q) => q = 2 * (q \div 2) + 1 /\ q * w = (q \div 2) * (2 * w) + w
           /\ ~Odd(q) => q = 2 * (q \div 2) /\ q * w = (q \div 2) * (2 * w)
  <1> DEFINE h == q \div 2
  <1>1. h \in Nat /\ q = 2 * h + (q % 2) /\ q % 2 \in 0..1
    OBVIOUS
  <1> HIDE DEF h
  <1>2. (2 * h) * w = h * (2 * w) /\ (2 * h + 1) * w = h * (2 * w) + w
    BY <1>1
  <1>3. Odd(q) => q = 2 * h + 1
    BY <1>1 DEF Odd
  <1>4. ~Odd(q) => q = 2 * h
    BY <1>1 DEF Odd
  <1> QED BY <1>1, <1>2, <1>3, <1>4 DEF h

\* One shift moves to the next level.
LEMMA LevelUp ==
    ASSUME NEW A \in Nat, NEW B \in Nat, NEW f, NEW t, NEW w, Level(f, t, w, A, B)
    PROVE  Level(f \div 2, t \div 2, 2 * w, A, B)
  <1>1. w \in Nat /\ w >= 1 /\ 2 * w \in Pow2 /\ f \in Nat /\ t \in Nat
    BY Pow2Doubles DEF Level
  <1> DEFINE h == f \div 2
             u == t \div 2
             X == h * (2 * w)
             Y == u * (2 * w)
  <1>2. h \in Nat /\ (f * w = X + w \/ f * w = X)
    BY <1>1, Halve
  <1>3. u \in Nat /\ (t * w = Y + w \/ t * w = Y)
    BY <1>1, Halve
  <1>4. X \in Nat /\ Y \in Nat
    BY <1>1, <1>2, <1>3
  <1> HIDE DEF X, Y
  <1>5. X <= A /\ A < X + 2 * w
    BY <1>1, <1>2, <1>4 DEF Level
  <1>6. Y <= B /\ B < Y + 2 * w
    BY <1>1, <1>3, <1>4 DEF Level
  <1> QED BY <1>1, <1>2, <1>3, <1>5, <1>6 DEF Level, X, Y

\* Where the first loop stops: at the subtree that ends where the old tree does
\* and is the left child of its parent.
LeftEdge(p, A, B) ==
    \E w \in Pow2, f, t \in Nat : /\ p = <<f, t>> /\ Level(f, t, w, A, B)
                                  /\ ~Odd(f) /\ A + 1 = f * w + w

\* The first loop, which shifts while fn is odd, stops there.
LEMMA ShiftOddEnds ==
    ASSUME NEW A \in Nat, NEW B \in Nat
    PROVE  LeftEdge(ShiftWhileOdd(A, B), A, B)
  <1> DEFINE F == ShiftFn(TRUE, A)
             Good(x) == \A t, w : (Level(x, t, w, A, B) /\ A + 1 = x * w + w) => LeftEdge(F[<<x, t>>], A, B)
             P == {x \in Nat : x <= A => Good(x)}
  <1>1. ASSUME NEW x \in Nat, \A e \in 0..(x - 1) : e \in P PROVE x \in P
    <2> SUFFICES ASSUME x <= A, NEW t, NEW w, Level(x, t, w, A, B), A + 1 = x * w + w
                 PROVE  LeftEdge(F[<<x, t>>], A, B)
      OBVIOUS
    <2>1. t \in Nat /\ w \in Nat /\ w >= 1 /\ x \in 0..A
      BY Pow2Doubles DEF Level
    <2>2. F[<<x, t>>] = IF Odd(x) THEN F[<<x \div 2, t \div 2>>] ELSE <<x, t>>
      <3>1. Shifts(TRUE, x) <=> Odd(x)
        BY DEF Shifts
      <3> QED BY <2>1, <3>1, ShiftUnfolds
    <2>3. CASE Odd(x)
      <3> DEFINE h == x \div 2
                 u == t \div 2
                 v == 2 * w
      <3>1. h \in Nat /\ x = 2 * h + 1 /\ x * w = h * v + w
        BY <2>1, <2>3, Halve
      <3>2. Level(h, u, v, A, B)
        BY LevelUp
      <3>3. v = 2 * w /\ v \in Nat
        BY <2>1
      <3> HIDE DEF h, u, v, F, Good
      <3>4. h \in 0..(x - 1) /\ h <= A
        BY <3>1
      <3>5. Good(h)
        BY <1>1, <3>1, <3>4
      <3>6. A + 1 = h * v + v
        <4> DEFINE z == h * v
        <4>1. z \in Nat
          BY <3>1, <3>3
        <4>2. A + 1 = (z + w) + w
          BY <3>1
        <4> HIDE DEF z
        <4>3. A + 1 = z + v
          BY <2>1, <3>3, <4>1, <4>2
        <4> QED BY <4>3 DEF z
      <3>7. LeftEdge(F[<<h, u>>], A, B)
        BY <3>2, <3>5, <3>6 DEF Good
      <3> QED BY <2>2, <2>3, <3>7 DEF h, u
    <2>4. CASE ~Odd(x)
      <3>1. w \in Pow2
        BY DEF Level
      <3> HIDE DEF F
      <3> QED BY <2>1, <2>2, <2>4, <3>1 DEF LeftEdge
    <2> QED BY <2>3, <2>4
  <1>2. P = Nat
    <2>1. P \in SUBSET Nat
      OBVIOUS
    <2> HIDE DEF P
    <2> QED BY <1>1, <2>1, NatStrong
  <1>3. Good(A)
    <2> HIDE DEF Good
    <2> QED BY <1>2
  <1>4. Level(A, B, 1, A, B) /\ A + 1 = A * 1 + 1
    BY Pow2Doubles DEF Level
  <1>5. LeftEdge(F[<<A, B>>], A, B)
    <2> HIDE DEF F
    <2> QED BY <1>3, <1>4
  <1> QED BY <1>5, ShiftsAre

\* Where the second loop stops: at the ancestor that is a right child and has
\* the same leaves.
RightEdge(p, f, w, A, B) ==
    \E v \in Pow2, g, t \in Nat : /\ p = <<g, t>> /\ Level(g, t, v, A, B)
                                  /\ Odd(g) /\ g * v = f * w
                                  /\ v = w \/ (v >= w /\ B < f * w + w)

\* The second loop, which shifts while fn is even and not 0, stops there.
LEMMA ShiftEvenEnds ==
    ASSUME NEW A \in Nat, NEW B \in Nat, NEW f, NEW t, NEW w, Level(f, t, w, A, B),
           Odd(f) \/ (f = t /\ f # 0)
    PROVE  RightEdge(ShiftWhileEven(f, t), f, w, A, B)
  <1> DEFINE F == ShiftFn(FALSE, f)
             First(x, u, v) == Level(x, u, v, A, B) /\ (Odd(x) \/ (x = u /\ x # 0))
             Good(x) == \A u, v : First(x, u, v) => RightEdge(F[<<x, u>>], x, v, A, B)
             P == {x \in Nat : x <= f => Good(x)}
  <1>0. f \in Nat
    BY DEF Level
  <1>1. ASSUME NEW x \in Nat, \A e \in 0..(x - 1) : e \in P PROVE x \in P
    <2> SUFFICES ASSUME x <= f, NEW u, NEW v, First(x, u, v)
                 PROVE  RightEdge(F[<<x, u>>], x, v, A, B)
      OBVIOUS
    <2>1. u \in Nat /\ v \in Nat /\ v >= 1 /\ x \in 0..f /\ v \in Pow2
      BY <1>0, Pow2Doubles DEF Level
    <2>2. F[<<x, u>>] = IF ~Odd(x) /\ x # 0 THEN F[<<x \div 2, u \div 2>>] ELSE <<x, u>>
      <3>1. Shifts(FALSE, x) <=> (~Odd(x) /\ x # 0)
        BY DEF Shifts
      <3> QED BY <1>0, <2>1, <3>1, ShiftUnfolds, ZenonT(60)
    <2>3. CASE ~Odd(x)
      <3> DEFINE h == x \div 2
                 k == 2 * v
                 y == u \div 2
      <3>0. x = u /\ x # 0
        BY <2>3
      <3>1. h \in Nat /\ x = 2 * h /\ x * v = h * k
        BY <2>1, <2>3, Halve
      <3>2. Level(h, y, k, A, B)
        BY LevelUp
      <3>3. h = y
        BY <3>0
      <3>5. B < x * v + v
        BY <3>0 DEF Level
      <3>6. k >= v /\ k \in Nat
        BY <2>1
      <3> HIDE DEF h, k, y, F, Good
      <3>7. h # 0 /\ h \in 0..(x - 1) /\ h <= f
        BY <1>0, <3>0, <3>1
      <3>8. Good(h)
        BY <1>1, <3>1, <3>7
      <3>9. RightEdge(F[<<h, y>>], h, k, A, B)
        BY <3>2, <3>3, <3>7, <3>8 DEF Good
      <3>10. PICK z \in Pow2, g \in Nat, s \in Nat :
                 /\ F[<<h, y>>] = <<g, s>> /\ Level(g, s, z, A, B)
                 /\ Odd(g) /\ g * z = h * k
                 /\ z = k \/ (z >= k /\ B < h * k + k)
        BY <3>9 DEF RightEdge
      <3>11. z >= v
        BY <2>1, <3>6, <3>10, Pow2Doubles
      <3>12. g * z = x * v
        BY <3>1, <3>10
      <3>13. F[<<x, u>>] = <<g, s>>
        BY <2>2, <2>3, <3>0, <3>10 DEF h, y
      <3> QED BY <3>5, <3>10, <3>11, <3>12, <3>13 DEF RightEdge
    <2>4. CASE Odd(x)
      <3>1. F[<<x, u>>] = <<x, u>>
        BY <2>2, <2>4
      <3>2. Level(x, u, v, A, B)
        OBVIOUS
      <3> HIDE DEF F
      <3> QED BY <2>1, <2>4, <3>1, <3>2 DEF RightEdge
    <2> QED BY <2>3, <2>4
  <1>2. P = Nat
    <2>1. P \in SUBSET Nat
      OBVIOUS
    <2> HIDE DEF P
    <2> QED BY <1>1, <2>1, NatStrong
  <1>3. Good(f)
    <2> HIDE DEF Good
    <2> QED BY <1>0, <1>2
  <1>4. RightEdge(F[<<f, t>>], f, w, A, B)
    <2> HIDE DEF F
    <2> QED BY <1>3
  <1> QED BY <1>4, ShiftsAre

RunOf(nodes, start) ==
    CHOOSE run : run = [i \in 1..Len(nodes) |->
        IF i = 1 THEN <<start[1], start[2], nodes[1], nodes[1]>>
        ELSE IF run[i - 1] = NoRoot \/ run[i - 1][2] = 0 THEN NoRoot
        ELSE ConsistencyStep(run[i - 1], nodes[i])]

\* The loop of verify_consistency, one node at a time.
LEMMA RunUnfolds ==
    ASSUME NEW nodes, Len(nodes) \in Nat, NEW start, NEW i \in 1..Len(nodes)
    PROVE  RunOf(nodes, start)[i] =
               IF i = 1 THEN <<start[1], start[2], nodes[1], nodes[1]>>
               ELSE IF RunOf(nodes, start)[i - 1] = NoRoot \/ RunOf(nodes, start)[i - 1][2] = 0 THEN NoRoot
               ELSE ConsistencyStep(RunOf(nodes, start)[i - 1], nodes[i])
  <1> DEFINE D == 1..Len(nodes)
             a == [nodes |-> nodes, start |-> start]
             Body(f, p) == IF p = 1 THEN <<start[1], start[2], nodes[1], nodes[1]>>
                           ELSE IF f[p - 1] = NoRoot \/ f[p - 1][2] = 0 THEN NoRoot
                           ELSE ConsistencyStep(f[p - 1], nodes[p])
  <1>0. a.nodes = nodes /\ a.start = start
    OBVIOUS
  <1>1. Calls("run", a) = D /\ \A p \in D : Rank("run", a, p) = p
    BY DEF Calls, Rank
  <1> HIDE DEF a
  <1>2. \A f : \A p \in D : Turn("run", a, f, p) = Body(f, p)
    <2>1. \A f, p : Turn("run", a, f, p) = ConsistencyTurn("run", a, f, p)
      BY ZenonT(60) DEF Turn, ConsistencyLoops
    <2>2. \A f, p : ConsistencyTurn("run", a, f, p) =
              IF p = 1 THEN <<a.start[1], a.start[2], a.nodes[1], a.nodes[1]>>
              ELSE IF f[p - 1] = NoRoot \/ f[p - 1][2] = 0 THEN NoRoot
              ELSE ConsistencyStep(f[p - 1], a.nodes[p])
      BY ZenonT(60) DEF ConsistencyTurn
    <2> HIDE DEF D
    <2> QED BY <1>0, <2>1, <2>2
  <1>3. Local("run", a)
    <2> HIDE DEF Body, D
    <2> SUFFICES ASSUME NEW f, NEW g, NEW p \in D, \A c \in D : c < p => f[c] = g[c]
                 PROVE  Body(f, p) = Body(g, p)
      BY <1>1, <1>2 DEF Local
    <2>1. CASE p = 1
      BY <2>1 DEF Body
    <2>2. CASE p # 1
      <3>1. p - 1 \in D /\ p - 1 < p
        BY <2>2 DEF D
      <3>2. f[p - 1] = g[p - 1]
        BY <3>1
      <3> QED BY <2>2, <3>2 DEF Body
    <2> QED BY <2>1, <2>2
  <1>4. \E f : f = [p \in D |-> Body(f, p)]
    <2>1. \A p \in Calls("run", a) : Rank("run", a, p) \in 0..Len(nodes)
      BY <1>1
    <2>2. PICK f : f = [p \in Calls("run", a) |-> Turn("run", a, f, p)]
      BY <1>3, <2>1, Recursion
    <2> HIDE DEF Body, D
    <2>3. f = [p \in D |-> Body(f, p)]
      BY <1>1, <1>2, <2>2
    <2> QED BY <2>3
  <1>5. RunOf(nodes, start) = [p \in D |-> Body(RunOf(nodes, start), p)]
    BY <1>4, Zenon DEF RunOf
  <1> DEFINE F == RunOf(nodes, start)
  <1> HIDE DEF D, Body, F
  <1>6. \A p \in D : F[p] = Body(F, p)
    BY <1>5, Zenon DEF F
  <1>7. F[i] = Body(F, i)
    BY <1>6 DEF D
  <1> QED BY <1>7 DEF F, Body

\* ConsistencyLoop is that loop, from where the first shifts end.
LEMMA LoopIsRun ==
    ASSUME NEW nodes, NEW mm, NEW n
    PROVE  ConsistencyLoop(nodes, mm, n) = RunOf(nodes, ShiftWhileOdd(mm - 1, n - 1))[Len(nodes)]
  BY Zenon DEF ConsistencyLoop, RunOf

\* One turn of the loop, when the node joins on the left and when it does not.
LEMMA StepIs ==
    ASSUME NEW f, NEW t, NEW x, NEW y, NEW c, NEW g, NEW u
    PROVE  /\ (Odd(f) \/ f = t) /\ ShiftWhileEven(f, t) = <<g, u>> =>
                  ConsistencyStep(<<f, t, x, y>>, c) =
                      <<g \div 2, u \div 2, node_hash(c, x), node_hash(c, y)>>
           /\ ~(Odd(f) \/ f = t) =>
                  ConsistencyStep(<<f, t, x, y>>, c) =
                      <<f \div 2, t \div 2, x, node_hash(y, c)>>
  <1> DEFINE st == <<f, t, x, y>>
             joins == Odd(st[1]) \/ st[1] = st[2]
             sh == IF joins THEN ShiftWhileEven(st[1], st[2]) ELSE <<st[1], st[2]>>
  <1>1. ConsistencyStep(st, c) =
            <<sh[1] \div 2, sh[2] \div 2,
              IF joins THEN node_hash(c, st[3]) ELSE st[3],
              IF joins THEN node_hash(c, st[4]) ELSE node_hash(st[4], c)>>
    BY Zenon DEF ConsistencyStep
  <1>2. st[1] = f /\ st[2] = t /\ st[3] = x /\ st[4] = y
    OBVIOUS
  <1> HIDE DEF st
  <1>3. ASSUME Odd(f) \/ f = t, ShiftWhileEven(f, t) = <<g, u>>
        PROVE  ConsistencyStep(st, c) = <<g \div 2, u \div 2, node_hash(c, x), node_hash(c, y)>>
    <2>1. joins /\ sh = <<g, u>>
      BY <1>2, <1>3
    <2>2. sh[1] = g /\ sh[2] = u
      BY <2>1
    <2> HIDE DEF sh, joins
    <2> QED BY <1>1, <1>2, <2>1, <2>2
  <1>4. ASSUME ~(Odd(f) \/ f = t)
        PROVE  ConsistencyStep(st, c) = <<f \div 2, t \div 2, x, node_hash(y, c)>>
    <2>1. ~joins /\ sh = <<f, t>>
      BY <1>2, <1>4
    <2>2. sh[1] = f /\ sh[2] = t
      BY <2>1
    <2> HIDE DEF sh, joins
    <2> QED BY <1>1, <1>2, <2>1, <2>2
  <1> QED BY <1>3, <1>4 DEF st

-----------------------------------------------------------------------------
(* The nodes of a level of a tree.                                         *)

\* The digest of the node of width w at place a of the tree of h.
NodeOf(h, a, w) ==
    mth(Slice(LeavesOf(h), a, IF w <= Len(h) - a THEN w ELSE Len(h) - a))

\* The two histories have the same entries from place a to the end of the first.
AgreeFrom(old, new, a) == \A j \in (a + 1)..Len(old) : old[j] = new[j]

\* The tree hash is injective on ranges of the same length.
LEMMA MthInjective ==
    ASSUME NEW S, NEW old \in Seq(S), NEW new \in Seq(S), NEW lo \in Nat, NEW n \in Nat,
           lo + n <= Len(old), lo + n <= Len(new),
           mth(Slice(LeavesOf(old), lo, n)) = mth(Slice(LeavesOf(new), lo, n))
    PROVE  \A j \in (lo + 1)..(lo + n) : old[j] = new[j]
  <1> DEFINE K == LeavesOf(old)
             L == LeavesOf(new)
             T == {leaf_hash(e) : e \in S}
             Same(b, d) == \A j \in (b + 1)..(b + d) : old[j] = new[j]
             Fits(b, d) == b + d <= Len(old) /\ b + d <= Len(new)
             P == {d \in Nat : \A b \in Nat :
                      Fits(b, d) /\ mth(Slice(K, b, d)) = mth(Slice(L, b, d)) => Same(b, d)}
  <1>1. /\ K \in Seq(T) /\ Len(K) = Len(old) /\ Len(old) \in Nat
        /\ \A i \in 1..Len(old) : K[i] = leaf_hash(old[i])
    BY LeavesTyped
  <1>2. /\ L \in Seq(T) /\ Len(L) = Len(new) /\ Len(new) \in Nat
        /\ \A i \in 1..Len(new) : L[i] = leaf_hash(new[i])
    BY LeavesTyped
  <1> HIDE DEF K, L, T
  <1>3. ASSUME NEW d \in Nat, \A e \in 0..(d - 1) : e \in P PROVE d \in P
    <2> SUFFICES ASSUME NEW b \in Nat, Fits(b, d), mth(Slice(K, b, d)) = mth(Slice(L, b, d))
                 PROVE  Same(b, d)
      OBVIOUS
    <2>1. CASE d = 0
      BY <2>1
    <2>2. CASE d = 1
      <3>1. b + 1 <= Len(K) /\ b + 1 <= Len(L) /\ b + 1 \in 1..Len(old) /\ b + 1 \in 1..Len(new)
        BY <1>1, <1>2, <2>2
      <3>2. mth(Slice(K, b, 1)) = K[b + 1] /\ mth(Slice(L, b, 1)) = L[b + 1]
        BY <1>1, <1>2, <3>1, MthLeaf
      <3>3. leaf_hash(old[b + 1]) = leaf_hash(new[b + 1])
        BY <1>1, <1>2, <2>2, <3>1, <3>2
      <3>4. old[b + 1] = new[b + 1]
        BY <3>3 DEF leaf_hash
      <3> QED BY <2>2, <3>4
    <2>3. CASE d > 1
      <3> DEFINE k == largest_pow2_below(d)
      <3>1. k \in 1..(d - 1)
        BY <2>3, PowBelow
      <3>2. b + d <= Len(K) /\ b + d <= Len(L)
        BY <1>1, <1>2
      <3>3. mth(Slice(K, b, d)) = node_hash(mth(Slice(K, b, k)), mth(Slice(K, b + k, d - k)))
        BY <1>1, <2>3, <3>2, MthNode
      <3>4. mth(Slice(L, b, d)) = node_hash(mth(Slice(L, b, k)), mth(Slice(L, b + k, d - k)))
        BY <1>2, <2>3, <3>2, MthNode
      <3> HIDE DEF k
      <3>5. mth(Slice(K, b, k)) = mth(Slice(L, b, k)) /\ mth(Slice(K, b + k, d - k)) = mth(Slice(L, b + k, d - k))
        <4>1. node_hash(mth(Slice(K, b, k)), mth(Slice(K, b + k, d - k)))
                 = node_hash(mth(Slice(L, b, k)), mth(Slice(L, b + k, d - k)))
          BY <3>3, <3>4
        <4> QED BY <4>1, NodeInjective
      <3>6. k \in P /\ d - k \in P /\ Fits(b, k) /\ Fits(b + k, d - k) /\ b + k \in Nat
        <4>1. k \in 0..(d - 1) /\ d - k \in 0..(d - 1)
          BY <3>1
        <4>2. k \in P /\ d - k \in P
          BY <1>3, <4>1
        <4>3. Fits(b, k) /\ Fits(b + k, d - k) /\ b + k \in Nat
          BY <1>1, <1>2, <3>1
        <4> QED BY <4>2, <4>3
      <3> HIDE DEF Fits
      <3>7. Same(b, k) /\ Same(b + k, d - k)
        BY <3>5, <3>6
      <3>8. \A j \in (b + 1)..(b + d) : j \in (b + 1)..(b + k) \/ j \in ((b + k) + 1)..((b + k) + (d - k))
        BY <3>1
      <3> QED BY <3>7, <3>8
    <2> QED BY <2>1, <2>2, <2>3
  <1>4. P = Nat
    <2>1. P \in SUBSET Nat
      OBVIOUS
    <2> HIDE DEF P
    <2> QED BY <1>3, <2>1, NatStrong
  <1>5. Fits(lo, n) /\ mth(Slice(K, lo, n)) = mth(Slice(L, lo, n)) => Same(lo, n)
    <2> HIDE DEF Fits, Same
    <2> QED BY <1>4
  <1> QED BY <1>5 DEF K, L

\* A node without a right neighbour is its own parent.
LEMMA NodePromoted ==
    ASSUME NEW h, Len(h) \in Nat, NEW a \in Nat, NEW v \in Nat, NEW w \in Nat,
           v = w \/ (w <= v /\ Len(h) <= a + w)
    PROVE  NodeOf(h, a, v) = NodeOf(h, a, w)
  <1>1. (IF v <= Len(h) - a THEN v ELSE Len(h) - a) = (IF w <= Len(h) - a THEN w ELSE Len(h) - a)
    OBVIOUS
  <1> QED BY <1>1 DEF NodeOf

\* A node with one has the two as children of its parent.
LEMMA NodeJoined ==
    ASSUME NEW S, NEW h \in Seq(S), NEW a \in Nat, NEW w \in Pow2, a + w < Len(h)
    PROVE  /\ NodeOf(h, a, 2 * w) = node_hash(NodeOf(h, a, w), NodeOf(h, a + w, w))
           /\ NodeOf(h, a, w) = mth(Slice(LeavesOf(h), a, w))
  <1> DEFINE L == LeavesOf(h)
             T == {leaf_hash(e) : e \in S}
             s == IF 2 * w <= Len(h) - a THEN 2 * w ELSE Len(h) - a
             r == IF w <= Len(h) - (a + w) THEN w ELSE Len(h) - (a + w)
  <1>1. L \in Seq(T) /\ Len(L) = Len(h) /\ Len(h) \in Nat
    BY LeavesTyped
  <1>2. w \in Nat /\ w >= 1
    BY Pow2Doubles
  <1>3. s \in Nat /\ w < s /\ s <= 2 * w /\ s > 1 /\ a + s <= Len(h) /\ r = s - w
    BY <1>1, <1>2
  <1>4. NodeOf(h, a, 2 * w) = mth(Slice(L, a, s)) /\ NodeOf(h, a + w, w) = mth(Slice(L, a + w, r))
    BY Zenon DEF NodeOf
  <1>5. NodeOf(h, a, w) = mth(Slice(L, a, w))
    <2>1. w <= Len(h) - a
      BY <1>1, <1>2
    <2> QED BY <2>1 DEF NodeOf
  <1> HIDE DEF L, T, s, r
  <1>6. largest_pow2_below(s) = w
    BY <1>3, SplitIs
  <1>7. mth(Slice(L, a, s)) = node_hash(mth(Slice(L, a, w)), mth(Slice(L, a + w, s - w)))
    BY <1>1, <1>3, <1>6, MthNode
  <1> QED BY <1>3, <1>4, <1>5, <1>7 DEF L

-----------------------------------------------------------------------------
(* verify_consistency accepts an extension only.                           *)

\* What the loop has established: digests fr and sr that are those of the two
\* trees over the place it has reached mean that the histories agree from there.
SoundAt(old, new, st) ==
    \E w \in Pow2, f, t \in Nat : \E x, y :
        /\ st = <<f, t, x, y>>
        /\ Level(f, t, w, Len(old) - 1, Len(new) - 1)
        /\ x = NodeOf(old, f * w, w) /\ y = NodeOf(new, f * w, w) => AgreeFrom(old, new, f * w)

\* A node that is hashed on the left of both digests is a node of both trees.
LEMMA JoinSound ==
    ASSUME NEW S, NEW old \in Seq(S), NEW new \in Seq(S), Len(old) <= Len(new),
           NEW a \in Nat, NEW v \in Pow2, a + v < Len(old), NEW x, NEW y, NEW c,
           (x = NodeOf(old, a + v, v) /\ y = NodeOf(new, a + v, v)) => AgreeFrom(old, new, a + v),
           node_hash(c, x) = NodeOf(old, a, 2 * v), node_hash(c, y) = NodeOf(new, a, 2 * v)
    PROVE  AgreeFrom(old, new, a)
  <1>0. v \in Nat /\ Len(old) \in Nat /\ Len(new) \in Nat /\ a + v < Len(new)
        /\ a + v <= Len(old) /\ a + v <= Len(new)
    BY Pow2Doubles
  <1>1. /\ NodeOf(old, a, 2 * v) = node_hash(NodeOf(old, a, v), NodeOf(old, a + v, v))
        /\ NodeOf(old, a, v) = mth(Slice(LeavesOf(old), a, v))
    BY NodeJoined
  <1>2. /\ NodeOf(new, a, 2 * v) = node_hash(NodeOf(new, a, v), NodeOf(new, a + v, v))
        /\ NodeOf(new, a, v) = mth(Slice(LeavesOf(new), a, v))
    BY <1>0, NodeJoined
  <1>3. c = NodeOf(old, a, v) /\ x = NodeOf(old, a + v, v)
    <2>1. node_hash(c, x) = node_hash(NodeOf(old, a, v), NodeOf(old, a + v, v))
      BY <1>1
    <2> QED BY <2>1, NodeInjective
  <1>4. c = NodeOf(new, a, v) /\ y = NodeOf(new, a + v, v)
    <2>1. node_hash(c, y) = node_hash(NodeOf(new, a, v), NodeOf(new, a + v, v))
      BY <1>2
    <2> QED BY <2>1, NodeInjective
  <1>5. AgreeFrom(old, new, a + v)
    BY <1>3, <1>4
  <1>6. \A j \in (a + 1)..(a + v) : old[j] = new[j]
    <2>1. mth(Slice(LeavesOf(old), a, v)) = mth(Slice(LeavesOf(new), a, v))
      BY <1>1, <1>2, <1>3, <1>4
    <2> QED BY <1>0, <2>1, MthInjective
  <1>7. \A j \in (a + 1)..Len(old) : j \in (a + 1)..(a + v) \/ j \in ((a + v) + 1)..Len(old)
    BY <1>0
  <1> QED BY <1>5, <1>6, <1>7 DEF AgreeFrom

\* A turn of the loop keeps what has been established.
LEMMA StepSound ==
    ASSUME NEW S, NEW old \in Seq(S), NEW new \in Seq(S), 1 <= Len(old), Len(old) <= Len(new),
           NEW st, NEW c, SoundAt(old, new, st), st[2] # 0
    PROVE  SoundAt(old, new, ConsistencyStep(st, c))
  <1> DEFINE A == Len(old) - 1
             B == Len(new) - 1
  <1>1. A \in Nat /\ B \in Nat /\ Len(old) = A + 1 /\ Len(new) = B + 1 /\ A <= B
        /\ Len(old) \in Nat /\ Len(new) \in Nat
    OBVIOUS
  <1>p. PICK w \in Pow2, f \in Nat, t \in Nat : \E x, y :
            /\ st = <<f, t, x, y>>
            /\ Level(f, t, w, A, B)
            /\ x = NodeOf(old, f * w, w) /\ y = NodeOf(new, f * w, w) => AgreeFrom(old, new, f * w)
    BY DEF SoundAt
  <1>2. PICK x, y :
            /\ st = <<f, t, x, y>>
            /\ Level(f, t, w, A, B)
            /\ x = NodeOf(old, f * w, w) /\ y = NodeOf(new, f * w, w) => AgreeFrom(old, new, f * w)
    BY <1>p
  <1>3. t # 0
    BY <1>2
  <1>w. w \in Nat /\ w >= 1 /\ 2 * w \in Pow2 /\ 2 * w \in Nat
    BY Pow2Doubles
  <1>x. f * w \in Nat /\ t * w \in Nat
    BY <1>w
  <1>4. CASE Odd(f) \/ f = t
    <2>1. RightEdge(ShiftWhileEven(f, t), f, w, A, B)
      <3>1. Odd(f) \/ (f = t /\ f # 0)
        BY <1>3, <1>4
      <3> HIDE DEF A, B
      <3> QED BY <1>1, <1>2, <3>1, ShiftEvenEnds
    <2>2. PICK v \in Pow2, g \in Nat, u \in Nat :
              /\ ShiftWhileEven(f, t) = <<g, u>> /\ Level(g, u, v, A, B)
              /\ Odd(g) /\ g * v = f * w
              /\ v = w \/ (v >= w /\ B < f * w + w)
      BY <2>1 DEF RightEdge
    <2> DEFINE h == g \div 2
               k == u \div 2
               a == h * (2 * v)
    <2>3. ConsistencyStep(st, c) = <<h, k, node_hash(c, x), node_hash(c, y)>>
      BY <1>2, <1>4, <2>2, StepIs
    <2>4. Level(h, k, 2 * v, A, B)
      <3> HIDE DEF A, B
      <3> QED BY <1>1, <2>2, LevelUp
    <2>5. v \in Nat /\ v >= 1 /\ 2 * v \in Pow2
      BY Pow2Doubles
    <2>6. h \in Nat /\ k \in Nat /\ g * v = a + v
      BY <2>2, <2>4, <2>5, Halve DEF Level
    <2>7. a \in Nat
      BY <2>5, <2>6
    <2>8. a + v = f * w /\ a + v < Len(old)
      <3>1. f * w <= A
        BY <1>2 DEF Level
      <3> HIDE DEF a, A
      <3> QED BY <1>1, <1>x, <2>2, <2>5, <2>6, <2>7, <3>1
    <2> HIDE DEF a, h, k
    <2>9. NodeOf(old, a + v, v) = NodeOf(old, a + v, w) /\ NodeOf(new, a + v, v) = NodeOf(new, a + v, w)
      <3>1. v = w \/ (w <= v /\ Len(old) <= (a + v) + w /\ Len(new) <= (a + v) + w)
        BY <1>1, <1>w, <1>x, <2>2, <2>5, <2>7, <2>8
      <3>2. a + v \in Nat
        BY <2>5, <2>7
      <3> HIDE DEF A, B
      <3> QED BY <1>1, <1>w, <2>5, <3>1, <3>2, NodePromoted
    <2>10. (x = NodeOf(old, a + v, v) /\ y = NodeOf(new, a + v, v)) => AgreeFrom(old, new, a + v)
      BY <1>2, <2>8, <2>9
    <2>11. (node_hash(c, x) = NodeOf(old, a, 2 * v) /\ node_hash(c, y) = NodeOf(new, a, 2 * v))
               => AgreeFrom(old, new, a)
      BY <1>1, <2>7, <2>8, <2>10, JoinSound
    <2> QED BY <2>3, <2>4, <2>5, <2>6, <2>11 DEF SoundAt, a
  <1>5. CASE ~(Odd(f) \/ f = t)
    <2> DEFINE h == f \div 2
               k == t \div 2
               a == f * w
    <2>1. ConsistencyStep(st, c) = <<h, k, x, node_hash(y, c)>>
      BY <1>2, <1>5, StepIs
    <2>2. Level(h, k, 2 * w, A, B)
      <3> HIDE DEF A, B
      <3> QED BY <1>1, <1>2, LevelUp
    <2>3. h \in Nat /\ k \in Nat /\ h * (2 * w) = a
      BY <1>5, <1>w, <2>2, Halve DEF Level
    <2>4. f < t
      <3>1. f * w <= A /\ B < t * w + w
        BY <1>2 DEF Level
      <3>2. f * w < t * w + w
        <4> DEFINE z == f * w
                   u == t * w
        <4>1. z \in Nat /\ u \in Nat /\ z <= A /\ B < u + w
          BY <1>x, <3>1
        <4> HIDE DEF z, u, A, B
        <4>2. z < u + w
          BY <1>1, <1>w, <4>1
        <4> QED BY <4>2 DEF z, u
      <3>3. t * w + w = (t + 1) * w
        BY <1>w
      <3>4. f < t + 1
        BY <1>w, <3>2, <3>3
      <3> QED BY <1>5, <3>4
    <2>5. a + w <= t * w
      BY <1>w, <2>4
    <2>6. a \in Nat /\ a + w < Len(new) /\ Len(old) <= a + w
      <3>1. t * w <= B /\ A < a + w
        BY <1>2 DEF Level
      <3> HIDE DEF a, A, B
      <3>2. a \in Nat
        BY <1>x DEF a
      <3> QED BY <1>1, <1>w, <1>x, <2>5, <3>1, <3>2
    <2> HIDE DEF a, h, k
    <2>7. NodeOf(old, a, 2 * w) = NodeOf(old, a, w)
      <3>1. w <= 2 * w
        BY <1>w
      <3> HIDE DEF A, B
      <3> QED BY <1>1, <1>w, <2>6, <3>1, NodePromoted
    <2>8. NodeOf(new, a, 2 * w) = node_hash(NodeOf(new, a, w), NodeOf(new, a + w, w))
      BY <2>6, NodeJoined
    <2>9. ASSUME x = NodeOf(old, a, 2 * w), node_hash(y, c) = NodeOf(new, a, 2 * w)
          PROVE  AgreeFrom(old, new, a)
      <3>1. node_hash(y, c) = node_hash(NodeOf(new, a, w), NodeOf(new, a + w, w))
        BY <2>8, <2>9
      <3>2. y = NodeOf(new, a, w)
        BY <3>1, NodeInjective
      <3>3. x = NodeOf(old, a, w)
        BY <2>7, <2>9
      <3> QED BY <1>2, <3>2, <3>3 DEF a
    <2> QED BY <1>w, <2>1, <2>2, <2>3, <2>9 DEF SoundAt
  <1> QED BY <1>4, <1>5

\* The digest the loop starts from is a node of both trees at the same place.
LEMMA StartSound ==
    ASSUME NEW S, NEW old \in Seq(S), NEW new \in Seq(S), 1 <= Len(old), Len(old) <= Len(new),
           NEW start, start = ShiftWhileOdd(Len(old) - 1, Len(new) - 1), NEW x
    PROVE  SoundAt(old, new, <<start[1], start[2], x, x>>)
  <1> DEFINE A == Len(old) - 1
             B == Len(new) - 1
  <1>1. A \in Nat /\ B \in Nat /\ Len(old) = A + 1 /\ Len(new) = B + 1 /\ A <= B
        /\ Len(old) \in Nat /\ Len(new) \in Nat
    OBVIOUS
  <1>2. LeftEdge(start, A, B)
    <2> HIDE DEF A, B
    <2>1. LeftEdge(ShiftWhileOdd(A, B), A, B)
      BY <1>1, ShiftOddEnds
    <2> QED BY <2>1 DEF A, B
  <1>3. PICK w \in Pow2, f \in Nat, t \in Nat :
            start = <<f, t>> /\ Level(f, t, w, A, B) /\ A + 1 = f * w + w
    BY <1>2 DEF LeftEdge
  <1>4. w \in Nat /\ w >= 1
    BY Pow2Doubles
  <1> DEFINE a == f * w
  <1>5. a \in Nat /\ Len(old) = a + w
    <2>1. a \in Nat
      BY <1>4
    <2>2. A + 1 = a + w
      BY <1>3
    <2> HIDE DEF a, A
    <2> QED BY <1>1, <2>1, <2>2
  <1>6. <<start[1], start[2], x, x>> = <<f, t, x, x>>
    BY <1>3
  <1> HIDE DEF a
  <1>7. ASSUME x = NodeOf(old, a, w), x = NodeOf(new, a, w) PROVE AgreeFrom(old, new, a)
    <2>1. w <= Len(old) - a /\ w <= Len(new) - a /\ a + w <= Len(old) /\ a + w <= Len(new)
      BY <1>1, <1>4, <1>5
    <2>2. mth(Slice(LeavesOf(old), a, w)) = mth(Slice(LeavesOf(new), a, w))
      BY <1>7, <2>1 DEF NodeOf
    <2>3. \A j \in (a + 1)..(a + w) : old[j] = new[j]
      BY <1>4, <1>5, <2>1, <2>2, MthInjective
    <2> QED BY <1>5, <2>3 DEF AgreeFrom
  <1> QED BY <1>3, <1>6, <1>7 DEF SoundAt, a

\* Every state of the loop is sound, as long as no node is left over.
LEMMA RunSound ==
    ASSUME NEW S, NEW old \in Seq(S), NEW new \in Seq(S), 1 <= Len(old), Len(old) <= Len(new),
           NEW nodes, Len(nodes) \in Nat, NEW start, start = ShiftWhileOdd(Len(old) - 1, Len(new) - 1),
           NEW i \in 1..Len(nodes)
    PROVE  RunOf(nodes, start)[i] = NoRoot \/ SoundAt(old, new, RunOf(nodes, start)[i])
  <1> DEFINE F == RunOf(nodes, start)
             P == {d \in Nat : d \in 1..Len(nodes) => F[d] = NoRoot \/ SoundAt(old, new, F[d])}
  <1>1. ASSUME NEW d \in Nat, \A e \in 0..(d - 1) : e \in P PROVE d \in P
    <2> SUFFICES ASSUME d \in 1..Len(nodes) PROVE F[d] = NoRoot \/ SoundAt(old, new, F[d])
      OBVIOUS
    <2>1. F[d] = IF d = 1 THEN <<start[1], start[2], nodes[1], nodes[1]>>
                 ELSE IF F[d - 1] = NoRoot \/ F[d - 1][2] = 0 THEN NoRoot
                 ELSE ConsistencyStep(F[d - 1], nodes[d])
      BY RunUnfolds
    <2>2. CASE d = 1
      <3>1. SoundAt(old, new, <<start[1], start[2], nodes[1], nodes[1]>>)
        BY StartSound
      <3> QED BY <2>1, <2>2, <3>1
    <2>3. CASE d # 1
      <3> HIDE DEF F
      <3>1. d - 1 \in 0..(d - 1) /\ d - 1 \in 1..Len(nodes)
        BY <2>3
      <3>2. F[d - 1] = NoRoot \/ SoundAt(old, new, F[d - 1])
        BY <1>1, <3>1
      <3>3. CASE F[d - 1] = NoRoot \/ F[d - 1][2] = 0
        BY <2>1, <2>3, <3>3
      <3>4. CASE ~(F[d - 1] = NoRoot \/ F[d - 1][2] = 0)
        <4>1. F[d] = ConsistencyStep(F[d - 1], nodes[d])
          BY <2>1, <2>3, <3>4
        <4>2. SoundAt(old, new, ConsistencyStep(F[d - 1], nodes[d]))
          BY <3>2, <3>4, StepSound
        <4> QED BY <4>1, <4>2
      <3> QED BY <3>3, <3>4
    <2> QED BY <2>2, <2>3
  <1>2. P = Nat
    <2>1. P \in SUBSET Nat
      OBVIOUS
    <2> HIDE DEF P
    <2> QED BY <1>1, <2>1, NatStrong
  <1> HIDE DEF F
  <1>3. i \in P
    BY <1>2
  <1> QED BY <1>3 DEF F

\* The tree of a history is its node at place 0, once the width covers it.
LEMMA RootIsNode ==
    ASSUME NEW S, NEW h \in Seq(S), NEW w \in Nat, Len(h) <= w
    PROVE  merkle_root(h) = NodeOf(h, 0, w) /\ merkle_root(h) = mth(Slice(LeavesOf(h), 0, Len(h)))
  <1> DEFINE L == LeavesOf(h)
             T == {leaf_hash(e) : e \in S}
  <1>1. L \in Seq(T) /\ Len(L) = Len(h) /\ Len(h) \in Nat
    BY LeavesTyped
  <1> HIDE DEF L, T
  <1>2. mth(L) = mth(Slice(L, 0, Len(h)))
    BY <1>1, MthWhole
  <1>3. (IF w <= Len(h) - 0 THEN w ELSE Len(h) - 0) = Len(h)
    BY <1>1
  <1>4. NodeOf(h, 0, w) = mth(Slice(L, 0, Len(h)))
    BY <1>3 DEF NodeOf, L
  <1> QED BY <1>2, <1>4 DEF merkle_root, L

\* The four ways through verify_consistency.
LEMMA VerifyCases ==
    ASSUME NEW a, NEW b, NEW i \in Int, NEW n \in Int, NEW proof
    PROVE  /\ i < 0 \/ n < 0 \/ i > n => ~verify_consistency(a, b, i, n, proof)
           /\ 0 = i /\ i <= n => (verify_consistency(a, b, i, n, proof) <=> proof = << >>)
           /\ 0 < i /\ i = n => (verify_consistency(a, b, i, n, proof) <=> proof = << >> /\ a = b)
           /\ 0 < i /\ i < n =>
                 (verify_consistency(a, b, i, n, proof) <=>
                     /\ (IF IsPow2(i) THEN <<a>> \o proof ELSE proof) # << >>
                     /\ ConsistencyLoop(IF IsPow2(i) THEN <<a>> \o proof ELSE proof, i, n) # NoRoot
                     /\ ConsistencyRootsOK(
                            ConsistencyLoop(IF IsPow2(i) THEN <<a>> \o proof ELSE proof, i, n), a, b))
  <1> DEFINE nodes == IF IsPow2(i) THEN <<a>> \o proof ELSE proof
             final == ConsistencyLoop(nodes, i, n)
             Out == nodes # << >> /\ final # NoRoot /\ ConsistencyRootsOK(final, a, b)
  <1>1. verify_consistency(a, b, i, n, proof) <=>
            CASE i < 0 \/ n < 0 \/ i > n -> FALSE
              [] i = 0 /\ n >= 0 -> proof = << >>
              [] i = n /\ i > 0 -> proof = << >> /\ a = b
              [] OTHER -> Out
    BY Zenon DEF verify_consistency
  <1> HIDE DEF Out
  <1>2. i < 0 \/ n < 0 \/ i > n => ~verify_consistency(a, b, i, n, proof)
    BY <1>1
  <1>3. 0 = i /\ i <= n => (verify_consistency(a, b, i, n, proof) <=> proof = << >>)
    BY <1>1
  <1>4. 0 < i /\ i = n => (verify_consistency(a, b, i, n, proof) <=> proof = << >> /\ a = b)
    BY <1>1
  <1>5. 0 < i /\ i < n => (verify_consistency(a, b, i, n, proof) <=> Out)
    BY <1>1
  <1> QED BY <1>2, <1>3, <1>4, <1>5 DEF Out

(* Soundness of verify_consistency: for every two histories and every proof, a
   proof that verifies between their roots and sizes shows that the first is a
   prefix of the second. *)
THEOREM ConsistencyProofsAreSound ==
    ASSUME NEW S, NEW old \in Seq(S), NEW new \in Seq(S), NEW X, NEW proof \in Seq(X),
           verify_consistency(merkle_root(old), merkle_root(new), Len(old), Len(new), proof)
    PROVE  Len(old) <= Len(new) /\ \A j \in 1..Len(old) : old[j] = new[j]
  <1> DEFINE a == merkle_root(old)
             b == merkle_root(new)
             i == Len(old)
             n == Len(new)
             Agree == \A j \in 1..Len(old) : old[j] = new[j]
  <1>1. i \in Nat /\ n \in Nat
    OBVIOUS
  <1>v. verify_consistency(a, b, i, n, proof)
    OBVIOUS
  <1>2. i <= n
    <2> HIDE DEF a, b, i, n
    <2>1. i \in Int /\ n \in Int
      BY <1>1
    <2>2. i < 0 \/ n < 0 \/ i > n => ~verify_consistency(a, b, i, n, proof)
      BY <2>1, VerifyCases
    <2> QED BY <1>1, <1>v, <2>2
  <1>3. CASE i = 0
    BY <1>2, <1>3
  <1>4. CASE i # 0 /\ i = n
    <2>1. a = b
      <3> HIDE DEF a, b, i, n
      <3>1. i \in Int /\ n \in Int /\ 0 < i
        BY <1>1, <1>4
      <3>2. 0 < i /\ i = n => (verify_consistency(a, b, i, n, proof) <=> proof = << >> /\ a = b)
        BY <3>1, VerifyCases
      <3> QED BY <1>v, <1>4, <3>1, <3>2
    <2>2. a = mth(Slice(LeavesOf(old), 0, i)) /\ b = mth(Slice(LeavesOf(new), 0, n))
      BY <1>1, RootIsNode
    <2>3. \A j \in (0 + 1)..(0 + i) : old[j] = new[j]
      <3> DEFINE z == 0
      <3>1. z \in Nat /\ i \in Nat /\ z + i <= Len(old) /\ z + i <= Len(new)
        BY <1>1, <1>4
      <3>2. mth(Slice(LeavesOf(old), z, i)) = mth(Slice(LeavesOf(new), z, i))
        BY <1>4, <2>1, <2>2
      <3> HIDE DEF z, i, a, b
      <3>3. \A j \in (z + 1)..(z + i) : old[j] = new[j]
        BY <3>1, <3>2, MthInjective
      <3> QED BY <3>3 DEF z
    <2> QED BY <1>1, <1>2, <2>3
  <1>5. CASE i # 0 /\ i # n
    <2> DEFINE nodes == IF IsPow2(i) THEN <<a>> \o proof ELSE proof
               start == ShiftWhileOdd(i - 1, n - 1)
               final == RunOf(nodes, start)[Len(nodes)]
    <2>1. nodes # << >> /\ final # NoRoot /\ ConsistencyRootsOK(final, a, b)
      <3>1. ConsistencyLoop(nodes, i, n) = final
        BY LoopIsRun
      <3>2. nodes # << >> /\ ConsistencyLoop(nodes, i, n) # NoRoot /\ ConsistencyRootsOK(ConsistencyLoop(nodes, i, n), a, b)
        <4>1. 0 < i /\ i < n /\ i \in Int /\ n \in Int
          <5> HIDE DEF i, n
          <5> QED BY <1>1, <1>2, <1>5
        <4> HIDE DEF a, b, i, n
        <4> QED BY <1>v, <4>1, VerifyCases
      <3> HIDE DEF nodes, final
      <3> QED BY <3>1, <3>2
    <2>2. Len(nodes) \in Nat /\ Len(nodes) \in 1..Len(nodes)
      <3> DEFINE Y == X \cup {a}
      <3>1. proof \in Seq(Y) /\ <<a>> \in Seq(Y)
        BY SeqDef
      <3>2. <<a>> \o proof \in Seq(Y)
        <4> HIDE DEF Y
        <4> QED BY <3>1, ConcatProperties
      <3>3. nodes \in Seq(Y)
        <4> HIDE DEF Y, a, i
        <4> QED BY <3>1, <3>2
      <3> HIDE DEF nodes, Y
      <3> QED BY <2>1, <3>3, EmptySeq
    <2>3. SoundAt(old, new, final)
      <3>1. 1 <= Len(old) /\ Len(old) <= Len(new)
        BY <1>1, <1>2, <1>5
      <3>2. start = ShiftWhileOdd(Len(old) - 1, Len(new) - 1)
        OBVIOUS
      <3> HIDE DEF nodes, start
      <3>3. final = NoRoot \/ SoundAt(old, new, final)
        BY <2>2, <3>1, <3>2, RunSound
      <3> QED BY <2>1, <3>3
    <2> HIDE DEF nodes, start, final
    <2>p. PICK w \in Pow2, f \in Nat, t \in Nat : \E x, y :
              /\ final = <<f, t, x, y>>
              /\ Level(f, t, w, i - 1, n - 1)
              /\ x = NodeOf(old, f * w, w) /\ y = NodeOf(new, f * w, w) => AgreeFrom(old, new, f * w)
      BY <2>3 DEF SoundAt
    <2>4. PICK x, y :
              /\ final = <<f, t, x, y>>
              /\ Level(f, t, w, i - 1, n - 1)
              /\ x = NodeOf(old, f * w, w) /\ y = NodeOf(new, f * w, w) => AgreeFrom(old, new, f * w)
      BY <2>p
    <2>5. t = 0 /\ x = a /\ y = b
      <3>1. final[2] = 0 /\ final[3] = a /\ final[4] = b
        BY <2>1 DEF ConsistencyRootsOK
      <3> HIDE DEF a, b
      <3> QED BY <2>4, <3>1
    <2>6. w \in Nat /\ w >= 1
      BY Pow2Doubles
    <2>7. f * w = 0 /\ i <= w /\ n <= w
      <3> HIDE DEF a, b, i, n
      <3>1. f * w <= i - 1 /\ n - 1 < 0 * w + w
        BY <2>4, <2>5 DEF Level
      <3>2. 0 * w = 0
        BY <2>6
      <3>3. n <= w /\ i <= w
        BY <1>1, <1>2, <2>6, <3>1, <3>2
      <3>4. f * w < 1 * w
        BY <1>1, <2>6, <3>1, <3>3
      <3>5. f = 0
        BY <2>6, <3>4
      <3> QED BY <3>2, <3>3, <3>5
    <2>8. a = NodeOf(old, 0, w) /\ b = NodeOf(new, 0, w)
      BY <2>6, <2>7, RootIsNode
    <2>9. AgreeFrom(old, new, 0)
      <3> HIDE DEF a, b, i, n
      <3> QED BY <2>4, <2>5, <2>7, <2>8
    <2> QED BY <1>2, <2>9 DEF AgreeFrom
  <1> QED BY <1>3, <1>4, <1>5

-----------------------------------------------------------------------------
(* The proof that consistency_proof makes.                                 *)

SubproofCalls(leaves) == {q \in Nat \X Nat \X (1..Len(leaves)) \X BOOLEAN : q[1] \in 1..q[3]}

SubproofOf(leaves) ==
    CHOOSE f : f = [p \in {q \in Nat \X Nat \X (1..Len(leaves)) \X BOOLEAN : q[1] \in 1..q[3]} |->
        IF p[1] = p[3] THEN IF p[4] THEN << >> ELSE <<mth(SubSeq(leaves, p[2] + 1, p[2] + p[3]))>>
        ELSE IF p[1] <= largest_pow2_below(p[3])
        THEN Append(f[<<p[1], p[2], largest_pow2_below(p[3]), p[4]>>],
                    mth(SubSeq(leaves, p[2] + largest_pow2_below(p[3]) + 1, p[2] + p[3])))
        ELSE Append(f[<<p[1] - largest_pow2_below(p[3]), p[2] + largest_pow2_below(p[3]),
                        p[3] - largest_pow2_below(p[3]), FALSE>>],
                    mth(SubSeq(leaves, p[2] + 1, p[2] + largest_pow2_below(p[3]))))]

\* _subproof is that recursion, from the whole range.
LEMMA SubproofIs ==
    ASSUME NEW i, NEW leaves, NEW b
    PROVE  subproof(i, leaves, b) = SubproofOf(leaves)[<<i, 0, Len(leaves), b>>]
  BY Zenon DEF subproof, SubproofOf

\* A call with fewer old leaves than leaves splits, and its child is a call too.
LEMMA SubproofDescends ==
    ASSUME NEW leaves, Len(leaves) \in Nat, NEW i \in Nat, NEW lo \in Nat, NEW n \in 1..Len(leaves),
           NEW b \in BOOLEAN, i \in 1..n, i # n
    PROVE  /\ largest_pow2_below(n) \in 1..(n - 1)
           /\ i <= largest_pow2_below(n) => <<i, lo, largest_pow2_below(n), b>> \in SubproofCalls(leaves)
           /\ ~(i <= largest_pow2_below(n)) =>
                 <<i - largest_pow2_below(n), lo + largest_pow2_below(n),
                   n - largest_pow2_below(n), FALSE>> \in SubproofCalls(leaves)
  <1> DEFINE k == largest_pow2_below(n)
  <1>1. n \in Nat /\ n > 1
    OBVIOUS
  <1>2. k \in 1..(n - 1)
    BY <1>1, PowBelow
  <1> HIDE DEF k
  <1>3. k \in 1..Len(leaves)
    BY <1>2
  <1>4. ASSUME i <= k PROVE <<i, lo, k, b>> \in SubproofCalls(leaves)
    <2>1. <<i, lo, k, b>> \in Nat \X Nat \X (1..Len(leaves)) \X BOOLEAN
      BY <1>3
    <2>2. i \in 1..k
      BY <1>2, <1>4
    <2> QED BY <2>1, <2>2 DEF SubproofCalls
  <1>5. ASSUME ~(i <= k) PROVE <<i - k, lo + k, n - k, FALSE>> \in SubproofCalls(leaves)
    <2>1. i - k \in Nat /\ lo + k \in Nat /\ n - k \in 1..Len(leaves) /\ i - k \in 1..(n - k)
      BY <1>2, <1>5
    <2> QED BY <2>1 DEF SubproofCalls
  <1> QED BY <1>2, <1>4, <1>5 DEF k

\* The equation of one call of _subproof.
SubproofAt(leaves, i, lo, n, b) ==
    SubproofOf(leaves)[<<i, lo, n, b>>] =
        IF i = n THEN IF b THEN << >> ELSE <<mth(SubSeq(leaves, lo + 1, lo + n))>>
        ELSE IF i <= largest_pow2_below(n)
        THEN Append(SubproofOf(leaves)[<<i, lo, largest_pow2_below(n), b>>],
                    mth(SubSeq(leaves, lo + largest_pow2_below(n) + 1, lo + n)))
        ELSE Append(SubproofOf(leaves)[<<i - largest_pow2_below(n), lo + largest_pow2_below(n),
                                         n - largest_pow2_below(n), FALSE>>],
                    mth(SubSeq(leaves, lo + 1, lo + largest_pow2_below(n))))

\* The body of the recursion of _subproof.
LEMMA SubproofUnfolds ==
    ASSUME NEW leaves, Len(leaves) \in Nat, NEW i \in Nat, NEW lo \in Nat, NEW n \in 1..Len(leaves),
           NEW b \in BOOLEAN, i \in 1..n
    PROVE  SubproofAt(leaves, i, lo, n, b)
  <1> DEFINE D == SubproofCalls(leaves)
             Body(f, p) ==
        IF p[1] = p[3] THEN IF p[4] THEN << >> ELSE <<mth(SubSeq(leaves, p[2] + 1, p[2] + p[3]))>>
        ELSE IF p[1] <= largest_pow2_below(p[3])
        THEN Append(f[<<p[1], p[2], largest_pow2_below(p[3]), p[4]>>],
                    mth(SubSeq(leaves, p[2] + largest_pow2_below(p[3]) + 1, p[2] + p[3])))
        ELSE Append(f[<<p[1] - largest_pow2_below(p[3]), p[2] + largest_pow2_below(p[3]),
                        p[3] - largest_pow2_below(p[3]), FALSE>>],
                    mth(SubSeq(leaves, p[2] + 1, p[2] + largest_pow2_below(p[3]))))
  <1>1. Calls("subproof", leaves) = D /\ \A p \in D : Rank("subproof", leaves, p) = p[3]
    BY DEF Calls, Rank, SubproofCalls
  <1>2. \A f : \A p \in D : Turn("subproof", leaves, f, p) = Body(f, p)
    <2>1. \A f, p : Turn("subproof", leaves, f, p) = ConsistencyTurn("subproof", leaves, f, p)
      BY ZenonT(60) DEF Turn, ConsistencyLoops
    <2>2. \A f, p : ConsistencyTurn("subproof", leaves, f, p) = SubproofTurn(leaves, f, p)
      BY ZenonT(60) DEF ConsistencyTurn
    <2>3. \A f, p : SubproofTurn(leaves, f, p) = Body(f, p)
      BY ZenonT(60) DEF SubproofTurn
    <2> HIDE DEF D, Body
    <2> QED BY <2>1, <2>2, <2>3
  <1>d. ASSUME NEW p \in D
        PROVE  /\ p[1] \in Nat /\ p[2] \in Nat /\ p[3] \in 1..Len(leaves) /\ p[4] \in BOOLEAN
               /\ p[1] \in 1..p[3] /\ p = <<p[1], p[2], p[3], p[4]>>
    BY DEF SubproofCalls
  <1>3. Local("subproof", leaves)
    <2> HIDE DEF Body, D
    <2> SUFFICES ASSUME NEW f, NEW g, NEW p \in D, \A c \in D : c[3] < p[3] => f[c] = g[c]
                 PROVE  Body(f, p) = Body(g, p)
      BY <1>1, <1>2 DEF Local
    <2>1. CASE p[1] = p[3]
      BY <2>1 DEF Body
    <2>2. CASE p[1] # p[3]
      <3> DEFINE k == largest_pow2_below(p[3])
                 c1 == <<p[1], p[2], k, p[4]>>
                 c2 == <<p[1] - k, p[2] + k, p[3] - k, FALSE>>
                 right == mth(SubSeq(leaves, p[2] + k + 1, p[2] + p[3]))
                 left == mth(SubSeq(leaves, p[2] + 1, p[2] + k))
      <3>1. /\ p[1] \in Nat /\ p[2] \in Nat /\ p[3] \in 1..Len(leaves) /\ p[4] \in BOOLEAN
            /\ p[1] \in 1..p[3]
        BY <1>d
      <3>2. /\ k \in 1..(p[3] - 1)
            /\ p[1] <= k => c1 \in D
            /\ ~(p[1] <= k) => c2 \in D
        BY <2>2, <3>1, SubproofDescends DEF D
      <3>3. \A e : Body(e, p) = IF p[1] <= k THEN Append(e[c1], right) ELSE Append(e[c2], left)
        BY <2>2 DEF Body
      <3>4. c1[3] = k /\ c2[3] = p[3] - k
        OBVIOUS
      <3> HIDE DEF k, left, right, c1, c2
      <3>5. k < p[3] /\ p[3] - k < p[3]
        BY <3>1, <3>2
      <3>6. CASE p[1] <= k
        <4>1. f[c1] = g[c1]
          BY <3>2, <3>4, <3>5, <3>6
        <4> QED BY <3>3, <3>6, <4>1
      <3>7. CASE ~(p[1] <= k)
        <4>1. f[c2] = g[c2]
          BY <3>2, <3>4, <3>5, <3>7
        <4> QED BY <3>3, <3>7, <4>1
      <3> QED BY <3>6, <3>7
    <2> QED BY <2>1, <2>2
  <1>4. \E f : f = [p \in D |-> Body(f, p)]
    <2>1. \A p \in Calls("subproof", leaves) : Rank("subproof", leaves, p) \in 0..Len(leaves)
      <3> HIDE DEF D
      <3> QED BY <1>1, <1>d
    <2>2. PICK f : f = [p \in Calls("subproof", leaves) |-> Turn("subproof", leaves, f, p)]
      BY <1>3, <2>1, Recursion
    <2> HIDE DEF Body, D
    <2>3. f = [p \in D |-> Body(f, p)]
      BY <1>1, <1>2, <2>2
    <2> QED BY <2>3
  <1>5. SubproofOf(leaves) = [p \in D |-> Body(SubproofOf(leaves), p)]
    BY <1>4, Zenon DEF SubproofOf, SubproofCalls
  <1> DEFINE F == SubproofOf(leaves)
             p0 == <<i, lo, n, b>>
  <1>7. p0 \in D
    <2>1. p0 \in Nat \X Nat \X (1..Len(leaves)) \X BOOLEAN
      OBVIOUS
    <2> QED BY <2>1 DEF SubproofCalls
  <1>9. p0[1] = i /\ p0[2] = lo /\ p0[3] = n /\ p0[4] = b
    OBVIOUS
  <1> HIDE DEF D, Body, F, p0
  <1>6. \A p \in D : F[p] = Body(F, p)
    BY <1>5, Zenon DEF F
  <1>8. F[p0] = Body(F, p0)
    BY <1>6, <1>7
  <1>10. F[p0] =
        IF i = n THEN IF b THEN << >> ELSE <<mth(SubSeq(leaves, lo + 1, lo + n))>>
        ELSE IF i <= largest_pow2_below(n)
        THEN Append(F[<<i, lo, largest_pow2_below(n), b>>],
                    mth(SubSeq(leaves, lo + largest_pow2_below(n) + 1, lo + n)))
        ELSE Append(F[<<i - largest_pow2_below(n), lo + largest_pow2_below(n),
                        n - largest_pow2_below(n), FALSE>>],
                    mth(SubSeq(leaves, lo + 1, lo + largest_pow2_below(n))))
    BY <1>8, <1>9, Zenon DEF Body
  <1> QED BY <1>10 DEF F, p0, SubproofAt

-----------------------------------------------------------------------------
(* The nodes the verifier runs over, one more at a time.                   *)

\* The digest of s entries of the history from lo.
Part(h, lo, s) == mth(Slice(LeavesOf(h), lo, s))

\* The nodes verify_consistency makes of a proof, the old root first where it was left out.
NodesFor(h, i, proof) == IF IsPow2(i) THEN <<Part(h, 0, i)>> \o proof ELSE proof

\* The state in which its loop leaves them.
FinalOf(h, i, proof) ==
    RunOf(NodesFor(h, i, proof), ShiftWhileOdd(i - 1, Len(h) - 1))[Len(NodesFor(h, i, proof))]

\* One more node does not change the states before it.
LEMMA RunAgrees ==
    ASSUME NEW X, NEW nodes \in Seq(X), NEW c \in X, NEW start, NEW i \in 1..Len(nodes)
    PROVE  RunOf(Append(nodes, c), start)[i] = RunOf(nodes, start)[i]
  <1> DEFINE more == Append(nodes, c)
             F == RunOf(nodes, start)
             G == RunOf(more, start)
             P == {d \in Nat : d \in 1..Len(nodes) => G[d] = F[d]}
  <1>1. Len(nodes) \in Nat /\ Len(more) = Len(nodes) + 1 /\ \A d \in 1..Len(nodes) : more[d] = nodes[d]
    BY Longer
  <1>2. Len(more) \in Nat
    BY <1>1
  <1> HIDE DEF more
  <1>3. ASSUME NEW d \in Nat, \A e \in 0..(d - 1) : e \in P PROVE d \in P
    <2> SUFFICES ASSUME d \in 1..Len(nodes) PROVE G[d] = F[d]
      OBVIOUS
    <2>1. F[d] = IF d = 1 THEN <<start[1], start[2], nodes[1], nodes[1]>>
                 ELSE IF F[d - 1] = NoRoot \/ F[d - 1][2] = 0 THEN NoRoot
                 ELSE ConsistencyStep(F[d - 1], nodes[d])
      BY <1>1, RunUnfolds
    <2>2. G[d] = IF d = 1 THEN <<start[1], start[2], more[1], more[1]>>
                 ELSE IF G[d - 1] = NoRoot \/ G[d - 1][2] = 0 THEN NoRoot
                 ELSE ConsistencyStep(G[d - 1], more[d])
      <3>1. d \in 1..Len(more)
        BY <1>1
      <3> QED BY <1>2, <3>1, RunUnfolds
    <2> HIDE DEF F, G
    <2>3. more[d] = nodes[d]
      BY <1>1
    <2>4. CASE d = 1
      BY <2>1, <2>2, <2>3, <2>4
    <2>5. CASE d # 1
      <3>1. d - 1 \in 0..(d - 1) /\ d - 1 \in 1..Len(nodes)
        BY <2>5
      <3>2. G[d - 1] = F[d - 1]
        BY <1>3, <3>1
      <3> QED BY <2>1, <2>2, <2>3, <2>5, <3>2
    <2> QED BY <2>4, <2>5
  <1>4. P = Nat
    <2>1. P \in SUBSET Nat
      OBVIOUS
    <2> HIDE DEF P
    <2> QED BY <1>3, <2>1, NatStrong
  <1> HIDE DEF F, G
  <1>5. i \in P
    BY <1>4
  <1> QED BY <1>5 DEF F, G, more

\* One more node of the proof is one more turn of the loop.
LEMMA FinalAppend ==
    ASSUME NEW h, NEW i, NEW X, NEW proof \in Seq(X), NEW c \in X, Part(h, 0, i) \in X,
           NodesFor(h, i, proof) # << >>,
           NEW f, NEW t, NEW x, NEW y, FinalOf(h, i, proof) = <<f, t, x, y>>, t # 0
    PROVE  /\ FinalOf(h, i, Append(proof, c)) = ConsistencyStep(<<f, t, x, y>>, c)
           /\ NodesFor(h, i, Append(proof, c)) # << >>
  <1> DEFINE nodes == NodesFor(h, i, proof)
             start == ShiftWhileOdd(i - 1, Len(h) - 1)
             r == Part(h, 0, i)
  <1>1. nodes \in Seq(X) /\ NodesFor(h, i, Append(proof, c)) = Append(nodes, c)
    <2>1. CASE IsPow2(i)
      <3>1. <<r>> \in Seq(X) /\ <<c>> \in Seq(X)
        BY SeqDef
      <3> HIDE DEF r
      <3>2. <<r>> \o proof \in Seq(X)
        BY <3>1, ConcatProperties
      <3>3. Append(proof, c) = proof \o <<c>> /\ Append(<<r>> \o proof, c) = (<<r>> \o proof) \o <<c>>
        BY <3>2, AppendIsConcat
      <3>4. (<<r>> \o proof) \o <<c>> = <<r>> \o (proof \o <<c>>)
        BY <3>1, ConcatAssociative
      <3>5. nodes = <<r>> \o proof /\ NodesFor(h, i, Append(proof, c)) = <<r>> \o Append(proof, c)
        BY <2>1 DEF NodesFor, r
      <3> HIDE DEF nodes
      <3> QED BY <3>2, <3>3, <3>4, <3>5
    <2>2. CASE ~IsPow2(i)
      BY <2>2 DEF NodesFor
    <2> QED BY <2>1, <2>2
  <1> DEFINE more == Append(nodes, c)
             N == Len(nodes)
  <1>e. nodes # << >>
    OBVIOUS
  <1>f. FinalOf(h, i, proof) = RunOf(nodes, start)[N]
    BY DEF FinalOf
  <1>g. FinalOf(h, i, Append(proof, c)) = RunOf(more, start)[Len(more)]
    BY <1>1 DEF FinalOf
  <1> HIDE DEF nodes, start
  <1>2. N \in Nat /\ N >= 1
    BY <1>1, <1>e
  <1>3. Len(more) = N + 1 /\ more[N + 1] = c
    BY <1>1, Longer
  <1>4. RunOf(more, start)[N] = <<f, t, x, y>>
    <2>1. RunOf(more, start)[N] = RunOf(nodes, start)[N]
      <3>1. N \in 1..Len(nodes)
        BY <1>2
      <3> QED BY <1>1, <3>1, RunAgrees
    <2> QED BY <1>f, <2>1
  <1> DEFINE F == RunOf(more, start)
             j == N + 1
  <1>5. F[j] = IF j = 1 THEN <<start[1], start[2], more[1], more[1]>>
               ELSE IF F[j - 1] = NoRoot \/ F[j - 1][2] = 0 THEN NoRoot
               ELSE ConsistencyStep(F[j - 1], more[j])
    <2>1. Len(more) \in Nat /\ j \in 1..Len(more)
      BY <1>2, <1>3
    <2> HIDE DEF j, more
    <2> QED BY <2>1, RunUnfolds
  <1>6. j # 1 /\ j - 1 = N
    BY <1>2
  <1>7. <<f, t, x, y>> # NoRoot /\ <<f, t, x, y>>[2] = t
    BY DEF NoRoot
  <1> HIDE DEF F, j, more, N
  <1>8. F[j] = ConsistencyStep(<<f, t, x, y>>, c)
    BY <1>3, <1>4, <1>5, <1>6, <1>7 DEF F, j
  <1>9. more # << >>
    BY <1>2, <1>3
  <1> QED BY <1>1, <1>3, <1>8, <1>9, <1>g DEF F, j, more

-----------------------------------------------------------------------------
(* The verifier retraces the recursion of _subproof.                       *)

\* A call of _subproof over s leaves from lo, j of them old, on the way to the
\* old size i: the range is the node q of its level.
SubproofCall(h, i, lo, s, j, b, q) ==
    /\ lo \in Nat /\ s \in Nat /\ j \in 1..s /\ b \in BOOLEAN /\ q \in Nat
    /\ lo + s <= Len(h) /\ i = lo + j /\ lo = q * Span(s)
    /\ s \in Pow2 \/ lo + s = Len(h)
    /\ b => lo = 0
    /\ ~b => i \notin Pow2
    /\ j = s => ~Odd(q)

\* The loop over the nodes of that call ends at the call's own node of both trees.
Retraced(h, X, i, proof, lo, s, j, q) ==
    /\ proof \in Seq(X)
    /\ NodesFor(h, i, proof) # << >>
    /\ \E t \in Nat : /\ FinalOf(h, i, proof) = <<q, t, Part(h, lo, j), Part(h, lo, s)>>
                      /\ Level(q, t, Span(s), i - 1, Len(h) - 1)

\* Parity of the indices of two siblings, and the places they stand for.
LEMMA Siblings ==
    ASSUME NEW q \in Nat
    PROVE  /\ ~Odd(2 * q) /\ Odd(2 * q + 1) /\ 2 * q \in Nat /\ 2 * q + 1 \in Nat
           /\ (2 * q) \div 2 = q /\ (2 * q + 1) \div 2 = q
           /\ ~Odd(q) => Odd(q + 1)
           /\ \A k \in Nat : q * (2 * k) = (2 * q) * k /\ (2 * q + 1) * k = (2 * q) * k + k
  <1>1. (2 * q) % 2 = 0 /\ (2 * q + 1) % 2 = 1 /\ (2 * q) \div 2 = q /\ (2 * q + 1) \div 2 = q
    OBVIOUS
  <1>2. q % 2 # 1 => (q + 1) % 2 = 1
    OBVIOUS
  <1>3. \A k \in Nat : q * (2 * k) = (2 * q) * k /\ (2 * q + 1) * k = (2 * q) * k + k
    OBVIOUS
  <1> QED BY <1>1, <1>2, <1>3 DEF Odd

\* The call that ends the recursion is the node the first loop stops at.
LEMMA RetracedEnd ==
    ASSUME NEW S, NEW h \in Seq(S), NEW X, Digests(h, X), NEW i \in Nat, 1 <= i, i < Len(h),
           NEW lo, NEW s, NEW b, NEW q, SubproofCall(h, i, lo, s, s, b, q)
    PROVE  Retraced(h, X, i, IF b THEN << >> ELSE <<Part(h, lo, s)>>, lo, s, s, q)
  <1> DEFINE n == Len(h)
             x == Part(h, lo, s)
             proof == IF b THEN << >> ELSE <<x>>
             A == i - 1
             B == n - 1
             start == ShiftWhileOdd(A, B)
  <1>1. /\ n \in Nat /\ lo \in Nat /\ s \in Nat /\ s >= 1 /\ q \in Nat /\ b \in BOOLEAN
        /\ i = lo + s /\ lo = q * Span(s) /\ ~Odd(q) /\ s \in Pow2
    <2>1. /\ n \in Nat /\ lo \in Nat /\ s \in Nat /\ s \in 1..s /\ q \in Nat /\ b \in BOOLEAN
          /\ i = lo + s /\ lo = q * Span(s) /\ ~Odd(q) /\ (s \in Pow2 \/ lo + s = n)
      BY DEF SubproofCall
    <2>2. s >= 1 /\ lo + s # n
      BY <2>1
    <2> QED BY <2>1, <2>2
  <1>2. Span(s) = s
    BY <1>1, SpanUnique
  <1>3. x \in X /\ proof \in Seq(X)
    <2>1. x \in X
      BY <1>1 DEF Part, Slice, Digests
    <2>2. <<x>> \in Seq(X) /\ << >> \in Seq(X)
      BY <2>1, SeqDef
    <2> HIDE DEF x
    <2> QED BY <2>1, <2>2
  <1>4. NodesFor(h, i, proof) = <<x>>
    <2>0. IsPow2(i) <=> i \in Pow2
      BY IsPow2Is
    <2>1. CASE b
      <3>1. lo = 0 /\ i = s /\ proof = << >>
        BY <1>1, <2>1 DEF SubproofCall
      <3>2. IsPow2(i)
        BY <1>1, <2>0, <3>1
      <3>3. NodesFor(h, i, proof) = <<x>> \o << >>
        BY <3>1, <3>2 DEF NodesFor
      <3>4. <<x>> \in Seq(X)
        BY <1>3, SeqDef
      <3> HIDE DEF x
      <3>5. <<x>> \o << >> = <<x>>
        BY <3>4, ConcatEmptySeq
      <3> QED BY <3>3, <3>5
    <2>2. CASE ~b
      <3>1. ~IsPow2(i) /\ proof = <<x>>
        BY <2>0, <2>2 DEF SubproofCall
      <3> QED BY <3>1 DEF NodesFor
    <2> QED BY <1>1, <2>1, <2>2
  <1>5. Len(<<x>>) = 1 /\ <<x>>[1] = x /\ <<x>> # << >>
    OBVIOUS
  <1>6. FinalOf(h, i, proof) = <<start[1], start[2], x, x>>
    <2>1. FinalOf(h, i, proof) = RunOf(<<x>>, start)[1]
      BY <1>4, <1>5 DEF FinalOf
    <2> DEFINE z == <<x>>
               o == 1
    <2>2. Len(z) \in Nat /\ o \in 1..Len(z) /\ z[1] = x /\ o = 1
      OBVIOUS
    <2> HIDE DEF z, start, x, o
    <2>3. RunOf(z, start)[o] = <<start[1], start[2], z[1], z[1]>>
      BY <2>2, RunUnfolds
    <2> QED BY <2>1, <2>2, <2>3 DEF z, o
  <1>7. A \in Nat /\ B \in Nat /\ A + 1 = i
    BY <1>1
  <1>8. PICK w \in Pow2, f \in Nat, t \in Nat :
            start = <<f, t>> /\ Level(f, t, w, A, B) /\ ~Odd(f) /\ A + 1 = f * w + w
    <2> HIDE DEF A, B
    <2>1. LeftEdge(start, A, B)
      BY <1>7, ShiftOddEnds
    <2> QED BY <2>1 DEF LeftEdge
  <1>9. w = s /\ f = q
    <2>1. w \in Nat /\ w >= 1
      BY Pow2Doubles
    <2>2. f * w + w = (f + 1) * w /\ q * s + s = (q + 1) * s
      BY <1>1, <2>1
    <2>3. f * w + w = q * s + s
      BY <1>1, <1>2, <1>7, <1>8
    <2>4. Odd(f + 1) /\ Odd(q + 1) /\ f + 1 \in Nat /\ q + 1 \in Nat
      BY <1>1, <1>8, Siblings
    <2>5. (f + 1) * w = (q + 1) * s
      BY <2>2, <2>3
    <2> DEFINE f1 == f + 1
               q1 == q + 1
    <2>6. f1 = q1 => f = q
      BY <1>1
    <2> HIDE DEF f1, q1
    <2>7. w = s /\ f1 = q1
      <3>1. Odd(f1) /\ Odd(q1) /\ f1 \in Nat /\ q1 \in Nat /\ f1 * w = q1 * s
        BY <2>4, <2>5 DEF f1, q1
      <3> QED BY <1>1, <3>1, OddPart
    <2> QED BY <2>6, <2>7
  <1>10. FinalOf(h, i, proof) = <<q, t, x, x>>
    BY <1>6, <1>8, <1>9
  <1>11. Level(q, t, Span(s), A, B)
    BY <1>2, <1>8, <1>9
  <1> HIDE DEF x, proof
  <1>12. Retraced(h, X, i, proof, lo, s, s, q)
    BY <1>3, <1>4, <1>5, <1>10, <1>11 DEF Retraced, x
  <1> QED BY <1>12 DEF proof, x

\* The two halves of a part of the history.
LEMMA PartSplits ==
    ASSUME NEW S, NEW h \in Seq(S), NEW lo \in Nat, NEW s \in Nat, lo + s <= Len(h),
           NEW k \in Pow2, k < s, s <= 2 * k
    PROVE  Part(h, lo, s) = node_hash(Part(h, lo, k), Part(h, lo + k, s - k))
  <1> DEFINE L == LeavesOf(h)
             T == {leaf_hash(e) : e \in S}
  <1>1. L \in Seq(T) /\ Len(L) = Len(h)
    BY LeavesTyped
  <1>2. k \in Nat /\ k >= 1
    BY Pow2Doubles
  <1>3. s > 1
    BY <1>2
  <1>4. largest_pow2_below(s) = k
    BY SplitIs
  <1> HIDE DEF L, T
  <1>5. mth(Slice(L, lo, s)) = node_hash(mth(Slice(L, lo, k)), mth(Slice(L, lo + k, s - k)))
    BY <1>1, <1>3, <1>4, MthNode
  <1> QED BY <1>5 DEF Part, L

\* What a call that splits looks like.
LEMMA SubproofSplits ==
    ASSUME NEW S, NEW h \in Seq(S), NEW i, NEW lo, NEW s, NEW j, NEW b, NEW q,
           SubproofCall(h, i, lo, s, j, b, q), j # s, NEW k, k = largest_pow2_below(s)
    PROVE  /\ lo = q * (2 * k) /\ lo = (2 * q) * k /\ lo + k = (2 * q + 1) * k
           /\ Span(s) = 2 * k
           /\ k \in Pow2 /\ k \in Nat /\ k >= 1 /\ k < s /\ s <= 2 * k /\ s > 1
           /\ lo \in Nat /\ s \in Nat /\ j \in Nat /\ 1 <= j /\ j < s /\ q \in Nat
           /\ lo + s <= Len(h) /\ i = lo + j /\ Len(h) \in Nat
  <1>1. /\ lo \in Nat /\ s \in Nat /\ j \in Nat /\ 1 <= j /\ j < s /\ q \in Nat
        /\ lo + s <= Len(h) /\ i = lo + j /\ Len(h) \in Nat /\ s > 1
    BY DEF SubproofCall
  <1>p. lo = q * Span(s)
    BY DEF SubproofCall
  <1>2. k \in Pow2 /\ k \in 1..(s - 1) /\ s <= 2 * k
    BY <1>1, PowSplits
  <1>3. k \in Nat /\ k >= 1 /\ k < s
    BY <1>1, <1>2
  <1>4. Span(s) = 2 * k
    <2>1. s # 1
      BY <1>1
    <2> QED BY <2>1 DEF Span
  <1>5. q * (2 * k) = (2 * q) * k /\ (2 * q + 1) * k = (2 * q) * k + k
    BY <1>1, <1>3, Siblings
  <1>6. lo = q * (2 * k) /\ lo = (2 * q) * k /\ lo + k = (2 * q + 1) * k
    BY <1>p, <1>4, <1>5
  <1> QED BY <1>1, <1>2, <1>3, <1>4, <1>6

\* A factor of both sides of an inequality can be left out.
LEMMA FactorLess ==
    ASSUME NEW f \in Nat, NEW t \in Nat, NEW w \in Nat, w >= 1, f * w < t * w
    PROVE  f < t
  OBVIOUS

\* A call that goes to the left: the node it came from is a left child.
LEMMA RetracedLeft ==
    ASSUME NEW S, NEW h \in Seq(S), NEW X, Digests(h, X), NEW i \in Nat, 1 <= i, i < Len(h),
           NEW lo, NEW s, NEW j, NEW b, NEW q, SubproofCall(h, i, lo, s, j, b, q), j # s,
           NEW k, k = largest_pow2_below(s), j <= k
    PROVE  /\ SubproofCall(h, i, lo, k, j, b, 2 * q)
           /\ \A proof : Retraced(h, X, i, proof, lo, k, j, 2 * q) =>
                  Retraced(h, X, i, Append(proof, Part(h, lo + k, s - k)), lo, s, j, q)
  <1>1. /\ k \in Pow2 /\ k \in Nat /\ k >= 1 /\ k < s /\ s <= 2 * k /\ s > 1
        /\ lo \in Nat /\ s \in Nat /\ j \in Nat /\ 1 <= j /\ j < s /\ q \in Nat
        /\ lo + s <= Len(h) /\ i = lo + j /\ Len(h) \in Nat
    BY SubproofSplits
  <1>p. lo = (2 * q) * k /\ Span(s) = 2 * k
    BY SubproofSplits
  <1>2. Span(k) = k
    BY <1>1, SpanUnique
  <1>3. ~Odd(2 * q) /\ 2 * q \in Nat /\ (2 * q) \div 2 = q
    BY <1>1, Siblings
  <1>4. SubproofCall(h, i, lo, k, j, b, 2 * q)
    <2>1. j \in 1..k /\ lo + k <= Len(h)
      BY <1>1
    <2>2. b \in BOOLEAN /\ (b => lo = 0) /\ (~b => i \notin Pow2)
      BY DEF SubproofCall
    <2> QED BY <1>1, <1>p, <1>2, <1>3, <2>1, <2>2 DEF SubproofCall
  <1>5. ASSUME NEW proof, Retraced(h, X, i, proof, lo, k, j, 2 * q)
        PROVE  Retraced(h, X, i, Append(proof, Part(h, lo + k, s - k)), lo, s, j, q)
    <2> DEFINE A == i - 1
               B == Len(h) - 1
               x == Part(h, lo, j)
               y == Part(h, lo, k)
               c == Part(h, lo + k, s - k)
               f == 2 * q
    <2>1. proof \in Seq(X) /\ NodesFor(h, i, proof) # << >>
      BY <1>5 DEF Retraced
    <2>2. PICK t \in Nat : FinalOf(h, i, proof) = <<f, t, x, y>> /\ Level(f, t, k, A, B)
      BY <1>2, <1>5 DEF Retraced
    <2>3. A \in Nat /\ B \in Nat /\ B + 1 = Len(h)
      BY <1>1
    <2>4. f < t
      <3> DEFINE z == f * k
                 u == t * k
      <3>1. z \in Nat /\ u \in Nat /\ z = lo
        <4>1. z = lo
          BY <1>p
        <4>2. u \in Nat
          BY <1>1
        <4> HIDE DEF z, u
        <4> QED BY <1>1, <4>1, <4>2
      <3>2. B < u + k
        BY <2>2 DEF Level
      <3>3. f * k < t * k
        <4> HIDE DEF z, u, B
        <4>1. z < u
          BY <1>1, <2>3, <3>1, <3>2
        <4> QED BY <4>1 DEF z, u
      <3> HIDE DEF f
      <3>4. f \in Nat
        BY <1>3 DEF f
      <3> QED BY <1>1, <3>3, <3>4, FactorLess
    <2>5. t # 0 /\ ~(Odd(f) \/ f = t)
      BY <1>1, <1>3, <2>4
    <2>6. c \in X /\ Part(h, 0, i) \in X
      BY <1>1 DEF Part, Slice, Digests
    <2>7. FinalOf(h, i, Append(proof, c)) = ConsistencyStep(<<f, t, x, y>>, c)
          /\ NodesFor(h, i, Append(proof, c)) # << >>
      <3> HIDE DEF c, x, y, f
      <3> QED BY <2>1, <2>2, <2>5, <2>6, FinalAppend
    <2>8. ConsistencyStep(<<f, t, x, y>>, c) = <<f \div 2, t \div 2, x, node_hash(y, c)>>
      <3> HIDE DEF c, x, y, f
      <3> QED BY <2>5, StepIs
    <2>9. node_hash(y, c) = Part(h, lo, s)
      BY <1>1, PartSplits
    <2>10. Level(q, t \div 2, 2 * k, A, B)
      <3>1. Level(f \div 2, t \div 2, 2 * k, A, B)
        <4> HIDE DEF f, A, B
        <4> QED BY <2>2, <2>3, LevelUp
      <3> QED BY <1>3, <3>1
    <2>11. Append(proof, c) \in Seq(X)
      <3> HIDE DEF c
      <3> QED BY <2>1, <2>6, AppendProperties
    <2>12. t \div 2 \in Nat
      BY <2>10 DEF Level
    <2>13. FinalOf(h, i, Append(proof, c)) = <<q, t \div 2, x, Part(h, lo, s)>>
      <3> HIDE DEF c, x, y
      <3> QED BY <1>3, <2>7, <2>8, <2>9
    <2> HIDE DEF c, f
    <2>14. Retraced(h, X, i, Append(proof, c), lo, s, j, q)
      BY <1>p, <2>7, <2>10, <2>11, <2>12, <2>13 DEF Retraced
    <2> QED BY <2>14 DEF c
  <1> QED BY <1>4, <1>5

\* Two indices of one level in order.
LEMMA LevelOrder ==
    ASSUME NEW f \in Nat, NEW t \in Nat, NEW w \in Nat, w >= 1, f * w < t * w + w
    PROVE  f <= t
  <1>1. t * w + w = (t + 1) * w
    OBVIOUS
  <1>2. f < t + 1
    BY <1>1
  <1> QED BY <1>2

RightOf(q, k, r) ==
    /\ Span(r) \in Pow2 /\ Span(r) \in Nat /\ Span(r) >= 1 /\ r <= Span(r) /\ Span(r) <= k
    /\ \E f \in Nat : (2 * q + 1) * k = f * Span(r)

\* A factor cancels.
LEMMA Cancels ==
    ASSUME NEW f \in Nat, NEW g \in Nat, NEW w \in Nat, w >= 1, f * w = g * w
    PROVE  f = g
  OBVIOUS

\* The sizes and the places of a split whose old end is in its right part.
LEMMA RightSizes ==
    ASSUME NEW lo \in Nat, NEW s \in Nat, NEW j \in Nat, NEW k \in Nat, NEW n \in Nat,
           k < j, j < s, lo + s <= n, s <= 2 * k
    PROVE  /\ lo + k \in Nat /\ s - k \in Nat /\ j - k \in 1..(s - k) /\ j - k # s - k
           /\ (lo + k) + (s - k) = lo + s /\ (lo + k) + (j - k) = lo + j
           /\ 1 <= s - k /\ s - k <= k
  OBVIOUS

\* The right part of a split, by the level it is a node of.
LEMMA RightChild ==
    ASSUME NEW k \in Pow2, NEW q \in Nat, NEW r \in Nat, 1 <= r, r <= k
    PROVE  RightOf(q, k, r)
  <1> DEFINE w == Span(r)
  <1>1. w \in Pow2 /\ r <= w /\ w < 2 * r
    BY SpanIs
  <1>2. w \in Nat /\ w >= 1 /\ k \in Nat
    BY <1>1, Pow2Doubles
  <1>3. k < w => 2 * k <= w
    BY <1>1, Pow2Divides
  <1> HIDE DEF w
  <1>4. w <= k
    BY <1>1, <1>2, <1>3
  <1>5. PICK c \in Nat : k = c * w
    BY <1>1, <1>4, Pow2Divides
  <1> DEFINE f == (2 * q + 1) * c
  <1>6. f \in Nat
    OBVIOUS
  <1>7. (2 * q + 1) * k = f * w
    BY <1>2, <1>5
  <1> HIDE DEF f
  <1> QED BY <1>1, <1>2, <1>4, <1>6, <1>7 DEF w, RightOf

\* A call that goes to the right: the node it came from, or the ancestor of it
\* with the same leaves, is a right child.
LEMMA RetracedRight ==
    ASSUME NEW S, NEW h \in Seq(S), NEW X, Digests(h, X), NEW i \in Nat, 1 <= i, i < Len(h),
           NEW lo, NEW s, NEW j, NEW b, NEW q, SubproofCall(h, i, lo, s, j, b, q), j # s,
           NEW k, k = largest_pow2_below(s), ~(j <= k)
    PROVE  \E f \in Nat :
              /\ SubproofCall(h, i, lo + k, s - k, j - k, FALSE, f)
              /\ \A proof : Retraced(h, X, i, proof, lo + k, s - k, j - k, f) =>
                     Retraced(h, X, i, Append(proof, Part(h, lo, k)), lo, s, j, q)
  <1>1. /\ k \in Pow2 /\ k \in Nat /\ k >= 1 /\ k < s /\ s <= 2 * k /\ s > 1
        /\ lo \in Nat /\ s \in Nat /\ j \in Nat /\ 1 <= j /\ j < s /\ q \in Nat
        /\ lo + s <= Len(h) /\ i = lo + j /\ Len(h) \in Nat
    BY SubproofSplits
  <1>p. lo + k = (2 * q + 1) * k /\ Span(s) = 2 * k
    BY SubproofSplits
  <1> DEFINE r == s - k
             w == Span(r)
             o == 2 * q + 1
  <1>k. k < j
    BY <1>1
  <1>2. r \in Nat /\ 1 <= r /\ r <= k /\ r = s - k
    BY <1>1, <1>k, RightSizes
  <1>o. Odd(o) /\ o \in Nat /\ o \div 2 = q
    BY <1>1, Siblings
  <1> HIDE DEF r
  <1>3. w \in Pow2 /\ w \in Nat /\ w >= 1 /\ r <= w /\ w <= k /\ \E f \in Nat : (2 * q + 1) * k = f * w
    <2>1. RightOf(q, k, r)
      BY <1>1, <1>2, RightChild
    <2> QED BY <2>1 DEF RightOf
  <1>4. PICK f \in Nat : lo + k = f * w
    BY <1>p, <1>3
  <1> HIDE DEF w, o
  <1>5. s \in Pow2 => s = 2 * k
    <2>1. s \in Pow2 => 2 * k <= s
      BY <1>1, Pow2Divides
    <2> QED BY <1>1, <2>1
  <1>6. j \notin Pow2
    <2>1. j \in Pow2 /\ k < j => 2 * k <= j
      BY <1>1, Pow2Divides
    <2> QED BY <1>1, <2>1
  <1>7. SubproofCall(h, i, lo + k, r, j - k, FALSE, f)
    <2>1. lo + k \in Nat /\ j - k \in 1..r /\ (lo + k) + r <= Len(h) /\ i = (lo + k) + (j - k) /\ j - k # r
      <3>1. /\ lo + k \in Nat /\ j - k \in 1..(s - k) /\ j - k # s - k
            /\ (lo + k) + (s - k) = lo + s /\ (lo + k) + (j - k) = lo + j
        BY <1>1, <1>k, RightSizes, SMTT(30)
      <3> QED BY <1>1, <3>1 DEF r
    <2>2. r \in Pow2 \/ (lo + k) + r = Len(h)
      <3>1. s \in Pow2 \/ lo + s = Len(h)
        BY DEF SubproofCall
      <3>2. CASE s \in Pow2
        <4>1. r = k
          BY <1>1, <1>2, <1>5, <3>2
        <4> QED BY <1>1, <4>1
      <3>3. CASE lo + s = Len(h)
        BY <1>1, <1>2, <3>3, SMTT(30)
      <3> QED BY <3>1, <3>2, <3>3
    <2>3. i \notin Pow2
      <3>1. b \in BOOLEAN /\ (b => lo = 0) /\ (~b => i \notin Pow2)
        BY DEF SubproofCall
      <3>2. CASE b
        <4>1. i = j
          BY <1>1, <3>1, <3>2
        <4> QED BY <1>6, <4>1
      <3> QED BY <3>1, <3>2
    <2> QED BY <1>2, <1>4, <2>1, <2>2, <2>3 DEF SubproofCall, w
  <1>8. ASSUME NEW proof, Retraced(h, X, i, proof, lo + k, r, j - k, f)
        PROVE  Retraced(h, X, i, Append(proof, Part(h, lo, k)), lo, s, j, q)
    <2> DEFINE A == i - 1
               B == Len(h) - 1
               x == Part(h, lo + k, j - k)
               y == Part(h, lo + k, r)
               c == Part(h, lo, k)
    <2>1. proof \in Seq(X) /\ NodesFor(h, i, proof) # << >>
      BY <1>8 DEF Retraced
    <2>2. PICK t \in Nat : FinalOf(h, i, proof) = <<f, t, x, y>> /\ Level(f, t, w, A, B)
      BY <1>8 DEF Retraced, w
    <2>3. A \in Nat /\ B \in Nat /\ B + 1 = Len(h) /\ A <= B
      BY <1>1
    <2> DEFINE z == f * w
               u == t * w
    <2>4. z \in Nat /\ u \in Nat /\ z = lo + k
      <3>1. z = lo + k /\ u \in Nat
        BY <1>3, <1>4
      <3> HIDE DEF z, u
      <3> QED BY <1>1, <3>1
    <2>5. z <= A /\ A < z + w /\ u <= B /\ B < u + w
      BY <2>2 DEF Level
    <2> HIDE DEF A, B, x, y, c
    <2>6. f <= t /\ f # 0
      <3>1. z < u + w
        <4> HIDE DEF z, u
        <4> QED BY <1>3, <2>3, <2>4, <2>5
      <3>2. f <= t
        BY <1>3, <3>1, LevelOrder
      <3>3. z # 0
        <4> HIDE DEF z, u
        <4> QED BY <1>1, <2>4
      <3>4. f # 0
        BY <1>3, <3>3
      <3> QED BY <3>2, <3>4
    <2>7. t # 0
      BY <2>6
    <2>8. Odd(f) \/ (f = t /\ f # 0)
      <3>1. CASE w = k
        <4>1. f * k = o * k
          BY <1>p, <1>4, <3>1 DEF o
        <4>2. f = o
          BY <1>1, <1>o, <4>1, Cancels
        <4> QED BY <1>o, <4>2
      <3>2. CASE w # k
        <4>1. s \notin Pow2
          BY <1>1, <1>2, <1>3, <1>5, <3>2, SMTT(30)
        <4>2. lo + s = Len(h)
          BY <4>1 DEF SubproofCall
        <4>3. u < z + w
          <5> HIDE DEF z, u
          <5>1. B + 1 = z + r
            <6>1. Len(h) = lo + s /\ z = lo + k /\ r = s - k
              BY <1>2, <2>4, <4>2
            <6>2. B + 1 = lo + s
              BY <2>3, <6>1
            <6>3. (lo + k) + (s - k) = lo + s
              BY <1>1, <1>k, RightSizes
            <6> HIDE DEF B
            <6> QED BY <6>1, <6>2, <6>3
          <5>2. r <= w /\ u <= B /\ B \in Nat /\ z \in Nat /\ u \in Nat /\ w \in Nat /\ r \in Nat
            BY <1>2, <1>3, <2>3, <2>4, <2>5
          <5> QED BY <5>1, <5>2
        <4>4. t <= f
          BY <1>3, <4>3, LevelOrder
        <4> QED BY <2>6, <4>4
      <3> QED BY <3>1, <3>2
    <2>9. PICK v \in Pow2, g \in Nat, e \in Nat :
              /\ ShiftWhileEven(f, t) = <<g, e>> /\ Level(g, e, v, A, B) /\ Odd(g) /\ g * v = f * w
      <3>1. RightEdge(ShiftWhileEven(f, t), f, w, A, B)
        BY <2>2, <2>3, <2>8, ShiftEvenEnds
      <3> QED BY <3>1 DEF RightEdge
    <2>10. v = k /\ g = o
      <3>1. g * v = o * k
        BY <1>p, <1>4, <2>9 DEF o
      <3> QED BY <1>1, <1>o, <2>9, <3>1, OddPart
    <2>11. c \in X /\ Part(h, 0, i) \in X
      <3>1. lo + 1 \in Int /\ lo + k \in Int /\ 0 + 1 \in Int /\ 0 + i \in Int
        BY <1>1
      <3> QED BY <3>1 DEF Part, Slice, Digests, c
    <2>12. FinalOf(h, i, Append(proof, c)) = ConsistencyStep(<<f, t, x, y>>, c)
           /\ NodesFor(h, i, Append(proof, c)) # << >>
      BY <2>1, <2>2, <2>7, <2>11, FinalAppend
    <2>13. ConsistencyStep(<<f, t, x, y>>, c) = <<g \div 2, e \div 2, node_hash(c, x), node_hash(c, y)>>
      <3>1. Odd(f) \/ f = t
        BY <2>8
      <3> QED BY <2>9, <3>1, StepIs
    <2>14. node_hash(c, y) = Part(h, lo, s)
      <3>1. Part(h, lo, s) = node_hash(Part(h, lo, k), Part(h, lo + k, s - k))
        BY <1>1, PartSplits
      <3> QED BY <1>2, <3>1 DEF c, y
    <2>15. node_hash(c, x) = Part(h, lo, j)
      <3>1. lo + j <= Len(h) /\ k < j /\ j <= 2 * k
        BY <1>1
      <3>2. Part(h, lo, j) = node_hash(Part(h, lo, k), Part(h, lo + k, j - k))
        BY <1>1, <3>1, PartSplits
      <3> QED BY <3>2 DEF c, x
    <2>16. Level(q, e \div 2, 2 * k, A, B)
      <3>1. Level(o, e, k, A, B)
        BY <2>9, <2>10
      <3>2. Level(o \div 2, e \div 2, 2 * k, A, B)
        BY <2>3, <3>1, LevelUp
      <3> QED BY <1>o, <3>2
    <2>17. Append(proof, c) \in Seq(X) /\ e \div 2 \in Nat
      <3>1. Append(proof, c) \in Seq(X)
        BY <2>1, <2>11, AppendProperties
      <3> QED BY <2>16, <3>1 DEF Level
    <2>18. FinalOf(h, i, Append(proof, c)) = <<q, e \div 2, Part(h, lo, j), Part(h, lo, s)>>
      BY <1>o, <2>10, <2>12, <2>13, <2>14, <2>15
    <2>19. Retraced(h, X, i, Append(proof, c), lo, s, j, q)
      BY <1>p, <2>12, <2>16, <2>17, <2>18 DEF Retraced, A, B
    <2> QED BY <2>19 DEF c
  <1> QED BY <1>7, <1>8 DEF r

\* The verifier retraces every call of _subproof over s leaves.
RetracedOver(h, X, i, s) ==
    \A lo, j, b, q : SubproofCall(h, i, lo, s, j, b, q) =>
        Retraced(h, X, i, SubproofOf(LeavesOf(h))[<<j, lo, s, b>>], lo, s, j, q)

\* One call, once the calls over fewer leaves are known to be retraced.
LEMMA RetracedStep ==
    ASSUME NEW S, NEW h \in Seq(S), NEW X, Digests(h, X), NEW i \in Nat, 1 <= i, i < Len(h),
           NEW s, \A d \in 0..(s - 1) : RetracedOver(h, X, i, d),
           NEW lo, NEW j, NEW b, NEW q, SubproofCall(h, i, lo, s, j, b, q)
    PROVE  Retraced(h, X, i, SubproofOf(LeavesOf(h))[<<j, lo, s, b>>], lo, s, j, q)
  <1> DEFINE L == LeavesOf(h)
             T == {leaf_hash(e) : e \in S}
             F == SubproofOf(L)
             k == largest_pow2_below(s)
  <1>1. L \in Seq(T) /\ Len(L) = Len(h) /\ Len(h) \in Nat
    BY LeavesTyped
  <1>2. lo \in Nat /\ s \in Nat /\ j \in Nat /\ j \in 1..s /\ b \in BOOLEAN /\ s \in 1..Len(L)
    <2>1. lo \in Nat /\ s \in Nat /\ j \in 1..s /\ b \in BOOLEAN /\ lo + s <= Len(h)
      BY DEF SubproofCall
    <2> HIDE DEF L
    <2> QED BY <1>1, <2>1
  <1> HIDE DEF L, T
  <1>3. F[<<j, lo, s, b>>] =
            IF j = s THEN IF b THEN << >> ELSE <<mth(SubSeq(L, lo + 1, lo + s))>>
            ELSE IF j <= k
            THEN Append(F[<<j, lo, k, b>>], mth(SubSeq(L, lo + k + 1, lo + s)))
            ELSE Append(F[<<j - k, lo + k, s - k, FALSE>>], mth(SubSeq(L, lo + 1, lo + k)))
    <2>1. Len(L) \in Nat
      BY <1>1
    <2>2. SubproofAt(L, j, lo, s, b)
      BY <1>2, <2>1, SubproofUnfolds
    <2> QED BY <2>2 DEF SubproofAt
  <1> HIDE DEF F, k
  <1>4. CASE j = s
    <2>1. SubproofCall(h, i, lo, s, s, b, q)
      BY <1>4
    <2>2. Retraced(h, X, i, IF b THEN << >> ELSE <<Part(h, lo, s)>>, lo, s, s, q)
      BY <2>1, RetracedEnd
    <2>3. F[<<j, lo, s, b>>] = IF b THEN << >> ELSE <<Part(h, lo, s)>>
      BY <1>3, <1>4 DEF Part, Slice, L
    <2> QED BY <1>4, <2>2, <2>3 DEF F, L
  <1>5. CASE j # s /\ j <= k
    <2>1. SubproofCall(h, i, lo, k, j, b, 2 * q)
      BY <1>5, RetracedLeft DEF k
    <2>2. \A proof : Retraced(h, X, i, proof, lo, k, j, 2 * q) =>
              Retraced(h, X, i, Append(proof, Part(h, lo + k, s - k)), lo, s, j, q)
      BY <1>5, RetracedLeft DEF k
    <2>3. k \in Nat /\ k < s
      BY <1>5, SubproofSplits DEF k
    <2>4. RetracedOver(h, X, i, k)
      <3>1. k \in 0..(s - 1)
        BY <1>2, <2>3
      <3> QED BY <3>1
    <2>5. Retraced(h, X, i, F[<<j, lo, k, b>>], lo, k, j, 2 * q)
      BY <2>1, <2>4 DEF RetracedOver, F, L
    <2>6. mth(SubSeq(L, lo + k + 1, lo + s)) = Part(h, lo + k, s - k)
      <3>1. (lo + k) + (s - k) = lo + s
        BY <1>2, <2>3
      <3> QED BY <3>1 DEF Part, Slice, L
    <2>7. F[<<j, lo, s, b>>] = Append(F[<<j, lo, k, b>>], Part(h, lo + k, s - k))
      BY <1>3, <1>5, <2>6
    <2> QED BY <2>2, <2>5, <2>7 DEF F, L
  <1>6. CASE j # s /\ ~(j <= k)
    <2>1. PICK f \in Nat :
              /\ SubproofCall(h, i, lo + k, s - k, j - k, FALSE, f)
              /\ \A proof : Retraced(h, X, i, proof, lo + k, s - k, j - k, f) =>
                     Retraced(h, X, i, Append(proof, Part(h, lo, k)), lo, s, j, q)
      BY <1>6, RetracedRight DEF k
    <2>3. k \in Nat /\ k < s /\ k >= 1
      BY <1>6, SubproofSplits DEF k
    <2>4. RetracedOver(h, X, i, s - k)
      <3>1. s - k \in 0..(s - 1)
        BY <1>2, <2>3
      <3> QED BY <3>1
    <2>5. Retraced(h, X, i, F[<<j - k, lo + k, s - k, FALSE>>], lo + k, s - k, j - k, f)
      BY <2>1, <2>4 DEF RetracedOver, F, L
    <2>6. mth(SubSeq(L, lo + 1, lo + k)) = Part(h, lo, k)
      BY DEF Part, Slice, L
    <2>7. F[<<j, lo, s, b>>] = Append(F[<<j - k, lo + k, s - k, FALSE>>], Part(h, lo, k))
      BY <1>3, <1>6, <2>6
    <2> QED BY <2>1, <2>5, <2>7 DEF F, L
  <1> QED BY <1>4, <1>5, <1>6

\* Every call is retraced.
LEMMA SubproofRetraced ==
    ASSUME NEW S, NEW h \in Seq(S), NEW X, Digests(h, X), NEW i \in Nat, 1 <= i, i < Len(h), NEW s \in Nat
    PROVE  RetracedOver(h, X, i, s)
  <1> DEFINE P == {d \in Nat : RetracedOver(h, X, i, d)}
  <1>1. ASSUME NEW d \in Nat, \A e \in 0..(d - 1) : e \in P PROVE d \in P
    <2>1. \A e \in 0..(d - 1) : RetracedOver(h, X, i, e)
      BY <1>1
    <2>2. ASSUME NEW lo, NEW j, NEW b, NEW q, SubproofCall(h, i, lo, d, j, b, q)
          PROVE  Retraced(h, X, i, SubproofOf(LeavesOf(h))[<<j, lo, d, b>>], lo, d, j, q)
      BY <2>1, <2>2, RetracedStep
    <2>3. RetracedOver(h, X, i, d)
      BY <2>2 DEF RetracedOver
    <2> QED BY <2>3
  <1>2. P = Nat
    <2>1. P \in SUBSET Nat
      OBVIOUS
    <2> HIDE DEF P
    <2> QED BY <1>1, <2>1, NatStrong
  <1> QED BY <1>2

\* The root of a first part of a history.
LEMMA PrefixRoot ==
    ASSUME NEW S, NEW h \in Seq(S), NEW i \in 0..Len(h)
    PROVE  /\ SubSeq(h, 1, i) \in Seq(S) /\ Len(SubSeq(h, 1, i)) = i
           /\ \A j \in 1..i : SubSeq(h, 1, i)[j] = h[j]
           /\ merkle_root(SubSeq(h, 1, i)) = Part(h, 0, i)
  <1> DEFINE g == SubSeq(h, 1, i)
             L == LeavesOf(h)
             T == {leaf_hash(e) : e \in S}
             K == LeavesOf(g)
             z == 0
             U == Slice(L, z, i)
  <1>1. Len(h) \in Nat /\ i \in Nat /\ i <= Len(h) /\ z \in Nat /\ z + i <= Len(h)
    OBVIOUS
  <1>2. g = Slice(h, z, i)
    BY DEF Slice
  <1>3. /\ L \in Seq(T) /\ Len(L) = Len(h)
        /\ \A j \in 1..Len(h) : L[j] = leaf_hash(h[j])
    BY LeavesTyped
  <1> HIDE DEF L, T, z
  <1>4. g \in Seq(S) /\ Len(g) = i /\ \A j \in 1..i : g[j] = h[z + j]
    <2> HIDE DEF g
    <2> QED BY <1>1, <1>2, SliceIs
  <1>5. U \in Seq(T) /\ Len(U) = i /\ \A j \in 1..i : U[j] = L[z + j]
    BY <1>1, <1>3, SliceIs
  <1>z. \A j \in 1..i : z + j = j
    BY <1>1 DEF z
  <1> HIDE DEF g, U
  <1>6. K \in Seq(T) /\ Len(K) = i /\ \A j \in 1..i : K[j] = leaf_hash(g[j])
    BY <1>4, LeavesTyped DEF T
  <1> HIDE DEF K
  <1>7. \A j \in 1..i : g[j] = h[j]
    BY <1>4, <1>z
  <1>8. \A j \in 1..i : K[j] = U[j]
    <2>1. ASSUME NEW j \in 1..i PROVE K[j] = U[j]
      <3>1. j \in 1..Len(h)
        BY <1>1
      <3>2. U[j] = L[j]
        BY <1>5, <1>z
      <3> QED BY <1>3, <1>6, <1>7, <3>1, <3>2
    <2> QED BY <2>1
  <1>9. K = U
    BY <1>5, <1>6, <1>8, SeqEqual
  <1>10. merkle_root(g) = Part(h, z, i)
    BY <1>9 DEF merkle_root, Part, K, U, L
  <1> QED BY <1>4, <1>7, <1>10 DEF g, z

\* Between two sizes, of which the first is neither 0 nor the last.
LEMMA ProofBetweenVerifies ==
    ASSUME NEW S, NEW h \in Seq(S), NEW i \in Nat, 1 <= i, i < Len(h)
    PROVE  verify_consistency(Part(h, 0, i), Part(h, 0, Len(h)), i, Len(h), subproof(i, LeavesOf(h), TRUE))
  <1> DEFINE n == Len(h)
             a == Part(h, 0, i)
             b == Part(h, 0, n)
             L == LeavesOf(h)
             proof == subproof(i, L, TRUE)
             z == 0
             w == Span(n)
             nodes == NodesFor(h, i, proof)
             final == ConsistencyLoop(nodes, i, n)
  <1>0. \A x \in Nat : 0 = 0 * x
    OBVIOUS
  <1>1. n \in Nat /\ n >= 1 /\ Len(L) = n
    <2>1. Len(L) = Len(h) /\ Len(h) \in Nat
      BY LeavesTyped
    <2> HIDE DEF L
    <2> QED BY <2>1
  <1>2. PICK X : Digests(h, X)
    BY DigestsFormASet
  <1>3. proof = SubproofOf(L)[<<i, z, n, TRUE>>]
    <2>1. proof = SubproofOf(L)[<<i, z, Len(L), TRUE>>]
      BY SubproofIs
    <2> HIDE DEF proof, L
    <2> QED BY <1>1, <2>1
  <1>4. w \in Pow2 /\ w \in Nat /\ n <= w /\ w >= 1
    <2> HIDE DEF n
    <2> QED BY <1>1, SpanIs, Pow2Doubles
  <1>5. SubproofCall(h, i, z, n, i, TRUE, z)
    <2>1. z \in Nat /\ i \in 1..n /\ z + n <= n /\ i = z + i /\ i # n /\ z + n = n /\ z = 0
      BY <1>1
    <2>2. z = z * w
      <3> HIDE DEF w
      <3>1. 0 = 0 * w
        BY <1>0, <1>4, Zenon
      <3> QED BY <3>1, Zenon
    <2> HIDE DEF z, n
    <2>3. z + n <= Len(h) /\ z + n = Len(h)
      BY <2>1 DEF n
    <2>4. z = z * Span(n)
      BY <2>2 DEF w
    <2> HIDE DEF w
    <2> QED BY <1>1, <2>1, <2>3, <2>4 DEF SubproofCall
  <1>6. Retraced(h, X, i, proof, z, n, i, z)
    <2>1. RetracedOver(h, X, i, n)
      BY <1>1, <1>2, SubproofRetraced
    <2> HIDE DEF proof, z, n
    <2> QED BY <1>3, <1>5, <2>1 DEF RetracedOver
  <1>7. PICK t \in Nat : FinalOf(h, i, proof) = <<z, t, a, b>> /\ Level(z, t, w, i - 1, n - 1)
    <2> HIDE DEF proof
    <2> QED BY <1>6 DEF Retraced
  <1>8. t = 0
    <2> DEFINE u == t * w
    <2>1. u <= n - 1
      BY <1>7 DEF Level
    <2>2. u < w /\ u \in Nat
      <3>1. u \in Nat
        BY <1>4
      <3> HIDE DEF u, w, n
      <3> QED BY <1>1, <1>4, <2>1, <3>1
    <2>3. t >= 1 => u >= w
      <3> HIDE DEF w
      <3> QED BY <1>4
    <2> HIDE DEF u, w
    <2> QED BY <1>4, <2>2, <2>3
  <1>9. final = <<0, 0, a, b>>
    <2>1. final = FinalOf(h, i, proof)
      <3> HIDE DEF proof
      <3> QED BY LoopIsRun DEF FinalOf
    <2> HIDE DEF final, a, b, proof, n
    <2> QED BY <1>7, <1>8, <2>1 DEF z
  <1>10. final # NoRoot /\ ConsistencyRootsOK(final, a, b)
    <2> HIDE DEF final, a, b
    <2> QED BY <1>9 DEF NoRoot, ConsistencyRootsOK
  <1>11. nodes # << >>
    <2> HIDE DEF proof
    <2> QED BY <1>6 DEF Retraced
  <1>12. nodes = IF IsPow2(i) THEN <<a>> \o proof ELSE proof
    BY DEF NodesFor
  <1>13. 0 < i /\ i < n /\ i \in Int /\ n \in Int
    BY <1>1
  <1>14. verify_consistency(a, b, i, n, proof) <=>
            nodes # << >> /\ final # NoRoot /\ ConsistencyRootsOK(final, a, b)
    <2> HIDE DEF a, b, n, proof, nodes
    <2>1. 0 < i /\ i < n =>
                 (verify_consistency(a, b, i, n, proof) <=>
                     /\ (IF IsPow2(i) THEN <<a>> \o proof ELSE proof) # << >>
                     /\ ConsistencyLoop(IF IsPow2(i) THEN <<a>> \o proof ELSE proof, i, n) # NoRoot
                     /\ ConsistencyRootsOK(
                            ConsistencyLoop(IF IsPow2(i) THEN <<a>> \o proof ELSE proof, i, n), a, b))
      BY <1>13, VerifyCases
    <2> QED BY <1>12, <1>13, <2>1
  <1> HIDE DEF nodes, final, a, b, proof
  <1>15. verify_consistency(a, b, i, n, proof)
    BY <1>10, <1>11, <1>14
  <1> QED BY <1>15 DEF a, b, proof

(* Completeness: for every log and every earlier size of it, the proof that
   consistency_proof hands out verifies between the two roots. *)
THEOREM ConsistencyProofsVerify ==
    ASSUME NEW S, NEW h \in Seq(S), NEW i \in 0..Len(h)
    PROVE  verify_consistency(merkle_root(SubSeq(h, 1, i)), merkle_root(h), i, Len(h),
                              consistency_proof(h, i, Len(h)))
  <1> DEFINE n == Len(h)
             a == merkle_root(SubSeq(h, 1, i))
             b == merkle_root(h)
             proof == consistency_proof(h, i, n)
  <1>1. n \in Nat /\ i \in Nat /\ i <= n /\ n \in 0..n /\ i \in Int /\ n \in Int
    OBVIOUS
  <1>2. SubSeq(h, 1, n) = h
    <2>1. /\ SubSeq(h, 1, n) \in Seq(S) /\ Len(SubSeq(h, 1, n)) = n
          /\ \A j \in 1..n : SubSeq(h, 1, n)[j] = h[j]
      BY <1>1, PrefixRoot
    <2> DEFINE g == SubSeq(h, 1, n)
    <2> HIDE DEF g
    <2>2. g = h
      BY <2>1, SeqEqual DEF g
    <2> QED BY <2>2 DEF g
  <1>3. a = Part(h, 0, i) /\ b = Part(h, 0, n)
    <2>1. merkle_root(SubSeq(h, 1, i)) = Part(h, 0, i) /\ merkle_root(SubSeq(h, 1, n)) = Part(h, 0, n)
      BY <1>1, PrefixRoot, Zenon
    <2> QED BY <1>2, <2>1, ZenonT(60)
  <1>4. proof = IF i = 0 \/ i = n THEN << >> ELSE subproof(i, LeavesOf(h), TRUE)
    BY <1>2, ZenonT(60) DEF consistency_proof
  <1>5. CASE i = 0
    <2>1. proof = << >>
      BY <1>4, <1>5
    <2> HIDE DEF a, b, proof, n
    <2>2. 0 = i /\ i <= n => (verify_consistency(a, b, i, n, proof) <=> proof = << >>)
      BY <1>1, VerifyCases
    <2>3. verify_consistency(a, b, i, n, proof)
      BY <1>1, <1>5, <2>1, <2>2
    <2> QED BY <2>3 DEF a, b, proof, n
  <1>6. CASE i # 0 /\ i = n
    <2>1. proof = << >>
      BY <1>4, <1>6
    <2>2. a = b
      BY <1>3, <1>6
    <2> HIDE DEF a, b, proof, n
    <2>3. 0 < i /\ i = n => (verify_consistency(a, b, i, n, proof) <=> proof = << >> /\ a = b)
      BY <1>1, VerifyCases
    <2>4. verify_consistency(a, b, i, n, proof)
      BY <1>1, <1>6, <2>1, <2>2, <2>3
    <2> QED BY <2>4 DEF a, b, proof, n
  <1>7. CASE i # 0 /\ i # n
    <2>1. 1 <= i /\ i < Len(h)
      BY <1>1, <1>7
    <2>2. verify_consistency(Part(h, 0, i), Part(h, 0, n), i, n, subproof(i, LeavesOf(h), TRUE))
      BY <1>1, <2>1, ProofBetweenVerifies
    <2>3. proof = subproof(i, LeavesOf(h), TRUE)
      BY <1>4, <1>7
    <2> HIDE DEF a, b, proof
    <2>4. verify_consistency(a, b, i, n, proof)
      BY <1>3, <2>2, <2>3
    <2> QED BY <2>4 DEF a, b, proof
  <1> QED BY <1>5, <1>6, <1>7

-----------------------------------------------------------------------------
(* The fold, one call and one return at a time.                            *)

(* The call fold(sz, mm) makes stays inside the range of its caller. *)
LEMMA ChildCovers ==
    ASSUME NEW sz \in Sizes, NEW mm \in 0..(sz - 1), sz > 1
    PROVE  /\ ChildSize(sz, mm) \in 1..(sz - 1)
           /\ ChildIndex(sz, mm) \in 0..(ChildSize(sz, mm) - 1)
           /\ ChildIndex(sz, mm) <= mm
           /\ mm < largest_pow2_below(sz) => ChildIndex(sz, mm) = mm /\ ChildSize(sz, mm) = largest_pow2_below(sz)
           /\ mm >= largest_pow2_below(sz) => /\ ChildIndex(sz, mm) = mm - largest_pow2_below(sz)
                                 /\ ChildSize(sz, mm) = sz - largest_pow2_below(sz)
  <1>1. largest_pow2_below(sz) \in 1..(sz - 1)
    BY MaxTreeSizeAssumption, PowBelow DEF Sizes
  <1> QED
    BY <1>1, MaxTreeSizeAssumption DEF ChildSize, ChildIndex, Sizes

(* The leaf digests of the log. *)
LEMMA LogLeaves ==
    /\ LeavesOf(Log) \in Seq({leaf_hash(Log[i]) : i \in 1..MAX_TREE_SIZE})
    /\ Len(LeavesOf(Log)) = MAX_TREE_SIZE
    /\ \A i \in 1..MAX_TREE_SIZE : LeavesOf(Log)[i] = leaf_hash(Log[i])
  <1> DEFINE T == {leaf_hash(Log[i]) : i \in 1..MAX_TREE_SIZE}
             L == LeavesOf(Log)
  <1>1. MAX_TREE_SIZE \in Nat /\ Len(Log) = MAX_TREE_SIZE
    BY MaxTreeSizeAssumption, LogAssumption
  <1>2. L = [i \in 1..MAX_TREE_SIZE |-> leaf_hash(Log[i])]
    BY <1>1 DEF LeavesOf
  <1>3. \A i \in 1..MAX_TREE_SIZE : leaf_hash(Log[i]) \in T
    BY Zenon
  <1> HIDE DEF T, L
  <1>4. L \in [1..MAX_TREE_SIZE -> T]
    BY <1>2, <1>3
  <1>5. L \in Seq(T) /\ Len(L) = MAX_TREE_SIZE
    BY <1>1, <1>4
  <1> QED BY <1>2, <1>5 DEF L, T

(* The digest of a single entry of the log. *)
LEMMA TreeLeaf ==
    ASSUME NEW lo \in 0..(MAX_TREE_SIZE - 1)
    PROVE  Tree(lo, 1) = leaf_hash(Log[lo + 1])
  <1> DEFINE T == {leaf_hash(Log[i]) : i \in 1..MAX_TREE_SIZE}
             L == LeavesOf(Log)
  <1>1. L \in Seq(T) /\ Len(L) = MAX_TREE_SIZE /\ lo \in Nat /\ lo + 1 <= MAX_TREE_SIZE
    BY LogLeaves, MaxTreeSizeAssumption
  <1>2. L[lo + 1] = leaf_hash(Log[lo + 1])
    BY LogLeaves, MaxTreeSizeAssumption
  <1>3. Tree(lo, 1) = mth(Slice(L, lo, 1))
    BY DEF Tree, Slice
  <1> HIDE DEF T, L
  <1>4. mth(Slice(L, lo, 1)) = L[lo + 1]
    BY <1>1, MthLeaf
  <1> QED BY <1>2, <1>3, <1>4

(* The digest of a longer range hashes its two halves. *)
LEMMA TreeNode ==
    ASSUME NEW n \in Sizes, n > 1, NEW lo \in 0..(MAX_TREE_SIZE - n)
    PROVE  Tree(lo, n) =
               node_hash(Tree(lo, largest_pow2_below(n)),
                         Tree(lo + largest_pow2_below(n), n - largest_pow2_below(n)))
  <1> DEFINE T == {leaf_hash(Log[i]) : i \in 1..MAX_TREE_SIZE}
             L == LeavesOf(Log)
  <1>1. L \in Seq(T) /\ Len(L) = MAX_TREE_SIZE
    BY LogLeaves
  <1>2. n \in Nat /\ lo \in Nat /\ lo + n <= MAX_TREE_SIZE
    BY MaxTreeSizeAssumption DEF Sizes
  <1>3. \A b, s : Tree(b, s) = mth(Slice(L, b, s))
    BY DEF Tree, Slice
  <1> HIDE DEF T, L
  <1>4. mth(Slice(L, lo, n)) =
            node_hash(mth(Slice(L, lo, largest_pow2_below(n))),
                      mth(Slice(L, lo + largest_pow2_below(n), n - largest_pow2_below(n))))
    BY <1>1, <1>2, MthNode
  <1> QED BY <1>3, <1>4

(* What the invariant says of a call in progress, with its types. *)
LEMMA Active ==
    ASSUME TypeOK, FoldInv, pc \in {"call", "return"}
    PROVE  /\ ShapeOK(query) /\ Covers(size, m) /\ Linked
           /\ size \in Sizes /\ m \in 0..(size - 1)
           /\ query.tree_size \in Sizes
           /\ query.index \in 0..(query.tree_size - 1)
           /\ query.index - m \in 0..(MAX_TREE_SIZE - size)
  <1>1. ShapeOK(query) /\ Covers(size, m) /\ Linked
    BY DEF FoldInv
  <1>2. query.index \in Int /\ query.tree_size \in Int
    BY QueriesAssumption DEF TypeOK
  <1>3. size \in Sizes /\ m \in 0..(size - 1)
    BY <1>1 DEF Covers
  <1>4. /\ query.tree_size \in Sizes
        /\ query.index \in 0..(query.tree_size - 1)
    BY <1>1, <1>2, MaxTreeSizeAssumption DEF ShapeOK, Sizes
  <1>5. query.index - m \in 0..(MAX_TREE_SIZE - size)
    BY <1>1, <1>3, <1>4, MaxTreeSizeAssumption DEF Covers, Sizes
  <1> QED
    BY <1>1, <1>3, <1>4, <1>5

(* A subrange [i - c, i - c + d) of [i - j, i - j + n) ends no later. *)
LEMMA Subrange ==
    ASSUME NEW i \in Int, NEW t \in Int, NEW j \in Int, NEW n \in Int,
           NEW c \in Int, NEW d \in Int,
           j <= i, i - j + n <= t, c <= j, d <= n,
           c = j \/ n - d = j - c
    PROVE  c <= i /\ i - c + d <= t
  OBVIOUS

(* The two conjuncts hold together in every reachable state. *)
Inv == TypeOK /\ FoldInv

(* A call that has not passed the guards satisfies the invariant. *)
LEMMA InitInv == Init => Inv
  BY MaxTreeSizeAssumption DEF Init, Inv, TypeOK, FoldInv, Frame

(* The guards establish the outermost activation: it covers the whole tree. *)
LEMMA StartInv == Inv /\ Start => Inv'
  <1> SUFFICES ASSUME Inv, Start PROVE Inv'
    OBVIOUS
  <1> USE DEF Inv, TypeOK, FoldInv, Start
  <1>1. /\ query.tree_size \in Sizes
        /\ query.index \in 0..(query.tree_size - 1)
    BY QueriesAssumption, MaxTreeSizeAssumption DEF ShapeOK, Sizes
  <1>2. TypeOK'
    BY <1>1, QueriesAssumption, MaxTreeSizeAssumption DEF Sizes
  <1>3. stack = << >>
    OBVIOUS
  <1>4. Covers(size, m)'
    <2>1. query.tree_size \in Int /\ query.index \in Int
      BY QueriesAssumption
    <2>2. /\ query.index <= query.index
          /\ query.index - query.index + query.tree_size <= query.tree_size
      BY <2>1
    <2> QED
      BY <1>1, <2>2 DEF Covers
  <1>5. Linked'
    BY <1>3 DEF Linked
  <1> QED
    BY <1>2, <1>4, <1>5 DEF ShapeOK

(* A refused call ends with no root, which the invariant allows. *)
LEMMA RefuseInv == Inv /\ Refuse => Inv'
  BY DEF Inv, TypeOK, FoldInv, Refuse, ShapeOK

(* Popping a sibling: the depth table says one is left, and the callee's range lies in its caller's. *)
LEMMA CallInv == Inv /\ Call => Inv'
  <1> SUFFICES ASSUME Inv, Call PROVE Inv'
    OBVIOUS
  <1> USE DEF Inv, TypeOK, FoldInv
  <1>1. /\ pc = "call" /\ size > 1
        /\ ShapeOK(query) /\ Covers(size, m) /\ Linked
        /\ size \in Sizes /\ m \in 0..(size - 1)
        /\ query.tree_size \in Int /\ query.index \in Int
    BY QueriesAssumption DEF Call, Covers
  <1> DEFINE cs == ChildSize(size, m)
             ci == ChildIndex(size, m)
  <1>2. /\ cs \in 1..(size - 1) /\ ci \in 0..(cs - 1) /\ ci <= m
        /\ ci = m \/ (/\ largest_pow2_below(size) \in Int
                      /\ ci = m - largest_pow2_below(size) /\ cs = size - largest_pow2_below(size))
        /\ size \in Int /\ m \in Int /\ cs \in Int /\ ci \in Int
        /\ cs \in Sizes
    <2>1. size \in Int /\ m \in Int
      BY <1>1, MaxTreeSizeAssumption DEF Sizes
    <2>2. /\ cs \in 1..(size - 1) /\ ci \in 0..(cs - 1) /\ ci <= m
      BY <1>1, ChildCovers
    <2>3. largest_pow2_below(size) \in 1..(size - 1)
      BY <1>1, MaxTreeSizeAssumption, PowBelow DEF Sizes
    <2>4. cs \in Sizes
      BY <1>1, <2>1, <2>2, MaxTreeSizeAssumption DEF Sizes
    <2>5. ci = m \/ (ci = m - largest_pow2_below(size) /\ cs = size - largest_pow2_below(size))
      BY DEF ChildSize, ChildIndex
    <2> HIDE DEF cs, ci
    <2> QED
      BY <2>1, <2>2, <2>3, <2>4, <2>5
  <1>3. expected_inclusion_path_len(cs, ci) \in Nat /\ rest = 1 + expected_inclusion_path_len(cs, ci)
    <2>1. size \in Nat /\ m \in Nat /\ cs \in Nat /\ ci \in Nat
      BY <1>1, <1>2, MaxTreeSizeAssumption DEF Sizes
    <2>2. expected_inclusion_path_len(cs, ci) \in Nat
      <3> HIDE DEF cs, ci
      <3> QED BY <2>1, DepthFacts
    <2>r. rest = expected_inclusion_path_len(size, m)
      BY <1>1
    <2>3. expected_inclusion_path_len(size, m) = 1 + expected_inclusion_path_len(cs, ci)
      <3> DEFINE k == largest_pow2_below(size)
      <3>1. k \in 1..(size - 1)
        BY <1>1, <2>1, PowBelow
      <3>2. /\ m < k => expected_inclusion_path_len(size, m) = 1 + expected_inclusion_path_len(k, m)
            /\ m >= k => expected_inclusion_path_len(size, m) = 1 + expected_inclusion_path_len(size - k, m - k)
        BY <1>1, <2>1, DepthFacts
      <3>3. CASE m < k
        BY <3>2, <3>3 DEF ChildSize, ChildIndex
      <3>4. CASE ~(m < k)
        <4>1. m >= k
          <5> HIDE DEF k
          <5> QED BY <2>1, <3>1, <3>4
        <4> QED BY <3>2, <3>4, <4>1 DEF ChildSize, ChildIndex
      <3> QED BY <3>3, <3>4
    <2> HIDE DEF cs, ci
    <2> QED BY <2>r, <2>2, <2>3
  <1>4. /\ stack' = Append(stack, [size |-> size, m |-> m, at |-> rest])
        /\ rest' = rest - 1 /\ size' = cs /\ m' = ci
        /\ UNCHANGED <<query, pc, acc, result>>
    BY <1>3 DEF Call
  <1>5. [size |-> size, m |-> m, at |-> rest] \in Frame
    BY <1>1 DEF Frame, Sizes
  <1> HIDE DEF cs, ci
  <1>6. TypeOK'
    <2>1. stack' \in Seq(Frame)
      BY <1>4, <1>5, AppendProperties
    <2>2. cs \in 0..MAX_TREE_SIZE /\ ci \in 0..MAX_TREE_SIZE
      BY <1>2, MaxTreeSizeAssumption DEF Sizes
    <2>3. rest - 1 \in Nat
      BY <1>3
    <2> QED
      BY <1>4, <2>1, <2>2, <2>3
  <1>7. Covers(size, m)'
    <2>1. m <= query.index /\ query.index - m + size <= query.tree_size
      BY <1>1 DEF Covers
    <2>2. ci <= query.index /\ query.index - ci + cs <= query.tree_size
      <3>1. cs <= size /\ (ci = m \/ size - cs = m - ci)
        BY <1>2
      <3> QED
        BY <1>1, <1>2, <2>1, <3>1, Subrange
    <2> QED
      BY <1>2, <1>4, <2>2 DEF Covers
  <1>8. Linked'
    <2>1. /\ Len(stack') = Len(stack) + 1
          /\ stack'[Len(stack) + 1] = [size |-> size, m |-> m, at |-> rest]
          /\ \A j \in 1..Len(stack) : stack'[j] = stack[j]
          /\ Len(stack) \in Nat
      BY <1>4, <1>5
    <2>2. /\ stack'[1].size = query'.tree_size
          /\ stack'[1].m = query'.index
      <3>1. CASE stack = << >>
        BY <1>1, <1>4, <2>1, <3>1 DEF Linked
      <3>2. CASE stack # << >>
        BY <1>1, <1>4, <2>1, <3>2 DEF Linked
      <3> QED
        BY <3>1, <3>2
    <2>3. ASSUME NEW j \in 1..Len(stack')
          PROVE  /\ stack'[j].size > 1
                 /\ Covers(stack[j].size, stack[j].m)'
                 /\ ChildSize(stack'[j].size, stack'[j].m) =
                       IF j = Len(stack') THEN size' ELSE stack'[j + 1].size
                 /\ ChildIndex(stack'[j].size, stack'[j].m) =
                       IF j = Len(stack') THEN m' ELSE stack'[j + 1].m
      <3>1. CASE j = Len(stack) + 1
        BY <1>1, <1>4, <2>1, <3>1 DEF Covers, cs, ci
      <3>2. CASE j = Len(stack)
        BY <1>1, <1>4, <2>1, <3>2 DEF Linked, Covers
      <3>3. CASE j \in 1..(Len(stack) - 1)
        <4>1. /\ j \in 1..Len(stack) /\ j + 1 \in 1..Len(stack)
              /\ j # Len(stack) /\ j # Len(stack')
          BY <2>1, <3>3
        <4>2. /\ stack[j].size > 1
              /\ Covers(stack[j].size, stack[j].m)
              /\ ChildSize(stack[j].size, stack[j].m) = stack[j + 1].size
              /\ ChildIndex(stack[j].size, stack[j].m) = stack[j + 1].m
          BY <1>1, <4>1 DEF Linked
        <4> QED
          BY <1>4, <2>1, <4>1, <4>2 DEF Covers
      <3> QED
        BY <2>1, <3>1, <3>2, <3>3
    <2> QED
      BY <2>1, <2>2, <2>3 DEF Linked
  <1>9. rest' = expected_inclusion_path_len(size', m')
    BY <1>3, <1>4
  <1> QED
    BY <1>1, <1>4, <1>6, <1>7, <1>8, <1>9 DEF ShapeOK

(* At size 1 no sibling is left, and the leaf's hash is the log's only over the log's leaf. *)
LEMMA BottomInv == Inv /\ Bottom => Inv'
  <1> SUFFICES ASSUME Inv, Bottom PROVE Inv'
    OBVIOUS
  <1>1. /\ ShapeOK(query) /\ Covers(size, m) /\ Linked
        /\ size \in Sizes /\ m \in 0..(size - 1)
        /\ query.tree_size \in Sizes
        /\ query.index \in 0..(query.tree_size - 1)
        /\ size = 1
    BY Active DEF Bottom, Inv
  <1>2. m = 0
    BY <1>1
  <1>3. rest = 0
    <2>1. expected_inclusion_path_len(size, m) = 0
      <3>1. size \in Nat /\ m \in Nat /\ size <= 1
        BY <1>1, <1>2
      <3> QED BY <3>1, DepthFacts
    <2> QED
      BY <2>1 DEF Bottom, Inv, FoldInv
  <1>4. query.index \in 0..(MAX_TREE_SIZE - 1)
    BY <1>1, MaxTreeSizeAssumption DEF Sizes
  <1>5. Tree(query.index - m, size) = leaf_hash(Log[query.index + 1])
    <2>1. query.index - m = query.index
      BY <1>2, <1>4, MaxTreeSizeAssumption
    <2> QED
      BY <1>1, <1>4, <2>1, TreeLeaf
  <1>6. ReturnsSound'
    BY <1>5 DEF Bottom, ReturnsSound, leaf_hash
  <1>7. acc' # NoRoot
    BY DEF Bottom, NoRoot, leaf_hash
  <1>8. Covers(size, m)' /\ Linked' /\ ShapeOK(query)'
    BY <1>1 DEF Bottom, Covers, Linked, ShapeOK
  <1>9. TypeOK'
    BY DEF Inv, TypeOK, Bottom
  <1> QED
    BY <1>3, <1>6, <1>7, <1>8, <1>9 DEF Bottom, Inv, FoldInv

(* Hashing with a sibling keeps ReturnsSound: equal node hashes have equal children. *)
LEMMA ReturnInv == Inv /\ Return => Inv'
  <1> SUFFICES ASSUME Inv, Return PROVE Inv'
    OBVIOUS
  <1>1. /\ ShapeOK(query) /\ Covers(size, m) /\ Linked
        /\ size \in Sizes /\ m \in 0..(size - 1)
        /\ query.tree_size \in Sizes
        /\ query.index \in 0..(query.tree_size - 1)
    BY Active DEF Return, Inv
  <1>2. /\ rest = 0 /\ acc # NoRoot /\ ReturnsSound
    BY DEF Return, Inv, FoldInv
  <1>3. /\ stack \in Seq(Frame) /\ stack # << >>
        /\ Len(stack) \in Nat /\ Len(stack) >= 1
    BY DEF Return, Inv, TypeOK
  <1>3a. /\ Len(stack) = 1 \/ Len(stack) > 1
         /\ Len(stack) - 1 \in Nat
    <2>1. Len(stack) \in Nat /\ Len(stack) >= 1
      BY <1>3
    <2> QED
      BY <2>1, SMTT(30)
  <1> DEFINE top == stack[Len(stack)]
             sibling == query.path[top.at]
             lo == query.index - top.m
  <1>4. /\ top \in Frame /\ top.size \in Sizes /\ top.size > 1
        /\ Covers(top.size, top.m)
        /\ ChildSize(top.size, top.m) = size
        /\ ChildIndex(top.size, top.m) = m
    <2>1. Len(stack) \in 1..Len(stack)
      BY <1>3
    <2>2. top \in Frame
      BY <1>3, <2>1
    <2> QED
      BY <1>1, <2>1, <2>2 DEF Linked, Frame
  <1>5. top.m \in 0..(top.size - 1)
    BY <1>4 DEF Covers
  <1>6. /\ lo \in 0..(MAX_TREE_SIZE - top.size)
        /\ query.index \in Int /\ top.m \in Int /\ top.size \in Int
    <2>1. /\ query.index \in Int /\ top.m \in Int /\ top.size \in Int
          /\ query.tree_size \in Int /\ query.tree_size <= MAX_TREE_SIZE
      BY <1>1, <1>4, <1>5, MaxTreeSizeAssumption DEF Sizes
    <2>2. top.m <= query.index /\ query.index - top.m + top.size <= query.tree_size
      BY <1>4 DEF Covers
    <2> HIDE DEF top
    <2> QED
      BY <2>1, <2>2, MaxTreeSizeAssumption
  <1>7. /\ largest_pow2_below(top.size) \in 1..(top.size - 1)
        /\ Tree(lo, top.size) =
               node_hash(Tree(lo, largest_pow2_below(top.size)),
                         Tree(lo + largest_pow2_below(top.size), top.size - largest_pow2_below(top.size)))
    <2>1. largest_pow2_below(top.size) \in 1..(top.size - 1)
      BY <1>4, MaxTreeSizeAssumption, PowBelow DEF Sizes
    <2> QED BY <1>4, <1>6, <2>1, TreeNode
  <1>8. /\ acc' = IF top.m < largest_pow2_below(top.size) THEN node_hash(acc, sibling)
                                              ELSE node_hash(sibling, acc)
        /\ size' = top.size /\ m' = top.m
        /\ stack' = SubSeq(stack, 1, Len(stack) - 1)
        /\ UNCHANGED <<query, pc, rest, result>>
    BY DEF Return
  <1>9. ReturnsSound'
    <2> SUFFICES ASSUME acc' = Tree(lo, top.size)
                 PROVE  query.leaf = Log[query.index + 1]
      BY <1>8 DEF ReturnsSound
    <2>1. CASE top.m < largest_pow2_below(top.size)
      <3>1. size = largest_pow2_below(top.size) /\ m = top.m
        BY <1>4, <2>1 DEF ChildSize, ChildIndex
      <3>2. acc = Tree(lo, largest_pow2_below(top.size))
        BY <1>7, <1>8, <2>1 DEF node_hash
      <3> QED
        BY <1>2, <3>1, <3>2 DEF ReturnsSound
    <2>2. CASE ~(top.m < largest_pow2_below(top.size))
      <3>1. size = top.size - largest_pow2_below(top.size) /\ m = top.m - largest_pow2_below(top.size)
        BY <1>4, <2>2 DEF ChildSize, ChildIndex
      <3>2. acc = Tree(lo + largest_pow2_below(top.size), top.size - largest_pow2_below(top.size))
        BY <1>7, <1>8, <2>2 DEF node_hash
      <3>3. query.index - m = lo + largest_pow2_below(top.size)
        <4>1. largest_pow2_below(top.size) \in Int
          BY <1>6, <1>7
        <4> HIDE DEF top
        <4> QED
          BY <1>6, <3>1, <4>1
      <3> QED
        BY <1>2, <3>1, <3>2, <3>3 DEF ReturnsSound
    <2> QED
      BY <2>1, <2>2
  <1>10. acc' # NoRoot
    BY <1>8 DEF node_hash, NoRoot
  <1>11. /\ stack' \in Seq(Frame)
         /\ Len(stack') = Len(stack) - 1
         /\ \A j \in 1..(Len(stack) - 1) : stack'[j] = stack[j]
    <2>1. \A j \in 1..(Len(stack) - 1) : stack[j] \in Frame
      BY <1>3
    <2> DEFINE n == Len(stack) - 1
    <2>2. n \in Int /\ 1 \in Int /\ \A j \in 1..n : stack[j] \in Frame
      BY <1>3, <2>1
    <2>3. /\ SubSeq(stack, 1, n) \in Seq(Frame)
          /\ Len(SubSeq(stack, 1, n)) = IF 1 <= n THEN n - 1 + 1 ELSE 0
          /\ \A i \in 1..(n - 1 + 1) : SubSeq(stack, 1, n)[i] = stack[1 + i - 1]
      <3> HIDE DEF n
      <3> QED
        BY <2>2, SubSeqProperties
    <2> QED
      <3>1. stack' = SubSeq(stack, 1, n)
        BY <1>8
      <3>2. /\ n - 1 + 1 = n
            /\ 1 <= n \/ n = 0
            /\ \A i \in Int : 1 + i - 1 = i
        <4>1. n \in Nat
          BY <1>3a
        <4> HIDE DEF n
        <4> QED
          BY <4>1
      <3>3. Len(SubSeq(stack, 1, n)) = n
        BY <2>3, <3>2
      <3>4. \A i \in 1..n : SubSeq(stack, 1, n)[i] = stack[i]
        BY <2>3, <3>2, <2>2
      <3> QED
        BY <2>3, <3>1, <3>3, <3>4
  <1>12. Linked'
    <2>1. IF stack' = << >> THEN size' = query'.tree_size /\ m' = query'.index
          ELSE stack'[1].size = query'.tree_size /\ stack'[1].m = query'.index
      <3>0. stack[1].size = query.tree_size /\ stack[1].m = query.index
        BY <1>1, <1>3 DEF Linked
      <3>1. CASE Len(stack) = 1
        <4>1. stack' = << >>
          BY <1>11, <3>1
        <4> QED
          BY <1>8, <3>0, <3>1, <4>1
      <3>2. CASE Len(stack) > 1
        <4>1. stack' # << >> /\ stack'[1] = stack[1]
          BY <1>3, <1>11, <3>2
        <4> QED
          BY <1>8, <3>0, <4>1
      <3> QED
        BY <1>3a, <3>1, <3>2
    <2>2. ASSUME NEW j \in 1..Len(stack')
          PROVE  /\ stack'[j].size > 1
                 /\ Covers(stack[j].size, stack[j].m)'
                 /\ ChildSize(stack'[j].size, stack'[j].m) =
                       IF j = Len(stack') THEN size' ELSE stack'[j + 1].size
                 /\ ChildIndex(stack'[j].size, stack'[j].m) =
                       IF j = Len(stack') THEN m' ELSE stack'[j + 1].m
      <3>1. /\ j \in 1..Len(stack) /\ j # Len(stack) /\ stack'[j] = stack[j]
            /\ j = Len(stack') <=> j + 1 = Len(stack)
            /\ j # Len(stack') => stack'[j + 1] = stack[j + 1]
        BY <1>3, <1>11
      <3>2. /\ stack[j].size > 1
            /\ Covers(stack[j].size, stack[j].m)
            /\ ChildSize(stack[j].size, stack[j].m) = stack[j + 1].size
            /\ ChildIndex(stack[j].size, stack[j].m) = stack[j + 1].m
        BY <1>1, <3>1 DEF Linked
      <3> QED
        BY <1>8, <3>1, <3>2 DEF Covers
    <2> QED
      BY <2>1, <2>2 DEF Linked
  <1>13. TypeOK'
    BY <1>4, <1>5, <1>8, <1>11, MaxTreeSizeAssumption, SMTT(30) DEF Inv, TypeOK, Sizes
  <1>14. Covers(size, m)' /\ ShapeOK(query)'
    BY <1>1, <1>4, <1>8 DEF Covers, ShapeOK
  <1> QED
    BY <1>2, <1>8, <1>9, <1>10, <1>12, <1>13, <1>14 DEF Return, Inv, FoldInv

(* The outermost return hands over a root that is sound for the whole tree. *)
LEMMA FinishInv == Inv /\ Finish => Inv'
  <1> SUFFICES ASSUME Inv, Finish PROVE Inv'
    OBVIOUS
  <1>1. /\ size = query.tree_size /\ m = query.index
        /\ query.tree_size \in Sizes
        /\ query.index \in 0..(query.tree_size - 1)
    BY Active DEF Finish, Inv, Linked
  <1>2. query.index - m = 0
    BY <1>1, MaxTreeSizeAssumption DEF Sizes
  <1>3. rest = 0 /\ acc # NoRoot /\ ReturnsSound
    BY DEF Finish, Inv, FoldInv
  <1>4. /\ result' # NoRoot
        /\ result' = Tree(0, query.tree_size) => query.leaf = Log[query.index + 1]
    BY <1>1, <1>2, <1>3 DEF Finish, ReturnsSound
  <1>5. TypeOK'
    BY DEF Inv, TypeOK, Finish
  <1> QED
    BY <1>4, <1>5 DEF Inv, FoldInv, Finish

(* Every step preserves the invariant. *)
LEMMA NextInv == Inv /\ [Next]_vars => Inv'
  <1>1. Inv /\ UNCHANGED vars => Inv'
    BY DEF Inv, vars, TypeOK, FoldInv, ShapeOK, Covers, Linked, ReturnsSound
  <1> QED
    BY <1>1, StartInv, RefuseInv, CallInv, BottomInv, ReturnInv, FinishInv DEF Next

-----------------------------------------------------------------------------
(* The invariant holds throughout, and with it its parts and consequences. *)
THEOREM FoldCorrect == Spec => []Inv
  BY InitInv, NextInv, PTL DEF Spec

(* root_from_inclusion_proof keeps its arguments and its activations typed. *)
THEOREM FoldTyped == Spec => []TypeOK
  <1>1. Inv => TypeOK
    BY DEF Inv
  <1> QED
    BY <1>1, FoldCorrect, PTL

(* For every log, every tree size up to the ceiling and every audit path: a
   proof that rebuilds the log's own root is about the log's own entry at the
   claimed index. *)
THEOREM FoldSound == Spec => []InclusionSound
  <1>1. Inv => InclusionSound
    BY DEF Inv, FoldInv, InclusionSound
  <1> QED
    BY <1>1, FoldCorrect, PTL

(* A call that passes the guards always ends in a root, so the `.expect` of the
   Rust port cannot fire. *)
THEOREM FoldGuardsSuffice == Spec => []GuardsSuffice
  <1>1. Inv => GuardsSuffice
    BY DEF Inv, FoldInv, GuardsSuffice
  <1> QED
    BY <1>1, FoldCorrect, PTL

-----------------------------------------------------------------------------
(* The reader of a log.                                                    *)

\* The head the reader trusts is that of the history behind it, and both
\* histories hold entries only.
ReaderInv ==
    /\ served \in Seq(Entries) /\ Len(served) <= MaxEntries
    /\ seen \in Seq(Entries)
    /\ head = [size |-> Len(seen), root |-> merkle_root(seen)]

\* The reader starts with the head of the empty history.
LEMMA ReaderInitInv == ReaderInit => ReaderInv
  <1> SUFFICES ASSUME ReaderInit PROVE ReaderInv
    OBVIOUS
  <1>1. << >> \in Seq(Entries) /\ Len(<< >>) = 0
    OBVIOUS
  <1>2. 0 <= MaxEntries
    BY MerkleLogAssumption
  <1> QED BY <1>1, <1>2 DEF ReaderInit, ReaderInv

\* Appending, rewriting, and moving the head keep it so.
LEMMA ReaderNextInv == ReaderInv /\ [ReaderNext]_readerVars => ReaderInv'
  <1> SUFFICES ASSUME ReaderInv, [ReaderNext]_readerVars PROVE ReaderInv'
    OBVIOUS
  <1> DEFINE HeadOK == seen \in Seq(Entries) /\ head = [size |-> Len(seen), root |-> merkle_root(seen)]
  <1>0. /\ served \in Seq(Entries) /\ Len(served) <= MaxEntries /\ MaxEntries \in Nat
        /\ seen \in Seq(Entries) /\ head = [size |-> Len(seen), root |-> merkle_root(seen)]
    BY MerkleLogAssumption DEF ReaderInv
  <1>1. ASSUME AppendEntry PROVE ReaderInv'
    <2> DEFINE e == Len(served) + 1
    <2>1. Len(served) < MaxEntries /\ served' = Append(served, e) /\ seen' = seen /\ head' = head
      BY <1>1 DEF AppendEntry
    <2>2. e \in Entries
      BY <1>0, <2>1 DEF Entries
    <2>3. Append(served, e) \in Seq(Entries) /\ Len(Append(served, e)) = Len(served) + 1
      <3> HIDE DEF e
      <3> QED BY <1>0, <2>2, AppendProperties
    <2>4. Len(served) \in Nat
      BY <1>0
    <2>5. served' \in Seq(Entries) /\ Len(served') <= MaxEntries
      <3> HIDE DEF e
      <3> QED BY <1>0, <2>1, <2>3, <2>4
    <2> QED BY <1>0, <2>1, <2>5 DEF ReaderInv
  <1>2. ASSUME NEW i \in 1..Len(served), Rewrite(i) PROVE ReaderInv'
    <2>1. served' = [served EXCEPT ![i] = -served[i]] /\ seen' = seen /\ head' = head
      BY <1>2 DEF Rewrite
    <2>2. \A x \in Entries : -x \in Entries
      BY <1>0 DEF Entries
    <2>3. served[i] \in Entries
      BY <1>0
    <2>4. [served EXCEPT ![i] = -served[i]] \in Seq(Entries)
          /\ Len([served EXCEPT ![i] = -served[i]]) = Len(served)
      <3>1. -served[i] \in Entries
        BY <2>2, <2>3
      <3> DEFINE x == -served[i]
      <3> HIDE DEF x
      <3>2. x \in Entries
        BY <3>1 DEF x
      <3>3. [served EXCEPT ![i] = x] \in Seq(Entries) /\ Len([served EXCEPT ![i] = x]) = Len(served)
        BY <1>0, <3>2, ExceptSeq
      <3> QED BY <3>3 DEF x
    <2> QED BY <1>0, <2>1, <2>4 DEF ReaderInv
  <1>3. ASSUME AdvanceHead PROVE ReaderInv'
    <2>1. served' = served /\ seen' = served /\ head' = [size |-> Len(served), root |-> merkle_root(served)]
      BY <1>3 DEF AdvanceHead
    <2> QED BY <1>0, <2>1 DEF ReaderInv
  <1>4. ASSUME NEW e \in Held, NEW index \in 0..(head.size - 1), AcceptEntry(e, index) PROVE ReaderInv'
    <2>1. served' = served /\ seen' = seen /\ head' = head
      BY <1>4 DEF AcceptEntry
    <2> QED BY <1>0, <2>1 DEF ReaderInv
  <1>5. CASE UNCHANGED readerVars
    <2>1. served' = served /\ seen' = seen /\ head' = head
      BY <1>5 DEF readerVars
    <2> QED BY <1>0, <2>1 DEF ReaderInv
  <1> QED BY <1>1, <1>2, <1>3, <1>4, <1>5 DEF ReaderNext

\* The reader's head is always that of a history of entries.
LEMMA ReaderKeepsHead == ReaderSpec => []ReaderInv
  BY ReaderInitInv, ReaderNextInv, PTL DEF ReaderSpec

(* For every bound on the log and whatever the operator rewrites: from every
   earlier size to the served history the proof of consistency_proof verifies,
   and for every entry of it the proof of inclusion_proof, with the length the
   verifier expects. *)
THEOREM ReaderHonestProofsVerify == ReaderSpec => []HonestProofsVerify
  <1>1. ASSUME ReaderInv PROVE HonestProofsVerify
    <2> DEFINE n == Len(served)
               root == merkle_root(served)
    <2>1. served \in Seq(Entries) /\ n \in Nat /\ n <= MAX_TREE_SIZE
      <3>1. served \in Seq(Entries) /\ n <= MaxEntries
        BY <1>1 DEF ReaderInv
      <3>2. n \in Nat
        BY <3>1
      <3> HIDE DEF n
      <3> QED BY <3>1, <3>2, MerkleLogAssumption, MaxTreeSizeAssumption
    <2>2. ASSUME NEW j \in 0..n
          PROVE  verify_consistency(merkle_root(SubSeq(served, 1, j)), root, j, n,
                                    consistency_proof(served, j, n))
      BY <2>1, <2>2, ConsistencyProofsVerify
    <2>3. ASSUME NEW i \in 0..(n - 1)
          PROVE  /\ Len(inclusion_proof(served, i)) = expected_inclusion_path_len(n, i)
                 /\ verify_inclusion(served[i + 1], i, n, inclusion_proof(served, i), root)
      BY <2>1, <2>3, InclusionProofsVerify
    <2> HIDE DEF n, root
    <2> QED BY <2>2, <2>3 DEF HonestProofsVerify, n, root
  <1> QED BY <1>1, ReaderKeepsHead, PTL

\* A history that verify_consistency accepted after another extends it.
LEMMA AcceptedExtends ==
    ASSUME NEW S, NEW old \in Seq(S), NEW new \in Seq(S), NEW X, NEW proof \in Seq(X),
           verify_consistency(merkle_root(old), merkle_root(new), Len(old), Len(new), proof)
    PROVE  View!IsPrefix(old, new)
  <1> DEFINE i == Len(old)
             a == SubSeq(old, 1, i)
             b == SubSeq(new, 1, i)
  <1>1. i <= Len(new) /\ \A j \in 1..i : old[j] = new[j]
    BY ConsistencyProofsAreSound
  <1>2. i \in Nat /\ i \in 0..Len(old) /\ i \in 0..Len(new)
    BY <1>1
  <1>3. a \in Seq(S) /\ Len(a) = i /\ \A j \in 1..i : a[j] = old[j]
    BY <1>2, PrefixRoot
  <1>4. b \in Seq(S) /\ Len(b) = i /\ \A j \in 1..i : b[j] = new[j]
    BY <1>2, PrefixRoot
  <1> HIDE DEF a, b, i
  <1>5. a = b
    BY <1>1, <1>3, <1>4, SeqEqual
  <1> QED BY <1>1, <1>5 DEF View!IsPrefix, a, b, i

\* A served proof is a sequence.
LEMMA ProofsAreSequences ==
    ASSUME NEW h, NEW n \in Nat, NEW proof \in ProofSpace(h, n)
    PROVE  proof \in Seq(TreeNodes(h))
  <1> DEFINE X == TreeNodes(h)
  <1> HIDE DEF X
  <1>1. proof \in UNION {[1..l -> X] : l \in 0..n}
    BY DEF ProofSpace, SeqOf, X
  <1>2. PICK l \in 0..n : proof \in [1..l -> X]
    BY <1>1
  <1>3. l \in Nat
    OBVIOUS
  <1> QED BY <1>2, <1>3 DEF X

(* The reader implements LogView for every bound, every served proof and
   whatever the operator rewrites: a head it adopts only ever extends the history
   behind the one before, and what it accepts at an index is what that history
   holds there, for good. *)
THEOREM ReaderImplementsLogView == ReaderSpec => ImplementsLogView
  <1>1. ReaderInit => View!Init
    BY DEF ReaderInit, View!Init, Accepted
  <1>2. ASSUME ReaderInv, [ReaderNext]_readerVars PROVE [View!Next]_<<seen, Accepted>>
    <2>0. /\ served \in Seq(Entries) /\ seen \in Seq(Entries)
          /\ head = [size |-> Len(seen), root |-> merkle_root(seen)]
      BY <1>2 DEF ReaderInv
    <2>1. CASE AppendEntry
      BY <2>1 DEF AppendEntry, Accepted
    <2>2. ASSUME NEW i \in 1..Len(served), Rewrite(i) PROVE seen' = seen /\ Accepted' = Accepted
      BY <2>2 DEF Rewrite, Accepted
    <2>3. CASE AdvanceHead
      <3>1. PICK proof \in ProofSpace(served, MaxProof) :
                verify_consistency(head.root, merkle_root(served), head.size, Len(served), proof)
        BY <2>3 DEF AdvanceHead
      <3>2. proof \in Seq(TreeNodes(served))
        BY MerkleLogAssumption, ProofsAreSequences
      <3>3. head.root = merkle_root(seen) /\ head.size = Len(seen)
        BY <2>0
      <3>4. verify_consistency(merkle_root(seen), merkle_root(served), Len(seen), Len(served), proof)
        BY <3>1, <3>3
      <3>5. View!IsPrefix(seen, served)
        BY <2>0, <3>2, <3>4, AcceptedExtends
      <3>6. seen' = served /\ Accepted' = Accepted
        BY <2>3 DEF AdvanceHead, Accepted
      <3> QED BY <3>5, <3>6 DEF View!Next, View!Extend
    <2>4. ASSUME NEW e \in Held, NEW index \in 0..(head.size - 1), AcceptEntry(e, index)
          PROVE  View!Next
      <3> DEFINE place == index + 1
      <3>1. fact = NoFact /\ fact' = [entry |-> e, index |-> index] /\ seen' = seen
        BY <2>4 DEF AcceptEntry
      <3>2. PICK path \in ProofSpace(seen, MaxPath) :
                verify_inclusion(e, index, head.size, path, head.root)
        BY <2>4 DEF AcceptEntry
      <3>3. verify_inclusion(e, index, Len(seen), path, merkle_root(seen))
        BY <2>0, <3>2
      <3>4. index \in 0..(Len(seen) - 1) /\ e = seen[index + 1]
        <4>1. index \in Int
          OBVIOUS
        <4> QED BY <2>0, <3>3, <4>1, InclusionProofsAreSound
      <3>5. place \in 1..Len(seen)
        BY <2>0, <3>4
      <3>6. e # 0
        BY MerkleLogAssumption DEF Entries
      <3>7. fact' # NoFact
        BY <3>1, <3>6 DEF NoFact
      <3>8. Accepted = {} /\ Accepted' = {<<place, e>>}
        <4>1. fact'.index = index /\ fact'.entry = e
          BY <3>1
        <4>2. Accepted' = {<<fact'.index + 1, fact'.entry>>}
          BY <3>7 DEF Accepted
        <4> QED BY <3>1, <4>1, <4>2 DEF Accepted
      <3>9. View!Accept(place)
        BY <3>1, <3>4, <3>8 DEF View!Accept
      <3> QED BY <3>5, <3>9 DEF View!Next
    <2>5. CASE UNCHANGED readerVars
      BY <2>5 DEF readerVars, Accepted
    <2> QED BY <1>2, <2>1, <2>2, <2>3, <2>4, <2>5 DEF ReaderNext
  <1> QED BY <1>1, <1>2, ReaderKeepsHead, PTL DEF ReaderSpec, ImplementsLogView, View!Spec
=============================================================================
