-------------------------- MODULE LocalLogProofs --------------------------
(***************************************************************************)
(* The theorems about checkpointed local logs.  First the mountain ranges: *)
(* the positions cll.py computes are those of the mountains an append-only *)
(* log builds, so whatever proof its verifiers accept, the log behind the  *)
(* root has what the proof is said to show.  Then the reader of MmrLog,    *)
(* and last the browser's check of a bundle's witness evidence, whose      *)
(* receipts are about witness logs: that argument is MerkleFoldProofs',    *)
(* carried over to the fold of witness.js, and the chain from the bundle's *)
(* checkpoint to the witnesses leans on the soundness of the verifiers.    *)
(***************************************************************************)
EXTENDS WitnessEvidence, MmrLog, SequenceTheorems, WellFoundedInduction, TLAPS

\* A set of natural numbers that is not empty has a least one.
LEMMA LeastNat ==
    ASSUME NEW T \in SUBSET Nat, T # {}
    PROVE  \E x \in T : \A y \in T : x <= y
  <1> DEFINE R == OpToRel(<, Nat)
  <1>1. IsWellFoundedOn(R, Nat)
    BY NatLessThanWellFounded
  <1>2. \A a, b \in Nat : a < b => <<a, b>> \in R
    BY Zenon DEF OpToRel
  <1> HIDE DEF R
  <1>3. PICK x \in T : \A y \in T : ~(<<y, x>> \in R)
    BY <1>1, WFMin
  <1>4. ASSUME NEW y \in T PROVE x <= y
    <2>1. x \in Nat /\ y \in Nat
      OBVIOUS
    <2>2. ~(y < x)
      BY <1>2, <1>3, <2>1, Zenon
    <2> QED BY <2>1, <2>2
  <1> QED BY <1>4

\* Strong induction: a set that holds every number whose predecessors it holds is Nat.
LEMMA NatStrong ==
    ASSUME NEW P \in SUBSET Nat,
           \A n \in Nat : (\A mm \in 0..(n - 1) : mm \in P) => n \in P
    PROVE  P = Nat
  <1> DEFINE T == Nat \ P
  <1> SUFFICES ASSUME T # {} PROVE FALSE
    OBVIOUS
  <1>1. PICK x \in T : \A y \in T : x <= y
    <2>1. T \in SUBSET Nat
      OBVIOUS
    <2> HIDE DEF T
    <2> QED BY <2>1, LeastNat
  <1>2. \A mm \in 0..(x - 1) : mm \in P
    BY <1>1
  <1> QED BY <1>1, <1>2

-----------------------------------------------------------------------------
(* The recursive functions of Mmr and MmrReference exist.  Each has its    *)
(* body here, as it calls f; a stands for what surrounds it, Calls for its *)
(* domain and Rank for what falls with every call.                         *)

TwoToTurn(f, p) == IF p = 0 THEN 1 ELSE 2 * f[p - 1]

OnesTurn(f, p) == IF p = 0 THEN 0 ELSE (p % 2) + f[p \div 2]

BagTurn(peak_hashes, f, p) ==
    IF p >= Len(peak_hashes) THEN peak_hashes[Len(peak_hashes)]
    ELSE <<"bag", f[p + 1], peak_hashes[p]>>

GrowTurn(pos, f, p) == IF MountainSize(p) < pos + 1 THEN f[p + 1] ELSE p

DownTurn(f, p) ==
    CASE p[2] = 0 -> 0
      [] p[2] > 0 /\ p[1] = MountainSize(p[2]) -> p[2]
      [] OTHER -> f[<<IF InRightHalf(p[1], p[2]) THEN p[1] - (TwoTo[p[2]] - 1) ELSE p[1], p[2] - 1>>]

UpTurn(n, f, p) == IF MountainSize(p + 1) <= n THEN f[p + 1] ELSE p

SplitTurn(f, p) ==
    LET h    == Tallest(p[1])
        rest == f[<<p[1] - MountainSize(h), p[2] + MountainSize(h), h>>]
    IN  CASE p[1] = 0 -> << >>
          [] p[1] > 0 /\ (~FallsBelow(h, p[3]) \/ rest = NoPeaks) -> NoPeaks
          [] OTHER -> <<p[2] + MountainSize(h) - 1>> \o rest

PathTurn(target_pos, f, p) ==
    IF p[2] = 0 \/ p[1] = target_pos THEN << >>
    ELSE Append(f[<<IF target_pos <= p[1] - TwoTo[p[2]] THEN p[1] - TwoTo[p[2]] ELSE p[1] - 1, p[2] - 1>>],
                [target_is_right |-> ~(target_pos <= p[1] - TwoTo[p[2]]), parent_pos |-> p[1]])

HashTurn(a, f, p) == IF p = 0 THEN a.start ELSE HashStep(f[p - 1], a.witness[p], a.path[p])

MergeTurn(f, ms) ==
    LET k == Len(ms)
    IN  IF k >= 2 /\ ms[k - 1][2] = ms[k][2]
        THEN f[Append(SubSeq(ms, 1, k - 2), <<ms[k][1] + 1, ms[k][2] + 1, ms[k - 1][3]>>)]
        ELSE ms

Merge == CHOOSE merge : merge = [ms \in Seq(Nat \X Nat \X Nat) |-> MergeTurn(merge, ms)]

AddTurn(f, i) ==
    IF i = 0 THEN << >>
    ELSE Merge[Append(f[i - 1], <<IF i = 1 THEN 0 ELSE Last(f[i - 1])[1] + 1, 0, i - 1>>)]

NodeTurn(h, f, t) ==
    IF t[2] = 0 THEN leaf_hash(h[t[3] + 1]) ELSE interior_hash(f[LeftOf(t)], f[RightOf(t)], t[1])

SumTurn(g, f, p) == IF p = 0 THEN 0 ELSE f[p - 1] + g[p]

\* The subtree walk and the two calls it makes, for a the range, its records and the witness.
Outside(a, p) == OutsideRange(p[3], p[3] + TwoTo[p[2]] - 1, a.lo, a.hi)

LeftCall(p)     == <<p[1] - TwoTo[p[2]], p[2] - 1, p[3], p[4]>>
RightCall(p, c) == <<p[1] - 1, p[2] - 1, p[3] + TwoTo[p[2] - 1], c>>

WalkTurn(a, f, p) ==
    LET left  == f[LeftCall(p)]
        right == f[RightCall(p, left[2])]
    IN  CASE Outside(a, p) ->
                <<IF p[4] < Len(a.witness) THEN a.witness[p[4] + 1] ELSE NoDigest, p[4] + 1>>
          [] ~Outside(a, p) /\ p[2] = 0 -> <<leaf_hash(a.digests[p[3]]), p[4]>>
          [] OTHER -> <<IF NoDigest \in {left[1], right[1]} THEN NoDigest
                        ELSE interior_hash(left[1], right[1], p[1]), right[2]>>

\* The walk, were a cursor to come back as no number: none does.
GuardedTurn(a, f, p) ==
    IF Outside(a, p) \/ p[2] = 0 \/ f[LeftCall(p)][2] \in Nat THEN WalkTurn(a, f, p)
    ELSE <<NoDigest, 0>>

\* The loop over the peaks; a.size is the log's.
PeakWalk(a, i, cursor) ==
    reconstruct_range_subtree(peaks(a.size)[i], height_at(peaks(a.size)[i]),
                              SumOver([j \in 1..Len(peaks(a.size)) |-> TwoTo[height_at(peaks(a.size)[j])]], i - 1),
                              a.lo, a.hi, a.digests, a.witness, cursor)

RunTurn(a, f, i) ==
    IF i = 0 THEN <<<< >>, 0>>
    ELSE <<Append(f[i - 1][1], PeakWalk(a, i, f[i - 1][2])[1]), PeakWalk(a, i, f[i - 1][2])[2]>>

Turn(fn, a, f, p) ==
    CASE fn = "twoto" -> TwoToTurn(f, p)
      [] fn = "ones"  -> OnesTurn(f, p)
      [] fn = "bag"   -> BagTurn(a, f, p)
      [] fn = "grow"  -> GrowTurn(a, f, p)
      [] fn = "down"  -> DownTurn(f, p)
      [] fn = "up"    -> UpTurn(a, f, p)
      [] fn = "split" -> SplitTurn(f, p)
      [] fn = "path"  -> PathTurn(a, f, p)
      [] fn = "hash"  -> HashTurn(a, f, p)
      [] fn = "merge" -> MergeTurn(f, p)
      [] fn = "add"   -> AddTurn(f, p)
      [] fn = "node"  -> NodeTurn(a, f, p)
      [] fn = "sum"   -> SumTurn(a, f, p)
      [] fn = "walk"  -> GuardedTurn(a, f, p)
      [] fn = "run"   -> RunTurn(a, f, p)

Calls(fn) ==
    IF fn = "down" THEN Nat \X Nat
    ELSE IF fn = "path" THEN Int \X Nat
    ELSE IF fn = "split" THEN Nat \X Nat \X Nat
    ELSE IF fn = "node" THEN Int \X Nat \X Nat
    ELSE IF fn = "walk" THEN Int \X Nat \X Nat \X Nat
    ELSE IF fn = "merge" THEN Seq(Nat \X Nat \X Nat)
    ELSE Nat

\* What is left of n when p has been counted.
Left(n, p) == IF p <= n THEN n - p ELSE 0

Rank(fn, a, p) ==
    IF fn \in {"down", "path", "node", "walk"} THEN p[2]
    ELSE IF fn = "split" THEN p[1]
    ELSE IF fn = "merge" THEN Len(p)
    ELSE IF fn = "bag" THEN Left(Len(a), p)
    ELSE IF fn = "grow" THEN Left(a + 1, p)
    ELSE IF fn = "up" THEN Left(a, p)
    ELSE p

\* A turn depends only on calls of lower rank.
Local(fn, a) ==
    \A f, g : \A p \in Calls(fn) :
        (\A c \in Calls(fn) : Rank(fn, a, c) < Rank(fn, a, p) => f[c] = g[c])
            => Turn(fn, a, f, p) = Turn(fn, a, g, p)

\* A recursive definition whose calls fall in rank has a solution.
LEMMA Recursion ==
    ASSUME NEW fn, NEW a, Local(fn, a), \A p \in Calls(fn) : Rank(fn, a, p) \in Nat
    PROVE  \E f : f = [p \in Calls(fn) |-> Turn(fn, a, f, p)]
  <1> DEFINE D == Calls(fn)
             R(p) == Rank(fn, a, p)
             Solves(f, n) == \A p \in D : R(p) < n => f[p] = Turn(fn, a, f, p)
             P == {n \in Nat : \E f : Solves(f, n)}
             Q == {n \in Nat : \A f, g : Solves(f, n) /\ Solves(g, n) =>
                                   \A p \in D : R(p) < n => f[p] = g[p]}
  <1>1. \A p \in D : R(p) \in Nat
    OBVIOUS
  <1>2. ASSUME NEW n \in Nat, n \in P PROVE n + 1 \in P
    <2>1. PICK f : Solves(f, n)
      BY <1>2
    <2> DEFINE g == [p \in D |-> IF R(p) < n THEN f[p] ELSE Turn(fn, a, f, p)]
    <2>2. \A p \in D : g[p] = IF R(p) < n THEN f[p] ELSE Turn(fn, a, f, p)
      OBVIOUS
    <2> HIDE DEF g
    <2>3. ASSUME NEW p \in D, R(p) < n + 1 PROVE g[p] = Turn(fn, a, g, p)
      <3>1. \A c \in D : R(c) < R(p) => f[c] = g[c]
        BY <1>1, <2>2, <2>3
      <3>2. Turn(fn, a, f, p) = Turn(fn, a, g, p)
        BY <3>1, Zenon DEF Local
      <3>3. g[p] = Turn(fn, a, f, p)
        BY <2>1, <2>2
      <3> QED BY <3>2, <3>3
    <2>4. Solves(g, n + 1)
      BY <2>3
    <2> QED BY <2>4
  <1>3. 0 \in P /\ 0 \in Q
    <2>1. \A f : Solves(f, 0)
      BY <1>1
    <2>2. \A p \in D : ~(R(p) < 0)
      BY <1>1
    <2> QED BY <2>1, <2>2
  <1>4. ASSUME NEW n \in Nat, n \in Q PROVE n + 1 \in Q
    <2> SUFFICES ASSUME NEW f, NEW g, Solves(f, n + 1), Solves(g, n + 1), NEW p \in D, R(p) < n + 1
                 PROVE  f[p] = g[p]
      OBVIOUS
    <2>1. Solves(f, n) /\ Solves(g, n)
      BY <1>1
    <2>2. \A c \in D : R(c) < n => f[c] = g[c]
      BY <1>4, <2>1
    <2>3. \A c \in D : R(c) < R(p) => f[c] = g[c]
      BY <1>1, <2>2
    <2>4. Turn(fn, a, f, p) = Turn(fn, a, g, p)
      BY <2>3, Zenon DEF Local
    <2>5. f[p] = Turn(fn, a, f, p) /\ g[p] = Turn(fn, a, g, p)
      OBVIOUS
    <2> QED BY <2>4, <2>5
  <1>5. P = Nat /\ Q = Nat
    <2>1. P \in SUBSET Nat /\ Q \in SUBSET Nat
      OBVIOUS
    <2> HIDE DEF P, Q
    <2>2. ASSUME NEW n \in Nat, \A mm \in 0..(n - 1) : mm \in P PROVE n \in P
      <3>1. CASE n = 0
        BY <1>3, <3>1
      <3>2. CASE n # 0
        <4>1. n - 1 \in Nat /\ n - 1 \in 0..(n - 1) /\ (n - 1) + 1 = n
          BY <3>2
        <4> QED BY <1>2, <2>2, <4>1
      <3> QED BY <3>1, <3>2
    <2>3. ASSUME NEW n \in Nat, \A mm \in 0..(n - 1) : mm \in Q PROVE n \in Q
      <3>1. CASE n = 0
        BY <1>3, <3>1
      <3>2. CASE n # 0
        <4>1. n - 1 \in Nat /\ n - 1 \in 0..(n - 1) /\ (n - 1) + 1 = n
          BY <3>2
        <4> QED BY <1>4, <2>3, <4>1
      <3> QED BY <3>1, <3>2
    <2>4. P = Nat
      BY <2>1, <2>2, NatStrong
    <2>5. Q = Nat
      BY <2>1, <2>3, NatStrong
    <2> QED BY <2>4, <2>5
  <1> DEFINE S(n) == CHOOSE f : Solves(f, n)
             h == [p \in D |-> S(R(p) + 1)[p]]
  <1>6. \A n \in Nat : Solves(S(n), n)
    <2> HIDE DEF Solves
    <2> QED BY <1>5, Zenon
  <1>7. \A p \in D : h[p] = S(R(p) + 1)[p]
    OBVIOUS
  <1>8. h = [p \in D |-> h[p]]
    OBVIOUS
  <1> HIDE DEF h, S
  <1>9. ASSUME NEW p \in D PROVE h[p] = Turn(fn, a, h, p)
    <2> DEFINE n == R(p) + 1
    <2>1. n \in Nat /\ R(p) < n
      BY <1>1
    <2>2. S(n)[p] = Turn(fn, a, S(n), p)
      BY <1>6, <2>1
    <2>3. ASSUME NEW c \in D, R(c) < R(p) PROVE S(n)[c] = h[c]
      <3>1. R(c) \in Nat /\ R(c) + 1 \in Nat /\ R(c) < R(c) + 1 /\ R(c) + 1 \in Q
        BY <1>1, <1>5
      <3>2. Solves(S(R(c) + 1), R(c) + 1)
        BY <1>6, <3>1
      <3>3. Solves(S(n), R(c) + 1)
        BY <1>1, <1>6, <2>1, <2>3
      <3>4. S(n)[c] = S(R(c) + 1)[c]
        BY <3>1, <3>2, <3>3
      <3> QED BY <1>7, <3>4
    <2>4. Turn(fn, a, S(n), p) = Turn(fn, a, h, p)
      <3> HIDE DEF n
      <3> QED BY <2>3, Zenon DEF Local
    <2> QED BY <1>7, <2>2, <2>4
  <1>10. h = [p \in D |-> Turn(fn, a, h, p)]
    BY <1>8, <1>9, Zenon
  <1> QED BY <1>10, Zenon

\* The entries of the three tables.
LEMMA TurnIs ==
    ASSUME NEW a, NEW f, NEW p
    PROVE  /\ Turn("twoto", a, f, p) = TwoToTurn(f, p)
           /\ Turn("ones", a, f, p) = OnesTurn(f, p)
           /\ Turn("bag", a, f, p) = BagTurn(a, f, p)
           /\ Turn("grow", a, f, p) = GrowTurn(a, f, p)
           /\ Turn("down", a, f, p) = DownTurn(f, p)
           /\ Turn("up", a, f, p) = UpTurn(a, f, p)
           /\ Turn("split", a, f, p) = SplitTurn(f, p)
           /\ Turn("path", a, f, p) = PathTurn(a, f, p)
           /\ Turn("hash", a, f, p) = HashTurn(a, f, p)
           /\ Turn("merge", a, f, p) = MergeTurn(f, p)
           /\ Turn("add", a, f, p) = AddTurn(f, p)
           /\ Turn("node", a, f, p) = NodeTurn(a, f, p)
           /\ Turn("sum", a, f, p) = SumTurn(a, f, p)
           /\ Turn("walk", a, f, p) = GuardedTurn(a, f, p)
           /\ Turn("run", a, f, p) = RunTurn(a, f, p)
  BY DEF Turn

\* The domains of the tables.
LEMMA CallsAre ==
    /\ \A fn \in {"twoto", "ones", "bag", "grow", "up", "hash", "add", "sum", "run"} : Calls(fn) = Nat
    /\ Calls("down") = Nat \X Nat /\ Calls("path") = Int \X Nat
    /\ Calls("split") = Nat \X Nat \X Nat /\ Calls("node") = Int \X Nat \X Nat
    /\ Calls("walk") = Int \X Nat \X Nat \X Nat
    /\ Calls("merge") = Seq(Nat \X Nat \X Nat)
  BY DEF Calls

\* What falls in each table.
LEMMA RankIs ==
    ASSUME NEW a, NEW p
    PROVE  /\ \A fn \in {"twoto", "ones", "hash", "add", "sum", "run"} : Rank(fn, a, p) = p
           /\ \A fn \in {"down", "path", "node", "walk"} : Rank(fn, a, p) = p[2]
           /\ Rank("split", a, p) = p[1] /\ Rank("merge", a, p) = Len(p)
           /\ Rank("bag", a, p) = Left(Len(a), p) /\ Rank("grow", a, p) = Left(a + 1, p)
           /\ Rank("up", a, p) = Left(a, p)
  BY DEF Rank

\* What the definitions by recursion on a number come to.
LEMMA TwoToUnfolds == \A h \in Nat : TwoTo[h] = IF h = 0 THEN 1 ELSE 2 * TwoTo[h - 1]
  <1>1. Local("twoto", 0)
    <2> SUFFICES ASSUME NEW f, NEW g, NEW p \in Nat, \A c \in Nat : c < p => f[c] = g[c]
                 PROVE  TwoToTurn(f, p) = TwoToTurn(g, p)
      BY TurnIs, CallsAre, RankIs DEF Local
    <2> QED BY DEF TwoToTurn
  <1>2. \E f : f = [p \in Nat |-> TwoToTurn(f, p)]
    <2>1. PICK f : f = [p \in Calls("twoto") |-> Turn("twoto", 0, f, p)]
      BY <1>1, CallsAre, RankIs, Recursion
    <2>2. f = [p \in Nat |-> TwoToTurn(f, p)]
      BY <2>1, TurnIs, CallsAre
    <2> QED BY <2>2
  <1>3. TwoTo = [p \in Nat |-> TwoToTurn(TwoTo, p)]
    BY <1>2, Zenon DEF TwoTo, TwoToTurn
  <1>4. \A p \in Nat : TwoTo[p] = TwoToTurn(TwoTo, p)
    BY <1>3, Zenon
  <1> QED BY <1>4 DEF TwoToTurn

\* Powers of two are numbers beyond their exponent.
LEMMA TwoToAbove == \A h \in Nat : TwoTo[h] \in Nat /\ TwoTo[h] >= 1 /\ h < TwoTo[h]
  <1> DEFINE P == {h \in Nat : TwoTo[h] \in Nat /\ TwoTo[h] >= 1 /\ h < TwoTo[h]}
  <1>1. ASSUME NEW n \in Nat, \A mm \in 0..(n - 1) : mm \in P PROVE n \in P
    <2>1. CASE n = 0
      BY <2>1, TwoToUnfolds
    <2>2. CASE n # 0
      <3>1. n - 1 \in P /\ n - 1 \in Nat
        BY <1>1, <2>2
      <3>2. TwoTo[n] = 2 * TwoTo[n - 1]
        BY <2>2, TwoToUnfolds
      <3> QED BY <3>1, <3>2
    <2> QED BY <2>1, <2>2
  <1>2. P = Nat
    <2>1. P \in SUBSET Nat
      OBVIOUS
    <2> HIDE DEF P
    <2> QED BY <1>1, <2>1, NatStrong
  <1> QED BY <1>2

\* A mountain of height h has at least h nodes, and two of them and a node more
\* are the next one.
LEMMA SizeAbove ==
    \A h \in Nat : /\ MountainSize(h) \in Nat /\ MountainSize(h) >= 1 /\ h < MountainSize(h)
                   /\ MountainSize(h + 1) = 2 * MountainSize(h) + 1
                   /\ MountainSize(h) = 2 * TwoTo[h] - 1
  <1> SUFFICES ASSUME NEW h \in Nat
               PROVE  /\ MountainSize(h) \in Nat /\ MountainSize(h) >= 1 /\ h < MountainSize(h)
                      /\ MountainSize(h + 1) = 2 * MountainSize(h) + 1
                      /\ MountainSize(h) = 2 * TwoTo[h] - 1
    OBVIOUS
  <1>1. TwoTo[h + 1] = 2 * TwoTo[h] /\ TwoTo[h + 1 + 1] = 2 * TwoTo[h + 1]
    BY TwoToUnfolds
  <1>2. TwoTo[h] \in Nat /\ TwoTo[h] >= 1 /\ h < TwoTo[h]
    BY TwoToAbove
  <1> QED BY <1>1, <1>2 DEF MountainSize

\* What is left of a count is never negative.
LEMMA LeftIs == \A n, p \in Nat : Left(n, p) \in Nat
  BY DEF Left

\* The functions that the operators of Mmr and MmrReference define inside.
Ones == CHOOSE ones : ones = [n \in Nat |-> OnesTurn(ones, n)]
Bag(ps) == CHOOSE bag : bag = [i \in Nat |-> BagTurn(ps, bag, i)]
Grow(pos) == CHOOSE grow : grow = [h \in Nat |-> GrowTurn(pos, grow, h)]
Up(n) == CHOOSE up : up = [h \in Nat |-> UpTurn(n, up, h)]
Down == CHOOSE down : down = [p \in Nat \X Nat |-> DownTurn(down, p)]
Split == CHOOSE split : split = [p \in Nat \X Nat \X Nat |-> SplitTurn(split, p)]
Path(goal) == CHOOSE path : path = [p \in Int \X Nat |-> PathTurn(goal, path, p)]
Hash(start, path, witness) ==
    CHOOSE hash : hash = [i \in Nat |->
        HashTurn([start |-> start, path |-> path, witness |-> witness], hash, i)]
Nodes(h) == CHOOSE node : node = [t \in Int \X Nat \X Nat |-> NodeTurn(h, node, t)]
Sums(v) == CHOOSE sum : sum = [i \in Nat |-> SumTurn(v, sum, i)]
Grown == CHOOSE add : add = [i \in Nat |-> AddTurn(add, i)]

\* The digit sum of node_count.
LEMMA OnesUnfolds ==
    \A p \in Nat : Ones[p] = OnesTurn(Ones, p)
  <1>1. Local("ones", 0)
    <2> SUFFICES ASSUME NEW f, NEW g, NEW p \in Nat,
                        \A c \in Nat : c < p => f[c] = g[c]
                 PROVE  OnesTurn(f, p) = OnesTurn(g, p)
      BY TurnIs, CallsAre, RankIs DEF Local
    <2>1. CASE p = 0
      BY <2>1 DEF OnesTurn
    <2>2. CASE p # 0
      <3>1. p \div 2 \in Nat /\ p \div 2 < p
        BY <2>2
      <3>2. f[p \div 2] = g[p \div 2]
        BY <3>1
      <3> QED BY <3>2 DEF OnesTurn
    <2> QED BY <2>1, <2>2
  <1>2. \E f : f = [p \in Nat |-> OnesTurn(f, p)]
    <2>1. PICK f : f = [p \in Calls("ones") |-> Turn("ones", 0, f, p)]
      <3>1. \A p \in Calls("ones") : Rank("ones", 0, p) \in Nat
        BY CallsAre, RankIs
      <3> QED BY <1>1, <3>1, Recursion
    <2>2. f = [p \in Nat |-> OnesTurn(f, p)]
      BY <2>1, TurnIs, CallsAre
    <2> QED BY <2>2
  <1>3. Ones = [p \in Nat |-> OnesTurn(Ones, p)]
    BY <1>2, Zenon DEF Ones
  <1> QED BY <1>3, Zenon

\* The peaks are bagged from the right.
LEMMA BagUnfolds ==
    ASSUME NEW ps, Len(ps) \in Nat
    PROVE  \A p \in Nat : Bag(ps)[p] = BagTurn(ps, Bag(ps), p)
  <1>1. Local("bag", ps)
    <2> SUFFICES ASSUME NEW f, NEW g, NEW p \in Nat,
                        \A c \in Nat : Left(Len(ps), c) < Left(Len(ps), p) => f[c] = g[c]
                 PROVE  BagTurn(ps, f, p) = BagTurn(ps, g, p)
      BY TurnIs, CallsAre, RankIs DEF Local
    <2>1. CASE p >= Len(ps)
      BY <2>1 DEF BagTurn
    <2>2. CASE p < Len(ps)
      <3>1. p + 1 \in Nat /\ Left(Len(ps), p + 1) < Left(Len(ps), p)
        BY <2>2 DEF Left
      <3>2. f[p + 1] = g[p + 1]
        BY <3>1
      <3> QED BY <2>2, <3>2 DEF BagTurn
    <2> QED BY <2>1, <2>2
  <1>2. \E f : f = [p \in Nat |-> BagTurn(ps, f, p)]
    <2>1. PICK f : f = [p \in Calls("bag") |-> Turn("bag", ps, f, p)]
      <3>1. \A p \in Calls("bag") : Rank("bag", ps, p) \in Nat
        BY CallsAre, RankIs, LeftIs
      <3> QED BY <1>1, <3>1, Recursion
    <2>2. f = [p \in Nat |-> BagTurn(ps, f, p)]
      BY <2>1, TurnIs, CallsAre
    <2> QED BY <2>2
  <1>3. Bag(ps) = [p \in Nat |-> BagTurn(ps, Bag(ps), p)]
    BY <1>2, Zenon DEF Bag
  <1> QED BY <1>3, Zenon

\* The first loop of height_at.
LEMMA GrowUnfolds ==
    ASSUME NEW pos \in Nat
    PROVE  \A p \in Nat : Grow(pos)[p] = GrowTurn(pos, Grow(pos), p)
  <1>1. Local("grow", pos)
    <2> SUFFICES ASSUME NEW f, NEW g, NEW p \in Nat,
                        \A c \in Nat : Left(pos + 1, c) < Left(pos + 1, p) => f[c] = g[c]
                 PROVE  GrowTurn(pos, f, p) = GrowTurn(pos, g, p)
      BY TurnIs, CallsAre, RankIs DEF Local
    <2>1. CASE ~(MountainSize(p) < pos + 1)
      BY <2>1 DEF GrowTurn
    <2>2. CASE MountainSize(p) < pos + 1
      <3>1. p + 1 \in Nat /\ Left(pos + 1, p + 1) < Left(pos + 1, p)
        BY <2>2, SizeAbove DEF Left
      <3>2. f[p + 1] = g[p + 1]
        BY <3>1
      <3> QED BY <2>2, <3>2 DEF GrowTurn
    <2> QED BY <2>1, <2>2
  <1>2. \E f : f = [p \in Nat |-> GrowTurn(pos, f, p)]
    <2>1. PICK f : f = [p \in Calls("grow") |-> Turn("grow", pos, f, p)]
      <3>1. \A p \in Calls("grow") : Rank("grow", pos, p) \in Nat
        <4>1. pos + 1 \in Nat /\ Calls("grow") = Nat
          BY CallsAre
        <4>2. \A p : Rank("grow", pos, p) = Left(pos + 1, p)
          BY RankIs
        <4> QED BY <4>1, <4>2, LeftIs
      <3> QED BY <1>1, <3>1, Recursion
    <2>2. f = [p \in Nat |-> GrowTurn(pos, f, p)]
      BY <2>1, TurnIs, CallsAre
    <2> QED BY <2>2
  <1>3. Grow(pos) = [p \in Nat |-> GrowTurn(pos, Grow(pos), p)]
    BY <1>2, Zenon DEF Grow
  <1> QED BY <1>3, Zenon

\* The inner loop of peaks.
LEMMA UpUnfolds ==
    ASSUME NEW n \in Nat
    PROVE  \A p \in Nat : Up(n)[p] = UpTurn(n, Up(n), p)
  <1>1. Local("up", n)
    <2> SUFFICES ASSUME NEW f, NEW g, NEW p \in Nat,
                        \A c \in Nat : Left(n, c) < Left(n, p) => f[c] = g[c]
                 PROVE  UpTurn(n, f, p) = UpTurn(n, g, p)
      BY TurnIs, CallsAre, RankIs DEF Local
    <2>1. CASE ~(MountainSize(p + 1) <= n)
      BY <2>1 DEF UpTurn
    <2>2. CASE MountainSize(p + 1) <= n
      <3>1. p + 1 \in Nat /\ p + 1 < MountainSize(p + 1) /\ MountainSize(p + 1) \in Nat
        BY SizeAbove
      <3>2. Left(n, p + 1) < Left(n, p)
        BY <2>2, <3>1 DEF Left
      <3>3. f[p + 1] = g[p + 1]
        BY <3>1, <3>2
      <3> QED BY <2>2, <3>3 DEF UpTurn
    <2> QED BY <2>1, <2>2
  <1>2. \E f : f = [p \in Nat |-> UpTurn(n, f, p)]
    <2>1. PICK f : f = [p \in Calls("up") |-> Turn("up", n, f, p)]
      <3>1. \A p \in Calls("up") : Rank("up", n, p) \in Nat
        BY CallsAre, RankIs, LeftIs
      <3> QED BY <1>1, <3>1, Recursion
    <2>2. f = [p \in Nat |-> UpTurn(n, f, p)]
      BY <2>1, TurnIs, CallsAre
    <2> QED BY <2>2
  <1>3. Up(n) = [p \in Nat |-> UpTurn(n, Up(n), p)]
    BY <1>2, Zenon DEF Up
  <1> QED BY <1>3, Zenon

\* The second loop of height_at.
LEMMA DownUnfolds ==
    \A p \in (Nat \X Nat) : Down[p] = DownTurn(Down, p)
  <1>1. Local("down", 0)
    <2> SUFFICES ASSUME NEW f, NEW g, NEW p \in (Nat \X Nat),
                        \A c \in (Nat \X Nat) : c[2] < p[2] => f[c] = g[c]
                 PROVE  DownTurn(f, p) = DownTurn(g, p)
      BY TurnIs, CallsAre, RankIs DEF Local
    <2>1. CASE p[2] = 0 \/ p[1] = MountainSize(p[2])
      BY <2>1 DEF DownTurn
    <2>2. CASE p[2] # 0 /\ p[1] # MountainSize(p[2])
      <3> DEFINE c == <<IF InRightHalf(p[1], p[2]) THEN p[1] - (TwoTo[p[2]] - 1) ELSE p[1], p[2] - 1>>
      <3>1. c \in Nat \X Nat /\ c[2] < p[2]
        BY <2>2, TwoToAbove DEF InRightHalf
      <3> HIDE DEF c
      <3>2. f[c] = g[c]
        BY <3>1
      <3> QED BY <2>2, <3>2 DEF DownTurn, c
    <2> QED BY <2>1, <2>2
  <1>2. \E f : f = [p \in (Nat \X Nat) |-> DownTurn(f, p)]
    <2>1. PICK f : f = [p \in Calls("down") |-> Turn("down", 0, f, p)]
      <3>1. \A p \in Calls("down") : Rank("down", 0, p) \in Nat
        BY CallsAre, RankIs
      <3> QED BY <1>1, <3>1, Recursion
    <2>2. f = [p \in (Nat \X Nat) |-> DownTurn(f, p)]
      BY <2>1, TurnIs, CallsAre
    <2> QED BY <2>2
  <1>3. Down = [p \in (Nat \X Nat) |-> DownTurn(Down, p)]
    BY <1>2, Zenon DEF Down
  <1> QED BY <1>3, Zenon

\* The loop of locate_path.
LEMMA PathUnfolds ==
    ASSUME NEW goal
    PROVE  \A p \in (Int \X Nat) : Path(goal)[p] = PathTurn(goal, Path(goal), p)
  <1>1. Local("path", goal)
    <2> SUFFICES ASSUME NEW f, NEW g, NEW p \in (Int \X Nat),
                        \A c \in (Int \X Nat) : c[2] < p[2] => f[c] = g[c]
                 PROVE  PathTurn(goal, f, p) = PathTurn(goal, g, p)
      BY TurnIs, CallsAre, RankIs DEF Local
    <2>1. CASE p[2] = 0 \/ p[1] = goal
      BY <2>1 DEF PathTurn
    <2>2. CASE p[2] # 0 /\ p[1] # goal
      <3> DEFINE c == <<IF goal <= p[1] - TwoTo[p[2]] THEN p[1] - TwoTo[p[2]] ELSE p[1] - 1, p[2] - 1>>
      <3>1. c \in Int \X Nat /\ c[2] < p[2]
        BY <2>2, TwoToAbove
      <3> HIDE DEF c
      <3>2. f[c] = g[c]
        BY <3>1
      <3> QED BY <2>2, <3>2 DEF PathTurn, c
    <2> QED BY <2>1, <2>2
  <1>2. \E f : f = [p \in (Int \X Nat) |-> PathTurn(goal, f, p)]
    <2>1. PICK f : f = [p \in Calls("path") |-> Turn("path", goal, f, p)]
      <3>1. \A p \in Calls("path") : Rank("path", goal, p) \in Nat
        BY CallsAre, RankIs
      <3> QED BY <1>1, <3>1, Recursion
    <2>2. f = [p \in (Int \X Nat) |-> PathTurn(goal, f, p)]
      BY <2>1, TurnIs, CallsAre, ZenonT(60)
    <2> QED BY <2>2
  <1>3. Path(goal) = [p \in (Int \X Nat) |-> PathTurn(goal, Path(goal), p)]
    BY <1>2, Zenon DEF Path
  <1> QED BY <1>3, Zenon

\* The loop that hashes a digest up a path.
LEMMA HashUnfolds ==
    ASSUME NEW start, NEW path, NEW witness
    PROVE  \A p \in Nat : Hash(start, path, witness)[p] = HashTurn([start |-> start, path |-> path, witness |-> witness], Hash(start, path, witness), p)
  <1>1. Local("hash", [start |-> start, path |-> path, witness |-> witness])
    <2> SUFFICES ASSUME NEW f, NEW g, NEW p \in Nat,
                        \A c \in Nat : c < p => f[c] = g[c]
                 PROVE  HashTurn([start |-> start, path |-> path, witness |-> witness], f, p) = HashTurn([start |-> start, path |-> path, witness |-> witness], g, p)
      BY TurnIs, CallsAre, RankIs DEF Local
    <2> QED BY DEF HashTurn
  <1>2. \E f : f = [p \in Nat |-> HashTurn([start |-> start, path |-> path, witness |-> witness], f, p)]
    <2>1. PICK f : f = [p \in Calls("hash") |-> Turn("hash", [start |-> start, path |-> path, witness |-> witness], f, p)]
      <3>1. \A p \in Calls("hash") : Rank("hash", [start |-> start, path |-> path, witness |-> witness], p) \in Nat
        BY CallsAre, RankIs
      <3> QED BY <1>1, <3>1, Recursion
    <2>2. f = [p \in Nat |-> HashTurn([start |-> start, path |-> path, witness |-> witness], f, p)]
      BY <2>1, TurnIs, CallsAre
    <2> QED BY <2>2
  <1>3. Hash(start, path, witness) = [p \in Nat |-> HashTurn([start |-> start, path |-> path, witness |-> witness], Hash(start, path, witness), p)]
    BY <1>2, Zenon DEF Hash
  <1> QED BY <1>3, Zenon

\* The nodes of a mountain range.
LEMMA NodeUnfolds ==
    ASSUME NEW h
    PROVE  \A p \in (Int \X Nat \X Nat) : Nodes(h)[p] = NodeTurn(h, Nodes(h), p)
  <1>1. Local("node", h)
    <2> SUFFICES ASSUME NEW f, NEW g, NEW p \in (Int \X Nat \X Nat),
                        \A c \in (Int \X Nat \X Nat) : c[2] < p[2] => f[c] = g[c]
                 PROVE  NodeTurn(h, f, p) = NodeTurn(h, g, p)
      BY TurnIs, CallsAre, RankIs DEF Local
    <2>1. CASE p[2] = 0
      BY <2>1 DEF NodeTurn
    <2>2. CASE p[2] # 0
      <3> DEFINE l == LeftOf(p)
                 r == RightOf(p)
      <3>1. /\ l \in Int \X Nat \X Nat /\ l[2] < p[2]
            /\ r \in Int \X Nat \X Nat /\ r[2] < p[2]
        BY <2>2, TwoToAbove DEF LeftOf, RightOf
      <3> HIDE DEF l, r
      <3>2. f[l] = g[l] /\ f[r] = g[r]
        BY <3>1
      <3> QED BY <2>2, <3>2 DEF NodeTurn, l, r
    <2> QED BY <2>1, <2>2
  <1>2. \E f : f = [p \in (Int \X Nat \X Nat) |-> NodeTurn(h, f, p)]
    <2>1. PICK f : f = [p \in Calls("node") |-> Turn("node", h, f, p)]
      <3>1. \A p \in Calls("node") : Rank("node", h, p) \in Nat
        BY CallsAre, RankIs
      <3> QED BY <1>1, <3>1, Recursion
    <2>2. f = [p \in (Int \X Nat \X Nat) |-> NodeTurn(h, f, p)]
      BY <2>1, TurnIs, CallsAre
    <2> QED BY <2>2
  <1>3. Nodes(h) = [p \in (Int \X Nat \X Nat) |-> NodeTurn(h, Nodes(h), p)]
    BY <1>2, Zenon DEF Nodes
  <1> QED BY <1>3, Zenon

\* SumOver, one summand at a time.
LEMMA SumUnfolds ==
    ASSUME NEW v
    PROVE  \A p \in Nat : Sums(v)[p] = SumTurn(v, Sums(v), p)
  <1>1. Local("sum", v)
    <2> SUFFICES ASSUME NEW f, NEW g, NEW p \in Nat,
                        \A c \in Nat : c < p => f[c] = g[c]
                 PROVE  SumTurn(v, f, p) = SumTurn(v, g, p)
      BY TurnIs, CallsAre, RankIs DEF Local
    <2> QED BY DEF SumTurn
  <1>2. \E f : f = [p \in Nat |-> SumTurn(v, f, p)]
    <2>1. PICK f : f = [p \in Calls("sum") |-> Turn("sum", v, f, p)]
      <3>1. \A p \in Calls("sum") : Rank("sum", v, p) \in Nat
        BY CallsAre, RankIs
      <3> QED BY <1>1, <3>1, Recursion
    <2>2. f = [p \in Nat |-> SumTurn(v, f, p)]
      BY <2>1, TurnIs, CallsAre
    <2> QED BY <2>2
  <1>3. Sums(v) = [p \in Nat |-> SumTurn(v, Sums(v), p)]
    BY <1>2, Zenon DEF Sums
  <1> QED BY <1>3, Zenon

\* A log grows by one leaf at a time.
LEMMA AddUnfolds ==
    \A p \in Nat : Grown[p] = AddTurn(Grown, p)
  <1>1. Local("add", 0)
    <2> SUFFICES ASSUME NEW f, NEW g, NEW p \in Nat,
                        \A c \in Nat : c < p => f[c] = g[c]
                 PROVE  AddTurn(f, p) = AddTurn(g, p)
      BY TurnIs, CallsAre, RankIs DEF Local
    <2> QED BY DEF AddTurn
  <1>2. \E f : f = [p \in Nat |-> AddTurn(f, p)]
    <2>1. PICK f : f = [p \in Calls("add") |-> Turn("add", 0, f, p)]
      <3>1. \A p \in Calls("add") : Rank("add", 0, p) \in Nat
        BY CallsAre, RankIs
      <3> QED BY <1>1, <3>1, Recursion
    <2>2. f = [p \in Nat |-> AddTurn(f, p)]
      BY <2>1, TurnIs, CallsAre
    <2> QED BY <2>2
  <1>3. Grown = [p \in Nat |-> AddTurn(Grown, p)]
    BY <1>2, Zenon DEF Grown
  <1> QED BY <1>3, Zenon

\* The inner loop of peaks finds the tallest mountain that fits.
LEMMA TallestIs ==
    ASSUME NEW n \in Nat, n >= 1
    PROVE  /\ Tallest(n) \in Nat
           /\ MountainSize(Tallest(n)) <= n /\ n < MountainSize(Tallest(n) + 1)
  <1> DEFINE Good(h) == h \in Nat /\ MountainSize(h) <= n /\ n < MountainSize(h + 1)
             P == {k \in Nat : \A p \in Nat : MountainSize(p) <= n /\ n - p = k => Good(Up(n)[p])}
  <1>1. ASSUME NEW k \in Nat, \A mm \in 0..(k - 1) : mm \in P PROVE k \in P
    <2> SUFFICES ASSUME NEW p \in Nat, MountainSize(p) <= n, n - p = k PROVE Good(Up(n)[p])
      OBVIOUS
    <2>0. MountainSize(p + 1) \in Nat /\ p + 1 < MountainSize(p + 1) /\ p + 1 \in Nat
      BY SizeAbove
    <2>1. Up(n)[p] = IF MountainSize(p + 1) <= n THEN Up(n)[p + 1] ELSE p
      BY UpUnfolds DEF UpTurn
    <2>2. CASE MountainSize(p + 1) <= n
      <3>1. n - (p + 1) = k - 1 /\ k - 1 \in 0..(k - 1)
        BY <2>0, <2>2
      <3>2. k - 1 \in P
        BY <1>1, <3>1
      <3>3. Good(Up(n)[p + 1])
        BY <2>0, <2>2, <3>1, <3>2
      <3> QED BY <2>1, <2>2, <3>3
    <2>3. CASE ~(MountainSize(p + 1) <= n)
      BY <2>0, <2>1, <2>3
    <2> QED BY <2>2, <2>3
  <1>2. P = Nat
    <2>1. P \in SUBSET Nat
      OBVIOUS
    <2> HIDE DEF P
    <2> QED BY <1>1, <2>1, NatStrong
  <1>3. MountainSize(0) <= n
    BY TwoToUnfolds DEF MountainSize
  <1>4. Good(Up(n)[0])
    <2>1. n - 0 \in P
      BY <1>2
    <2> QED BY <1>3, <2>1
  <1>5. Tallest(n) = Up(n)[0]
    BY Zenon DEF Tallest, Up, UpTurn
  <1> QED BY <1>4, <1>5

\* The first loop of height_at ends at a mountain that reaches the position.
LEMMA GrowIs ==
    ASSUME NEW pos \in Nat
    PROVE  Grow(pos)[0] \in Nat /\ pos + 1 <= MountainSize(Grow(pos)[0])
  <1> DEFINE Good(h) == h \in Nat /\ pos + 1 <= MountainSize(h)
             P == {k \in Nat : \A p \in Nat : p <= pos + 1 /\ pos + 1 - p = k => Good(Grow(pos)[p])}
  <1>1. ASSUME NEW k \in Nat, \A mm \in 0..(k - 1) : mm \in P PROVE k \in P
    <2> SUFFICES ASSUME NEW p \in Nat, p <= pos + 1, pos + 1 - p = k PROVE Good(Grow(pos)[p])
      OBVIOUS
    <2>0. MountainSize(p) \in Nat /\ p < MountainSize(p) /\ p + 1 \in Nat
      BY SizeAbove
    <2>1. Grow(pos)[p] = IF MountainSize(p) < pos + 1 THEN Grow(pos)[p + 1] ELSE p
      BY GrowUnfolds DEF GrowTurn
    <2>2. CASE MountainSize(p) < pos + 1
      <3>1. pos + 1 - (p + 1) = k - 1 /\ k - 1 \in 0..(k - 1) /\ p + 1 <= pos + 1
        BY <2>0, <2>2
      <3>2. k - 1 \in P
        BY <1>1, <3>1
      <3>3. Good(Grow(pos)[p + 1])
        BY <2>0, <2>2, <3>1, <3>2
      <3> QED BY <2>1, <2>2, <3>3
    <2>3. CASE ~(MountainSize(p) < pos + 1)
      BY <2>0, <2>1, <2>3
    <2> QED BY <2>2, <2>3
  <1>2. P = Nat
    <2>1. P \in SUBSET Nat
      OBVIOUS
    <2> HIDE DEF P
    <2> QED BY <1>1, <2>1, NatStrong
  <1>3. pos + 1 - 0 \in P
    BY <1>2
  <1> QED BY <1>3

\* The outer loop of peaks.
LEMMA SplitUnfolds ==
    \A p \in (Nat \X Nat \X Nat) : Split[p] = SplitTurn(Split, p)
  <1>1. Local("split", 0)
    <2> SUFFICES ASSUME NEW f, NEW g, NEW p \in (Nat \X Nat \X Nat),
                        \A c \in (Nat \X Nat \X Nat) : c[1] < p[1] => f[c] = g[c]
                 PROVE  SplitTurn(f, p) = SplitTurn(g, p)
      BY TurnIs, CallsAre, RankIs DEF Local
    <2> DEFINE h == Tallest(p[1])
               c == <<p[1] - MountainSize(h), p[2] + MountainSize(h), h>>
    <2>1. CASE p[1] = 0
      BY <2>1 DEF SplitTurn
    <2>2. CASE p[1] # 0
      <3>1. p[1] \in Nat /\ p[1] >= 1 /\ p[2] \in Nat
        BY <2>2
      <3>2. h \in Nat /\ MountainSize(h) <= p[1] /\ MountainSize(h) \in Nat /\ MountainSize(h) >= 1
        BY <3>1, TallestIs, SizeAbove
      <3>3. c \in Nat \X Nat \X Nat /\ c[1] < p[1]
        BY <3>1, <3>2
      <3>4. f[c] = g[c]
        <4> HIDE DEF c
        <4> QED BY <3>3
      <3>5. \A fn : SplitTurn(fn, p) = IF ~FallsBelow(h, p[3]) \/ fn[c] = NoPeaks THEN NoPeaks
                                       ELSE <<p[2] + MountainSize(h) - 1>> \o fn[c]
        <4> HIDE DEF c, h
        <4> QED BY <2>2, <3>1 DEF SplitTurn, c, h
      <3> HIDE DEF c, h
      <3> QED BY <3>4, <3>5
    <2> QED BY <2>1, <2>2
  <1>2. \E f : f = [p \in (Nat \X Nat \X Nat) |-> SplitTurn(f, p)]
    <2>1. PICK f : f = [p \in Calls("split") |-> Turn("split", 0, f, p)]
      <3>1. \A p \in Calls("split") : Rank("split", 0, p) \in Nat
        BY CallsAre, RankIs
      <3> QED BY <1>1, <3>1, Recursion
    <2>2. f = [p \in (Nat \X Nat \X Nat) |-> SplitTurn(f, p)]
      BY <2>1, TurnIs, CallsAre
    <2> QED BY <2>2
  <1>3. Split = [p \in (Nat \X Nat \X Nat) |-> SplitTurn(Split, p)]
    BY <1>2, Zenon DEF Split
  <1> QED BY <1>3, Zenon

Triples == Nat \X Nat \X Nat

\* The last two mountains of a range as one.
Merged(ms) ==
    Append(SubSeq(ms, 1, Len(ms) - 2),
           <<ms[Len(ms)][1] + 1, ms[Len(ms)][2] + 1, ms[Len(ms) - 1][3]>>)

\* Merging two mountains makes a mountain.
LEMMA TripleMade == \A t, u \in Triples : <<t[1] + 1, t[2] + 1, u[3]>> \in Triples
  BY DEF Triples

\* The entries of a list of mountains whose last two are merged.
LEMMA MergedIs ==
    ASSUME NEW ms \in Seq(Triples), Len(ms) >= 2
    PROVE  /\ Merged(ms) \in Seq(Triples) /\ Len(Merged(ms)) = Len(ms) - 1
           /\ \A i \in 1..(Len(ms) - 2) : Merged(ms)[i] = ms[i]
           /\ Merged(ms)[Len(ms) - 1] = <<ms[Len(ms)][1] + 1, ms[Len(ms)][2] + 1, ms[Len(ms) - 1][3]>>
  <1> DEFINE k == Len(ms)
             t == <<ms[k][1] + 1, ms[k][2] + 1, ms[k - 1][3]>>
             s == SubSeq(ms, 1, k - 2)
  <1>1. k \in Nat /\ k >= 2 /\ k - 1 \in 1..k /\ k \in 1..k /\ k - 2 \in 0..k
    OBVIOUS
  <1>2. ms[k] \in Triples /\ ms[k - 1] \in Triples
    <2> HIDE DEF k
    <2>1. k = Len(ms)
      BY DEF k
    <2> QED BY <1>1, <2>1
  <1>3. t \in Triples
    <2> HIDE DEF k
    <2> QED BY <1>2, TripleMade
  <1>4. s \in Seq(Triples) /\ Len(s) = k - 2 /\ \A i \in 1..(k - 2) : s[i] = ms[i]
    <2> HIDE DEF k
    <2>1. 1 \in 1..(Len(ms) + 1) /\ k - 2 \in 0..Len(ms)
      BY <1>1 DEF k
    <2> QED BY <1>1, <2>1, SubSeqProperties
  <1> HIDE DEF t, s, k
  <1>5. /\ Append(s, t) \in Seq(Triples) /\ Len(Append(s, t)) = k - 1
        /\ \A i \in 1..(k - 2) : Append(s, t)[i] = s[i]
        /\ Append(s, t)[k - 1] = t
    BY <1>1, <1>3, <1>4
  <1>6. Merged(ms) = Append(s, t)
    BY DEF Merged, s, t, k
  <1>7. k = Len(ms)
    BY DEF k
  <1> QED BY <1>4, <1>5, <1>6, <1>7 DEF t

\* The last two mountains are merged while they are equally high.
LEMMA MergeUnfolds ==
    ASSUME NEW ms \in Seq(Triples)
    PROVE  Merge[ms] = IF Len(ms) >= 2 /\ ms[Len(ms) - 1][2] = ms[Len(ms)][2]
                       THEN Merge[Merged(ms)] ELSE ms
  <1>0. \A f, s : MergeTurn(f, s) = IF Len(s) >= 2 /\ s[Len(s) - 1][2] = s[Len(s)][2]
                                    THEN f[Merged(s)] ELSE s
    BY Zenon DEF MergeTurn, Merged
  <1>c. Calls("merge") = Seq(Triples)
    BY CallsAre DEF Triples
  <1>1. Local("merge", 0)
    <2> SUFFICES ASSUME NEW f, NEW g, NEW p \in Seq(Triples),
                        \A c \in Seq(Triples) : Len(c) < Len(p) => f[c] = g[c]
                 PROVE  MergeTurn(f, p) = MergeTurn(g, p)
      BY <1>c, TurnIs, RankIs DEF Local
    <2>1. CASE Len(p) >= 2
      <3>1. Merged(p) \in Seq(Triples) /\ Len(Merged(p)) < Len(p)
        BY <2>1, MergedIs
      <3>2. f[Merged(p)] = g[Merged(p)]
        BY <3>1
      <3> QED BY <1>0, <3>2
    <2>2. CASE ~(Len(p) >= 2)
      BY <1>0, <2>2, Zenon
    <2> QED BY <2>1, <2>2
  <1>2. \E f : f = [p \in Seq(Triples) |-> MergeTurn(f, p)]
    <2>1. \A p \in Calls("merge") : Rank("merge", 0, p) \in Nat
      BY <1>c, RankIs
    <2>2. PICK f : f = [p \in Calls("merge") |-> Turn("merge", 0, f, p)]
      BY <1>1, <2>1, Recursion
    <2>3. \A p : Turn("merge", 0, f, p) = MergeTurn(f, p)
      BY TurnIs
    <2>4. f = [p \in Seq(Triples) |-> MergeTurn(f, p)]
      BY <1>c, <2>2, <2>3, Zenon
    <2> QED BY <2>4
  <1>3. Merge = [p \in Seq(Triples) |-> MergeTurn(Merge, p)]
    BY <1>2, Zenon DEF Merge, Triples
  <1>4. Merge[ms] = MergeTurn(Merge, ms)
    BY <1>3, Zenon
  <1> QED BY <1>0, <1>4, Zenon

-----------------------------------------------------------------------------
(* How many nodes precede a leaf.                                          *)

\* node_count takes the digit sum off twice the leaves.
LEMMA NodeCountIs == \A n : node_count(n) = 2 * n - Ones[n]
  BY Zenon DEF node_count, Ones, OnesTurn

\* The digit sum of a number and of the two numbers that have it as their half.
LEMMA OnesIs ==
    \A n \in Nat : /\ Ones[n] \in Nat /\ Ones[n] <= n
                   /\ Ones[2 * n] = Ones[n] /\ Ones[2 * n + 1] = Ones[n] + 1
  <1> DEFINE P == {n \in Nat : Ones[n] \in Nat /\ Ones[n] <= n}
  <1>0. \A n \in Nat : Ones[n] = IF n = 0 THEN 0 ELSE (n % 2) + Ones[n \div 2]
    BY OnesUnfolds DEF OnesTurn
  <1>1. ASSUME NEW n \in Nat, \A mm \in 0..(n - 1) : mm \in P PROVE n \in P
    <2>1. CASE n = 0
      BY <1>0, <2>1
    <2>2. CASE n # 0
      <3> DEFINE x == n \div 2
                 b == n % 2
      <3>1. x \in 0..(n - 1) /\ b \in 0..1 /\ n = 2 * x + b
        BY <2>2
      <3>2. Ones[n] = b + Ones[x]
        BY <1>0, <2>2
      <3> HIDE DEF x, b
      <3>3. Ones[x] \in Nat /\ Ones[x] <= x
        BY <1>1, <3>1
      <3> QED BY <3>1, <3>2, <3>3
    <2> QED BY <2>1, <2>2
  <1>2. P = Nat
    <2>1. P \in SUBSET Nat
      OBVIOUS
    <2> HIDE DEF P
    <2> QED BY <1>1, <2>1, NatStrong
  <1>3. ASSUME NEW n \in Nat PROVE Ones[2 * n] = Ones[n] /\ Ones[2 * n + 1] = Ones[n] + 1
    <2>1. Ones[n] \in Nat
      BY <1>2
    <2>2. CASE n = 0
      <3>1. Ones[0] = 0 /\ Ones[1] = (1 % 2) + Ones[1 \div 2] /\ 1 % 2 = 1 /\ 1 \div 2 = 0
        BY <1>0
      <3> QED BY <2>2, <3>1
    <2>3. CASE n # 0
      <3>1. 2 * n \in Nat /\ (2 * n) % 2 = 0 /\ (2 * n) \div 2 = n /\ 2 * n # 0
        BY <2>3
      <3>2. 2 * n + 1 \in Nat /\ (2 * n + 1) % 2 = 1 /\ (2 * n + 1) \div 2 = n /\ 2 * n + 1 # 0
        BY <2>3
      <3>3. Ones[2 * n] = 0 + Ones[n]
        BY <1>0, <3>1
      <3>4. Ones[2 * n + 1] = 1 + Ones[n]
        BY <1>0, <3>2
      <3> QED BY <2>1, <3>3, <3>4
    <2> QED BY <2>2, <2>3
  <1>4. ASSUME NEW n \in Nat PROVE Ones[n] \in Nat /\ Ones[n] <= n
    <2>1. n \in P
      BY <1>2
    <2> QED BY <2>1
  <1> HIDE DEF P
  <1> QED BY <1>3, <1>4

\* One more raises the digit sum by at most one.
LEMMA OnesStep == \A n \in Nat : Ones[n + 1] <= Ones[n] + 1
  <1> DEFINE P == {n \in Nat : Ones[n + 1] <= Ones[n] + 1}
  <1>1. ASSUME NEW n \in Nat, \A mm \in 0..(n - 1) : mm \in P PROVE n \in P
    <2> DEFINE x == n \div 2
    <2>0. x \in Nat
      OBVIOUS
    <2>1. CASE n = 2 * x
      <3> HIDE DEF x
      <3>1. Ones[2 * x] = Ones[x] /\ Ones[2 * x + 1] = Ones[x] + 1 /\ Ones[x] \in Nat
        BY <2>0, OnesIs
      <3> QED BY <2>0, <2>1, <3>1
    <2>2. CASE n = 2 * x + 1
      <3>1. x \in Nat /\ x + 1 \in Nat /\ x \in 0..(n - 1) /\ n + 1 = 2 * (x + 1)
        BY <2>2
      <3> HIDE DEF x
      <3>2. Ones[2 * x + 1] = Ones[x] + 1 /\ Ones[2 * (x + 1)] = Ones[x + 1]
            /\ Ones[x] \in Nat /\ Ones[x + 1] \in Nat
        BY <3>1, OnesIs
      <3>3. Ones[x + 1] <= Ones[x] + 1
        BY <1>1, <3>1
      <3>4. Ones[n + 1] = Ones[x + 1] /\ Ones[n] = Ones[x] + 1
        BY <2>2, <3>1, <3>2
      <3> QED BY <3>2, <3>3, <3>4
    <2>3. n = 2 * x \/ n = 2 * x + 1
      OBVIOUS
    <2> QED BY <2>1, <2>2, <2>3
  <1>2. P = Nat
    <2>1. P \in SUBSET Nat
      OBVIOUS
    <2> HIDE DEF P
    <2> QED BY <1>1, <2>1, NatStrong
  <1> QED BY <1>2

\* The high digits and the low ones.
LEMMA OnesSplit ==
    ASSUME NEW h \in Nat, NEW c \in Nat, NEW r \in Nat, r < TwoTo[h]
    PROVE  Ones[c * TwoTo[h] + r] = Ones[c] + Ones[r]
  <1> DEFINE P == {k \in Nat : \A x \in Nat : x < TwoTo[k] =>
                                   Ones[c * TwoTo[k] + x] = Ones[c] + Ones[x]}
  <1>0. Ones[c] \in Nat
    BY OnesIs
  <1>1. ASSUME NEW n \in Nat, \A mm \in 0..(n - 1) : mm \in P PROVE n \in P
    <2> SUFFICES ASSUME NEW x \in Nat, x < TwoTo[n]
                 PROVE  Ones[c * TwoTo[n] + x] = Ones[c] + Ones[x]
      OBVIOUS
    <2>1. CASE n = 0
      <3>1. TwoTo[n] = 1 /\ x = 0 /\ c * 1 + 0 = c
        BY <2>1, TwoToUnfolds
      <3>2. Ones[0] = 0
        BY OnesUnfolds DEF OnesTurn
      <3> QED BY <1>0, <3>1, <3>2
    <2>2. CASE n # 0
      <3> DEFINE w == TwoTo[n - 1]
                 y == x \div 2
                 b == x % 2
                 cw == c * w
      <3>1. TwoTo[n] = 2 * w /\ w \in Nat /\ n - 1 \in 0..(n - 1) /\ n - 1 \in Nat
        BY <2>2, TwoToUnfolds, TwoToAbove
      <3>2. y \in Nat /\ b \in 0..1 /\ x = 2 * y + b
        OBVIOUS
      <3> HIDE DEF w, y, b
      <3>3. y < w
        BY <3>1, <3>2
      <3>4. cw \in Nat /\ c * (2 * w) = 2 * cw
        BY <3>1
      <3>5. Ones[cw + y] = Ones[c] + Ones[y]
        BY <1>1, <3>1, <3>2, <3>3 DEF w
      <3> HIDE DEF cw
      <3>6. c * TwoTo[n] + x = 2 * (cw + y) + b /\ cw + y \in Nat
        BY <3>1, <3>2, <3>4
      <3>7. Ones[y] \in Nat /\ Ones[2 * y] = Ones[y] /\ Ones[2 * y + 1] = Ones[y] + 1
        BY <3>2, OnesIs
      <3>8. Ones[2 * (cw + y)] = Ones[cw + y] /\ Ones[2 * (cw + y) + 1] = Ones[cw + y] + 1
        BY <3>6, OnesIs
      <3>9. Ones[c * TwoTo[n] + x] = Ones[cw + y] + b
        <4>1. CASE b = 0
          <5>1. c * TwoTo[n] + x = 2 * (cw + y)
            BY <3>2, <3>4, <3>6, <4>1
          <5>2. Ones[cw + y] \in Nat
            BY <3>6, OnesIs
          <5> QED BY <3>8, <4>1, <5>1, <5>2
        <4>2. CASE b = 1
          BY <3>6, <3>8, <4>2
        <4> QED BY <3>2, <4>1, <4>2
      <3>10. Ones[x] = Ones[y] + b
        <4>1. CASE b = 0
          BY <3>2, <3>7, <4>1
        <4>2. CASE b = 1
          BY <3>2, <3>7, <4>2
        <4> QED BY <3>2, <4>1, <4>2
      <3> QED BY <1>0, <3>2, <3>5, <3>7, <3>9, <3>10
    <2> QED BY <2>1, <2>2
  <1>2. P = Nat
    <2>1. P \in SUBSET Nat
      OBVIOUS
    <2> HIDE DEF P
    <2> QED BY <1>1, <2>1, NatStrong
  <1> QED BY <1>2

\* The node count grows with every leaf.
LEMMA CountTyped ==
    /\ node_count(0) = 0
    /\ \A n \in Nat : /\ node_count(n) \in Nat /\ n <= node_count(n)
                      /\ node_count(n) < node_count(n + 1)
  <1>1. Ones[0] = 0
    BY OnesUnfolds DEF OnesTurn
  <1>2. ASSUME NEW n \in Nat
        PROVE  node_count(n) \in Nat /\ n <= node_count(n) /\ node_count(n) < node_count(n + 1)
    <2>1. Ones[n] \in Nat /\ Ones[n] <= n /\ Ones[n + 1] \in Nat
      BY OnesIs
    <2>2. Ones[n + 1] <= Ones[n] + 1
      BY OnesStep
    <2> QED BY <2>1, <2>2, NodeCountIs
  <1> QED BY <1>1, <1>2, NodeCountIs

\* More leaves have more nodes.
LEMMA CountGrows ==
    \A m, n \in Nat : (m < n => node_count(m) < node_count(n))
                      /\ (m <= n => node_count(m) <= node_count(n))
  <1> DEFINE P == {n \in Nat : \A m \in Nat : m < n => node_count(m) < node_count(n)}
  <1>1. ASSUME NEW n \in Nat, \A mm \in 0..(n - 1) : mm \in P PROVE n \in P
    <2> SUFFICES ASSUME NEW m \in Nat, m < n PROVE node_count(m) < node_count(n)
      OBVIOUS
    <2>1. n - 1 \in 0..(n - 1) /\ n - 1 \in Nat /\ (n - 1) + 1 = n
      OBVIOUS
    <2>2. /\ node_count(n - 1) < node_count(n)
          /\ node_count(n - 1) \in Nat /\ node_count(n) \in Nat /\ node_count(m) \in Nat
      BY <2>1, CountTyped
    <2>3. m = n - 1 \/ node_count(m) < node_count(n - 1)
      BY <1>1, <2>1
    <2> QED BY <2>2, <2>3
  <1>2. P = Nat
    <2>1. P \in SUBSET Nat
      OBVIOUS
    <2> HIDE DEF P
    <2> QED BY <1>1, <2>1, NatStrong
  <1>3. ASSUME NEW m \in Nat, NEW n \in Nat
        PROVE  (m < n => node_count(m) < node_count(n)) /\ (m <= n => node_count(m) <= node_count(n))
    <2>1. n \in P
      BY <1>2
    <2>2. node_count(m) \in Nat /\ node_count(n) \in Nat
      BY CountTyped
    <2> QED BY <2>1, <2>2
  <1> QED BY <1>3

\* A mountain of height h may start before leaf f.
Aligned(f, h) == \E c \in Nat : f = c * TwoTo[h]

\* A mountain that starts there has the nodes of a log of its own.
LEMMA CountAdds ==
    ASSUME NEW f \in Nat, NEW h \in Nat, Aligned(f, h), NEW r \in Nat, r < TwoTo[h]
    PROVE  node_count(f + r) = node_count(f) + node_count(r)
  <1>1. PICK c \in Nat : f = c * TwoTo[h]
    BY DEF Aligned
  <1>2. Ones[f + r] = Ones[c] + Ones[r]
    BY <1>1, OnesSplit
  <1>3. Ones[f] = Ones[c]
    <2>1. Ones[c * TwoTo[h] + 0] = Ones[c] + Ones[0]
      BY TwoToAbove, OnesSplit
    <2>2. Ones[0] = 0 /\ Ones[c] \in Nat
      BY OnesUnfolds, OnesIs DEF OnesTurn
    <2>3. c * TwoTo[h] + 0 = f
      BY <1>1
    <2> QED BY <2>1, <2>2, <2>3
  <1>4. Ones[f] \in Nat /\ Ones[r] \in Nat
    BY OnesIs
  <1>5. \A x, y, z : x = Ones[f] /\ y = Ones[r] /\ z = Ones[f + r] =>
            2 * (f + r) - z = (2 * f - x) + (2 * r - y)
    BY <1>2, <1>3, <1>4
  <1> QED BY <1>5, NodeCountIs

\* A mountain has as many nodes as a log of its leaves.
LEMMA CountOfMountain == \A h \in Nat : node_count(TwoTo[h]) = MountainSize(h)
  <1> SUFFICES ASSUME NEW h \in Nat PROVE node_count(TwoTo[h]) = MountainSize(h)
    OBVIOUS
  <1>1. TwoTo[h] \in Nat /\ TwoTo[h] >= 1
    BY TwoToAbove
  <1>2. Ones[1 * TwoTo[h] + 0] = Ones[1] + Ones[0]
    BY <1>1, OnesSplit
  <1>3. Ones[0] = 0 /\ Ones[2 * 0 + 1] = Ones[0] + 1
    BY OnesUnfolds, OnesIs DEF OnesTurn
  <1>4. 1 * TwoTo[h] + 0 = TwoTo[h] /\ 2 * 0 + 1 = 1
    BY <1>1
  <1>5. Ones[TwoTo[h]] = 1
    BY <1>2, <1>3, <1>4
  <1> QED BY <1>1, <1>5, SizeAbove, NodeCountIs

\* It starts anew where a multiple of its width ends.
LEMMA AlignedFacts ==
    ASSUME NEW f \in Nat, NEW h \in Nat
    PROVE  /\ Aligned(0, h)
           /\ Aligned(f, h) => Aligned(f + TwoTo[h], h)
           /\ Aligned(f, h + 1) => Aligned(f, h)
           /\ Aligned(f, h) =>
                  /\ node_count(f) + MountainSize(h) <= node_count(f + TwoTo[h])
                  /\ Aligned(f, h + 1) =>
                         node_count(f + TwoTo[h]) = node_count(f) + MountainSize(h)
  <1> DEFINE w == TwoTo[h]
  <1>0. w \in Nat /\ w >= 1 /\ TwoTo[h + 1] = 2 * w /\ w < TwoTo[h + 1]
    BY TwoToAbove, TwoToUnfolds
  <1>1. Aligned(0, h)
    <2>1. 0 = 0 * w
      BY <1>0
    <2> QED BY <2>1 DEF Aligned
  <1>2. ASSUME Aligned(f, h) PROVE Aligned(f + w, h)
    <2>1. PICK c \in Nat : f = c * w
      BY <1>2 DEF Aligned
    <2> HIDE DEF w
    <2>2. f + w = (c + 1) * w /\ c + 1 \in Nat
      BY <1>0, <2>1
    <2> QED BY <2>2 DEF Aligned, w
  <1>3. ASSUME Aligned(f, h + 1) PROVE Aligned(f, h)
    <2>1. PICK c \in Nat : f = c * TwoTo[h + 1]
      BY <1>3 DEF Aligned
    <2> HIDE DEF w
    <2>2. f = (2 * c) * w /\ 2 * c \in Nat
      BY <1>0, <2>1
    <2> QED BY <2>2 DEF Aligned, w
  <1>4. ASSUME Aligned(f, h) PROVE node_count(f) + MountainSize(h) <= node_count(f + w)
    <2>1. PICK c \in Nat : f = c * w
      BY <1>4 DEF Aligned
    <2>2. f + w = (c + 1) * w /\ c + 1 \in Nat
      <3> HIDE DEF w
      <3> QED BY <1>0, <2>1
    <2>3. Ones[c * w + 0] = Ones[c] + Ones[0] /\ Ones[(c + 1) * w + 0] = Ones[c + 1] + Ones[0]
      <3>1. \A d \in Nat : Ones[d * TwoTo[h] + 0] = Ones[d] + Ones[0]
        <4>1. 0 \in Nat /\ 0 < TwoTo[h]
          BY <1>0
        <4> QED BY <4>1, OnesSplit
      <3> QED BY <2>2, <3>1
    <2>4. Ones[0] = 0 /\ Ones[c] \in Nat /\ Ones[c + 1] \in Nat /\ Ones[c + 1] <= Ones[c] + 1
      BY <2>2, OnesUnfolds, OnesIs, OnesStep DEF OnesTurn
    <2>5. c * w + 0 = f /\ (c + 1) * w + 0 = f + w
      <3> HIDE DEF w
      <3> QED BY <1>0, <2>1, <2>2
    <2>6. Ones[f] = Ones[c] /\ Ones[f + w] = Ones[c + 1]
      BY <2>3, <2>4, <2>5
    <2>7. MountainSize(h) = 2 * w - 1
      BY SizeAbove
    <2> HIDE DEF w
    <2>8. 2 * f - Ones[f] + (2 * w - 1) <= 2 * (f + w) - Ones[f + w]
      <3> DEFINE x == Ones[f]
                 y == Ones[f + w]
      <3>1. x \in Nat /\ y \in Nat /\ y <= x + 1
        BY <2>4, <2>6
      <3> HIDE DEF x, y
      <3>2. 2 * f - x + (2 * w - 1) <= 2 * (f + w) - y
        BY <1>0, <3>1
      <3> QED BY <3>2 DEF x, y
    <2> QED BY <2>7, <2>8, NodeCountIs
  <1>5. ASSUME Aligned(f, h + 1) PROVE node_count(f + w) = node_count(f) + MountainSize(h)
    <2>1. node_count(f + w) = node_count(f) + node_count(w)
      BY <1>0, <1>5, CountAdds
    <2> QED BY <2>1, CountOfMountain
  <1> QED BY <1>1, <1>2, <1>3, <1>4, <1>5

\* A wider mountain starts and ends where narrower ones do.
LEMMA WiderAligned ==
    ASSUME NEW k \in Nat, NEW h \in Nat, k <= h
    PROVE  /\ TwoTo[k] <= TwoTo[h] /\ Aligned(TwoTo[h], k)
           /\ \A f \in Nat : Aligned(f, h) => Aligned(f, k)
  <1> DEFINE P == {j \in Nat : TwoTo[k] <= TwoTo[k + j] /\ \E c \in Nat : TwoTo[k + j] = c * TwoTo[k]}
  <1>0. TwoTo[k] \in Nat /\ TwoTo[k] >= 1 /\ TwoTo[h] \in Nat
    BY TwoToAbove
  <1>1. ASSUME NEW j \in Nat, \A mm \in 0..(j - 1) : mm \in P PROVE j \in P
    <2>1. CASE j = 0
      <3>1. k + j = k /\ TwoTo[k] = 1 * TwoTo[k]
        BY <1>0, <2>1
      <3> QED BY <1>0, <3>1
    <2>2. CASE j # 0
      <3>1. j - 1 \in P /\ k + j \in Nat /\ k + j # 0 /\ (k + j) - 1 = k + (j - 1) /\ k + (j - 1) \in Nat
        BY <1>1, <2>2
      <3>2. TwoTo[k + j] = 2 * TwoTo[k + (j - 1)] /\ TwoTo[k + (j - 1)] \in Nat
        BY <3>1, TwoToUnfolds, TwoToAbove
      <3>3. PICK c \in Nat : TwoTo[k + (j - 1)] = c * TwoTo[k]
        BY <3>1
      <3> DEFINE w == TwoTo[k]
      <3>4. 2 * (c * w) = (2 * c) * w /\ 2 * c \in Nat
        <4>1. w \in Nat
          BY <1>0
        <4> HIDE DEF w
        <4> QED BY <4>1
      <3>5. TwoTo[k] <= TwoTo[k + (j - 1)]
        BY <3>1
      <3>6. TwoTo[k + j] = (2 * c) * TwoTo[k]
        BY <3>2, <3>3, <3>4
      <3>7. TwoTo[k] <= TwoTo[k + j]
        BY <1>0, <3>2, <3>5
      <3> QED BY <3>4, <3>6, <3>7
    <2> QED BY <2>1, <2>2
  <1>2. P = Nat
    <2>1. P \in SUBSET Nat
      OBVIOUS
    <2> HIDE DEF P
    <2> QED BY <1>1, <2>1, NatStrong
  <1>3. h - k \in P /\ k + (h - k) = h
    <2>1. h - k \in Nat /\ k + (h - k) = h
      OBVIOUS
    <2> HIDE DEF P
    <2> QED BY <1>2, <2>1
  <1>4. TwoTo[k] <= TwoTo[h] /\ \E c \in Nat : TwoTo[h] = c * TwoTo[k]
    BY <1>3
  <1>5. ASSUME NEW f \in Nat, Aligned(f, h) PROVE Aligned(f, k)
    <2>1. PICK c \in Nat : TwoTo[h] = c * TwoTo[k]
      BY <1>4
    <2>2. PICK d \in Nat : f = d * TwoTo[h]
      BY <1>5 DEF Aligned
    <2> DEFINE w == TwoTo[k]
    <2>3. d * (c * w) = (d * c) * w /\ d * c \in Nat
      <3>1. w \in Nat
        BY <1>0
      <3> HIDE DEF w
      <3> QED BY <3>1
    <2>4. f = (d * c) * TwoTo[k]
      BY <2>1, <2>2, <2>3
    <2> QED BY <2>3, <2>4 DEF Aligned
  <1> QED BY <1>4, <1>5 DEF Aligned

\* Two of the same width that start apart do not overlap.
LEMMA AlignedApart ==
    ASSUME NEW f \in Nat, NEW g \in Nat, NEW h \in Nat, Aligned(f, h), Aligned(g, h), f < g
    PROVE  f + TwoTo[h] <= g
  <1> DEFINE w == TwoTo[h]
  <1>1. w \in Nat /\ w >= 1
    BY TwoToAbove
  <1>2. PICK c \in Nat : f = c * w
    BY DEF Aligned
  <1>3. PICK d \in Nat : g = d * w
    BY DEF Aligned
  <1> HIDE DEF w
  <1>4. c < d
    <2> SUFFICES ASSUME d <= c PROVE FALSE
      OBVIOUS
    <2>1. PICK e \in Nat : c = d + e
      <3>1. c - d \in Nat /\ c = d + (c - d)
        OBVIOUS
      <3> QED BY <3>1
    <2>2. (d + e) * w = d * w + e * w /\ e * w \in Nat /\ d * w \in Nat
      BY <1>1
    <2> QED BY <1>2, <1>3, <2>1, <2>2
  <1>5. PICK e \in Nat : d = c + 1 + e
    <2>1. d - c - 1 \in Nat /\ d = c + 1 + (d - c - 1)
      BY <1>4
    <2> QED BY <2>1
  <1>6. (c + 1 + e) * w = c * w + w + e * w /\ e * w \in Nat /\ c * w \in Nat
    BY <1>1
  <1> DEFINE cw == c * w
             ew == e * w
  <1>7. g = f + w + ew /\ ew \in Nat
    BY <1>2, <1>3, <1>5, <1>6
  <1> HIDE DEF cw, ew
  <1>8. f + w <= g
    BY <1>1, <1>7
  <1> QED BY <1>8 DEF w

\* What is left when a mountain's width goes off is a multiple of it still.
LEMMA AlignedLess ==
    ASSUME NEW f \in Nat, NEW g \in Nat, NEW h \in Nat, Aligned(f, h), Aligned(g, h), f <= g
    PROVE  Aligned(g - f, h)
  <1> DEFINE w == TwoTo[h]
  <1>1. w \in Nat /\ w >= 1
    BY TwoToAbove
  <1>2. PICK c \in Nat : f = c * w
    BY DEF Aligned
  <1>3. PICK d \in Nat : g = d * w
    BY DEF Aligned
  <1> HIDE DEF w
  <1>4. c <= d
    <2> SUFFICES ASSUME d < c PROVE FALSE
      OBVIOUS
    <2>1. PICK e \in Nat : c = d + 1 + e
      <3>1. c - d - 1 \in Nat /\ c = d + 1 + (c - d - 1)
        OBVIOUS
      <3> QED BY <3>1
    <2>2. (d + 1 + e) * w = d * w + w + e * w /\ e * w \in Nat /\ d * w \in Nat
      BY <1>1
    <2> QED BY <1>1, <1>2, <1>3, <2>1, <2>2
  <1>5. d - c \in Nat /\ (d - c) * w = d * w - c * w
    BY <1>1, <1>4
  <1>6. g - f = (d - c) * w
    BY <1>2, <1>3, <1>5
  <1> QED BY <1>5, <1>6 DEF Aligned, w

-----------------------------------------------------------------------------
(* A mountain, whole or a part of a taller one, by its first leaf and its  *)
(* height.                                                                 *)

PosOf(f, h) == node_count(f) + MountainSize(h) - 1

Tree(f, h) == <<PosOf(f, h), h, f>>

\* A subtree and its position are what the recursive functions take.
LEMMA TreeTyped ==
    ASSUME NEW f \in Nat, NEW h \in Nat
    PROVE  /\ PosOf(f, h) \in Nat /\ node_count(f) <= PosOf(f, h)
           /\ Tree(f, h) \in Int \X Nat \X Nat /\ Tree(f, h) \in Triples
  <1>1. node_count(f) \in Nat /\ MountainSize(h) \in Nat /\ MountainSize(h) >= 1
    BY CountTyped, SizeAbove
  <1>2. PosOf(f, h) \in Nat /\ node_count(f) <= PosOf(f, h)
    BY <1>1 DEF PosOf
  <1> QED BY <1>2 DEF Tree, Triples

\* Its halves.
LEMMA TreeSplits ==
    ASSUME NEW f \in Nat, NEW h \in Nat, Aligned(f, h + 1)
    PROVE  /\ LeftOf(Tree(f, h + 1)) = Tree(f, h)
           /\ RightOf(Tree(f, h + 1)) = Tree(f + TwoTo[h], h)
           /\ Aligned(f, h) /\ Aligned(f + TwoTo[h], h)
           /\ PosOf(f, h + 1) - TwoTo[h + 1] = PosOf(f, h)
           /\ PosOf(f, h + 1) - 1 = PosOf(f + TwoTo[h], h)
           /\ node_count(f + TwoTo[h]) = PosOf(f, h) + 1
  <1> DEFINE w == TwoTo[h]
             c == node_count(f)
  <1>1. w \in Nat /\ TwoTo[h + 1] = 2 * w
    BY TwoToUnfolds, TwoToAbove
  <1>2. MountainSize(h) = 2 * w - 1 /\ MountainSize(h + 1) = 4 * w - 1
    <2>1. MountainSize(h) = 2 * w - 1 /\ MountainSize(h + 1) = 2 * MountainSize(h) + 1
      BY SizeAbove
    <2> QED BY <1>1, <2>1
  <1>3. Aligned(f, h)
    BY AlignedFacts
  <1>4. Aligned(f + w, h) /\ node_count(f + w) = c + MountainSize(h)
    BY <1>3, AlignedFacts
  <1>5. c \in Nat
    BY CountTyped
  <1>6. PosOf(f, h + 1) = c + 4 * w - 2 /\ PosOf(f, h) = c + 2 * w - 2
        /\ PosOf(f + w, h) = c + 4 * w - 3 /\ node_count(f + w) = c + 2 * w - 1
    <2> HIDE DEF w
    <2> QED BY <1>1, <1>2, <1>4, <1>5 DEF PosOf
  <1>7. h + 1 \in Nat /\ (h + 1) - 1 = h
    OBVIOUS
  <1> HIDE DEF w, c
  <1>8. PosOf(f, h + 1) - TwoTo[h + 1] = PosOf(f, h) /\ PosOf(f, h + 1) - 1 = PosOf(f + w, h)
        /\ node_count(f + w) = PosOf(f, h) + 1
    BY <1>1, <1>5, <1>6
  <1>9. LeftOf(Tree(f, h + 1)) = Tree(f, h)
    BY <1>7, <1>8 DEF LeftOf, Tree
  <1>10. RightOf(Tree(f, h + 1)) = Tree(f + w, h)
    BY <1>7, <1>8 DEF RightOf, Tree, w
  <1> QED BY <1>3, <1>4, <1>8, <1>9, <1>10 DEF w

\* Its node.
LEMMA TreeNode ==
    ASSUME NEW l, NEW f \in Nat, NEW h \in Nat
    PROVE  /\ Nodes(l)[Tree(f, 0)] = leaf_hash(l[f + 1])
           /\ Aligned(f, h + 1) =>
                  Nodes(l)[Tree(f, h + 1)] = interior_hash(Nodes(l)[Tree(f, h)],
                                                           Nodes(l)[Tree(f + TwoTo[h], h)],
                                                           PosOf(f, h + 1))
  <1>1. Tree(f, 0) \in Int \X Nat \X Nat /\ Tree(f, h + 1) \in Int \X Nat \X Nat
    BY TreeTyped
  <1>2. Nodes(l)[Tree(f, 0)] = NodeTurn(l, Nodes(l), Tree(f, 0))
    BY <1>1, NodeUnfolds
  <1>3. Nodes(l)[Tree(f, h + 1)] = NodeTurn(l, Nodes(l), Tree(f, h + 1))
    BY <1>1, NodeUnfolds
  <1>4. /\ Tree(f, 0)[2] = 0 /\ Tree(f, 0)[3] = f
        /\ Tree(f, h + 1)[2] # 0 /\ Tree(f, h + 1)[1] = PosOf(f, h + 1)
    BY DEF Tree
  <1>5. Nodes(l)[Tree(f, 0)] = leaf_hash(l[f + 1])
    BY <1>2, <1>4 DEF NodeTurn
  <1>6. Nodes(l)[Tree(f, h + 1)] =
            interior_hash(Nodes(l)[LeftOf(Tree(f, h + 1))], Nodes(l)[RightOf(Tree(f, h + 1))], PosOf(f, h + 1))
    BY <1>3, <1>4, Zenon DEF NodeTurn
  <1> QED BY <1>5, <1>6, TreeSplits

\* height_at descends to it.
LEMMA DownIs ==
    ASSUME NEW h \in Nat, NEW g \in Nat, NEW k \in Nat, Aligned(g, k), g + TwoTo[k] <= TwoTo[h]
    PROVE  Down[<<node_count(g) + MountainSize(k), h>>] = k
  <1> DEFINE Good(n) == \A a, b \in Nat : Aligned(a, b) /\ a + TwoTo[b] <= TwoTo[n] =>
                            Down[<<node_count(a) + MountainSize(b), n>>] = b
             P == {n \in Nat : Good(n)}
  <1>1. ASSUME NEW n \in Nat, \A mm \in 0..(n - 1) : mm \in P PROVE n \in P
    <2> SUFFICES ASSUME NEW a \in Nat, NEW b \in Nat, Aligned(a, b), a + TwoTo[b] <= TwoTo[n]
                 PROVE  Down[<<node_count(a) + MountainSize(b), n>>] = b
      OBVIOUS
    <2> DEFINE p1 == node_count(a) + MountainSize(b)
    <2>0. p1 \in Nat /\ TwoTo[b] \in Nat /\ TwoTo[b] >= 1 /\ b < TwoTo[b] /\ node_count(a) \in Nat
          /\ MountainSize(b) \in Nat /\ MountainSize(b) >= 1
      <3>1. node_count(a) \in Nat
        BY CountTyped
      <3>2. MountainSize(b) \in Nat /\ MountainSize(b) >= 1
        BY SizeAbove
      <3>3. TwoTo[b] \in Nat /\ TwoTo[b] >= 1 /\ b < TwoTo[b]
        BY TwoToAbove
      <3> QED BY <3>1, <3>2, <3>3
    <2>1. Down[<<p1, n>>] = DownTurn(Down, <<p1, n>>)
      <3>1. <<p1, n>> \in Nat \X Nat
        BY <2>0
      <3> HIDE DEF p1
      <3> QED BY <3>1, DownUnfolds
    <2>2. <<p1, n>>[1] = p1 /\ <<p1, n>>[2] = n
      OBVIOUS
    <2>3. CASE n = 0
      <3>1. TwoTo[n] = 1
        BY <2>3, TwoToUnfolds
      <3>2. b = 0
        BY <2>0, <3>1
      <3> HIDE DEF p1
      <3> QED BY <2>1, <2>2, <2>3, <3>2 DEF DownTurn, p1
    <2>4. CASE n # 0
      <3>1. PICK j \in Nat : n = j + 1
        <4>1. n - 1 \in Nat /\ n = (n - 1) + 1
          BY <2>4
        <4> QED BY <4>1
      <3> DEFINE W == TwoTo[j]
                 q == <<IF InRightHalf(p1, n) THEN p1 - (TwoTo[n] - 1) ELSE p1, j>>
      <3>2. W \in Nat /\ W >= 1 /\ TwoTo[n] = 2 * W
        BY <3>1, TwoToUnfolds, TwoToAbove
      <3>3. MountainSize(j) = 2 * W - 1 /\ MountainSize(n) = 2 * MountainSize(j) + 1
        BY <3>1, SizeAbove
      <3>4. j \in P /\ Good(j)
        <4>1. j \in 0..(n - 1)
          BY <3>1
        <4>2. j \in P
          BY <1>1, <4>1
        <4> QED BY <4>2
      <3> HIDE DEF p1, W, P
      <3>5. Down[<<p1, n>>] = IF p1 = MountainSize(n) THEN n ELSE Down[q]
        <4>1. n - 1 = j /\ n > 0
          BY <3>1
        <4> QED BY <2>1, <2>2, <2>4, <4>1 DEF DownTurn
      <3>6. b <= n
        <4> SUFFICES ASSUME n + 1 <= b PROVE FALSE
          OBVIOUS
        <4>1. TwoTo[n + 1] <= TwoTo[b] /\ TwoTo[n + 1] = 2 * TwoTo[n]
          BY WiderAligned, TwoToUnfolds
        <4> QED BY <2>0, <3>2, <4>1
      <3>7. CASE b = n
        <4>1. a = 0
          BY <2>0, <3>7
        <4>2. p1 = MountainSize(n)
          BY <3>7, <4>1, <2>0, CountTyped DEF p1
        <4> QED BY <3>5, <3>7, <4>2 DEF p1
      <3>8. CASE b # n
        <4>1. b <= j
          BY <3>1, <3>6, <3>8
        <4>2. Aligned(W, b) /\ TwoTo[b] <= W /\ Aligned(W, j)
          <5>1. Aligned(W, b) /\ TwoTo[b] <= W
            BY <4>1, WiderAligned DEF W
          <5>2. Aligned(W, j)
            BY WiderAligned DEF W
          <5> QED BY <5>1, <5>2
        <4>3. ASSUME NEW x \in Nat, Aligned(x, b), x + TwoTo[b] <= W
              PROVE  node_count(x) + MountainSize(b) <= MountainSize(j)
          <5>1. node_count(x) + MountainSize(b) <= node_count(x + TwoTo[b])
            BY <4>3, AlignedFacts
          <5>2. x + TwoTo[b] \in Nat
            BY <2>0
          <5>3. node_count(x + TwoTo[b]) <= node_count(W)
            BY <3>2, <4>3, <5>2, CountGrows
          <5>4. node_count(W) = MountainSize(j)
            BY CountOfMountain DEF W
          <5>5. node_count(x) \in Nat /\ node_count(x + TwoTo[b]) \in Nat /\ MountainSize(j) \in Nat
            BY <3>2, <3>3, <5>2, CountTyped
          <5> QED BY <2>0, <5>1, <5>3, <5>4, <5>5
        <4>4. CASE a < W
          <5>1. a + TwoTo[b] <= W
            BY <3>2, <4>2, <4>4, AlignedApart
          <5>2. p1 <= MountainSize(j)
            BY <4>3, <5>1 DEF p1
          <5>3. p1 # MountainSize(n) /\ ~InRightHalf(p1, n)
            BY <2>0, <3>2, <3>3, <5>2 DEF InRightHalf
          <5>4. Down[<<p1, n>>] = Down[<<p1, j>>]
            BY <3>5, <5>3
          <5>5. Down[<<p1, j>>] = b
            BY <3>4, <5>1 DEF p1, W
          <5> QED BY <5>4, <5>5 DEF p1
        <4>5. CASE ~(a < W)
          <5> DEFINE x == a - W
          <5>1. x \in Nat /\ x + TwoTo[b] <= W /\ x < W /\ W + x = a
            BY <2>0, <3>2, <4>5
          <5>2. Aligned(x, b)
            BY <3>2, <4>2, <4>5, AlignedLess
          <5> HIDE DEF x
          <5>3. node_count(W + x) = node_count(W) + node_count(x)
            BY <3>2, <4>2, <5>1, CountAdds DEF W
          <5>4. node_count(W) = MountainSize(j)
            BY CountOfMountain DEF W
          <5>5. node_count(x) + MountainSize(b) <= MountainSize(j) /\ node_count(x) \in Nat
            BY <4>3, <5>1, <5>2, CountTyped
          <5>6. p1 = MountainSize(j) + (node_count(x) + MountainSize(b))
            BY <2>0, <3>2, <3>3, <5>1, <5>3, <5>4, <5>5 DEF p1
          <5>7. p1 # MountainSize(n) /\ InRightHalf(p1, n)
            BY <2>0, <3>2, <3>3, <5>5, <5>6 DEF InRightHalf
          <5>8. p1 - (TwoTo[n] - 1) = node_count(x) + MountainSize(b)
            BY <2>0, <3>2, <3>3, <5>5, <5>6
          <5>9. Down[<<p1, n>>] = Down[<<node_count(x) + MountainSize(b), j>>]
            BY <3>5, <5>7, <5>8
          <5>10. Down[<<node_count(x) + MountainSize(b), j>>] = b
            BY <3>4, <5>1, <5>2 DEF W
          <5> QED BY <5>9, <5>10 DEF p1
        <4> QED BY <4>4, <4>5
      <3> QED BY <3>7, <3>8
    <2> QED BY <2>3, <2>4
  <1>2. P = Nat
    <2>1. P \in SUBSET Nat
      OBVIOUS
    <2> HIDE DEF P
    <2> QED BY <1>1, <2>1, NatStrong
  <1>3. Good(h)
    <2>1. h \in P
      <3> HIDE DEF P
      <3> QED BY <1>2
    <2> QED BY <2>1
  <1> HIDE DEF P
  <1> QED BY <1>3

\* height_at computes the height of every mountain's root.
LEMMA HeightIs ==
    ASSUME NEW g \in Nat, NEW k \in Nat, Aligned(g, k)
    PROVE  height_at(PosOf(g, k)) = k
  <1> DEFINE pos == PosOf(g, k)
             H == Grow(pos)[0]
  <1>1. pos \in Nat /\ pos + 1 = node_count(g) + MountainSize(k)
    BY TreeTyped, CountTyped, SizeAbove, SMTT(30) DEF PosOf
  <1>2. height_at(pos) = Down[<<pos + 1, H>>]
    BY Zenon DEF height_at, Grow, GrowTurn, Down, DownTurn
  <1> HIDE DEF pos
  <1>3. H \in Nat /\ pos + 1 <= MountainSize(H)
    BY <1>1, GrowIs
  <1> HIDE DEF H
  <1>4. node_count(g) \in Nat /\ MountainSize(k) \in Nat /\ MountainSize(k) >= 1
        /\ MountainSize(H) \in Nat /\ TwoTo[k] \in Nat /\ TwoTo[H] \in Nat
    BY <1>3, CountTyped, SizeAbove, TwoToAbove
  <1>5. k <= H
    <2> SUFFICES ASSUME H + 1 <= k PROVE FALSE
      BY <1>3
    <2>1. TwoTo[H + 1] <= TwoTo[k] /\ TwoTo[H + 1] = 2 * TwoTo[H]
      BY <1>3, WiderAligned, TwoToUnfolds
    <2>2. MountainSize(H) = 2 * TwoTo[H] - 1 /\ MountainSize(k) = 2 * TwoTo[k] - 1 /\ TwoTo[H] >= 1
      BY <1>3, SizeAbove, TwoToAbove
    <2> QED BY <1>1, <1>3, <1>4, <2>1, <2>2
  <1>6. g < TwoTo[H]
    <2> SUFFICES ASSUME TwoTo[H] <= g PROVE FALSE
      BY <1>4
    <2>1. node_count(TwoTo[H]) <= node_count(g)
      BY <1>4, CountGrows
    <2>2. node_count(TwoTo[H]) = MountainSize(H)
      BY <1>3, CountOfMountain
    <2> QED BY <1>1, <1>3, <1>4, <2>1, <2>2
  <1>7. g + TwoTo[k] <= TwoTo[H]
    <2>1. Aligned(TwoTo[H], k)
      BY <1>3, <1>5, WiderAligned
    <2> QED BY <1>4, <1>6, <2>1, AlignedApart
  <1>8. Down[<<node_count(g) + MountainSize(k), H>>] = k
    BY <1>3, <1>7, DownIs
  <1> QED BY <1>1, <1>2, <1>8 DEF pos

-----------------------------------------------------------------------------
(* What the hashes commit to.                                              *)

\* A leaf digest tells its leaf.
LEMMA LeafHashTells == ASSUME NEW a, NEW b, leaf_hash(a) = leaf_hash(b) PROVE a = b
  <1>1. leaf_hash(a)[2] = a /\ leaf_hash(b)[2] = b
    BY DEF leaf_hash
  <1> QED BY <1>1

\* A node digest tells the digests below it.
LEMMA NodeHashTells ==
    ASSUME NEW a, NEW b, NEW c, NEW d, NEW i, NEW j, interior_hash(a, b, i) = interior_hash(c, d, j)
    PROVE  a = c /\ b = d
  <1>1. /\ interior_hash(a, b, i)[3] = a /\ interior_hash(a, b, i)[4] = b
        /\ interior_hash(c, d, j)[3] = c /\ interior_hash(c, d, j)[4] = d
    BY DEF interior_hash
  <1> QED BY <1>1

\* The two kinds of digest are never equal.
LEMMA LeafIsNoNode == ASSUME NEW a, NEW b, NEW c, NEW i PROVE leaf_hash(a) # interior_hash(b, c, i)
  <1>1. leaf_hash(a)[1] = "leaf"
    BY DEF leaf_hash
  <1>2. interior_hash(b, c, i)[1] = "interior"
    BY DEF interior_hash
  <1> QED BY <1>1, <1>2

\* Bagged peaks that give the same root, as many of them, are the same.
LEMMA RootTells ==
    ASSUME NEW p, NEW q, Len(p) \in Nat, Len(q) = Len(p), root_from_peaks(p) = root_from_peaks(q)
    PROVE  \A i \in 1..Len(p) : p[i] = q[i]
  <1> DEFINE n == Len(p)
             P == {i \in Nat : i \in 1..n => Bag(p)[i] = Bag(q)[i]}
  <1> SUFFICES ASSUME n # 0 PROVE \A i \in 1..n : p[i] = q[i]
    OBVIOUS
  <1>1. Bag(p)[1] = Bag(q)[1]
    <2>1. \A r : root_from_peaks(r) = IF Len(r) = 0 THEN <<"zero">> ELSE Bag(r)[1]
      BY Zenon DEF root_from_peaks, Bag, BagTurn
    <2> QED BY <2>1
  <1>2. \A i \in Nat : /\ Bag(p)[i] = IF i >= n THEN p[n] ELSE <<"bag", Bag(p)[i + 1], p[i]>>
                       /\ Bag(q)[i] = IF i >= n THEN q[n] ELSE <<"bag", Bag(q)[i + 1], q[i]>>
    BY BagUnfolds DEF BagTurn
  <1> HIDE DEF n
  <1>3. ASSUME NEW i \in Nat, i \in 1..n, i < n, Bag(p)[i] = Bag(q)[i]
        PROVE  Bag(p)[i + 1] = Bag(q)[i + 1] /\ p[i] = q[i]
    <2>1. <<"bag", Bag(p)[i + 1], p[i]>> = <<"bag", Bag(q)[i + 1], q[i]>>
      <3>1. n \in Nat
        BY DEF n
      <3>2. ~(i >= n)
        BY <1>3, <3>1
      <3> QED BY <1>2, <1>3, <3>2
    <2> QED BY <2>1
  <1>4. ASSUME NEW i \in Nat, \A mm \in 0..(i - 1) : mm \in P PROVE i \in P
    <2> SUFFICES ASSUME i \in 1..n PROVE Bag(p)[i] = Bag(q)[i]
      OBVIOUS
    <2>1. CASE i = 1
      BY <1>1, <2>1
    <2>2. CASE i # 1
      <3>1. n \in Nat
        BY DEF n
      <3>2. i - 1 \in 0..(i - 1) /\ i - 1 \in 1..n /\ i - 1 < n /\ i - 1 \in Nat /\ (i - 1) + 1 = i
        BY <2>2, <3>1
      <3>3. Bag(p)[i - 1] = Bag(q)[i - 1]
        BY <1>4, <3>2
      <3> HIDE DEF P
      <3> QED BY <1>3, <3>2, <3>3
    <2> QED BY <2>1, <2>2
  <1>5. P = Nat
    <2>1. P \in SUBSET Nat
      OBVIOUS
    <2> HIDE DEF P
    <2> QED BY <1>4, <2>1, NatStrong
  <1>6. ASSUME NEW i \in 1..n PROVE p[i] = q[i]
    <2>1. i \in Nat /\ n \in Nat
      BY DEF n
    <2>2. Bag(p)[i] = Bag(q)[i]
      BY <1>5, <2>1
    <2>3. CASE i < n
      BY <1>3, <2>1, <2>2, <2>3
    <2>4. CASE ~(i < n)
      <3>1. i = n /\ n >= n
        BY <2>1, <2>4
      <3>2. Bag(p)[n] = p[n] /\ Bag(q)[n] = q[n]
        BY <1>2, <2>1, <3>1
      <3> QED BY <2>2, <3>1, <3>2
    <2> QED BY <2>3, <2>4
  <1> QED BY <1>6

\* The n entries after the first f of old are those after the first g of new.
SameEntries(old, f, new, g, n) == \A j \in 0..(n - 1) : old[f + j + 1] = new[g + j + 1]

\* Equal nodes are of equal height and over the same entries.
LEMMA NodeTells ==
    ASSUME NEW old, NEW new, NEW f \in Nat, NEW h \in Nat, NEW g \in Nat, NEW k \in Nat,
           Aligned(f, h), Aligned(g, k), Nodes(old)[Tree(f, h)] = Nodes(new)[Tree(g, k)]
    PROVE  h = k /\ SameEntries(old, f, new, g, TwoTo[h])
  <1> DEFINE Same(n, a, b, m) == /\ n = m
                                 /\ \A j \in 0..(TwoTo[n] - 1) : old[a + j + 1] = new[b + j + 1]
             Good(n) == \A a, b, m \in Nat :
                            Aligned(a, n) /\ Aligned(b, m) /\ Nodes(old)[Tree(a, n)] = Nodes(new)[Tree(b, m)]
                                => Same(n, a, b, m)
             P == {n \in Nat : Good(n)}
  <1>1. ASSUME NEW n \in Nat, \A mm \in 0..(n - 1) : mm \in P PROVE n \in P
    <2> SUFFICES ASSUME NEW a \in Nat, NEW b \in Nat, NEW m \in Nat, Aligned(a, n), Aligned(b, m),
                        Nodes(old)[Tree(a, n)] = Nodes(new)[Tree(b, m)]
                 PROVE  Same(n, a, b, m)
      OBVIOUS
    <2>1. (n = 0 \/ \E x \in Nat : n = x + 1) /\ (m = 0 \/ \E x \in Nat : m = x + 1)
      <3>1. \A x \in Nat : x = 0 \/ (x - 1 \in Nat /\ x = (x - 1) + 1)
        OBVIOUS
      <3> QED BY <3>1
    <2>2. CASE n = 0 /\ m = 0
      <3>1. leaf_hash(old[a + 1]) = leaf_hash(new[b + 1])
        <4>1. Nodes(old)[Tree(a, 0)] = leaf_hash(old[a + 1]) /\ Nodes(new)[Tree(b, 0)] = leaf_hash(new[b + 1])
          BY TreeNode
        <4> QED BY <2>2, <4>1
      <3>2. old[a + 1] = new[b + 1]
        BY <3>1, LeafHashTells
      <3>3. TwoTo[n] = 1
        BY <2>2, TwoToUnfolds
      <3>4. \A j \in 0..(1 - 1) : old[a + j + 1] = new[b + j + 1]
        BY <3>2
      <3> QED BY <2>2, <3>3, <3>4
    <2>3. CASE n = 0 /\ \E x \in Nat : m = x + 1
      <3>1. PICK x \in Nat : m = x + 1
        BY <2>3
      <3>2. Nodes(old)[Tree(a, 0)] = leaf_hash(old[a + 1])
        BY TreeNode
      <3>3. Nodes(new)[Tree(b, x + 1)] =
                interior_hash(Nodes(new)[Tree(b, x)], Nodes(new)[Tree(b + TwoTo[x], x)], PosOf(b, x + 1))
        BY <3>1, TreeNode
      <3>4. leaf_hash(old[a + 1]) =
                interior_hash(Nodes(new)[Tree(b, x)], Nodes(new)[Tree(b + TwoTo[x], x)], PosOf(b, x + 1))
        BY <2>3, <3>1, <3>2, <3>3
      <3> QED BY <3>4, LeafIsNoNode
    <2>4. CASE m = 0 /\ \E x \in Nat : n = x + 1
      <3>1. PICK x \in Nat : n = x + 1
        BY <2>4
      <3>2. Nodes(new)[Tree(b, 0)] = leaf_hash(new[b + 1])
        BY TreeNode
      <3>3. Nodes(old)[Tree(a, x + 1)] =
                interior_hash(Nodes(old)[Tree(a, x)], Nodes(old)[Tree(a + TwoTo[x], x)], PosOf(a, x + 1))
        BY <3>1, TreeNode
      <3>4. leaf_hash(new[b + 1]) =
                interior_hash(Nodes(old)[Tree(a, x)], Nodes(old)[Tree(a + TwoTo[x], x)], PosOf(a, x + 1))
        BY <2>4, <3>1, <3>2, <3>3
      <3> QED BY <3>4, LeafIsNoNode
    <2>5. ASSUME NEW x \in Nat, NEW y \in Nat, n = x + 1, m = y + 1 PROVE Same(n, a, b, m)
      <3> DEFINE w == TwoTo[x]
                 v == TwoTo[y]
      <3>1. w \in Nat /\ w >= 1 /\ v \in Nat /\ TwoTo[n] = 2 * w
        BY <2>5, TwoToUnfolds, TwoToAbove
      <3>2. Nodes(old)[Tree(a, n)] =
                interior_hash(Nodes(old)[Tree(a, x)], Nodes(old)[Tree(a + w, x)], PosOf(a, n))
        BY <2>5, TreeNode
      <3>3. Nodes(new)[Tree(b, m)] =
                interior_hash(Nodes(new)[Tree(b, y)], Nodes(new)[Tree(b + v, y)], PosOf(b, m))
        BY <2>5, TreeNode
      <3>4. /\ Nodes(old)[Tree(a, x)] = Nodes(new)[Tree(b, y)]
            /\ Nodes(old)[Tree(a + w, x)] = Nodes(new)[Tree(b + v, y)]
        <4>1. interior_hash(Nodes(old)[Tree(a, x)], Nodes(old)[Tree(a + w, x)], PosOf(a, n))
                  = interior_hash(Nodes(new)[Tree(b, y)], Nodes(new)[Tree(b + v, y)], PosOf(b, m))
          BY <3>2, <3>3, Zenon
        <4> QED BY <4>1, NodeHashTells
      <3>5. Aligned(a, x) /\ Aligned(a + w, x) /\ Aligned(b, y) /\ Aligned(b + v, y)
        BY <2>5, TreeSplits
      <3>6. Good(x)
        <4>1. x \in 0..(n - 1)
          BY <2>5
        <4>2. x \in P
          BY <1>1, <4>1
        <4> HIDE DEF Good
        <4> QED BY <4>2
      <3> HIDE DEF w, v, P, Same
      <3>7. Same(x, a, b, y) /\ Same(x, a + w, b + v, y)
        BY <3>1, <3>4, <3>5, <3>6
      <3>8. x = y /\ w = v
        BY <3>7 DEF Same, w, v
      <3>9. ASSUME NEW j \in 0..(2 * w - 1) PROVE old[a + j + 1] = new[b + j + 1]
        <4>1. CASE j < w
          <5>1. j \in 0..(w - 1)
            BY <3>1, <4>1
          <5> QED BY <3>7, <5>1 DEF Same, w
        <4>2. CASE ~(j < w)
          <5>1. j - w \in 0..(w - 1)
            BY <3>1, <4>2
          <5>2. old[(a + w) + (j - w) + 1] = new[(b + v) + (j - w) + 1]
            BY <3>7, <5>1 DEF Same, w
          <5>3. (a + w) + (j - w) + 1 = a + j + 1 /\ (b + v) + (j - w) + 1 = b + j + 1
            BY <3>1, <3>8
          <5> QED BY <5>2, <5>3
        <4> QED BY <4>1, <4>2
      <3> QED BY <2>5, <3>1, <3>8, <3>9 DEF Same
    <2> HIDE DEF Same, P
    <2> QED BY <2>1, <2>2, <2>3, <2>4, <2>5
  <1>2. P = Nat
    <2>1. P \in SUBSET Nat
      OBVIOUS
    <2> HIDE DEF P
    <2> QED BY <1>1, <2>1, NatStrong
  <1>3. Good(h)
    <2>1. h \in P
      <3> HIDE DEF P
      <3> QED BY <1>2
    <2> QED BY <2>1
  <1> HIDE DEF P
  <1> QED BY <1>3 DEF SameEntries

-----------------------------------------------------------------------------
(* A path from a node up to its mountain's root.                           *)

\* A digest hashed up the first n steps of a path.
LEMMA HashIs ==
    ASSUME NEW start, NEW path, NEW witness
    PROVE  /\ Hash(start, path, witness)[0] = start
           /\ \A n \in Nat : Hash(start, path, witness)[n + 1] =
                  HashStep(Hash(start, path, witness)[n], witness[n + 1], path[n + 1])
  <1> DEFINE a == [start |-> start, path |-> path, witness |-> witness]
             F == Hash(start, path, witness)
  <1>1. \A p \in Nat : F[p] = HashTurn(a, F, p)
    BY HashUnfolds
  <1>2. a.start = start /\ a.path = path /\ a.witness = witness
    OBVIOUS
  <1> HIDE DEF a, F
  <1>3. F[0] = start
    BY <1>1, <1>2 DEF HashTurn
  <1>4. ASSUME NEW n \in Nat PROVE F[n + 1] = HashStep(F[n], witness[n + 1], path[n + 1])
    <2>1. n + 1 \in Nat /\ n + 1 # 0 /\ (n + 1) - 1 = n
      OBVIOUS
    <2>2. F[n + 1] = HashStep(F[(n + 1) - 1], a.witness[n + 1], a.path[n + 1])
      BY <1>1, <2>1 DEF HashTurn
    <2> QED BY <1>2, <2>1, <2>2
  <1> QED BY <1>3, <1>4 DEF F

\* FoldPath, one step at a time.
LEMMA FoldIs ==
    ASSUME NEW start, NEW path, NEW witness
    PROVE  FoldPath(start, path, witness) = Hash(start, path, witness)[Len(path)]
  <1> DEFINE a == [start |-> start, path |-> path, witness |-> witness]
             G(f) == [i \in Nat |-> IF i = 0 THEN start ELSE HashStep(f[i - 1], witness[i], path[i])]
             H(f) == [i \in Nat |-> HashTurn(a, f, i)]
  <1>1. a.start = start /\ a.path = path /\ a.witness = witness
    OBVIOUS
  <1>2. Hash(start, path, witness) = CHOOSE f : f = H(f)
    BY Zenon DEF Hash
  <1>3. FoldPath(start, path, witness) = (CHOOSE f : f = G(f))[Len(path)]
    BY Zenon DEF FoldPath
  <1> HIDE DEF a
  <1>4. \A f : \A i \in Nat : HashTurn(a, f, i) =
                 IF i = 0 THEN start ELSE HashStep(f[i - 1], witness[i], path[i])
    BY <1>1 DEF HashTurn
  <1>5. \A f : H(f) = G(f)
    BY <1>4
  <1> HIDE DEF G, H
  <1>6. (CHOOSE f : f = H(f)) = (CHOOSE f : f = G(f))
    BY <1>5, Zenon
  <1> QED BY <1>2, <1>3, <1>6, Zenon

Agree(p, q, n) == \A i \in 1..n : p[i] = q[i]

\* A longer path starts with the same hashes.
LEMMA HashPrefix ==
    ASSUME NEW start, NEW p, NEW q, NEW witness, NEW n \in Nat, Agree(p, q, n)
    PROVE  Hash(start, p, witness)[n] = Hash(start, q, witness)[n]
  <1> DEFINE F == Hash(start, p, witness)
             G == Hash(start, q, witness)
             P == {j \in Nat : j <= n => F[j] = G[j]}
  <1>0. /\ F[0] = start /\ G[0] = start
        /\ \A j \in Nat : F[j + 1] = HashStep(F[j], witness[j + 1], p[j + 1])
        /\ \A j \in Nat : G[j + 1] = HashStep(G[j], witness[j + 1], q[j + 1])
    BY HashIs
  <1> HIDE DEF F, G
  <1>1. ASSUME NEW j \in Nat, \A mm \in 0..(j - 1) : mm \in P PROVE j \in P
    <2>1. CASE j = 0
      BY <1>0, <2>1
    <2>2. CASE j # 0 /\ j <= n
      <3>1. j - 1 \in Nat /\ j - 1 \in 0..(j - 1) /\ (j - 1) + 1 = j /\ j - 1 <= n /\ j \in 1..n
        BY <2>2
      <3>2. F[j - 1] = G[j - 1] /\ p[j] = q[j]
        BY <1>1, <3>1 DEF Agree
      <3>3. F[j] = HashStep(F[j - 1], witness[j], p[j]) /\ G[j] = HashStep(G[j - 1], witness[j], q[j])
        BY <1>0, <3>1
      <3> QED BY <3>2, <3>3
    <2> QED BY <2>1, <2>2
  <1>2. P = Nat
    <2>1. P \in SUBSET Nat
      OBVIOUS
    <2> HIDE DEF P
    <2> QED BY <1>1, <2>1, NatStrong
  <1>3. n \in P
    BY <1>2
  <1> QED BY <1>3 DEF F, G

Steps == [target_is_right : BOOLEAN, parent_pos : Int]

\* A position inside a mountain.
Inside(t, f, h) == node_count(f) <= t /\ t <= PosOf(f, h)

\* The path down to t from the root of the mountain of height h that starts at leaf f.
PathAt(t, f, h) == Path(t)[<<PosOf(f, h), h>>]

\* The path of locate_path, one step at a time.
LEMMA PathIs ==
    ASSUME NEW t \in Int, NEW f \in Nat, NEW h \in Nat, Inside(t, f, h)
    PROVE  /\ (h = 0 \/ t = PosOf(f, h)) => PathAt(t, f, h) = << >>
           /\ h = 0 => t = PosOf(f, h)
           /\ \A n \in Nat : h = n + 1 /\ Aligned(f, h) /\ t # PosOf(f, h) =>
                 \/ /\ Inside(t, f, n)
                    /\ PathAt(t, f, h) = Append(PathAt(t, f, n),
                                  [target_is_right |-> FALSE, parent_pos |-> PosOf(f, h)])
                 \/ /\ Inside(t, f + TwoTo[n], n) /\ ~Inside(t, f, n)
                    /\ PathAt(t, f, h) = Append(PathAt(t, f + TwoTo[n], n),
                                  [target_is_right |-> TRUE, parent_pos |-> PosOf(f, h)])
  <1>0. PosOf(f, h) \in Nat /\ node_count(f) \in Nat
    <2>1. PosOf(f, h) \in Nat
      BY TreeTyped
    <2> QED BY <2>1, CountTyped
  <1>1. <<PosOf(f, h), h>> \in Int \X Nat /\ PosOf(f, h) \in Nat
    BY <1>0
  <1> DEFINE q == <<PosOf(f, h), h>>
             left == PosOf(f, h) - TwoTo[h]
             below == t <= left
             step == [target_is_right |-> ~below, parent_pos |-> PosOf(f, h)]
  <1>2. q[1] = PosOf(f, h) /\ q[2] = h
    OBVIOUS
  <1>3. Path(t)[q] = PathTurn(t, Path(t), q)
    BY <1>1, PathUnfolds
  <1> HIDE DEF q
  <1>4. Path(t)[q] = IF h = 0 \/ PosOf(f, h) = t THEN << >>
                     ELSE Append(Path(t)[<<IF below THEN left ELSE PosOf(f, h) - 1, h - 1>>], step)
    BY <1>2, <1>3 DEF PathTurn
  <1>5. h = 0 => t = PosOf(f, h)
    <2>1. ASSUME h = 0 PROVE PosOf(f, h) = node_count(f)
      <3>1. MountainSize(h) = 1
        BY <2>1, TwoToUnfolds DEF MountainSize
      <3>2. node_count(f) \in Nat
        BY CountTyped
      <3> QED BY <3>1, <3>2 DEF PosOf
    <2> QED BY <1>0, <2>1 DEF Inside
  <1>6. ASSUME NEW n \in Nat, h = n + 1, Aligned(f, h), t # PosOf(f, h)
        PROVE  \/ /\ Inside(t, f, n)
                  /\ Path(t)[q] = Append(Path(t)[<<PosOf(f, n), n>>],
                                         [target_is_right |-> FALSE, parent_pos |-> PosOf(f, h)])
               \/ /\ Inside(t, f + TwoTo[n], n) /\ ~Inside(t, f, n)
                  /\ Path(t)[q] = Append(Path(t)[<<PosOf(f + TwoTo[n], n), n>>],
                                         [target_is_right |-> TRUE, parent_pos |-> PosOf(f, h)])
    <2>1. /\ left = PosOf(f, n) /\ PosOf(f, h) - 1 = PosOf(f + TwoTo[n], n)
          /\ node_count(f + TwoTo[n]) = PosOf(f, n) + 1
      BY <1>6, TreeSplits
    <2>2. h - 1 = n /\ h # 0
      BY <1>6
    <2>3. PosOf(f, n) \in Nat /\ node_count(f) \in Nat
      BY TreeTyped, CountTyped
    <2> HIDE DEF left
    <2>4. Path(t)[q] = Append(Path(t)[<<IF below THEN left ELSE PosOf(f, h) - 1, n>>], step)
      BY <1>4, <1>6, <2>2
    <2>5. CASE below
      <3>1. Inside(t, f, n)
        BY <2>1, <2>5 DEF Inside
      <3>2. step = [target_is_right |-> FALSE, parent_pos |-> PosOf(f, h)]
        BY <2>5
      <3>3. <<IF below THEN left ELSE PosOf(f, h) - 1, n>> = <<PosOf(f, n), n>>
        BY <2>1, <2>5
      <3> HIDE DEF step, below
      <3> QED BY <2>4, <3>1, <3>2, <3>3
    <2>6. CASE ~below
      <3>1. Inside(t, f + TwoTo[n], n) /\ ~Inside(t, f, n)
        BY <1>1, <1>6, <2>1, <2>3, <2>6 DEF Inside
      <3>2. step = [target_is_right |-> TRUE, parent_pos |-> PosOf(f, h)]
        BY <2>6
      <3>3. <<IF below THEN left ELSE PosOf(f, h) - 1, n>> = <<PosOf(f + TwoTo[n], n), n>>
        BY <2>1, <2>6
      <3> HIDE DEF step, below
      <3> QED BY <2>4, <3>1, <3>2, <3>3
    <2> QED BY <2>5, <2>6
  <1>7. (h = 0 \/ t = PosOf(f, h)) => Path(t)[q] = << >>
    BY <1>4
  <1> QED BY <1>5, <1>6, <1>7 DEF q, PathAt

\* What it means that the digest at t, hashed up to the mountain's root, gives the root's node.
HashesUp(t, f, h, low, witness, l) ==
    Hash(low, PathAt(t, f, h), witness)[Len(PathAt(t, f, h))] = Nodes(l)[Tree(f, h)]

\* A node at t in the mountain.
NodeThere(t, f, h, g, k) ==
    Aligned(g, k) /\ PosOf(g, k) = t /\ f <= g /\ g + TwoTo[k] <= f + TwoTo[h]

\* Whatever the witness, a digest that is carried to the root of a mountain is the node
\* at the path's end.
LEMMA PathSound ==
    ASSUME NEW t \in Int, NEW f \in Nat, NEW h \in Nat, Aligned(f, h), Inside(t, f, h)
    PROVE  /\ PathAt(t, f, h) \in Seq(Steps)
           /\ \A low, witness, l : HashesUp(t, f, h, low, witness, l) =>
                  \E g, k \in Nat : NodeThere(t, f, h, g, k) /\ low = Nodes(l)[Tree(g, k)]
  <1> DEFINE There(a, n, d, l) == \E g, k \in Nat : NodeThere(t, a, n, g, k) /\ d = Nodes(l)[Tree(g, k)]
             Sound(a, n) == \A d, witness, l : HashesUp(t, a, n, d, witness, l) => There(a, n, d, l)
             Good(n) == \A a \in Nat : Aligned(a, n) /\ Inside(t, a, n) =>
                            PathAt(t, a, n) \in Seq(Steps) /\ Sound(a, n)
             P == {n \in Nat : Good(n)}
  <1>1. ASSUME NEW n \in Nat, \A mm \in 0..(n - 1) : mm \in P PROVE n \in P
    <2> SUFFICES ASSUME NEW a \in Nat, Aligned(a, n), Inside(t, a, n)
                 PROVE  PathAt(t, a, n) \in Seq(Steps) /\ Sound(a, n)
      OBVIOUS
    <2>0. TwoTo[n] \in Nat /\ PosOf(a, n) \in Nat
      BY TwoToAbove, TreeTyped
    <2>1. CASE t = PosOf(a, n)
      <3>1. PathAt(t, a, n) = << >>
        BY <2>1, PathIs
      <3>2. ASSUME NEW d, NEW witness, NEW l, HashesUp(t, a, n, d, witness, l) PROVE There(a, n, d, l)
        <4>1. d = Nodes(l)[Tree(a, n)]
          <5>1. Hash(d, PathAt(t, a, n), witness)[0] = d
            BY HashIs
          <5>2. Len(PathAt(t, a, n)) = 0
            BY <3>1
          <5> QED BY <3>2, <5>1, <5>2 DEF HashesUp
        <4>2. NodeThere(t, a, n, a, n)
          BY <2>0, <2>1 DEF NodeThere
        <4> QED BY <4>1, <4>2
      <3>3. PathAt(t, a, n) \in Seq(Steps)
        BY <3>1
      <3> HIDE DEF There
      <3> QED BY <3>2, <3>3
    <2>2. CASE t # PosOf(a, n)
      <3>1. PICK j \in Nat : n = j + 1
        <4>1. n # 0
          BY <2>2, PathIs
        <4>2. n - 1 \in Nat /\ n = (n - 1) + 1
          BY <4>1
        <4> QED BY <4>2
      <3>2. Good(j)
        <4>1. j \in 0..(n - 1)
          BY <3>1
        <4>2. j \in P
          BY <1>1, <4>1
        <4> HIDE DEF Good
        <4> QED BY <4>2
      <3> DEFINE w == TwoTo[j]
      <3>3. w \in Nat /\ TwoTo[n] = 2 * w
        BY <3>1, TwoToUnfolds, TwoToAbove
      <3>4. Aligned(a, j) /\ Aligned(a + w, j)
        BY <3>1, TreeSplits
      <3>5. PICK b \in {a, a + w}, right \in BOOLEAN :
                /\ Inside(t, b, j) /\ (right <=> b = a + w)
                /\ PathAt(t, a, n) = Append(PathAt(t, b, j),
                                            [target_is_right |-> right, parent_pos |-> PosOf(a, n)])
        <4>1. w # 0
          BY TwoToAbove
        <4>2. \/ /\ Inside(t, a, j)
                 /\ PathAt(t, a, n) = Append(PathAt(t, a, j),
                                             [target_is_right |-> FALSE, parent_pos |-> PosOf(a, n)])
              \/ /\ Inside(t, a + w, j)
                 /\ PathAt(t, a, n) = Append(PathAt(t, a + w, j),
                                             [target_is_right |-> TRUE, parent_pos |-> PosOf(a, n)])
          BY <2>2, <3>1, PathIs
        <4>3. a # a + w
          BY <3>3, <4>1
        <4> HIDE DEF w
        <4> QED BY <4>2, <4>3
      <3> DEFINE step == [target_is_right |-> right, parent_pos |-> PosOf(a, n)]
                 p == PathAt(t, b, j)
      <3>6. b \in Nat /\ Aligned(b, j)
        BY <3>3, <3>4
      <3>7. p \in Seq(Steps) /\ Sound(b, j)
        BY <3>2, <3>5, <3>6
      <3>8. step \in Steps /\ step.target_is_right = right /\ step.parent_pos = PosOf(a, n)
        BY <2>0 DEF Steps
      <3>9. /\ PathAt(t, a, n) = Append(p, step)
            /\ PathAt(t, a, n) \in Seq(Steps) /\ Len(PathAt(t, a, n)) = Len(p) + 1 /\ Len(p) \in Nat
            /\ PathAt(t, a, n)[Len(p) + 1] = step
            /\ \A i \in 1..Len(p) : PathAt(t, a, n)[i] = p[i]
        <4>1. PathAt(t, a, n) = Append(p, step)
          BY <3>5
        <4> HIDE DEF p, step
        <4>2. Append(p, step) \in Seq(Steps) /\ Len(Append(p, step)) = Len(p) + 1 /\ Len(p) \in Nat
              /\ Append(p, step)[Len(p) + 1] = step /\ \A i \in 1..Len(p) : Append(p, step)[i] = p[i]
          BY <3>7, <3>8
        <4> QED BY <4>1, <4>2
      <3> HIDE DEF step, w, p
      <3>10. ASSUME NEW d, NEW witness, NEW l, HashesUp(t, a, n, d, witness, l) PROVE There(a, n, d, l)
        <4> DEFINE full == PathAt(t, a, n)
                   acc == Hash(d, p, witness)[Len(p)]
                   sib == witness[Len(p) + 1]
        <4>1. Hash(d, full, witness)[Len(p) + 1] = HashStep(Hash(d, full, witness)[Len(p)], sib, step)
          <5>1. Hash(d, full, witness)[Len(p) + 1] =
                    HashStep(Hash(d, full, witness)[Len(p)], sib, full[Len(p) + 1])
            <6> HIDE DEF full
            <6> QED BY <3>9, HashIs
          <5> QED BY <3>9, <5>1
        <4>2. Hash(d, full, witness)[Len(p)] = acc
          <5>1. Len(p) \in Nat /\ Agree(full, p, Len(p))
            BY <3>9 DEF Agree
          <5> HIDE DEF full
          <5> QED BY <5>1, HashPrefix
        <4>3. HashStep(acc, sib, step) = Nodes(l)[Tree(a, n)]
          BY <3>9, <3>10, <4>1, <4>2 DEF HashesUp
        <4>4. Nodes(l)[Tree(a, n)] =
                  interior_hash(Nodes(l)[Tree(a, j)], Nodes(l)[Tree(a + w, j)], PosOf(a, n))
          BY <3>1, TreeNode DEF w
        <4> HIDE DEF acc, sib
        <4>5. acc = Nodes(l)[Tree(b, j)]
          <5>1. CASE right
            <6>1. HashStep(acc, sib, step) = interior_hash(sib, acc, PosOf(a, n))
              BY <3>8, <5>1 DEF HashStep
            <6>2. interior_hash(sib, acc, PosOf(a, n))
                      = interior_hash(Nodes(l)[Tree(a, j)], Nodes(l)[Tree(a + w, j)], PosOf(a, n))
              BY <4>3, <4>4, <6>1, Zenon
            <6>3. acc = Nodes(l)[Tree(a + w, j)]
              BY <6>2, NodeHashTells
            <6> QED BY <3>5, <5>1, <6>3 DEF w
          <5>2. CASE ~right
            <6>1. HashStep(acc, sib, step) = interior_hash(acc, sib, PosOf(a, n))
              BY <3>8, <5>2 DEF HashStep
            <6>2. interior_hash(acc, sib, PosOf(a, n))
                      = interior_hash(Nodes(l)[Tree(a, j)], Nodes(l)[Tree(a + w, j)], PosOf(a, n))
              BY <4>3, <4>4, <6>1, Zenon
            <6>3. acc = Nodes(l)[Tree(a, j)]
              BY <6>2, NodeHashTells
            <6>4. b = a
              BY <3>5, <5>2 DEF w
            <6> QED BY <6>3, <6>4
          <5> QED BY <5>1, <5>2
        <4>6. There(b, j, d, l)
          <5>1. HashesUp(t, b, j, d, witness, l)
            BY <4>5 DEF HashesUp, acc, p
          <5> HIDE DEF There
          <5> QED BY <3>7, <5>1
        <4>7. PICK g \in Nat, k \in Nat : NodeThere(t, b, j, g, k) /\ d = Nodes(l)[Tree(g, k)]
          BY <4>6
        <4>8. NodeThere(t, a, n, g, k)
          <5>1. TwoTo[k] \in Nat
            BY TwoToAbove
          <5>2. b = a \/ b = a + w
            BY DEF w
          <5> QED BY <3>3, <4>7, <5>1, <5>2 DEF NodeThere, w
        <4> QED BY <4>7, <4>8
      <3> HIDE DEF There
      <3> QED BY <3>9, <3>10
    <2> QED BY <2>1, <2>2
  <1>2. P = Nat
    <2>1. P \in SUBSET Nat
      OBVIOUS
    <2> HIDE DEF P
    <2> QED BY <1>1, <2>1, NatStrong
  <1>3. Good(h)
    <2>1. h \in P
      <3> HIDE DEF P
      <3> QED BY <1>2
    <2> HIDE DEF Good
    <2> QED BY <2>1
  <1> HIDE DEF P
  <1> QED BY <1>3

-----------------------------------------------------------------------------
(* The mountains of a log.                                                 *)

\* The leaf after a mountain's last.
EndOf(t) == t[3] + TwoTo[t[2]]

\* Mountains side by side from leaf 0 to leaf n, none taller than the one before it.
Standing(ms, n) ==
    /\ ms \in Seq(Triples)
    /\ \A i \in 1..Len(ms) : ms[i] = Tree(ms[i][3], ms[i][2]) /\ Aligned(ms[i][3], ms[i][2])
    /\ Len(ms) = 0 => n = 0
    /\ Len(ms) > 0 => ms[1][3] = 0 /\ EndOf(ms[Len(ms)]) = n
    /\ \A i \in 1..(Len(ms) - 1) : /\ ms[i + 1][3] = EndOf(ms[i]) /\ ms[i + 1][2] <= ms[i][2]
                                   /\ Aligned(ms[i][3], ms[i][2] + 1)

Falling(ms, k) == \A i \in 1..(k - 1) : ms[i + 1][2] < ms[i][2]

\* A mountain range, and one whose last two mountains may have to be merged.
Ridge(ms, n) == Standing(ms, n) /\ Falling(ms, Len(ms))

Merging(ms, n) == Standing(ms, n) /\ Len(ms) >= 1 /\ Falling(ms, Len(ms) - 1)

\* The parts of a mountain.
LEMMA TripleOf ==
    ASSUME NEW ms \in Seq(Triples), NEW i \in 1..Len(ms)
    PROVE  /\ ms[i] \in Triples /\ ms[i][1] \in Nat /\ ms[i][2] \in Nat /\ ms[i][3] \in Nat
           /\ EndOf(ms[i]) \in Nat
  <1>1. ms[i] \in Triples
    OBVIOUS
  <1>2. \A t \in Triples : t[1] \in Nat /\ t[2] \in Nat /\ t[3] \in Nat
    BY DEF Triples
  <1>3. ms[i][1] \in Nat /\ ms[i][2] \in Nat /\ ms[i][3] \in Nat
    BY <1>1, <1>2
  <1>4. TwoTo[ms[i][2]] \in Nat
    BY <1>3, TwoToAbove
  <1> QED BY <1>1, <1>3, <1>4 DEF EndOf

\* An index before the last is the last but one, or before that.
LEMMA ButTheLast ==
    \A k \in Nat : \A j \in 1..(k - 1) : j = k - 1 \/ (j \in 1..(k - 2) /\ j \in 1..k)
  OBVIOUS

\* Two mountains of one height make one.
LEMMA MergedStands ==
    ASSUME NEW ms, NEW n, Merging(ms, n), Len(ms) >= 2, ms[Len(ms) - 1][2] = ms[Len(ms)][2]
    PROVE  Merging(Merged(ms), n)
  <1> DEFINE k == Len(ms)
             new == Merged(ms)
             h == ms[k][2]
             f == ms[k - 1][3]
             t == <<ms[k][1] + 1, ms[k][2] + 1, ms[k - 1][3]>>
  <1>0. ms \in Seq(Triples)
    BY DEF Merging, Standing
  <1>1. k \in Nat /\ k >= 2 /\ k - 1 \in 1..Len(ms) /\ k \in 1..Len(ms) /\ (k - 1) + 1 = k
        /\ k - 1 \in 1..(Len(ms) - 1)
    BY <1>0, SMTT(30)
  <1>a. \A j \in 1..(k - 1) : j = k - 1 \/ (j \in 1..(k - 2) /\ j \in 1..Len(ms))
    BY <1>1, ButTheLast, Zenon
  <1>2. h \in Nat /\ f \in Nat /\ ms[k][1] \in Nat /\ ms[k][3] \in Nat
    <2> HIDE DEF k
    <2> QED BY <1>0, <1>1, TripleOf
  <1>3. /\ new \in Seq(Triples) /\ Len(new) = k - 1
        /\ \A i \in 1..(k - 2) : new[i] = ms[i]
        /\ new[k - 1] = t
    BY <1>0, MergedIs
  <1>4. t[1] = ms[k][1] + 1 /\ t[2] = h + 1 /\ t[3] = f
    OBVIOUS
  <1>5. /\ ms[k] = Tree(ms[k][3], h) /\ ms[k - 1] = Tree(f, h)
        /\ Aligned(f, h + 1) /\ ms[k][3] = f + TwoTo[h] /\ EndOf(ms[k]) = n
    <2>1. /\ ms[k] = Tree(ms[k][3], ms[k][2]) /\ ms[k - 1] = Tree(ms[k - 1][3], ms[k - 1][2])
          /\ Aligned(ms[k - 1][3], ms[k - 1][2] + 1) /\ ms[(k - 1) + 1][3] = EndOf(ms[k - 1])
          /\ EndOf(ms[Len(ms)]) = n
      <3> HIDE DEF k
      <3> QED BY <1>1 DEF Merging, Standing
    <2> QED BY <1>1, <2>1 DEF EndOf
  <1> HIDE DEF new, t
  <1>6. t = Tree(f, h + 1) /\ Aligned(f, h + 1)
    <2>1. PosOf(f, h + 1) - 1 = PosOf(f + TwoTo[h], h)
      BY <1>2, <1>5, TreeSplits
    <2>2. ms[k][1] = PosOf(f + TwoTo[h], h)
      BY <1>5 DEF Tree
    <2>3. PosOf(f, h + 1) \in Nat
      BY <1>2, TreeTyped
    <2>4. ms[k][1] + 1 = PosOf(f, h + 1)
      BY <1>2, <2>1, <2>2, <2>3
    <2> QED BY <1>5, <2>4 DEF Tree, t
  <1>7. EndOf(t) = n
    <2>1. TwoTo[h + 1] = 2 * TwoTo[h] /\ TwoTo[h] \in Nat
      <3> HIDE DEF h
      <3> QED BY <1>2, TwoToUnfolds, TwoToAbove
    <2>2. n = (f + TwoTo[h]) + TwoTo[h]
      BY <1>5 DEF EndOf
    <2>3. EndOf(t) = f + TwoTo[h + 1]
      BY <1>4 DEF EndOf
    <2> HIDE DEF h, f
    <2> QED BY <1>2, <2>1, <2>2, <2>3
  <1>8. ASSUME NEW i \in 1..(k - 1)
        PROVE  new[i] = Tree(new[i][3], new[i][2]) /\ Aligned(new[i][3], new[i][2])
    <2>1. CASE i = k - 1
      <3>1. Aligned(f, h + 1)
        BY <1>6
      <3> QED BY <1>3, <1>4, <1>6, <2>1, <3>1
    <2>2. CASE i # k - 1
      <3>1. i \in 1..(k - 2) /\ i \in 1..Len(ms)
        BY <1>a, <2>2
      <3>2. ms[i] = Tree(ms[i][3], ms[i][2]) /\ Aligned(ms[i][3], ms[i][2])
        BY <3>1 DEF Merging, Standing
      <3> QED BY <1>3, <3>1, <3>2
    <2> QED BY <2>1, <2>2
  <1>9. new[1][3] = 0
    <2>1. ms[1][3] = 0
      BY <1>1 DEF Merging, Standing
    <2>2. CASE k = 2
      BY <1>3, <1>4, <2>1, <2>2
    <2>3. CASE k # 2
      BY <1>1, <1>3, <2>1, <2>3
    <2> QED BY <2>2, <2>3
  <1>10. ASSUME NEW i \in 1..((k - 1) - 1)
         PROVE  /\ new[i + 1][3] = EndOf(new[i]) /\ new[i + 1][2] <= new[i][2]
                /\ Aligned(new[i][3], new[i][2] + 1)
    <2>1. i \in 1..(k - 2) /\ i \in 1..(Len(ms) - 1) /\ i \in 1..Len(ms) /\ i + 1 \in 1..Len(ms)
      BY <1>1
    <2>2. /\ ms[i + 1][3] = EndOf(ms[i]) /\ ms[i + 1][2] <= ms[i][2]
          /\ Aligned(ms[i][3], ms[i][2] + 1)
      BY <2>1 DEF Merging, Standing
    <2>3. new[i] = ms[i]
      BY <1>3, <2>1
    <2>4. CASE i + 1 = k - 1
      <3>1. new[i + 1] = t
        BY <1>3, <2>4
      <3>2. ms[i + 1][2] < ms[i][2]
        BY <1>1, <2>1, <2>4 DEF Merging, Falling
      <3>3. ms[i + 1][2] = h /\ ms[i + 1][3] = f
        BY <2>4
      <3>4. ms[i][2] \in Nat
        BY <1>0, <2>1, TripleOf
      <3>5. h + 1 <= ms[i][2]
        <4> HIDE DEF h
        <4> QED BY <1>2, <3>2, <3>3, <3>4
      <3> QED BY <1>4, <2>2, <2>3, <3>1, <3>3, <3>5
    <2>5. CASE i + 1 # k - 1
      <3>1. i + 1 \in 1..(k - 2)
        <4>1. i + 1 \in 1..(k - 1)
          <5> HIDE DEF k
          <5> QED BY <1>1
        <4> QED BY <1>a, <2>5, <4>1
      <3>2. new[i + 1] = ms[i + 1]
        BY <1>3, <3>1
      <3> QED BY <2>2, <2>3, <3>2
    <2> QED BY <2>4, <2>5
  <1>11. Falling(new, (k - 1) - 1)
    <2> SUFFICES ASSUME NEW i \in 1..(((k - 1) - 1) - 1) PROVE new[i + 1][2] < new[i][2]
      BY DEF Falling
    <2>1. i \in 1..((Len(ms) - 1) - 1) /\ i \in 1..(k - 2) /\ i + 1 \in 1..(k - 2)
      BY <1>1
    <2>2. ms[i + 1][2] < ms[i][2]
      BY <2>1 DEF Merging, Falling
    <2> QED BY <1>3, <2>1, <2>2
  <1>12. Standing(new, n)
    <2>1. EndOf(new[Len(new)]) = n /\ Len(new) # 0
      BY <1>1, <1>3, <1>7
    <2> HIDE DEF k
    <2>2. \A i \in 1..Len(new) : new[i] = Tree(new[i][3], new[i][2]) /\ Aligned(new[i][3], new[i][2])
      BY <1>3, <1>8
    <2>3. \A i \in 1..(Len(new) - 1) : /\ new[i + 1][3] = EndOf(new[i]) /\ new[i + 1][2] <= new[i][2]
                                       /\ Aligned(new[i][3], new[i][2] + 1)
      BY <1>3, <1>10
    <2> QED BY <1>3, <1>9, <2>1, <2>2, <2>3 DEF Standing
  <1>13. Len(new) >= 1 /\ Falling(new, Len(new) - 1)
    <2> HIDE DEF k
    <2> QED BY <1>1, <1>3, <1>11
  <1> QED BY <1>12, <1>13 DEF Merging, new

\* Merging ends in a mountain range.
LEMMA MergeIs ==
    ASSUME NEW ms, NEW n, Merging(ms, n)
    PROVE  Ridge(Merge[ms], n)
  <1> DEFINE P == {k \in Nat : \A s \in Seq(Triples) : Merging(s, n) /\ Len(s) = k => Ridge(Merge[s], n)}
  <1>1. ASSUME NEW k \in Nat, \A mm \in 0..(k - 1) : mm \in P PROVE k \in P
    <2> SUFFICES ASSUME NEW s \in Seq(Triples), Merging(s, n), Len(s) = k PROVE Ridge(Merge[s], n)
      OBVIOUS
    <2>1. CASE Len(s) >= 2 /\ s[Len(s) - 1][2] = s[Len(s)][2]
      <3>1. Merge[s] = Merge[Merged(s)]
        BY <2>1, MergeUnfolds
      <3>2. Merging(Merged(s), n)
        BY <2>1, MergedStands
      <3>3. Merged(s) \in Seq(Triples) /\ Len(Merged(s)) = k - 1 /\ k - 1 \in 0..(k - 1)
        BY <2>1, MergedIs
      <3>4. k - 1 \in P
        BY <1>1, <3>3
      <3>5. Ridge(Merge[Merged(s)], n)
        BY <3>2, <3>3, <3>4
      <3> QED BY <3>1, <3>5
    <2>2. CASE ~(Len(s) >= 2 /\ s[Len(s) - 1][2] = s[Len(s)][2])
      <3>1. Merge[s] = s
        BY <2>2, MergeUnfolds
      <3>2. Standing(s, n) /\ Falling(s, Len(s) - 1) /\ Len(s) >= 1
        BY DEF Merging
      <3>3. ASSUME NEW i \in 1..(Len(s) - 1) PROVE s[i + 1][2] < s[i][2]
        <4>1. CASE i < Len(s) - 1
          <5>1. i \in 1..((Len(s) - 1) - 1)
            BY <4>1
          <5> QED BY <3>2, <5>1 DEF Falling
        <4>2. CASE ~(i < Len(s) - 1)
          <5>1. i = Len(s) - 1 /\ i + 1 = Len(s) /\ Len(s) >= 2
            BY <4>2
          <5>2. s[i + 1][2] <= s[i][2]
            BY <3>2 DEF Standing
          <5>3. s[i + 1][2] # s[i][2]
            BY <2>2, <5>1
          <5>4. i \in 1..Len(s) /\ i + 1 \in 1..Len(s)
            OBVIOUS
          <5>5. s[i + 1][2] \in Nat /\ s[i][2] \in Nat
            BY <5>4, TripleOf
          <5> QED BY <5>2, <5>3, <5>5
        <4> QED BY <4>1, <4>2
      <3> QED BY <3>1, <3>2, <3>3 DEF Ridge, Falling
    <2> QED BY <2>1, <2>2
  <1>2. P = Nat
    <2>1. P \in SUBSET Nat
      OBVIOUS
    <2> HIDE DEF P
    <2> QED BY <1>1, <2>1, NatStrong
  <1>3. ms \in Seq(Triples) /\ Len(ms) \in P
    <2>1. ms \in Seq(Triples)
      BY DEF Merging, Standing
    <2>2. Len(ms) \in Nat
      BY <2>1
    <2> HIDE DEF P
    <2> QED BY <1>2, <2>1, <2>2
  <1> QED BY <1>3

\* Every mountain of a range could be the left half of a taller one.
LEMMA RidgeAligned ==
    ASSUME NEW ms, NEW n, Ridge(ms, n), NEW i \in 1..Len(ms)
    PROVE  /\ ms[i] = Tree(ms[i][3], ms[i][2]) /\ ms[i][3] \in Nat /\ ms[i][2] \in Nat
           /\ Aligned(ms[i][3], ms[i][2]) /\ Aligned(ms[i][3], ms[i][2] + 1)
           /\ EndOf(ms[i]) = ms[i][3] + TwoTo[ms[i][2]] /\ EndOf(ms[i]) \in Nat
           /\ node_count(EndOf(ms[i])) = ms[i][1] + 1
  <1>1. ms \in Seq(Triples) /\ ms[i] = Tree(ms[i][3], ms[i][2]) /\ Aligned(ms[i][3], ms[i][2])
    BY DEF Ridge, Standing
  <1>2. ms[i][3] \in Nat /\ ms[i][2] \in Nat /\ EndOf(ms[i]) \in Nat
    BY <1>1, TripleOf
  <1> DEFINE f == ms[i][3]
             h == ms[i][2]
  <1>3. Aligned(f, h + 1)
    <2>1. CASE i \in 1..(Len(ms) - 1)
      BY <2>1 DEF Ridge, Standing
    <2>2. CASE i = Len(ms) /\ i = 1
      <3>1. f = 0
        BY <1>1, <2>2 DEF Ridge, Standing
      <3>2. h + 1 \in Nat
        BY <1>2
      <3>3. Aligned(0, h + 1)
        <4> HIDE DEF h
        <4> QED BY <3>2, AlignedFacts
      <3> QED BY <3>1, <3>3
    <2>3. CASE i = Len(ms) /\ i # 1
      <3>1. i - 1 \in 1..(Len(ms) - 1) /\ (i - 1) + 1 = i /\ i - 1 \in 1..Len(ms)
        BY <1>1, <2>3
      <3> DEFINE j == i - 1
                 a == ms[j][3]
                 b == ms[j][2]
      <3>2. f = EndOf(ms[j]) /\ Aligned(a, b + 1)
        BY <3>1 DEF Ridge, Standing
      <3>3. h < b
        BY <3>1 DEF Ridge, Falling
      <3>4. a \in Nat /\ b \in Nat /\ Aligned(a, b)
        <4>1. Aligned(a, b)
          BY <3>1 DEF Ridge, Standing
        <4> HIDE DEF j
        <4>2. a \in Nat /\ b \in Nat
          BY <1>1, <3>1, TripleOf DEF j
        <4> QED BY <4>1, <4>2
      <3>5. f = a + TwoTo[b]
        BY <3>2 DEF EndOf
      <3> HIDE DEF a, b
      <3>6. Aligned(f, b)
        BY <3>4, <3>5, AlignedFacts
      <3>7. h + 1 \in Nat /\ h + 1 <= b
        BY <1>2, <3>3, <3>4
      <3> HIDE DEF f, h
      <3>8. f \in Nat
        BY <1>2 DEF f
      <3> QED BY <3>4, <3>6, <3>7, <3>8, WiderAligned
    <2> QED BY <1>1, <2>1, <2>2, <2>3
  <1>4. EndOf(ms[i]) = f + TwoTo[h]
    BY DEF EndOf
  <1>5. node_count(f + TwoTo[h]) = ms[i][1] + 1
    <2>1. ms[i][1] = PosOf(f, h)
      BY <1>1 DEF Tree
    <2>2. node_count(f + TwoTo[h]) = PosOf(f, h) + 1
      <3> HIDE DEF f, h
      <3>1. f \in Nat /\ h \in Nat
        BY <1>2 DEF f, h
      <3> QED BY <1>3, <3>1, TreeSplits
    <2> QED BY <2>1, <2>2
  <1> QED BY <1>1, <1>2, <1>3, <1>4, <1>5

\* The mountains of a log of n leaves are a range over them.
LEMMA GrownIs == \A n \in Nat : Ridge(Grown[n], n)
  <1> DEFINE P == {n \in Nat : Ridge(Grown[n], n)}
  <1>1. ASSUME NEW n \in Nat, \A mm \in 0..(n - 1) : mm \in P PROVE n \in P
    <2>1. CASE n = 0
      <3>1. Grown[0] = << >>
        BY AddUnfolds DEF AddTurn
      <3>2. << >> \in Seq(Triples) /\ Len(<< >>) = 0
        OBVIOUS
      <3>3. Ridge(<< >>, 0)
        BY <3>2 DEF Ridge, Standing, Falling
      <3> QED BY <2>1, <3>1, <3>3
    <2>2. CASE n # 0
      <3> DEFINE ms == Grown[n - 1]
                 k == Len(ms)
                 new == <<IF n = 1 THEN 0 ELSE Last(ms)[1] + 1, 0, n - 1>>
      <3>1. n - 1 \in Nat /\ n - 1 \in 0..(n - 1)
        BY <2>2
      <3>2. Ridge(ms, n - 1)
        BY <1>1, <3>1
      <3>3. Grown[n] = Merge[Append(ms, new)]
        BY <2>2, AddUnfolds DEF AddTurn
      <3> HIDE DEF ms
      <3>4. ms \in Seq(Triples) /\ k \in Nat
        BY <3>2 DEF Ridge, Standing
      <3>5. new = Tree(n - 1, 0) /\ new \in Triples /\ Aligned(n - 1, 0)
        <4>1. PosOf(n - 1, 0) = node_count(n - 1)
          <5>1. MountainSize(0) = 1
            BY TwoToUnfolds DEF MountainSize
          <5>2. node_count(n - 1) \in Nat
            BY <3>1, CountTyped
          <5> QED BY <5>1, <5>2 DEF PosOf
        <4>2. (IF n = 1 THEN 0 ELSE Last(ms)[1] + 1) = node_count(n - 1)
          <5>1. CASE n = 1
            BY <5>1, CountTyped
          <5>2. CASE n # 1
            <6>1. k # 0
              BY <2>2, <3>2, <5>2 DEF Ridge, Standing
            <6>2. k \in 1..Len(ms)
              BY <3>4, <6>1
            <6>3. EndOf(ms[k]) = n - 1
              BY <3>2, <6>2 DEF Ridge, Standing
            <6>4. node_count(EndOf(ms[k])) = ms[k][1] + 1
              <7> HIDE DEF k
              <7> QED BY <3>2, <6>2, RidgeAligned
            <6>5. Last(ms) = ms[k]
              BY DEF Last
            <6> QED BY <5>2, <6>3, <6>4, <6>5
          <5> QED BY <5>1, <5>2
        <4>3. new = Tree(n - 1, 0)
          BY <4>1, <4>2 DEF Tree
        <4>4. Tree(n - 1, 0) \in Triples
          BY <3>1, TreeTyped
        <4>5. Aligned(n - 1, 0)
          <5>1. TwoTo[0] = 1 /\ n - 1 = (n - 1) * 1
            BY <3>1, TwoToUnfolds
          <5> QED BY <3>1, <5>1 DEF Aligned
        <4> HIDE DEF new
        <4> QED BY <4>3, <4>4, <4>5
      <3>6. new[2] = 0 /\ new[3] = n - 1
        OBVIOUS
      <3> HIDE DEF new
      <3> DEFINE s == Append(ms, new)
      <3>7. /\ s \in Seq(Triples) /\ Len(s) = k + 1 /\ s[k + 1] = new
            /\ \A i \in 1..k : s[i] = ms[i]
        BY <3>4, <3>5
      <3> HIDE DEF s
      <3>8. \A i \in 1..(k + 1) : i = k + 1 \/ i \in 1..k
        BY <3>4
      <3>9. \A i \in 1..k : /\ ms[i] = Tree(ms[i][3], ms[i][2]) /\ ms[i][3] \in Nat /\ ms[i][2] \in Nat
                            /\ Aligned(ms[i][3], ms[i][2]) /\ Aligned(ms[i][3], ms[i][2] + 1)
        BY <3>2, RidgeAligned
      <3>10. \A i \in 1..(k + 1) : s[i] = Tree(s[i][3], s[i][2]) /\ Aligned(s[i][3], s[i][2])
        <4> SUFFICES ASSUME NEW i \in 1..(k + 1)
                     PROVE  s[i] = Tree(s[i][3], s[i][2]) /\ Aligned(s[i][3], s[i][2])
          OBVIOUS
        <4>1. CASE i = k + 1
          BY <3>5, <3>6, <3>7, <4>1
        <4>2. CASE i \in 1..k
          BY <3>7, <3>9, <4>2
        <4> QED BY <3>8, <4>1, <4>2
      <3>11. s[1][3] = 0 /\ EndOf(s[k + 1]) = n
        <4>1. EndOf(s[k + 1]) = n
          <5>1. TwoTo[0] = 1
            BY TwoToUnfolds
          <5>2. (n - 1) + 1 = n
            OBVIOUS
          <5> QED BY <3>6, <3>7, <5>1, <5>2 DEF EndOf
        <4>2. CASE k = 0
          <5>1. n - 1 = 0
            BY <3>2, <4>2 DEF Ridge, Standing
          <5> QED BY <3>6, <3>7, <4>1, <4>2, <5>1
        <4>3. CASE k # 0
          <5>1. ms[1][3] = 0
            BY <3>2, <3>4, <4>3 DEF Ridge, Standing
          <5>2. 1 \in 1..k
            BY <3>4, <4>3
          <5> QED BY <3>7, <4>1, <5>1, <5>2
        <4> QED BY <4>2, <4>3
      <3>12. \A i \in 1..k : /\ s[i + 1][3] = EndOf(s[i]) /\ s[i + 1][2] <= s[i][2]
                             /\ Aligned(s[i][3], s[i][2] + 1)
        <4> SUFFICES ASSUME NEW i \in 1..k
                     PROVE  /\ s[i + 1][3] = EndOf(s[i]) /\ s[i + 1][2] <= s[i][2]
                            /\ Aligned(s[i][3], s[i][2] + 1)
          OBVIOUS
        <4>1. s[i] = ms[i] /\ ms[i][2] \in Nat /\ Aligned(ms[i][3], ms[i][2] + 1)
          BY <3>7, <3>9
        <4>2. CASE i = k
          <5>1. EndOf(ms[i]) = n - 1
            BY <3>2, <4>2 DEF Ridge, Standing
          <5>2. s[i + 1] = new
            BY <3>7, <4>2
          <5> QED BY <3>6, <4>1, <5>1, <5>2
        <4>3. CASE i # k
          <5>1. i \in 1..(k - 1) /\ i + 1 \in 1..k
            BY <3>4, <4>3
          <5>2. ms[i + 1][3] = EndOf(ms[i]) /\ ms[i + 1][2] <= ms[i][2]
            BY <3>2, <5>1 DEF Ridge, Standing
          <5> QED BY <3>7, <4>1, <5>1, <5>2
        <4> QED BY <4>2, <4>3
      <3>13. Standing(s, n)
        <4>1. Len(s) # 0 /\ Len(s) - 1 = k
          BY <3>4, <3>7
        <4> HIDE DEF k
        <4> QED BY <3>7, <3>10, <3>11, <3>12, <4>1 DEF Standing
      <3>14. Falling(s, k)
        <4> SUFFICES ASSUME NEW i \in 1..(k - 1) PROVE s[i + 1][2] < s[i][2]
          BY DEF Falling
        <4>1. i \in 1..k /\ i + 1 \in 1..k
          BY <3>4
        <4>2. ms[i + 1][2] < ms[i][2]
          BY <3>2 DEF Ridge, Falling
        <4> QED BY <3>7, <4>1, <4>2
      <3>15. Merging(s, n)
        <4>1. Len(s) - 1 = k /\ Len(s) >= 1
          BY <3>4, <3>7
        <4> HIDE DEF k
        <4> QED BY <3>13, <3>14, <4>1 DEF Merging
      <3>16. Ridge(Merge[s], n)
        BY <3>15, MergeIs
      <3> QED BY <3>3, <3>16 DEF s
    <2> QED BY <2>1, <2>2
  <1>2. P = Nat
    <2>1. P \in SUBSET Nat
      OBVIOUS
    <2> HIDE DEF P
    <2> QED BY <1>1, <2>1, NatStrong
  <1> QED BY <1>2

\* The mountains of n leaves stand side by side, strictly falling, and have node_count(n) nodes.
LEMMA MountainsAre ==
    ASSUME NEW n \in Nat
    PROVE  Ridge(Mountains(n), n) /\ SizeOf(n) = node_count(n)
  <1>1. Mountains(n) = Grown[n]
    BY Zenon DEF Mountains, Grown, AddTurn, Merge, MergeTurn
  <1>2. Ridge(Mountains(n), n)
    BY <1>1, GrownIs
  <1> DEFINE ms == Mountains(n)
             k == Len(ms)
  <1> HIDE DEF ms
  <1>3. SizeOf(n) = node_count(n)
    <2>1. CASE n = 0
      BY <2>1, CountTyped DEF SizeOf
    <2>2. CASE n # 0
      <3>1. k \in 1..Len(ms)
        BY <1>2, <2>2 DEF Ridge, Standing, ms
      <3>2. EndOf(ms[k]) = n
        BY <1>2, <3>1 DEF Ridge, Standing, ms
      <3>3. node_count(EndOf(ms[k])) = ms[k][1] + 1
        <4> HIDE DEF k
        <4> QED BY <1>2, <3>1, RidgeAligned DEF ms
      <3>4. SizeOf(n) = ms[k][1] + 1
        BY <2>2 DEF SizeOf, Last, ms
      <3> QED BY <3>2, <3>3, <3>4
    <2> QED BY <2>1, <2>2
  <1> QED BY <1>2, <1>3

\* The leaf at which the i-th mountain starts, or the range ends.
Foot(ms, n, i) == IF i = Len(ms) + 1 THEN n ELSE ms[i][3]

\* A mountain starts where the one before it ends.
LEMMA FootIs ==
    ASSUME NEW ms, NEW n \in Nat, Ridge(ms, n)
    PROVE  /\ ms \in Seq(Triples) /\ Len(ms) \in Nat
           /\ Foot(ms, n, 1) = 0 /\ Foot(ms, n, Len(ms) + 1) = n
           /\ \A i \in 1..(Len(ms) + 1) : Foot(ms, n, i) \in Nat
           /\ \A i \in 1..Len(ms) : Foot(ms, n, i) = ms[i][3] /\ Foot(ms, n, i + 1) = EndOf(ms[i])
  <1> DEFINE k == Len(ms)
  <1>1. ms \in Seq(Triples) /\ k \in Nat
    BY DEF Ridge, Standing
  <1>2. \A i \in 1..k : ms[i][3] \in Nat
    BY <1>1, TripleOf
  <1>3. \A i \in 1..(k + 1) : i = k + 1 \/ i \in 1..k
    BY <1>1
  <1>4. \A i \in 1..(k + 1) : Foot(ms, n, i) \in Nat
    BY <1>2, <1>3 DEF Foot
  <1>5. Foot(ms, n, 1) = 0 /\ Foot(ms, n, k + 1) = n
    <2>1. CASE k = 0
      <3>1. n = 0
        BY <2>1 DEF Ridge, Standing
      <3> QED BY <2>1, <3>1 DEF Foot
    <2>2. CASE k # 0
      <3>1. ms[1][3] = 0 /\ 1 # k + 1
        BY <1>1, <2>2 DEF Ridge, Standing
      <3> QED BY <3>1 DEF Foot
    <2> QED BY <2>1, <2>2
  <1>6. ASSUME NEW i \in 1..k PROVE Foot(ms, n, i) = ms[i][3] /\ Foot(ms, n, i + 1) = EndOf(ms[i])
    <2>1. i # k + 1 /\ (i = k \/ (i \in 1..(k - 1) /\ i + 1 # k + 1))
      BY <1>1
    <2>2. Foot(ms, n, i) = ms[i][3]
      BY <2>1 DEF Foot
    <2>3. CASE i = k
      <3>1. k # 0 /\ Len(ms) > 0
        BY <1>1
      <3>2. EndOf(ms[i]) = n
        BY <2>3, <3>1 DEF Ridge, Standing
      <3> QED BY <2>2, <2>3, <3>2 DEF Foot
    <2>4. CASE i \in 1..(k - 1) /\ i + 1 # k + 1
      <3>1. ms[i + 1][3] = EndOf(ms[i])
        BY <2>4 DEF Ridge, Standing
      <3> QED BY <2>2, <2>4, <3>1 DEF Foot
    <2> QED BY <2>1, <2>3, <2>4
  <1> QED BY <1>1, <1>4, <1>5, <1>6

\* Induction from the right end of a range.
LEMMA FromTheRight ==
    ASSUME NEW k \in Nat, NEW S, k + 1 \in S,
           \A i \in 1..k : i + 1 \in S => i \in S
    PROVE  \A i \in 1..(k + 1) : i \in S
  <1> DEFINE P == {d \in Nat : d <= k => (k + 1) - d \in S}
  <1>1. ASSUME NEW d \in Nat, \A mm \in 0..(d - 1) : mm \in P PROVE d \in P
    <2>1. CASE d = 0
      BY <2>1
    <2>2. CASE d # 0 /\ d <= k
      <3>1. d - 1 \in Nat /\ d - 1 \in 0..(d - 1) /\ d - 1 <= k /\ (k + 1) - d \in 1..k
            /\ ((k + 1) - d) + 1 = (k + 1) - (d - 1)
        BY <2>2
      <3>2. (k + 1) - (d - 1) \in S
        BY <1>1, <3>1
      <3> QED BY <3>1, <3>2
    <2> QED BY <2>1, <2>2
  <1>2. P = Nat
    <2>1. P \in SUBSET Nat
      OBVIOUS
    <2> HIDE DEF P
    <2> QED BY <1>1, <2>1, NatStrong
  <1>3. ASSUME NEW i \in 1..(k + 1) PROVE i \in S
    <2>1. (k + 1) - i \in P /\ (k + 1) - i <= k /\ (k + 1) - ((k + 1) - i) = i
      <3>1. (k + 1) - i \in Nat /\ (k + 1) - i <= k /\ (k + 1) - ((k + 1) - i) = i
        OBVIOUS
      <3> HIDE DEF P
      <3> QED BY <1>2, <3>1
    <2> QED BY <2>1
  <1> QED BY <1>3

\* What is to the right of a mountain's foot would not fill a taller one.
LEMMA RestIsShort ==
    ASSUME NEW ms, NEW n \in Nat, Ridge(ms, n)
    PROVE  /\ \A i \in 1..(Len(ms) + 1) : Foot(ms, n, i) <= n
           /\ \A i \in 1..Len(ms) : /\ EndOf(ms[i]) <= n
                                    /\ n - ms[i][3] \in Nat
                                    /\ TwoTo[ms[i][2]] <= n - ms[i][3]
                                    /\ n - ms[i][3] < TwoTo[ms[i][2] + 1]
  <1> DEFINE k == Len(ms)
             F(i) == Foot(ms, n, i)
             S == {i \in 1..(k + 1) : F(i) <= n /\ (i <= k => n < F(i) + TwoTo[ms[i][2] + 1])}
  <1>0. ms \in Seq(Triples) /\ k \in Nat
    BY FootIs
  <1>1. ASSUME NEW i \in 1..k
        PROVE  /\ F(i) = ms[i][3] /\ F(i + 1) = F(i) + TwoTo[ms[i][2]] /\ F(i) \in Nat /\ F(i + 1) \in Nat
               /\ ms[i][2] \in Nat /\ TwoTo[ms[i][2]] \in Nat /\ TwoTo[ms[i][2]] >= 1
               /\ TwoTo[ms[i][2] + 1] = 2 * TwoTo[ms[i][2]]
    <2>1. i \in 1..(k + 1) /\ i + 1 \in 1..(k + 1)
      BY <1>0
    <2>2. F(i) = ms[i][3] /\ F(i + 1) = EndOf(ms[i]) /\ F(i) \in Nat /\ F(i + 1) \in Nat
      BY <2>1, FootIs
    <2>3. EndOf(ms[i]) = ms[i][3] + TwoTo[ms[i][2]] /\ ms[i][2] \in Nat
      BY RidgeAligned
    <2> DEFINE h == ms[i][2]
    <2>4. TwoTo[h] \in Nat /\ TwoTo[h] >= 1 /\ TwoTo[h + 1] = 2 * TwoTo[h]
      <3>1. h \in Nat
        BY <2>3
      <3> HIDE DEF h
      <3> QED BY <3>1, TwoToAbove, TwoToUnfolds
    <2> QED BY <2>2, <2>3, <2>4
  <1> HIDE DEF k
  <1>2. k + 1 \in S
    <2>1. F(k + 1) = n
      BY FootIs DEF k
    <2> HIDE DEF F
    <2> QED BY <1>0, <2>1
  <1>3. ASSUME NEW i \in 1..k, i + 1 \in S PROVE i \in S
    <2> DEFINE w == TwoTo[ms[i][2]]
    <2>1. /\ F(i + 1) = F(i) + w /\ F(i) \in Nat /\ w \in Nat /\ w >= 1
          /\ TwoTo[ms[i][2] + 1] = 2 * w
      BY <1>1
    <2>2. F(i + 1) <= n
      BY <1>3
    <2>3. n < F(i + 1) + w
      <3>1. CASE i = k
        <4>1. F(i + 1) = n
          BY <3>1, FootIs DEF k
        <4> HIDE DEF F, w
        <4> QED BY <2>1, <4>1
      <3>2. CASE i # k
        <4>1. i + 1 \in 1..k /\ i \in 1..(k - 1)
          BY <1>0, <3>2
        <4>2. n < F(i + 1) + TwoTo[ms[i + 1][2] + 1]
          BY <1>3, <4>1
        <4>3. ms[i + 1][2] < ms[i][2]
          BY <4>1 DEF Ridge, Falling, k
        <4>4. TwoTo[ms[i + 1][2] + 1] <= w
          <5> DEFINE b == ms[i + 1][2]
                     h == ms[i][2]
          <5>1. b \in Nat /\ h \in Nat
            <6>1. i \in 1..k /\ i + 1 \in 1..k
              BY <4>1
            <6> QED BY <1>1, <6>1
          <5> HIDE DEF b, h
          <5>2. b + 1 \in Nat /\ b + 1 <= h
            BY <4>3, <5>1 DEF b, h
          <5>3. TwoTo[b + 1] <= TwoTo[h]
            BY <5>1, <5>2, WiderAligned
          <5> QED BY <5>3 DEF b, h
        <4>5. TwoTo[ms[i + 1][2] + 1] \in Nat
          <5>1. TwoTo[ms[i + 1][2] + 1] = 2 * TwoTo[ms[i + 1][2]] /\ TwoTo[ms[i + 1][2]] \in Nat
            BY <1>1, <4>1
          <5> QED BY <5>1
        <4>6. F(i + 1) \in Nat
          BY <1>1
        <4> HIDE DEF F, w
        <4> QED BY <2>1, <4>2, <4>4, <4>5, <4>6
      <3> QED BY <3>1, <3>2
    <2>4. F(i) <= n /\ n < F(i) + TwoTo[ms[i][2] + 1]
      <3> HIDE DEF F, w
      <3> QED BY <2>1, <2>2, <2>3
    <2>5. i \in 1..(k + 1)
      BY <1>0
    <2> HIDE DEF F
    <2> QED BY <2>4, <2>5
  <1>4. \A i \in 1..(k + 1) : i \in S
    <2> HIDE DEF S
    <2> QED BY <1>0, <1>2, <1>3, FromTheRight
  <1>5. \A i \in 1..(k + 1) : F(i) <= n
    BY <1>4
  <1>6. ASSUME NEW i \in 1..k
        PROVE  /\ EndOf(ms[i]) <= n /\ n - ms[i][3] \in Nat
               /\ TwoTo[ms[i][2]] <= n - ms[i][3] /\ n - ms[i][3] < TwoTo[ms[i][2] + 1]
    <2>1. i \in 1..(k + 1) /\ i + 1 \in 1..(k + 1) /\ i <= k
      BY <1>0
    <2>2. n < F(i) + TwoTo[ms[i][2] + 1] /\ F(i + 1) <= n
      BY <1>4, <2>1
    <2>3. /\ F(i) = ms[i][3] /\ F(i + 1) = F(i) + TwoTo[ms[i][2]] /\ F(i) \in Nat
          /\ TwoTo[ms[i][2]] \in Nat /\ TwoTo[ms[i][2] + 1] = 2 * TwoTo[ms[i][2]]
      BY <1>1
    <2>4. EndOf(ms[i]) = F(i + 1)
      BY FootIs DEF k
    <2> DEFINE w == TwoTo[ms[i][2]]
               x == F(i)
    <2>5. EndOf(ms[i]) <= n
      BY <2>2, <2>4
    <2>6. x + w <= n /\ n < x + 2 * w /\ x \in Nat /\ w \in Nat
      BY <2>2, <2>3
    <2>7. n - x \in Nat /\ w <= n - x /\ n - x < 2 * w
      <3> HIDE DEF x, w
      <3> QED BY <2>6
    <2> QED BY <2>3, <2>5, <2>7
  <1> QED BY <1>5, <1>6 DEF k

\* The tallest mountain that fits is the one that fits when the next does not.
LEMMA TallestTells ==
    ASSUME NEW n \in Nat, NEW h \in Nat, MountainSize(h) <= n, n < MountainSize(h + 1)
    PROVE  Tallest(n) = h
  <1> DEFINE t == Tallest(n)
  <1>0. MountainSize(h) \in Nat /\ MountainSize(h) >= 1 /\ MountainSize(h + 1) \in Nat
    BY SizeAbove
  <1>1. n >= 1
    BY <1>0
  <1>2. t \in Nat /\ MountainSize(t) <= n /\ n < MountainSize(t + 1)
    BY <1>1, TallestIs
  <1> HIDE DEF t
  <1>3. ASSUME NEW a \in Nat, NEW b \in Nat, a < b PROVE MountainSize(a + 1) <= MountainSize(b)
    <2>1. a + 1 \in Nat /\ a + 1 <= b
      BY <1>3
    <2>2. TwoTo[a + 1] <= TwoTo[b]
      BY <2>1, WiderAligned
    <2>3. MountainSize(a + 1) = 2 * TwoTo[a + 1] - 1 /\ MountainSize(b) = 2 * TwoTo[b] - 1
      BY <2>1, SizeAbove
    <2>4. TwoTo[a + 1] \in Nat /\ TwoTo[b] \in Nat
      BY <2>1, TwoToAbove
    <2> QED BY <2>2, <2>3, <2>4
  <1>4. MountainSize(t) \in Nat /\ MountainSize(t + 1) \in Nat
    BY <1>2, SizeAbove
  <1>5. ~(t < h)
    <2> SUFFICES ASSUME t < h PROVE FALSE
      OBVIOUS
    <2>1. MountainSize(t + 1) <= MountainSize(h)
      BY <1>2, <1>3
    <2> QED BY <1>0, <1>2, <1>4, <2>1
  <1>6. ~(h < t)
    <2> SUFFICES ASSUME h < t PROVE FALSE
      OBVIOUS
    <2>1. MountainSize(h + 1) <= MountainSize(t)
      BY <1>2, <1>3
    <2> QED BY <1>0, <1>2, <1>4, <2>1
  <1> QED BY <1>2, <1>5, <1>6 DEF t

\* The positions of the peaks from the i-th on.
PeaksFrom(ms, i) == [j \in 1..(Len(ms) + 1 - i) |-> ms[(i - 1) + j][1]]

\* The peaks from the i-th on are the i-th and those after it.
LEMMA PeaksFromIs ==
    ASSUME NEW ms \in Seq(Triples), NEW i \in 1..Len(ms)
    PROVE  /\ PeaksFrom(ms, i) = <<ms[i][1]>> \o PeaksFrom(ms, i + 1)
           /\ PeaksFrom(ms, i + 1) # NoPeaks
  <1> DEFINE k == Len(ms)
             s == <<ms[i][1]>>
             r == PeaksFrom(ms, i + 1)
             f == PeaksFrom(ms, i)
  <1>1. k \in Nat /\ i \in 1..k /\ \A j \in 1..k : ms[j][1] \in Nat
    BY TripleOf
  <1> HIDE DEF k
  <1>2. r \in Seq(Nat) /\ Len(r) = k - i /\ \A j \in 1..(k - i) : r[j] = ms[i + j][1]
    <2>1. k - i \in Nat /\ k + 1 - (i + 1) = k - i /\ (i + 1) - 1 = i
      BY <1>1
    <2>2. r = [j \in 1..(k - i) |-> ms[i + j][1]]
      BY <2>1 DEF PeaksFrom, k
    <2>3. \A j \in 1..(k - i) : ms[i + j][1] \in Nat
      <3>1. \A j \in 1..(k - i) : i + j \in 1..k
        BY <1>1
      <3> QED BY <1>1, <3>1
    <2> HIDE DEF r
    <2> QED BY <2>1, <2>2, <2>3
  <1>3. f \in Seq(Nat) /\ Len(f) = k - i + 1 /\ \A j \in 1..(k - i + 1) : f[j] = ms[(i - 1) + j][1]
    <2>1. k - i + 1 \in Nat /\ k + 1 - i = k - i + 1
      BY <1>1
    <2>2. f = [j \in 1..(k - i + 1) |-> ms[(i - 1) + j][1]]
      BY <2>1 DEF PeaksFrom, k
    <2>3. \A j \in 1..(k - i + 1) : ms[(i - 1) + j][1] \in Nat
      <3>1. \A j \in 1..(k - i + 1) : (i - 1) + j \in 1..k
        BY <1>1
      <3> QED BY <1>1, <3>1
    <2> HIDE DEF f
    <2> QED BY <2>1, <2>2, <2>3
  <1>4. r # NoPeaks
    <2> SUFFICES ASSUME r = NoPeaks PROVE FALSE
      OBVIOUS
    <2>1. Len(r) = 1 /\ r[1] = -1
      BY DEF NoPeaks
    <2>2. r[1] \in Nat
      <3>1. r \in Seq(Nat) /\ 1 \in 1..Len(r)
        BY <1>2, <2>1
      <3> HIDE DEF r
      <3> QED BY <3>1, ElementOfSeq
    <2> QED BY <2>1, <2>2
  <1>5. s \in Seq(Nat) /\ Len(s) = 1 /\ s[1] = ms[i][1]
    <2>1. ms[i][1] \in Nat
      BY <1>1
    <2> QED BY <2>1
  <1> HIDE DEF r, f, s
  <1>6. f = s \o r
    <2>1. /\ s \o r \in Seq(Nat) /\ Len(s \o r) = k - i + 1
          /\ \A j \in 1..(k - i + 1) : (s \o r)[j] = IF j <= 1 THEN s[j] ELSE r[j - 1]
      <3>1. /\ s \o r \in Seq(Nat) /\ Len(s \o r) = Len(s) + Len(r)
            /\ \A j \in 1..(Len(s) + Len(r)) : (s \o r)[j] = IF j <= Len(s) THEN s[j] ELSE r[j - Len(s)]
        BY <1>2, <1>5, ConcatProperties
      <3>2. Len(s) + Len(r) = k - i + 1
        BY <1>1, <1>2, <1>5
      <3> QED BY <1>5, <3>1, <3>2
    <2>2. ASSUME NEW j \in 1..(k - i + 1) PROVE f[j] = (s \o r)[j]
      <3>1. CASE j = 1
        <4>1. (i - 1) + 1 = i /\ 1 \in 1..(k - i + 1)
          BY <1>1
        <4>2. f[1] = ms[i][1]
          BY <1>3, <4>1
        <4>3. (s \o r)[1] = s[1]
          BY <2>1, <4>1
        <4> QED BY <1>5, <3>1, <4>2, <4>3
      <3>2. CASE j # 1
        <4>1. j - 1 \in 1..(k - i) /\ i + (j - 1) = (i - 1) + j /\ ~(j <= 1)
          BY <1>1, <3>2
        <4>2. r[j - 1] = ms[i + (j - 1)][1]
          BY <1>2, <4>1
        <4>3. f[j] = ms[(i - 1) + j][1]
          BY <1>3
        <4>4. (s \o r)[j] = r[j - 1]
          BY <2>1, <4>1
        <4> QED BY <4>1, <4>2, <4>3, <4>4
      <3> QED BY <3>1, <3>2
    <2> QED BY <1>3, <2>1, <2>2, SeqEqual
  <1> QED BY <1>4, <1>6 DEF f, s, r

\* The greedy split finds the mountains of the log.
LEMMA SplitIs ==
    ASSUME NEW ms, NEW n \in Nat, Ridge(ms, n), NEW i \in 1..(Len(ms) + 1), NEW top \in Nat,
           i <= Len(ms) => ms[i][2] < top
    PROVE  Split[<<node_count(n) - node_count(Foot(ms, n, i)), node_count(Foot(ms, n, i)), top>>]
               = PeaksFrom(ms, i)
  <1> DEFINE k == Len(ms)
             c(x) == node_count(Foot(ms, n, x))
             Good(x) == \A b \in Nat : (x <= k => ms[x][2] < b) =>
                            Split[<<node_count(n) - c(x), c(x), b>>] = PeaksFrom(ms, x)
             S == {x \in 1..(k + 1) : Good(x)}
  <1>0. ms \in Seq(Triples) /\ k \in Nat /\ node_count(n) \in Nat
        /\ \A x \in 1..(k + 1) : c(x) \in Nat /\ c(x) <= node_count(n)
    <2>1. ms \in Seq(Triples) /\ k \in Nat
      BY FootIs
    <2>2. node_count(n) \in Nat
      BY CountTyped
    <2>3. ASSUME NEW x \in 1..(k + 1) PROVE c(x) \in Nat /\ c(x) <= node_count(n)
      <3>1. Foot(ms, n, x) \in Nat
        BY FootIs
      <3>2. Foot(ms, n, x) <= n
        BY RestIsShort
      <3>3. c(x) <= node_count(n)
        BY <3>1, <3>2, CountGrows
      <3> QED BY <3>1, <3>3, CountTyped
    <2> HIDE DEF k, c
    <2> QED BY <2>1, <2>2, <2>3
  <1>1. k + 1 \in S
    <2> SUFFICES ASSUME NEW b \in Nat
                 PROVE  Split[<<node_count(n) - c(k + 1), c(k + 1), b>>] = PeaksFrom(ms, k + 1)
      BY <1>0
    <2>1. c(k + 1) = node_count(n)
      BY FootIs
    <2> DEFINE p == <<node_count(n) - c(k + 1), c(k + 1), b>>
    <2>2. p[1] = 0 /\ p \in Nat \X Nat \X Nat
      <3>1. node_count(n) - c(k + 1) = 0
        BY <1>0, <2>1
      <3> HIDE DEF c
      <3> QED BY <1>0, <2>1, <3>1
    <2> HIDE DEF p
    <2>3. Split[p] = << >>
      <3>1. Split[p] = SplitTurn(Split, p)
        BY <2>2, SplitUnfolds
      <3> QED BY <2>2, <3>1 DEF SplitTurn
    <2>4. PeaksFrom(ms, k + 1) = << >>
      <3>1. k + 1 - (k + 1) = 0
        BY <1>0
      <3> QED BY <3>1 DEF PeaksFrom
    <2> QED BY <2>3, <2>4 DEF p
  <1>2. ASSUME NEW x \in 1..k, x + 1 \in S PROVE x \in S
    <2> SUFFICES ASSUME NEW b \in Nat, ms[x][2] < b
                 PROVE  Split[<<node_count(n) - c(x), c(x), b>>] = PeaksFrom(ms, x)
      <3>1. x \in 1..(k + 1) /\ x <= k
        BY <1>0
      <3> QED BY <3>1
    <2> DEFINE f == ms[x][3]
               h == ms[x][2]
               r == n - f
               p == <<node_count(n) - c(x), c(x), b>>
    <2>1. /\ ms[x] = Tree(f, h) /\ f \in Nat /\ h \in Nat /\ Aligned(f, h + 1)
          /\ node_count(EndOf(ms[x])) = ms[x][1] + 1
      BY RidgeAligned
    <2>2. Foot(ms, n, x) = f /\ Foot(ms, n, x + 1) = EndOf(ms[x])
      BY FootIs
    <2>3. r \in Nat /\ TwoTo[h] <= r /\ r < TwoTo[h + 1]
      BY RestIsShort
    <2> HIDE DEF h, f, r
    <2>4. f + r = n
      BY <2>1 DEF r
    <2>5. node_count(n) = node_count(f) + node_count(r)
      <3>1. h + 1 \in Nat
        BY <2>1
      <3>2. node_count(f + r) = node_count(f) + node_count(r)
        BY <2>1, <2>3, <3>1, CountAdds
      <3> QED BY <2>4, <3>2
    <2>6. /\ MountainSize(h) <= node_count(r) /\ node_count(r) < MountainSize(h + 1)
          /\ node_count(r) \in Nat /\ MountainSize(h) \in Nat /\ MountainSize(h) >= 1
      <3>1. TwoTo[h] \in Nat /\ TwoTo[h + 1] \in Nat
        BY <2>1, TwoToAbove
      <3>2. node_count(TwoTo[h]) <= node_count(r) /\ node_count(r) < node_count(TwoTo[h + 1])
        BY <2>3, <3>1, CountGrows
      <3>3. node_count(TwoTo[h]) = MountainSize(h) /\ node_count(TwoTo[h + 1]) = MountainSize(h + 1)
        BY <2>1, CountOfMountain
      <3>4. node_count(r) \in Nat
        BY <2>3, CountTyped
      <3>5. MountainSize(h) \in Nat /\ MountainSize(h) >= 1
        BY <2>1, SizeAbove
      <3> QED BY <3>2, <3>3, <3>4, <3>5
    <2>7. Tallest(node_count(r)) = h
      BY <2>1, <2>6, TallestTells
    <2>8. c(x) = node_count(f) /\ c(x) \in Nat /\ node_count(n) - c(x) = node_count(r)
      <3>1. c(x) = node_count(f)
        BY <2>2
      <3>2. c(x) \in Nat
        BY <2>1, <3>1, CountTyped
      <3> HIDE DEF c
      <3> QED BY <2>5, <2>6, <3>1, <3>2
    <2>9. c(x) + MountainSize(h) = c(x + 1) /\ ms[x][1] = c(x) + MountainSize(h) - 1
      <3>1. c(x + 1) = ms[x][1] + 1
        BY <2>1, <2>2
      <3>2. ms[x][1] = PosOf(f, h)
        BY <2>1 DEF Tree
      <3>3. ms[x][1] = c(x) + MountainSize(h) - 1
        BY <2>8, <3>2 DEF PosOf
      <3> HIDE DEF c
      <3> QED BY <2>6, <2>8, <3>1, <3>3
    <2> HIDE DEF c
    <2>10. p \in Nat \X Nat \X Nat /\ p[1] = node_count(r) /\ p[2] = c(x) /\ p[3] = b
      BY <2>6, <2>8
    <2> HIDE DEF p
    <2> DEFINE q == <<p[1] - MountainSize(h), p[2] + MountainSize(h), h>>
    <2>11. q = <<node_count(n) - c(x + 1), c(x + 1), h>>
      <3>1. node_count(n) \in Nat
        BY <1>0
      <3>2. p[1] - MountainSize(h) = node_count(n) - c(x + 1)
        BY <2>6, <2>8, <2>9, <2>10, <3>1
      <3> QED BY <2>9, <2>10, <3>2
    <2> HIDE DEF q
    <2>12. Split[q] = PeaksFrom(ms, x + 1)
      <3>1. Good(x + 1)
        BY <1>2
      <3>2. x + 1 <= k => ms[x + 1][2] < h
        <4> SUFFICES ASSUME x + 1 <= k PROVE ms[x + 1][2] < h
          OBVIOUS
        <4>1. x \in 1..(k - 1)
          BY <1>0
        <4> QED BY <4>1 DEF Ridge, Falling, h
      <3> QED BY <2>1, <2>11, <3>1, <3>2
    <2>13. PeaksFrom(ms, x) = <<ms[x][1]>> \o PeaksFrom(ms, x + 1) /\ PeaksFrom(ms, x + 1) # NoPeaks
      BY <1>0, PeaksFromIs
    <2>14. Split[p] = IF ~FallsBelow(h, p[3]) \/ Split[q] = NoPeaks THEN NoPeaks
                      ELSE <<p[2] + MountainSize(h) - 1>> \o Split[q]
      <3>1. Split[p] = SplitTurn(Split, p)
        BY <2>10, SplitUnfolds
      <3>2. Tallest(p[1]) = h
        BY <2>7, <2>10
      <3>3. p[1] # 0 /\ p[1] > 0
        BY <2>6, <2>10
      <3> QED BY <3>1, <3>2, <3>3 DEF SplitTurn, q
    <2>15. FallsBelow(h, p[3])
      BY <2>10 DEF FallsBelow, h
    <2>16. p[2] + MountainSize(h) - 1 = ms[x][1]
      BY <2>9, <2>10
    <2>17. Split[p] = <<p[2] + MountainSize(h) - 1>> \o Split[q]
      BY <2>12, <2>13, <2>14, <2>15
    <2>18. Split[p] = PeaksFrom(ms, x)
      BY <2>12, <2>13, <2>16, <2>17, Zenon
    <2> QED BY <2>18 DEF p
  <1>3. \A x \in 1..(k + 1) : x \in S
    <2> HIDE DEF S
    <2> QED BY <1>0, <1>1, <1>2, FromTheRight
  <1>4. Good(i)
    <2>1. i \in S
      <3> HIDE DEF S
      <3> QED BY <1>3
    <2> HIDE DEF Good
    <2> QED BY <2>1
  <1> HIDE DEF S
  <1> QED BY <1>4

\* peaks and height_at find the mountains of a log of n leaves.
LEMMA PeaksAre ==
    ASSUME NEW n \in Nat, SizeOf(n) < MAX_MMR_SIZE
    PROVE  /\ peaks(SizeOf(n)) # NoPeaks /\ Len(peaks(SizeOf(n))) = Len(Mountains(n))
           /\ Len(Mountains(n)) \in Nat
           /\ \A i \in 1..Len(Mountains(n)) :
                  /\ peaks(SizeOf(n))[i] = Mountains(n)[i][1]
                  /\ Mountains(n)[i][1] = PosOf(Mountains(n)[i][3], Mountains(n)[i][2])
                  /\ height_at(Mountains(n)[i][1]) = Mountains(n)[i][2]
  <1> DEFINE ms == Mountains(n)
             k == Len(ms)
             pks == PeaksFrom(ms, 1)
             size_ == SizeOf(n)
  <1>1. Ridge(ms, n) /\ size_ = node_count(n)
    BY MountainsAre
  <1> HIDE DEF ms
  <1>2. ms \in Seq(Triples) /\ k \in Nat
    BY <1>1, FootIs
  <1>3. size_ \in Nat
    BY <1>1, CountTyped
  <1>4. peaks(size_) = Split[<<size_, 0, size_ + 1>>]
    <2>1. \A s : peaks(s) = IF s < 0 \/ s >= MAX_MMR_SIZE THEN NoPeaks ELSE Split[<<s, 0, s + 1>>]
      BY Zenon DEF peaks, Split, SplitTurn
    <2>2. ~(size_ < 0) /\ ~(size_ >= MAX_MMR_SIZE)
      BY <1>3, MaxMmrSizeAssumption
    <2> HIDE DEF size_
    <2> QED BY <2>1, <2>2
  <1> HIDE DEF size_
  <1>5. Split[<<size_, 0, size_ + 1>>] = pks
    <2>1. Foot(ms, n, 1) = 0 /\ node_count(0) = 0
      BY <1>1, FootIs, CountTyped
    <2>2. 1 <= k => ms[1][2] < size_ + 1
      <3> SUFFICES ASSUME 1 <= k PROVE ms[1][2] < size_ + 1
        OBVIOUS
      <3> DEFINE h == ms[1][2]
      <3>1. 1 \in 1..Len(ms)
        BY <1>2
      <3>2. h \in Nat
        BY <1>2, <3>1, TripleOf
      <3>3. TwoTo[h] <= n - ms[1][3] /\ n - ms[1][3] \in Nat
        BY <1>1, <3>1, RestIsShort
      <3>4. ms[1][3] = 0
        BY <1>1, <1>2 DEF Ridge, Standing
      <3> HIDE DEF h
      <3>5. h < TwoTo[h] /\ TwoTo[h] \in Nat
        BY <3>2, TwoToAbove
      <3>6. n <= size_
        BY <1>1, CountTyped
      <3> QED BY <1>3, <3>2, <3>3, <3>4, <3>5, <3>6 DEF h
    <2>3. size_ + 1 \in Nat /\ 1 \in 1..(k + 1) /\ size_ - 0 = size_
      BY <1>2, <1>3
    <2>4. Split[<<node_count(n) - node_count(Foot(ms, n, 1)), node_count(Foot(ms, n, 1)), size_ + 1>>] = pks
      BY <1>1, <2>2, <2>3, SplitIs
    <2> QED BY <1>1, <2>1, <2>3, <2>4
  <1>6. Len(pks) = k /\ \A i \in 1..k : pks[i] = ms[i][1]
    <2>1. k + 1 - 1 = k /\ \A j \in 1..k : (1 - 1) + j = j
      BY <1>2
    <2> QED BY <1>2, <2>1 DEF PeaksFrom
  <1> HIDE DEF pks
  <1>7. pks # NoPeaks
    <2> SUFFICES ASSUME pks = NoPeaks PROVE FALSE
      OBVIOUS
    <2>1. Len(pks) = 1 /\ pks[1] = -1
      BY DEF NoPeaks
    <2>2. 1 \in 1..Len(ms)
      BY <1>6, <2>1
    <2>3. ms[1][1] \in Nat /\ pks[1] = ms[1][1]
      BY <1>2, <1>6, <2>2, TripleOf
    <2> QED BY <2>1, <2>3
  <1>8. ASSUME NEW i \in 1..k PROVE ms[i][1] = PosOf(ms[i][3], ms[i][2]) /\ height_at(ms[i][1]) = ms[i][2]
    <2> DEFINE f == ms[i][3]
               h == ms[i][2]
    <2>1. ms[i] = Tree(f, h) /\ f \in Nat /\ h \in Nat /\ Aligned(f, h)
      BY <1>1, RidgeAligned
    <2>2. ms[i][1] = PosOf(f, h)
      BY <2>1 DEF Tree
    <2> HIDE DEF f, h
    <2>3. height_at(PosOf(f, h)) = h
      BY <2>1, HeightIs
    <2> QED BY <2>2, <2>3 DEF f, h
  <1>9. peaks(size_) = pks
    BY <1>4, <1>5
  <1> QED BY <1>2, <1>6, <1>7, <1>8, <1>9 DEF ms, size_

\* No size beyond the ceiling has peaks.
LEMMA PeaksAbove == \A s \in Int : s < 0 \/ s >= MAX_MMR_SIZE => peaks(s) = NoPeaks
  BY DEF peaks

\* The mountain that find_containing_peak finds holds the position, and
\* locate_path starts from its root.
LEMMA FoundIs ==
    ASSUME NEW n \in Nat, SizeOf(n) < MAX_MMR_SIZE, NEW pos \in Int,
           find_containing_peak(pos, peaks(SizeOf(n))) # 0
    PROVE  \E at \in 1..Len(Mountains(n)) :
               /\ find_containing_peak(pos, peaks(SizeOf(n))) = at
               /\ Inside(pos, Mountains(n)[at][3], Mountains(n)[at][2])
               /\ PathIn(pos, peaks(SizeOf(n))) = PathAt(pos, Mountains(n)[at][3], Mountains(n)[at][2])
  <1> DEFINE ms == Mountains(n)
             k == Len(ms)
             pks == peaks(SizeOf(n))
             at == find_containing_peak(pos, pks)
             holds(i) == /\ pks[i] - MountainSize(height_at(pks[i])) + 1 <= pos
                         /\ pos <= pks[i]
             found == {i \in 1..Len(pks) : holds(i)}
  <1>1. /\ Len(pks) = k /\ k \in Nat
        /\ \A i \in 1..k : pks[i] = ms[i][1] /\ ms[i][1] = PosOf(ms[i][3], ms[i][2]) /\ height_at(ms[i][1]) = ms[i][2]
    BY PeaksAre
  <1>2. Ridge(ms, n)
    BY MountainsAre
  <1> HIDE DEF ms, pks
  <1>3. at = IF found = {} THEN 0 ELSE CHOOSE i \in found : \A j \in found : i <= j
    BY Zenon DEF find_containing_peak
  <1> HIDE DEF at
  <1>4. at # 0 /\ found # {} /\ at = CHOOSE i \in found : \A j \in found : i <= j
    BY <1>3 DEF at, pks
  <1>5. at \in found
    <2>1. \E i \in found : \A j \in found : i <= j
      <3>1. found \in SUBSET Nat
        BY <1>1
      <3> HIDE DEF found
      <3> QED BY <1>4, <3>1, LeastNat
    <2> HIDE DEF found
    <2> QED BY <1>4, <2>1, Zenon
  <1>6. at \in 1..k /\ holds(at)
    BY <1>1, <1>5
  <1> HIDE DEF found
  <1> DEFINE f == ms[at][3]
             h == ms[at][2]
  <1>7. pks[at] = PosOf(f, h) /\ height_at(pks[at]) = h /\ f \in Nat /\ h \in Nat
    BY <1>1, <1>2, <1>6, RidgeAligned
  <1> HIDE DEF f, h
  <1>8. Inside(pos, f, h)
    <2>1. node_count(f) \in Nat /\ MountainSize(h) \in Nat
      BY <1>7, CountTyped, SizeAbove
    <2> QED BY <1>6, <1>7, <2>1 DEF Inside, PosOf
  <1>9. PathIn(pos, pks) = PathAt(pos, f, h)
    <2>1. PathIn(pos, pks) = locate_path(pks[at], height_at(pks[at]), pos)
      BY DEF PathIn, at
    <2>2. \A r, x, t : locate_path(r, x, t) = Path(t)[<<r, x>>]
      BY Zenon DEF locate_path, Path, PathTurn
    <2> QED BY <1>7, <2>1, <2>2 DEF PathAt
  <1> QED BY <1>6, <1>8, <1>9 DEF f, h, ms, pks, at

\* Every leaf is in a mountain.
LEMMA RidgeCovers ==
    ASSUME NEW ms, NEW n \in Nat, Ridge(ms, n), NEW x \in 0..(n - 1)
    PROVE  \E i \in 1..Len(ms) : ms[i][3] <= x /\ x < EndOf(ms[i])
  <1> DEFINE k == Len(ms)
             Held(j) == \E i \in 1..k : ms[i][3] <= x /\ x < EndOf(ms[i])
             S == {j \in 1..(k + 1) : Foot(ms, n, j) <= x => Held(j)}
  <1>1. k \in Nat /\ Foot(ms, n, 1) = 0 /\ Foot(ms, n, k + 1) = n
    BY FootIs
  <1>2. \A j \in 1..k : Foot(ms, n, j) = ms[j][3] /\ Foot(ms, n, j + 1) = EndOf(ms[j])
                        /\ EndOf(ms[j]) \in Nat /\ ms[j][3] \in Nat
    BY FootIs, RidgeAligned
  <1> HIDE DEF k
  <1>3. k + 1 \in S
    <2>1. ~(n <= x)
      OBVIOUS
    <2> QED BY <1>1, <2>1
  <1>4. ASSUME NEW j \in 1..k, j + 1 \in S PROVE j \in S
    <2> SUFFICES ASSUME Foot(ms, n, j) <= x PROVE Held(j)
      BY <1>1
    <2>1. CASE x < EndOf(ms[j])
      BY <1>2, <2>1
    <2>2. CASE ~(x < EndOf(ms[j]))
      <3>1. Foot(ms, n, j + 1) <= x
        BY <1>2, <2>2
      <3> QED BY <1>4, <3>1
    <2> QED BY <2>1, <2>2
  <1>5. 1 \in S
    <2>1. 1 \in 1..(k + 1)
      BY <1>1
    <2> HIDE DEF S
    <2> QED BY <1>1, <1>3, <1>4, <2>1, FromTheRight
  <1>6. Held(1)
    BY <1>1, <1>5
  <1> QED BY <1>6 DEF k

\* The peaks of a log are the nodes at the roots of its mountains.
LEMMA PeaksOfAre ==
    ASSUME NEW l, Len(l) \in Nat
    PROVE  /\ Len(PeaksOf(l)) = Len(Mountains(Len(l))) /\ Len(Mountains(Len(l))) \in Nat
           /\ \A i \in 1..Len(Mountains(Len(l))) :
                  PeaksOf(l)[i] = Nodes(l)[Tree(Mountains(Len(l))[i][3], Mountains(Len(l))[i][2])]
  <1> DEFINE ms == Mountains(Len(l))
  <1>1. Ridge(ms, Len(l))
    BY MountainsAre
  <1>2. PeaksOf(l) = [i \in 1..Len(ms) |-> NodeOf(l, ms[i])]
    BY DEF PeaksOf
  <1> HIDE DEF ms
  <1>3. Len(ms) \in Nat
    BY <1>1, FootIs
  <1>4. \A i \in 1..Len(ms) : ms[i] = Tree(ms[i][3], ms[i][2])
    BY <1>1, RidgeAligned
  <1>5. \A t : NodeOf(l, t) = Nodes(l)[t]
    BY Zenon DEF NodeOf, Nodes, NodeTurn
  <1>6. Len(PeaksOf(l)) = Len(ms) /\ \A i \in 1..Len(ms) : PeaksOf(l)[i] = NodeOf(l, ms[i])
    BY <1>2, <1>3
  <1> QED BY <1>3, <1>4, <1>5, <1>6 DEF ms

\* Peaks that bag to a log's root, as many as it has, are the log's.
LEMMA RootPeaks ==
    ASSUME NEW l, Len(l) \in Nat, NEW ps, Len(ps) = Len(Mountains(Len(l))),
           root_from_peaks(ps) = RootOf(l)
    PROVE  \A i \in 1..Len(Mountains(Len(l))) :
               ps[i] = Nodes(l)[Tree(Mountains(Len(l))[i][3], Mountains(Len(l))[i][2])]
  <1>1. /\ Len(PeaksOf(l)) = Len(ps) /\ Len(ps) \in Nat
        /\ \A i \in 1..Len(Mountains(Len(l))) :
               PeaksOf(l)[i] = Nodes(l)[Tree(Mountains(Len(l))[i][3], Mountains(Len(l))[i][2])]
    BY PeaksOfAre
  <1>2. root_from_peaks(ps) = root_from_peaks(PeaksOf(l))
    BY DEF RootOf
  <1>3. \A i \in 1..Len(ps) : ps[i] = PeaksOf(l)[i]
    BY <1>1, <1>2, RootTells
  <1> QED BY <1>1, <1>3

\* Logs of equal length and equal root have the same entries.
LEMMA RootOfTells ==
    ASSUME NEW a, NEW b, Len(a) \in Nat, Len(b) = Len(a), RootOf(a) = RootOf(b)
    PROVE  \A i \in 1..Len(a) : a[i] = b[i]
  <1> SUFFICES ASSUME NEW i \in 1..Len(a) PROVE a[i] = b[i]
    OBVIOUS
  <1> DEFINE n == Len(a)
             ms == Mountains(n)
  <1>1. Ridge(ms, n)
    BY MountainsAre
  <1>2. \A j \in 1..Len(ms) : Nodes(a)[Tree(ms[j][3], ms[j][2])] = Nodes(b)[Tree(ms[j][3], ms[j][2])]
    <2>1. /\ Len(PeaksOf(a)) = Len(ms) /\ Len(ms) \in Nat
          /\ \A j \in 1..Len(ms) : PeaksOf(a)[j] = Nodes(a)[Tree(ms[j][3], ms[j][2])]
      BY PeaksOfAre
    <2>2. root_from_peaks(PeaksOf(a)) = RootOf(b)
      BY DEF RootOf
    <2>3. \A j \in 1..Len(ms) : PeaksOf(a)[j] = Nodes(b)[Tree(ms[j][3], ms[j][2])]
      BY <2>1, <2>2, RootPeaks
    <2> HIDE DEF ms
    <2> QED BY <2>1, <2>3
  <1> HIDE DEF ms
  <1>3. n \in Nat /\ i - 1 \in 0..(n - 1)
    OBVIOUS
  <1> HIDE DEF n
  <1>4. PICK j \in 1..Len(ms) : ms[j][3] <= i - 1 /\ i - 1 < EndOf(ms[j])
    BY <1>1, <1>3, RidgeCovers
  <1> DEFINE f == ms[j][3]
             h == ms[j][2]
  <1>5. f \in Nat /\ h \in Nat /\ Aligned(f, h) /\ EndOf(ms[j]) = f + TwoTo[h]
    BY <1>1, RidgeAligned
  <1>6. Nodes(a)[Tree(f, h)] = Nodes(b)[Tree(f, h)]
    BY <1>2
  <1>7. f <= i - 1 /\ i - 1 < f + TwoTo[h]
    BY <1>4, <1>5
  <1> HIDE DEF f, h
  <1>8. \A x \in 0..(TwoTo[h] - 1) : a[f + x + 1] = b[f + x + 1]
    BY <1>5, <1>6, NodeTells, SMTT(30) DEF SameEntries
  <1>9. (i - 1) - f \in 0..(TwoTo[h] - 1) /\ f + ((i - 1) - f) + 1 = i
    <2>1. TwoTo[h] \in Nat
      BY <1>5, TwoToAbove
    <2> QED BY <1>5, <1>7, <2>1
  <1> QED BY <1>8, <1>9

\* A position tells its mountain once the height is known.
LEMMA PosTells ==
    ASSUME NEW f \in Nat, NEW g \in Nat, NEW h \in Nat, PosOf(f, h) = PosOf(g, h)
    PROVE  f = g
  <1>1. node_count(f) \in Nat /\ node_count(g) \in Nat /\ MountainSize(h) \in Nat
    BY CountTyped, SizeAbove
  <1>2. node_count(f) = node_count(g)
    BY <1>1 DEF PosOf
  <1>3. ~(f < g) /\ ~(g < f)
    BY <1>1, <1>2, CountGrows
  <1> QED BY <1>3

\* A digest that a witness carries to one of a sequence of peaks that bags to
\* the root of a log, and a digest that is the node of a log at a position.
CarriedTo(pos, low, witness, ps, l) ==
    LET at == find_containing_peak(pos, peaks(SizeOf(Len(l))))
    IN  /\ Len(ps) = Len(Mountains(Len(l))) /\ root_from_peaks(ps) = RootOf(l)
        /\ at # 0 /\ FoldPath(low, PathIn(pos, peaks(SizeOf(Len(l)))), witness) = ps[at]

IsNode(pos, low, l) ==
    \E g, k \in Nat : /\ Aligned(g, k) /\ PosOf(g, k) = pos /\ g + TwoTo[k] <= Len(l)
                      /\ low = Nodes(l)[Tree(g, k)]

\* A digest that some witness carries to the root of a mountain of a log is
\* the node of the log at that position.
LEMMA CarriedIsNode ==
    ASSUME NEW l, Len(l) \in Nat, SizeOf(Len(l)) < MAX_MMR_SIZE, NEW pos \in Int,
           NEW low, NEW witness, NEW ps, CarriedTo(pos, low, witness, ps, l)
    PROVE  IsNode(pos, low, l)
  <1> DEFINE n == Len(l)
             ms == Mountains(n)
             pks == peaks(SizeOf(n))
  <1>0. /\ Len(ps) = Len(ms) /\ root_from_peaks(ps) = RootOf(l)
        /\ find_containing_peak(pos, pks) # 0
        /\ FoldPath(low, PathIn(pos, pks), witness) = ps[find_containing_peak(pos, pks)]
    BY DEF CarriedTo
  <1>1. Ridge(ms, n)
    BY MountainsAre
  <1>2. PICK at \in 1..Len(ms) :
            /\ find_containing_peak(pos, pks) = at /\ Inside(pos, ms[at][3], ms[at][2])
            /\ PathIn(pos, pks) = PathAt(pos, ms[at][3], ms[at][2])
    BY <1>0, FoundIs
  <1>3. ps[at] = Nodes(l)[Tree(ms[at][3], ms[at][2])]
    BY <1>0, RootPeaks
  <1>4. FoldPath(low, PathIn(pos, pks), witness) = ps[at]
    BY <1>0, <1>2
  <1> HIDE DEF ms, pks
  <1> DEFINE f == ms[at][3]
             h == ms[at][2]
  <1>5. f \in Nat /\ h \in Nat /\ Aligned(f, h) /\ EndOf(ms[at]) = f + TwoTo[h] /\ EndOf(ms[at]) <= n
    BY <1>1, RidgeAligned, RestIsShort
  <1>6. Inside(pos, f, h) /\ PathIn(pos, pks) = PathAt(pos, f, h) /\ ps[at] = Nodes(l)[Tree(f, h)]
    BY <1>2, <1>3
  <1> HIDE DEF f, h
  <1>7. HashesUp(pos, f, h, low, witness, l)
    <2>1. FoldPath(low, PathAt(pos, f, h), witness) = Nodes(l)[Tree(f, h)]
      BY <1>4, <1>6
    <2> QED BY <2>1, FoldIs DEF HashesUp
  <1>8. \E g, k \in Nat : NodeThere(pos, f, h, g, k) /\ low = Nodes(l)[Tree(g, k)]
    <2>1. \A d, w, x : HashesUp(pos, f, h, d, w, x) =>
              \E g, k \in Nat : NodeThere(pos, f, h, g, k) /\ d = Nodes(x)[Tree(g, k)]
      BY <1>5, <1>6, PathSound
    <2> QED BY <1>7, <2>1
  <1>9. PICK g \in Nat, k \in Nat : NodeThere(pos, f, h, g, k) /\ low = Nodes(l)[Tree(g, k)]
    BY <1>8
  <1>10. g + TwoTo[k] <= n
    <2>1. TwoTo[k] \in Nat /\ TwoTo[h] \in Nat
      BY <1>5, TwoToAbove
    <2>2. g + TwoTo[k] <= f + TwoTo[h] /\ f + TwoTo[h] <= n
      BY <1>5, <1>9 DEF NodeThere
    <2> HIDE DEF n
    <2>3. n \in Nat
      BY DEF n
    <2> QED BY <1>5, <2>1, <2>2, <2>3, SMTT(30)
  <1> QED BY <1>9, <1>10 DEF NodeThere, IsNode

-----------------------------------------------------------------------------
(* The verifiers are sound: a proof, whoever made it, shows only what the  *)
(* log behind the root has.                                                *)

(* verify_consistency is sound: if any proof at all leads from the root of one
   log to the root of another, the second begins with all the entries of the
   first. *)
THEOREM MmrConsistencyProofsAreSound ==
    ASSUME NEW old, Len(old) \in Nat, NEW new, Len(new) \in Nat, NEW proof,
           verify_consistency(RootOf(old), SizeOf(Len(old)), RootOf(new), SizeOf(Len(new)), proof)
    PROVE  Len(old) <= Len(new) /\ \A i \in 1..Len(old) : old[i] = new[i]
  <1> DEFINE n == Len(old)
             m0 == Len(new)
             ms == Mountains(n)
             pks == peaks(SizeOf(n))
             news == peaks(SizeOf(m0))
  <1>1. SizeOf(n) = node_count(n) /\ SizeOf(m0) = node_count(m0) /\ SizeOf(n) \in Nat /\ SizeOf(m0) \in Nat
    <2>1. SizeOf(n) = node_count(n) /\ SizeOf(m0) = node_count(m0)
      BY MountainsAre
    <2>2. node_count(n) \in Nat /\ node_count(m0) \in Nat
      BY CountTyped
    <2> QED BY <2>1, <2>2
  <1>2. /\ SizeOf(n) <= SizeOf(m0) /\ pks # NoPeaks /\ news # NoPeaks
        /\ Len(proof.old_peaks) = Len(pks) /\ Len(proof.new_peaks) = Len(news)
        /\ root_from_peaks(proof.old_peaks) = RootOf(old)
        /\ root_from_peaks(proof.new_peaks) = RootOf(new)
        /\ \A i \in 1..Len(pks) : OldPeakCarried(i, SizeOf(n), SizeOf(m0), proof)
    BY Zenon DEF verify_consistency, OldRootOK, NewRootOK
  <1>3. SizeOf(n) < MAX_MMR_SIZE /\ SizeOf(m0) < MAX_MMR_SIZE
    <2> HIDE DEF n, m0
    <2>1. ~(SizeOf(n) >= MAX_MMR_SIZE) /\ ~(SizeOf(m0) >= MAX_MMR_SIZE)
      BY <1>1, <1>2, PeaksAbove
    <2> QED BY <1>1, <2>1, MaxMmrSizeAssumption
  <1>4. n <= m0
    <2> HIDE DEF n, m0
    <2>1. n \in Nat /\ m0 \in Nat
      BY DEF n, m0
    <2>2. ~(node_count(m0) < node_count(n))
      BY <1>1, <1>2
    <2> QED BY <2>1, <2>2, CountGrows
  <1>5. /\ Len(pks) = Len(ms) /\ Len(news) = Len(Mountains(m0))
        /\ \A i \in 1..Len(ms) : pks[i] = PosOf(ms[i][3], ms[i][2])
    BY <1>3, PeaksAre
  <1>6. \A i \in 1..Len(ms) : proof.old_peaks[i] = Nodes(old)[Tree(ms[i][3], ms[i][2])]
    BY <1>2, <1>5, RootPeaks
  <1>7. ASSUME NEW j \in 1..n PROVE old[j] = new[j]
    <2>1. Ridge(ms, n)
      BY MountainsAre
    <2>2. j - 1 \in 0..(n - 1)
      OBVIOUS
    <2>3. PICK i \in 1..Len(ms) : ms[i][3] <= j - 1 /\ j - 1 < EndOf(ms[i])
      BY <2>1, <2>2, RidgeCovers
    <2> DEFINE f == ms[i][3]
               h == ms[i][2]
               pos == PosOf(f, h)
               at == find_containing_peak(pos, news)
    <2>4. f \in Nat /\ h \in Nat /\ Aligned(f, h) /\ EndOf(ms[i]) = f + TwoTo[h]
      BY <2>1, RidgeAligned
    <2>5. pks[i] = pos /\ proof.old_peaks[i] = Nodes(old)[Tree(f, h)]
      BY <1>5, <1>6
    <2>6. /\ at # 0
          /\ FoldPath(proof.old_peaks[i], PathIn(pos, news), proof.witness[i]) = proof.new_peaks[at]
      <3>1. OldPeakCarried(i, SizeOf(n), SizeOf(m0), proof)
        BY <1>2, <1>5
      <3>2. /\ find_containing_peak(pks[i], news) # 0
            /\ FoldPath(proof.old_peaks[i], PathIn(pks[i], news), proof.witness[i])
                   = proof.new_peaks[find_containing_peak(pks[i], news)]
        BY <3>1, Zenon DEF OldPeakCarried
      <3> HIDE DEF pks, news
      <3> QED BY <2>5, <3>2
    <2>7. f <= j - 1 /\ j - 1 < f + TwoTo[h]
      BY <2>3, <2>4
    <2>8. Len(proof.new_peaks) = Len(Mountains(m0))
      BY <1>2, <1>5
    <2> HIDE DEF f, h, ms, pks
    <2>9. pos \in Nat /\ pos \in Int
      BY <2>4, TreeTyped
    <2> HIDE DEF pos
    <2>10. PICK g \in Nat, k \in Nat : /\ Aligned(g, k) /\ PosOf(g, k) = pos /\ g + TwoTo[k] <= m0
                                       /\ proof.old_peaks[i] = Nodes(new)[Tree(g, k)]
      <3>1. CarriedTo(pos, proof.old_peaks[i], proof.witness[i], proof.new_peaks, new)
        <4> HIDE DEF news
        <4>1. news = peaks(SizeOf(Len(new)))
          BY DEF news
        <4> QED BY <1>2, <2>6, <2>8, <4>1 DEF CarriedTo
      <3>2. IsNode(pos, proof.old_peaks[i], new)
        BY <1>3, <2>9, <3>1, CarriedIsNode
      <3> QED BY <3>2 DEF IsNode
    <2>11. Nodes(old)[Tree(f, h)] = Nodes(new)[Tree(g, k)]
      BY <2>5, <2>10
    <2>12. h = k /\ SameEntries(old, f, new, g, TwoTo[h])
      BY <2>4, <2>10, <2>11, NodeTells
    <2>13. f = g
      <3>1. PosOf(f, h) = PosOf(g, h)
        BY <2>10, <2>12 DEF pos
      <3> QED BY <2>4, <3>1, PosTells
    <2>14. (j - 1) - f \in 0..(TwoTo[h] - 1) /\ f + ((j - 1) - f) + 1 = j
      <3>1. TwoTo[h] \in Nat
        BY <2>4, TwoToAbove
      <3>2. j \in Nat
        OBVIOUS
      <3> QED BY <2>4, <2>7, <3>1, <3>2
    <2>15. old[f + ((j - 1) - f) + 1] = new[f + ((j - 1) - f) + 1]
      BY <2>12, <2>13, <2>14 DEF SameEntries
    <2> QED BY <2>14, <2>15
  <1> QED BY <1>4, <1>7

\* The place verify_inclusion finds for the peak over an index it accepts.
LEMMA InclusionPlace ==
    ASSUME NEW l, Len(l) \in Nat, NEW index \in Int, NEW e, NEW proof,
           verify_inclusion(RootOf(l), SizeOf(Len(l)), index, e, proof)
    PROVE  /\ SizeOf(Len(l)) < MAX_MMR_SIZE
           /\ index \in Nat /\ leaf_index_to_pos(index) = node_count(index)
           /\ Len(peaks(SizeOf(Len(l)))) = Len(Mountains(Len(l))) /\ Len(Mountains(Len(l))) \in Nat
           /\ find_containing_peak(leaf_index_to_pos(index), peaks(SizeOf(Len(l))))
                  \in 1..Len(Mountains(Len(l)))
  <1> DEFINE n == Len(l)
             pks == peaks(SizeOf(n))
             pos == leaf_index_to_pos(index)
             at == find_containing_peak(pos, pks)
  <1>1. pks # NoPeaks /\ 0 <= index /\ at # 0
    BY Zenon DEF verify_inclusion, InclusionShapeOK
  <1>2. SizeOf(n) \in Nat /\ SizeOf(n) < MAX_MMR_SIZE
    <2>1. SizeOf(n) \in Nat
      BY MountainsAre, CountTyped
    <2> HIDE DEF n
    <2>2. ~(SizeOf(n) >= MAX_MMR_SIZE)
      BY <1>1, <2>1, PeaksAbove
    <2> QED BY <2>1, <2>2, MaxMmrSizeAssumption
  <1>3. index \in Nat /\ node_count(index) \in Nat
    BY <1>1, CountTyped
  <1>4. pos \in Int /\ (pos = node_count(index) \/ pos = -1)
    BY <1>3 DEF leaf_index_to_pos, NoCount
  <1>5. Len(pks) = Len(Mountains(n)) /\ Len(Mountains(n)) \in Nat
    BY <1>2, PeaksAre
  <1> HIDE DEF pks, pos
  <1>6. at \in 1..Len(Mountains(n)) /\ Inside(pos, Mountains(n)[at][3], Mountains(n)[at][2])
    <2>1. find_containing_peak(pos, peaks(SizeOf(n))) # 0
      BY <1>1 DEF pks
    <2> QED BY <1>2, <1>4, <2>1, FoundIs DEF pks
  <1>7. pos = node_count(index)
    <2>1. Ridge(Mountains(n), n)
      BY MountainsAre
    <2>2. Mountains(n)[at][3] \in Nat
      BY <1>6, <2>1, RidgeAligned
    <2>3. node_count(Mountains(n)[at][3]) \in Nat
      BY <2>2, CountTyped
    <2>4. pos # -1
      BY <1>4, <1>6, <2>3 DEF Inside
    <2> QED BY <1>4, <2>4
  <1> QED BY <1>2, <1>3, <1>5, <1>6, <1>7 DEF at, pks, pos

(* verify_inclusion is sound: if any proof at all holds for an entry at an index
   under the root of a log, the log has that entry there.  A proof's lists are
   lists of anything. *)
THEOREM MmrInclusionProofsAreSound ==
    ASSUME NEW l, Len(l) \in Nat, NEW index \in Int, NEW e, NEW proof, NEW D,
           proof.peaks_left \in Seq(D), proof.peaks_right \in Seq(D),
           verify_inclusion(RootOf(l), SizeOf(Len(l)), index, e, proof)
    PROVE  index \in 0..(Len(l) - 1) /\ l[index + 1] = e
  <1> DEFINE n == Len(l)
             pks == peaks(SizeOf(n))
             pos == leaf_index_to_pos(index)
             at == find_containing_peak(pos, pks)
             path == PathIn(pos, pks)
             peak == FoldPath(leaf_hash(e), path, proof.witness)
             pl == proof.peaks_left
             pr == proof.peaks_right
             full == pl \o <<peak>> \o pr
  <1>1. /\ pks # NoPeaks /\ 0 <= index /\ at # 0
        /\ Len(pl) = at - 1 /\ Len(pr) = Len(pks) - at
        /\ root_from_peaks(full) = RootOf(l)
    BY Zenon DEF verify_inclusion, InclusionShapeOK
  <1>2. /\ SizeOf(n) < MAX_MMR_SIZE /\ index \in Nat /\ pos = node_count(index)
        /\ Len(pks) = Len(Mountains(n)) /\ Len(Mountains(n)) \in Nat /\ at \in 1..Len(Mountains(n))
    BY InclusionPlace
  <1>3. node_count(index) \in Nat
    BY <1>2, CountTyped
  <1> HIDE DEF pks, pos, path
  <1> HIDE DEF at, peak, pl, pr
  <1>8. Len(full) = Len(Mountains(n)) /\ full[at] = peak
    <2> DEFINE T == D \cup {peak}
    <2>0. at \in Nat /\ at >= 1 /\ at <= Len(Mountains(n))
      BY <1>2
    <2>1. pl \in Seq(T) /\ pr \in Seq(T) /\ <<peak>> \in Seq(T)
      <3>1. \A s \in Seq(D) : s \in Seq(T)
        OBVIOUS
      <3>2. peak \in T
        OBVIOUS
      <3> HIDE DEF T
      <3> QED BY <3>1, <3>2 DEF pl, pr
    <2> HIDE DEF T
    <2> DEFINE s == pl \o <<peak>>
    <2>2. s \in Seq(T) /\ Len(s) = at /\ s[at] = peak
      <3>1. /\ s \in Seq(T) /\ Len(s) = Len(pl) + Len(<<peak>>)
            /\ \A i \in 1..(Len(pl) + Len(<<peak>>)) :
                  s[i] = IF i <= Len(pl) THEN pl[i] ELSE <<peak>>[i - Len(pl)]
        BY <2>1, ConcatProperties
      <3>2. Len(<<peak>>) = 1 /\ <<peak>>[1] = peak /\ Len(pl) = at - 1
        BY <1>1
      <3>3. at \in 1..(Len(pl) + Len(<<peak>>)) /\ ~(at <= Len(pl)) /\ at - Len(pl) = 1
        BY <2>0, <3>2
      <3> HIDE DEF s
      <3> QED BY <2>0, <3>1, <3>2, <3>3
    <2> HIDE DEF s
    <2>3. /\ Len(s \o pr) = Len(s) + Len(pr)
          /\ \A i \in 1..(Len(s) + Len(pr)) : (s \o pr)[i] = IF i <= Len(s) THEN s[i] ELSE pr[i - Len(s)]
      BY <2>1, <2>2, ConcatProperties
    <2>4. Len(s) + Len(pr) = Len(Mountains(n)) /\ at \in 1..(Len(s) + Len(pr)) /\ at <= Len(s)
      BY <1>1, <1>2, <2>0, <2>2
    <2> QED BY <2>2, <2>3, <2>4 DEF s
  <1> HIDE DEF full
  <1>9. \E g, k \in Nat : /\ Aligned(g, k) /\ PosOf(g, k) = pos /\ g + TwoTo[k] <= n
                          /\ leaf_hash(e) = Nodes(l)[Tree(g, k)]
    <2>1. find_containing_peak(pos, peaks(SizeOf(n))) = at
      BY DEF at, pks
    <2>2. FoldPath(leaf_hash(e), PathIn(pos, peaks(SizeOf(n))), proof.witness) = full[at]
      BY <1>8 DEF peak, path, pks
    <2>3. at # 0 /\ pos \in Int
      BY <1>1, <1>2, <1>3
    <2>4. CarriedTo(pos, leaf_hash(e), proof.witness, full, l)
      BY <1>1, <1>8, <2>1, <2>2, <2>3 DEF CarriedTo
    <2>5. IsNode(pos, leaf_hash(e), l)
      BY <1>2, <2>3, <2>4, CarriedIsNode
    <2> QED BY <2>5 DEF IsNode
  <1>10. PICK g \in Nat, k \in Nat : /\ Aligned(g, k) /\ PosOf(g, k) = pos /\ g + TwoTo[k] <= n
                                     /\ leaf_hash(e) = Nodes(l)[Tree(g, k)]
    BY <1>9
  <1>11. k = 0
    <2> SUFFICES ASSUME k # 0 PROVE FALSE
      OBVIOUS
    <2> DEFINE x == k - 1
    <2>1. x \in Nat /\ x + 1 = k
      OBVIOUS
    <2> HIDE DEF x
    <2>2. Nodes(l)[Tree(g, x + 1)] =
              interior_hash(Nodes(l)[Tree(g, x)], Nodes(l)[Tree(g + TwoTo[x], x)], PosOf(g, x + 1))
      BY <1>10, <2>1, TreeNode
    <2>3. leaf_hash(e) =
              interior_hash(Nodes(l)[Tree(g, x)], Nodes(l)[Tree(g + TwoTo[x], x)], PosOf(g, x + 1))
      BY <1>10, <2>1, <2>2
    <2> QED BY <2>3, LeafIsNoNode
  <1>12. leaf_hash(e) = leaf_hash(l[g + 1])
    BY <1>10, <1>11, TreeNode
  <1>13. e = l[g + 1]
    BY <1>12, LeafHashTells
  <1>14. g = index
    <2>1. MountainSize(0) = 1
      BY TwoToUnfolds DEF MountainSize
    <2>2. PosOf(g, 0) = PosOf(index, 0)
      BY <1>2, <1>3, <1>10, <1>11, <2>1 DEF PosOf
    <2> QED BY <1>2, <1>10, <2>2, PosTells
  <1>15. index <= n - 1
    <2>1. TwoTo[0] = 1 /\ g + TwoTo[0] <= n
      BY <1>10, <1>11, TwoToUnfolds
    <2> QED BY <1>14, <2>1
  <1> QED BY <1>2, <1>13, <1>14, <1>15

-----------------------------------------------------------------------------
(* The range verifier walks down every mountain, takes what is outside the *)
(* range from the witness and hashes the rest.                             *)

\* What the subtree walk takes, and the walk.
Quads == Int \X Nat \X Nat \X Nat

Walk(a) == CHOOSE sub : sub = [p \in Quads |-> WalkTurn(a, sub, p)]

\* The calls of the walk.
LEMMA WalkCalls ==
    ASSUME NEW p \in Quads, p[2] # 0, NEW c \in Nat
    PROVE  /\ LeftCall(p) \in Quads /\ LeftCall(p)[2] < p[2]
           /\ RightCall(p, c) \in Quads /\ RightCall(p, c)[2] < p[2]
  <1>1. p[1] \in Int /\ p[2] \in Nat /\ p[3] \in Nat /\ p[4] \in Nat /\ p[2] - 1 \in Nat
    BY DEF Quads
  <1>2. TwoTo[p[2]] \in Nat /\ TwoTo[p[2] - 1] \in Nat
    BY <1>1, TwoToAbove
  <1> QED BY <1>1, <1>2 DEF Quads, LeftCall, RightCall

\* The two halves' answers put together.
Joined(p, left, right) ==
    <<IF NoDigest \in {left[1], right[1]} THEN NoDigest ELSE interior_hash(left[1], right[1], p[1]), right[2]>>

\* What a turn of the walk comes to.
LEMMA WalkTurnIs ==
    ASSUME NEW a, NEW f, NEW p
    PROVE  /\ Outside(a, p) =>
                  WalkTurn(a, f, p) = <<IF p[4] < Len(a.witness) THEN a.witness[p[4] + 1] ELSE NoDigest, p[4] + 1>>
           /\ ~Outside(a, p) /\ p[2] = 0 => WalkTurn(a, f, p) = <<leaf_hash(a.digests[p[3]]), p[4]>>
           /\ ~Outside(a, p) /\ p[2] # 0 =>
                  WalkTurn(a, f, p) = Joined(p, f[LeftCall(p)], f[RightCall(p, f[LeftCall(p)][2])])
  BY DEF WalkTurn, Joined

\* The cursor stays a number, whichever of the two turns is taken.
LEMMA CursorIs ==
    ASSUME NEW a, NEW f, \A p \in Quads : f[p] \in {WalkTurn(a, f, p), GuardedTurn(a, f, p)}
    PROVE  \A p \in Quads : f[p][2] \in Nat
  <1> DEFINE P == {n \in Nat : \A p \in Quads : p[2] = n => f[p][2] \in Nat}
  <1>1. ASSUME NEW n \in Nat, \A mm \in 0..(n - 1) : mm \in P PROVE n \in P
    <2> SUFFICES ASSUME NEW p \in Quads, p[2] = n PROVE f[p][2] \in Nat
      OBVIOUS
    <2>1. p[4] \in Nat /\ p[4] + 1 \in Nat
      BY DEF Quads
    <2>2. CASE Outside(a, p) \/ p[2] = 0
      <3>1. f[p] = WalkTurn(a, f, p)
        BY <2>2, Zenon DEF GuardedTurn
      <3>2. f[p][2] \in {p[4], p[4] + 1}
        <4>1. CASE Outside(a, p)
          BY <3>1, <4>1, WalkTurnIs
        <4>2. CASE ~Outside(a, p)
          BY <2>2, <3>1, <4>2, WalkTurnIs
        <4> QED BY <4>1, <4>2
      <3> QED BY <2>1, <3>2
    <2>3. CASE ~Outside(a, p) /\ p[2] # 0
      <3>1. ASSUME NEW q \in Quads, q[2] < p[2] PROVE f[q][2] \in Nat
        <4>1. q[2] \in Nat
          BY DEF Quads
        <4>2. q[2] \in P
          BY <1>1, <3>1, <4>1
        <4> QED BY <4>2
      <3>2. f[LeftCall(p)][2] \in Nat
        BY <2>3, <3>1, WalkCalls, 0 \in Nat
      <3>3. f[p] = WalkTurn(a, f, p)
        BY <3>2, Zenon DEF GuardedTurn
      <3>4. f[RightCall(p, f[LeftCall(p)][2])][2] \in Nat
        BY <2>3, <3>1, <3>2, WalkCalls
      <3>5. f[p][2] = f[RightCall(p, f[LeftCall(p)][2])][2]
        <4>1. f[p] = Joined(p, f[LeftCall(p)], f[RightCall(p, f[LeftCall(p)][2])])
          BY <2>3, <3>3, WalkTurnIs
        <4>2. \A x, y : Joined(p, x, y)[2] = y[2]
          BY DEF Joined
        <4> QED BY <4>1, <4>2
      <3> QED BY <3>4, <3>5
    <2> QED BY <2>2, <2>3
  <1>2. P = Nat
    <2>1. P \in SUBSET Nat
      OBVIOUS
    <2> HIDE DEF P
    <2> QED BY <1>1, <2>1, NatStrong
  <1>3. ASSUME NEW p \in Quads PROVE f[p][2] \in Nat
    <2>1. p[2] \in P
      BY <1>2 DEF Quads
    <2> QED BY <2>1
  <1> QED BY <1>3

\* The walk over the subtrees.
LEMMA WalkUnfolds ==
    ASSUME NEW a
    PROVE  \A p \in Quads : Walk(a)[p] = WalkTurn(a, Walk(a), p) /\ Walk(a)[p][2] \in Nat
  <1>1. Local("walk", a)
    <2> SUFFICES ASSUME NEW f, NEW g, NEW p \in Quads,
                        \A c \in Quads : c[2] < p[2] => f[c] = g[c]
                 PROVE  GuardedTurn(a, f, p) = GuardedTurn(a, g, p)
      BY TurnIs, CallsAre, RankIs DEF Local, Quads
    <2>1. CASE Outside(a, p) \/ p[2] = 0
      <3>1. WalkTurn(a, f, p) = WalkTurn(a, g, p)
        <4>1. CASE Outside(a, p)
          BY <4>1, WalkTurnIs
        <4>2. CASE ~Outside(a, p)
          BY <2>1, <4>2, WalkTurnIs
        <4> QED BY <4>1, <4>2
      <3> QED BY <2>1, <3>1, Zenon DEF GuardedTurn
    <2>2. CASE ~Outside(a, p) /\ p[2] # 0
      <3>1. f[LeftCall(p)] = g[LeftCall(p)]
        BY <2>2, WalkCalls, 0 \in Nat
      <3>2. CASE f[LeftCall(p)][2] \in Nat
        <4>1. f[RightCall(p, f[LeftCall(p)][2])] = g[RightCall(p, g[LeftCall(p)][2])]
          BY <2>2, <3>1, <3>2, WalkCalls
        <4>2. WalkTurn(a, f, p) = WalkTurn(a, g, p)
          BY <3>1, <4>1, <2>2, WalkTurnIs, SMTT(30)
        <4> QED BY <3>1, <3>2, <4>2, Zenon DEF GuardedTurn
      <3>3. CASE f[LeftCall(p)][2] \notin Nat
        BY <2>2, <3>1, <3>3, Zenon DEF GuardedTurn
      <3> QED BY <3>2, <3>3
    <2> QED BY <2>1, <2>2
  <1>2. \E f : f = [p \in Quads |-> WalkTurn(a, f, p)]
    <2>1. PICK f : f = [p \in Calls("walk") |-> Turn("walk", a, f, p)]
      <3>1. \A p \in Calls("walk") : Rank("walk", a, p) \in Nat
        BY CallsAre, RankIs
      <3> QED BY <1>1, <3>1, Recursion
    <2>2. f = [p \in Quads |-> GuardedTurn(a, f, p)]
      BY <2>1, TurnIs, CallsAre, ZenonT(60) DEF Quads
    <2>3. \A p \in Quads : f[p] = GuardedTurn(a, f, p)
      BY <2>2, Zenon
    <2>4. \A p \in Quads : f[p][2] \in Nat
      BY <2>3, CursorIs
    <2>5. \A p \in Quads : GuardedTurn(a, f, p) = WalkTurn(a, f, p)
      <3> SUFFICES ASSUME NEW p \in Quads PROVE GuardedTurn(a, f, p) = WalkTurn(a, f, p)
        OBVIOUS
      <3>1. p[2] # 0 => f[LeftCall(p)][2] \in Nat
        BY <2>4, WalkCalls, 0 \in Nat
      <3> QED BY <3>1, Zenon DEF GuardedTurn
    <2>6. f = [p \in Quads |-> WalkTurn(a, f, p)]
      BY <2>2, <2>5, Zenon
    <2> QED BY <2>6
  <1>3. Walk(a) = [p \in Quads |-> WalkTurn(a, Walk(a), p)]
    BY <1>2, Zenon DEF Walk
  <1>4. \A p \in Quads : Walk(a)[p] = WalkTurn(a, Walk(a), p)
    BY <1>3, Zenon
  <1> QED BY <1>4, CursorIs

\* The walk's call for a subtree at a leaf that is a multiple of its width.
CallAt(f, h, c) == <<PosOf(f, h), h, f, c>>

\* Where the walk says what it says of a subtree that reaches into the range.
Overlaps(a, f, h) == ~OutsideRange(f, f + TwoTo[h] - 1, a.lo, a.hi)

\* Its parts.
LEMMA CallAtIs ==
    ASSUME NEW f \in Nat, NEW h \in Nat, NEW c \in Nat
    PROVE  /\ CallAt(f, h, c) \in Quads
           /\ CallAt(f, h, c)[1] = PosOf(f, h) /\ CallAt(f, h, c)[2] = h
           /\ CallAt(f, h, c)[3] = f /\ CallAt(f, h, c)[4] = c
  <1>1. PosOf(f, h) \in Int
    BY TreeTyped
  <1>2. /\ CallAt(f, h, c)[1] = PosOf(f, h) /\ CallAt(f, h, c)[2] = h
        /\ CallAt(f, h, c)[3] = f /\ CallAt(f, h, c)[4] = c
    BY DEF CallAt
  <1>3. CallAt(f, h, c) \in Quads
    BY <1>1 DEF CallAt, Quads
  <1> QED BY <1>2, <1>3

\* Such a subtree is not outside.
LEMMA OverlapsIs ==
    ASSUME NEW a, NEW f \in Nat, NEW h \in Nat, NEW c \in Nat, Overlaps(a, f, h)
    PROVE  ~Outside(a, CallAt(f, h, c))
  BY CallAtIs DEF Outside, Overlaps

\* A subtree outside the range costs one digest of the witness, a leaf none.
LEMMA WalkEnds ==
    ASSUME NEW a, NEW f \in Nat, NEW h \in Nat, NEW c \in Nat
    PROVE  /\ Walk(a)[CallAt(f, h, c)][2] \in Nat
           /\ Overlaps(a, f, 0) => Walk(a)[CallAt(f, 0, c)][1] = leaf_hash(a.digests[f])
  <1>1. CallAt(f, h, c) \in Quads /\ CallAt(f, 0, c) \in Quads
    BY CallAtIs
  <1>2. Walk(a)[CallAt(f, h, c)][2] \in Nat
    BY <1>1, WalkUnfolds
  <1>3. ASSUME Overlaps(a, f, 0) PROVE Walk(a)[CallAt(f, 0, c)][1] = leaf_hash(a.digests[f])
    <2>1. /\ ~Outside(a, CallAt(f, 0, c)) /\ CallAt(f, 0, c)[2] = 0
          /\ CallAt(f, 0, c)[3] = f
      BY <1>3, CallAtIs, OverlapsIs, 0 \in Nat
    <2>2. Walk(a)[CallAt(f, 0, c)] = WalkTurn(a, Walk(a), CallAt(f, 0, c))
      BY <1>1, WalkUnfolds
    <2>3. WalkTurn(a, Walk(a), CallAt(f, 0, c)) = <<leaf_hash(a.digests[f]), CallAt(f, 0, c)[4]>>
      BY <2>1, WalkTurnIs
    <2> QED BY <2>2, <2>3
  <1> QED BY <1>2, <1>3

\* The walk hashes what it says of the two halves.
InHalves(a, f, h, c) ==
    \E d \in Nat :
        Walk(a)[CallAt(f, h + 1, c)][1] =
            interior_hash(Walk(a)[CallAt(f, h, c)][1], Walk(a)[CallAt(f + TwoTo[h], h, d)][1],
                          PosOf(f, h + 1))

\* It does for a subtree that reaches into the range.
LEMMA WalkSplits ==
    ASSUME NEW a, NEW f \in Nat, NEW h \in Nat, NEW c \in Nat, Aligned(f, h + 1),
           Overlaps(a, f, h + 1), Walk(a)[CallAt(f, h + 1, c)][1] # NoDigest
    PROVE  InHalves(a, f, h, c)
  <1> DEFINE p == CallAt(f, h + 1, c)
             x == Walk(a)[CallAt(f, h, c)]
             y == Walk(a)[CallAt(f + TwoTo[h], h, x[2])]
  <1>1. h + 1 \in Nat /\ (h + 1) - 1 = h /\ h + 1 # 0
    OBVIOUS
  <1>2. /\ p \in Quads /\ ~Outside(a, p) /\ p[1] = PosOf(f, h + 1) /\ p[2] = h + 1
        /\ p[3] = f /\ p[4] = c
    BY <1>1, CallAtIs, OverlapsIs
  <1>3. /\ PosOf(f, h + 1) - TwoTo[h + 1] = PosOf(f, h)
        /\ PosOf(f, h + 1) - 1 = PosOf(f + TwoTo[h], h)
    BY TreeSplits
  <1> HIDE DEF p
  <1>4. LeftCall(p) = CallAt(f, h, c)
    BY <1>1, <1>2, <1>3 DEF LeftCall, CallAt
  <1>5. \A d : RightCall(p, d) = CallAt(f + TwoTo[h], h, d)
    BY <1>1, <1>2, <1>3 DEF RightCall, CallAt
  <1>6. x[2] \in Nat
    BY WalkEnds
  <1>7. Walk(a)[p] = Joined(p, x, y)
    <2>1. Walk(a)[p] = WalkTurn(a, Walk(a), p)
      BY <1>2, WalkUnfolds
    <2>2. p[2] # 0
      BY <1>1, <1>2
    <2>3. WalkTurn(a, Walk(a), p) = Joined(p, Walk(a)[LeftCall(p)], Walk(a)[RightCall(p, Walk(a)[LeftCall(p)][2])])
      BY <1>2, <2>2, WalkTurnIs
    <2>4. Walk(a)[LeftCall(p)] = x
      BY <1>4
    <2> HIDE DEF x
    <2>5. Walk(a)[RightCall(p, x[2])] = y
      BY <1>5
    <2> HIDE DEF y
    <2> QED BY <2>1, <2>3, <2>4, <2>5
  <1>8. Walk(a)[p][1] # NoDigest
    BY DEF p
  <1> HIDE DEF x, y
  <1>9. Walk(a)[p][1] = interior_hash(x[1], y[1], PosOf(f, h + 1))
    BY <1>2, <1>7, <1>8 DEF Joined
  <1> QED BY <1>6, <1>9 DEF p, x, y, InHalves

\* The digests of a term and of no digest.
LEMMA NoDigestIsNone ==
    ASSUME NEW a, NEW b, NEW i
    PROVE  leaf_hash(a) # NoDigest /\ interior_hash(a, b, i) # NoDigest
  <1>1. /\ leaf_hash(a)[1] = "leaf" /\ interior_hash(a, b, i)[1] = "interior"
        /\ NoDigest[1] = "not-a-digest"
    BY DEF leaf_hash, interior_hash, NoDigest
  <1> QED BY <1>1

\* The entries of l are the digests of the range, from leaf f, n of them, where the range has them.
RangeHolds(a, l, f, n) == \A j \in f..(f + n - 1) : a.lo <= j /\ j <= a.hi => a.digests[j] = l[j + 1]

\* A walk that rebuilds a node of the log has the log's entries in the range.
LEMMA WalkSound ==
    ASSUME NEW a, a.lo \in Int, a.hi \in Int, NEW l, NEW f \in Nat, NEW h \in Nat, NEW c \in Nat, Aligned(f, h),
           Walk(a)[CallAt(f, h, c)][1] = Nodes(l)[Tree(f, h)]
    PROVE  RangeHolds(a, l, f, TwoTo[h])
  <1> DEFINE Good(n) == \A g, d \in Nat :
                            Aligned(g, n) /\ Walk(a)[CallAt(g, n, d)][1] = Nodes(l)[Tree(g, n)]
                                => RangeHolds(a, l, g, TwoTo[n])
             P == {n \in Nat : Good(n)}
  <1>1. ASSUME NEW n \in Nat, \A mm \in 0..(n - 1) : mm \in P PROVE n \in P
    <2> SUFFICES ASSUME NEW g \in Nat, NEW d \in Nat, Aligned(g, n),
                        Walk(a)[CallAt(g, n, d)][1] = Nodes(l)[Tree(g, n)]
                 PROVE  RangeHolds(a, l, g, TwoTo[n])
      OBVIOUS
    <2>1. CASE ~Overlaps(a, g, n)
      <3>1. TwoTo[n] \in Nat
        BY TwoToAbove
      <3>2. g + TwoTo[n] - 1 < a.lo \/ g > a.hi
        BY <2>1 DEF Overlaps, OutsideRange
      <3> QED BY <3>1, <3>2 DEF RangeHolds
    <2>2. CASE Overlaps(a, g, n) /\ n = 0
      <3>1. leaf_hash(a.digests[g]) = leaf_hash(l[g + 1])
        <4>1. Nodes(l)[Tree(g, 0)] = leaf_hash(l[g + 1])
          BY TreeNode
        <4>2. Walk(a)[CallAt(g, 0, d)][1] = leaf_hash(a.digests[g])
          BY <2>2, WalkEnds
        <4> QED BY <2>2, <4>1, <4>2
      <3>2. a.digests[g] = l[g + 1]
        BY <3>1, LeafHashTells
      <3>3. TwoTo[n] = 1
        BY <2>2, TwoToUnfolds
      <3> QED BY <3>2, <3>3 DEF RangeHolds
    <2>3. ASSUME Overlaps(a, g, n), NEW x \in Nat, n = x + 1 PROVE RangeHolds(a, l, g, TwoTo[n])
      <3> DEFINE w == TwoTo[x]
      <3>1. w \in Nat /\ w >= 1 /\ TwoTo[n] = 2 * w
        BY <2>3, TwoToUnfolds, TwoToAbove
      <3>2. Nodes(l)[Tree(g, n)] =
                interior_hash(Nodes(l)[Tree(g, x)], Nodes(l)[Tree(g + w, x)], PosOf(g, n))
        BY <2>3, TreeNode
      <3>3. Walk(a)[CallAt(g, n, d)][1] # NoDigest
        BY <3>2, NoDigestIsNone
      <3>4. PICK e \in Nat :
                Walk(a)[CallAt(g, n, d)][1] =
                   interior_hash(Walk(a)[CallAt(g, x, d)][1], Walk(a)[CallAt(g + w, x, e)][1], PosOf(g, n))
        <4>1. Aligned(g, x + 1) /\ Overlaps(a, g, x + 1) /\ Walk(a)[CallAt(g, x + 1, d)][1] # NoDigest
          BY <2>3, <3>3
        <4>2. \E e \in Nat :
                Walk(a)[CallAt(g, x + 1, d)][1] =
                   interior_hash(Walk(a)[CallAt(g, x, d)][1], Walk(a)[CallAt(g + TwoTo[x], x, e)][1],
                                 PosOf(g, x + 1))
          <5>1. InHalves(a, g, x, d)
            BY <4>1, WalkSplits
          <5> QED BY <5>1 DEF InHalves
        <4> QED BY <2>3, <4>2
      <3>5. /\ Walk(a)[CallAt(g, x, d)][1] = Nodes(l)[Tree(g, x)]
            /\ Walk(a)[CallAt(g + w, x, e)][1] = Nodes(l)[Tree(g + w, x)]
        <4>1. interior_hash(Walk(a)[CallAt(g, x, d)][1], Walk(a)[CallAt(g + w, x, e)][1], PosOf(g, n))
                  = interior_hash(Nodes(l)[Tree(g, x)], Nodes(l)[Tree(g + w, x)], PosOf(g, n))
          BY <3>2, <3>4, Zenon
        <4> QED BY <4>1, NodeHashTells
      <3>6. Aligned(g, x) /\ Aligned(g + w, x)
        BY <2>3, TreeSplits
      <3>7. Good(x)
        <4>1. x \in 0..(n - 1)
          BY <2>3
        <4>2. x \in P
          BY <1>1, <4>1
        <4> HIDE DEF Good
        <4> QED BY <4>2
      <3>8. RangeHolds(a, l, g, TwoTo[x]) /\ RangeHolds(a, l, g + w, TwoTo[x])
        <4>1. g + w \in Nat
          BY <3>1
        <4> QED BY <3>5, <3>6, <3>7, <4>1
      <3>9. RangeHolds(a, l, g, w) /\ RangeHolds(a, l, g + w, w)
        BY <3>8
      <3> HIDE DEF w, P, Good
      <3>10. ASSUME NEW j \in g..(g + 2 * w - 1) PROVE j \in g..(g + w - 1) \/ j \in (g + w)..(g + w + w - 1)
        BY <3>1
      <3> QED BY <3>1, <3>9, <3>10 DEF RangeHolds
    <2>4. n = 0 \/ \E x \in Nat : n = x + 1
      <3>1. \A x \in Nat : x = 0 \/ (x - 1 \in Nat /\ x = (x - 1) + 1)
        OBVIOUS
      <3> QED BY <3>1
    <2> QED BY <2>1, <2>2, <2>3, <2>4
  <1>2. P = Nat
    <2>1. P \in SUBSET Nat
      OBVIOUS
    <2> HIDE DEF P
    <2> QED BY <1>1, <2>1, NatStrong
  <1>3. Good(h)
    <2>1. h \in P
      <3> HIDE DEF P
      <3> QED BY <1>2
    <2> QED BY <2>1
  <1> HIDE DEF P
  <1> QED BY <1>3

\* The loop over the peaks.
Run(a) == CHOOSE run : run = [i \in Nat |-> RunTurn(a, run, i)]

\* It goes peak by peak.
LEMMA RunUnfolds ==
    ASSUME NEW a
    PROVE  \A i \in Nat : Run(a)[i] = RunTurn(a, Run(a), i)
  <1>1. Local("run", a)
    <2> SUFFICES ASSUME NEW f, NEW g, NEW i \in Nat,
                        \A c \in Nat : c < i => f[c] = g[c]
                 PROVE  RunTurn(a, f, i) = RunTurn(a, g, i)
      BY TurnIs, CallsAre, RankIs DEF Local
    <2>1. CASE i = 0
      BY <2>1 DEF RunTurn
    <2>2. CASE i # 0
      <3>1. f[i - 1] = g[i - 1]
        BY <2>2
      <3> QED BY <2>2, <3>1, Zenon DEF RunTurn
    <2> QED BY <2>1, <2>2
  <1>2. \E f : f = [i \in Nat |-> RunTurn(a, f, i)]
    <2>1. PICK f : f = [i \in Calls("run") |-> Turn("run", a, f, i)]
      <3>1. \A i \in Calls("run") : Rank("run", a, i) \in Nat
        BY CallsAre, RankIs
      <3> QED BY <1>1, <3>1, Recursion
    <2>2. f = [i \in Nat |-> RunTurn(a, f, i)]
      BY <2>1, TurnIs, CallsAre
    <2> QED BY <2>2
  <1>3. Run(a) = [i \in Nat |-> RunTurn(a, Run(a), i)]
    BY <1>2, Zenon DEF Run
  <1> QED BY <1>3, Zenon

\* reconstruct_range_subtree is the walk.
LEMMA WalkIs ==
    ASSUME NEW a, NEW pos, NEW h, NEW f, NEW c
    PROVE  reconstruct_range_subtree(pos, h, f, a.lo, a.hi, a.digests, a.witness, c) = Walk(a)[<<pos, h, f, c>>]
  <1> DEFINE Sub(g, p) ==
                 LET left  == g[<<p[1] - TwoTo[p[2]], p[2] - 1, p[3], p[4]>>]
                     right == g[<<p[1] - 1, p[2] - 1, p[3] + TwoTo[p[2] - 1], left[2]>>]
                 IN  CASE OutsideRange(p[3], p[3] + TwoTo[p[2]] - 1, a.lo, a.hi) ->
                             <<IF p[4] < Len(a.witness) THEN a.witness[p[4] + 1] ELSE NoDigest, p[4] + 1>>
                       [] ~OutsideRange(p[3], p[3] + TwoTo[p[2]] - 1, a.lo, a.hi) /\ p[2] = 0 ->
                             <<leaf_hash(a.digests[p[3]]), p[4]>>
                       [] OTHER ->
                             <<IF NoDigest \in {left[1], right[1]} THEN NoDigest
                               ELSE interior_hash(left[1], right[1], p[1]), right[2]>>
  <1>1. reconstruct_range_subtree(pos, h, f, a.lo, a.hi, a.digests, a.witness, c) =
            (CHOOSE sub : sub = [p \in Int \X Nat \X Nat \X Nat |-> Sub(sub, p)])[<<pos, h, f, c>>]
    BY Zenon DEF reconstruct_range_subtree
  <1>2. \A g, p : Sub(g, p) = WalkTurn(a, g, p)
    BY Zenon DEF WalkTurn, LeftCall, RightCall, Outside
  <1> HIDE DEF Sub
  <1> DEFINE G(g) == [p \in Int \X Nat \X Nat \X Nat |-> Sub(g, p)]
             H(g) == [p \in Int \X Nat \X Nat \X Nat |-> WalkTurn(a, g, p)]
  <1>3. \A g : G(g) = H(g)
    BY <1>2, Zenon
  <1>4. (CHOOSE g : g = G(g)) = (CHOOSE g : g = H(g))
    <2> HIDE DEF G, H
    <2> QED BY <1>3, Zenon
  <1> QED BY <1>1, <1>4, Zenon DEF Walk, Quads

\* RebuiltPeaks is the loop.
LEMMA RunIs ==
    ASSUME NEW size, NEW lo, NEW hi, NEW digests, NEW witness, NEW a,
           a = [size |-> size, lo |-> lo, hi |-> hi, digests |-> digests, witness |-> witness]
    PROVE  RebuiltPeaks(size, lo, hi, digests, witness) = Run(a)[Len(peaks(size))]
  <1>1. a.size = size /\ a.lo = lo /\ a.hi = hi /\ a.digests = digests /\ a.witness = witness
    OBVIOUS
  <1> DEFINE LoopTurn(f, i) ==
                 IF i = 0 THEN <<<< >>, 0>>
                 ELSE LET done == f[i - 1]
                          r == reconstruct_range_subtree(
                                   peaks(size)[i], height_at(peaks(size)[i]),
                                   SumOver([j \in 1..Len(peaks(size)) |-> TwoTo[height_at(peaks(size)[j])]], i - 1),
                                   lo, hi, digests, witness, done[2])
                      IN  <<Append(done[1], r[1]), r[2]>>
  <1>2. RebuiltPeaks(size, lo, hi, digests, witness) =
            (CHOOSE run : run = [i \in Nat |-> LoopTurn(run, i)])[Len(peaks(size))]
    BY Zenon DEF RebuiltPeaks
  <1>3. \A f, i : LoopTurn(f, i) = RunTurn(a, f, i)
    BY <1>1, Zenon DEF RunTurn, PeakWalk
  <1> HIDE DEF LoopTurn
  <1> DEFINE G(f) == [i \in Nat |-> LoopTurn(f, i)]
             H(f) == [i \in Nat |-> RunTurn(a, f, i)]
  <1>4. \A f : G(f) = H(f)
    BY <1>3, Zenon
  <1>5. (CHOOSE f : f = G(f)) = (CHOOSE f : f = H(f))
    <2> HIDE DEF G, H
    <2> QED BY <1>4, Zenon
  <1> QED BY <1>2, <1>5, Zenon DEF Run

-----------------------------------------------------------------------------
(* The sizes verify_range takes are those of logs, and the peaks it rebuilds*)
(* are the log's.                                                          *)

\* The leaves before each mountain, as the loops over the peaks count them.
LEMMA FeetAre ==
    ASSUME NEW n \in Nat, SizeOf(n) < MAX_MMR_SIZE
    PROVE  \A p \in 0..Len(Mountains(n)) :
               SumOver([i \in 1..Len(peaks(SizeOf(n))) |-> TwoTo[height_at(peaks(SizeOf(n))[i])]], p)
                   = Foot(Mountains(n), n, p + 1)
  <1> DEFINE ms == Mountains(n)
             k == Len(ms)
             pks == peaks(SizeOf(n))
             v == [i \in 1..Len(pks) |-> TwoTo[height_at(pks[i])]]
  <1>1. /\ pks # NoPeaks /\ Len(pks) = k /\ k \in Nat
        /\ \A i \in 1..k : height_at(pks[i]) = ms[i][2]
    BY PeaksAre
  <1>2. Ridge(ms, n)
    BY MountainsAre
  <1>3. \A i \in 1..k : v[i] = TwoTo[ms[i][2]]
    BY <1>1
  <1>4. \A p : SumOver(v, p) = Sums(v)[p]
    <2> HIDE DEF v
    <2> QED BY Zenon DEF SumOver, Sums, SumTurn
  <1> HIDE DEF v, ms, pks
  <1>5. /\ Foot(ms, n, 1) = 0
        /\ \A i \in 1..k : Foot(ms, n, i) = ms[i][3] /\ Foot(ms, n, i + 1) = EndOf(ms[i])
        /\ \A i \in 1..(k + 1) : Foot(ms, n, i) \in Nat
    BY <1>2, FootIs
  <1> DEFINE P == {p \in Nat : p <= k => Sums(v)[p] = Foot(ms, n, p + 1)}
  <1>6. ASSUME NEW p \in Nat, \A mm \in 0..(p - 1) : mm \in P PROVE p \in P
    <2>1. Sums(v)[p] = SumTurn(v, Sums(v), p)
      BY SumUnfolds
    <2>2. CASE p = 0
      <3>1. Sums(v)[p] = 0
        BY <2>1, <2>2 DEF SumTurn
      <3> QED BY <1>5, <2>2, <3>1
    <2>3. CASE p # 0 /\ p <= k
      <3>1. p - 1 \in 0..(p - 1) /\ p \in 1..k /\ p - 1 <= k /\ (p - 1) + 1 = p
        BY <1>1, <2>3
      <3>2. p - 1 \in P
        BY <1>6, <3>1
      <3>3. Sums(v)[p - 1] = Foot(ms, n, p)
        BY <3>1, <3>2
      <3>4. Sums(v)[p] = Foot(ms, n, p) + v[p]
        BY <2>1, <2>3, <3>3 DEF SumTurn
      <3>5. Foot(ms, n, p + 1) = Foot(ms, n, p) + TwoTo[ms[p][2]]
        BY <1>5, <3>1 DEF EndOf
      <3> QED BY <1>3, <3>1, <3>4, <3>5
    <2> QED BY <2>2, <2>3
  <1>7. P = Nat
    <2>1. P \in SUBSET Nat
      OBVIOUS
    <2> HIDE DEF P
    <2> QED BY <1>6, <2>1, NatStrong
  <1>8. ASSUME NEW p \in 0..k PROVE SumOver(v, p) = Foot(ms, n, p + 1)
    <2>1. p \in Nat /\ p <= k
      BY <1>1
    <2>2. p \in P
      BY <1>7, <2>1
    <2> QED BY <1>4, <2>1, <2>2
  <1> QED BY <1>8 DEF v, ms, pks

\* leaf_count is the number of leaves.
LEMMA LeafCountIs ==
    ASSUME NEW n \in Nat, SizeOf(n) < MAX_MMR_SIZE
    PROVE  leaf_count(SizeOf(n)) = n
  <1> DEFINE k == Len(Mountains(n))
             pks == peaks(SizeOf(n))
  <1>1. pks # NoPeaks /\ Len(pks) = k /\ k \in Nat /\ k \in 0..k
    BY PeaksAre
  <1>2. Foot(Mountains(n), n, k + 1) = n
    BY MountainsAre, FootIs
  <1>3. leaf_count(SizeOf(n)) = SumOver([i \in 1..Len(pks) |-> TwoTo[height_at(pks[i])]], k)
    BY <1>1, Zenon DEF leaf_count
  <1> QED BY <1>1, <1>2, <1>3, FeetAre, Zenon

\* A split that goes on found a lower mountain, and so did the rest of it.
LEMMA SplitGoesOn ==
    ASSUME NEW r \in Nat, NEW o \in Nat, NEW q \in Nat, r > 0, Split[<<r, o, q>>] # NoPeaks
    PROVE  /\ Tallest(r) < q
           /\ Split[<<r - MountainSize(Tallest(r)), o + MountainSize(Tallest(r)), Tallest(r)>>] # NoPeaks
  <1> DEFINE p == <<r, o, q>>
  <1>1. p \in Nat \X Nat \X Nat /\ p[1] = r /\ p[2] = o /\ p[3] = q
    OBVIOUS
  <1>2. Split[p] = SplitTurn(Split, p)
    BY <1>1, SplitUnfolds
  <1>3. SplitTurn(Split, p) # NoPeaks
    BY <1>2
  <1> HIDE DEF p
  <1>4. ~(~FallsBelow(Tallest(r), q)
          \/ Split[<<r - MountainSize(Tallest(r)), o + MountainSize(Tallest(r)), Tallest(r)>>] = NoPeaks)
    BY <1>1, <1>3, SMTT(30) DEF SplitTurn
  <1> QED BY <1>4 DEF FallsBelow

\* Only the sizes of logs have peaks.
LEMMA PeaksTell ==
    ASSUME NEW s \in Int, peaks(s) # NoPeaks
    PROVE  \E n \in Nat : s = SizeOf(n) /\ SizeOf(n) < MAX_MMR_SIZE
  <1> DEFINE Good(r) == \A o, q \in Nat : Split[<<r, o, q>>] # NoPeaks => \E n \in Nat : r = node_count(n)
             P == {r \in Nat : Good(r)}
  <1>1. ASSUME NEW r \in Nat, \A mm \in 0..(r - 1) : mm \in P PROVE r \in P
    <2> SUFFICES ASSUME NEW o \in Nat, NEW q \in Nat, Split[<<r, o, q>>] # NoPeaks
                 PROVE  \E n \in Nat : r = node_count(n)
      OBVIOUS
    <2>1. CASE r = 0
      BY <2>1, CountTyped
    <2>2. CASE r # 0
      <3> DEFINE h == Tallest(r)
                 rest == r - MountainSize(h)
                 past == o + MountainSize(h)
      <3>1. r > 0 /\ r >= 1
        BY <2>2
      <3>2. h \in Nat /\ MountainSize(h) <= r /\ MountainSize(h) \in Nat /\ MountainSize(h) >= 1
        BY <3>1, TallestIs, SizeAbove
      <3>3. Split[<<rest, past, h>>] # NoPeaks
        BY <3>1, SplitGoesOn
      <3> HIDE DEF h
      <3>4. rest \in Nat /\ past \in Nat /\ rest \in 0..(r - 1)
        BY <3>2
      <3> HIDE DEF rest, past
      <3>5. PICK n \in Nat : rest = node_count(n)
        <4>1. rest \in P
          BY <1>1, <3>4
        <4>2. Good(rest)
          BY <4>1
        <4> QED BY <3>2, <3>3, <3>4, <4>2
      <3>6. rest < MountainSize(h)
        <4>1. CASE rest = 0
          BY <3>2, <4>1
        <4>2. CASE rest # 0
          <5> DEFINE t == Tallest(rest)
          <5>1. rest > 0 /\ rest >= 1
            BY <3>4, <4>2
          <5>2. t \in Nat /\ rest < MountainSize(t + 1)
            BY <3>4, <5>1, TallestIs
          <5>3. t < h
            BY <3>2, <3>3, <3>4, <5>1, SplitGoesOn
          <5> HIDE DEF t
          <5>4. t + 1 \in Nat /\ t + 1 <= h
            BY <3>2, <5>2, <5>3
          <5>5. TwoTo[t + 1] <= TwoTo[h] /\ TwoTo[t + 1] \in Nat /\ TwoTo[h] \in Nat
            BY <3>2, <5>4, WiderAligned, TwoToAbove
          <5>6. MountainSize(t + 1) = 2 * TwoTo[t + 1] - 1 /\ MountainSize(h) = 2 * TwoTo[h] - 1
            BY <3>2, <5>4, SizeAbove
          <5> QED BY <3>4, <5>2, <5>5, <5>6
        <4> QED BY <4>1, <4>2
      <3>7. node_count(TwoTo[h]) = MountainSize(h) /\ TwoTo[h] \in Nat
        BY <3>2, CountOfMountain, TwoToAbove
      <3>8. n < TwoTo[h]
        <4>1. ~(TwoTo[h] <= n)
          <5> SUFFICES ASSUME TwoTo[h] <= n PROVE FALSE
            OBVIOUS
          <5>1. node_count(TwoTo[h]) <= node_count(n)
            BY <3>7, CountGrows
          <5> QED BY <3>2, <3>4, <3>5, <3>6, <3>7, <5>1
        <4> QED BY <3>7, <4>1
      <3>9. Aligned(TwoTo[h], h)
        BY <3>2, WiderAligned
      <3>10. node_count(TwoTo[h] + n) = node_count(TwoTo[h]) + node_count(n)
        BY <3>2, <3>7, <3>8, <3>9, CountAdds
      <3>11. r = node_count(TwoTo[h] + n)
        <4>1. r = MountainSize(h) + rest
          BY <3>2 DEF rest
        <4> QED BY <3>5, <3>7, <3>10, <4>1
      <3>12. TwoTo[h] + n \in Nat
        BY <3>7
      <3> QED BY <3>11, <3>12
    <2> QED BY <2>1, <2>2
  <1>2. P = Nat
    <2>1. P \in SUBSET Nat
      OBVIOUS
    <2> HIDE DEF P
    <2> QED BY <1>1, <2>1, NatStrong
  <1>3. ~(s < 0) /\ ~(s >= MAX_MMR_SIZE)
    BY PeaksAbove
  <1>4. s \in Nat /\ s < MAX_MMR_SIZE
    BY <1>3, MaxMmrSizeAssumption
  <1>5. peaks(s) = Split[<<s, 0, s + 1>>]
    <2>1. peaks(s) = IF s < 0 \/ s >= MAX_MMR_SIZE THEN NoPeaks ELSE Split[<<s, 0, s + 1>>]
      BY Zenon DEF peaks, Split, SplitTurn
    <2> QED BY <1>3, <2>1
  <1>6. Good(s)
    <2>1. s \in P
      <3> HIDE DEF P
      <3> QED BY <1>2, <1>4
    <2> QED BY <2>1
  <1> HIDE DEF P
  <1>7. PICK n \in Nat : s = node_count(n)
    <2>1. Split[<<s, 0, s + 1>>] # NoPeaks /\ s + 1 \in Nat /\ 0 \in Nat
      BY <1>4, <1>5
    <2> QED BY <1>6, <2>1
  <1> QED BY <1>4, <1>7, MountainsAre

\* A size with leaves is the size of a log with as many.
LEMMA SizeTells ==
    ASSUME NEW s \in Int, leaf_count(s) # NoCount
    PROVE  leaf_count(s) \in Nat /\ s = SizeOf(leaf_count(s)) /\ s < MAX_MMR_SIZE
  <1>1. peaks(s) # NoPeaks
    BY Zenon DEF leaf_count
  <1>2. PICK n \in Nat : s = SizeOf(n) /\ SizeOf(n) < MAX_MMR_SIZE
    BY <1>1, PeaksTell
  <1> QED BY <1>2, LeafCountIs

\* The first i peaks that the loop rebuilds: each is what the walk says of the mountain, from some cursor.
Rebuilt(a, ms, s, i) ==
    /\ s \in Seq({Walk(a)[q][1] : q \in Quads}) /\ Len(s) = i
    /\ \A j \in 1..i : \E c \in Nat : s[j] = Walk(a)[CallAt(ms[j][3], ms[j][2], c)][1]

\* One more peak.
LEMMA PeakRebuilt ==
    ASSUME NEW n \in Nat, SizeOf(n) < MAX_MMR_SIZE, NEW a, a.size = SizeOf(n),
           NEW i \in 1..Len(Mountains(n)), NEW c \in Nat
    PROVE  PeakWalk(a, i, c) = Walk(a)[CallAt(Mountains(n)[i][3], Mountains(n)[i][2], c)]
  <1> DEFINE ms == Mountains(n)
             pks == peaks(SizeOf(n))
             foot == SumOver([j \in 1..Len(pks) |-> TwoTo[height_at(pks[j])]], i - 1)
  <1>1. /\ pks[i] = PosOf(ms[i][3], ms[i][2]) /\ height_at(pks[i]) = ms[i][2] /\ Len(ms) \in Nat
    BY PeaksAre
  <1>2. foot = ms[i][3]
    <2>1. i - 1 \in 0..Len(ms) /\ (i - 1) + 1 = i
      BY <1>1
    <2>2. foot = Foot(ms, n, (i - 1) + 1)
      BY <2>1, FeetAre
    <2>3. Foot(ms, n, i) = ms[i][3]
      BY MountainsAre, FootIs
    <2> HIDE DEF foot, ms
    <2> QED BY <2>1, <2>2, <2>3
  <1>3. PeakWalk(a, i, c) =
            reconstruct_range_subtree(pks[i], height_at(pks[i]), foot, a.lo, a.hi, a.digests, a.witness, c)
    BY Zenon DEF PeakWalk
  <1> HIDE DEF foot, pks, ms
  <1>4. PeakWalk(a, i, c) = Walk(a)[<<pks[i], height_at(pks[i]), foot, c>>]
    <2>1. reconstruct_range_subtree(pks[i], height_at(pks[i]), foot, a.lo, a.hi, a.digests, a.witness, c)
              = Walk(a)[<<pks[i], height_at(pks[i]), foot, c>>]
      BY WalkIs
    <2> QED BY <1>3, <2>1
  <1> QED BY <1>1, <1>2, <1>4 DEF CallAt, ms

\* All of them.
LEMMA PeaksRebuilt ==
    ASSUME NEW n \in Nat, SizeOf(n) < MAX_MMR_SIZE, NEW a, a.size = SizeOf(n)
    PROVE  Rebuilt(a, Mountains(n), Run(a)[Len(Mountains(n))][1], Len(Mountains(n)))
  <1> DEFINE ms == Mountains(n)
             k == Len(ms)
             S == {Walk(a)[q][1] : q \in Quads}
             P == {i \in Nat : i <= k => Rebuilt(a, ms, Run(a)[i][1], i) /\ Run(a)[i][2] \in Nat}
  <1>1. k \in Nat /\ Ridge(ms, n)
    BY PeaksAre, MountainsAre
  <1>2. ASSUME NEW i \in Nat, \A mm \in 0..(i - 1) : mm \in P PROVE i \in P
    <2>1. Run(a)[i] = RunTurn(a, Run(a), i)
      BY RunUnfolds
    <2>2. CASE i = 0
      <3>1. Run(a)[i] = <<<< >>, 0>>
        BY <2>1, <2>2 DEF RunTurn
      <3>2. Rebuilt(a, ms, << >>, 0)
        <4> HIDE DEF ms
        <4> QED BY DEF Rebuilt
      <3> QED BY <2>2, <3>1, <3>2
    <2>3. CASE i # 0 /\ i <= k
      <3> DEFINE s == Run(a)[i - 1][1]
                 c == Run(a)[i - 1][2]
                 r == Walk(a)[CallAt(ms[i][3], ms[i][2], c)]
      <3>1. i - 1 \in Nat /\ i - 1 \in 0..(i - 1) /\ i \in 1..k /\ i - 1 <= k /\ (i - 1) + 1 = i
        BY <1>1, <2>3
      <3>2. Rebuilt(a, ms, s, i - 1) /\ c \in Nat
        <4>1. i - 1 \in P
          BY <1>2, <3>1
        <4> QED BY <3>1, <4>1
      <3>3. ms[i][3] \in Nat /\ ms[i][2] \in Nat
        BY <1>1, <3>1, RidgeAligned
      <3>4. PeakWalk(a, i, c) = r
        BY <3>1, <3>2, PeakRebuilt
      <3>5. Run(a)[i] = <<Append(s, r[1]), r[2]>>
        <4>1. Run(a)[i] = <<Append(s, PeakWalk(a, i, c)[1]), PeakWalk(a, i, c)[2]>>
          BY <2>1, <2>3, Zenon DEF RunTurn
        <4> QED BY <3>4, <4>1
      <3>6. CallAt(ms[i][3], ms[i][2], c) \in Quads /\ r[2] \in Nat
        BY <3>2, <3>3, CallAtIs, WalkEnds
      <3>7. r[1] \in S
        BY <3>6
      <3>8. Rebuilt(a, ms, Append(s, r[1]), i)
        <4>1. s \in Seq(S) /\ Len(s) = i - 1
          BY <3>2 DEF Rebuilt
        <4>2. \A j \in 1..(i - 1) : \E d \in Nat : s[j] = Walk(a)[CallAt(ms[j][3], ms[j][2], d)][1]
          BY <3>2 DEF Rebuilt
        <4>3. \E d \in Nat : r[1] = Walk(a)[CallAt(ms[i][3], ms[i][2], d)][1]
          BY <3>2
        <4> HIDE DEF S, s, c, r, ms
        <4>4. /\ Append(s, r[1]) \in Seq(S) /\ Len(Append(s, r[1])) = i
              /\ \A j \in 1..i : Append(s, r[1])[j] = IF j = i THEN r[1] ELSE s[j]
          BY <3>1, <3>7, <4>1
        <4>5. \A j \in 1..i : \E d \in Nat : Append(s, r[1])[j] = Walk(a)[CallAt(ms[j][3], ms[j][2], d)][1]
          <5> SUFFICES ASSUME NEW j \in 1..i
                       PROVE  \E d \in Nat : Append(s, r[1])[j] = Walk(a)[CallAt(ms[j][3], ms[j][2], d)][1]
            OBVIOUS
          <5>1. CASE j = i
            BY <4>3, <4>4, <5>1
          <5>2. CASE j # i
            <6>1. j \in 1..(i - 1)
              BY <3>1, <5>2
            <6>2. Append(s, r[1])[j] = s[j]
              BY <4>4, <5>2
            <6> QED BY <4>2, <6>1, <6>2
          <5> QED BY <5>1, <5>2
        <4> QED BY <4>4, <4>5 DEF Rebuilt, S
      <3>9. Run(a)[i][1] = Append(s, r[1]) /\ Run(a)[i][2] = r[2]
        BY <3>5
      <3> HIDE DEF s, c, r, ms
      <3> QED BY <3>6, <3>8, <3>9
    <2> QED BY <2>2, <2>3
  <1>3. P = Nat
    <2>1. P \in SUBSET Nat
      OBVIOUS
    <2> HIDE DEF P
    <2> QED BY <1>2, <2>1, NatStrong
  <1>4. k \in P
    <2> HIDE DEF P
    <2> QED BY <1>1, <1>3
  <1> QED BY <1>1, <1>4

\* What no bag of peaks is.
Plain(x) == \A y, z : x # <<"bag", y, z>>

\* Bagged peaks that give the same root, the last of them no bags, are as many and the same.
LEMMA BagTells ==
    ASSUME NEW p, NEW q, Len(p) \in Nat, Len(q) \in Nat, Len(p) # 0, Len(q) # 0,
           Plain(p[Len(p)]), Plain(q[Len(q)]), root_from_peaks(p) = root_from_peaks(q)
    PROVE  Len(p) = Len(q) /\ \A i \in 1..Len(p) : p[i] = q[i]
  <1> DEFINE n == Len(p)
             m == Len(q)
             P == {i \in Nat : i \in 1..n /\ i \in 1..m => Bag(p)[i] = Bag(q)[i]}
  <1>1. Bag(p)[1] = Bag(q)[1]
    <2>1. \A r : root_from_peaks(r) = IF Len(r) = 0 THEN <<"zero">> ELSE Bag(r)[1]
      BY Zenon DEF root_from_peaks, Bag, BagTurn
    <2> QED BY <2>1
  <1>2. \A i \in Nat : /\ Bag(p)[i] = IF i >= n THEN p[n] ELSE <<"bag", Bag(p)[i + 1], p[i]>>
                       /\ Bag(q)[i] = IF i >= m THEN q[m] ELSE <<"bag", Bag(q)[i + 1], q[i]>>
    BY BagUnfolds DEF BagTurn
  <1>3. n \in Nat /\ m \in Nat /\ n # 0 /\ m # 0 /\ Plain(p[n]) /\ Plain(q[m])
    OBVIOUS
  <1> HIDE DEF n, m
  <1>4. ASSUME NEW i \in Nat, \A mm \in 0..(i - 1) : mm \in P PROVE i \in P
    <2> SUFFICES ASSUME i \in 1..n, i \in 1..m PROVE Bag(p)[i] = Bag(q)[i]
      OBVIOUS
    <2>1. CASE i = 1
      BY <1>1, <2>1
    <2>2. CASE i # 1
      <3>1. i - 1 \in 0..(i - 1) /\ i - 1 \in 1..n /\ i - 1 \in 1..m /\ i - 1 < n /\ i - 1 < m
            /\ i - 1 \in Nat /\ (i - 1) + 1 = i
        BY <1>3, <2>2
      <3>2. Bag(p)[i - 1] = Bag(q)[i - 1]
        BY <1>4, <3>1
      <3>3. /\ Bag(p)[i - 1] = <<"bag", Bag(p)[i], p[i - 1]>>
            /\ Bag(q)[i - 1] = <<"bag", Bag(q)[i], q[i - 1]>>
        <4>1. ~(i - 1 >= n) /\ ~(i - 1 >= m)
          BY <1>3, <3>1
        <4> HIDE DEF P
        <4> QED BY <1>2, <3>1, <4>1
      <3>4. <<"bag", Bag(p)[i], p[i - 1]>> = <<"bag", Bag(q)[i], q[i - 1]>>
        BY <3>2, <3>3
      <3> QED BY <3>4
    <2> QED BY <2>1, <2>2
  <1>5. P = Nat
    <2>1. P \in SUBSET Nat
      OBVIOUS
    <2> HIDE DEF P
    <2> QED BY <1>4, <2>1, NatStrong
  <1>6. \A i \in Nat : i \in 1..n /\ i \in 1..m => Bag(p)[i] = Bag(q)[i]
    BY <1>5
  <1> HIDE DEF P
  <1>7. ~(n < m)
    <2> SUFFICES ASSUME n < m PROVE FALSE
      OBVIOUS
    <2>1. n \in 1..n /\ n \in 1..m /\ n >= n /\ ~(n >= m)
      BY <1>3
    <2>2. Bag(p)[n] = Bag(q)[n]
      BY <1>3, <1>6, <2>1
    <2>3. Bag(p)[n] = p[n] /\ Bag(q)[n] = <<"bag", Bag(q)[n + 1], q[n]>>
      BY <1>2, <1>3, <2>1
    <2> QED BY <1>3, <2>2, <2>3 DEF Plain
  <1>8. ~(m < n)
    <2> SUFFICES ASSUME m < n PROVE FALSE
      OBVIOUS
    <2>1. m \in 1..n /\ m \in 1..m /\ m >= m /\ ~(m >= n)
      BY <1>3
    <2>2. Bag(p)[m] = Bag(q)[m]
      BY <1>3, <1>6, <2>1
    <2>3. Bag(q)[m] = q[m] /\ Bag(p)[m] = <<"bag", Bag(p)[m + 1], p[m]>>
      BY <1>2, <1>3, <2>1
    <2> QED BY <1>3, <2>2, <2>3 DEF Plain
  <1>9. n = m
    BY <1>3, <1>7, <1>8
  <1> QED BY <1>9, RootTells DEF n, m

-----------------------------------------------------------------------------
(* So a range is the log's last entries, and a node's position, which its  *)
(* digest names, tells the log's size.                                     *)

\* What the hashes of leaves and nodes are, and bags and the root of nothing are not.
Tagged(x) == x[1] \in {"leaf", "interior"}

\* They are what ends a bag and starts a root.
LEMMA TaggedIsPlain ==
    ASSUME NEW x, Tagged(x)
    PROVE  Plain(x) /\ x # <<"zero">>
  <1>1. ASSUME NEW y, NEW z, x = <<"bag", y, z>> PROVE FALSE
    <2>1. x[1] = "bag"
      BY <1>1
    <2> QED BY <2>1 DEF Tagged
  <1>2. ASSUME x = <<"zero">> PROVE FALSE
    <2>1. x[1] = "zero"
      BY <1>2
    <2> QED BY <2>1 DEF Tagged
  <1> QED BY <1>1, <1>2 DEF Plain

\* The root of some peaks is not that of none.
LEMMA RootIsNotZero ==
    ASSUME NEW p, Len(p) \in Nat, Len(p) # 0, Tagged(p[Len(p)])
    PROVE  root_from_peaks(p) # <<"zero">>
  <1>1. root_from_peaks(p) = Bag(p)[1]
    <2>1. root_from_peaks(p) = IF Len(p) = 0 THEN <<"zero">> ELSE Bag(p)[1]
      BY Zenon DEF root_from_peaks, Bag, BagTurn
    <2> QED BY <2>1
  <1>2. Bag(p)[1] = IF 1 >= Len(p) THEN p[Len(p)] ELSE <<"bag", Bag(p)[1 + 1], p[1]>>
    BY BagUnfolds DEF BagTurn
  <1>3. CASE 1 >= Len(p)
    <2>1. Bag(p)[1] = p[Len(p)]
      BY <1>2, <1>3
    <2> QED BY <1>1, <2>1, TaggedIsPlain
  <1>4. CASE ~(1 >= Len(p))
    <2>1. Bag(p)[1] = <<"bag", Bag(p)[1 + 1], p[1]>>
      BY <1>2, <1>4
    <2>2. Bag(p)[1][1] = "bag"
      BY <2>1
    <2>3. Bag(p)[1] # <<"zero">>
      <3> SUFFICES ASSUME Bag(p)[1] = <<"zero">> PROVE FALSE
        OBVIOUS
      <3>1. Bag(p)[1][1] = "zero"
        OBVIOUS
      <3> QED BY <2>2, <3>1
    <2> QED BY <1>1, <2>3
  <1> QED BY <1>3, <1>4

\* The position an interior hash was made for.
LEMMA NodeHashPlace ==
    ASSUME NEW a, NEW b, NEW c, NEW d, NEW i \in Int, NEW j \in Int,
           interior_hash(a, b, i) = interior_hash(c, d, j)
    PROVE  i = j
  <1>1. interior_hash(a, b, i)[2] = i + 1 /\ interior_hash(c, d, j)[2] = j + 1
    BY DEF interior_hash
  <1> QED BY <1>1

\* x is the hash of a leaf, or of a node at the root of the subtree of height h at f.
OfLeaf(x, e) == x = leaf_hash(e)

OfNode(x, f, h) == \E y, z : x = interior_hash(y, z, PosOf(f, h))

\* No digest is both, and a leaf's tells the leaf.
LEMMA KindsAreTagged ==
    ASSUME NEW x
    PROVE  /\ \A e : OfLeaf(x, e) => Tagged(x)
           /\ \A f, h : OfNode(x, f, h) => Tagged(x)
           /\ \A e, f, h : ~(OfLeaf(x, e) /\ OfNode(x, f, h))
           /\ \A d, e : OfLeaf(x, d) /\ OfLeaf(x, e) => d = e
  <1>1. ASSUME NEW e, OfLeaf(x, e) PROVE Tagged(x)
    BY <1>1 DEF OfLeaf, leaf_hash, Tagged
  <1>2. ASSUME NEW f, NEW h, OfNode(x, f, h) PROVE Tagged(x)
    BY <1>2 DEF OfNode, interior_hash, Tagged
  <1>3. ASSUME NEW e, NEW f, NEW h, OfLeaf(x, e), OfNode(x, f, h) PROVE FALSE
    BY <1>3, LeafIsNoNode DEF OfLeaf, OfNode
  <1>4. ASSUME NEW d, NEW e, OfLeaf(x, d), OfLeaf(x, e) PROVE d = e
    BY <1>4, LeafHashTells DEF OfLeaf
  <1> QED BY <1>1, <1>2, <1>3, <1>4

\* A node's hash tells where the node is.
LEMMA SamePlace ==
    ASSUME NEW x, NEW f \in Nat, NEW g \in Nat, NEW h \in Nat, NEW k \in Nat,
           OfNode(x, f, h), OfNode(x, g, k)
    PROVE  PosOf(f, h) = PosOf(g, k)
  <1>1. PICK a, b : x = interior_hash(a, b, PosOf(f, h))
    BY DEF OfNode
  <1>2. PICK c, d : x = interior_hash(c, d, PosOf(g, k))
    BY DEF OfNode
  <1>3. PosOf(f, h) \in Int /\ PosOf(g, k) \in Int
    BY TreeTyped
  <1>4. interior_hash(a, b, PosOf(f, h)) = interior_hash(c, d, PosOf(g, k))
    BY <1>1, <1>2, Zenon
  <1> QED BY <1>3, <1>4, NodeHashPlace

\* The nodes of a log.
LEMMA NodeKinds ==
    ASSUME NEW l, NEW f \in Nat, NEW h \in Nat, Aligned(f, h)
    PROVE  /\ h = 0 => OfLeaf(Nodes(l)[Tree(f, h)], l[f + 1])
           /\ h # 0 => OfNode(Nodes(l)[Tree(f, h)], f, h)
  <1>1. CASE h = 0
    BY <1>1, TreeNode DEF OfLeaf
  <1>2. CASE h # 0
    <2> DEFINE x == h - 1
    <2>1. x \in Nat /\ h = x + 1
      BY <1>2
    <2> HIDE DEF x
    <2>2. Nodes(l)[Tree(f, h)] =
              interior_hash(Nodes(l)[Tree(f, x)], Nodes(l)[Tree(f + TwoTo[x], x)], PosOf(f, h))
      BY <2>1, TreeNode
    <2> QED BY <1>2, <2>2 DEF OfNode
  <1> QED BY <1>1, <1>2

\* What the walk says of a subtree that reaches into the range.
LEMMA WalkKinds ==
    ASSUME NEW a, NEW f \in Nat, NEW h \in Nat, NEW c \in Nat, Aligned(f, h), Overlaps(a, f, h),
           Walk(a)[CallAt(f, h, c)][1] # NoDigest
    PROVE  /\ h = 0 => OfLeaf(Walk(a)[CallAt(f, h, c)][1], a.digests[f])
           /\ h # 0 => OfNode(Walk(a)[CallAt(f, h, c)][1], f, h)
  <1>1. CASE h = 0
    BY <1>1, WalkEnds DEF OfLeaf
  <1>2. CASE h # 0
    <2> DEFINE x == h - 1
    <2>1. x \in Nat /\ h = x + 1
      BY <1>2
    <2> HIDE DEF x
    <2>2. InHalves(a, f, x, c)
      BY <2>1, WalkSplits
    <2>3. OfNode(Walk(a)[CallAt(f, x + 1, c)][1], f, x + 1)
      BY <2>2 DEF InHalves, OfNode
    <2> QED BY <1>2, <2>1, <2>3
  <1> QED BY <1>1, <1>2

\* A range that verifies.  R are the rebuilt peaks of a log of m leaves.
RangeUnder(a, l, m, R) ==
    /\ a.lo \in Nat /\ a.hi = m - 1 /\ a.lo <= a.hi
    /\ Rebuilt(a, Mountains(m), R, Len(Mountains(m)))
    /\ \A i \in 1..Len(R) : R[i] # NoDigest
    /\ root_from_peaks(R) = RootOf(l)

\* The rebuilt peak of a mountain that reaches into the range.
LEMMA PeakKinds ==
    ASSUME NEW a, NEW l, NEW m \in Nat, NEW R, RangeUnder(a, l, m, R), NEW i \in 1..Len(Mountains(m)),
           Overlaps(a, Mountains(m)[i][3], Mountains(m)[i][2])
    PROVE  /\ Mountains(m)[i][2] = 0 => OfLeaf(R[i], a.digests[Mountains(m)[i][3]])
           /\ Mountains(m)[i][2] # 0 => OfNode(R[i], Mountains(m)[i][3], Mountains(m)[i][2])
  <1> DEFINE f == Mountains(m)[i][3]
             h == Mountains(m)[i][2]
  <1>1. f \in Nat /\ h \in Nat /\ Aligned(f, h)
    BY MountainsAre, RidgeAligned
  <1>2. PICK c \in Nat : R[i] = Walk(a)[CallAt(f, h, c)][1]
    BY DEF RangeUnder, Rebuilt
  <1>3. R[i] # NoDigest
    BY DEF RangeUnder, Rebuilt
  <1> HIDE DEF f, h
  <1>4. Overlaps(a, f, h)
    BY DEF f, h
  <1>5. /\ h = 0 => OfLeaf(R[i], a.digests[f])
        /\ h # 0 => OfNode(R[i], f, h)
    BY <1>1, <1>2, <1>3, <1>4, WalkKinds
  <1> QED BY <1>5 DEF f, h

\* The last mountain reaches into the range.
LEMMA LastOverlaps ==
    ASSUME NEW a, NEW l, NEW m \in Nat, NEW R, RangeUnder(a, l, m, R)
    PROVE  LET k == Len(Mountains(m))
           IN  /\ k \in 1..k /\ k \in Nat /\ Len(R) = k /\ m >= 1
               /\ EndOf(Mountains(m)[k]) = m
               /\ Overlaps(a, Mountains(m)[k][3], Mountains(m)[k][2])
               /\ Tagged(R[k])
  <1> DEFINE ms == Mountains(m)
             k == Len(ms)
  <1>1. Ridge(ms, m) /\ k \in Nat
    BY MountainsAre, FootIs
  <1>2. m >= 1 /\ a.lo <= m - 1 /\ a.hi = m - 1 /\ a.lo \in Nat /\ Len(R) = k
    <2> HIDE DEF ms
    <2>1. a.lo \in Nat /\ a.hi = m - 1 /\ a.lo <= a.hi /\ Len(R) = Len(Mountains(m))
      BY DEF RangeUnder, Rebuilt
    <2> QED BY <2>1 DEF ms
  <1> HIDE DEF ms
  <1>3. k # 0
    BY <1>1, <1>2 DEF Ridge, Standing
  <1>4. k \in 1..k /\ EndOf(ms[k]) = m
    BY <1>1, <1>3 DEF Ridge, Standing
  <1>5. ms[k][3] \in Nat /\ ms[k][2] \in Nat /\ EndOf(ms[k]) = ms[k][3] + TwoTo[ms[k][2]]
    BY <1>1, <1>4, RidgeAligned
  <1>6. TwoTo[ms[k][2]] \in Nat /\ TwoTo[ms[k][2]] >= 1
    BY <1>5, TwoToAbove
  <1>7. Overlaps(a, ms[k][3], ms[k][2])
    <2> DEFINE f == ms[k][3]
               w == TwoTo[ms[k][2]]
    <2>1. f \in Nat /\ w \in Nat /\ w >= 1 /\ f + w = m
      BY <1>4, <1>5, <1>6
    <2> HIDE DEF f, w
    <2>2. ~(f + w - 1 < a.lo) /\ ~(f > a.hi)
      BY <1>2, <2>1
    <2> QED BY <2>2 DEF Overlaps, OutsideRange, f, w
  <1>8. Tagged(R[k])
    <2>1. /\ ms[k][2] = 0 => OfLeaf(R[k], a.digests[ms[k][3]])
          /\ ms[k][2] # 0 => OfNode(R[k], ms[k][3], ms[k][2])
      BY <1>4, <1>7, PeakKinds DEF ms
    <2> QED BY <2>1, KindsAreTagged
  <1> QED BY <1>1, <1>2, <1>4, <1>7, <1>8 DEF ms

\* The last peak of a log.
LEMMA LastPeak ==
    ASSUME NEW l, Len(l) \in Nat, Len(l) # 0
    PROVE  LET k == Len(Mountains(Len(l)))
           IN  /\ k \in 1..k /\ k \in Nat /\ k # 0 /\ Len(PeaksOf(l)) = k
               /\ EndOf(Mountains(Len(l))[k]) = Len(l)
               /\ Tagged(PeaksOf(l)[k])
  <1> DEFINE n == Len(l)
             ms == Mountains(n)
             k == Len(ms)
  <1>1. Ridge(ms, n) /\ k \in Nat
    BY MountainsAre, FootIs
  <1>2. Len(PeaksOf(l)) = k /\ \A i \in 1..k : PeaksOf(l)[i] = Nodes(l)[Tree(ms[i][3], ms[i][2])]
    BY PeaksOfAre
  <1>3. n # 0
    OBVIOUS
  <1> HIDE DEF ms, n
  <1>4. k # 0
    BY <1>1, <1>3 DEF Ridge, Standing
  <1>5. k \in 1..k /\ EndOf(ms[k]) = n
    BY <1>1, <1>4 DEF Ridge, Standing
  <1>6. ms[k][3] \in Nat /\ ms[k][2] \in Nat /\ Aligned(ms[k][3], ms[k][2])
    BY <1>1, <1>5, RidgeAligned
  <1>7. Tagged(Nodes(l)[Tree(ms[k][3], ms[k][2])])
    BY <1>6, NodeKinds, KindsAreTagged
  <1>8. Tagged(PeaksOf(l)[k])
    BY <1>2, <1>5, <1>7
  <1> QED BY <1>1, <1>2, <1>4, <1>5, <1>8 DEF ms, n

\* The rebuilt peaks are the log's.
LEMMA PeaksUnder ==
    ASSUME NEW a, NEW l, Len(l) \in Nat, NEW m \in Nat, NEW R, RangeUnder(a, l, m, R)
    PROVE  /\ Len(l) # 0 /\ Len(Mountains(Len(l))) = Len(Mountains(m))
           /\ \A i \in 1..Len(Mountains(m)) :
                  R[i] = Nodes(l)[Tree(Mountains(Len(l))[i][3], Mountains(Len(l))[i][2])]
  <1> DEFINE k == Len(Mountains(m))
             q == PeaksOf(l)
  <1>1. k \in 1..k /\ k \in Nat /\ Len(R) = k /\ Tagged(R[k])
    BY LastOverlaps
  <1>2. root_from_peaks(R) = root_from_peaks(q)
    BY DEF RangeUnder, RootOf
  <1>3. /\ Len(q) = Len(Mountains(Len(l))) /\ Len(q) \in Nat
        /\ \A i \in 1..Len(q) : q[i] = Nodes(l)[Tree(Mountains(Len(l))[i][3], Mountains(Len(l))[i][2])]
    BY PeaksOfAre
  <1>4. Len(l) # 0
    <2> SUFFICES ASSUME Len(l) = 0 PROVE FALSE
      OBVIOUS
    <2>1. Len(q) = 0
      <3> SUFFICES ASSUME Len(q) # 0 PROVE FALSE
        OBVIOUS
      <3>1. Ridge(Mountains(Len(l)), 0)
        BY MountainsAre
      <3>2. \E j : j = Len(q) /\ j \in 1..Len(Mountains(Len(l)))
        BY <1>3
      <3>3. Len(q) \in 1..Len(Mountains(Len(l))) /\ EndOf(Mountains(Len(l))[Len(q)]) = 0
        BY <1>3, <3>1, <3>2 DEF Ridge, Standing
      <3> DEFINE t == Mountains(Len(l))[Len(q)]
      <3>4. t[3] \in Nat /\ t[2] \in Nat /\ EndOf(t) = t[3] + TwoTo[t[2]]
        BY <3>1, <3>3, RidgeAligned
      <3>5. EndOf(t) = 0
        BY <3>3
      <3> HIDE DEF t
      <3>6. TwoTo[t[2]] \in Nat /\ TwoTo[t[2]] >= 1
        BY <3>4, TwoToAbove
      <3> QED BY <3>4, <3>5, <3>6
    <2>2. root_from_peaks(q) = <<"zero">>
      BY <2>1, Zenon DEF root_from_peaks
    <2>3. root_from_peaks(R) # <<"zero">>
      BY <1>1, RootIsNotZero
    <2> QED BY <1>2, <2>2, <2>3
  <1>5. Len(q) # 0 /\ Tagged(q[Len(q)])
    BY <1>3, <1>4, LastPeak
  <1>6. Plain(R[Len(R)]) /\ Plain(q[Len(q)]) /\ Len(R) \in Nat /\ Len(R) # 0
    BY <1>1, <1>5, TaggedIsPlain
  <1> HIDE DEF q
  <1>7. Len(R) = Len(q) /\ \A i \in 1..Len(R) : R[i] = q[i]
    BY <1>2, <1>3, <1>5, <1>6, BagTells
  <1> QED BY <1>1, <1>3, <1>4, <1>7

\* A mountain that reaches into the range and is no leaf ends where the log's ends.
LEMMA SameEnd ==
    ASSUME NEW a, NEW l, Len(l) \in Nat, NEW m \in Nat, NEW R, RangeUnder(a, l, m, R),
           NEW i \in 1..Len(Mountains(m)), Mountains(m)[i][2] # 0,
           Overlaps(a, Mountains(m)[i][3], Mountains(m)[i][2])
    PROVE  EndOf(Mountains(m)[i]) = EndOf(Mountains(Len(l))[i])
  <1> DEFINE ms == Mountains(m)
             ns == Mountains(Len(l))
  <1>1. Ridge(ms, m) /\ Ridge(ns, Len(l))
    BY MountainsAre
  <1>2. Len(ns) = Len(ms) /\ R[i] = Nodes(l)[Tree(ns[i][3], ns[i][2])]
    BY PeaksUnder
  <1>3. OfNode(R[i], ms[i][3], ms[i][2])
    BY PeakKinds
  <1> HIDE DEF ms, ns
  <1>4. i \in 1..Len(ms) /\ i \in 1..Len(ns)
    BY <1>2 DEF ms
  <1>5. /\ ms[i] = Tree(ms[i][3], ms[i][2]) /\ ms[i][3] \in Nat /\ ms[i][2] \in Nat
        /\ EndOf(ms[i]) \in Nat /\ node_count(EndOf(ms[i])) = ms[i][1] + 1
    BY <1>1, <1>4, RidgeAligned
  <1>6. /\ ns[i] = Tree(ns[i][3], ns[i][2]) /\ ns[i][3] \in Nat /\ ns[i][2] \in Nat
        /\ Aligned(ns[i][3], ns[i][2])
        /\ EndOf(ns[i]) \in Nat /\ node_count(EndOf(ns[i])) = ns[i][1] + 1
    BY <1>1, <1>4, RidgeAligned
  <1>7. /\ ns[i][2] = 0 => OfLeaf(R[i], l[ns[i][3] + 1])
        /\ ns[i][2] # 0 => OfNode(R[i], ns[i][3], ns[i][2])
    BY <1>2, <1>6, NodeKinds
  <1>8. OfNode(R[i], ns[i][3], ns[i][2])
    BY <1>3, <1>7, KindsAreTagged
  <1>9. PosOf(ms[i][3], ms[i][2]) = PosOf(ns[i][3], ns[i][2])
    <2>1. /\ ms[i][3] \in Nat /\ ms[i][2] \in Nat /\ ns[i][3] \in Nat /\ ns[i][2] \in Nat
      BY <1>5, <1>6
    <2> DEFINE f == ms[i][3]
               g == ns[i][3]
               h == ms[i][2]
               k == ns[i][2]
               x == R[i]
    <2>2. /\ f \in Nat /\ h \in Nat /\ g \in Nat /\ k \in Nat
          /\ OfNode(x, f, h) /\ OfNode(x, g, k)
      BY <1>3, <1>8, <2>1
    <2> HIDE DEF f, g, h, k, x
    <2>3. PosOf(f, h) = PosOf(g, k)
      BY <2>2, SamePlace
    <2> QED BY <2>3 DEF f, g, h, k
  <1>10. ms[i][1] = PosOf(ms[i][3], ms[i][2]) /\ ns[i][1] = PosOf(ns[i][3], ns[i][2])
    BY <1>5, <1>6 DEF Tree
  <1>11. node_count(EndOf(ms[i])) = node_count(EndOf(ns[i]))
    BY <1>5, <1>6, <1>9, <1>10
  <1>12. ~(EndOf(ms[i]) < EndOf(ns[i])) /\ ~(EndOf(ns[i]) < EndOf(ms[i]))
    <2>1. node_count(EndOf(ms[i])) \in Nat
      BY <1>5, CountTyped
    <2> QED BY <1>5, <1>6, <1>11, <2>1, CountGrows
  <1>13. EndOf(ms[i]) = EndOf(ns[i])
    BY <1>5, <1>6, <1>12
  <1> QED BY <1>13 DEF ms, ns

\* When the size is the log's, the range is the log's.
LEMMA RangeOfTheSize ==
    ASSUME NEW a, NEW l, Len(l) \in Nat, NEW R, RangeUnder(a, l, Len(l), R)
    PROVE  \A x \in a.lo..a.hi : a.digests[x] = l[x + 1]
  <1> DEFINE ms == Mountains(Len(l))
  <1> SUFFICES ASSUME NEW x \in a.lo..a.hi PROVE a.digests[x] = l[x + 1]
    OBVIOUS
  <1>1. Ridge(ms, Len(l))
    BY MountainsAre
  <1>2. a.lo \in Nat /\ a.hi = Len(l) - 1 /\ a.hi \in Int /\ x \in 0..(Len(l) - 1)
    BY DEF RangeUnder
  <1>3. PICK i \in 1..Len(ms) : ms[i][3] <= x /\ x < EndOf(ms[i])
    BY <1>1, <1>2, RidgeCovers
  <1> DEFINE f == ms[i][3]
             h == ms[i][2]
  <1>4. f \in Nat /\ h \in Nat /\ Aligned(f, h) /\ EndOf(ms[i]) = f + TwoTo[h]
    BY <1>1, RidgeAligned
  <1>5. R[i] = Nodes(l)[Tree(f, h)]
    BY PeaksUnder
  <1>6. PICK c \in Nat : R[i] = Walk(a)[CallAt(f, h, c)][1]
    BY DEF RangeUnder, Rebuilt
  <1>7. f <= x /\ x < f + TwoTo[h]
    BY <1>3, <1>4
  <1> HIDE DEF f, h, ms
  <1>8. RangeHolds(a, l, f, TwoTo[h])
    <2>1. a.lo \in Int /\ a.hi \in Int /\ Walk(a)[CallAt(f, h, c)][1] = Nodes(l)[Tree(f, h)]
      BY <1>2, <1>5, <1>6
    <2> QED BY <1>4, <2>1, WalkSound
  <1>9. TwoTo[h] \in Nat /\ x \in f..(f + TwoTo[h] - 1) /\ a.lo <= x /\ x <= a.hi
    BY <1>2, <1>4, <1>7, TwoToAbove
  <1> QED BY <1>8, <1>9 DEF RangeHolds

\* When it is not, the range is the last entry alone.
LEMMA RangeOfAnotherSize ==
    ASSUME NEW a, NEW l, Len(l) \in Nat, NEW m \in Nat, NEW R, RangeUnder(a, l, m, R), m # Len(l)
    PROVE  a.lo = a.hi /\ a.digests[a.hi] = l[Len(l)]
  <1> DEFINE n == Len(l)
             ms == Mountains(m)
             ns == Mountains(n)
             k == Len(ms)
  <1>1. Ridge(ms, m) /\ Ridge(ns, n)
    BY MountainsAre
  <1>2. /\ k \in 1..k /\ k \in Nat /\ m >= 1 /\ EndOf(ms[k]) = m
        /\ Overlaps(a, ms[k][3], ms[k][2])
    BY LastOverlaps
  <1>3. /\ n # 0 /\ Len(ns) = k
        /\ \A i \in 1..k : R[i] = Nodes(l)[Tree(ns[i][3], ns[i][2])]
    BY PeaksUnder
  <1>4. EndOf(ns[k]) = n /\ n \in Nat
    BY <1>3, LastPeak
  <1>5. \A i \in 1..k : ms[i][2] # 0 /\ Overlaps(a, ms[i][3], ms[i][2]) => EndOf(ms[i]) = EndOf(ns[i])
    BY SameEnd
  <1>6. a.lo \in Nat /\ a.hi = m - 1 /\ a.lo <= a.hi
    BY DEF RangeUnder
  <1>7. ms[k][2] = 0 => OfLeaf(R[k], a.digests[ms[k][3]])
    BY <1>2, PeakKinds
  <1>8. m # n
    OBVIOUS
  <1> HIDE DEF ms, ns, n
  <1>9. ms[k][2] = 0
    BY <1>2, <1>4, <1>5, <1>8
  <1>10. /\ ms[k][3] \in Nat /\ EndOf(ms[k]) = ms[k][3] + TwoTo[ms[k][2]]
         /\ ns[k][3] \in Nat /\ ns[k][2] \in Nat /\ Aligned(ns[k][3], ns[k][2])
         /\ EndOf(ns[k]) = ns[k][3] + TwoTo[ns[k][2]]
    BY <1>1, <1>2, <1>3, RidgeAligned
  <1>11. TwoTo[0] = 1
    BY TwoToUnfolds
  <1>12. ms[k][3] = m - 1
    BY <1>2, <1>9, <1>10, <1>11
  <1>13. /\ ns[k][2] = 0 => OfLeaf(R[k], l[ns[k][3] + 1])
         /\ ns[k][2] # 0 => OfNode(R[k], ns[k][3], ns[k][2])
    BY <1>2, <1>3, <1>10, NodeKinds
  <1>14. ns[k][2] = 0 /\ OfLeaf(R[k], l[ns[k][3] + 1]) /\ OfLeaf(R[k], a.digests[ms[k][3]])
    BY <1>7, <1>9, <1>13, KindsAreTagged
  <1>15. ns[k][3] = n - 1
    BY <1>4, <1>10, <1>11, <1>14
  <1>16. a.digests[m - 1] = l[n]
    <2>1. a.digests[ms[k][3]] = l[ns[k][3] + 1]
      BY <1>14, KindsAreTagged
    <2>2. (n - 1) + 1 = n
      BY <1>4
    <2> QED BY <1>12, <1>15, <2>1, <2>2
  <1>17. a.lo = a.hi
    <2> SUFFICES ASSUME a.lo <= m - 2 PROVE FALSE
      BY <1>6
    <2> DEFINE j == k - 1
    <2>1. m >= 2
      BY <1>6
    <2>2. k # 1
      <3>1. ms[1][3] = 0
        BY <1>1, <1>2 DEF Ridge, Standing
      <3> QED BY <1>12, <2>1, <3>1
    <2>3. j \in 1..k /\ j \in 1..(k - 1) /\ j + 1 = k
      <3>1. k \in Nat /\ k \in 1..k
        BY <1>2
      <3> HIDE DEF k
      <3> QED BY <2>2, <3>1
    <2> HIDE DEF j
    <2>4. ms[k][3] = EndOf(ms[j]) /\ ns[k][3] = EndOf(ns[j])
      BY <1>1, <1>3, <2>3 DEF Ridge, Standing
    <2>5. ms[k][2] < ms[j][2]
      BY <1>1, <2>3 DEF Ridge, Falling
    <2>6. /\ ms[j][3] \in Nat /\ ms[j][2] \in Nat /\ EndOf(ms[j]) = ms[j][3] + TwoTo[ms[j][2]]
      BY <1>1, <2>3, RidgeAligned
    <2>7. TwoTo[ms[j][2]] \in Nat /\ TwoTo[ms[j][2]] >= 1
      BY <2>6, TwoToAbove
    <2>8. Overlaps(a, ms[j][3], ms[j][2])
      <3> DEFINE f == ms[j][3]
                 w == TwoTo[ms[j][2]]
      <3>1. f \in Nat /\ w \in Nat /\ w >= 1 /\ f + w = m - 1
        BY <1>12, <2>4, <2>6, <2>7
      <3> HIDE DEF f, w
      <3>2. ~(f + w - 1 < a.lo) /\ ~(f > a.hi)
        BY <1>6, <3>1
      <3> QED BY <3>2 DEF Overlaps, OutsideRange, f, w
    <2>9. EndOf(ms[j]) = EndOf(ns[j])
      BY <1>5, <1>9, <2>3, <2>5, <2>6, <2>8
    <2>10. m - 1 = n - 1
      BY <1>12, <1>15, <2>4, <2>9
    <2> QED BY <1>4, <1>8, <2>10
  <1> QED BY <1>6, <1>16, <1>17 DEF n

(* verify_range is sound: if any proof at all holds for a range under the root of
   a log, its records are the log's last entries, in order and none left out,
   whatever size the proof names; and two of them or more are at the places the
   range says.  A single record is the log's last and may be claimed elsewhere. *)
THEOREM MmrRangeProofsAreSound ==
    ASSUME NEW l, Len(l) \in Nat, NEW from_seq \in Int, NEW to_seq \in Int, NEW body_digests,
           NEW proof, proof.size \in Int, verify_range(RootOf(l), from_seq, to_seq, body_digests, proof)
    PROVE  LET k == Len(body_digests)
           IN  /\ k = to_seq - from_seq + 1 /\ k <= Len(l)
               /\ k >= 2 => to_seq = Len(l)
               /\ \A i \in 1..k : body_digests[i] = l[Len(l) - k + i]
  <1> DEFINE m == to_seq
             lo == proof.from_index
             hi == proof.to_index
             digests == [i \in lo..hi |-> body_digests[i - lo + 1]]
             rebuilt == RebuiltPeaks(proof.size, lo, hi, digests, proof.witness)
             a == [size |-> proof.size, lo |-> lo, hi |-> hi, digests |-> digests, witness |-> proof.witness]
             R == Run(a)[Len(Mountains(m))][1]
             n == Len(l)
             k == Len(body_digests)
  <1>1. /\ RangeShapeOK(from_seq, to_seq, body_digests, proof)
        /\ RangeRootOK(RootOf(l), rebuilt[1])
    BY Zenon DEF verify_range
  <1>2. /\ 1 <= from_seq /\ from_seq <= m /\ leaf_count(proof.size) = m
        /\ lo = from_seq - 1 /\ hi = m - 1 /\ k = hi - lo + 1
    BY <1>1, Zenon DEF RangeShapeOK
  <1>3. m \in Nat /\ m >= 1
    BY <1>2
  <1>4. proof.size = SizeOf(m) /\ SizeOf(m) < MAX_MMR_SIZE
    <2>1. leaf_count(proof.size) # NoCount
      BY <1>2, <1>3 DEF NoCount
    <2> HIDE DEF m
    <2> QED BY <1>2, <2>1, SizeTells
  <1>5. /\ a.size = SizeOf(m) /\ a.lo = lo /\ a.hi = hi /\ a.digests = digests
    BY <1>4
  <1>6. rebuilt[1] = R
    <2>1. rebuilt = Run(a)[Len(peaks(proof.size))]
      <3>1. a = [size |-> proof.size, lo |-> lo, hi |-> hi, digests |-> digests, witness |-> proof.witness]
        OBVIOUS
      <3> HIDE DEF a, digests
      <3> QED BY <3>1, RunIs
    <2>2. Len(peaks(proof.size)) = Len(Mountains(m))
      BY <1>3, <1>4, PeaksAre
    <2> HIDE DEF a, rebuilt
    <2> QED BY <2>1, <2>2
  <1>7. Rebuilt(a, Mountains(m), R, Len(Mountains(m)))
    <2> HIDE DEF a
    <2> QED BY <1>3, <1>4, <1>5, PeaksRebuilt
  <1>8. (\A i \in 1..Len(R) : R[i] # NoDigest) /\ root_from_peaks(R) = RootOf(l)
    <2> HIDE DEF R, rebuilt
    <2> QED BY <1>1, <1>6 DEF RangeRootOK, Digests
  <1>9. digests = [i \in lo..hi |-> body_digests[i - lo + 1]]
    OBVIOUS
  <1> HIDE DEF a, R, rebuilt, digests
  <1>10. RangeUnder(a, l, m, R)
    BY <1>2, <1>3, <1>5, <1>7, <1>8 DEF RangeUnder
  <1>11. k \in Nat /\ k = m - from_seq + 1
    BY <1>2
  <1>12. n \in Nat
    OBVIOUS
  <1> HIDE DEF n, k
  <1>13. \A i \in 1..k : lo + i - 1 \in lo..hi /\ a.digests[lo + i - 1] = body_digests[i]
    <2> SUFFICES ASSUME NEW i \in 1..k
                 PROVE  lo + i - 1 \in lo..hi /\ a.digests[lo + i - 1] = body_digests[i]
      OBVIOUS
    <2>1. lo \in Int /\ hi \in Int /\ i \in Int
      BY <1>2, <1>11
    <2>2. lo + i - 1 \in lo..hi /\ (lo + i - 1) - lo + 1 = i
      BY <1>2, <1>11, <2>1
    <2>3. digests[lo + i - 1] = body_digests[(lo + i - 1) - lo + 1]
      BY <1>9, <2>2
    <2> QED BY <1>5, <2>2, <2>3
  <1>14. CASE m = n
    <2>1. \A x \in a.lo..a.hi : a.digests[x] = l[x + 1]
      BY <1>10, <1>14, RangeOfTheSize DEF n
    <2>2. k <= n
      BY <1>2, <1>11, <1>12, <1>14
    <2>3. ASSUME NEW i \in 1..k PROVE body_digests[i] = l[n - k + i]
      <3>1. lo + i - 1 \in a.lo..a.hi /\ a.digests[lo + i - 1] = body_digests[i]
        BY <1>5, <1>13
      <3>2. (lo + i - 1) + 1 = n - k + i
        BY <1>2, <1>11, <1>12, <1>14
      <3> QED BY <2>1, <3>1, <3>2
    <2>4. k >= 2 => m = n
      BY <1>14
    <2> QED BY <1>11, <2>2, <2>3, <2>4 DEF n, k
  <1>15. CASE m # n
    <2>1. a.lo = a.hi /\ a.digests[a.hi] = l[n]
      BY <1>3, <1>10, <1>15, RangeOfAnotherSize DEF n
    <2>2. n # 0
      BY <1>3, <1>10, PeaksUnder DEF n
    <2>3. k = 1 /\ k <= n
      BY <1>2, <1>5, <1>11, <1>12, <2>1, <2>2
    <2>4. ASSUME NEW i \in 1..k PROVE body_digests[i] = l[n - k + i]
      <3>1. i = 1 /\ n - k + i = n
        BY <1>12, <2>3
      <3>2. a.digests[lo + i - 1] = body_digests[i]
        BY <1>13
      <3>3. lo + i - 1 = a.hi
        BY <1>2, <1>5, <2>1, <3>1
      <3> QED BY <2>1, <3>1, <3>2, <3>3
    <2>5. k >= 2 => m = n
      BY <2>3
    <2>6. k <= n
      BY <2>3
    <2> QED BY <1>11, <2>4, <2>5, <2>6 DEF n, k
  <1> QED BY <1>14, <1>15

-----------------------------------------------------------------------------
(* The reader of a checkpointed log.                                       *)

\* What the operator can serve is a sequence of numbers.
LEMMA ServedAreSequences ==
    ASSUME NEW h \in ServedHistories
    PROVE  h \in Seq(Int) /\ Len(h) \in Nat
  <1>1. PICK neg \in {S \in SUBSET (1..MaxLeaves) : Cardinality(S) <= MaxRewrites} :
            h \in {SubSeq([i \in 1..MaxLeaves |-> IF i \in neg THEN -i ELSE i], 1, n) : n \in 0..MaxLeaves}
    BY DEF ServedHistories
  <1> DEFINE s == [i \in 1..MaxLeaves |-> IF i \in neg THEN -i ELSE i]
  <1>2. PICK n \in 0..MaxLeaves : h = SubSeq(s, 1, n)
    BY <1>1
  <1>3. MaxLeaves \in Nat
    BY MmrLogAssumption
  <1>4. s \in Seq(Int) /\ Len(s) = MaxLeaves
    BY <1>3
  <1> HIDE DEF s
  <1>5. SubSeq(s, 1, n) \in Seq(Int)
    <2>1. \A i \in 1..n : s[i] \in Int
      BY <1>3, <1>4
    <2> QED BY <1>3, <2>1, SubSeqProperties
  <1> QED BY <1>2, <1>5

\* A log that some consistency proof leads to begins with the old log.
LEMMA ExtendsIsSound ==
    ASSUME NEW a, NEW b, <<a, b>> \in Extends
    PROVE  a \in Seq(Int) /\ b \in Seq(Int) /\ IsPrefix(a, b)
  <1>1. PICK q \in ServedHistories \X ServedHistories :
            /\ <<a, b>> = <<q[1], q[2]>>
            /\ \E proof \in ConsistencyProofs(RootOf(q[1]), SizeOf(Len(q[1])), q[2]) :
                   verify_consistency(RootOf(q[1]), SizeOf(Len(q[1])), RootOf(q[2]), SizeOf(Len(q[2])), proof)
    BY Zenon DEF Extends
  <1>2. a = q[1] /\ b = q[2] /\ a \in ServedHistories /\ b \in ServedHistories
    BY <1>1
  <1>3. PICK proof \in ConsistencyProofs(RootOf(a), SizeOf(Len(a)), b) :
            verify_consistency(RootOf(a), SizeOf(Len(a)), RootOf(b), SizeOf(Len(b)), proof)
    BY <1>1, <1>2, Zenon
  <1>4. a \in Seq(Int) /\ b \in Seq(Int) /\ Len(a) \in Nat /\ Len(b) \in Nat
    BY <1>2, ServedAreSequences
  <1>5. Len(a) <= Len(b) /\ \A i \in 1..Len(a) : a[i] = b[i]
    BY <1>3, <1>4, MmrConsistencyProofsAreSound
  <1> QED BY <1>4, <1>5 DEF IsPrefix

\* An entry that some inclusion proof holds for is the log's entry at the index.
LEMMA IncludedIsSound ==
    ASSUME NEW h, NEW index, NEW e, <<h, index, e>> \in Included
    PROVE  /\ h \in Seq(Int) /\ Len(h) \in Nat /\ e \in Entries
           /\ index \in 0..(Len(h) - 1) /\ h[index + 1] = e
  <1>1. PICK q \in ServedHistories \X (0..(MaxLeaves - 1)) \X Entries :
            /\ <<h, index, e>> = <<q[1], q[2], q[3]>>
            /\ \E proof \in InclusionProofs(q[1], SizeOf(Len(q[1])), q[2]) :
                   verify_inclusion(RootOf(q[1]), SizeOf(Len(q[1])), q[2], q[3], proof)
    BY Zenon DEF Included
  <1>2. h = q[1] /\ index = q[2] /\ e = q[3] /\ h \in ServedHistories /\ index \in 0..(MaxLeaves - 1) /\ e \in Entries
    BY <1>1
  <1>3. PICK proof \in InclusionProofs(h, SizeOf(Len(h)), index) :
            verify_inclusion(RootOf(h), SizeOf(Len(h)), index, e, proof)
    BY <1>1, <1>2, Zenon
  <1>4. h \in Seq(Int) /\ Len(h) \in Nat /\ index \in Int
    BY <1>2, ServedAreSequences
  <1> DEFINE D == NodesOf(h)
             pks == peaks(SizeOf(Len(h)))
             at == find_containing_peak(leaf_index_to_pos(index), pks)
             bags == {t \in Tuples(D, Len(pks)) : root_from_peaks(t) = RootOf(h)}
             W == Tuples(D, Len(PathIn(leaf_index_to_pos(index), pks)))
  <1>5. PICK bag \in bags :
            proof \in [kind : {"inclusion"}, size : {SizeOf(Len(h))}, leaf_index : {index}, witness : W,
                       peaks_left : {SubSeq(bag, 1, at - 1)}, peaks_right : {SubSeq(bag, at + 1, Len(pks))}]
    BY <1>3, Zenon DEF InclusionProofs
  <1> HIDE DEF W
  <1>6. proof.peaks_left = SubSeq(bag, 1, at - 1) /\ proof.peaks_right = SubSeq(bag, at + 1, Len(pks))
    BY <1>5
  <1>7. Len(pks) = Len(Mountains(Len(h))) /\ Len(Mountains(Len(h))) \in Nat /\ at \in 1..Len(Mountains(Len(h)))
    BY <1>3, <1>4, InclusionPlace
  <1> HIDE DEF pks, at
  <1>8. proof.peaks_left \in Seq(D) /\ proof.peaks_right \in Seq(D)
    <2> DEFINE k == Len(pks)
    <2>1. k \in Nat /\ at \in Int /\ 1 <= at /\ at <= k
      BY <1>7
    <2>2. bag \in [1..k -> D]
      BY DEF Tuples
    <2> HIDE DEF k, D
    <2>3. \A i \in 1..(at - 1) : bag[i] \in D
      BY <2>1, <2>2
    <2>4. \A i \in (at + 1)..k : bag[i] \in D
      BY <2>1, <2>2
    <2>5. SubSeq(bag, 1, at - 1) \in Seq(D)
      BY <2>1, <2>3, SubSeqProperties
    <2>6. SubSeq(bag, at + 1, k) \in Seq(D)
      BY <2>1, <2>4, SubSeqProperties
    <2> QED BY <1>6, <2>5, <2>6 DEF k
  <1>9. index \in 0..(Len(h) - 1) /\ h[index + 1] = e
    BY <1>3, <1>4, <1>8, MmrInclusionProofsAreSound
  <1> QED BY <1>2, <1>4, <1>9

(* The reader's inductive invariant: its checkpoint is the one over the
   history behind it, and so is every registered checkpoint. *)
OfHistory(c, h) == h \in Seq(Int) /\ c = Checkpoint(HomeLog, SizeOf(Len(h)), RootOf(h))

ReaderInv ==
    /\ served \in Seq(Int)
    /\ OfHistory(held, seen)
    /\ \A r \in registered : OfHistory(r.cp, r.history)
    /\ WitnessedLeafWasRegistered

\* Two histories with the same entries.
Alike(g, h) == Len(g) = Len(h) /\ \A i \in 1..Len(g) : g[i] = h[i]

\* A checkpoint of the log tells the history it is over.
LEMMA CheckpointTells ==
    ASSUME NEW c, NEW g, OfHistory(c, g), NEW d, NEW h, OfHistory(d, h), ts_entry_hash(c) = ts_entry_hash(d)
    PROVE  Alike(g, h)
  <1> DEFINE size_c == SizeOf(Len(g))
             size_d == SizeOf(Len(h))
             root_c == RootOf(g)
             root_d == RootOf(h)
  <1>1. size_c = size_d /\ root_c = root_d
    <2>1. /\ c.log_id = HomeLog /\ c.mmr_size = size_c /\ c.root = root_c
          /\ d.log_id = HomeLog /\ d.mmr_size = size_d /\ d.root = root_d
      BY DEF OfHistory, Checkpoint
    <2>2. digest(c) = digest(d)
      BY DEF ts_entry_hash
    <2> HIDE DEF size_c, size_d, root_c, root_d
    <2>3. <<"digest", HomeLog, size_c, root_c>> = <<"digest", HomeLog, size_d, root_d>>
      BY <2>1, <2>2 DEF digest
    <2> QED BY <2>3
  <1>2. Len(g) \in Nat /\ Len(h) \in Nat
    BY DEF OfHistory
  <1>3. Len(g) = Len(h)
    <2> DEFINE m0 == Len(g)
               n == Len(h)
    <2>1. node_count(m0) = node_count(n) /\ node_count(m0) \in Nat
      BY <1>1, <1>2, MountainsAre, CountTyped
    <2> HIDE DEF m0, n
    <2>2. m0 \in Nat /\ n \in Nat
      BY <1>2 DEF m0, n
    <2>3. ~(m0 < n) /\ ~(n < m0)
      BY <2>1, <2>2, CountGrows
    <2> QED BY <2>2, <2>3 DEF m0, n
  <1> QED BY <1>1, <1>2, <1>3, RootOfTells DEF Alike

\* It holds at first.
LEMMA ReaderInitInv == ReaderInit => ReaderInv
  <1> SUFFICES ASSUME ReaderInit PROVE ReaderInv
    OBVIOUS
  <1>1. served = << >> /\ registered = {} /\ seen = << >> /\ leaf = NoLeaf
        /\ held = Checkpoint(HomeLog, 0, RootOf(<< >>))
    BY DEF ReaderInit
  <1>2. << >> \in Seq(Int) /\ Len(<< >>) = 0 /\ SizeOf(0) = 0
    BY DEF SizeOf
  <1>3. OfHistory(held, seen)
    BY <1>1, <1>2, Zenon DEF OfHistory
  <1>4. WitnessedLeafWasRegistered
    BY <1>1 DEF WitnessedLeafWasRegistered, NoLeaf
  <1> QED BY <1>1, <1>2, <1>3, <1>4 DEF ReaderInv

\* A leaf accepted with a receipt is in the registered history.
LEMMA AcceptedLeafWasRegistered ==
    ASSUME ReaderInv, NEW e, NEW index, NEW receipt \in ReceiptsAtHand, NEW key, AcceptLeaf(e, index, receipt, key)
    PROVE  /\ index \in 0..(Len(seen) - 1) /\ seen[index + 1] = e /\ e \in Entries
           /\ leaf'.entry = e /\ leaf'.index = index
           /\ WitnessedLeafWasRegistered'
  <1>1. /\ <<seen, index, e>> \in Included /\ ReceiptOK(held, receipt, key)
        /\ leaf' = [entry |-> e, index |-> index, witnessed |-> receipt # <<"none">>,
                    lag |-> witness_status_line(held.mmr_size, SizeOf(MaxLeaves))]
        /\ registered' = registered
    BY DEF AcceptLeaf, verify_leaf_against_checkpoint
  <1>2. /\ Len(seen) \in Nat /\ e \in Entries /\ index \in 0..(Len(seen) - 1) /\ seen[index + 1] = e
    BY <1>1, IncludedIsSound
  <1>3. leaf'.entry = e /\ leaf'.index = index /\ leaf'.witnessed = (receipt # <<"none">>)
    <2> DEFINE lag == witness_status_line(held.mmr_size, SizeOf(MaxLeaves))
               w == receipt # <<"none">>
    <2>1. leaf' = [entry |-> e, index |-> index, witnessed |-> w, lag |-> lag]
      BY <1>1
    <2> HIDE DEF lag, w
    <2>2. leaf'.entry = e /\ leaf'.index = index /\ leaf'.witnessed = w
      BY <2>1
    <2> QED BY <2>2 DEF w
  <1>4. ASSUME receipt # <<"none">>
        PROVE  \E r \in registered : /\ r.cp.log_id = HomeLog
                                     /\ index < Len(r.history) /\ r.history[index + 1] = e
    <2>1. PICK r \in registered : receipt = ts_entry_hash(r.cp)
      BY <1>4 DEF ReceiptsAtHand
    <2>2. receipt = ts_entry_hash(held)
      BY <1>1, <1>4 DEF ReceiptOK, verify_receipt
    <2>3. OfHistory(held, seen) /\ OfHistory(r.cp, r.history)
      BY DEF ReaderInv
    <2>4. Alike(seen, r.history)
      <3>1. ts_entry_hash(held) = ts_entry_hash(r.cp)
        BY <2>1, <2>2
      <3> QED BY <2>3, <3>1, CheckpointTells, Zenon
    <2>5. r.cp.log_id = HomeLog
      BY <2>3 DEF OfHistory, Checkpoint
    <2>6. index + 1 \in 1..Len(seen) /\ index < Len(seen)
      BY <1>2
    <2> QED BY <1>2, <2>4, <2>5, <2>6 DEF Alike
  <1>5. WitnessedLeafWasRegistered'
    <2> SUFFICES ASSUME leaf'.witnessed
                 PROVE  \E r \in registered : /\ r.cp.log_id = HomeLog
                            /\ leaf'.index < Len(r.history) /\ r.history[leaf'.index + 1] = leaf'.entry
      BY <1>1 DEF WitnessedLeafWasRegistered
    <2> QED BY <1>3, <1>4
  <1> QED BY <1>2, <1>3, <1>5

\* Every step of the operator, the service and the reader keeps the invariant.
LEMMA ReaderNextInv == ReaderInv /\ [ReaderNext]_readerVars => ReaderInv'
  <1> SUFFICES ASSUME ReaderInv, [ReaderNext]_readerVars PROVE ReaderInv'
    OBVIOUS
  <1>1. CASE AppendLeaf
    <2>1. served' = Append(served, Len(served) + 1)
          /\ UNCHANGED <<rewrites, registered, held, seen, leaf, range>>
      BY <1>1 DEF AppendLeaf
    <2>2. served' \in Seq(Int)
      BY <2>1 DEF ReaderInv
    <2> QED BY <2>1, <2>2 DEF ReaderInv, WitnessedLeafWasRegistered
  <1>2. CASE \E i \in 1..Len(served) : Rewrite(i)
    <2>1. PICK i \in 1..Len(served) : Rewrite(i)
      BY <1>2
    <2>2. served' \in {[served EXCEPT ![i] = -served[i]], SubSeq(served, 1, i - 1)}
          /\ UNCHANGED <<registered, held, seen, leaf, range>>
      BY <2>1 DEF Rewrite
    <2>3. served' \in Seq(Int)
      <3>1. served \in Seq(Int)
        BY DEF ReaderInv
      <3>2. [served EXCEPT ![i] = -served[i]] \in Seq(Int)
        BY <3>1
      <3>3. SubSeq(served, 1, i - 1) \in Seq(Int)
        <4>1. \A j \in 1..(i - 1) : served[j] \in Int
          BY <3>1
        <4> QED BY <4>1, SubSeqProperties
      <3> QED BY <2>2, <3>2, <3>3
    <2> QED BY <2>2, <2>3 DEF ReaderInv, WitnessedLeafWasRegistered
  <1>3. CASE Register
    <2>1. /\ leaf = NoLeaf
          /\ registered' = {[cp |-> Issued(held.log_id), history |-> served]}
          /\ UNCHANGED <<served, rewrites, held, seen, leaf, range>>
      BY <1>3 DEF Register
    <2>2. held.log_id = HomeLog
      BY DEF ReaderInv, OfHistory, Checkpoint
    <2>3. OfHistory(Issued(held.log_id), served)
      BY <2>2 DEF ReaderInv, OfHistory, Issued
    <2>4. \A r \in registered' : OfHistory(r.cp, r.history)
      BY <2>1, <2>3
    <2>5. WitnessedLeafWasRegistered'
      BY <2>1 DEF WitnessedLeafWasRegistered, NoLeaf
    <2> QED BY <2>1, <2>4, <2>5 DEF ReaderInv
  <1>4. CASE \E id \in OtherLogs \cup {HomeLog} : AdvanceCheckpoint(id)
    <2>1. PICK id : AdvanceCheckpoint(id)
      BY <1>4
    <2>2. /\ held.log_id = Issued(id).log_id
          /\ held' = Issued(id) /\ seen' = served
          /\ UNCHANGED <<served, rewrites, registered, leaf, range>>
      BY <2>1 DEF AdvanceCheckpoint, verify_checkpoint_chain
    <2>3. held.log_id = HomeLog /\ Issued(id).log_id = id
      BY DEF ReaderInv, OfHistory, Checkpoint, Issued
    <2>4. OfHistory(held', seen')
      BY <2>2, <2>3 DEF ReaderInv, OfHistory, Issued
    <2> QED BY <2>2, <2>4 DEF ReaderInv, WitnessedLeafWasRegistered
  <1>5. CASE \E index \in 0..(Len(seen) - 1), e \in Entries, receipt \in ReceiptsAtHand,
                key \in {"ts", "none"} : AcceptLeaf(e, index, receipt, key)
    <2>1. PICK index \in 0..(Len(seen) - 1), e \in Entries, receipt \in ReceiptsAtHand,
               key \in {"ts", "none"} : AcceptLeaf(e, index, receipt, key)
      BY <1>5
    <2>2. UNCHANGED <<served, rewrites, registered, held, seen, range>>
      BY <2>1 DEF AcceptLeaf
    <2>3. WitnessedLeafWasRegistered'
      BY <2>1, AcceptedLeafWasRegistered
    <2> QED BY <2>2, <2>3 DEF ReaderInv
  <1>6. CASE \E r \in Ranged : r[1] = seen /\ AcceptRange(r[2], r[3])
    <2>1. UNCHANGED <<served, rewrites, registered, held, seen, leaf>>
      BY <1>6 DEF AcceptRange
    <2> QED BY <2>1 DEF ReaderInv, WitnessedLeafWasRegistered
  <1>7. CASE UNCHANGED readerVars
    BY <1>7 DEF readerVars, ReaderInv, WitnessedLeafWasRegistered
  <1> QED BY <1>1, <1>2, <1>3, <1>4, <1>5, <1>6, <1>7 DEF ReaderNext

(* The checkpoint the reader holds, and every registered one, is over the
   history the model records for it. *)
THEOREM ReaderInvariant == ReaderSpec => []ReaderInv
  BY ReaderInitInv, ReaderNextInv, PTL DEF ReaderSpec

(* A leaf the reader accepted with a receipt is in a history the Transparency
   Service registered a checkpoint of. *)
THEOREM WitnessedLeafRegistered == ReaderSpec => []WitnessedLeafWasRegistered
  <1>1. ReaderInv => WitnessedLeafWasRegistered
    BY DEF ReaderInv
  <1> QED BY <1>1, ReaderInvariant, PTL

\* Records that some range proof holds for are the history's last ones.
TipOf(s, n, ds) ==
    /\ ds \in Seq(Int) /\ Len(ds) \in Nat /\ Len(ds) <= n
    /\ \A i \in 1..Len(ds) : ds[i] = s[n - Len(ds) + i]

\* The range verifier takes no others.
LEMMA RangedIsSound ==
    ASSUME NEW r \in Ranged
    PROVE  r[1] \in Seq(Int) /\ Len(r[1]) \in Nat /\ TipOf(r[1], Len(r[1]), r[3])
  <1>1. PICK h \in ServedHistories, to_seq \in MaxRange..(MaxLeaves + 1), k \in 1..MaxRange :
            \E ds \in Tuples({h[i] : i \in 1..Len(h)}, k) :
                /\ r = <<h, to_seq, ds>>
                /\ \E proof \in RangeProofs(h, SizeOf(to_seq), to_seq - k + 1, to_seq) :
                       verify_range(RootOf(h), to_seq - k + 1, to_seq, ds, proof)
    <2>1. PICK h \in ServedHistories, to_seq \in MaxRange..(MaxLeaves + 1), k \in 1..MaxRange :
              r \in RangedTo(h, to_seq, k)
      BY DEF Ranged
    <2>2. r \in {<<h, to_seq, ds>> : ds \in {x \in Tuples({h[i] : i \in 1..Len(h)}, k) :
                     \E proof \in RangeProofs(h, SizeOf(to_seq), to_seq - k + 1, to_seq) :
                         verify_range(RootOf(h), to_seq - k + 1, to_seq, x, proof)}}
      BY <2>1, Zenon DEF RangedTo
    <2>3. \E ds \in Tuples({h[i] : i \in 1..Len(h)}, k) :
                /\ r = <<h, to_seq, ds>>
                /\ \E proof \in RangeProofs(h, SizeOf(to_seq), to_seq - k + 1, to_seq) :
                       verify_range(RootOf(h), to_seq - k + 1, to_seq, ds, proof)
      BY <2>2, Zenon
    <2> QED BY <2>3
  <1>2. PICK ds \in Tuples({h[i] : i \in 1..Len(h)}, k) :
            /\ r = <<h, to_seq, ds>>
            /\ \E proof \in RangeProofs(h, SizeOf(to_seq), to_seq - k + 1, to_seq) :
                   verify_range(RootOf(h), to_seq - k + 1, to_seq, ds, proof)
    BY <1>1, Zenon
  <1>3. PICK proof \in RangeProofs(h, SizeOf(to_seq), to_seq - k + 1, to_seq) :
            verify_range(RootOf(h), to_seq - k + 1, to_seq, ds, proof)
    BY <1>2, Zenon
  <1>4. h \in Seq(Int) /\ Len(h) \in Nat
    BY ServedAreSequences
  <1>5. MaxRange \in Nat /\ MaxLeaves \in Nat
    BY MmrLogAssumption
  <1>6. to_seq \in Nat /\ k \in Nat /\ to_seq \in Int /\ to_seq - k + 1 \in Int
    BY <1>5
  <1>7. proof.size = SizeOf(to_seq) /\ SizeOf(to_seq) \in Int
    <2>1. proof.size = SizeOf(to_seq)
      BY DEF RangeProofs
    <2>2. SizeOf(to_seq) = node_count(to_seq) /\ node_count(to_seq) \in Nat
      BY <1>6, MountainsAre, CountTyped
    <2> QED BY <2>1, <2>2
  <1>8. /\ Len(ds) <= Len(h)
        /\ \A i \in 1..Len(ds) : ds[i] = h[Len(h) - Len(ds) + i]
    BY <1>3, <1>4, <1>6, <1>7, MmrRangeProofsAreSound
  <1>9. ds \in Seq(Int) /\ Len(ds) \in Nat
    <2>1. ds \in [1..k -> {h[i] : i \in 1..Len(h)}]
      BY DEF Tuples
    <2>2. {h[i] : i \in 1..Len(h)} \subseteq Int
      BY <1>4
    <2>3. ds \in [1..k -> Int]
      BY <2>1, <2>2
    <2> QED BY <1>6, <2>3
  <1>10. r[1] = h /\ r[3] = ds
    BY <1>2
  <1> QED BY <1>4, <1>8, <1>9, <1>10 DEF TipOf

\* The range the reader accepted, and the tip of its history then.
RangeInv ==
    range # NoRange =>
        range.tip \in Nat /\ range.tip <= Len(seen) /\ TipOf(seen, range.tip, range.digests)

\* A longer history keeps it.
LEMMA TipKept ==
    ASSUME NEW s, NEW t, Len(s) \in Nat, Len(t) \in Nat, Len(s) <= Len(t),
           \A i \in 1..Len(s) : s[i] = t[i], NEW n \in Nat, n <= Len(s), NEW ds, TipOf(s, n, ds)
    PROVE  TipOf(t, n, ds) /\ n <= Len(t)
  <1>1. ASSUME NEW i \in 1..Len(ds) PROVE ds[i] = t[n - Len(ds) + i]
    <2>1. Len(ds) \in Nat /\ Len(ds) <= n /\ ds[i] = s[n - Len(ds) + i]
      BY DEF TipOf
    <2>2. n - Len(ds) + i \in 1..Len(s)
      BY <2>1
    <2> QED BY <2>1, <2>2
  <1> QED BY <1>1 DEF TipOf

\* No step loses it: the history behind the checkpoint only grows.
LEMMA RangeNextInv == RangeInv /\ ReaderInv /\ [ReaderNext]_readerVars => RangeInv'
  <1> SUFFICES ASSUME RangeInv, ReaderInv, [ReaderNext]_readerVars PROVE RangeInv'
    OBVIOUS
  <1>1. CASE UNCHANGED <<seen, range>>
    BY <1>1 DEF RangeInv, TipOf
  <1>2. CASE \E id \in OtherLogs \cup {HomeLog} : AdvanceCheckpoint(id)
    <2>1. PICK id : AdvanceCheckpoint(id)
      BY <1>2
    <2>2. <<seen, served>> \in Extends /\ seen' = served /\ range' = range
      BY <2>1 DEF AdvanceCheckpoint, verify_checkpoint_chain
    <2>3. IsPrefix(seen, served)
      BY <2>2, ExtendsIsSound
    <2>4. /\ Len(seen) \in Nat /\ Len(served) \in Nat /\ Len(seen) <= Len(served)
          /\ \A i \in 1..Len(seen) : seen[i] = served[i]
      <3>1. seen \in Seq(Int) /\ served \in Seq(Int)
        BY DEF ReaderInv, OfHistory
      <3>2. /\ Len(seen) <= Len(served)
            /\ SubSeq(seen, 1, Len(seen)) = SubSeq(served, 1, Len(seen))
        BY <2>3 DEF IsPrefix
      <3> QED BY <3>1, <3>2
    <2> SUFFICES ASSUME range # NoRange
                 PROVE  range.tip \in Nat /\ range.tip <= Len(served) /\ TipOf(served, range.tip, range.digests)
      BY <2>2 DEF RangeInv, TipOf
    <2>5. range.tip \in Nat /\ range.tip <= Len(seen) /\ TipOf(seen, range.tip, range.digests)
      BY DEF RangeInv
    <2> QED BY <2>4, <2>5, TipKept
  <1>3. CASE \E r \in Ranged : r[1] = seen /\ AcceptRange(r[2], r[3])
    <2>1. PICK r \in Ranged : r[1] = seen /\ AcceptRange(r[2], r[3])
      BY <1>3
    <2>2. range' = [to_seq |-> r[2], digests |-> r[3], tip |-> Len(seen)] /\ seen' = seen
      BY <2>1 DEF AcceptRange
    <2>3. Len(seen) \in Nat /\ TipOf(seen, Len(seen), r[3])
      BY <2>1, RangedIsSound
    <2>4. range'.tip = Len(seen) /\ range'.digests = r[3]
      BY <2>2
    <2>5. TipOf(seen', range'.tip, range'.digests) /\ range'.tip \in Nat /\ range'.tip <= Len(seen')
      BY <2>2, <2>3, <2>4
    <2> QED BY <2>5 DEF RangeInv
  <1>4. CASE AppendLeaf \/ (\E i \in 1..Len(served) : Rewrite(i)) \/ Register
    <2>1. UNCHANGED <<seen, range>>
      BY <1>4 DEF AppendLeaf, Rewrite, Register
    <2> QED BY <1>1, <2>1
  <1>5. CASE \E index \in 0..(Len(seen) - 1), e \in Entries, receipt \in ReceiptsAtHand,
                key \in {"ts", "none"} : AcceptLeaf(e, index, receipt, key)
    <2>1. UNCHANGED <<seen, range>>
      BY <1>5 DEF AcceptLeaf
    <2> QED BY <1>1, <2>1
  <1>6. CASE UNCHANGED readerVars
    <2>1. UNCHANGED <<seen, range>>
      BY <1>6 DEF readerVars
    <2> QED BY <1>1, <2>1
  <1> QED BY <1>2, <1>3, <1>4, <1>5, <1>6 DEF ReaderNext

\* What the run checks follows.
LEMMA RangeInvTells == RangeInv /\ ReaderInv => RangeIsTheTip
  <1> SUFFICES ASSUME RangeInv, ReaderInv, range # NoRange
               PROVE  LET k == Len(range.digests)
                      IN  /\ k <= range.tip
                          /\ range.digests = SubSeq(seen, range.tip - k + 1, range.tip)
    BY DEF RangeIsTheTip
  <1> DEFINE ds == range.digests
             n == range.tip
             k == Len(ds)
  <1>1. n \in Nat /\ n <= Len(seen) /\ TipOf(seen, n, ds)
    BY DEF RangeInv
  <1>2. seen \in Seq(Int)
    BY DEF ReaderInv, OfHistory
  <1> HIDE DEF ds, n
  <1>3. ds \in Seq(Int) /\ k \in Nat /\ k <= n /\ \A i \in 1..k : ds[i] = seen[n - k + i]
    BY <1>1 DEF TipOf
  <1> DEFINE t == SubSeq(seen, n - k + 1, n)
  <1>4. /\ n - k + 1 \in 1..(Len(seen) + 1) /\ n \in (n - k + 1 - 1)..Len(seen)
        /\ n - (n - k + 1) + 1 = k /\ \A i \in 1..k : (n - k + 1) + i - 1 = n - k + i
    BY <1>1, <1>2, <1>3
  <1>5. t \in Seq(Int) /\ Len(t) = k /\ \A i \in 1..k : t[i] = seen[n - k + i]
    <2>1. \A i \in (n - k + 1)..n : seen[i] \in Int
      BY <1>1, <1>2, <1>3
    <2>2. n - k + 1 \in Int /\ n \in Int /\ n - k + 1 <= n + 1
      BY <1>1, <1>3
    <2>3. /\ t \in Seq(Int)
          /\ Len(t) = IF n - k + 1 <= n THEN n - (n - k + 1) + 1 ELSE 0
          /\ \A i \in 1..(n - (n - k + 1) + 1) : t[i] = seen[(n - k + 1) + i - 1]
      BY <2>1, <2>2, SubSeqProperties
    <2>4. Len(t) = k
      <3> HIDE DEF k, t
      <3> QED BY <1>1, <1>3, <1>4, <2>3
    <2> HIDE DEF k, t
    <2> QED BY <1>4, <2>3, <2>4
  <1>6. ds = t
    <2> HIDE DEF t
    <2>1. Len(ds) = Len(t) /\ \A i \in 1..Len(ds) : ds[i] = t[i]
      BY <1>3, <1>5
    <2> QED BY <1>3, <1>5, <2>1
  <1> QED BY <1>3, <1>6 DEF ds, n

(* The records of a range the reader accepted are the last ones of the history
   behind its checkpoint, whatever size the proof named. *)
THEOREM AcceptedRangeIsTheTip == ReaderSpec => []RangeIsTheTip
  <1>1. ReaderInit => RangeInv
    BY DEF ReaderInit, RangeInv
  <1>2. RangeInv /\ ReaderInv /\ [ReaderNext]_readerVars => RangeInv'
    BY RangeNextInv
  <1>3. RangeInv /\ ReaderInv => RangeIsTheTip
    BY RangeInvTells
  <1> QED BY <1>1, <1>2, <1>3, ReaderInvariant, PTL DEF ReaderSpec

(* The reader of a checkpointed log never goes back behind a history it has
   accepted, and what it accepts at an index is the entry there. *)
THEOREM MmrLogImplementsLogView == ReaderSpec => ImplementsLogView
  <1>1. ReaderInit => View!Init
    BY DEF ReaderInit, View!Init, Accepted
  <1>2. ReaderInv /\ [ReaderNext]_readerVars => [View!Next]_<<seen, Accepted>>
    <2> SUFFICES ASSUME ReaderInv, [ReaderNext]_readerVars PROVE [View!Next]_<<seen, Accepted>>
      OBVIOUS
    <2>1. ASSUME UNCHANGED <<seen, leaf>> PROVE UNCHANGED <<seen, Accepted>>
      BY <2>1 DEF Accepted
    <2>2. CASE AppendLeaf
      BY <2>1, <2>2 DEF AppendLeaf
    <2>3. CASE \E i \in 1..Len(served) : Rewrite(i)
      BY <2>1, <2>3 DEF Rewrite
    <2>4. CASE Register
      BY <2>1, <2>4 DEF Register
    <2>5. CASE \E id \in OtherLogs \cup {HomeLog} : AdvanceCheckpoint(id)
      <3>1. <<seen, served>> \in Extends /\ seen' = served /\ leaf' = leaf
        BY <2>5 DEF AdvanceCheckpoint, verify_checkpoint_chain
      <3>2. IsPrefix(seen, seen')
        BY <3>1, ExtendsIsSound
      <3>3. UNCHANGED Accepted
        BY <3>1 DEF Accepted
      <3>4. View!Extend
        BY <3>2, <3>3 DEF View!Extend, View!IsPrefix, IsPrefix
      <3> QED BY <3>4 DEF View!Next
    <2>6. CASE \E index \in 0..(Len(seen) - 1), e \in Entries, receipt \in ReceiptsAtHand,
                  key \in {"ts", "none"} : AcceptLeaf(e, index, receipt, key)
      <3>1. PICK index \in 0..(Len(seen) - 1), e \in Entries, receipt \in ReceiptsAtHand,
                 key \in {"ts", "none"} : AcceptLeaf(e, index, receipt, key)
        BY <2>6
      <3>2. leaf = NoLeaf /\ UNCHANGED seen
        BY <3>1 DEF AcceptLeaf, Accepting
      <3>3. /\ index \in 0..(Len(seen) - 1) /\ seen[index + 1] = e /\ e \in Entries
            /\ leaf'.entry = e /\ leaf'.index = index
        BY <3>1, AcceptedLeafWasRegistered
      <3>4. leaf' # NoLeaf
        <4>1. e # 0 /\ NoLeaf.entry = 0
          BY <3>3 DEF NoLeaf, Entries
        <4> QED BY <3>3, <4>1
      <3>5. Accepted = {} /\ Accepted' = {<<index + 1, e>>}
        BY <3>2, <3>3, <3>4 DEF Accepted
      <3>6. View!Accept(index + 1)
        BY <3>2, <3>3, <3>5 DEF View!Accept
      <3>7. index + 1 \in 1..Len(seen)
        <4>1. Len(seen) \in Nat
          BY DEF ReaderInv, OfHistory
        <4> QED BY <4>1
      <3> QED BY <3>6, <3>7 DEF View!Next
    <2>7. CASE \E r \in Ranged : r[1] = seen /\ AcceptRange(r[2], r[3])
      BY <2>1, <2>7 DEF AcceptRange
    <2>8. CASE UNCHANGED readerVars
      BY <2>1, <2>8 DEF readerVars
    <2> QED BY <2>2, <2>3, <2>4, <2>5, <2>6, <2>7, <2>8 DEF ReaderNext
  <1> QED BY <1>1, <1>2, ReaderInvariant, PTL DEF ImplementsLogView, View!Spec, ReaderSpec

-----------------------------------------------------------------------------
(* The operators of witness.js, and those merkle.py's theorems are about.  *)

\* The theorems about merkle.py.  Its log, queries and reader are of no concern here.
MP == INSTANCE MerkleFoldProofs
        WITH Log <- [i \in 1..MAX_TREE_SIZE |-> 0], Queries <- {}, query <- 0, pc <- 0, size <- 0,
             m <- 0, rest <- 0, stack <- 0, acc <- 0, result <- 0,
             MaxEntries <- 0, MaxProof <- 0, MaxPath <- 0, Held <- {}, MaxRewrites <- 0,
             served <- 0, rewrites <- 0, head <- 0, seen <- 0, fact <- 0

\* Both instances of Merkle define the same tree hash.
LEMMA SameTreeHash == \A h : M!merkle_root(h) = MP!merkle_root(h)
  BY Zenon DEF M!merkle_root, MP!merkle_root, M!mth, MP!mth, M!LeavesOf, MP!LeavesOf,
               M!largest_pow2_below, MP!largest_pow2_below, M!leaf_hash, MP!leaf_hash,
               M!node_hash, MP!node_hash, M!empty_hash, MP!empty_hash

\* Both define the same audit paths.
LEMMA SamePath == \A h, i : M!inclusion_proof(h, i) = MP!inclusion_proof(h, i)
  BY Zenon DEF M!inclusion_proof, MP!inclusion_proof, M!mth, MP!mth, M!LeavesOf, MP!LeavesOf,
               M!largest_pow2_below, MP!largest_pow2_below, M!leaf_hash, MP!leaf_hash,
               M!node_hash, MP!node_hash, M!empty_hash, MP!empty_hash

\* And the same path length.
LEMMA SameLength ==
    \A n, i : M!expected_inclusion_path_len(n, i) = MP!expected_inclusion_path_len(n, i)
  BY Zenon DEF M!expected_inclusion_path_len, MP!expected_inclusion_path_len,
               M!largest_pow2_below, MP!largest_pow2_below

\* The loop of expectedPath counts the levels expected_inclusion_path_len does.
LEMMA SameSteps == \A n, i : expectedPath(n, i) = MP!expected_inclusion_path_len(n, i)
  BY Zenon DEF expectedPath, MP!expected_inclusion_path_len,
               M!largest_pow2_below, MP!largest_pow2_below

\* root_from_inclusion_proof in both instances.
LEMMA SameRebuilt ==
    ASSUME NEW e, NEW i, NEW n, NEW p
    PROVE  M!root_from_inclusion_proof(e, i, n, p) = MP!root_from_inclusion_proof(e, i, n, p)
  <1>1. M!InclusionShapeOK(i, n, Len(p)) = MP!InclusionShapeOK(i, n, Len(p))
    BY SameLength DEF M!InclusionShapeOK, MP!InclusionShapeOK
  <1>2. M!root_from_inclusion_proof(e, i, n, p) =
            IF /\ M!InclusionShapeOK(i, n, Len(p))
               /\ MP!FoldOf(e, n, p)[<<n, i, Len(p)>>] # MP!NoRoot
               /\ MP!FoldOf(e, n, p)[<<n, i, Len(p)>>][2] = 0
            THEN MP!FoldOf(e, n, p)[<<n, i, Len(p)>>][1] ELSE MP!NoRoot
    BY Zenon DEF M!root_from_inclusion_proof, MP!FoldOf, M!largest_pow2_below, MP!largest_pow2_below,
                 M!leaf_hash, MP!leaf_hash, M!node_hash, MP!node_hash, M!NoRoot, MP!NoRoot
  <1>3. MP!root_from_inclusion_proof(e, i, n, p) =
            IF /\ MP!InclusionShapeOK(i, n, Len(p))
               /\ MP!FoldOf(e, n, p)[<<n, i, Len(p)>>] # MP!NoRoot
               /\ MP!FoldOf(e, n, p)[<<n, i, Len(p)>>][2] = 0
            THEN MP!FoldOf(e, n, p)[<<n, i, Len(p)>>][1] ELSE MP!NoRoot
    BY PlacementsAssumption, MP!RootIsFold
  <1> QED BY <1>1, <1>2, <1>3

\* receiptRoot is its guards around the fold that merkle.py's theorems are about.
LEMMA ReceiptRootIsFold ==
    ASSUME NEW e, NEW i, NEW n, NEW p
    PROVE  receiptRoot(e, i, n, p) =
               IF /\ PathShapeOK(i, n, p)
                  /\ MP!FoldOf(e, n, p)[<<n, i, Len(p)>>] # MP!NoRoot
                  /\ MP!FoldOf(e, n, p)[<<n, i, Len(p)>>][2] = 0
               THEN MP!FoldOf(e, n, p)[<<n, i, Len(p)>>][1] ELSE MP!NoRoot
  BY Zenon DEF receiptRoot, MP!FoldOf, M!largest_pow2_below, MP!largest_pow2_below,
               M!leaf_hash, MP!leaf_hash, M!node_hash, MP!node_hash, M!NoRoot, MP!NoRoot

\* For sizes that are safe integers the page rebuilds the root that merkle.py
\* rebuilds and refuses what it refuses.
LEMMA ReceiptRootIs ==
    ASSUME NEW e, NEW i, NEW n \in Nat, n <= MAX_SAFE_INTEGER, NEW p
    PROVE  receiptRoot(e, i, n, p) = MP!root_from_inclusion_proof(e, i, n, p)
  <1>1. PathShapeOK(i, n, p) = MP!InclusionShapeOK(i, n, Len(p))
    <2>1. n <= MAX_TREE_SIZE
      BY PlacementsAssumption
    <2> QED BY <2>1, SameSteps DEF PathShapeOK, MP!InclusionShapeOK
  <1>2. receiptRoot(e, i, n, p) =
            IF /\ PathShapeOK(i, n, p)
               /\ MP!FoldOf(e, n, p)[<<n, i, Len(p)>>] # MP!NoRoot
               /\ MP!FoldOf(e, n, p)[<<n, i, Len(p)>>][2] = 0
            THEN MP!FoldOf(e, n, p)[<<n, i, Len(p)>>][1] ELSE MP!NoRoot
    BY ReceiptRootIsFold
  <1>3. MP!root_from_inclusion_proof(e, i, n, p) =
            IF /\ MP!InclusionShapeOK(i, n, Len(p))
               /\ MP!FoldOf(e, n, p)[<<n, i, Len(p)>>] # MP!NoRoot
               /\ MP!FoldOf(e, n, p)[<<n, i, Len(p)>>][2] = 0
            THEN MP!FoldOf(e, n, p)[<<n, i, Len(p)>>][1] ELSE MP!NoRoot
    BY PlacementsAssumption, MP!RootIsFold
  <1> QED BY <1>1, <1>2, <1>3

\* For any other size it rebuilds none.
LEMMA ReceiptRootIsBounded ==
    ASSUME NEW e, NEW i, NEW n, ~(n <= MAX_SAFE_INTEGER), NEW p
    PROVE  receiptRoot(e, i, n, p) = M!NoRoot
  BY ReceiptRootIsFold DEF PathShapeOK, M!NoRoot, MP!NoRoot

\* A root the page rebuilds, for whatever size and index, that is the root of a
\* log is over an entry of the log.
LEMMA RebuiltIsSound ==
    ASSUME NEW S, NEW l \in Seq(S), NEW e, NEW i \in Int, NEW n \in Nat, NEW p,
           receiptRoot(e, i, n, p) # M!NoRoot,
           receiptRoot(e, i, n, p) = M!merkle_root(l)
    PROVE  \E j \in 1..Len(l) : e = l[j]
  <1>1. n <= MAX_SAFE_INTEGER
    BY ReceiptRootIsBounded
  <1>2. receiptRoot(e, i, n, p) = MP!root_from_inclusion_proof(e, i, n, p)
    BY <1>1, ReceiptRootIs
  <1>3. M!NoRoot = MP!NoRoot
    BY DEF M!NoRoot, MP!NoRoot
  <1>4. MP!root_from_inclusion_proof(e, i, n, p) # MP!NoRoot
        /\ MP!root_from_inclusion_proof(e, i, n, p) = MP!merkle_root(l)
    BY <1>2, <1>3, SameTreeHash
  <1>5. MP!verify_inclusion(e, i, n, p, MP!merkle_root(l))
    BY <1>4 DEF MP!verify_inclusion
  <1> QED BY <1>5, PlacementsAssumption, MP!InclusionProofsAreOfEntries

\* From the path a witness mints the page rebuilds the root the witness signed.
LEMMA RebuiltIsComplete ==
    ASSUME NEW S, NEW l \in Seq(S), Len(l) <= MAX_SAFE_INTEGER, NEW i \in 0..(Len(l) - 1)
    PROVE  /\ receiptRoot(l[i + 1], i, Len(l), M!inclusion_proof(l, i)) = M!merkle_root(l)
           /\ M!merkle_root(l) # M!NoRoot
  <1> DEFINE n == Len(l)
             p == M!inclusion_proof(l, i)
  <1>1. n \in Nat /\ n <= MAX_SAFE_INTEGER /\ n <= MAX_TREE_SIZE
    BY PlacementsAssumption
  <1>2. receiptRoot(l[i + 1], i, n, p) = MP!root_from_inclusion_proof(l[i + 1], i, n, p)
    <2> HIDE DEF p
    <2> QED BY <1>1, ReceiptRootIs
  <1>3. p = MP!inclusion_proof(l, i)
    BY SamePath
  <1>4. MP!verify_inclusion(l[i + 1], i, Len(l), MP!inclusion_proof(l, i), MP!merkle_root(l))
    BY <1>1, PlacementsAssumption, MP!InclusionProofsVerify
  <1>5. M!NoRoot = MP!NoRoot
    BY DEF M!NoRoot, MP!NoRoot
  <1> HIDE DEF p
  <1>6. MP!root_from_inclusion_proof(l[i + 1], i, n, p) = MP!merkle_root(l)
        /\ MP!merkle_root(l) # MP!NoRoot
    BY <1>3, <1>4 DEF MP!verify_inclusion
  <1> QED BY <1>2, <1>5, <1>6, SameTreeHash DEF p

-----------------------------------------------------------------------------
(* The witnesses' logs and the receipts a bundle may carry.                *)

\* A witness's log holds one entry or more, up to the ceiling.
LEMMA LogsTyped ==
    ASSUME NEW entry, logs \in LogsAround(entry), NEW w \in Witnesses
    PROVE  /\ logs[w] \in Seq({entry, Foreign})
           /\ Len(logs[w]) \in Nat /\ 1 <= Len(logs[w]) /\ Len(logs[w]) <= MAX_TREE_SIZE
  <1>1. PICK places \in Placements :
            logs = [v \in Witnesses |-> IF v = "w1" THEN [i \in 1..Len(places) |-> IF places[i] THEN entry ELSE Foreign]
                                                    ELSE <<Foreign>>]
    BY DEF LogsAround
  <1>2. MAX_TREE_SIZE \in Nat \ {0} /\ Len(places) \in 1..MAX_TREE_SIZE
    BY PlacementsAssumption
  <1> DEFINE l == [i \in 1..Len(places) |-> IF places[i] THEN entry ELSE Foreign]
             n == Len(places)
  <1>3. CASE w = "w1"
    <2>1. logs[w] = l
      BY <1>1, <1>3 DEF Witnesses
    <2>2. n \in Nat /\ l \in [1..n -> {entry, Foreign}]
      <3> HIDE DEF Foreign
      <3> QED BY <1>2
    <2> HIDE DEF l
    <2>3. l \in Seq({entry, Foreign}) /\ Len(l) = n
      BY <2>2
    <2> QED BY <1>2, <2>1, <2>3
  <1>4. CASE w # "w1"
    <2>1. logs[w] = <<Foreign>>
      BY <1>1, <1>4 DEF Witnesses
    <2> DEFINE x == Foreign
    <2> HIDE DEF x
    <2>2. <<x>> \in Seq({entry, x}) /\ Len(<<x>>) = 1
      OBVIOUS
    <2> QED BY <1>2, <2>1, <2>2 DEF x
  <1> QED BY <1>3, <1>4

\* The whole of a sequence, cut at its length.
LEMMA WholeLog ==
    ASSUME NEW S, NEW l \in Seq(S)
    PROVE  SubSeq(l, 1, Len(l)) = l
  OBVIOUS

\* An edit claims another size and index or is one of five others.
LEMMA EditKinds ==
    ASSUME NEW e, NEW d \in ReceiptEdits(e)
    PROVE  \/ \E k \in SizesClaimed : \E j \in 0..(k - 1) : d = Claimed(e, k, j)
           \/ d = e \/ d = [e EXCEPT !.receipt.form = FALSE]
           \/ d = [e EXCEPT !.leaf_index = @ + 1]
           \/ d = [e EXCEPT !.receipt.proof[3] = Append(@, M!leaf_hash(Foreign))]
           \/ d = [e EXCEPT !.entry_hash = Foreign]
  <1> DEFINE U == UNION {{Claimed(e, k, j) : j \in 0..(k - 1)} : k \in SizesClaimed}
             e1 == [e EXCEPT !.receipt.form = FALSE]
             e2 == [e EXCEPT !.leaf_index = @ + 1]
             e3 == [e EXCEPT !.receipt.proof[3] = Append(@, M!leaf_hash(Foreign))]
             e4 == [e EXCEPT !.entry_hash = Foreign]
  <1>1. d \in U \cup {e, e1, e2, e3, e4}
    BY DEF ReceiptEdits
  <1> HIDE DEF e1, e2, e3, e4
  <1>2. d \in U => \E k \in SizesClaimed : \E j \in 0..(k - 1) : d = Claimed(e, k, j)
    OBVIOUS
  <1> HIDE DEF U
  <1>3. d \in U \/ d = e \/ d = e1 \/ d = e2 \/ d = e3 \/ d = e4
    BY <1>1
  <1> QED BY <1>2, <1>3 DEF e1, e2, e3, e4

\* An edit leaves the signature alone, and the tree size and the index numbers.
LEMMA EditKeeps ==
    ASSUME NEW u, NEW h, NEW n \in Nat, NEW i \in Nat, NEW p, NEW s, NEW w,
           NEW d \in ReceiptEdits([ts_url |-> u, entry_hash |-> h,
                                   receipt |-> [form |-> TRUE, proof |-> <<n, i, p>>, seal |-> s],
                                   leaf_index |-> i, tree_size |-> n, minter |-> w])
    PROVE  d.receipt.seal = s /\ d.tree_size \in Nat /\ d.leaf_index \in Nat
  <1> DEFINE e == [ts_url |-> u, entry_hash |-> h,
                   receipt |-> [form |-> TRUE, proof |-> <<n, i, p>>, seal |-> s],
                   leaf_index |-> i, tree_size |-> n, minter |-> w]
  <1>1. e.receipt.seal = s /\ e.tree_size = n /\ e.leaf_index = i
    OBVIOUS
  <1>2. CASE d = e
    BY <1>1, <1>2
  <1>3. CASE d = [e EXCEPT !.receipt.form = FALSE]
    BY <1>3
  <1>4. CASE d = [e EXCEPT !.leaf_index = @ + 1]
    BY <1>4
  <1>5. CASE d = [e EXCEPT !.receipt.proof[3] = Append(@, M!leaf_hash(Foreign))]
    BY <1>5
  <1>6. CASE d = [e EXCEPT !.entry_hash = Foreign]
    BY <1>6
  <1>7. CASE \E k \in SizesClaimed : \E j \in 0..(k - 1) : d = Claimed(e, k, j)
    <2>1. PICK k \in SizesClaimed : \E j \in 0..(k - 1) : d = Claimed(e, k, j)
      BY <1>7
    <2>2. PICK j \in 0..(k - 1) : d = Claimed(e, k, j)
      BY <2>1
    <2>3. k \in Nat /\ j \in Nat
      BY PlacementsAssumption DEF SizesClaimed
    <2> DEFINE q == <<k, j, [x \in 1..expectedPath(k, j) |->
                        IF x <= Len(e.receipt.proof[3]) THEN e.receipt.proof[3][x] ELSE M!leaf_hash(Foreign)]>>
    <2> HIDE DEF q
    <2>4. d = [e EXCEPT !.leaf_index = j, !.tree_size = k, !.receipt.proof = q]
      BY <2>2 DEF Claimed, q
    <2> QED BY <2>3, <2>4
  <1>8. d \in ReceiptEdits(e)
    OBVIOUS
  <1> HIDE DEF e
  <1> QED BY <1>2, <1>3, <1>4, <1>5, <1>6, <1>7, <1>8, EditKinds

\* Every receipt of a bundle carries the signature of a witness over the root of
\* its whole log, with any size and index; an unedited one is that witness's
\* receipt for some index.
LEMMA ReceiptIs ==
    ASSUME NEW entry, logs \in LogsAround(entry), NEW f \in Receipts(entry)
    PROVE  \E w \in Witnesses :
              /\ f[1].receipt.seal = <<w, M!merkle_root(logs[w])>>
              /\ f[1].tree_size \in Nat /\ f[1].leaf_index \in Nat
              /\ f[2] = 0 => \E i \in 0..(Len(logs[w]) - 1) :
                    /\ f[1].tree_size = Len(logs[w])
                    /\ f[1].minter = w /\ f[1].entry_hash = entry /\ f[1].leaf_index = i
                    /\ f[1].receipt.form /\ f[1].receipt.proof = <<Len(logs[w]), i, M!inclusion_proof(logs[w], i)>>
  <1> DEFINE honest == Honest(entry)
             edited == UNION {ReceiptEdits(e) : e \in honest}
             urls == Urls
  <1> HIDE DEF urls
  <1>1. \/ f[1] \in honest /\ f[2] = 0
        \/ f[1] \in edited /\ f[2] = 1
    <2>1. f \in honest \X {0} \/ f \in edited \X {1}
      BY DEF Receipts
    <2> HIDE DEF honest, edited
    <2> QED BY <2>1
  <1>2. ASSUME NEW e \in honest
        PROVE  \E w \in Witnesses, url \in urls : \E i \in 0..(Len(logs[w]) - 1) :
                  e = [ts_url |-> url, entry_hash |-> entry,
                       receipt |-> [form |-> TRUE, proof |-> <<Len(logs[w]), i, M!inclusion_proof(logs[w], i)>>,
                                    seal |-> <<w, M!merkle_root(logs[w])>>],
                       leaf_index |-> i, tree_size |-> Len(logs[w]), minter |-> w]
    <2>1. PICK w \in Witnesses :
              e \in UNION {{Carried(w, Len(logs[w]), i, url, entry) : i \in 0..(Len(logs[w]) - 1)} : url \in urls}
      BY DEF Honest, urls
    <2>2. PICK url \in urls :
              e \in {Carried(w, Len(logs[w]), i, url, entry) : i \in 0..(Len(logs[w]) - 1)}
      BY <2>1
    <2>3. PICK i \in 0..(Len(logs[w]) - 1) : e = Carried(w, Len(logs[w]), i, url, entry)
      BY <2>2
    <2>4. SubSeq(logs[w], 1, Len(logs[w])) = logs[w]
      <3> DEFINE l == logs[w]
      <3>1. l \in Seq({entry, Foreign})
        BY LogsTyped
      <3> HIDE DEF l
      <3>2. SubSeq(l, 1, Len(l)) = l
        BY <3>1, WholeLog
      <3> QED BY <3>2 DEF l
    <2>5. Minted(w, Len(logs[w]), i) =
              [form |-> TRUE, proof |-> <<Len(logs[w]), i, M!inclusion_proof(logs[w], i)>>,
               seal |-> <<w, M!merkle_root(logs[w])>>]
      BY <2>4 DEF Minted
    <2>6. e = [ts_url |-> url, entry_hash |-> entry,
                       receipt |-> [form |-> TRUE, proof |-> <<Len(logs[w]), i, M!inclusion_proof(logs[w], i)>>,
                                    seal |-> <<w, M!merkle_root(logs[w])>>],
                       leaf_index |-> i, tree_size |-> Len(logs[w]), minter |-> w]
      BY <2>3, <2>5 DEF Carried
    <2> QED BY <2>6
  <1>3. CASE f[1] \in honest /\ f[2] = 0
    <2> HIDE DEF honest
    <2>1. PICK w \in Witnesses, url \in urls : \E i \in 0..(Len(logs[w]) - 1) :
                  f[1] = [ts_url |-> url, entry_hash |-> entry,
                       receipt |-> [form |-> TRUE, proof |-> <<Len(logs[w]), i, M!inclusion_proof(logs[w], i)>>,
                                    seal |-> <<w, M!merkle_root(logs[w])>>],
                       leaf_index |-> i, tree_size |-> Len(logs[w]), minter |-> w]
      BY <1>2, <1>3
    <2>2. PICK i \in 0..(Len(logs[w]) - 1) :
                  f[1] = [ts_url |-> url, entry_hash |-> entry,
                       receipt |-> [form |-> TRUE, proof |-> <<Len(logs[w]), i, M!inclusion_proof(logs[w], i)>>,
                                    seal |-> <<w, M!merkle_root(logs[w])>>],
                       leaf_index |-> i, tree_size |-> Len(logs[w]), minter |-> w]
      BY <2>1
    <2>3. i \in Nat
      BY LogsTyped
    <2> DEFINE n == Len(logs[w])
               p == M!inclusion_proof(logs[w], i)
               s == <<w, M!merkle_root(logs[w])>>
               e == f[1]
    <2>4. e = [ts_url |-> url, entry_hash |-> entry, receipt |-> [form |-> TRUE, proof |-> <<n, i, p>>, seal |-> s],
               leaf_index |-> i, tree_size |-> n, minter |-> w]
      BY <2>2
    <2> HIDE DEF n, p, s, e
    <2>5. /\ e.receipt.seal = s /\ e.tree_size = n /\ e.leaf_index = i
          /\ e.minter = w /\ e.entry_hash = entry /\ e.receipt.form /\ e.receipt.proof = <<n, i, p>>
      BY <2>4
    <2>6. n \in Nat
      BY LogsTyped DEF n
    <2> QED BY <2>3, <2>5, <2>6 DEF n, p, s, e
  <1>4. CASE f[1] \in edited /\ f[2] = 1
    <2>1. PICK e \in honest : f[1] \in ReceiptEdits(e)
      <3> HIDE DEF honest
      <3> QED BY <1>4
    <2> HIDE DEF honest
    <2>2. PICK w \in Witnesses, url \in urls : \E i \in 0..(Len(logs[w]) - 1) :
                  e = [ts_url |-> url, entry_hash |-> entry,
                       receipt |-> [form |-> TRUE, proof |-> <<Len(logs[w]), i, M!inclusion_proof(logs[w], i)>>,
                                    seal |-> <<w, M!merkle_root(logs[w])>>],
                       leaf_index |-> i, tree_size |-> Len(logs[w]), minter |-> w]
      BY <1>2
    <2>3. PICK i \in 0..(Len(logs[w]) - 1) :
                  e = [ts_url |-> url, entry_hash |-> entry,
                       receipt |-> [form |-> TRUE, proof |-> <<Len(logs[w]), i, M!inclusion_proof(logs[w], i)>>,
                                    seal |-> <<w, M!merkle_root(logs[w])>>],
                       leaf_index |-> i, tree_size |-> Len(logs[w]), minter |-> w]
      BY <2>2
    <2>4. i \in Nat
      BY LogsTyped
    <2> DEFINE n == Len(logs[w])
               p == M!inclusion_proof(logs[w], i)
               s == <<w, M!merkle_root(logs[w])>>
               d == f[1]
    <2>5. d \in ReceiptEdits([ts_url |-> url, entry_hash |-> entry, receipt |-> [form |-> TRUE, proof |-> <<n, i, p>>, seal |-> s],
                              leaf_index |-> i, tree_size |-> n, minter |-> w])
      BY <2>1, <2>3
    <2>8. n \in Nat
      BY LogsTyped
    <2> HIDE DEF n, p, s, d
    <2>6. d.receipt.seal = s /\ d.tree_size \in Nat /\ d.leaf_index \in Nat
      BY <2>4, <2>5, <2>8, EditKeeps
    <2>7. f[2] # 0
      BY <1>4
    <2> QED BY <2>6, <2>7 DEF n, s, d
  <1> HIDE DEF honest, edited
  <1> QED BY <1>1, <1>3, <1>4

\* The witnesses named for a receipt are those whose key the page tries.
LEMMA NamedAreTried ==
    ASSUME NEW e, NEW w \in Witnesses
    PROVE  w \in Named(e) <=> w \in KeysFor(e.ts_url, e)
  BY DEF Named, KeysFor

\* A receipt passes only if a named witness holds the entry.
LEMMA PassMeansHeld ==
    ASSUME NEW entry, logs \in LogsAround(entry), NEW f \in Receipts(entry),
           ReceiptStatus(entry, f[1]) = "pass"
    PROVE  \E w \in Named(f[1]) : Holds(w, entry)
  <1> DEFINE e == f[1]
             i == e.leaf_index
             n == e.tree_size
             p == e.receipt.proof[3]
             rebuilt == receiptRoot(entry, i, n, p)
  <1>1. PICK key \in KeysFor(e.ts_url, e) :
            verifyReceipt(entry, e.receipt, e.leaf_index, e.tree_size, key)
    BY DEF ReceiptStatus
  <1>2. PICK w \in Witnesses :
            e.receipt.seal = <<w, M!merkle_root(logs[w])>> /\ n \in Nat /\ i \in Nat
    BY ReceiptIs
  <1> DEFINE l == logs[w]
  <1>3. rebuilt # M!NoRoot /\ e.receipt.seal = <<key, rebuilt>>
    BY <1>1 DEF verifyReceipt
  <1>4. key = w /\ rebuilt = M!merkle_root(l)
    <2> DEFINE r == rebuilt
               t == M!merkle_root(l)
               s == e.receipt.seal
    <2>1. s = <<w, t>> /\ s = <<key, r>>
      BY <1>2, <1>3
    <2> HIDE DEF r, t, s
    <2>2. key = w /\ r = t
      BY <2>1
    <2> QED BY <2>2 DEF r, t
  <1>5. l \in Seq({entry, Foreign})
    BY LogsTyped
  <1>6. \E j \in 1..Len(l) : entry = l[j]
    <2>1. i \in Int /\ n \in Nat
      BY <1>2
    <2> HIDE DEF l, i, n, p, e
    <2> QED BY <2>1, <1>3, <1>4, <1>5, RebuiltIsSound
  <1>7. w \in Named(e)
    BY <1>4, NamedAreTried
  <1>8. Holds(w, entry)
    BY <1>6 DEF Holds
  <1> QED BY <1>7, <1>8

\* A named witness's own receipt, unedited, does not fail.
LEMMA OwnDoesNotFail ==
    ASSUME NEW entry, logs \in LogsAround(entry), NEW f \in Receipts(entry),
           IsOwn(entry, f)
    PROVE  ReceiptStatus(entry, f[1]) # "fail"
  <1> DEFINE e == f[1]
  <1>1. PICK w \in Witnesses :
              /\ f[1].receipt.seal = <<w, M!merkle_root(logs[w])>>
              /\ f[1].tree_size \in Nat /\ f[1].leaf_index \in Nat
              /\ f[2] = 0 => \E i \in 0..(Len(logs[w]) - 1) :
                    /\ f[1].tree_size = Len(logs[w])
                    /\ f[1].minter = w /\ f[1].entry_hash = entry /\ f[1].leaf_index = i
                    /\ f[1].receipt.form /\ f[1].receipt.proof = <<Len(logs[w]), i, M!inclusion_proof(logs[w], i)>>
    BY ReceiptIs
  <1>2. PICK i \in 0..(Len(logs[w]) - 1) :
                    /\ e.tree_size = Len(logs[w])
                    /\ e.minter = w /\ e.entry_hash = entry /\ e.leaf_index = i
                    /\ e.receipt.form /\ e.receipt.proof = <<Len(logs[w]), i, M!inclusion_proof(logs[w], i)>>
    BY <1>1 DEF IsOwn
  <1> DEFINE l == logs[w]
             n == Len(l)
             path == M!inclusion_proof(l, i)
  <1>3. l \in Seq({entry, Foreign}) /\ Len(l) <= MAX_SAFE_INTEGER
    BY <1>2, LogsTyped DEF IsOwn
  <1>4. l[i + 1] = entry /\ w \in Named(e)
    BY <1>2 DEF IsOwn
  <1>5. receiptRoot(entry, i, n, path) = M!merkle_root(l) /\ M!merkle_root(l) # M!NoRoot
    <2>1. /\ receiptRoot(l[i + 1], i, Len(l), M!inclusion_proof(l, i)) = M!merkle_root(l)
          /\ M!merkle_root(l) # M!NoRoot
      <3> HIDE DEF l
      <3> QED BY <1>2, <1>3, RebuiltIsComplete DEF l
    <2> QED BY <2>1, <1>4
  <1>6. e.receipt.proof[1] = n /\ e.receipt.proof[2] = i /\ e.receipt.proof[3] = path
    <2> DEFINE q == e.receipt.proof
    <2>1. q = <<n, i, path>>
      BY <1>2
    <2> HIDE DEF n, path, q
    <2> QED BY <2>1 DEF q
  <1>7. verifyReceipt(entry, e.receipt, e.leaf_index, e.tree_size, w)
    <2> HIDE DEF path
    <2> QED BY <1>1, <1>2, <1>5, <1>6 DEF verifyReceipt
  <1>8. w \in KeysFor(e.ts_url, e)
    BY <1>4, NamedAreTried
  <1>9. EntryMatches(entry, e)
    BY <1>2 DEF EntryMatches
  <1> QED BY <1>7, <1>8, <1>9 DEF ReceiptStatus

\* From every receipt the page rebuilds what merkle.py does, or none at a size
\* that is not a safe integer.
LEMMA RootsAgree ==
    ASSUME NEW entry, logs \in LogsAround(entry), NEW f \in Receipts(entry)
    PROVE  SameRoot(entry, f[1])
  <1> DEFINE n == f[1].tree_size
             i == f[1].leaf_index
             p == f[1].receipt.proof[3]
  <1>1. n \in Nat
    BY ReceiptIs
  <1> HIDE DEF n, i, p
  <1>2. n <= MAX_SAFE_INTEGER =>
            receiptRoot(entry, i, n, p) = MP!root_from_inclusion_proof(entry, i, n, p)
    BY <1>1, ReceiptRootIs
  <1>3. M!root_from_inclusion_proof(entry, i, n, p) = MP!root_from_inclusion_proof(entry, i, n, p)
    BY SameRebuilt
  <1>4. ~(n <= MAX_SAFE_INTEGER) => receiptRoot(entry, i, n, p) = M!NoRoot
    BY ReceiptRootIsBounded
  <1> QED BY <1>2, <1>3, <1>4 DEF SameRoot, n, i, p

-----------------------------------------------------------------------------
(* The check as a whole.                                                   *)

\* The result while the check goes on after the checkpoint has passed.
Reading(links) == [Result("absent") EXCEPT !.checkpoint = "pass", !.chain = links]

\* The result at each stretch of the check: nothing is reported failed before
\* the check settles, and no receipt is read before the last stretch.
ResultSoFar ==
    /\ pc = "start" => out = Result("absent")
    /\ pc \in {"evidence", "earlier", "leaf", "cadence"} => out = Reading("none")
    /\ pc = "receipts" => out \in {Reading("none"), Reading("pass")}
    /\ pc \in {"start", "evidence", "earlier", "leaf", "cadence"} => receipts = {}

\* The witnesses' logs are logs around the entry whose receipts are read.
LogsAroundTarget == pc = "receipts" => logs \in LogsAround(checkpointEntryHash(target))

StatusesKnown == \A r \in receipts : r.status \in {"pass", "fail", "withheld"}

\* The inductive invariant.
Inv == ResultSoFar /\ LogsAroundTarget /\ StatusesKnown /\ ReceiptsPassWhenHeld /\ FailureIsNamed

\* A turn of the receipts' loop keeps what is recorded of the receipts true.
LEMMA ReceiptStep ==
    ASSUME Inv, CheckReceipt
    PROVE  ReceiptsPassWhenHeld' /\ StatusesKnown'
  <1> DEFINE entry == checkpointEntryHash(target)
  <1>1. logs \in LogsAround(entry)
    BY DEF Inv, LogsAroundTarget, CheckReceipt
  <1>2. PICK f \in Receipts(entry) :
            receipts' = receipts \cup
                {[status |-> ReceiptStatus(entry, f[1]),
                  held   |-> \E w \in Named(f[1]) : Holds(w, entry),
                  own    |-> IsOwn(entry, f),
                  port   |-> SameRoot(entry, f[1])]}
    BY DEF CheckReceipt
  <1> DEFINE status == ReceiptStatus(entry, f[1])
             heldThere == \E w \in Named(f[1]) : Holds(w, entry)
             own == IsOwn(entry, f)
             port == SameRoot(entry, f[1])
             new == [status |-> status, held |-> heldThere, own |-> own, port |-> port]
  <1>3. status \in {"pass", "fail", "withheld"}
    BY DEF ReceiptStatus
  <1>4. status = "pass" => heldThere
    BY <1>1, PassMeansHeld
  <1>5. own => status # "fail"
    BY <1>1, OwnDoesNotFail
  <1>6. port
    BY <1>1, RootsAgree
  <1>7. receipts' = receipts \cup {new}
    BY <1>2
  <1> HIDE DEF status, heldThere, own, port
  <1>8. new.status = status /\ new.held = heldThere /\ new.own = own /\ new.port = port
    OBVIOUS
  <1> HIDE DEF new
  <1>9. StatusesKnown'
    BY <1>3, <1>7, <1>8 DEF Inv, StatusesKnown
  <1>10. ReceiptsPassWhenHeld'
    BY <1>4, <1>5, <1>6, <1>7, <1>8 DEF Inv, ReceiptsPassWhenHeld
  <1> QED BY <1>9, <1>10

\* With known statuses the overall one is "fail" exactly if one of them is.
LEMMA OverallFails ==
    ASSUME NEW S
    PROVE  /\ overall(S) = "fail" <=> "fail" \in S
           /\ overall(S) \in {"pass", "fail", "withheld"}
  BY DEF overall

\* Settling on a failed checkpoint or chain names the failure, and so does the
\* result of the receipts.
LEMMA ConcludeStep ==
    ASSUME Inv, Conclude
    PROVE  FailureIsNamed'
  <1> DEFINE status == IF receipts = {} THEN "withheld" ELSE overall(Statuses)
             part == chain # << >> /\ chain.extent = "part"
             rung == IF status # "pass" THEN NoRung ELSE IF part THEN "witnessed_in_part" ELSE "witnessed"
             covered == IF status = "pass" /\ part THEN StepsIn(leafCp.size) ELSE 0
             steps == IF status = "pass" /\ part THEN StepsIn(cp.size) ELSE 0
  <1>1. /\ pc = "receipts"
        /\ out' = [out EXCEPT !.status = status, !.rung = rung, !.stepsWitnessed = covered, !.steps = steps]
        /\ receipts' = receipts
    BY DEF Conclude, Settle
  <1>2. status = "fail" <=> "fail" \in Statuses
    BY OverallFails DEF Statuses
  <1>3. rung \in {"none", "witnessed_in_part", "witnessed"}
    BY DEF NoRung
  <1> HIDE DEF status, rung, covered, steps
  <1>4. PICK links \in {"none", "pass"} :
            out = [checkpoint |-> "pass", status |-> "absent", rung |-> "none", chain |-> links,
                   stepsWitnessed |-> 0, steps |-> 0]
    BY <1>1 DEF Inv, ResultSoFar, Reading, Result, NoRung
  <1>5. out'.status = status /\ out'.rung = rung /\ out'.chain = links /\ out'.checkpoint = "pass"
    BY <1>1, <1>4
  <1>6. Statuses' = Statuses
    BY <1>1 DEF Statuses
  <1>7. describeWitness' = "failed" <=> status = "fail"
    BY <1>3, <1>5 DEF describeWitness, NoRung
  <1> QED BY <1>2, <1>5, <1>6, <1>7 DEF FailureIsNamed

(* The browser's check of the witness evidence keeps its record of receipts
   true and its verdict explained, for every reader's list, every checkpoint and
   every log of the witnesses up to the ceiling. *)
THEOREM EvidenceCorrect == Spec => []Inv
  <1>1. Init => Inv
    BY DEF Init, Inv, ResultSoFar, LogsAroundTarget, StatusesKnown, ReceiptsPassWhenHeld, FailureIsNamed, Done
  <1>2. Inv /\ [Next]_vars => Inv'
    <2> SUFFICES ASSUME Inv, [Next]_vars PROVE Inv'
      OBVIOUS
    <2>1. CASE NoCheckpoint
      <3>1. pc = "start" /\ out = Result("absent") /\ receipts = {} /\ receipts' = {} /\ pc' = "done"
        BY <2>1 DEF NoCheckpoint, Settle, Inv, ResultSoFar
      <3>2. out' = out \/ out' = [Result("fail") EXCEPT !.checkpoint = "fail"]
        BY <2>1 DEF NoCheckpoint, Settle
      <3>3. FailureIsNamed'
        BY <3>1, <3>2 DEF FailureIsNamed, describeWitness, Statuses, Result, NoRung
      <3> QED BY <3>1, <3>3 DEF Inv, ResultSoFar, LogsAroundTarget, StatusesKnown, ReceiptsPassWhenHeld
    <2>2. CASE CheckCheckpoint
      <3>1. /\ out = Result("absent") /\ receipts = {} /\ receipts' = {}
            /\ \/ pc' = "evidence" /\ out' = [out EXCEPT !.checkpoint = "pass"]
               \/ pc' = "done" /\ out' = [Result("fail") EXCEPT !.checkpoint = "fail"]
        BY <2>2 DEF CheckCheckpoint, Settle, Inv, ResultSoFar
      <3>2. ResultSoFar'
        BY <3>1 DEF ResultSoFar, Reading, Result
      <3>3. FailureIsNamed'
        BY <3>1 DEF FailureIsNamed, Done, describeWitness, Statuses, Result, NoRung
      <3> QED BY <3>1, <3>2, <3>3 DEF Inv, LogsAroundTarget, StatusesKnown, ReceiptsPassWhenHeld
    <2>3. CASE TakeChain
      BY <2>3 DEF TakeChain, Inv, ResultSoFar, LogsAroundTarget, StatusesKnown, ReceiptsPassWhenHeld,
                  FailureIsNamed, Done
    <2>4. CASE TakeDirect
      <3>1. out = Reading("none") /\ out' = out /\ receipts = {} /\ receipts' = {}
        BY <2>4 DEF TakeDirect, Settle, Reject, Inv, ResultSoFar
      <3>2. pc' \in {"done", "receipts", "rejected"} /\ LogsAroundTarget'
        BY <2>4 DEF TakeDirect, Settle, Reject, LogsAroundTarget
      <3>3. FailureIsNamed'
        BY <3>1 DEF FailureIsNamed, describeWitness, Statuses, Reading, Result, NoRung
      <3> QED BY <3>1, <3>2, <3>3 DEF Inv, ResultSoFar, StatusesKnown, ReceiptsPassWhenHeld
    <2>5. CASE CheckEarlier
      <3>1. /\ out = Reading("none") /\ receipts = {} /\ receipts' = {}
            /\ \/ pc' = "leaf" /\ out' = out
               \/ pc' = "done" /\ out' = [out EXCEPT !.chain = "fail", !.status = "fail"]
        BY <2>5 DEF CheckEarlier, FailChain, Settle, Inv, ResultSoFar
      <3>2. FailureIsNamed'
        BY <3>1 DEF FailureIsNamed, Done, describeWitness, Statuses, Reading, Result, NoRung
      <3> QED BY <3>1, <3>2 DEF Inv, ResultSoFar, LogsAroundTarget, StatusesKnown, ReceiptsPassWhenHeld
    <2>6. CASE ClimbChain
      <3>1. /\ out = Reading("none") /\ receipts = {} /\ receipts' = {}
            /\ \/ pc' \in {"cadence", "rejected"} /\ out' = out
               \/ pc' = "done" /\ out' = [out EXCEPT !.chain = "fail", !.status = "fail"]
        BY <2>6 DEF ClimbChain, FailChain, Reject, Settle, Inv, ResultSoFar
      <3>2. FailureIsNamed'
        BY <3>1 DEF FailureIsNamed, Done, describeWitness, Statuses, Reading, Result, NoRung
      <3> QED BY <3>1, <3>2 DEF Inv, ResultSoFar, LogsAroundTarget, StatusesKnown, ReceiptsPassWhenHeld
    <2>7. CASE CheckCadence
      <3>1. /\ out = Reading("none") /\ receipts = {} /\ receipts' = {}
            /\ \/ /\ pc' = "receipts" /\ out' = [out EXCEPT !.chain = "pass"]
                  /\ logs' \in LogsAround(checkpointEntryHash(target'))
               \/ pc' = "rejected" /\ out' = out
               \/ pc' = "done" /\ out' = [out EXCEPT !.chain = "fail", !.status = "fail"]
        BY <2>7 DEF CheckCadence, FailChain, Reject, Settle, Inv, ResultSoFar
      <3>2. FailureIsNamed'
        BY <3>1 DEF FailureIsNamed, Done, describeWitness, Statuses, Reading, Result, NoRung
      <3>3. ResultSoFar'
        BY <3>1 DEF ResultSoFar, Reading, Result
      <3>4. LogsAroundTarget'
        BY <3>1 DEF LogsAroundTarget
      <3> QED BY <3>1, <3>2, <3>3, <3>4 DEF Inv, StatusesKnown, ReceiptsPassWhenHeld
    <2>8. CASE CheckReceipt
      <3>1. pc = "receipts" /\ pc' = pc /\ out' = out /\ target' = target /\ logs' = logs
        BY <2>8 DEF CheckReceipt
      <3>2. ReceiptsPassWhenHeld' /\ StatusesKnown'
        BY <2>8, ReceiptStep
      <3> QED BY <3>1, <3>2 DEF Inv, ResultSoFar, LogsAroundTarget, FailureIsNamed, Done
    <2>9. CASE Conclude
      <3>1. pc' = "done" /\ receipts' = receipts
        BY <2>9 DEF Conclude, Settle
      <3>2. FailureIsNamed'
        BY <2>9, ConcludeStep
      <3> QED BY <3>1, <3>2 DEF Inv, ResultSoFar, LogsAroundTarget, StatusesKnown, ReceiptsPassWhenHeld
    <2>10. CASE UNCHANGED vars
      BY <2>10 DEF vars, Inv, ResultSoFar, LogsAroundTarget, StatusesKnown, ReceiptsPassWhenHeld,
                   FailureIsNamed, Done, describeWitness, Statuses
    <2> QED BY <2>1, <2>2, <2>3, <2>4, <2>5, <2>6, <2>7, <2>8, <2>9, <2>10 DEF Next
  <1> QED BY <1>1, <1>2, PTL DEF Spec

(* checkReceipts passes a receipt only if a witness that the reader's list
   names holds the entry, never fails a named witness's own receipt of a size
   that is a safe integer, and up to that size rebuilds from every receipt the
   root that merkle.py does, beyond it none. *)
THEOREM ReceiptsMatchTheLogs == Spec => []ReceiptsPassWhenHeld
  <1>1. Inv => ReceiptsPassWhenHeld
    BY DEF Inv
  <1> QED BY <1>1, EvidenceCorrect, PTL

(* describeWitness says FAILED exactly when the checkpoint, the chain or a
   receipt is shown as failed. *)
THEOREM FailuresAreNamed == Spec => []FailureIsNamed
  <1>1. Inv => FailureIsNamed
    BY DEF Inv
  <1> QED BY <1>1, EvidenceCorrect, PTL

-----------------------------------------------------------------------------
(* What the page says of a witnessed bundle.                               *)

\* The proofs an honest log mints have lists of peaks.
LEMMA MintedPeaks ==
    ASSUME NEW h, Len(h) \in Nat, NEW i \in 0..(Len(h) - 1)
    PROVE  \E D : /\ inclusion_proof(h, i).peaks_left \in Seq(D)
                  /\ inclusion_proof(h, i).peaks_right \in Seq(D)
  <1> DEFINE n == Len(h)
             ms == Mountains(n)
             at == MountainOver(ms, i)
             ps == PeaksOf(h)
             D == {ps[j] : j \in 1..Len(ms)}
             p == inclusion_proof(h, i)
  <1>1. Ridge(ms, n) /\ Len(ms) \in Nat
    BY MountainsAre, FootIs
  <1>2. at \in 1..Len(ms)
    <2>1. PICK j \in 1..Len(ms) : ms[j][3] <= i /\ i < EndOf(ms[j])
      BY <1>1, RidgeCovers
    <2>2. \E j1 \in 1..Len(ms) : Covers(ms[j1], i)
      BY <2>1 DEF Covers, EndOf
    <2> HIDE DEF ms
    <2> QED BY <2>2 DEF MountainOver
  <1>3. p.peaks_left = SubSeq(ps, 1, at - 1) /\ p.peaks_right = SubSeq(ps, at + 1, Len(ms))
    BY DEF inclusion_proof
  <1> HIDE DEF p, at, ms, ps
  <1>4. \A j \in 1..Len(ms) : ps[j] \in D
    OBVIOUS
  <1> HIDE DEF D
  <1>5. SubSeq(ps, 1, at - 1) \in Seq(D)
    <2>1. \A j \in 1..(at - 1) : ps[j] \in D
      BY <1>1, <1>2, <1>4
    <2> QED BY <1>1, <1>2, <2>1, SubSeqProperties
  <1>6. SubSeq(ps, at + 1, Len(ms)) \in Seq(D)
    <2>1. \A j \in (at + 1)..Len(ms) : ps[j] \in D
      BY <1>1, <1>2, <1>4
    <2> QED BY <1>1, <1>2, <2>1, SubSeqProperties
  <1> QED BY <1>3, <1>5, <1>6 DEF p

\* What is known of a checkpoint that verifies: it is over the history the
\* model records for it, and signed by the key it names.
Verified(c) ==
    /\ Len(c.history) \in Nat
    /\ c.size = SizeOf(Len(c.history)) /\ c.size >= 1 /\ c.size < MAX_MMR_SIZE
    /\ root(c) = RootOf(c.history)
    /\ c.seal = c.kid

\* What a deviation leaves of a checkpoint.
LEMMA FlawKeeps ==
    ASSUME NEW logId, NEW h, NEW prev, NEW key, NEW f \in Flawed(Signed(logId, h, prev, key))
    PROVE  /\ f[1].history = h /\ f[1].size = SizeOf(Len(h)) /\ f[1].kid = key /\ f[1].logId = logId
           /\ f[1].peaks = PeaksOf(h) \/ f[1].peaks = Append(PeaksOf(h), leaf_hash(1))
  <1> DEFINE c == Signed(logId, h, prev, key)
             size_ == SizeOf(Len(h))
             ps == PeaksOf(h)
             more == Append(ps, leaf_hash(1))
             was == SizeOf(prev)
             wasPeaks == PeaksOf(SubSeq(h, 1, prev))
             proof == IF prev = 0 THEN << >> ELSE <<consistency_proof(h, prev)>>
             Kept(x) == x.history = h /\ x.size = size_ /\ x.kid = key /\ x.logId = logId
  <1>1. c = [form |-> TRUE, logId |-> logId, kid |-> key, seal |-> key, history |-> h,
             size |-> size_, subject |-> <<logId, size_>>, peaks |-> ps,
             prevSize |-> was, prevPeaks |-> wasPeaks, proof |-> proof, issuedAt |-> "time"]
    BY DEF Signed
  <1> HIDE DEF c, size_, ps, more, was, wasPeaks, proof
  <1>2. Kept(c) /\ c.peaks = ps
    BY <1>1
  <1>3. ASSUME NEW d \in Defects
        PROVE  Kept(Defect(c, d)) /\ (Defect(c, d).peaks = ps \/ Defect(c, d).peaks = more)
    <2>1. CASE d = "form"
      BY <1>1, <2>1 DEF Defect
    <2>2. CASE d = "subject"
      BY <1>1, <2>2 DEF Defect
    <2>3. CASE d = "peaks"
      <3>1. Defect(c, d) = [c EXCEPT !.peaks = Append(c.peaks, leaf_hash(1))]
        BY <2>3 DEF Defect
      <3>2. Append(c.peaks, leaf_hash(1)) = more
        BY <1>2 DEF more
      <3> QED BY <1>1, <3>1, <3>2
    <2>4. CASE d = "prev"
      BY <1>1, <2>4 DEF Defect
    <2>5. CASE d = "proof"
      BY <1>1, <2>5 DEF Defect
    <2>6. CASE d = "seal"
      BY <1>1, <2>6 DEF Defect
    <2>7. CASE d = "issuedAt"
      BY <1>1, <2>7 DEF Defect
    <2> QED BY <2>1, <2>2, <2>3, <2>4, <2>5, <2>6, <2>7 DEF Defects
  <1>4. f[1] = c \/ \E d \in Defects : f[1] = Defect(c, d)
    BY DEF Flawed, c
  <1>5. Kept(f[1]) /\ (f[1].peaks = ps \/ f[1].peaks = more)
    BY <1>2, <1>3, <1>4
  <1> QED BY <1>5 DEF size_, ps, more

\* A checkpoint that verifies is an honest one, or deviates in a part that
\* says nothing of its history.
LEMMA VerifiedIs ==
    ASSUME NEW logId, NEW h, Len(h) \in Nat, NEW prev, NEW key,
           NEW f \in Flawed(Signed(logId, h, prev, key)), verifyCheckpoint(f[1])
    PROVE  Verified(f[1])
  <1> DEFINE c == f[1]
             n == Len(h)
  <1>1. /\ c.history = h /\ c.size = SizeOf(n)
        /\ c.peaks = PeaksOf(h) \/ c.peaks = Append(PeaksOf(h), leaf_hash(1))
    BY FlawKeeps
  <1>2. /\ c.size >= 1 /\ peaks(c.size) # NoPeaks /\ Len(c.peaks) = Len(peaks(c.size)) /\ c.seal = c.kid
    BY DEF verifyCheckpoint
  <1>3. c.size < MAX_MMR_SIZE
    <2>1. SizeOf(n) \in Nat
      BY MountainsAre, CountTyped
    <2> HIDE DEF c, n
    <2>2. ~(c.size >= MAX_MMR_SIZE)
      BY <1>1, <1>2, <2>1, PeaksAbove
    <2> QED BY <1>1, <2>1, <2>2, MaxMmrSizeAssumption
  <1>4. c.peaks = PeaksOf(h)
    <2>1. Len(peaks(c.size)) = Len(Mountains(n)) /\ Len(Mountains(n)) \in Nat
      BY <1>1, <1>3, PeaksAre
    <2>2. Len(PeaksOf(h)) = Len(Mountains(n))
      BY PeaksOfAre
    <2>3. Len(Append(PeaksOf(h), leaf_hash(1))) = Len(Mountains(n)) + 1
      <3>1. PeaksOf(h) = [i \in 1..Len(Mountains(n)) |-> NodeOf(h, Mountains(n)[i])]
        BY DEF PeaksOf
      <3>2. PeaksOf(h) \in Seq({NodeOf(h, Mountains(n)[i]) : i \in 1..Len(Mountains(n))})
        BY <2>1, <3>1
      <3> QED BY <2>2, <3>2
    <2> HIDE DEF n, c
    <2> QED BY <1>1, <1>2, <2>1, <2>3
  <1> QED BY <1>1, <1>2, <1>3, <1>4 DEF Verified, root, RootOf

\* The places in a cadence entry's tree.
Slots == 0..(TwoTo[CADENCE_DEPTH] - 1)

\* What is known of the chain's leaf: it is the bundle's checkpoint or an
\* earlier one of the same log.
LeafKnown ==
    /\ Verified(leafCp) /\ leafCp.kid = cp.kid
    /\ IsPrefix(leafCp.history, cp.history)
    /\ chain.extent = "full" => leafCp = cp
    /\ chain.extent = "part" => leafCp.size < cp.size

NodeKnown == \E index \in Slots : chain.node = CadenceEntry(leafCp, index)

\* What is known of the cadence checkpoint: its log has an entry over the leaf.
TargetKnown ==
    /\ target.seal = cp.kid
    /\ \E i \in 1..Len(target.history), index \in Slots : target.history[i] = CadenceEntry(leafCp, index)

\* What the check has established when it goes on.
ChainSoFar ==
    /\ pc \in {"start", "evidence"} => chain = << >>
    /\ pc \in {"evidence", "earlier", "leaf", "cadence", "receipts"} => Verified(cp)
    /\ pc \in {"earlier", "leaf", "cadence"} => chain # << >>
    /\ pc = "earlier" => chain.extent = "part"
    /\ pc \in {"leaf", "cadence"} => LeafKnown
    /\ pc = "cadence" => NodeKnown
    /\ pc = "receipts" /\ chain = << >> => target = cp
    /\ pc = "receipts" /\ chain # << >> => LeafKnown /\ TargetKnown

\* A history begins with itself.
LEMMA OwnPrefix == ASSUME NEW h, Len(h) \in Nat PROVE IsPrefix(h, h)
  BY DEF IsPrefix

\* Histories that agree up to the end of one.
LEMMA PrefixIs ==
    ASSUME NEW a, NEW b, Len(a) \in Nat, Len(b) \in Nat, Len(a) <= Len(b), \A i \in 1..Len(a) : a[i] = b[i]
    PROVE  IsPrefix(a, b)
  BY DEF IsPrefix

\* A chain is not no chain.
LEMMA ChainTells ==
    ASSUME NEW x, NEW y
    PROVE  [extent |-> x] # << >> /\ [extent |-> x, node |-> y] # << >>
  <1>1. "extent" \in DOMAIN [extent |-> x] /\ "extent" \in DOMAIN [extent |-> x, node |-> y]
    OBVIOUS
  <1>2. DOMAIN << >> = {}
    OBVIOUS
  <1> QED BY <1>1, <1>2

\* The checkpoints that are tried have histories.
LEMMA TriedIs ==
    ASSUME NEW logId, NEW c \in Checkpoints(logId), NEW f \in Flawed(c), verifyCheckpoint(f[1])
    PROVE  Verified(f[1])
  <1>1. PICK h \in Histories, prev \in {0, 1}, key \in Keys : c = Signed(logId, h, prev, key)
    BY DEF Checkpoints
  <1>2. Len(h) \in Nat
    BY HistoriesAssumption
  <1> QED BY <1>1, <1>2, VerifiedIs

\* A checkpoint whose extension to the bundle's is shown is a beginning of it.
LEMMA EarlierIsPrefix ==
    ASSUME NEW prior, Verified(prior), NEW c, Verified(c), NEW proof,
           verify_consistency(root(prior), prior.size, root(c), c.size, proof)
    PROVE  IsPrefix(prior.history, c.history)
  <1> DEFINE a == prior.history
             b == c.history
  <1>1. /\ Len(a) \in Nat /\ Len(b) \in Nat
        /\ root(prior) = RootOf(a) /\ prior.size = SizeOf(Len(a))
        /\ root(c) = RootOf(b) /\ c.size = SizeOf(Len(b))
    BY DEF Verified
  <1>2. verify_consistency(RootOf(a), SizeOf(Len(a)), RootOf(b), SizeOf(Len(b)), proof)
    BY <1>1
  <1> HIDE DEF a, b
  <1>3. Len(a) <= Len(b) /\ \A i \in 1..Len(a) : a[i] = b[i]
    BY <1>1, <1>2, MmrConsistencyProofsAreSound
  <1>4. IsPrefix(a, b)
    BY <1>1, <1>3, PrefixIs
  <1> QED BY <1>4 DEF a, b

\* The steps before the receipts are read.
LEMMA ChainStep == ChainSoFar /\ [Next]_vars => ChainSoFar'
  <1> SUFFICES ASSUME ChainSoFar, [Next]_vars PROVE ChainSoFar'
    OBVIOUS
  <1>1. CASE NoCheckpoint
    <2>1. pc' = "done"
      BY <1>1 DEF NoCheckpoint, Settle
    <2> QED BY <2>1 DEF ChainSoFar
  <1>2. CASE CheckCheckpoint
    <2>0. PICK c \in {x \in Checkpoints("log") : x.kid = "log-key"} :
              \E f \in Flawed(c) : /\ cp' = f[1]
                                   /\ \/ verifyCheckpoint(f[1]) /\ pc' = "evidence"
                                      \/ pc' = "done"
      BY <1>2 DEF CheckCheckpoint, Settle
    <2>1. PICK f \in Flawed(c) : /\ cp' = f[1]
                                /\ \/ verifyCheckpoint(f[1]) /\ pc' = "evidence"
                                   \/ pc' = "done"
      BY <2>0
    <2>2. pc = "start" /\ chain' = chain
      BY <1>2 DEF CheckCheckpoint
    <2>3. pc' = "evidence" => Verified(cp')
      BY <2>1, TriedIs
    <2>4. chain' = << >>
      BY <2>2 DEF ChainSoFar
    <2>5. pc' = "evidence" => Verified(cp)'
      BY <2>3 DEF Verified, root
    <2>6. pc' \in {"evidence", "done"}
      BY <2>1
    <2> HIDE DEF Verified
    <2> QED BY <2>4, <2>5, <2>6 DEF ChainSoFar
  <1>3. CASE TakeChain
    <2>1. PICK extent \in {"part", "full"} : chain' = [extent |-> extent]
      BY <1>3 DEF TakeChain
    <2>2. /\ pc = "evidence" /\ leafCp' = cp /\ cp' = cp
          /\ pc' = IF chain'.extent = "part" THEN "earlier" ELSE "leaf"
      BY <1>3 DEF TakeChain
    <2>3. chain' # << >> /\ chain'.extent = extent
      BY <2>1, ChainTells
    <2>4. Verified(cp)
      BY <2>2 DEF ChainSoFar
    <2>5. pc' = "leaf" => LeafKnown'
      <3>1. IsPrefix(cp.history, cp.history)
        BY <2>4, OwnPrefix DEF Verified
      <3>2. pc' = "leaf" => chain'.extent = "full"
        BY <2>1, <2>2, <2>3
      <3> QED BY <2>2, <2>4, <3>1, <3>2 DEF LeafKnown, Verified, root
    <2>6. pc' \in {"earlier", "leaf"} /\ (pc' = "earlier" => chain'.extent = "part")
      BY <2>2
    <2> QED BY <2>2, <2>3, <2>4, <2>5, <2>6 DEF ChainSoFar
  <1>4. CASE TakeDirect
    <2>1. pc = "evidence" /\ chain' = chain /\ cp' = cp
          /\ (pc' \in {"done", "rejected"} \/ (pc' = "receipts" /\ target' = cp))
      BY <1>4 DEF TakeDirect, Settle, Reject
    <2>2. chain = << >> /\ Verified(cp)
      BY <2>1 DEF ChainSoFar
    <2> QED BY <2>1, <2>2 DEF ChainSoFar
  <1>5. CASE CheckEarlier
    <2>a. PICK logId \in {"log", "other-log"} : \E c \in Checkpoints(logId) : \E f \in Flawed(c) :
              \/ /\ verifyCheckpoint(f[1]) /\ EarlierOfThisLog(f[1])
                 /\ verify_consistency(root(f[1]), f[1].size, root(cp), cp.size, EarlierProof(f[1]))
                 /\ leafCp' = f[1] /\ pc' = "leaf"
              \/ pc' = "done"
      BY <1>5, Zenon DEF CheckEarlier, FailChain, Settle
    <2>b. PICK c \in Checkpoints(logId) : \E f \in Flawed(c) :
              \/ /\ verifyCheckpoint(f[1]) /\ EarlierOfThisLog(f[1])
                 /\ verify_consistency(root(f[1]), f[1].size, root(cp), cp.size, EarlierProof(f[1]))
                 /\ leafCp' = f[1] /\ pc' = "leaf"
              \/ pc' = "done"
      BY <2>a
    <2>1. PICK f \in Flawed(c) :
              \/ /\ verifyCheckpoint(f[1]) /\ EarlierOfThisLog(f[1])
                 /\ verify_consistency(root(f[1]), f[1].size, root(cp), cp.size, EarlierProof(f[1]))
                 /\ leafCp' = f[1] /\ pc' = "leaf"
              \/ pc' = "done"
      BY <2>b
    <2>2. pc = "earlier" /\ chain' = chain /\ cp' = cp
      BY <1>5 DEF CheckEarlier
    <2>3. Verified(cp) /\ chain # << >> /\ chain.extent = "part"
      BY <2>2 DEF ChainSoFar
    <2>4. CASE pc' = "done"
      BY <2>4 DEF ChainSoFar
    <2>5. CASE pc' # "done"
      <3>1. verifyCheckpoint(f[1]) /\ leafCp' = f[1] /\ pc' = "leaf"
            /\ f[1].kid = cp.kid /\ f[1].size < cp.size
            /\ verify_consistency(root(f[1]), f[1].size, root(cp), cp.size, EarlierProof(f[1]))
        BY <2>1, <2>5 DEF EarlierOfThisLog
      <3>2. Verified(f[1])
        BY <3>1, TriedIs
      <3>3. IsPrefix(f[1].history, cp.history)
        BY <2>3, <3>1, <3>2, EarlierIsPrefix
      <3>4. LeafKnown'
        BY <2>2, <2>3, <3>1, <3>2, <3>3 DEF LeafKnown, Verified, root
      <3> QED BY <2>2, <2>3, <3>1, <3>4 DEF ChainSoFar
    <2> QED BY <2>4, <2>5
  <1>6. CASE ClimbChain
    <2>1. PICK index \in 0..TwoTo[CADENCE_DEPTH] :
              \/ pc' \in {"done", "rejected"}
              \/ /\ ~(index >= TwoTo[CADENCE_DEPTH])
                 /\ chain' = [extent |-> chain.extent, node |-> CadenceEntry(leafCp, index)]
                 /\ pc' = "cadence"
      BY <1>6 DEF ClimbChain, FailChain, Reject, Settle
    <2>2. pc = "leaf" /\ leafCp' = leafCp /\ cp' = cp
      BY <1>6 DEF ClimbChain
    <2>3. LeafKnown /\ Verified(cp)
      BY <2>2 DEF ChainSoFar
    <2>4. CASE pc' \in {"done", "rejected"}
      BY <2>4 DEF ChainSoFar
    <2>5. CASE pc' \notin {"done", "rejected"}
      <3>1. ~(index >= TwoTo[CADENCE_DEPTH]) /\ pc' = "cadence"
            /\ chain' = [extent |-> chain.extent, node |-> CadenceEntry(leafCp, index)]
        BY <2>1, <2>5
      <3>2. index \in Slots
        BY <3>1, HistoriesAssumption, TwoToAbove DEF Slots
      <3>3. chain' # << >> /\ chain'.extent = chain.extent /\ chain'.node = CadenceEntry(leafCp, index)
        BY <3>1, ChainTells
      <3>4. LeafKnown'
        BY <2>2, <2>3, <3>3 DEF LeafKnown, Verified, root
      <3>5. NodeKnown'
        BY <2>2, <3>2, <3>3 DEF NodeKnown, Slots
      <3> QED BY <2>2, <2>3, <3>1, <3>3, <3>4, <3>5 DEF ChainSoFar
    <2> QED BY <2>4, <2>5
  <1>7. CASE CheckCadence
    <2> DEFINE Good(h, logId, f, i) ==
                   /\ verifyCheckpoint(f[1]) /\ CadenceKeyOK(f[1])
                   /\ logId = f[1].logId
                   /\ verify_inclusion(root(f[1]), f[1].size, i, chain.node, inclusion_proof(h, i))
               Turns(h, logId, f, i) ==
                   IF Good(h, logId, f, i) /\ f[1].issuedAt = "time"
                   THEN target' = f[1] /\ pc' = "receipts"
                   ELSE pc' \in {"done", "rejected"}
    <2>0. PICK h \in CadenceHistories, key \in Keys, logId \in {"cadence", "other-cadence"} :
              \E f \in Flawed(Signed("cadence", h, 0, key)), i \in 0..(Len(h) - 1) : Turns(h, logId, f, i)
      <3>1. \A h, logId, f, i :
                (IF Good(h, logId, f, i) /\ f[1].issuedAt = "time"
                 THEN /\ target' = f[1]
                      /\ logs' \in LogsAround(checkpointEntryHash(f[1]))
                      /\ out' = [out EXCEPT !.chain = "pass"]
                      /\ pc' = "receipts"
                 ELSE /\ IF Good(h, logId, f, i) THEN Reject ELSE FailChain
                      /\ UNCHANGED <<target, logs>>)
                => Turns(h, logId, f, i)
        <4> HIDE DEF Good
        <4> QED BY DEF FailChain, Reject, Settle
      <3> HIDE DEF Turns
      <3> QED BY <1>7, <3>1 DEF CheckCadence
    <2>1. PICK f \in Flawed(Signed("cadence", h, 0, key)), i \in 0..(Len(h) - 1) :
              \/ pc' \in {"done", "rejected"}
              \/ /\ verifyCheckpoint(f[1]) /\ CadenceKeyOK(f[1])
                 /\ verify_inclusion(root(f[1]), f[1].size, i, chain.node, inclusion_proof(h, i))
                 /\ target' = f[1] /\ pc' = "receipts"
      BY <2>0
    <2>2. pc = "cadence" /\ chain' = chain /\ leafCp' = leafCp /\ cp' = cp
      BY <1>7 DEF CheckCadence
    <2>3. LeafKnown /\ NodeKnown /\ Verified(cp) /\ chain # << >>
      BY <2>2 DEF ChainSoFar
    <2>4. CASE pc' \in {"done", "rejected"}
      BY <2>4 DEF ChainSoFar
    <2>5. CASE pc' \notin {"done", "rejected"}
      <3>1. /\ verifyCheckpoint(f[1]) /\ f[1].kid = cp.kid
            /\ verify_inclusion(root(f[1]), f[1].size, i, chain.node, inclusion_proof(h, i))
            /\ target' = f[1] /\ pc' = "receipts"
        BY <2>1, <2>5 DEF CadenceKeyOK
      <3>2. Len(h) \in Nat
        BY DEF CadenceHistories
      <3>3. Verified(f[1]) /\ f[1].history = h
        BY <3>1, <3>2, VerifiedIs, FlawKeeps
      <3>4. verify_inclusion(RootOf(h), SizeOf(Len(h)), i, chain.node, inclusion_proof(h, i))
        BY <3>1, <3>3 DEF Verified
      <3>5. i \in 0..(Len(h) - 1) /\ h[i + 1] = chain.node
        <4>1. PICK D : /\ inclusion_proof(h, i).peaks_left \in Seq(D)
                       /\ inclusion_proof(h, i).peaks_right \in Seq(D)
          BY <3>2, MintedPeaks
        <4> DEFINE e == chain.node
                   p == inclusion_proof(h, i)
        <4>2. i \in Int /\ verify_inclusion(RootOf(h), SizeOf(Len(h)), i, e, p)
          BY <3>2, <3>4
        <4>3. p.peaks_left \in Seq(D) /\ p.peaks_right \in Seq(D)
          BY <4>1
        <4> HIDE DEF e, p
        <4>4. h[i + 1] = e
          BY <3>2, <4>2, <4>3, MmrInclusionProofsAreSound
        <4> QED BY <4>4 DEF e
      <3>6. TargetKnown'
        <4>1. PICK index \in Slots : chain.node = CadenceEntry(leafCp, index)
          BY <2>3 DEF NodeKnown
        <4>2. target'.seal = cp.kid
          BY <3>1, <3>3 DEF Verified
        <4>3. i + 1 \in 1..Len(target'.history) /\ target'.history[i + 1] = CadenceEntry(leafCp, index)
          BY <3>1, <3>2, <3>3, <3>5, <4>1
        <4> QED BY <2>2, <4>2, <4>3 DEF TargetKnown, Slots
      <3>7. LeafKnown'
        BY <2>2, <2>3 DEF LeafKnown, Verified, root
      <3> QED BY <2>2, <2>3, <3>1, <3>6, <3>7 DEF ChainSoFar
    <2> QED BY <2>4, <2>5
  <1>8. CASE CheckReceipt
    BY <1>8 DEF CheckReceipt, ChainSoFar, LeafKnown, NodeKnown, TargetKnown, Verified, root, Slots
  <1>9. CASE Conclude
    <2>1. pc' = "done"
      BY <1>9 DEF Conclude, Settle
    <2> QED BY <2>1 DEF ChainSoFar
  <1>10. CASE UNCHANGED vars
    BY <1>10 DEF vars, ChainSoFar, LeafKnown, NodeKnown, TargetKnown, Verified, root, Slots
  <1> QED BY <1>1, <1>2, <1>3, <1>4, <1>5, <1>6, <1>7, <1>8, <1>9, <1>10 DEF Next

\* A log whose size is smaller has fewer entries.
LEMMA SmallerIsShorter ==
    ASSUME NEW a, Verified(a), NEW b, Verified(b)
    PROVE  /\ Len(a.history) \in Nat /\ Len(b.history) \in Nat /\ Len(a.history) # 0
           /\ leaf_count(a.size) = Len(a.history)
           /\ a.size < b.size => Len(a.history) < Len(b.history)
  <1> DEFINE n == Len(a.history)
             m0 == Len(b.history)
  <1>1. /\ n \in Nat /\ m0 \in Nat
        /\ a.size = SizeOf(n) /\ b.size = SizeOf(m0) /\ a.size >= 1 /\ a.size < MAX_MMR_SIZE
    BY DEF Verified
  <1> HIDE DEF n, m0
  <1>2. SizeOf(n) = node_count(n) /\ SizeOf(m0) = node_count(m0) /\ node_count(n) \in Nat /\ node_count(m0) \in Nat
    BY <1>1, MountainsAre, CountTyped
  <1>3. n # 0
    BY <1>1, <1>2, CountTyped
  <1>4. leaf_count(a.size) = n
    BY <1>1, LeafCountIs
  <1>5. a.size < b.size => n < m0
    <2>1. m0 <= n => node_count(m0) <= node_count(n)
      BY <1>1, CountGrows
    <2> QED BY <1>1, <1>2, <2>1
  <1> QED BY <1>1, <1>3, <1>4, <1>5 DEF n, m0

\* Without a rung the page does not say that anything is witnessed.
LEMMA NoRungNoWord == out.rung = "none" => WitnessedMeansHeld
  BY DEF WitnessedMeansHeld, describeWitness, NoRung

\* What the last stretch says.
LEMMA ConcludedMeansHeld ==
    ASSUME Inv, ChainSoFar, Conclude
    PROVE  WitnessedMeansHeld'
  <1> DEFINE status == IF receipts = {} THEN "withheld" ELSE overall(Statuses)
             part == chain # << >> /\ chain.extent = "part"
             rung == IF status # "pass" THEN NoRung ELSE IF part THEN "witnessed_in_part" ELSE "witnessed"
             covered == IF status = "pass" /\ part THEN StepsIn(leafCp.size) ELSE 0
             steps == IF status = "pass" /\ part THEN StepsIn(cp.size) ELSE 0
  <1>1. /\ pc = "receipts"
        /\ out' = [out EXCEPT !.status = status, !.rung = rung, !.stepsWitnessed = covered, !.steps = steps]
        /\ receipts' = receipts /\ cp' = cp /\ leafCp' = leafCp /\ chain' = chain /\ target' = target
    BY DEF Conclude, Settle
  <1>2. PICK links \in {"none", "pass"} :
            out = [checkpoint |-> "pass", status |-> "absent", rung |-> "none", chain |-> links,
                   stepsWitnessed |-> 0, steps |-> 0]
    BY <1>1 DEF Inv, ResultSoFar, Reading, Result, NoRung
  <1>3. out'.rung = rung /\ out'.stepsWitnessed = covered /\ out'.steps = steps
    <2> HIDE DEF status, rung, covered, steps
    <2> QED BY <1>1, <1>2
  <1>4. CASE status # "pass"
    <2>1. out'.rung = "none"
      BY <1>3, <1>4 DEF NoRung
    <2> QED BY <2>1, NoRungNoWord DEF WitnessedMeansHeld, describeWitness, NoRung
  <1>5. CASE status = "pass"
    <2>1. \E r \in receipts : r.status = "pass" /\ r.held
      <3>1. "pass" \in Statuses
        BY <1>5 DEF overall
      <3> QED BY <3>1 DEF Statuses, Inv, ReceiptsPassWhenHeld
    <2>2. Verified(cp) /\ (chain = << >> => target = cp) /\ (chain # << >> => LeafKnown /\ TargetKnown)
      BY <1>1 DEF ChainSoFar
    <2>3. cp.seal = cp.kid /\ target.seal = cp.kid /\ (chain # << >> => leafCp.seal = cp.kid)
      BY <2>2 DEF LeafKnown, TargetKnown, Verified
    <2>4. chain # << >> =>
              /\ \E i \in 1..Len(target.history), index \in 0..(TwoTo[CADENCE_DEPTH] - 1) :
                     target.history[i] = CadenceEntry(leafCp, index)
              /\ IsPrefix(leafCp.history, cp.history)
              /\ chain.extent = "full" => leafCp = cp
      BY <2>2 DEF LeafKnown, TargetKnown, Slots
    <2>5. out'.rung = "witnessed_in_part" =>
              /\ out'.stepsWitnessed = Len(leafCp.history)
              /\ out'.steps = Len(cp.history)
              /\ 0 < out'.stepsWitnessed /\ out'.stepsWitnessed < out'.steps
      <3> SUFFICES ASSUME out'.rung = "witnessed_in_part"
                   PROVE  /\ out'.stepsWitnessed = Len(leafCp.history)
                          /\ out'.steps = Len(cp.history)
                          /\ 0 < out'.stepsWitnessed /\ out'.stepsWitnessed < out'.steps
        OBVIOUS
      <3>1. part
        BY <1>3, <1>5
      <3>2. out'.stepsWitnessed = leaf_count(leafCp.size) /\ out'.steps = leaf_count(cp.size)
        BY <1>3, <1>5, <3>1 DEF StepsIn
      <3>3. Verified(leafCp) /\ Verified(cp) /\ leafCp.size < cp.size
        BY <2>2, <3>1 DEF LeafKnown
      <3>4. /\ Len(leafCp.history) \in Nat /\ Len(cp.history) \in Nat /\ Len(leafCp.history) # 0
            /\ leaf_count(leafCp.size) = Len(leafCp.history)
            /\ leafCp.size < cp.size => Len(leafCp.history) < Len(cp.history)
        BY <3>3, SmallerIsShorter
      <3>5. leaf_count(cp.size) = Len(cp.history)
        BY <3>3, SmallerIsShorter
      <3> DEFINE n == Len(leafCp.history)
                 m0 == Len(cp.history)
      <3>6. n \in Nat /\ m0 \in Nat /\ n # 0 /\ n < m0 /\ out'.stepsWitnessed = n /\ out'.steps = m0
        BY <3>2, <3>3, <3>4, <3>5
      <3> HIDE DEF n, m0
      <3>7. 0 < n
        BY <3>6
      <3> QED BY <3>6, <3>7 DEF n, m0
    <2> HIDE DEF Inv, ChainSoFar
    <2> QED BY <1>1, <2>1, <2>2, <2>3, <2>4, <2>5 DEF WitnessedMeansHeld
  <1> QED BY <1>4, <1>5

\* The results the steps before the last leave.
ResultsOf ==
    \/ out' = out
    \/ out' = [out EXCEPT !.checkpoint = "pass"]
    \/ out' = [Result("fail") EXCEPT !.checkpoint = "fail"]
    \/ out' = [out EXCEPT !.chain = "fail", !.status = "fail"]
    \/ out' = [out EXCEPT !.chain = "pass"]

\* A step before the last leaves such a result.
LEMMA RungSteps ==
    Next /\ ~Conclude =>
        ResultsOf /\ pc \in {"start", "evidence", "earlier", "leaf", "cadence", "receipts"}
  <1> SUFFICES ASSUME Next, ~Conclude
               PROVE  ResultsOf /\ pc \in {"start", "evidence", "earlier", "leaf", "cadence", "receipts"}
    OBVIOUS
  <1>1. CASE NoCheckpoint
    BY <1>1 DEF NoCheckpoint, Settle, ResultsOf
  <1>2. CASE CheckCheckpoint
    BY <1>2 DEF CheckCheckpoint, Settle, ResultsOf
  <1>3. CASE TakeChain
    BY <1>3 DEF TakeChain, ResultsOf
  <1>4. CASE TakeDirect
    BY <1>4 DEF TakeDirect, Settle, Reject, ResultsOf
  <1>5. CASE CheckEarlier
    BY <1>5 DEF CheckEarlier, FailChain, Settle, ResultsOf
  <1>6. CASE ClimbChain
    BY <1>6 DEF ClimbChain, FailChain, Settle, Reject, ResultsOf
  <1>7. CASE CheckCadence
    BY <1>7 DEF CheckCadence, FailChain, Settle, Reject, ResultsOf
  <1>8. CASE CheckReceipt
    BY <1>8 DEF CheckReceipt, ResultsOf
  <1> QED BY <1>1, <1>2, <1>3, <1>4, <1>5, <1>6, <1>7, <1>8 DEF Next

\* The result until the check ends.
Unranked(checkpoint, links) ==
    [checkpoint |-> checkpoint, status |-> "absent", rung |-> "none", chain |-> links,
     stepsWitnessed |-> 0, steps |-> 0]

\* The result is one of those while the check goes on.
LEMMA ResultKnown ==
    ASSUME Inv, pc \in {"start", "evidence", "earlier", "leaf", "cadence", "receipts"}
    PROVE  \E c, l : out = Unranked(c, l)
  <1>1. CASE pc = "start"
    <2>1. out = [checkpoint |-> "withheld", status |-> "absent", rung |-> "none", chain |-> "none",
                 stepsWitnessed |-> 0, steps |-> 0]
      BY <1>1 DEF Inv, ResultSoFar, Result, NoRung
    <2> QED BY <2>1 DEF Unranked
  <1>2. CASE pc \in {"evidence", "earlier", "leaf", "cadence", "receipts"}
    <2>1. PICK links \in {"none", "pass"} :
              out = [checkpoint |-> "pass", status |-> "absent", rung |-> "none", chain |-> links,
                     stepsWitnessed |-> 0, steps |-> 0]
      BY <1>2 DEF Inv, ResultSoFar, Reading, Result, NoRung
    <2> QED BY <2>1 DEF Unranked
  <1> QED BY <1>1, <1>2

\* The steps keep the chain's record and end in a true word.
LEMMA EvidenceStep ==
    Inv /\ Inv' /\ ChainSoFar /\ WitnessedMeansHeld /\ [Next]_vars => ChainSoFar' /\ WitnessedMeansHeld'
  <1> SUFFICES ASSUME Inv, Inv', ChainSoFar, WitnessedMeansHeld, [Next]_vars
               PROVE  ChainSoFar' /\ WitnessedMeansHeld'
    OBVIOUS
  <1>1. ChainSoFar'
    BY ChainStep
  <1>2. CASE Conclude
    BY <1>2, ConcludedMeansHeld, <1>1
  <1>3. CASE UNCHANGED vars
    <2>1. WitnessedMeansHeld' = WitnessedMeansHeld
      BY <1>3, Zenon DEF vars, WitnessedMeansHeld, describeWitness, Done
    <2> QED BY <1>1, <2>1
  <1>4. CASE ~Conclude /\ Next
    <2>1. out.rung = "none"
      <3>1. PICK c, l : out = Unranked(c, l)
        BY <1>4, RungSteps, ResultKnown
      <3> QED BY <3>1 DEF Unranked
    <2>2. out'.rung = "none"
      <3>1. PICK c, l : out = Unranked(c, l)
        BY <1>4, RungSteps, ResultKnown
      <3>2. ResultsOf
        BY <1>4, RungSteps
      <3>3. [Result("fail") EXCEPT !.checkpoint = "fail"].rung = "none"
        BY DEF Result, NoRung
      <3>4. /\ [out EXCEPT !.checkpoint = "pass"].rung = "none"
            /\ [out EXCEPT !.chain = "fail", !.status = "fail"].rung = "none"
            /\ [out EXCEPT !.chain = "pass"].rung = "none"
        BY <3>1 DEF Unranked
      <3> QED BY <2>1, <3>2, <3>3, <3>4 DEF ResultsOf
    <2> QED BY <1>1, <2>2, NoRungNoWord DEF WitnessedMeansHeld, describeWitness, NoRung
  <1> QED BY <1>2, <1>3, <1>4

(* When the page says that a witness holds the bundle's checkpoint, one does,
   of the bundle's own checkpoint or through a chain of cadence and earlier
   checkpoints signed by the same key; and in part says how much. *)
THEOREM WitnessedIsHeld == Spec => []WitnessedMeansHeld
  <1>1. Init => ChainSoFar /\ WitnessedMeansHeld
    BY NoRungNoWord DEF Init, ChainSoFar, Result, NoRung
  <1> QED BY <1>1, EvidenceStep, EvidenceCorrect, PTL DEF Spec
=============================================================================
