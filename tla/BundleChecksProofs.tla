------------------------ MODULE BundleChecksProofs ------------------------
(***************************************************************************)
(* Proofs about the checks of the bundle page for bundles of any length:   *)
(* what the walk up the chain finds, what four green stages mean, and that *)
(* the displays agree.                                                     *)
(***************************************************************************)
EXTENDS BundleChecks, FiniteSetTheorems, WellFoundedInduction, TLAPS

-----------------------------------------------------------------------------
(* Least and greatest numbers.                                             *)

LEMMA LeastNat ==
    ASSUME NEW T \in SUBSET Nat, T # {}
    PROVE  \E x \in T : \A y \in T : x <= y
  <1> DEFINE R == OpToRel(<, Nat)
  <1>1. IsWellFoundedOn(R, Nat)
    BY NatLessThanWellFounded
  <1>2. \A a, b \in Nat : a < b => <<a, b>> \in R
    BY Zenon DEF OpToRel
  <1> HIDE DEF R
  <1>3. PICK x \in T : \A y \in T : ~(<<y, x>> \in R)
    BY <1>1, WFMin
  <1>4. ASSUME NEW y \in T PROVE x <= y
    <2>1. x \in Nat /\ y \in Nat
      OBVIOUS
    <2>2. ~(y < x)
      BY <1>2, <1>3, <2>1, Zenon
    <2> QED BY <2>1, <2>2
  <1> QED BY <1>4

LEMMA MaxIn ==
    ASSUME NEW n \in Nat, NEW S \in SUBSET (1 .. n), S # {}
    PROVE  Max(S) \in S
  <1> DEFINE T == {n - k : k \in S}
  <1>1. T \in SUBSET Nat /\ T # {}
    <2>1. \A k \in S : n - k \in Nat
      OBVIOUS
    <2> QED BY <2>1
  <1>2. PICK x \in T : \A y \in T : x <= y
    BY <1>1, LeastNat
  <1>3. PICK m \in S : x = n - m
    BY <1>2
  <1>4. \A k \in S : n - m <= n - k
    BY <1>2, <1>3
  <1>5. \A k \in S : m >= k
    BY <1>4
  <1> QED BY <1>5 DEF Max

-----------------------------------------------------------------------------
(* The walk.  Over names N and ids I among them, each with a parent up[a],  *)
(* looking for a member of Bad; no is the name of no id.                    *)

\* One turn of the walk, f being what the rest of it finds.
Turn(f, I, up, Bad, no, w) ==
    IF w[1] \in w[2] \cup {no} THEN FALSE
    ELSE IF w[1] \in Bad THEN TRUE
    ELSE IF w[1] \in I THEN f[<<up[w[1]], w[2] \cup {w[1]}>>] ELSE FALSE

IsWalk(f, N, I, up, Bad, no) ==
    f = [w \in N \X SUBSET N |-> Turn(f, I, up, Bad, no, w)]

Chains(N, I, up, Bad, no) ==
    /\ IsFiniteSet(N) /\ I \subseteq N /\ up \in [I -> N]
    /\ Bad \subseteq I /\ no \notin I

\* Some function answers every walk by its next turn: the one that is true of the
\* least set of walks that end at a member of Bad.
LEMMA WalkExists ==
    ASSUME NEW N, NEW I, NEW up, NEW Bad, NEW no, Chains(N, I, up, Bad, no)
    PROVE  \E f : IsWalk(f, N, I, up, Bad, no)
  <1> DEFINE D == N \X SUBSET N
             next(w) == <<up[w[1]], w[2] \cup {w[1]}>>
             Go(X, w) == /\ w[1] \notin w[2] \cup {no}
                         /\ w[1] \in Bad \/ (w[1] \in I /\ next(w) \in X)
             Closed == {X \in SUBSET D : \A w \in D : Go(X, w) => w \in X}
             L == {w \in D : \A X \in Closed : w \in X}
             g == [w \in D |-> IF w \in L THEN TRUE ELSE FALSE]
  <1>1. \A w \in D : Go(L, w) => w \in L
    <2> SUFFICES ASSUME NEW w \in D, Go(L, w), NEW X \in Closed PROVE w \in X
      OBVIOUS
    <2>1. Go(X, w)
      OBVIOUS
    <2> QED BY <2>1
  <1>2. \A w \in L : Go(L, w)
    <2> SUFFICES ASSUME NEW w \in L, ~Go(L, w) PROVE FALSE
      OBVIOUS
    <2> DEFINE X == L \ {w}
    <2>1. X \in SUBSET D
      OBVIOUS
    <2>2. ASSUME NEW v \in D, Go(X, v) PROVE v \in X
      <3>1. Go(L, v)
        BY <2>2
      <3>2. v \in L
        BY <1>1, <3>1
      <3>3. v # w
        BY <3>1
      <3> QED BY <3>2, <3>3
    <2>3. X \in Closed
      BY <2>1, <2>2
    <2> QED BY <2>3
  <1>3. \A w \in D : w[1] \in I => next(w) \in D
    BY DEF Chains
  <1>4. \A w \in D : (w \in L) <=> Go(L, w)
    BY <1>1, <1>2
  <1>5. ASSUME NEW w \in D PROVE g[w] = Turn(g, I, up, Bad, no, w)
    <2>1. CASE w \in L
      <3>1. Go(L, w) /\ g[w] = TRUE
        BY <1>4, <2>1
      <3>2. CASE w[1] \in Bad
        BY <3>1, <3>2 DEF Turn
      <3>3. CASE w[1] \notin Bad
        <4>1. w[1] \in I /\ next(w) \in L
          BY <3>1, <3>3
        <4>2. g[next(w)] = TRUE
          BY <1>3, <4>1
        <4> QED BY <3>1, <3>3, <4>1, <4>2 DEF Turn
      <3> QED BY <3>2, <3>3
    <2>2. CASE w \notin L
      <3>1. ~Go(L, w) /\ g[w] = FALSE
        BY <1>4, <2>2
      <3>2. w[1] \in I /\ next(w) \notin L => g[next(w)] = FALSE
        BY <1>3
      <3> QED BY <3>1, <3>2 DEF Turn
    <2> QED BY <2>1, <2>2
  <1>6. g = [w \in D |-> Turn(g, I, up, Bad, no, w)]
    <2>1. g = [w \in D |-> g[w]]
      OBVIOUS
    <2> HIDE DEF g
    <2> QED BY <1>5, <2>1, Zenon
  <1> QED BY <1>6, Zenon DEF IsWalk

\* The walks with fewer names left to see come first.
LEMMA FewerLeft ==
    ASSUME NEW N, IsFiniteSet(N), NEW X \in SUBSET (N \X SUBSET N), X # {}
    PROVE  \E w \in X : \A v \in X : Cardinality(N \ w[2]) <= Cardinality(N \ v[2])
  <1> DEFINE T == {Cardinality(N \ w[2]) : w \in X}
  <1>1. \A w \in X : Cardinality(N \ w[2]) \in Nat
    <2> SUFFICES ASSUME NEW w \in X PROVE Cardinality(N \ w[2]) \in Nat
      OBVIOUS
    <2>1. IsFiniteSet(N \ w[2])
      BY FS_Difference
    <2> QED BY <2>1, FS_CardinalityType
  <1>2. T \in SUBSET Nat /\ T # {}
    BY <1>1
  <1>3. PICK x \in T : \A y \in T : x <= y
    BY <1>2, LeastNat
  <1>4. PICK w \in X : x = Cardinality(N \ w[2])
    BY <1>3
  <1>5. \A v \in X : Cardinality(N \ v[2]) \in T
    OBVIOUS
  <1> QED BY <1>3, <1>4, <1>5

LEMMA SeenShrinks ==
    ASSUME NEW N, IsFiniteSet(N), NEW seen \in SUBSET N, NEW x \in N \ seen
    PROVE  ~(Cardinality(N \ seen) <= Cardinality(N \ (seen \cup {x})))
  <1>1. IsFiniteSet(N \ seen)
    BY FS_Difference
  <1>2. N \ (seen \cup {x}) = (N \ seen) \ {x}
    OBVIOUS
  <1>3. Cardinality((N \ seen) \ {x}) = Cardinality(N \ seen) - 1
    BY <1>1, FS_RemoveElement
  <1>4. Cardinality(N \ seen) \in Nat
    BY <1>1, FS_CardinalityType
  <1> QED BY <1>2, <1>3, <1>4

\* A walk that finds a member of Bad stays in every set that is closed upward.
LEMMA WalkSound ==
    ASSUME NEW N, NEW I, NEW up, NEW Bad, NEW no, Chains(N, I, up, Bad, no),
           NEW f, IsWalk(f, N, I, up, Bad, no),
           NEW A, \A a \in A \cap I : up[a] \in A,
           NEW w \in N \X SUBSET N, w[1] \in A, f[w]
    PROVE  A \cap Bad # {}
  <1> SUFFICES ASSUME A \cap Bad = {} PROVE FALSE
    OBVIOUS
  <1> DEFINE D == N \X SUBSET N
             X == {v \in D : v[1] \in A /\ f[v]}
  <1>1. IsFiniteSet(N) /\ I \subseteq N /\ up \in [I -> N]
    BY DEF Chains
  <1>2. w \in X /\ X \in SUBSET D
    OBVIOUS
  <1>3. PICK v \in X : \A u \in X : Cardinality(N \ v[2]) <= Cardinality(N \ u[2])
    BY <1>1, <1>2, FewerLeft
  <1>4. v \in D /\ v[1] \in A /\ f[v]
    BY <1>3
  <1>5. Turn(f, I, up, Bad, no, v)
    <2>1. \A u \in D : f[u] = Turn(f, I, up, Bad, no, u)
      BY Zenon DEF IsWalk
    <2>2. f[v] = Turn(f, I, up, Bad, no, v)
      BY <1>4, <2>1, Zenon
    <2> QED BY <1>4, <2>2
  <1> DEFINE u == <<up[v[1]], v[2] \cup {v[1]}>>
  <1>6. v[1] \notin Bad
    BY <1>4
  <1>7. v[1] \notin v[2] /\ v[1] \in I /\ f[u]
    BY <1>5, <1>6 DEF Turn
  <1>8. u \in X
    BY <1>1, <1>4, <1>7
  <1>9. Cardinality(N \ v[2]) <= Cardinality(N \ (v[2] \cup {v[1]}))
    BY <1>3, <1>8
  <1> QED BY <1>1, <1>4, <1>7, <1>9, SeenShrinks

\* A walk that finds none has been through a set that is closed upward, or would go
\* through one, and that set holds no member of Bad.
LEMMA WalkComplete ==
    ASSUME NEW N, NEW I, NEW up, NEW Bad, NEW no, Chains(N, I, up, Bad, no),
           NEW f, IsWalk(f, N, I, up, Bad, no),
           NEW w \in N \X SUBSET N, w[2] = {}, ~f[w]
    PROVE  \E T \in SUBSET N : /\ w[1] \in T /\ T \cap Bad = {}
                               /\ \A a \in T \cap I : up[a] \in T
  <1> DEFINE D == N \X SUBSET N
             Clear(v) == /\ v[2] \cap Bad = {}
                         /\ \A b \in v[2] \cap I : up[b] \in v[2] \cup {v[1]}
             Way(v, T) == /\ v[1] \in T /\ v[2] \subseteq T /\ T \cap Bad = {}
                          /\ \A a \in T \cap I : up[a] \in T
             X == {v \in D : /\ ~f[v] /\ Clear(v)
                             /\ \A T \in SUBSET N : ~Way(v, T)}
  <1> SUFFICES ASSUME \A T \in SUBSET N : ~Way(w, T) PROVE FALSE
    OBVIOUS
  <1>1. IsFiniteSet(N) /\ I \subseteq N /\ up \in [I -> N] /\ no \notin I /\ Bad \subseteq I
    BY DEF Chains
  <1>2. w \in X /\ X \in SUBSET D
    OBVIOUS
  <1> HIDE DEF X
  <1>3. PICK v \in X : \A u \in X : Cardinality(N \ v[2]) <= Cardinality(N \ u[2])
    BY <1>1, <1>2, FewerLeft
  <1>4. v \in D /\ ~f[v] /\ Clear(v) /\ \A T \in SUBSET N : ~Way(v, T)
    BY <1>3 DEF X
  <1>5. ~Turn(f, I, up, Bad, no, v)
    <2>1. \A u \in D : f[u] = Turn(f, I, up, Bad, no, u)
      BY Zenon DEF IsWalk
    <2>2. f[v] = Turn(f, I, up, Bad, no, v)
      BY <1>4, <2>1, Zenon
    <2> QED BY <1>4, <2>2
  <1> DEFINE u == <<up[v[1]], v[2] \cup {v[1]}>>
  <1>6. v[1] \notin v[2]
    <2>1. SUFFICES ASSUME v[1] \in v[2] PROVE FALSE
      OBVIOUS
    <2>2. Way(v, v[2]) /\ v[2] \in SUBSET N
      BY <1>4, <2>1
    <2> QED BY <1>4, <2>2
  <1>7. v[1] # no /\ v[1] \in I
    <2>1. SUFFICES ASSUME v[1] \notin I PROVE FALSE
      BY <1>1
    <2>2. Way(v, v[2] \cup {v[1]}) /\ v[2] \cup {v[1]} \in SUBSET N
      BY <1>1, <1>4, <2>1
    <2> QED BY <1>4, <2>2
  <1>8. v[1] \notin Bad /\ ~f[u]
    BY <1>5, <1>6, <1>7 DEF Turn
  <1>9. u \in D /\ Clear(u)
    BY <1>1, <1>4, <1>7, <1>8
  <1>10. \A T \in SUBSET N : Way(u, T) => Way(v, T)
    BY <1>4
  <1>11. u \in X
    BY <1>4, <1>8, <1>9, <1>10 DEF X
  <1>12. Cardinality(N \ v[2]) <= Cardinality(N \ (v[2] \cup {v[1]}))
    BY <1>3, <1>11
  <1> QED BY <1>1, <1>4, <1>6, <1>12, SeenShrinks

-----------------------------------------------------------------------------
(* The walk of this bundle.                                                 *)

up == [a \in Ids |-> byId(a).parent]

LEMMA RecordsTyped ==
    ASSUME IsBundle(bundle)
    PROVE  /\ records \in Seq(Record) /\ Len(records) \in Nat
           /\ \A k \in Places : records[k] \in Record
  BY DEF IsBundle, records, Places

LEMMA ByIdIsARecord ==
    ASSUME IsBundle(bundle), NEW a \in Ids
    PROVE  \E k \in Places : byId(a) = records[k] /\ records[k].id = a
  <1> DEFINE S == {k \in Places : records[k].id = a}
  <1>1. Len(records) \in Nat
    BY RecordsTyped
  <1>2. S \in SUBSET (1 .. Len(records)) /\ S # {}
    BY DEF Ids, Places
  <1>3. Max(S) \in S
    <2> HIDE DEF S
    <2> QED BY <1>1, <1>2, MaxIn
  <1> QED BY <1>3 DEF byId

LEMMA ChainsOfTheBundle ==
    ASSUME IsBundle(bundle)
    PROVE  Chains(Names, Ids, up, AlteredIds, NoId)
  <1>1. IsFiniteSet(Places)
    BY RecordsTyped, FS_Interval DEF Places
  <1>2. IsFiniteSet({records[k].id : k \in Places}) /\ IsFiniteSet({records[k].parent : k \in Places})
    <2> DEFINE ids == [k \in Places |-> records[k].id]
               parents == [k \in Places |-> records[k].parent]
    <2>1. /\ ids \in Surjection(Places, {records[k].id : k \in Places})
          /\ parents \in Surjection(Places, {records[k].parent : k \in Places})
      BY DEF Surjection
    <2> HIDE DEF ids, parents
    <2> QED BY <1>1, <2>1, FS_Surjection
  <1>3. IsFiniteSet(Ids)
    BY <1>2, FS_Difference DEF Ids
  <1>4. IsFiniteSet(Names)
    BY <1>2, <1>3, FS_Union DEF Names
  <1>5. \A a \in Ids : byId(a).parent \in Names
    BY ByIdIsARecord DEF Names
  <1>6. up \in [Ids -> Names]
    BY <1>5 DEF up
  <1>7. AlteredIds \subseteq Ids
    BY DEF AlteredIds, Ids
  <1> QED BY <1>4, <1>6, <1>7 DEF Chains, Names, Ids

LEMMA ClimbsTurnByTurn ==
    ASSUME IsBundle(bundle)
    PROVE  IsWalk(climbs, Names, Ids, up, AlteredIds, NoId)
  <1> DEFINE D == Names \X SUBSET Names
             Body(f, w) ==
                 IF w[1] \in w[2] \cup {NoId} THEN FALSE
                 ELSE IF w[1] \in AlteredIds THEN TRUE
                 ELSE IF w[1] \in Ids THEN f[<<byId(w[1]).parent, w[2] \cup {w[1]}>>] ELSE FALSE
  <1>1. climbs = CHOOSE f : f = [w \in D |-> Body(f, w)]
    BY Zenon DEF climbs
  <1>2. ASSUME NEW f, NEW w \in D
        PROVE  Turn(f, Ids, up, AlteredIds, NoId, w) = Body(f, w)
    <2>1. w[1] \in Ids => up[w[1]] = byId(w[1]).parent
      BY DEF up
    <2> QED BY <2>1 DEF Turn
  <1>3. Chains(Names, Ids, up, AlteredIds, NoId)
    BY ChainsOfTheBundle
  <1>4. PICK g : IsWalk(g, Names, Ids, up, AlteredIds, NoId)
    BY <1>3, WalkExists
  <1>5. g = [w \in D |-> Turn(g, Ids, up, AlteredIds, NoId, w)]
    BY <1>4, Zenon DEF IsWalk
  <1> HIDE DEF Body, D
  <1>6. \E f : f = [w \in D |-> Body(f, w)]
    BY <1>2, <1>5
  <1>7. climbs = [w \in D |-> Body(climbs, w)]
    BY <1>1, <1>6, Zenon
  <1>8. climbs = [w \in D |-> Turn(climbs, Ids, up, AlteredIds, NoId, w)]
    BY <1>2, <1>7, Zenon
  <1> QED BY <1>8, Zenon DEF D, IsWalk

\* The walk from a record finds an altered one exactly when an ancestor is altered.
LEMMA CitesIsDescends ==
    ASSUME IsBundle(bundle), NEW k \in Places
    PROVE  CitesAltered(records[k]) <=> Ancestors(records[k]) \cap AlteredIds # {}
  <1> DEFINE p == records[k].parent
             A == {a \in Names : \A S \in Upward(records[k]) : a \in S}
             w == <<p, {}>>
  <1>1. Chains(Names, Ids, up, AlteredIds, NoId)
    BY ChainsOfTheBundle
  <1>2. IsWalk(climbs, Names, Ids, up, AlteredIds, NoId)
    BY ClimbsTurnByTurn
  <1>3. w \in Names \X SUBSET Names /\ w[1] = p /\ w[2] = {}
    BY DEF Names
  <1>4. \A a \in Ids : up[a] = byId(a).parent
    BY DEF up
  <1>5. ASSUME CitesAltered(records[k]) PROVE Ancestors(records[k]) \cap AlteredIds # {}
    <2>1. \A a \in A \cap Ids : up[a] \in A
      <3>1. \A a \in Ids : up[a] \in Names
        BY <1>1 DEF Chains
      <3> QED BY <1>4, <3>1 DEF Upward
    <2>2. p \in A
      BY <1>3 DEF Upward
    <2>3. climbs[w]
      BY <1>5 DEF CitesAltered
    <2> HIDE DEF A, w
    <2>4. A \cap AlteredIds # {}
      BY <1>1, <1>2, <1>3, <2>1, <2>2, <2>3, WalkSound
    <2>5. NoId \notin AlteredIds
      BY DEF AlteredIds
    <2> QED BY <2>4, <2>5 DEF A, Ancestors
  <1>6. ASSUME ~CitesAltered(records[k]) PROVE Ancestors(records[k]) \cap AlteredIds = {}
    <2>1. ~climbs[w]
      BY <1>6 DEF CitesAltered
    <2> HIDE DEF w
    <2>2. PICK T \in SUBSET Names : /\ w[1] \in T /\ T \cap AlteredIds = {}
                                    /\ \A a \in T \cap Ids : up[a] \in T
      BY <1>1, <1>2, <1>3, <2>1, WalkComplete
    <2>3. T \in Upward(records[k])
      BY <1>3, <1>4, <2>2 DEF Upward
    <2> QED BY <2>2, <2>3 DEF Ancestors
  <1> QED BY <1>5, <1>6

-----------------------------------------------------------------------------
(* What each stage leaves behind: the bundle does not change, and each display *)
(* holds what its check said of the bundle.                                    *)

Stages == {"integrity", "privlog", "completeness", "crosscheck", "ritual", "done"}
After(s) == CASE s = "integrity"    -> Stages \ {"integrity"}
              [] s = "privlog"      -> Stages \ {"integrity", "privlog"}
              [] s = "completeness" -> {"crosscheck", "ritual", "done"}
              [] s = "crosscheck"   -> {"ritual", "done"}
              [] s = "ritual"       -> {"done"}

IdentifyInv == stage \in After("integrity") =>
                   integrity = [k \in Places |-> verifyCapsuleId(records[k])]
PrivlogInv == stage \in After("privlog") =>
                  /\ privlog = [k \in Places |-> verifyCapsuleDigests(records[k])]
                  /\ notes = annotateRecords
CompletenessInv == stage \in After("completeness") => completeness = checkCompleteness
CrossCheckInv == stage \in After("crosscheck") => crossCheck = crossCheckSelfReport
RitualInv == stage \in After("ritual") => ritual = evaluateBundleRitual

(* The inductive invariant: every check whose stage is over shows what its
   operator says of the bundle, whatever has been shown since. *)
ChecksInv ==
    /\ IsBundle(bundle)
    /\ stage \in Stages
    /\ IdentifyInv /\ PrivlogInv /\ CompletenessInv /\ CrossCheckInv /\ RitualInv

\* The checks read the bundle and the record verdicts alone.
LEMMA ChecksRead ==
    ASSUME bundle' = bundle
    PROVE  /\ records' = records /\ Places' = Places
           /\ [k \in Places |-> verifyCapsuleId(records[k])]'
                = [k \in Places |-> verifyCapsuleId(records[k])]
           /\ [k \in Places |-> verifyCapsuleDigests(records[k])]'
                = [k \in Places |-> verifyCapsuleDigests(records[k])]
           /\ checkCompleteness' = checkCompleteness
           /\ crossCheckSelfReport' = crossCheckSelfReport
  BY Zenon DEF records, Places, verifyCapsuleId, verifyCapsuleDigests, checkCompleteness,
               crossCheckSelfReport, RawId

LEMMA ChecksReadVerdicts ==
    ASSUME bundle' = bundle, integrity' = integrity
    PROVE  annotateRecords' = annotateRecords /\ evaluateBundleRitual' = evaluateBundleRitual
  <1>1. AlteredIds' = AlteredIds /\ Ids' = Ids /\ Names' = Names
    BY Zenon DEF AlteredIds, Ids, Names, Places, records, capMismatched
  <1>2. climbs' = climbs
    BY <1>1 DEF climbs, byId, Places, records
  <1>3. annotateRecords' = annotateRecords
    BY <1>1, <1>2, Zenon DEF annotateRecords, CitesAltered, Places, records
  <1>4. BodyAltered' = BodyAltered /\ DisclosureAltered' = DisclosureAltered
    BY Zenon DEF BodyAltered, DisclosureAltered, verifyCapsuleDigests, RawId, Places, records
  <1>5. SequenceStage' = SequenceStage /\ findChainGaps' = findChainGaps
    BY <1>1, Zenon DEF SequenceStage, findChainGaps, Declared, Places, records
  <1>6. evaluateBundleRitual' = evaluateBundleRitual
    BY <1>4, <1>5, Zenon DEF evaluateBundleRitual
  <1> QED BY <1>3, <1>6

LEMMA InitOK == Init => ChecksInv
  BY BundlesAssumption DEF Init, ChecksInv, IdentifyInv, PrivlogInv, CompletenessInv,
                           CrossCheckInv, RitualInv, After, Stages

LEMMA IdentifyOK == ChecksInv /\ Identify => ChecksInv'
  <1> SUFFICES ASSUME ChecksInv, Identify PROVE ChecksInv'
    OBVIOUS
  <1>1. bundle' = bundle /\ stage' = "privlog"
    BY DEF Identify
  <1>2. IdentifyInv'
    BY <1>1, ChecksRead DEF Identify, IdentifyInv
  <1> QED BY <1>1, <1>2 DEF ChecksInv, IsBundle, PrivlogInv, CompletenessInv, CrossCheckInv,
                             RitualInv, After, Stages

LEMMA PrivlogOK == ChecksInv /\ Privlog => ChecksInv'
  <1> SUFFICES ASSUME ChecksInv, Privlog PROVE ChecksInv'
    OBVIOUS
  <1>1. bundle' = bundle /\ integrity' = integrity /\ stage = "privlog" /\ stage' = "completeness"
    BY DEF Privlog
  <1>2. IdentifyInv'
    BY <1>1, ChecksRead DEF ChecksInv, IdentifyInv, After, Stages
  <1>3. PrivlogInv'
    BY <1>1, ChecksRead, ChecksReadVerdicts DEF Privlog, PrivlogInv
  <1> QED BY <1>1, <1>2, <1>3 DEF ChecksInv, IsBundle, CompletenessInv, CrossCheckInv,
                                  RitualInv, After, Stages

LEMMA CompletenessOK == ChecksInv /\ Completeness => ChecksInv'
  <1> SUFFICES ASSUME ChecksInv, Completeness PROVE ChecksInv'
    OBVIOUS
  <1>1. /\ bundle' = bundle /\ integrity' = integrity /\ privlog' = privlog /\ notes' = notes
        /\ stage = "completeness" /\ stage' = "crosscheck"
    BY DEF Completeness
  <1>2. IdentifyInv'
    BY <1>1, ChecksRead DEF ChecksInv, IdentifyInv, After, Stages
  <1>3. PrivlogInv'
    BY <1>1, ChecksRead, ChecksReadVerdicts DEF ChecksInv, PrivlogInv, After, Stages
  <1>4. CompletenessInv'
    BY <1>1, ChecksRead DEF Completeness, CompletenessInv
  <1> QED BY <1>1, <1>2, <1>3, <1>4 DEF ChecksInv, IsBundle, CrossCheckInv, RitualInv, After, Stages

LEMMA CrossCheckOK == ChecksInv /\ CrossCheck => ChecksInv'
  <1> SUFFICES ASSUME ChecksInv, CrossCheck PROVE ChecksInv'
    OBVIOUS
  <1>1. /\ bundle' = bundle /\ integrity' = integrity /\ privlog' = privlog /\ notes' = notes
        /\ completeness' = completeness /\ stage = "crosscheck" /\ stage' = "ritual"
    BY DEF CrossCheck
  <1>2. IdentifyInv'
    BY <1>1, ChecksRead DEF ChecksInv, IdentifyInv, After, Stages
  <1>3. PrivlogInv'
    BY <1>1, ChecksRead, ChecksReadVerdicts DEF ChecksInv, PrivlogInv, After, Stages
  <1>4. CompletenessInv'
    BY <1>1, ChecksRead DEF ChecksInv, CompletenessInv, After, Stages
  <1>5. CrossCheckInv'
    BY <1>1, ChecksRead DEF CrossCheck, CrossCheckInv
  <1> QED BY <1>1, <1>2, <1>3, <1>4, <1>5 DEF ChecksInv, IsBundle, RitualInv, After, Stages

LEMMA RitualOK == ChecksInv /\ Ritual => ChecksInv'
  <1> SUFFICES ASSUME ChecksInv, Ritual PROVE ChecksInv'
    OBVIOUS
  <1>1. /\ bundle' = bundle /\ integrity' = integrity /\ privlog' = privlog /\ notes' = notes
        /\ completeness' = completeness /\ crossCheck' = crossCheck
        /\ stage = "ritual" /\ stage' = "done"
    BY DEF Ritual
  <1>2. IdentifyInv'
    BY <1>1, ChecksRead DEF ChecksInv, IdentifyInv, After, Stages
  <1>3. PrivlogInv'
    BY <1>1, ChecksRead, ChecksReadVerdicts DEF ChecksInv, PrivlogInv, After, Stages
  <1>4. CompletenessInv' /\ CrossCheckInv'
    BY <1>1, ChecksRead DEF ChecksInv, CompletenessInv, CrossCheckInv, After, Stages
  <1>5. RitualInv'
    BY <1>1, ChecksReadVerdicts DEF Ritual, RitualInv
  <1> QED BY <1>1, <1>2, <1>3, <1>4, <1>5 DEF ChecksInv, IsBundle, Stages

LEMMA StutterOK == ChecksInv /\ UNCHANGED vars => ChecksInv'
  <1> SUFFICES ASSUME ChecksInv, UNCHANGED vars PROVE ChecksInv'
    OBVIOUS
  <1>1. /\ bundle' = bundle /\ integrity' = integrity /\ privlog' = privlog /\ notes' = notes
        /\ completeness' = completeness /\ crossCheck' = crossCheck /\ ritual' = ritual
        /\ stage' = stage
    BY DEF vars
  <1>2. IdentifyInv' /\ PrivlogInv'
    BY <1>1, ChecksRead, ChecksReadVerdicts DEF ChecksInv, IdentifyInv, PrivlogInv
  <1>3. CompletenessInv' /\ CrossCheckInv' /\ RitualInv'
    BY <1>1, ChecksRead, ChecksReadVerdicts
    DEF ChecksInv, CompletenessInv, CrossCheckInv, RitualInv
  <1> QED BY <1>1, <1>2, <1>3 DEF ChecksInv, IsBundle

(* Every display of the bundle page is what its check says of the bundle that was
   loaded, from its own stage to the end of loadBundle. *)
THEOREM ChecksCorrect == Spec => []ChecksInv
  <1>1. ChecksInv /\ [Next]_vars => ChecksInv'
    BY IdentifyOK, PrivlogOK, CompletenessOK, CrossCheckOK, RitualOK, StutterOK DEF Next
  <1> QED BY InitOK, <1>1, PTL DEF Spec

-----------------------------------------------------------------------------
(* The theorems.                                                            *)

LEMMA DescendantsFromChecks == ChecksInv => CitesExactlyDescendants
  <1> SUFFICES ASSUME ChecksInv, Done, NEW k \in Places
               PROVE  notes[k] = "cites_altered" <=>
                          /\ records[k].id \notin AlteredIds
                          /\ Ancestors(records[k]) \cap AlteredIds # {}
    BY DEF CitesExactlyDescendants
  <1>1. IsBundle(bundle) /\ notes = annotateRecords
    BY DEF ChecksInv, PrivlogInv, Done, After, Stages
  <1>2. CitesAltered(records[k]) <=> Ancestors(records[k]) \cap AlteredIds # {}
    BY <1>1, CitesIsDescends
  <1>3. notes[k] = CASE records[k].id \in AlteredIds -> "digest_mismatch"
                     [] OTHER -> IF CitesAltered(records[k]) THEN "cites_altered" ELSE "verifies"
    BY <1>1 DEF annotateRecords
  <1> QED BY <1>2, <1>3

(* Whatever the chain of the bundle looks like, with cycles, repeated ids and
   parents that are not there, annotateRecords marks "cites_altered" exactly the
   unaltered records with an altered ancestor, for bundles of any length. *)
THEOREM WalkIsExact == Spec => []CitesExactlyDescendants
  BY ChecksCorrect, DescendantsFromChecks, PTL

LEMMA NoHoleFromChecks == ChecksInv => NoHoleBelowTheFirst
  <1> SUFFICES ASSUME ChecksInv, Done, ritual.Sequence = "pass", NEW k \in Places \ {1}
               PROVE  Ancestors(records[k]) \subseteq Ids \cup
                        (IF records[1].id \in Ancestors(records[k]) THEN {records[1].parent} ELSE {})
    BY DEF NoHoleBelowTheFirst
  <1> DEFINE Anc == Ancestors(records[k])
             A == {a \in Names : \A S \in Upward(records[k]) : a \in S}
             X == IF records[1].id \in Anc THEN {records[1].parent} ELSE {}
             T == A \cap (Ids \cup {NoId} \cup X)
  <1>1. IsBundle(bundle) /\ ritual = evaluateBundleRitual
    BY DEF ChecksInv, RitualInv, Done, After, Stages
  <1>2. SequenceStage = "pass"
    BY <1>1 DEF evaluateBundleRitual
  <1>3. findChainGaps = {}
    <2>1. Len(records) \in Nat
      BY <1>1, RecordsTyped
    <2>2. IsFiniteSet(Places)
      BY <2>1, FS_Interval DEF Places
    <2>3. IsFiniteSet({j \in Places : records[j].parent # NoId})
      BY <2>2, FS_Subset
    <2>4. Declared \in Nat
      BY <2>3, FS_CardinalityType DEF Declared
    <2> QED BY <1>2, <2>1, <2>4 DEF SequenceStage
  <1>4. \A j \in Places \ {1} : records[j].parent \in Ids \cup {NoId}
    BY <1>1, <1>3, RecordsTyped DEF findChainGaps, Places
  <1>5. Anc = A \ {NoId}
    BY DEF Ancestors
  <1>6. \A j \in Places : records[j].parent \in Names
    BY DEF Names
  <1>7. records[k].parent \in T
    BY <1>4, <1>6 DEF Upward
  <1>8. ASSUME NEW a \in T \cap Ids PROVE byId(a).parent \in T
    <2>1. PICK j \in Places : byId(a) = records[j] /\ records[j].id = a
      BY <1>1, ByIdIsARecord
    <2>2. byId(a).parent \in A
      BY <1>6, <2>1 DEF Upward
    <2>3. CASE j # 1
      BY <1>4, <2>1, <2>2, <2>3
    <2>4. CASE j = 1
      <3>1. a \in Anc
        BY <1>5 DEF Ids
      <3> QED BY <2>1, <2>2, <2>4, <3>1
    <2> QED BY <2>3, <2>4
  <1>9. T \in Upward(records[k])
    BY <1>7, <1>8 DEF Upward
  <1>10. A \subseteq T
    BY <1>9
  <1> QED BY <1>5, <1>10

LEMMA GreenFromChecks ==
    ASSUME ChecksInv, Done, bundle.crypto, bundle.cert.kind = "range",
           ritual.Integrity = "pass", completeness = "pass", crossCheck = "pass"
    PROVE  /\ [k \in Places |-> records[k].id] = bundle.cert.committed
           /\ \A k \in Places : records[k].id # NoId =>
                 records[k].body = "ok" /\ records[k].disc # "mismatch"
           /\ \A k \in Places : records[k].id # NoId => bundle.report[records[k].id] # "bad"
  <1>1. /\ IsBundle(bundle) /\ ritual = evaluateBundleRitual
        /\ integrity = [k \in Places |-> verifyCapsuleId(records[k])]
        /\ completeness = checkCompleteness /\ crossCheck = crossCheckSelfReport
    BY DEF ChecksInv, RitualInv, IdentifyInv, CompletenessInv, CrossCheckInv, Done, After, Stages
  <1>2. [k \in Places |-> RawId(records[k])] = bundle.cert.committed
    BY <1>1 DEF checkCompleteness
  <1>3. \A k \in Places : RawId(records[k]) # NoId
    <2>1. bundle.cert.committed \in Seq(STRING \ {NoId})
      BY <1>1 DEF IsBundle
    <2>2. DOMAIN bundle.cert.committed = Places
      BY <1>2
    <2>3. \A k \in Places : bundle.cert.committed[k] \in STRING \ {NoId}
      BY <2>1, <2>2
    <2> QED BY <1>2, <2>3
  <1>4. \A k \in Places : ~records[k].wrapped /\ RawId(records[k]) = records[k].id
    BY <1>3 DEF RawId
  <1>5. BodyAltered = {} /\ DisclosureAltered = {}
    BY <1>1 DEF evaluateBundleRitual
  <1>6. [k \in Places |-> records[k].id] = bundle.cert.committed
    BY <1>2, <1>4
  <1>7. ASSUME NEW k \in Places, records[k].id # NoId
        PROVE  /\ records[k].body = "ok" /\ records[k].disc # "mismatch"
               /\ bundle.report[records[k].id] # "bad"
    <2>1. integrity[k] # "bad" /\ verifyCapsuleDigests(records[k]) # "mismatch"
      BY <1>3, <1>5 DEF BodyAltered, DisclosureAltered
    <2>2. records[k].body \in {"ok", "bad"}
      BY <1>1, RecordsTyped DEF Record
    <2>3. integrity[k] = records[k].body
      BY <1>1, <1>7 DEF verifyCapsuleId
    <2>4. records[k].disc # "mismatch"
      BY <1>4, <1>7, <2>1 DEF verifyCapsuleDigests
    <2>5. bundle.report[records[k].id] \in {"none", "ok"}
      BY <1>1, <1>3, <2>1 DEF crossCheckSelfReport
    <2> QED BY <2>1, <2>2, <2>3, <2>4, <2>5
  <1> QED BY <1>6, <1>7

(* For bundles of any length: a green Sequence means no record below the first is
   missing, and four green stages over a legacy certificate mean that the records
   are the committed ones, in order, unaltered, none hidden in an envelope. *)
THEOREM GreenIsGenuine == Spec => []AllGreenMeansGenuine
  <1>1. ChecksInv => AllGreenMeansGenuine
    BY NoHoleFromChecks, GreenFromChecks DEF AllGreenMeansGenuine
  <1> QED BY <1>1, ChecksCorrect, PTL

LEMMA DisplaysFromChecks == ChecksInv => BareDisplaysAgree
  <1> SUFFICES ASSUME ChecksInv, Done, \A k \in Places : ~records[k].wrapped
               PROVE  LET shown == {k \in Places : privlog[k] = "mismatch" \/ integrity[k] = "bad"}
                      IN  /\ ritual.Integrity = "fail" <=>
                                \E k \in Places : privlog[k] = "mismatch" \/ notes[k] = "digest_mismatch"
                          /\ shown # {} => ritual.finding[2] = Min(shown)
                          /\ ritual.finding = << >> <=> (shown = {} /\ ritual.Sequence # "fail")
    BY Zenon DEF BareDisplaysAgree
  <1> DEFINE shown == {k \in Places : privlog[k] = "mismatch" \/ integrity[k] = "bad"}
             altered == BodyAltered \cup DisclosureAltered
  <1>1. /\ IsBundle(bundle) /\ ritual = evaluateBundleRitual
        /\ integrity = [k \in Places |-> verifyCapsuleId(records[k])]
        /\ privlog = [k \in Places |-> verifyCapsuleDigests(records[k])]
        /\ notes = annotateRecords
    BY DEF ChecksInv, RitualInv, IdentifyInv, PrivlogInv, Done, After, Stages
  <1>2. \A k \in Places : integrity[k] = "bad" => records[k].id # NoId
    BY <1>1 DEF verifyCapsuleId
  <1>3. \A k \in Places : privlog[k] = "mismatch" => records[k].id # NoId
    BY <1>1 DEF verifyCapsuleDigests
  <1>4. \A k \in Places : RawId(records[k]) = records[k].id
    BY DEF RawId
  <1>5. altered = shown
    BY <1>1, <1>2, <1>3, <1>4 DEF BodyAltered, DisclosureAltered
  <1>6. \A k \in Places : notes[k] = "digest_mismatch" <=> records[k].id \in AlteredIds
    BY <1>1 DEF annotateRecords
  <1>7. (\E k \in Places : privlog[k] = "mismatch" \/ notes[k] = "digest_mismatch") <=> shown # {}
    <2>1. ASSUME NEW k \in Places, records[k].id \in AlteredIds PROVE shown # {}
      BY <2>1 DEF AlteredIds, capMismatched
    <2>2. ASSUME NEW k \in Places, integrity[k] = "bad" PROVE records[k].id \in AlteredIds
      BY <1>2, <2>2 DEF AlteredIds
    <2> QED BY <1>6, <2>1, <2>2
  <1> DEFINE first == Min(altered)
  <1>8. /\ ritual.Integrity = IF altered = {} THEN "pass" ELSE "fail"
        /\ ritual.Sequence = SequenceStage
        /\ ritual.finding = CASE altered # {} ->
                                   <<IF first \in BodyAltered THEN "body" ELSE "disclosure", first>>
                              [] altered = {} /\ SequenceStage = "fail" -> <<"gap", Min(findChainGaps)>>
                              [] OTHER -> << >>
    BY <1>1 DEF evaluateBundleRitual
  <1> HIDE DEF altered, first
  <1>9. altered # {} => ritual.finding[2] = first /\ ritual.finding # << >>
    BY <1>8
  <1>10. altered = {} => (ritual.finding = << >> <=> SequenceStage # "fail")
    BY <1>8
  <1>11. ritual.Integrity = "fail" <=> altered # {}
    BY <1>8
  <1>12. first = Min(shown)
    BY <1>5 DEF first
  <1> HIDE DEF shown
  <1>13. /\ ritual.Integrity = "fail" <=>
                \E k \in Places : privlog[k] = "mismatch" \/ notes[k] = "digest_mismatch"
         /\ shown # {} => ritual.finding[2] = Min(shown)
         /\ ritual.finding = << >> <=> (shown = {} /\ ritual.Sequence # "fail")
    BY <1>5, <1>7, <1>8, <1>9, <1>10, <1>11, <1>12
  <1> QED BY <1>13, Zenon DEF shown

(* Over a bundle without envelopes, of any length, Integrity fails exactly when the
   privilege log or the records table shows an altered record, and the finding then
   names the first of them. *)
THEOREM DisplaysAgree == Spec => []BareDisplaysAgree
  BY ChecksCorrect, DisplaysFromChecks, PTL
===========================================================================
