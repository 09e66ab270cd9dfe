------------------------- MODULE CapsulePageProofs -------------------------
(***************************************************************************)
(* Proofs about the capsule page for any fragments and pasted items, any   *)
(* number of user steps, and any order in which renderings and the         *)
(* anchor's answer come back.                                              *)
(***************************************************************************)
EXTENDS CapsulePage, SequenceTheorems, TLAPS

\* The lemmas about reading an item are those of the renderer's proofs, which speak
\* of any item: no link is read here.
Parse == INSTANCE AacRitualProofs
            WITH Bundles <- {}, Mandates <- {}, link <- << >>, stage <- << >>, views <- << >>,
                 summary <- << >>, notes <- << >>, graphs <- << >>, ritual <- << >>,
                 table <- << >>, mandate <- << >>

\* A sequence, whatever its elements.
IsSeq(s) == s \in Seq(Range(s))

LEMMA AppendSeq ==
    ASSUME NEW s, IsSeq(s), NEW x
    PROVE  /\ IsSeq(Append(s, x))
           /\ \A k \in DOMAIN Append(s, x) : Append(s, x)[k] = x \/ \E j \in DOMAIN s : Append(s, x)[k] = s[j]
  <1> DEFINE T == Range(s) \cup {x}
             t == Append(s, x)
  <1>1. s \in Seq(T) /\ x \in T
    BY DEF IsSeq
  <1>2. /\ t \in Seq(T) /\ Len(t) = Len(s) + 1 /\ t[Len(s) + 1] = x
        /\ \A k \in 1 .. Len(s) : t[k] = s[k]
    BY <1>1, AppendProperties
  <1>3. DOMAIN t = 1 .. Len(t) /\ DOMAIN s = 1 .. Len(s) /\ Len(s) \in Nat
    BY <1>1, <1>2, LenProperties
  <1> HIDE DEF t
  <1>4. t \in Seq(Range(t))
    BY <1>2, <1>3 DEF Range
  <1> QED BY <1>2, <1>3, <1>4 DEF IsSeq, t

LEMMA RemoveSeq ==
    ASSUME NEW s, IsSeq(s), NEW i \in DOMAIN s
    PROVE  /\ IsSeq(RemoveAt(s, i))
           /\ \A k \in DOMAIN RemoveAt(s, i) : \E j \in DOMAIN s : RemoveAt(s, i)[k] = s[j]
  <1> DEFINE T == Range(s)
             a == SubSeq(s, 1, i - 1)
             b == SubSeq(s, i + 1, Len(s))
             t == RemoveAt(s, i)
  <1>1. s \in Seq(T) /\ DOMAIN s = 1 .. Len(s) /\ Len(s) \in Nat /\ i \in 1 .. Len(s)
    BY LenProperties DEF IsSeq
  <1>2. a \in Seq(T) /\ b \in Seq(T)
    BY <1>1
  <1>3. t \in Seq(T)
    BY <1>2 DEF RemoveAt
  <1>4. \A k \in DOMAIN t : t[k] \in T
    BY <1>3
  <1> HIDE DEF t, a, b
  <1>5. t \in Seq(Range(t))
    <2>1. DOMAIN t = 1 .. Len(t) /\ Len(t) \in Nat
      BY <1>3, LenProperties
    <2> QED BY <1>3, <2>1 DEF Range
  <1> QED BY <1>4, <1>5 DEF IsSeq, Range, t

-----------------------------------------------------------------------------
(* The inductive invariants.                                               *)

\* The inclusion-only view and the receipt's rows.
LoadInv == /\ loaded \in BOOLEAN /\ inclusion \in BOOLEAN
           /\ AnswerMeetsLoad

\* Until the reader does something, the item the answer waits for is the first
\* of the fragment, and the green banner is never over an altered one.
GatedInv ==
    /\ steps \in Nat
    /\ stage \in {"loading", "loaded"}
    /\ answer # "pending" => stage = "loaded"
    /\ steps = 0 /\ stage = "loaded" /\ HasItems => focal = fragment.items[1]
    /\ steps = 0 /\ answer # "pending" /\ HasItems => gate = fragment.items[1]
    /\ banner = "anchored" => answer # "pending" /\ verifyCapsuleId(gate) # "bad"

\* What call c of renderRitual shows of the witness is earned by fragment f, or
\* by the answer a.
Earned(c, f, a) ==
    /\ checkWitness(c.witness, Len(c.items)) = "pass" =>
          \/ f.witness.held >= Len(c.items) /\ f.witness.configured >= Len(c.items)
          \/ a = "verified" /\ Len(c.items) = 1
    /\ checkWitness(c.witness, Len(c.items)) = "fail" =>
          a \in {"failed", "unchecked"} \/ f.witness.verified = "false"

\* So is every ritual under way, and the one that is shown.
RitualsEarned ==
    /\ IsSeq(rituals)
    /\ \A k \in DOMAIN rituals : Earned(rituals[k], fragment, answer)
    /\ ritual = NoRitual \/ Earned(ritual, fragment, answer)

EarnedInv ==
    /\ IsFragment(fragment) /\ IsFragment(hash)
    /\ answer \in Answers \cup {"pending"}
    /\ RitualsEarned

-----------------------------------------------------------------------------
(* The answer meets the load.                                              *)

\* Whatever is loaded, a capsule on the page hides the inclusion-only view and
\* its panel has no receipt yet.
LEMMA LoadKeeps ==
    ASSUME LoadInv, NEW item, loadCapsule(item), banner' = banner
    PROVE  LoadInv'
  <1> DEFINE through == detectProfile(item) # "unknown" /\ ~PanelThrows(item)
  <1>1. /\ loaded' = (loaded \/ through) /\ inclusion' = (inclusion /\ ~through)
        /\ reg' = IF through THEN [item |-> item, hasReceipt |-> FALSE] ELSE reg
    BY DEF loadCapsule, InclusionAfter, ReceiptOnLoad
  <1> HIDE DEF through
  <1>2. loaded' \in BOOLEAN /\ inclusion' \in BOOLEAN /\ (inclusion' => ~loaded')
    BY <1>1 DEF LoadInv, AnswerMeetsLoad
  <1>3. reg'.hasReceipt => reg.hasReceipt
    BY <1>1
  <1> QED BY <1>2, <1>3 DEF LoadInv, AnswerMeetsLoad

LEMMA LoadInvStep ==
    ASSUME LoadInv, [Next]_vars
    PROVE  LoadInv'
  <1>1. CASE UNCHANGED <<reg, loaded, inclusion, banner>>
    BY <1>1 DEF LoadInv, AnswerMeetsLoad
  <1>2. CASE RunScript
    <2>1. CASE HasItems
      BY <1>2, <2>1, LoadKeeps DEF RunScript
    <2>2. CASE ~HasItems
      BY <1>1, <1>2, <2>2 DEF RunScript
    <2> QED BY <2>1, <2>2
  <1>3. ASSUME NEW item \in Pasted, Paste(item) PROVE LoadInv'
    BY <1>3, LoadKeeps DEF Paste
  <1>4. ASSUME NEW idx \in DOMAIN fragment.items, Navigate(idx) PROVE LoadInv'
    BY <1>4, LoadKeeps DEF Navigate
  <1>5. CASE Reload
    BY <1>5 DEF Reload, NoPanel, LoadInv, AnswerMeetsLoad
  <1>6. CASE FinishSome
    BY <1>1, <1>6 DEF FinishSome, FinishRender, FinishHash, FinishRitual
  <1>7. ASSUME NEW s \in Answers, AnswerArrives(s) PROVE LoadInv'
    BY <1>1, <1>7 DEF AnswerArrives
  <1>8. CASE ApplyAnswer
    <2>1. banner = "checking" /\ loaded' = loaded /\ ~reg.hasReceipt
      BY <1>8 DEF ApplyAnswer, LoadInv, AnswerMeetsLoad
    <2>2. \/ reg' = reg /\ inclusion' = inclusion
          \/ /\ banner' = "anchored" /\ inclusion' = ~loaded
      BY <1>8 DEF ApplyAnswer, Anchored, Unreachable
    <2>3. CASE reg' = reg /\ inclusion' = inclusion
      BY <2>1, <2>3 DEF LoadInv, AnswerMeetsLoad
    <2>4. CASE banner' = "anchored" /\ inclusion' = ~loaded
      BY <2>1, <2>4, Zenon DEF LoadInv, AnswerMeetsLoad
    <2> QED BY <2>2, <2>3, <2>4
  <1> QED BY <1>1, <1>2, <1>3, <1>4, <1>5, <1>6, <1>7, <1>8 DEF Next, vars

\* The inclusion-only view is never beside a capsule, and receipt rows are only
\* under the green banner, in whichever order the answer and the loads come.
THEOREM PageAnswerMeetsLoad == Spec => []AnswerMeetsLoad
  <1>1. Init => LoadInv
    <2> SUFFICES ASSUME Init PROVE LoadInv
      OBVIOUS
    <2>1. loaded = FALSE /\ inclusion = FALSE /\ reg = NoPanel
      BY DEF Init, FreshPage
    <2>2. ~reg.hasReceipt
      BY <2>1 DEF NoPanel
    <2> QED BY <2>1, <2>2, Zenon DEF LoadInv, AnswerMeetsLoad
  <1>2. LoadInv /\ [Next]_vars => LoadInv'
    BY LoadInvStep
  <1>3. LoadInv => AnswerMeetsLoad
    BY DEF LoadInv
  <1> QED BY <1>1, <1>2, <1>3, PTL DEF Spec

-----------------------------------------------------------------------------
(* The untouched page.                                                     *)

LEMMA GatedInvStep ==
    ASSUME GatedInv, [Next]_vars
    PROVE  GatedInv'
  <1>1. CASE UNCHANGED <<fragment, stage, focal, answer, gate, banner, steps>>
    BY <1>1 DEF GatedInv, HasItems
  <1>2. CASE RunScript
    <2>1. /\ stage = "loading" /\ stage' = "loaded" /\ UNCHANGED <<fragment, answer, gate, banner, steps>>
      BY <1>2 DEF RunScript
    <2>2. HasItems => focal' = fragment.items[1]
      BY <1>2 DEF RunScript, loadCapsule
    <2>3. HasItems' <=> HasItems
      BY <2>1 DEF HasItems
    <2>4. verifyCapsuleId(gate)' = verifyCapsuleId(gate)
      BY <2>1 DEF verifyCapsuleId, _unwrap
    <2> QED BY <2>1, <2>2, <2>3, <2>4 DEF GatedInv
  <1>3. CASE UserStep /\ UNCHANGED <<fragment, stage, answer, gate, banner>>
    <2>1. steps' \in Nat /\ steps' # 0
      BY <1>3 DEF UserStep, GatedInv
    <2>2. verifyCapsuleId(gate)' = verifyCapsuleId(gate)
      BY <1>3 DEF verifyCapsuleId, _unwrap
    <2> QED BY <1>3, <2>1, <2>2 DEF GatedInv
  <1>4. CASE Reload
    <2>1. steps' \in Nat /\ steps' # 0
      BY <1>4 DEF Reload, UserStep, GatedInv
    <2> QED BY <1>4, <2>1 DEF Reload, GatedInv
  <1>5. CASE FinishSome
    BY <1>1, <1>5 DEF FinishSome, FinishRender, FinishHash, FinishRitual
  <1>6. ASSUME NEW s \in Answers, AnswerArrives(s) PROVE GatedInv'
    <2>1. /\ stage = "loaded" /\ answer = "pending" /\ answer' = s /\ gate' = focal
          /\ UNCHANGED <<fragment, stage, focal, banner, steps>>
      BY <1>6 DEF AnswerArrives, GateItem
    <2>2. banner # "anchored" /\ (HasItems' <=> HasItems)
      BY <2>1 DEF GatedInv, HasItems
    <2> QED BY <2>1, <2>2 DEF GatedInv
  <1>7. CASE ApplyAnswer
    <2>1. /\ answer # "pending" /\ UNCHANGED <<fragment, stage, focal, answer, gate, steps>>
      BY <1>7 DEF ApplyAnswer
    <2>2. banner' = "anchored" => verifyCapsuleId(gate) # "bad"
      BY <1>7 DEF ApplyAnswer, Unreachable
    <2>3. /\ verifyCapsuleId(gate)' = verifyCapsuleId(gate)
          /\ HasItems' <=> HasItems
      BY <2>1 DEF verifyCapsuleId, _unwrap, HasItems
    <2> QED BY <2>1, <2>2, <2>3 DEF GatedInv
  <1>8. ASSUME NEW item, Paste(item) PROVE GatedInv'
    BY <1>3, <1>8 DEF Paste
  <1>9. ASSUME NEW idx, Navigate(idx) PROVE GatedInv'
    BY <1>3, <1>9 DEF Navigate
  <1> QED BY <1>1, <1>2, <1>4, <1>5, <1>6, <1>7, <1>8, <1>9 DEF Next, vars

\* Until the reader does something, the page never says "anchored" over a first
\* capsule whose body does not hash to its id.
THEOREM PageIsGated == Spec => []UntouchedPageIsGated
  <1>1. Init => GatedInv
    BY DEF Init, FreshPage, GatedInv
  <1>2. GatedInv /\ [Next]_vars => GatedInv'
    BY GatedInvStep
  <1>3. GatedInv => UntouchedPageIsGated
    BY DEF GatedInv, UntouchedPageIsGated
  <1> QED BY <1>1, <1>2, <1>3, PTL DEF Spec

-----------------------------------------------------------------------------
(* The witness stage is earned.                                            *)

\* An answer disproves and proves nothing before it has come.
LEMMA EarnedLater ==
    ASSUME NEW c, NEW f, NEW a, Earned(c, f, "pending")
    PROVE  Earned(c, f, a)
  BY DEF Earned

\* A ritual with the fragment's own witness is earned by the fragment.
LEMMA FragmentEarns ==
    ASSUME NEW f, IsFragment(f), NEW items, Len(items) \in Nat, NEW a
    PROVE  Earned(Call(items, f.witness), f, a)
  <1> DEFINE c == Call(items, f.witness)
             n == Len(items)
             w == f.witness
  <1>1. c.witness = w /\ c.items = items
    BY DEF Call
  <1>2. w.held \in Int /\ w.configured \in Int
    BY DEF IsFragment
  <1> HIDE DEF c, n, w
  <1>3. checkWitness(w, n) = "fail" => w.verified = "false"
    BY DEF checkWitness
  <1>4. checkWitness(w, n) = "pass" => ~(w.configured < n) /\ ~(w.held < n)
    BY DEF checkWitness
  <1>5. n \in Nat
    BY DEF n
  <1>6. checkWitness(w, n) = "pass" => w.configured >= n /\ w.held >= n
    BY <1>2, <1>4, <1>5
  <1>7. Earned(c, f, a)
    BY <1>1, <1>3, <1>6 DEF Earned, n, w
  <1> QED BY <1>7 DEF c, w

\* So is one without a witness, whatever it is about.
LEMMA NothingClaimed ==
    ASSUME NEW items, NEW f, NEW a
    PROVE  Earned(Call(items, NoWitness), f, a)
  <1>1. checkWitness(NoWitness, Len(items)) = "skip"
    BY DEF checkWitness
  <1>2. /\ Call(items, NoWitness).witness = NoWitness
        /\ Call(items, NoWitness).items = items
    BY DEF Call
  <1> QED BY <1>1, <1>2 DEF Earned

\* The witness states that stand for the anchor's answer.
LEMMA AnswerEarns ==
    ASSUME NEW items, Len(items) \in Nat \ {0}, NEW f, NEW a \in Answers
    PROVE  /\ Earned(Call(items, Witness(0, 0, "false", "none")), f, a)
           /\ Earned(Call(items, Witness(0, 0, "true", "none")), f, a)
           /\ Earned(Call(items, Witness(0, 1, "true", "none")), f, a)
           /\ a \notin {"unreachable", "standalone"} =>
                Earned(Call(items, Witness(1, 1, "true", IF a = "verified" THEN "true" ELSE "false")), f, a)
  <1> DEFINE n == Len(items)
  <1>1. n \in Nat /\ n > 0 /\ 0 < n
    OBVIOUS
  <1>2. \A w : Call(items, w).witness = w /\ Call(items, w).items = items
    BY DEF Call
  <1>3. \A h, c, r, v : /\ Witness(h, c, r, v).held = h /\ Witness(h, c, r, v).configured = c
                        /\ Witness(h, c, r, v).reachable = r /\ Witness(h, c, r, v).verified = v
    BY DEF Witness
  <1> HIDE DEF n
  <1>4. checkWitness(Witness(0, 0, "false", "none"), n) = "skip"
    BY <1>3 DEF checkWitness
  <1>5. checkWitness(Witness(0, 0, "true", "none"), n) = "skip"
    BY <1>1, <1>3 DEF checkWitness
  <1>6. checkWitness(Witness(0, 1, "true", "none"), n) = "skip"
    BY <1>1, <1>3 DEF checkWitness
  <1>7. checkWitness(Witness(1, 1, "true", "true"), n) = "pass" => ~(1 < n)
    BY <1>3 DEF checkWitness
  <1>8. checkWitness(Witness(1, 1, "true", "true"), n) # "fail"
    BY <1>3 DEF checkWitness
  <1>9. checkWitness(Witness(1, 1, "true", "false"), n) # "pass"
    BY <1>3 DEF checkWitness
  <1>10. ASSUME a = "verified"
         PROVE  Earned(Call(items, Witness(1, 1, "true", "true")), f, a)
    <2>1. checkWitness(Witness(1, 1, "true", "true"), n) = "pass" => n = 1
      BY <1>1, <1>7
    <2> QED BY <1>2, <1>8, <1>10, <2>1 DEF Earned, n
  <1>11. ASSUME a \in {"failed", "unchecked"}
         PROVE  Earned(Call(items, Witness(1, 1, "true", "false")), f, a)
    BY <1>2, <1>9, <1>11 DEF Earned, n
  <1>12. \A w : checkWitness(w, n) = "skip" => Earned(Call(items, w), f, a)
    BY <1>2 DEF Earned, n
  <1>13. a \notin {"unreachable", "standalone"} => a = "verified" \/ a \in {"failed", "unchecked"}
    BY DEF Answers
  <1> QED BY <1>4, <1>5, <1>6, <1>10, <1>11, <1>12, <1>13

\* A call whose witness is earned may be queued, or shown at once.
LEMMA RitualQueued ==
    ASSUME RitualsEarned, NEW items, NEW w, Earned(Call(items, w), fragment, answer),
           rituals' = Queued(items, w) \/ rituals' = rituals,
           ritual' = Call(items, w) \/ ritual' = ritual,
           UNCHANGED <<fragment, answer>>
    PROVE  RitualsEarned'
  <1> DEFINE c == Call(items, w)
  <1>1. ritual' = NoRitual \/ Earned(ritual', fragment, answer)
    BY DEF RitualsEarned
  <1>2. rituals' = rituals \/ rituals' = Append(rituals, c)
    BY DEF Queued
  <1>3. CASE rituals' = rituals
    BY <1>1, <1>3 DEF RitualsEarned
  <1>4. CASE rituals' = Append(rituals, c)
    <2> HIDE DEF c
    <2>1. IsSeq(rituals)
      BY DEF RitualsEarned
    <2>2. /\ IsSeq(rituals')
          /\ \A k \in DOMAIN rituals' : rituals'[k] = c \/ \E j \in DOMAIN rituals : rituals'[k] = rituals[j]
      BY <1>4, <2>1, AppendSeq
    <2>3. Earned(c, fragment, answer)
      BY DEF c
    <2>4. \A k \in DOMAIN rituals' : Earned(rituals'[k], fragment, answer)
      BY <2>2, <2>3 DEF RitualsEarned
    <2> QED BY <1>1, <2>2, <2>4 DEF RitualsEarned
  <1> QED BY <1>2, <1>3, <1>4

LEMMA NothingQueued ==
    ASSUME NEW s, s = << >>
    PROVE  IsSeq(s) /\ DOMAIN s = {}
  <1>1. s \in Seq(Range(s)) /\ s \in Seq({}) /\ Len(s) = 0
    OBVIOUS
  <1>2. DOMAIN s = 1 .. 0
    BY <1>1, LenProperties
  <1> QED BY <1>1, <1>2 DEF IsSeq

LEMMA SingleFragment ==
    ASSUME NEW item, IsItem(item)
    PROVE  IsFragment([form |-> "single", items |-> <<item>>, witness |-> NoWitness])
  <1> DEFINE f == [form |-> "single", items |-> <<item>>, witness |-> NoWitness]
  <1>1. f.form = "single" /\ f.items = <<item>> /\ f.witness = NoWitness
    OBVIOUS
  <1>2. /\ <<item>> \in Seq(Range(<<item>>)) /\ <<item>> # << >>
        /\ \A k \in DOMAIN <<item>> : IsItem(<<item>>[k])
    BY DEF Range
  <1>3. NoWitness.held \in Int /\ NoWitness.configured \in Int
    BY DEF NoWitness
  <1> HIDE DEF f
  <1>4. IsFragment(f)
    BY <1>1, <1>2, <1>3 DEF IsFragment
  <1> QED BY <1>4 DEF f

\* The address bar holds a fragment after a load.
LEMMA HashKept ==
    ASSUME IsFragment(hash), NEW item, IsItem(item), loadCapsule(item)
    PROVE  IsFragment(hash')
  <1>1. hash' = hash \/ hash' = [form |-> "single", items |-> <<item>>, witness |-> NoWitness]
    BY DEF loadCapsule
  <1> QED BY <1>1, SingleFragment

LEMMA ItemsLen ==
    ASSUME NEW f, IsFragment(f)
    PROVE  /\ Len(f.items) \in Nat
           /\ f.form \in {"single", "array", "wrapper"} => Len(f.items) \in Nat \ {0} /\ IsItem(f.items[1])
  BY LenProperties DEF IsFragment

LEMMA RunScriptEarns ==
    ASSUME EarnedInv, RunScript
    PROVE  EarnedInv'
  <1>1. UNCHANGED <<fragment, answer>>
    BY DEF RunScript
  <1>2. IsFragment(fragment) /\ IsFragment(hash) /\ RitualsEarned
    BY DEF EarnedInv
  <1>3. IsFragment(hash')
    BY <1>2, HashKept, ItemsLen DEF RunScript, HasItems
  <1>4. RitualsEarned'
    <2>1. CASE ~HasItems
      <3>1. UNCHANGED <<rituals, ritual>>
        BY <2>1 DEF RunScript
      <3> QED BY <1>1, <1>2, <3>1 DEF RitualsEarned
    <2>2. CASE HasItems
      <3> DEFINE items == fragment.items
                 w == fragment.witness
      <3>1. Earned(Call(items, w), fragment, answer)
        BY <1>2, ItemsLen, FragmentEarns
      <3>2. Earned(Call(<<Other>>, NoWitness), fragment, answer)
        BY NothingClaimed
      <3>3. /\ rituals' = Queued(items, w) \/ rituals' = rituals
            /\ \/ ritual' = Call(items, w) \/ ritual' = ritual
               \/ ritual' = Call(<<Other>>, NoWitness) /\ (rituals' = Queued(items, w) \/ rituals' = rituals)
        BY <2>2 DEF RunScript, RitualOfFirstBlock
      <3>4. CASE ritual' = Call(items, w) \/ ritual' = ritual
        BY <1>1, <1>2, <3>1, <3>3, <3>4, RitualQueued
      <3>5. CASE ritual' = Call(<<Other>>, NoWitness)
        <4>1. CASE rituals' = rituals
          BY <1>1, <1>2, <3>2, <3>5, <4>1 DEF RitualsEarned
        <4>2. CASE rituals' = Append(rituals, Call(items, w))
          <5> DEFINE c == Call(items, w)
          <5>1. IsSeq(rituals)
            BY <1>2 DEF RitualsEarned
          <5>2. /\ IsSeq(rituals')
                /\ \A k \in DOMAIN rituals' : \/ rituals'[k] = c
                                              \/ \E j \in DOMAIN rituals : rituals'[k] = rituals[j]
            BY <4>2, <5>1, AppendSeq
          <5>3. \A k \in DOMAIN rituals' : Earned(rituals'[k], fragment, answer)
            BY <1>2, <3>1, <5>2 DEF RitualsEarned
          <5> QED BY <1>1, <3>2, <3>5, <5>2, <5>3 DEF RitualsEarned
        <4> QED BY <3>3, <4>1, <4>2 DEF Queued
      <3> QED BY <3>3, <3>4, <3>5
    <2> QED BY <2>1, <2>2
  <1> QED BY <1>1, <1>2, <1>3, <1>4 DEF EarnedInv

LEMMA NavigateEarns ==
    ASSUME EarnedInv, NEW idx \in DOMAIN fragment.items, Navigate(idx)
    PROVE  EarnedInv'
  <1>1. UNCHANGED <<fragment, answer>> /\ loadCapsule(fragment.items[idx])
    BY DEF Navigate
  <1>2. IsFragment(fragment) /\ IsFragment(hash) /\ RitualsEarned
    BY DEF EarnedInv
  <1>3. IsFragment(hash')
    BY <1>1, <1>2, HashKept DEF IsFragment
  <1>4. Earned(Call(fragment.items, fragment.witness), fragment, answer)
    BY <1>2, ItemsLen, FragmentEarns
  <1>5. \/ UNCHANGED <<rituals, ritual>>
        \/ renderRitual(fragment.items, fragment.witness)
    BY DEF Navigate
  <1>6. RitualsEarned'
    BY <1>1, <1>2, <1>4, <1>5, RitualQueued DEF renderRitual
  <1> QED BY <1>1, <1>2, <1>3, <1>6 DEF EarnedInv

LEMMA ApplyEarns ==
    ASSUME EarnedInv, ApplyAnswer
    PROVE  EarnedInv'
  <1>1. /\ UNCHANGED <<fragment, hash, answer>> /\ answer \in Answers
        /\ IsFragment(fragment) /\ RitualsEarned
    BY DEF ApplyAnswer, EarnedInv
  <1>2. \E w : /\ RitualWith(w)
               /\ \/ w \in {Witness(0, 0, "false", "none"), Witness(0, 0, "true", "none"),
                            Witness(0, 1, "true", "none")}
                  \/ /\ answer \notin {"unreachable", "standalone"}
                     /\ w = Witness(1, 1, "true", IF answer = "verified" THEN "true" ELSE "false")
    BY DEF ApplyAnswer, Anchored, Unreachable
  <1>3. RitualItems # << >> => Len(RitualItems) \in Nat \ {0}
    BY <1>1, ItemsLen DEF RitualItems
  <1>4. ASSUME NEW w, RitualWith(w), RitualItems # << >>, Earned(Call(RitualItems, w), fragment, answer)
        PROVE  RitualsEarned'
    BY <1>1, <1>4, RitualQueued DEF RitualWith, renderRitual
  <1>5. CASE RitualItems = << >>
    <2>1. UNCHANGED <<rituals, ritual>>
      BY <1>2, <1>5 DEF RitualWith
    <2> QED BY <1>1, <2>1 DEF EarnedInv, RitualsEarned
  <1>6. CASE RitualItems # << >>
    <2>1. RitualsEarned'
      BY <1>1, <1>2, <1>3, <1>4, <1>6, AnswerEarns
    <2> QED BY <1>1, <2>1 DEF EarnedInv
  <1> QED BY <1>5, <1>6

LEMMA EarnedInvStep ==
    ASSUME EarnedInv, [Next]_vars
    PROVE  EarnedInv'
  <1>0. IsFragment(hash) /\ RitualsEarned
    BY DEF EarnedInv
  <1>1. CASE UNCHANGED <<fragment, hash, answer, rituals, ritual>>
    BY <1>1 DEF EarnedInv, RitualsEarned
  <1>2. ASSUME NEW item \in Pasted, Paste(item) PROVE EarnedInv'
    <2>1. UNCHANGED <<fragment, answer, rituals, ritual>> /\ IsFragment(hash')
      BY <1>0, <1>2, HashKept, PastedAssumption DEF Paste
    <2> QED BY <2>1 DEF EarnedInv, RitualsEarned
  <1>3. CASE Reload
    <2>1. /\ fragment' = hash /\ hash' = hash /\ answer' = "pending" /\ rituals' = << >> /\ ritual' = NoRitual
      BY <1>3 DEF Reload
    <2>2. RitualsEarned'
      BY <2>1, NothingQueued DEF RitualsEarned
    <2> QED BY <1>0, <2>1, <2>2 DEF EarnedInv
  <1>4. CASE \E k \in DOMAIN rituals : FinishRitual(k)
    <2>1. PICK k \in DOMAIN rituals : FinishRitual(k)
      BY <1>4
    <2>2. /\ ritual' = rituals[k] /\ rituals' = RemoveAt(rituals, k) /\ UNCHANGED <<fragment, hash, answer>>
      BY <2>1 DEF FinishRitual
    <2>3. /\ IsSeq(rituals')
          /\ \A j \in DOMAIN rituals' : \E i \in DOMAIN rituals : rituals'[j] = rituals[i]
      BY <1>0, <2>2, RemoveSeq DEF RitualsEarned
    <2>4. RitualsEarned'
      BY <1>0, <2>2, <2>3 DEF RitualsEarned
    <2> QED BY <2>2, <2>4 DEF EarnedInv
  <1>5. CASE FinishSome
    <2>1. CASE \E k \in DOMAIN renders : FinishRender(k)
      BY <1>1, <2>1 DEF FinishRender
    <2>2. CASE \E k \in DOMAIN hashing : FinishHash(k)
      BY <1>1, <2>2 DEF FinishHash
    <2> QED BY <1>4, <1>5, <2>1, <2>2 DEF FinishSome
  <1>6. ASSUME NEW s \in Answers, AnswerArrives(s) PROVE EarnedInv'
    <2>1. answer = "pending" /\ answer' = s /\ UNCHANGED <<fragment, hash, rituals, ritual>>
      BY <1>6 DEF AnswerArrives
    <2>2. \A c : Earned(c, fragment, answer) => Earned(c, fragment, s)
      BY <2>1, EarnedLater
    <2>3. RitualsEarned'
      BY <1>0, <2>1, <2>2 DEF RitualsEarned
    <2> QED BY <2>1, <2>3 DEF EarnedInv
  <1> QED BY <1>1, <1>2, <1>3, <1>5, <1>6, RunScriptEarns, NavigateEarns, ApplyEarns DEF Next, vars

\* What the page shows of the witness, with any number of renderings under way
\* and whatever the reader does, is earned by the fragment or by the answer.
THEOREM PageWitnessIsEarned == Spec => []WitnessIsEarned
  <1>1. Init => EarnedInv
    <2> SUFFICES ASSUME Init PROVE EarnedInv
      OBVIOUS
    <2>1. /\ IsFragment(fragment) /\ hash = fragment /\ answer = "pending" /\ rituals = << >>
          /\ ritual = NoRitual
      BY FragmentsAssumption DEF Init, FreshPage
    <2> QED BY <2>1, NothingQueued DEF EarnedInv, RitualsEarned
  <1>2. EarnedInv /\ [Next]_vars => EarnedInv'
    BY EarnedInvStep
  <1>3. EarnedInv => WitnessIsEarned
    BY DEF EarnedInv, RitualsEarned, Earned, WitnessIsEarned, WitnessShown
  <1> QED BY <1>1, <1>2, <1>3, PTL DEF Spec


-----------------------------------------------------------------------------
(* What the rows of the privilege log say.                                 *)

\* The operators here and the ones that the lemmas about reading are about.
LEMMA SameNames ==
    /\ Parse!NoDigest = NoDigest /\ Parse!NoPayload = NoPayload /\ Parse!NoDisclosures = NoDisclosures
    /\ Parse!NoCapsule = NoCapsule /\ Parse!EmptyView = EmptyView
    /\ \A v : Parse!NodeIds(v) = NodeIds(v)
    /\ \A d, t : Parse!Node(d, t) = Node(d, t)
    /\ \A t, d, p, m : Parse!LogEntry(t, d, p, m) = LogEntry(t, d, p, m)
    /\ \A p : Parse!jcs(p) = jcs(p)
    /\ \A item : Parse!_unwrap(item) = _unwrap(item)
    /\ \A e : Parse!termsRow(e) = termsRow(e)
  BY Zenon DEF Parse!NoDigest, NoDigest, Parse!NoPayload, NoPayload, Parse!NoDisclosures, NoDisclosures,
     Parse!NoCapsule, NoCapsule, Parse!EmptyView, EmptyView, Parse!_unwrap, _unwrap, Parse!NodeIds, NodeIds,
     Parse!Node, Node, Parse!LogEntry, LogEntry, Parse!jcs, jcs, Parse!termsRow, termsRow

\* They read the same references of a capsule.
LEMMA SameReferences == \A cap, disc : Parse!References(cap, disc) = References(cap, disc)
  BY Zenon DEF Parse!References, References, Parse!Ref, Ref, Parse!NoPayload, NoPayload

\* They draw the same edges.
LEMMA SameEdges ==
    /\ \A edges, edge : Parse!addEdge(edges, edge) = addEdge(edges, edge)
    /\ \A edges, from, to, label : Parse!drawEdge(edges, from, to, label) = drawEdge(edges, from, to, label)
  BY Zenon DEF Parse!drawEdge, drawEdge, Parse!addEdge, addEdge, Parse!Range, Range, Parse!NoDigest, NoDigest

\* They take up a reference in the same way,
LEMMA SameRef == \A g, id, ref : Parse!addRef(g, id, ref) = addRef(g, id, ref)
  <1> TAKE g, id, ref
  <1> DEFINE entry == LogEntry(ref.type, ref.digest, ref.payload, "null")
             edges == addEdge(g.edges, <<id, ref.digest, ref.edge>>)
             node == Node(ref.digest, ref.type)
             fresh == ref.digest \notin NodeIds(g)
  <1>1. Parse!LogEntry(ref.type, ref.digest, ref.payload, "null") = entry
    BY SameNames, Zenon
  <1>2. Parse!addEdge(g.edges, <<id, ref.digest, ref.edge>>) = edges
    BY SameEdges, Zenon
  <1>3. Parse!Node(ref.digest, ref.type) = node /\ Parse!NodeIds(g) = NodeIds(g) /\ Parse!NoDigest = NoDigest
    BY SameNames, Zenon
  <1> QED BY <1>1, <1>2, <1>3 DEF Parse!addRef, addRef

\* hence all the references of a capsule.
LEMMA SameExtract == \A g, cap, disc : Parse!extractCap(g, cap, disc) = extractCap(g, cap, disc)
  <1> TAKE g, cap, disc
  <1> DEFINE refs == References(cap, disc)
             F(f) == [n \in 0 .. Len(refs) |-> IF n = 0 THEN g ELSE addRef(f[n - 1], cap.id, refs[n])]
             G(f) == [n \in 0 .. Len(refs) |-> IF n = 0 THEN g ELSE Parse!addRef(f[n - 1], cap.id, refs[n])]
  <1>1. \A f : F(f) = G(f)
    BY SameRef, Zenon
  <1>2. (CHOOSE f : f = F(f)) = (CHOOSE f : f = G(f))
    <2> HIDE DEF F, G
    <2> QED BY <1>1, Zenon
  <1>3. extractCap(g, cap, disc) = (CHOOSE f : f = F(f))[Len(refs)]
    BY Zenon DEF extractCap
  <1>4. Parse!extractCap(g, cap, disc) = (CHOOSE f : f = G(f))[Len(refs)]
    BY SameReferences, Zenon DEF Parse!extractCap
  <1> QED BY <1>2, <1>3, <1>4, Zenon

\* They begin a binding in the same way.
LEMMA SameTerms ==
    /\ \A g, cap : Parse!addCapsule(g, cap) = addCapsule(g, cap)
    /\ \A g, item : Parse!addTerms(g, item) = addTerms(g, item)
  BY SameNames, SameEdges, Zenon DEF Parse!addTerms, addTerms, Parse!addCapsule, addCapsule

\* They read every item alike,
LEMMA SameParse == \A item : Parse!parseAac(item) = parseAac(item)
  <1> TAKE item
  <1> QED BY SameNames, SameExtract, SameTerms, Zenon DEF Parse!parseAac, parseAac

\* and check its disclosures alike.
LEMMA SameRendering == \A item : Parse!renderAac(item) = renderAac(item)
  BY SameParse, Zenon DEF Parse!renderAac, renderAac, Parse!disclosureMatches, disclosureMatches,
     Parse!Verdict, Verdict, Parse!jcs, jcs

\* What a row of the log shows is of its digest: MatchIsOfTheRow for one row.
IsRow(row) ==
    /\ DOMAIN row = {"type", "digest", "withheld", "match", "text"}
    /\ row.match = "true" => row.text # NoPayload /\ jcs(row.text) = row.digest

AreRows(rows) == DOMAIN rows \subseteq Nat /\ \A j \in DOMAIN rows : IsRow(rows[j])

\* A call of renderAac will show such rows, and hash terms that are there.
IsRendering(r) == AreRows(r.rows) /\ (r.hashes => r.item.terms # NoPayload)

\* So far it is true of the log, and of all that may still change it.
RowsInv ==
    /\ IsFragment(fragment) /\ IsFragment(hash)
    /\ IsSeq(renders) /\ \A k \in DOMAIN renders : IsRendering(renders[k])
    /\ IsSeq(hashing) /\ \A k \in DOMAIN hashing : hashing[k].terms # NoPayload
    /\ DOMAIN log = {"item", "rows"} /\ AreRows(log.rows)

\* An entry of the page's log, as the lemmas about reading have it.
LEMMA EntryIsOfPayload ==
    ASSUME NEW item, IsItem(item)
    PROVE  /\ DOMAIN renderAac(item).privilege_log \subseteq Nat
           /\ \A k \in DOMAIN renderAac(item).privilege_log :
                 Parse!RowOfPayload(item, renderAac(item).privilege_log[k])
  <1>1. Parse!IsItem(item)
    BY Zenon DEF Parse!IsItem, IsItem, Parse!Item, Item, Parse!Capsule, Capsule, Parse!Payload, Payload,
       Parse!Digest, Digest
  <1>2. /\ DOMAIN Parse!renderAac(item).privilege_log \subseteq Nat
        /\ \A k \in DOMAIN Parse!renderAac(item).privilege_log :
              Parse!RowOfPayload(item, Parse!renderAac(item).privilege_log[k])
    BY <1>1, Parse!RenderedRows
  <1> QED BY <1>2, SameRendering

\* A call of renderAac for an item.
LEMMA RenderingOK ==
    ASSUME NEW item, IsItem(item)
    PROVE  IsRendering(Rendering(item))
  <1> DEFINE entries == renderAac(item).privilege_log
             rows == [j \in DOMAIN entries |-> Row(item, entries[j])]
             hashes == \E e \in Range(entries) : termsRow(e)
  <1>1. Rendering(item) = [item |-> item, rows |-> rows, hashes |-> hashes]
    BY DEF Rendering
  <1>2. /\ DOMAIN entries \subseteq Nat
        /\ \A k \in DOMAIN entries : Parse!RowOfPayload(item, entries[k])
    BY EntryIsOfPayload
  <1> HIDE DEF entries
  <1>3. ASSUME NEW e, Parse!RowOfPayload(item, e) PROVE IsRow(Row(item, e))
    <2> DEFINE x == Row(item, e)
    <2>1. /\ DOMAIN x = {"type", "digest", "withheld", "match", "text"}
          /\ x.match = e.match /\ x.digest = e.digest
          /\ e.match = "true" /\ e.type = "agent_input" => x.text = item.disc[1].input
          /\ e.match = "true" /\ e.type = "agent_output" => x.text = item.disc[1].output
      BY DEF Row
    <2>2. e.match = "true" =>
             \/ /\ e.type = "agent_input" /\ item.disc[1].input # NoPayload
                /\ jcs(item.disc[1].input) = e.digest
             \/ /\ e.type = "agent_output" /\ item.disc[1].output # NoPayload
                /\ jcs(item.disc[1].output) = e.digest
      BY <1>3, SameNames DEF Parse!RowOfPayload
    <2> HIDE DEF x
    <2>3. IsRow(x)
      BY <2>1, <2>2 DEF IsRow
    <2> QED BY <2>3 DEF x
  <1>4. AreRows(rows)
    BY <1>2, <1>3 DEF AreRows
  <1>5. hashes => item.terms # NoPayload
    BY <1>2, SameNames DEF Range, Parse!RowOfPayload
  <1> HIDE DEF rows, hashes
  <1> QED BY <1>1, <1>4, <1>5 DEF IsRendering

\* After a load, the calls under way and the address bar are as they should be.
LEMMA LoadKeepsRows ==
    ASSUME RowsInv, NEW item, IsItem(item), loadCapsule(item), UNCHANGED <<fragment, log, hashing>>
    PROVE  RowsInv'
  <1>1. IsFragment(hash')
    BY HashKept DEF RowsInv
  <1>2. renders' = renders \/ renders' = Append(renders, Rendering(item))
    BY DEF loadCapsule
  <1>3. IsSeq(renders) /\ \A k \in DOMAIN renders : IsRendering(renders[k])
    BY DEF RowsInv
  <1>4. IsSeq(renders') /\ \A k \in DOMAIN renders' : IsRendering(renders'[k])
    <2>1. CASE renders' = renders
      BY <1>3, <2>1
    <2>2. CASE renders' = Append(renders, Rendering(item))
      <3> DEFINE x == Rendering(item)
      <3>1. IsRendering(x)
        BY RenderingOK
      <3> HIDE DEF x
      <3>2. renders' = Append(renders, x)
        BY <2>2 DEF x
      <3> QED BY <1>3, <3>1, <3>2, AppendSeq
    <2> QED BY <1>2, <2>1, <2>2
  <1> QED BY <1>1, <1>4 DEF RowsInv

\* renderAac goes on.
LEMMA FinishRenderKeepsRows ==
    ASSUME RowsInv, NEW k \in DOMAIN renders, FinishRender(k)
    PROVE  RowsInv'
  <1> DEFINE r == renders[k]
  <1>1. /\ renders' = RemoveAt(renders, k) /\ UNCHANGED <<fragment, hash>>
        /\ log' = [item |-> r.item, rows |-> r.rows]
        /\ hashing' = IF r.hashes THEN Append(hashing, r.item) ELSE hashing
    BY DEF FinishRender
  <1>2. /\ IsSeq(renders) /\ IsSeq(hashing) /\ IsRendering(r)
        /\ \A j \in DOMAIN renders : IsRendering(renders[j])
        /\ \A j \in DOMAIN hashing : hashing[j].terms # NoPayload
    BY DEF RowsInv
  <1> HIDE DEF r
  <1>3. IsSeq(renders') /\ \A j \in DOMAIN renders' : IsRendering(renders'[j])
    BY <1>1, <1>2, RemoveSeq
  <1>4. IsSeq(hashing') /\ \A j \in DOMAIN hashing' : hashing'[j].terms # NoPayload
    <2> DEFINE x == r.item
    <2>1. r.hashes => x.terms # NoPayload
      BY <1>2 DEF IsRendering
    <2>2. hashing' = hashing \/ (r.hashes /\ hashing' = Append(hashing, x))
      BY <1>1
    <2> HIDE DEF x
    <2>3. CASE hashing' = hashing
      BY <1>2, <2>3
    <2>4. CASE r.hashes /\ hashing' = Append(hashing, x)
      <3>1. /\ IsSeq(hashing')
            /\ \A j \in DOMAIN hashing' : hashing'[j] = x \/ \E i \in DOMAIN hashing : hashing'[j] = hashing[i]
        BY <1>2, <2>4, AppendSeq
      <3> QED BY <1>2, <2>1, <2>4, <3>1
    <2> QED BY <2>2, <2>3, <2>4
  <1>5. DOMAIN log' = {"item", "rows"} /\ AreRows(log'.rows)
    <2>1. DOMAIN log' = {"item", "rows"} /\ log'.rows = r.rows
      BY <1>1
    <2> QED BY <1>2, <2>1 DEF IsRendering
  <1> QED BY <1>1, <1>3, <1>4, <1>5 DEF RowsInv

\* A hash arrives, perhaps of a capsule that is no longer shown: the row it marks
\* is found by the digest that the hash was compared with.
LEMMA FinishHashKeepsRows ==
    ASSUME RowsInv, NEW k \in DOMAIN hashing, FinishHash(k)
    PROVE  RowsInv'
  <1> DEFINE item == hashing[k]
             found == RowFor(item)
             match == termsVerdict(item)
             text == IF match = "true" THEN item.terms ELSE NoPayload
             i == Min(found)
             old == log.rows[i]
             new == [old EXCEPT !.withheld = FALSE, !.match = match, !.text = text]
  <1>1. /\ IsSeq(hashing) /\ item.terms # NoPayload /\ DOMAIN log = {"item", "rows"} /\ AreRows(log.rows)
        /\ \A j \in DOMAIN hashing : hashing[j].terms # NoPayload
    BY DEF RowsInv
  <1>2. /\ hashing' = RemoveAt(hashing, k) /\ UNCHANGED <<fragment, hash, renders>>
        /\ log' = IF found = {} THEN log ELSE [log EXCEPT !.rows = [log.rows EXCEPT ![i] = new]]
    BY DEF FinishHash
  <1>3. IsSeq(hashing') /\ \A j \in DOMAIN hashing' : hashing'[j].terms # NoPayload
    BY <1>1, <1>2, RemoveSeq
  <1>4. CASE found = {}
    BY <1>1, <1>2, <1>3, <1>4 DEF RowsInv
  <1>5. CASE found # {}
    <2>1. found \in SUBSET Nat
      BY <1>1 DEF RowFor, AreRows
    <2>2. i \in found
      <3> HIDE DEF found
      <3>1. \E x \in found : \A y \in found : x <= y
        BY <1>5, <2>1, Parse!LeastOf
      <3> QED BY <3>1, Zenon DEF Min
    <2>3. i \in DOMAIN log.rows /\ old.digest = item.sealed /\ IsRow(old)
      BY <1>1, <2>2 DEF RowFor, AreRows
    <2>4. IsRow(new)
      <3>1. /\ match = "true" => jcs(item.terms) = item.sealed
            /\ match = "true" => text = item.terms
        BY DEF termsVerdict, Verdict
      <3> HIDE DEF match, text, old, item, found
      <3>2. /\ DOMAIN new = {"type", "digest", "withheld", "match", "text"}
            /\ new.match = match /\ new.text = text /\ new.digest = old.digest
        BY <2>3 DEF IsRow
      <3> HIDE DEF new
      <3> QED BY <1>1, <2>3, <3>1, <3>2 DEF IsRow
    <2> DEFINE rows == [log.rows EXCEPT ![i] = new]
    <2> HIDE DEF new, i
    <2>5. DOMAIN rows = DOMAIN log.rows /\ \A j \in DOMAIN rows : rows[j] = new \/ rows[j] = log.rows[j]
      OBVIOUS
    <2>6. AreRows(rows)
      <3> HIDE DEF rows
      <3> QED BY <1>1, <2>4, <2>5 DEF AreRows
    <2>7. log' = [log EXCEPT !.rows = rows]
      BY <1>2, <1>5
    <2> HIDE DEF rows
    <2>8. DOMAIN log' = {"item", "rows"} /\ log'.rows = rows
      BY <1>1, <2>7
    <2> QED BY <1>2, <1>3, <2>6, <2>8 DEF RowsInv
  <1> QED BY <1>4, <1>5

\* A log without rows.
LEMMA EmptyRows == DOMAIN EmptyLog = {"item", "rows"} /\ AreRows(EmptyLog.rows)
  <1>1. DOMAIN EmptyLog = {"item", "rows"} /\ EmptyLog.rows = << >>
    BY DEF EmptyLog
  <1> QED BY <1>1, NothingQueued DEF AreRows

\* Every step keeps the rows as they should be.
LEMMA RowsInvStep ==
    ASSUME RowsInv, [Next]_vars
    PROVE  RowsInv'
  <1>0. IsFragment(fragment) /\ IsFragment(hash)
    BY DEF RowsInv
  <1>1. CASE UNCHANGED <<fragment, hash, renders, hashing, log>>
    BY <1>1 DEF RowsInv
  <1>2. CASE RunScript
    <2>1. CASE ~HasItems
      BY <1>1, <1>2, <2>1 DEF RunScript
    <2>2. CASE HasItems
      <3>1. loadCapsule(fragment.items[1]) /\ UNCHANGED <<fragment, log, hashing>>
        BY <1>2, <2>2 DEF RunScript
      <3>2. IsItem(fragment.items[1])
        BY <1>0, <2>2, ItemsLen DEF HasItems
      <3> QED BY <3>1, <3>2, LoadKeepsRows
    <2> QED BY <2>1, <2>2
  <1>3. ASSUME NEW item \in Pasted, Paste(item) PROVE RowsInv'
    BY <1>3, PastedAssumption, LoadKeepsRows DEF Paste
  <1>4. ASSUME NEW idx \in DOMAIN fragment.items, Navigate(idx) PROVE RowsInv'
    <2>1. IsItem(fragment.items[idx])
      BY <1>0 DEF IsFragment
    <2> QED BY <1>4, <2>1, LoadKeepsRows DEF Navigate
  <1>5. CASE Reload
    <2>1. fragment' = hash /\ hash' = hash /\ renders' = << >> /\ hashing' = << >> /\ log' = EmptyLog
      BY <1>5 DEF Reload
    <2> QED BY <1>0, <2>1, EmptyRows, NothingQueued DEF RowsInv
  <1>6. CASE FinishSome
    <2>1. CASE \E k \in DOMAIN rituals : FinishRitual(k)
      BY <1>1, <2>1 DEF FinishRitual
    <2> QED BY <1>6, <2>1, FinishRenderKeepsRows, FinishHashKeepsRows DEF FinishSome
  <1>7. ASSUME NEW s \in Answers, AnswerArrives(s) PROVE RowsInv'
    BY <1>1, <1>7 DEF AnswerArrives
  <1>8. CASE ApplyAnswer
    BY <1>1, <1>8 DEF ApplyAnswer
  <1>9. CASE UNCHANGED vars
    BY <1>1, <1>9 DEF vars
  <1> QED BY <1>2, <1>3, <1>4, <1>5, <1>6, <1>7, <1>8, <1>9 DEF Next

\* A row that says "match" shows a payload of its own digest, for every fragment and
\* whatever is pasted, in whichever order renderings and hashes end.
THEOREM PageMatchIsOfTheRow == Spec => []MatchIsOfTheRow
  <1>1. Init => RowsInv
    <2> SUFFICES ASSUME Init PROVE RowsInv
      OBVIOUS
    <2>1. IsFragment(fragment) /\ hash = fragment /\ renders = << >> /\ hashing = << >> /\ log = EmptyLog
      BY FragmentsAssumption DEF Init, FreshPage
    <2> QED BY <2>1, EmptyRows, NothingQueued DEF RowsInv
  <1>2. RowsInv /\ [Next]_vars => RowsInv'
    BY RowsInvStep
  <1>3. RowsInv => MatchIsOfTheRow
    BY DEF RowsInv, AreRows, IsRow, MatchIsOfTheRow
  <1> QED BY <1>1, <1>2, <1>3, PTL DEF Spec
=============================================================================
