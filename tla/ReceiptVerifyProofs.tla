------------------------- MODULE ReceiptVerifyProofs ------------------------
(* What a verdict means, for every receipt, leaf and key and all three ports. *)
EXTENDS ReceiptVerify, TLAPS

\* Candidate j authenticates the receipt.
Verified(j) == SignatureOK(port, r, input.key, RootOf(j))

\* The result describes the signed root, and a proof that rebuilds it.
Matched ==
    /\ r.sig = [key |-> input.key, header |-> r.header, root |-> result.root]
    /\ result.root # NoRoot
    /\ r.header.vds = "rfc9162" =>
          \E j \in 1..Len(proofs) : /\ result.root = RootOf(j)
                                    /\ result.tree_size = proofs[j].tree_size
                                    /\ result.leaf_index = proofs[j].leaf_index

\* The guards a call has passed when its proofs are read.
Entered == StructureOK(port, r) /\ (port = "go" => input.leaf # NotHex)

\* The states of a call, one conjunct for each place it can be at.
CallInv ==
    /\ pc \in {"structure", "decode", "loop", "ccf"} => result = EmptyResult
    /\ pc = "decode" => Entered /\ r.header.vds = "rfc9162"
    /\ pc = "ccf" => Entered /\ r.header.vds # "rfc9162"
    /\ pc = "loop" =>
          /\ Entered /\ r.header.vds = "rfc9162"
          /\ \A j \in 1..Len(proofs) : decode_inclusion_proof(proofs[j])
          /\ i \in 1..(Len(proofs) + 1)
          /\ \A j \in 1..(i - 1) : ~Verified(j)
          /\ diagnostic # 0 => RootOf(diagnostic) # NoRoot
    /\ pc \in {"structure", "decode"} => diagnostic = 0
    /\ pc = "claims" =>
          /\ Acceptable(port, r, input.leaf, input.key)
          /\ Matched
          /\ result.failed_at = "none"
    /\ pc = "done" => AcceptsExactly /\ OkIsAuthentic /\ FailedAtTells

Inv == input \in Inputs /\ TypeOK /\ CallInv

(* The receipt of the call is one of the inputs. *)
LEMMA InputFacts ==
    ASSUME input \in Inputs
    PROVE  /\ Len(proofs) \in Nat /\ r.sig.root # NoRoot
           /\ proofs # << >> => 1 \in 1..Len(proofs)
  <1> DEFINE S == {proofs[j] : j \in 1..Len(proofs)}
  <1>1. proofs \in Seq(S) /\ r.sig.root # NoRoot
    BY InputsAssumption DEF proofs, r
  <1> HIDE DEF S
  <1> QED
    BY <1>1

(* A signature that verifies covers a digest, so the root was rebuilt. *)
LEMMA VerifiedIsSigned ==
    ASSUME input \in Inputs, NEW root, SignatureOK(port, r, input.key, root)
    PROVE  /\ r.sig = [key |-> input.key, header |-> r.header, root |-> root]
           /\ root # NoRoot
  BY InputFacts DEF SignatureOK, verify_sign1, rust_verify_signature, go_verifier, Signed

(* A key that Go cannot load verifies nothing. *)
LEMMA UnloadableVerifiesNothing ==
    ASSUME input.key.kind = "unloadable", NEW root
    PROVE  ~SignatureOK(port, r, input.key, root)
  BY DEF SignatureOK, verify_sign1, rust_verify_signature, go_verifier, KeyKind

(* No call has begun. *)
LEMMA InitInv == Init => Inv
  <1> SUFFICES ASSUME Init PROVE Inv
    OBVIOUS
  <1>1. Len(proofs) \in Nat
    BY InputFacts DEF Init
  <1> QED
    BY <1>1 DEF Init, Inv, TypeOK, CallInv, EmptyResult, Ports

(* What does not change while one verifier runs. *)
LEMMA SameCall ==
    ASSUME input' = input, port' = port
    PROVE  /\ r' = r /\ proofs' = proofs
           /\ \A j : RootOf(j)' = RootOf(j)
           /\ \A j : Verified(j)' <=> Verified(j)
           /\ Rebuilt' = Rebuilt
           /\ Entered' <=> Entered
  BY DEF r, proofs, RootOf, Verified, Rebuilt, Entered

(* The refusals before the signature step leave an empty result. *)
LEMMA RefusalInv ==
    ASSUME Inv, result = EmptyResult, input' = input, port' = port,
           i' = i, diagnostic' = diagnostic,
           NEW step \in {"structure", "exit"}, Fail(step),
           ~Acceptable(port, r, input.leaf, input.key)
    PROVE  Inv'
  <1>1. /\ r' = r /\ proofs' = proofs /\ Rebuilt' = Rebuilt
    BY SameCall
  <1>2. /\ pc' = "done"
        /\ result' = [ok |-> FALSE, root |-> NoRoot, tree_size |-> NoPos, leaf_index |-> NoPos,
                      claims |-> NoClaims, failed_at |-> step]
    BY DEF Fail, EmptyResult
  <1>3. TypeOK'
    BY <1>1, <1>2 DEF Inv, TypeOK
  <1>4. AcceptsExactly' /\ OkIsAuthentic' /\ FailedAtTells'
    BY <1>1, <1>2 DEF AcceptsExactly, OkIsAuthentic, FailedAtTells
  <1> QED
    BY <1>2, <1>3, <1>4 DEF Inv, CallInv

(* A refused structure is not acceptable; the others have passed its guards. *)
LEMMA StructureInv == Inv /\ Structure => Inv'
  <1> SUFFICES ASSUME Inv, Structure PROVE Inv'
    OBVIOUS
  <1>1. /\ Len(proofs) \in Nat /\ result = EmptyResult /\ pc = "structure"
    BY InputFacts DEF Inv, CallInv, Structure
  <1>2. input' = input /\ port' = port /\ diagnostic' = diagnostic
    BY DEF Structure
  <1>3. CASE GoKeyFails /\ Fail("exit") /\ UNCHANGED i
    <2>1. ~Acceptable(port, r, input.leaf, input.key)
      BY <1>3, UnloadableVerifiesNothing DEF GoKeyFails, Acceptable
    <2> QED
      BY <1>1, <1>2, <1>3, <2>1, RefusalInv
  <1>4. CASE /\ ~StructureOK(port, r) \/ (port = "go" /\ input.leaf = NotHex)
             /\ Fail("structure") /\ UNCHANGED i
    <2>1. ~Acceptable(port, r, input.leaf, input.key)
      BY <1>4 DEF Acceptable
    <2> QED
      BY <1>1, <1>2, <1>4, <2>1, RefusalInv
  <1>5. CASE /\ StructureOK(port, r)
             /\ port = "go" => input.leaf # NotHex
             /\ pc' = IF r.header.vds = "rfc9162" THEN "decode" ELSE "ccf"
             /\ UNCHANGED <<i, result>>
    <2>1. r' = r /\ proofs' = proofs /\ Rebuilt' = Rebuilt /\ Entered' /\ Entered
      BY <1>2, <1>5, SameCall DEF Entered
    <2>2. TypeOK'
      BY <1>2, <1>5, <2>1 DEF Inv, TypeOK
    <2> QED
      BY <1>1, <1>2, <1>5, <2>1, <2>2 DEF Inv, CallInv
  <1> QED
    BY <1>3, <1>4, <1>5 DEF Structure

(* An undecodable entry is not acceptable; the loop starts with nothing tried. *)
LEMMA DecodeInv == Inv /\ Decode => Inv'
  <1> SUFFICES ASSUME Inv, Decode PROVE Inv'
    OBVIOUS
  <1>1. /\ Len(proofs) \in Nat /\ result = EmptyResult /\ pc = "decode"
        /\ Entered /\ r.header.vds = "rfc9162"
        /\ input' = input /\ port' = port /\ diagnostic' = diagnostic
    BY InputFacts DEF Inv, CallInv, Decode
  <1>2. CASE \A j \in 1..Len(proofs) : decode_inclusion_proof(proofs[j])
    <2>1. pc' = "loop" /\ i' = 1 /\ result' = result
      BY <1>2 DEF Decode
    <2>2. /\ r' = r /\ proofs' = proofs /\ Rebuilt' = Rebuilt /\ Entered'
      BY <1>1, SameCall
    <2>3. TypeOK'
      BY <1>1, <2>1, <2>2 DEF Inv, TypeOK
    <2>4. diagnostic = 0
      BY <1>1 DEF Inv, CallInv
    <2>5. i' \in 1..(Len(proofs') + 1) /\ \A j \in 1..(i' - 1) : FALSE
      BY <1>1, <2>1, <2>2
    <2> QED
      BY <1>1, <1>2, <2>1, <2>2, <2>3, <2>4, <2>5 DEF Inv, CallInv
  <1>3. CASE ~\A j \in 1..Len(proofs) : decode_inclusion_proof(proofs[j])
    <2>1. Fail("structure") /\ i' = i
      BY <1>3 DEF Decode
    <2>2. ~Acceptable(port, r, input.leaf, input.key)
      BY <1>1, <1>3 DEF Acceptable, proofs
    <2> QED
      BY <1>1, <2>1, <2>2, RefusalInv
  <1> QED
    BY <1>2, <1>3

(* A candidate that verifies is the witness of acceptance; one that does not
   joins those already tried. *)
LEMMA TryCandidateInv == Inv /\ TryCandidate => Inv'
  <1> SUFFICES ASSUME Inv, TryCandidate PROVE Inv'
    OBVIOUS
  <1>1. /\ Len(proofs) \in Nat /\ result = EmptyResult /\ pc = "loop"
        /\ Entered /\ r.header.vds = "rfc9162"
        /\ \A j \in 1..Len(proofs) : decode_inclusion_proof(proofs[j])
        /\ i \in 1..(Len(proofs) + 1)
        /\ \A j \in 1..(i - 1) : ~Verified(j)
        /\ diagnostic # 0 => RootOf(diagnostic) # NoRoot
        /\ diagnostic \in 0..Len(proofs)
        /\ input' = input /\ port' = port
    BY InputFacts DEF Inv, TypeOK, CallInv, TryCandidate, FirstRoot, Located
  <1>2. i \in 1..Len(proofs)
    BY <1>1 DEF TryCandidate, FirstRoot, Located
  <1>3. /\ r' = r /\ proofs' = proofs /\ Rebuilt' = Rebuilt /\ Entered'
        /\ \A j : RootOf(j)' = RootOf(j)
        /\ \A j : Verified(j)' <=> Verified(j)
    BY <1>1, SameCall
  <1>4. CASE input.leaf = NotHex
    <2>1. Fail("structure") /\ i' = i /\ diagnostic' = diagnostic
      BY <1>4 DEF TryCandidate, FirstRoot, Located
    <2>2. ~Acceptable(port, r, input.leaf, input.key)
      BY <1>4 DEF Acceptable
    <2> QED
      BY <1>1, <2>1, <2>2, RefusalInv
  <1>5. CASE input.leaf # NotHex
    <2>1. /\ diagnostic' = IF diagnostic = 0 /\ RootOf(i) # NoRoot THEN i ELSE diagnostic
      BY <1>5 DEF TryCandidate, FirstRoot, Located
    <2>2. /\ diagnostic' \in 0..Len(proofs)
          /\ diagnostic' # 0 => RootOf(diagnostic') # NoRoot
      BY <1>1, <1>2, <2>1
    <2>3. CASE RootOf(i) # NoRoot /\ Verified(i)
      <3>1. /\ result' = [ok |-> FALSE, root |-> RootOf(i), tree_size |-> proofs[i].tree_size,
                          leaf_index |-> proofs[i].leaf_index, claims |-> NoClaims,
                          failed_at |-> "none"]
            /\ pc' = "claims" /\ i' = i
        BY <1>1, <1>5, <2>3 DEF TryCandidate, FirstRoot, Located, Verified, EmptyResult
      <3>2. TypeOK'
        <4>1. RootOf(i) \in Rebuilt
          BY <1>2 DEF Rebuilt
        <4> QED
          BY <1>1, <1>2, <1>3, <2>2, <3>1, <4>1 DEF Inv, TypeOK
      <3>3. Acceptable(port, r, input.leaf, input.key)
        BY <1>1, <1>2, <1>5, <2>3 DEF Acceptable, Entered, Verified, RootOf, proofs
      <3>4. Matched'
        <4>1. r.sig = [key |-> input.key, header |-> r.header, root |-> RootOf(i)]
          BY <2>3, VerifiedIsSigned DEF Verified, Inv
        <4> QED
          BY <1>1, <1>2, <1>3, <2>3, <3>1, <4>1 DEF Matched
      <3> QED
        BY <1>1, <1>3, <3>1, <3>2, <3>3, <3>4 DEF Inv, CallInv
    <2>4. CASE ~(RootOf(i) # NoRoot /\ Verified(i))
      <3>1. i' = i + 1 /\ pc' = pc /\ result' = result
        BY <1>5, <2>4 DEF TryCandidate, FirstRoot, Located, Verified
      <3>2. ~Verified(i)
        BY <2>4, VerifiedIsSigned DEF Verified, Inv
      <3>3. \A j \in 1..(i' - 1) : ~Verified(j)'
        <4>1. \A j \in 1..(i' - 1) : j \in 1..(i - 1) \/ j = i
          BY <1>1, <1>2, <3>1
        <4> QED
          BY <1>1, <1>3, <3>2, <4>1
      <3>4. i' \in 1..(Len(proofs) + 1) /\ i' \in 0..(Len(proofs) + 1)
        BY <1>1, <1>2, <3>1
      <3>5. TypeOK'
        BY <1>1, <1>3, <2>2, <3>1, <3>4 DEF Inv, TypeOK
      <3>6. (diagnostic # 0 => RootOf(diagnostic) # NoRoot)'
        BY <1>1, <1>3, <2>2 DEF RootOf
      <3> QED
        BY <1>1, <1>3, <3>1, <3>3, <3>4, <3>5, <3>6 DEF Inv, CallInv
    <2> QED
      BY <2>3, <2>4
  <1> QED
    BY <1>4, <1>5

(* With every candidate tried, nothing is acceptable, and a root in the result
   is the diagnostic's. *)
LEMMA ExhaustInv == Inv /\ Exhaust => Inv'
  <1> SUFFICES ASSUME Inv, Exhaust PROVE Inv'
    OBVIOUS
  <1>1. /\ Len(proofs) \in Nat /\ result = EmptyResult /\ pc = "loop"
        /\ r.header.vds = "rfc9162"
        /\ i \in 1..(Len(proofs) + 1)
        /\ \A j \in 1..(i - 1) : ~Verified(j)
        /\ diagnostic # 0 => RootOf(diagnostic) # NoRoot
        /\ diagnostic \in 0..Len(proofs)
        /\ input' = input /\ port' = port /\ i' = i /\ diagnostic' = diagnostic
        /\ pc' = "done"
    BY InputFacts DEF Inv, TypeOK, CallInv, Exhaust, Located
  <1>2. \A j \in 1..Len(proofs) : ~Verified(j)
    <2>1. \A j \in 1..Len(proofs) : j \in 1..(i - 1)
      BY <1>1 DEF Exhaust, Located
    <2> QED
      BY <1>1, <2>1
  <1>3. ~Acceptable(port, r, input.leaf, input.key)
    BY <1>1, <1>2 DEF Acceptable, Verified, RootOf, proofs
  <1>4. /\ r' = r /\ proofs' = proofs /\ Rebuilt' = Rebuilt
    BY <1>1, SameCall
  <1>5. CASE diagnostic = 0
    <2>1. Fail("structure")
      BY <1>1, <1>5 DEF Exhaust, Located, Fail
    <2> QED
      BY <1>1, <1>3, <2>1, RefusalInv
  <1>6. CASE diagnostic # 0
    <2>1. diagnostic \in 1..Len(proofs) /\ RootOf(diagnostic) \in Rebuilt
      BY <1>1, <1>6 DEF Rebuilt
    <2>2. result' = [ok |-> FALSE, root |-> RootOf(diagnostic),
                     tree_size |-> proofs[diagnostic].tree_size,
                     leaf_index |-> proofs[diagnostic].leaf_index,
                     claims |-> NoClaims, failed_at |-> "signature"]
      BY <1>1, <1>6 DEF Exhaust, Located, EmptyResult
    <2>3. TypeOK'
      BY <1>1, <1>4, <2>1, <2>2 DEF Inv, TypeOK
    <2>4. AcceptsExactly' /\ OkIsAuthentic' /\ FailedAtTells'
      BY <1>1, <1>3, <1>4, <1>6, <2>2 DEF AcceptsExactly, OkIsAuthentic, FailedAtTells
    <2> QED
      BY <1>1, <2>3, <2>4 DEF Inv, CallInv
  <1> QED
    BY <1>5, <1>6

(* A CCF receipt is acceptable exactly when its first proof is well formed for
   the leaf and the signature covers its root. *)
LEMMA CCFInv == Inv /\ CCF => Inv'
  <1> SUFFICES ASSUME Inv, CCF PROVE Inv'
    OBVIOUS
  <1>1. /\ Len(proofs) \in Nat /\ result = EmptyResult /\ pc = "ccf"
        /\ Entered /\ r.header.vds # "rfc9162"
        /\ input' = input /\ port' = port /\ i' = i /\ diagnostic' = diagnostic
    BY InputFacts DEF Inv, CallInv, CCF
  <1>2. /\ r' = r /\ proofs' = proofs /\ Rebuilt' = Rebuilt
    BY <1>1, SameCall
  <1> DEFINE root == ccf_root(proofs[1])
  <1>3. root \in Rebuilt /\ root # NoRoot
    <2>1. 1 \in 1..Len(proofs)
      <3>1. proofs # << >>
        BY <1>1 DEF Entered, StructureOK, python_structure, rust_structure, go_structure, proofs
      <3> QED
        BY <3>1, InputFacts DEF Inv
    <2> QED
      BY <2>1 DEF Rebuilt, ccf_root, NoRoot
  <1>4. CASE input.leaf = NotHex \/ ~ccf_proof_ok(port, input.leaf, proofs[1])
    <2>1. Fail("structure")
      BY <1>4 DEF CCF
    <2>2. ~Acceptable(port, r, input.leaf, input.key)
      BY <1>1, <1>4 DEF Acceptable, proofs
    <2> QED
      BY <1>1, <2>1, <2>2, RefusalInv
  <1>5. CASE /\ ~(input.leaf = NotHex \/ ~ccf_proof_ok(port, input.leaf, proofs[1]))
             /\ SignatureOK(port, r, input.key, root)
    <2>1. /\ result' = [ok |-> FALSE, root |-> root, tree_size |-> NoPos, leaf_index |-> NoPos,
                        claims |-> NoClaims, failed_at |-> "none"]
          /\ pc' = "claims"
      BY <1>1, <1>5 DEF CCF, EmptyResult
    <2>2. TypeOK'
      BY <1>1, <1>2, <1>3, <2>1 DEF Inv, TypeOK
    <2>3. Acceptable(port, r, input.leaf, input.key)
      BY <1>1, <1>5 DEF Acceptable, Entered, proofs
    <2>4. Matched'
      <3>1. r.sig = [key |-> input.key, header |-> r.header, root |-> root]
        BY <1>5, VerifiedIsSigned DEF Inv
      <3> QED
        BY <1>1, <1>2, <1>3, <2>1, <3>1 DEF Matched
    <2> QED
      BY <1>1, <1>2, <2>1, <2>2, <2>3, <2>4 DEF Inv, CallInv
  <1>6. CASE /\ ~(input.leaf = NotHex \/ ~ccf_proof_ok(port, input.leaf, proofs[1]))
             /\ ~SignatureOK(port, r, input.key, root)
    <2>1. /\ result' = [ok |-> FALSE, root |-> root, tree_size |-> NoPos, leaf_index |-> NoPos,
                        claims |-> NoClaims, failed_at |-> "signature"]
          /\ pc' = "done"
      BY <1>1, <1>6 DEF CCF, EmptyResult
    <2>2. TypeOK'
      BY <1>1, <1>2, <1>3, <2>1 DEF Inv, TypeOK
    <2>3. ~Acceptable(port, r, input.leaf, input.key)
      BY <1>1, <1>6 DEF Acceptable, proofs
    <2>4. AcceptsExactly' /\ OkIsAuthentic' /\ FailedAtTells'
      BY <1>1, <1>2, <1>3, <2>1, <2>3 DEF AcceptsExactly, OkIsAuthentic, FailedAtTells
    <2> QED
      BY <1>1, <2>1, <2>2, <2>4 DEF Inv, CallInv
  <1> QED
    BY <1>4, <1>5, <1>6

(* The claims reported are those of the header the signature covers. *)
LEMMA ClaimsInv == Inv /\ Claims => Inv'
  <1> SUFFICES ASSUME Inv, Claims PROVE Inv'
    OBVIOUS
  <1>1. /\ Acceptable(port, r, input.leaf, input.key)
        /\ Matched /\ result.failed_at = "none" /\ port \in Ports
        /\ input' = input /\ port' = port /\ i' = i /\ diagnostic' = diagnostic
        /\ pc' = "done"
    BY DEF Inv, TypeOK, CallInv, Claims
  <1>2. /\ r' = r /\ proofs' = proofs /\ Rebuilt' = Rebuilt
        /\ \A j : RootOf(j)' = RootOf(j)
    BY <1>1, SameCall
  <1>3. result' = [result EXCEPT !.ok = TRUE, !.claims = ReportedClaims(port, r.header)]
    BY DEF Claims
  <1>4. /\ result'.ok = TRUE /\ result'.claims = ReportedClaims(port, r.header)
        /\ result'.root = result.root /\ result'.failed_at = "none"
        /\ result'.tree_size = result.tree_size /\ result'.leaf_index = result.leaf_index
    BY <1>1, <1>3 DEF Inv, TypeOK
  <1>5. TypeOK'
    BY <1>1, <1>2, <1>3 DEF Inv, TypeOK
  <1>6. AcceptsExactly' /\ FailedAtTells'
    BY <1>1, <1>2, <1>4 DEF AcceptsExactly, FailedAtTells
  <1>7. OkIsAuthentic'
    BY <1>1, <1>2, <1>4 DEF OkIsAuthentic, Matched
  <1> QED
    BY <1>1, <1>5, <1>6, <1>7 DEF Inv, CallInv

(* The next verifier starts afresh on the same receipt. *)
LEMMA NextPortInv == Inv /\ NextPort => Inv'
  <1> SUFFICES ASSUME Inv, NextPort PROVE Inv'
    OBVIOUS
  <1>1. Len(proofs) \in Nat /\ proofs' = proofs /\ r' = r
    BY InputFacts DEF Inv, NextPort, proofs, r
  <1>2. TypeOK'
    BY <1>1 DEF Inv, NextPort, TypeOK, EmptyResult, Ports
  <1> QED
    BY <1>2 DEF Inv, NextPort, CallInv

(* Every step preserves the invariant. *)
LEMMA NextInv == Inv /\ [Next]_vars => Inv'
  <1>1. Inv /\ UNCHANGED vars => Inv'
    <2> SUFFICES ASSUME Inv, UNCHANGED vars PROVE Inv'
      OBVIOUS
    <2>1. /\ input' = input /\ port' = port /\ pc' = pc /\ i' = i
          /\ diagnostic' = diagnostic /\ result' = result
      BY DEF vars
    <2>2. /\ r' = r /\ proofs' = proofs /\ Rebuilt' = Rebuilt
          /\ Entered' <=> Entered
          /\ \A j : RootOf(j)' = RootOf(j)
          /\ \A j : Verified(j)' <=> Verified(j)
      BY <2>1, SameCall
    <2>3. TypeOK'
      BY <2>1, <2>2 DEF Inv, TypeOK
    <2>4. /\ Matched' <=> Matched
          /\ AcceptsExactly' <=> AcceptsExactly
          /\ OkIsAuthentic' <=> OkIsAuthentic
          /\ FailedAtTells' <=> FailedAtTells
      BY <2>1, <2>2 DEF Matched, AcceptsExactly, OkIsAuthentic, FailedAtTells
    <2>5. CallInv'
      BY <2>1, <2>2, <2>4 DEF Inv, CallInv
    <2> QED
      BY <2>1, <2>3, <2>5 DEF Inv
  <1> QED
    BY <1>1, StructureInv, DecodeInv, TryCandidateInv, ExhaustInv, CCFInv, ClaimsInv, NextPortInv
    DEF Next

-----------------------------------------------------------------------------
(* The invariant of the three verifiers holds throughout. *)
THEOREM ReceiptCorrect == Spec => []Inv
  BY InitInv, NextInv, PTL DEF Spec

(* Each verifier keeps its result typed, and in it only roots that the
   receipt's own proofs rebuild. *)
THEOREM ReceiptTyped == Spec => []TypeOK
  <1>1. Inv => TypeOK
    BY DEF Inv
  <1> QED
    BY <1>1, ReceiptCorrect, PTL

(* Python, Rust and Go each accept exactly the receipts of the contract. *)
THEOREM ReceiptAcceptsExactly == Spec => []AcceptsExactly
  <1>1. Inv => AcceptsExactly
    BY DEF Inv, CallInv, AcceptsExactly
  <1> QED
    BY <1>1, ReceiptCorrect, PTL

(* An accepted result carries the signed root and the signed claims only. *)
THEOREM ReceiptOkIsAuthentic == Spec => []OkIsAuthentic
  <1>1. Inv => OkIsAuthentic
    BY DEF Inv, CallInv, OkIsAuthentic
  <1> QED
    BY <1>1, ReceiptCorrect, PTL

(* failed_at separates the three outcomes, and a failure reports no claims. *)
THEOREM ReceiptFailedAtTells == Spec => []FailedAtTells
  <1>1. Inv => FailedAtTells
    BY DEF Inv, CallInv, FailedAtTells
  <1> QED
    BY <1>1, ReceiptCorrect, PTL
=============================================================================
