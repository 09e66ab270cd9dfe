---------------------------- MODULE ReceiptVerify ---------------------------
(***************************************************************************)
(* verify_receipt step by step, run on one receipt by the Python, the Rust *)
(* and the Go verifier in turn, as the parity tests run them.              *)
(***************************************************************************)
EXTENDS Receipt

CONSTANT Inputs             \* the calls examined: [receipt, leaf, key]

\* What a log signs is a digest, never None.
ASSUME InputsAssumption ==
    \A x \in Inputs :
        LET ps == x.receipt.proofs
        IN  /\ ps \in Seq({ps[j] : j \in 1..Len(ps)})
            /\ x.receipt.sig.root # NoRoot

VARIABLES input,            \* the receipt, the leaf entry and the pinned key
          port,             \* the verifier that is running
          pc,               \* "structure", "decode", "loop", "ccf", "claims" or "done"
          i,                \* the candidate the loop is at
          diagnostic,       \* the first candidate that rebuilt a root; 0 if none
          result,           \* the ReceiptResult under construction
          verdicts          \* the results of the verifiers that have finished

vars == <<input, port, pc, i, diagnostic, result, verdicts>>

\* tree_size and leaf_index when no proof gave them (None; Go prints 0).
NoPos == -1

EmptyResult ==
    [ok |-> FALSE, root |-> NoRoot, tree_size |-> NoPos, leaf_index |-> NoPos,
     claims |-> NoClaims, failed_at |-> "none"]

Init ==
    /\ input \in Inputs
    /\ port = "python"
    /\ pc = "structure"
    /\ i = 0
    /\ diagnostic = 0
    /\ result = EmptyResult
    /\ verdicts = << >>

r == input.receipt
proofs == r.proofs
RootOf(j) == reconstruct_root(input.leaf, proofs[j])

\* Mutant: a failed call returns the claims of a header nobody has verified.
FailWithClaims(step) ==
    /\ pc' = "done"
    /\ result' = [result EXCEPT !.failed_at = step, !.claims = ReportedClaims(port, r.header)]

\* A failed call returns what the result holds; failed_at defaults to
\* "structure" when no step has set it.
Fail(step) ==
    /\ pc' = "done"
    /\ result' = [result EXCEPT !.failed_at = step]

-----------------------------------------------------------------------------
\* Go's loadPublicKey ends the process on a key it cannot load, after the size
\* check and before anything else.
GoKeyFails == port = "go" /\ input.key.kind = "unloadable" /\ "size" \notin r.flaws

\* Go decodes the leaf's hex before it looks at a proof's contents.
Structure ==
    /\ pc = "structure"
    /\ \/ /\ GoKeyFails
          /\ Fail("exit")
          /\ UNCHANGED i
       \/ /\ ~GoKeyFails
          /\ ~StructureOK(port, r) \/ (port = "go" /\ input.leaf = NotHex)
          /\ Fail("structure")
          /\ UNCHANGED i
       \/ /\ ~GoKeyFails
          /\ StructureOK(port, r)
          /\ port = "go" => input.leaf # NotHex
          /\ pc' = IF r.header.vds = "rfc9162" THEN "decode" ELSE "ccf"
          /\ UNCHANGED <<i, result>>
    /\ UNCHANGED <<input, port, diagnostic, verdicts>>

\* Mutant: a malformed proof next to a good one is overlooked.
DecodeLenient ==
    /\ pc = "decode"
    /\ IF \E j \in 1..Len(proofs) : decode_inclusion_proof(proofs[j])
       THEN /\ pc' = "loop"
            /\ i' = 1
            /\ UNCHANGED result
       ELSE /\ Fail("structure")
            /\ UNCHANGED i
    /\ UNCHANGED <<input, port, diagnostic, verdicts>>

\* Every candidate is decoded before any is tried.
Decode ==
    /\ pc = "decode"
    /\ IF \A j \in 1..Len(proofs) : decode_inclusion_proof(proofs[j])
       THEN /\ pc' = "loop"
            /\ i' = 1
            /\ UNCHANGED result
       ELSE /\ Fail("structure")
            /\ UNCHANGED i
    /\ UNCHANGED <<input, port, diagnostic, verdicts>>

\* The diagnostic is the first root any candidate rebuilds.
FirstRoot == IF diagnostic = 0 /\ RootOf(i) # NoRoot THEN i ELSE diagnostic

\* Mutant: the position is always the first proof's.
LocatedFirst(j) ==
    [result EXCEPT !.root = RootOf(j),
                   !.tree_size = proofs[1].tree_size,
                   !.leaf_index = proofs[1].leaf_index]

\* The result with the root and the position that candidate j gives.
Located(j) ==
    [result EXCEPT !.root = RootOf(j),
                   !.tree_size = proofs[j].tree_size,
                   !.leaf_index = proofs[j].leaf_index]

\* One turn of the loop over the candidates.  Python evaluates the leaf's hex
\* here; a candidate that rebuilds no root is skipped.
TryCandidate ==
    /\ pc = "loop"
    /\ i <= Len(proofs)
    /\ IF input.leaf = NotHex
       THEN /\ Fail("structure")
            /\ UNCHANGED <<i, diagnostic>>
       ELSE /\ diagnostic' = FirstRoot
            /\ IF RootOf(i) # NoRoot /\ SignatureOK(port, r, input.key, RootOf(i))
               THEN /\ result' = Located(i)
                    /\ pc' = "claims"
                    /\ UNCHANGED i
               ELSE /\ i' = i + 1
                    /\ UNCHANGED <<pc, result>>
    /\ UNCHANGED <<input, port, verdicts>>

\* No candidate verified: the first root stays as a diagnostic.
Exhaust ==
    /\ pc = "loop"
    /\ i > Len(proofs)
    /\ pc' = "done"
    /\ result' = IF diagnostic = 0
                 THEN [result EXCEPT !.failed_at = "structure"]
                 ELSE [Located(diagnostic) EXCEPT !.failed_at = "signature"]
    /\ UNCHANGED <<input, port, i, diagnostic, verdicts>>

\* A CCF receipt: the first proof only, the root kept if the signature fails.
CCF ==
    /\ pc = "ccf"
    /\ LET blob == proofs[1]
           root == ccf_root(blob)
       IN  IF input.leaf = NotHex \/ ~ccf_proof_ok(port, input.leaf, blob)
           THEN Fail("structure")
           ELSE IF SignatureOK(port, r, input.key, root)
           THEN /\ result' = [result EXCEPT !.root = root]
                /\ pc' = "claims"
           ELSE /\ result' = [result EXCEPT !.root = root, !.failed_at = "signature"]
                /\ pc' = "done"
    /\ UNCHANGED <<input, port, i, diagnostic, verdicts>>

\* Only now are the header's claims copied and ok set.
Claims ==
    /\ pc = "claims"
    /\ result' = [result EXCEPT !.ok = TRUE, !.claims = ReportedClaims(port, r.header)]
    /\ pc' = "done"
    /\ UNCHANGED <<input, port, i, diagnostic, verdicts>>

\* The next verifier runs on the same receipt.  The Rust API takes the leaf's
\* octets, so a leaf that is not hexadecimal never reaches it.
NextPort ==
    /\ pc = "done"
    /\ port # "go"
    /\ verdicts' = Append(verdicts, [port |-> port, result |-> result])
    /\ port' = IF port = "python" /\ input.leaf # NotHex THEN "rust" ELSE "go"
    /\ pc' = "structure"
    /\ i' = 0
    /\ diagnostic' = 0
    /\ result' = EmptyResult
    /\ UNCHANGED input

Next == Structure \/ Decode \/ TryCandidate \/ Exhaust \/ CCF \/ Claims \/ NextPort

\* A verifier is straight-line code and its caller runs all of them.
Spec == Init /\ [][Next]_vars /\ WF_vars(Next)

-----------------------------------------------------------------------------
(* Properties.                                                             *)

\* Every root the receipt's proofs rebuild.
Rebuilt == {RootOf(j) : j \in 1..Len(proofs)} \cup {ccf_root(proofs[j]) : j \in 1..Len(proofs)}

TypeOK ==
    /\ port \in Ports
    /\ pc \in {"structure", "decode", "loop", "ccf", "claims", "done"}
    /\ i \in 0..(Len(proofs) + 1)
    /\ diagnostic \in 0..Len(proofs)
    /\ result \in [ok : BOOLEAN,
                   root : {NoRoot} \cup Rebuilt,
                   tree_size : {NoPos} \cup {proofs[j].tree_size : j \in 1..Len(proofs)},
                   leaf_index : {NoPos} \cup {proofs[j].leaf_index : j \in 1..Len(proofs)},
                   claims : {NoClaims} \cup {ReportedClaims(p, r.header) : p \in Ports},
                   failed_at : {"none", "structure", "signature", "exit"}]

(* A call accepts exactly the acceptable receipts: in particular the order of
   the unprotected proofs never decides, a good proof never hides a malformed
   one, and a proof that comes after others that fail is still found. *)
AcceptsExactly ==
    pc = "done" => (result.ok <=> Acceptable(port, r, input.leaf, input.key))

(* What an accepted result says is what the holder of the pinned key signed:
   the root, and the claims of the header it signed; size and index come from
   a proof that rebuilds that root. *)
OkIsAuthentic ==
    (pc = "done" /\ result.ok) =>
        /\ r.sig = [key |-> input.key, header |-> r.header, root |-> result.root]
        /\ result.claims = ReportedClaims(port, r.sig.header)
        /\ r.header.vds = "rfc9162" =>
              \E j \in 1..Len(proofs) :
                  /\ result.root = RootOf(j)
                  /\ result.tree_size = proofs[j].tree_size
                  /\ result.leaf_index = proofs[j].leaf_index

(* failed_at is unset exactly on success, "signature" exactly when a failed
   call had rebuilt a root, and no claim of an unverified header is reported. *)
FailedAtTells ==
    pc = "done" =>
        /\ result.ok <=> result.failed_at = "none"
        /\ result.failed_at = "signature" <=> (~result.ok /\ result.root # NoRoot)
        /\ ~result.ok => result.claims = NoClaims

\* The parts of a result that all ports report.
Common(res) == <<res.ok, res.root, res.tree_size, res.leaf_index, res.failed_at>>

Finished == pc = "done" /\ port = "go"

\* The inputs on which the ports promise the same report.
Comparable ==
    /\ input.key.kind # "unloadable"
    /\ r.header.alg \notin {"text", "beyond_int64"}
    /\ "signature_bstr" \notin r.flaws

(* Every verifier answers, and the answers agree on acceptance, on what they
   report and on the failing step: all three on RFC 9162 receipts (ES384 aside,
   which Rust does not support), Python and Go also on CCF receipts within
   Python's limits.  Whatever Rust accepts, Python accepts with the same claims,
   and a signature that fails is reported with the first proof of the array. *)
PortsAgree ==
    <>(/\ Finished
       /\ \A n \in 1..Len(verdicts) :
             verdicts[n].port = "rust" /\ verdicts[n].result.ok =>
                 verdicts[1].result = verdicts[n].result
       /\ (result.failed_at = "signature" /\ r.header.vds = "rfc9162") =>
             Located(1) = [result EXCEPT !.root = RootOf(1)]
       /\ Comparable =>
             \A n \in 1..Len(verdicts) :
                \/ Common(verdicts[n].result) = Common(result)
                \/ /\ verdicts[n].port = "rust"
                   /\ r.header.alg = "ES384" \/ r.header.vds # "rfc9162"
                \/ /\ verdicts[n].port = "python"
                   /\ r.header.vds = "ccf"
                   /\ \/ Len(proofs) > MAX_INCLUSION_PROOFS
                      \/ Len(proofs[1].path) > MAX_AUDIT_PATH)
=============================================================================
