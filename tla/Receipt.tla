------------------------------- MODULE Receipt ------------------------------
(***************************************************************************)
(* COSE Receipts as the three verifiers of the repository read them: the   *)
(* Python library (scitt_cose/receipt.py), the Rust crate (receipt.rs) and *)
(* the Go verifier (main.go).                                              *)
(*                                                                         *)
(* A receipt is a record:                                                  *)
(*   flaws    the octet-level and type-level checks it fails, by name      *)
(*   header   the protected header, covered by the signature               *)
(*   proofs   the inclusion proofs of the unprotected header, which anyone *)
(*            may rewrite                                                  *)
(*   sig      what the signer signed: its key, the root and the header; a  *)
(*            signature verifies for exactly that content                  *)
(* The text of an error is not modelled: every early return before the     *)
(* signature step leaves the same result, so which of several flaws is     *)
(* reported cannot be observed, and a port's structural checks are a set.  *)
(***************************************************************************)
EXTENDS Merkle

CONSTANTS MAX_INCLUSION_PROOFS,     \* 16 in the code
          MAX_AUDIT_PATH            \* 64 in the code

ASSUME ReceiptAssumption == {MAX_INCLUSION_PROOFS, MAX_AUDIT_PATH} \subseteq Nat

Ports == {"python", "rust", "go"}

-----------------------------------------------------------------------------
(* Structural checks, in each port's own order.                            *)

\* crit is "absent", lists "understood" labels only, lists a label understood
\* for "ccf" receipts only, or is "refused" by everyone.
Understood == {"absent", "understood"}
CcfUnderstood == Understood \cup {"ccf"}

check_critical_headers(header, understood) == header.crit \in understood

\* The understood set of Python and Go depends on the structure.
UnderstoodFor(header) == IF header.vds = "ccf" THEN CcfUnderstood ELSE Understood

\* Every blob is a byte string that meets the encoding rule.
BlobsOK(r) == \A j \in 1..Len(r.proofs) : r.proofs[j].form \notin {"not_bstr", "encoding"}

python_structure(r) ==
    /\ r.flaws \cap {"size", "octets", "shape", "attached", "encoding",
                     "protected_bstr", "protected_encoding", "protected_map"} = {}
    /\ check_critical_headers(r.header, UnderstoodFor(r.header))
    /\ r.header.alg # "absent"
    /\ r.flaws \cap {"unprotected_map", "vdp"} = {}
    /\ r.proofs # << >>
    /\ Len(r.proofs) <= MAX_INCLUSION_PROOFS
    /\ BlobsOK(r)
    /\ r.header.vds \in {"rfc9162", "ccf"}

\* Mutant: the Rust checks without the ceiling on the array of proofs.
rust_structure_uncapped(r) ==
    /\ r.flaws \cap {"size", "octets", "shape", "protected_bstr", "unprotected_map",
                     "signature_bstr", "attached", "encoding",
                     "protected_encoding", "protected_map"} = {}
    /\ check_critical_headers(r.header, Understood)
    /\ r.header.alg \notin {"absent", "text", "beyond_int64"}
    /\ r.header.vds = "rfc9162"
    /\ "vdp" \notin r.flaws
    /\ r.proofs # << >>
    /\ BlobsOK(r)

\* Rust reads the signature's type with the envelope, wants an integer alg and
\* knows RFC 9162 receipts only.
rust_structure(r) ==
    /\ r.flaws \cap {"size", "octets", "shape", "protected_bstr", "unprotected_map",
                     "signature_bstr", "attached", "encoding",
                     "protected_encoding", "protected_map"} = {}
    /\ check_critical_headers(r.header, Understood)
    /\ r.header.alg \notin {"absent", "text", "beyond_int64"}
    /\ r.header.vds = "rfc9162"
    /\ "vdp" \notin r.flaws
    /\ r.proofs # << >>
    /\ Len(r.proofs) <= MAX_INCLUSION_PROOFS
    /\ BlobsOK(r)

\* Go reads the signature's type with the envelope too, and caps the array of
\* proofs for RFC 9162 receipts only.
go_structure(r) ==
    /\ r.flaws \cap {"size", "octets", "shape", "attached", "encoding", "protected_bstr",
                     "signature_bstr", "unprotected_map", "protected_encoding", "protected_map"} = {}
    /\ r.header.alg \notin {"absent", "text", "beyond_int64"}
    /\ check_critical_headers(r.header, UnderstoodFor(r.header))
    /\ "vdp" \notin r.flaws
    /\ r.proofs # << >>
    /\ BlobsOK(r)
    /\ r.header.vds \in {"rfc9162", "ccf"}
    /\ r.header.vds = "rfc9162" => Len(r.proofs) <= MAX_INCLUSION_PROOFS

StructureOK(port, r) ==
    CASE port = "python" -> python_structure(r)
      [] port = "rust" -> rust_structure(r)
      [] OTHER -> go_structure(r)

-----------------------------------------------------------------------------
(* Inclusion proofs.  A blob has a form, and a body read for one of the two  *)
(* structures: tree_size, leaf_index and path, or a claim digest and path.   *)

\* The leaf_entry_hex argument when it is not hexadecimal.
NotHex == "not_hex"

decode_inclusion_proof(blob) ==
    /\ blob.form = "rfc9162"
    /\ Len(blob.path) <= MAX_AUDIT_PATH
    /\ InclusionShapeOK(blob.leaf_index, blob.tree_size, Len(blob.path))

reconstruct_root(leaf, blob) ==
    root_from_inclusion_proof(leaf, blob.leaf_index, blob.tree_size, blob.path)

\* Python's ceiling on a path holds for CCF too; Go has none there.
verify_ccf_v1_proof(leaf, blob) ==
    /\ blob.form = "ccf"
    /\ blob.claim = leaf
    /\ Len(blob.path) <= MAX_AUDIT_PATH

go_verify_ccf_v1_proof(leaf, blob) ==
    /\ blob.form = "ccf"
    /\ blob.claim = leaf

ccf_proof_ok(port, leaf, blob) ==
    IF port = "python" THEN verify_ccf_v1_proof(leaf, blob) ELSE go_verify_ccf_v1_proof(leaf, blob)

\* The CCF fold hashes the leaf's parts and then one sibling at a time; its
\* result determines claim and path, and is no digest of an RFC 9162 tree.
ccf_root(blob) == <<"ccf", blob.claim, blob.path>>

-----------------------------------------------------------------------------
(* The signature step.                                                     *)

KeyKind(alg) ==
    CASE alg = "EdDSA" -> "ed25519"
      [] alg = "ES256" -> "p256"
      [] alg = "ES384" -> "p384"
      [] OTHER -> "none"

\* The signature is over the header and the root, under this key.
Signed(r, key, root) == r.sig = [key |-> key, header |-> r.header, root |-> root]

\* Over a detached root: the signature's type, the algorithm, the key's kind
\* and the signature itself.
verify_sign1(r, key, root) ==
    /\ "signature_bstr" \notin r.flaws
    /\ r.header.alg \in {"EdDSA", "ES256", "ES384"}
    /\ key.kind = KeyKind(r.header.alg)
    /\ Signed(r, key, root)

rust_verify_signature(r, key, root) ==
    /\ r.header.alg \in {"EdDSA", "ES256"}
    /\ key.kind = KeyKind(r.header.alg)
    /\ Signed(r, key, root)

go_verifier(r, key, root) ==
    /\ r.header.alg \in {"EdDSA", "ES256", "ES384"}
    /\ key.kind = KeyKind(r.header.alg)
    /\ Signed(r, key, root)

SignatureOK(port, r, key, root) ==
    CASE port = "python" -> verify_sign1(r, key, root)
      [] port = "rust" -> rust_verify_signature(r, key, root)
      [] OTHER -> go_verifier(r, key, root)

\* The claims a port reports from a verified header; an iat beyond int64 is
\* left out.  The Go verifier reports none.
NoClaims == [iat |-> "none", grade |-> "none"]

ReportedClaims(port, header) ==
    IF port = "go" THEN NoClaims
    ELSE [iat |-> IF header.iat = "beyond_int64" THEN "none" ELSE header.iat,
          grade |-> header.grade]

-----------------------------------------------------------------------------
(* The contract: when a receipt is accepted for a leaf under a key.        *)

\* Some candidate rebuilds the signed root and no entry is malformed; for a
\* CCF receipt only the first entry counts.  Nothing depends on the order of
\* RFC 9162 proofs.
Acceptable(port, r, leaf, key) ==
    /\ StructureOK(port, r)
    /\ leaf # NotHex
    /\ IF r.header.vds = "rfc9162"
       THEN /\ \A j \in 1..Len(r.proofs) : decode_inclusion_proof(r.proofs[j])
            /\ \E j \in 1..Len(r.proofs) :
                  SignatureOK(port, r, key, reconstruct_root(leaf, r.proofs[j]))
       ELSE /\ ccf_proof_ok(port, leaf, r.proofs[1])
            /\ SignatureOK(port, r, key, ccf_root(r.proofs[1]))
=============================================================================
