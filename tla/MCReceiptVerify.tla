-------------------------- MODULE MCReceiptVerify ---------------------------
(* Receipts of a log of three entries, signed well and badly, whole and       *)
(* altered, with every small array of good and bad proofs.                    *)
EXTENDS ReceiptVerify, SequencesExt

LogEntries == <<"a", "b", "c">>
SignedRoot == merkle_root(LogEntries)

K1 == [kind |-> "ed25519", id |-> 1]
Keys == {K1, [kind |-> "ed25519", id |-> 2], [kind |-> "p256", id |-> 1],
         [kind |-> "p384", id |-> 1], [kind |-> "unloadable", id |-> 1]}

Blob(form, size, index, path, claim) ==
    [form |-> form, tree_size |-> size, leaf_index |-> index, path |-> path, claim |-> claim]

Honest(index) == Blob("rfc9162", 3, index, inclusion_proof(LogEntries, index), "none")
CcfGood == Blob("ccf", 0, 0, <<"s">>, "a")

Blobs ==
    {Honest(0),                                                        \* a's own proof
     Honest(2),                                                        \* another leaf's proof
     Blob("rfc9162", 4, 0, inclusion_proof(LogEntries, 0), "none"),    \* a's, size overstated
     Blob("rfc9162", 3, 2, inclusion_proof(LogEntries, 0), "none"),    \* path too long for index
     Blob("not_bstr", 0, 0, << >>, "none"),
     Blob("encoding", 0, 0, << >>, "none"),
     Blob("malformed", 0, 0, << >>, "none"),
     CcfGood,
     Blob("ccf", 0, 0, <<"s">>, "b"),                                  \* another claim digest
     Blob("ccf", 0, 0, <<"s", "s", "s">>, "a")}                        \* path above the ceiling

Headers ==
    [vds : {"rfc9162", "ccf", "other"},
     alg : {"EdDSA", "ES256", "ES384", "absent", "text", "beyond_int64", "unknown"},
     crit : {"absent", "understood", "ccf", "refused"},
     iat : {"none", "t", "beyond_int64"},
     grade : {"none", "g"}]

H(vds) == [vds |-> vds, alg |-> "EdDSA", crit |-> "absent", iat |-> "t", grade |-> "g"]

RootFor(vds) == IF vds = "ccf" THEN ccf_root(CcfGood) ELSE SignedRoot
ProofFor(vds) == IF vds = "ccf" THEN CcfGood ELSE Honest(0)

Receipt(flaws, header, proofArray, sig) ==
    [flaws |-> flaws, header |-> header, proofs |-> proofArray, sig |-> sig]

\* The header as it was signed: the one presented, or one altered since.
Signatures(h, key) ==
    {[key |-> key, header |-> h, root |-> RootFor(h.vds)],
     [key |-> key, header |-> [h EXCEPT !.iat = "t0"], root |-> RootFor(h.vds)]}

Flaws ==
    {"size", "octets", "shape", "attached", "encoding", "protected_bstr", "protected_encoding",
     "protected_map", "unprotected_map", "vdp", "signature_bstr"}

\* Octet and type flaws, one at a time and with a signature of the wrong type.
FlawInputs ==
    {[receipt |-> Receipt(f, H(vds), <<ProofFor(vds)>>,
                          [key |-> K1, header |-> H(vds), root |-> RootFor(vds)]),
      leaf |-> "a", key |-> key] :
        f \in {{x} \cup y : x \in Flaws, y \in {{}, {"signature_bstr"}}},
        vds \in {"rfc9162", "ccf"},
        key \in {k \in Keys : k.kind \in {"ed25519", "unloadable"}}}

\* Every header, signed or altered, under every kind of key.
HeaderInputs ==
    UNION {{[receipt |-> Receipt({}, h, <<ProofFor(h.vds)>>, sig), leaf |-> "a", key |-> key] :
                sig \in Signatures(h, key)} : h \in Headers, key \in Keys}

\* Every array of up to three proofs, one more than the ceiling.
ProofInputs ==
    {[receipt |-> Receipt({}, H(vds), ps, [key |-> K1, header |-> H(vds), root |-> RootFor(vds)]),
      leaf |-> leaf, key |-> key] :
        ps \in SeqOf(Blobs, 3), vds \in {"rfc9162", "ccf"}, leaf \in {"a", "c", NotHex},
        key \in {k \in Keys : k.kind = "ed25519"}}

MCInputs == FlawInputs \cup HeaderInputs \cup ProofInputs
=============================================================================
