---------------------------- MODULE MCBundleChecks --------------------------
(* Bundles of up to three records: every chain over three ids and a missing   *)
(* one, and every mix of altered, disclosing and wrapped records.             *)
EXTENDS BundleChecks, SequencesExt

Rec(id, parent, body, disc, wrapped) ==
    [id |-> id, parent |-> parent, body |-> body, disc |-> disc, wrapped |-> wrapped]

NoCert == [kind |-> "absent"]

\* Chains: repeated ids, cycles, missing parents, undeclared parents.
ChainRecords ==
    {Rec(id, parent, body, "withheld", FALSE) :
        id \in {"a", "b", "c"}, parent \in {"a", "b", "c", "x", NoId}, body \in {"ok", "bad"}}
    \cup {Rec(NoId, parent, "ok", "withheld", FALSE) : parent \in {"a", NoId}}

ChainBundles ==
    [records : SeqOf(ChainRecords, 3), cert : {NoCert}, report : {[i \in {"a", "b", "c"} |-> "none"]}, crypto : {TRUE}]

\* Disclosures: a chain of two whose records vary in everything else.
MixedPairs ==
    {<<Rec("a", p, b1, d1, w1), Rec("b", "a", b2, d2, w2)>> :
        p \in {"x", NoId}, b1, b2 \in {"ok", "bad"},
        d1, d2 \in {"withheld", "match", "mismatch"}, w1, w2 \in BOOLEAN}

Certs ==
    {NoCert, [kind |-> "malformed"]} \cup
    [kind : {"range"}, span : {1, 2}, committed : {<<"a", "b">>, <<"a", "c">>},
     growth : {"none", "ok", "bad"}] \cup
    [kind : {"v2"}, interval : {"pass", "withheld", "fail"},
     members : {"pass", "withheld", "fail"}, unsigned : BOOLEAN]

\* A v2 bundle is loaded with WebCrypto only: the library hashes with it.
MixedBundles ==
    {b \in [records : MixedPairs, cert : Certs,
             report : [{"a", "b"} -> {"none", "ok", "bad"}], crypto : BOOLEAN] :
        b.cert.kind = "v2" => b.crypto}

MCBundles == ChainBundles \cup MixedBundles
=============================================================================
