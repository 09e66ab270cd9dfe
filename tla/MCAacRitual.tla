---------------------------- MODULE MCAacRitual ----------------------------
(* Links for AacRitual: capsules whose digests coincide or not with what is *)
(* disclosed, bindings, and chains of up to three records with copies,      *)
(* cycles, missing parents and altered payloads.                            *)
EXTENDS AacRitual

Id(n) == <<"id", n>>
PayloadOf(form, name) == [form |-> form, name |-> name]
P == PayloadOf("ascii", "p")
Q == PayloadOf("ascii", "q")
U == PayloadOf("unicode", "u")
T == PayloadOf("text", "t")

ItemOf(shape, caps, disc, sealed, terms, sidecar) ==
    [shape |-> shape, caps |-> caps, disc |-> disc, sealed |-> sealed, terms |-> terms, sidecar |-> sidecar]

Cap(id, parent, input, output) ==
    [NoCapsule EXCEPT !.id = id, !.parent = parent, !.input = input, !.output = output]
Disc(i, o) == [input |-> i, output |-> o]

Single(shape, cap, disc) == ItemOf(shape, <<cap>>, <<disc>>, NoDigest, NoPayload, "none")

\* One capsule: which of its digests are the same, and what is disclosed.
Envelopes ==
    {<<Single("envelope", [Cap(Id("1"), Id("0"), i, o) EXCEPT !.subject = s, !.evidence = e, !.response = r],
              Disc(di, do))>> :
        i \in {NoDigest, jcs(P), RawDigest(T), _json_digest(U)}, o \in {NoDigest, jcs(P)},
        s \in {NoDigest, jcs(P)}, e \in {<< >>, <<jcs(Q), jcs(Q)>>}, r \in {NoDigest, Id("0")},
        di \in {NoPayload, P, Q, U, T}, do \in {NoPayload, P, Q}}

\* Bindings: a capsule without an id, twice the same capsule, terms that are
\* withheld, right or wrong.
Bindings ==
    {<<ItemOf("binding", <<Cap(b, NoDigest, jcs(P), NoDigest), Cap(s, Id("1"), jcs(P), jcs(Q))>>,
            <<Disc(d, NoPayload), Disc(NoPayload, d)>>, t, p, "none")>> :
        b \in {NoDigest, Id("1")}, s \in {NoDigest, Id("1"), Id("2")},
        t \in {NoDigest, jcs(P), jcs(Q), Id("1")}, p \in {NoPayload, P, Q}, d \in {NoPayload, P}}

Singles ==
    {<<ItemOf("other", << >>, << >>, NoDigest, NoPayload, "none")>>,
     <<Single("bare", Cap(NoDigest, Id("0"), jcs(P), NoDigest), NoDisclosures)>>,
     <<Single("bare", Cap(Id("1"), Id("1"), jcs(P), NoDigest), NoDisclosures)>>}

\* Who disposed of a capsule, and what it commits to, bare and wrapped.
Disposed ==
    {<<Single(shape, [Cap(Id("1"), NoDigest, i, NoDigest) EXCEPT !.human = h, !.evidence = e], Disc(d, NoPayload))>> :
        shape \in {"bare", "envelope"}, h \in {"flag", "approver", "policy"}, i \in {NoDigest, jcs(P)},
        e \in {<< >>, <<jcs(Q)>>, <<NoDigest>>}, d \in {NoPayload, P}}

\* Chains: a record discloses nothing, its payload, or another one.
Record(n, parent, d) ==
    Single(IF d = NoPayload THEN "bare" ELSE "envelope", Cap(Id(n), parent, jcs(P), NoDigest), Disc(d, NoPayload))

Parents == {NoDigest, Id("0"), Id("1"), Id("2"), Id("3")}

Chains ==
    {<<Record("1", a, d), Record(n, b, e), Record(m, c, f)>> :
        n \in {"1", "2"}, m \in {"2", "3"}, a \in Parents, b \in Parents, c \in Parents,
        d \in {NoPayload, Q}, e \in {NoPayload, Q}, f \in {P, Q}}

Pairs(sidecars) ==
    {<<[Record("1", NoDigest, NoPayload) EXCEPT !.sidecar = s],
       [Record("2", Id("1"), NoPayload) EXCEPT !.sidecar = t]>> : s \in sidecars, t \in sidecars}

Sidecars == {"none", "eddsa", "eddsa_bad", "keyless", "malformed"} \cup OnlyPythonTakes \cup OnlyPageTakes

\* Statements alone, for the run about the two verifiers.
StatementsTried == {<<b, NoWitness>> : b \in Pairs(Sidecars)}

Witness(h, c, r, v) == [held |-> h, configured |-> c, reachable |-> r, verified |-> v]

WitnessesTried ==
    {NoWitness} \cup {Witness(h, c, r, v) : h \in 0..3, c \in 0..3,
                                            r \in {"none", "true", "false"}, v \in {"none", "true", "false"}}

BundlesTried ==
    {<<b, NoWitness>> : b \in Envelopes \cup Bindings \cup Singles \cup Disposed \cup Chains
                              \cup Pairs(Sidecars)}
    \cup {<<b, w>> : b \in Pairs({"none"}) \cup Singles, w \in WitnessesTried}

MandatesTried ==
    [eat : {"none", "aep", "ear"}, vct : BOOLEAN, cred : {"absent", "null", "plain", "vct"},
     preimage : {"absent", "null", "dict"}, scope : {"absent", "dict", "list"},
     selfcheck : {"absent", "dict", "list"}, action_hash : BOOLEAN, pinned : {"no", "exact", "fields"},
     cases : {0, 2}, submods : {1}]

=============================================================================
