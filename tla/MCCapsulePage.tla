--------------------------- MODULE MCCapsulePage ---------------------------
(* Fragments for CapsulePage: capsules that are whole or altered, bindings  *)
(* that share or do not share their sealed terms, a capsule that throws, a  *)
(* MachineMandate payload, and every form a fragment can have.              *)
EXTENDS CapsulePage

Cap(id, parent, input, body) ==
    [NoCapsule EXCEPT !.id = id, !.parent = parent, !.input = input, !.body = body]
ItemOf(shape, caps, input, sealed, terms) ==
    [Other EXCEPT !.shape = shape, !.caps = caps,
                  !.disc = [k \in DOMAIN caps |-> [NoDisclosures EXCEPT !.input = input]],
                  !.sealed = sealed, !.terms = terms]
Bare(cap) == ItemOf("bare", <<cap>>, NoPayload, NoDigest, NoPayload)

Id(n) == <<"id", n>>
P == [form |-> "ascii", name |-> "p"]
Q == [form |-> "ascii", name |-> "q"]

Whole == Bare(Cap(Id("1"), NoDigest, jcs(P), TRUE))
Altered == Bare(Cap(Id("2"), Id("1"), jcs(P), FALSE))
Disclosed == ItemOf("envelope", <<Cap(Id("3"), Id("1"), jcs(P), TRUE)>>, P, NoDigest, NoPayload)
Broken == Bare([Cap(Id("4"), NoDigest, NoDigest, TRUE) EXCEPT !.listed = FALSE])
Binding(sealed, terms) ==
    ItemOf("binding", <<Cap(Id("5"), NoDigest, NoDigest, TRUE), Cap(Id("6"), NoDigest, NoDigest, TRUE)>>,
         NoPayload, jcs(sealed), terms)
Mandate == [Other EXCEPT !.shape = "mandate"]

Fragment(form, items, w) == [form |-> form, items |-> items, witness |-> w]

FragmentsTried ==
    {Fragment(f, << >>, NoWitness) : f \in {"none", "unreadable", "empty"}}
    \cup {Fragment("single", <<i>>, NoWitness) : i \in {Whole, Altered, Disclosed, Broken, Mandate, Other,
                                                        Binding(P, Q)}}
    \cup {Fragment("array", b, NoWitness) :
            b \in {<<Whole, Altered>>, <<Altered, Disclosed>>, <<Binding(P, P), Binding(P, NoPayload)>>,
                   <<Binding(P, P), Binding(Q, P)>>, <<Disclosed, Mandate>>, <<Whole, Broken>>}}
    \cup {Fragment("wrapper", b, w) :
            b \in {<<Whole, Altered>>, <<Disclosed>>, <<Broken, Whole>>, <<Binding(P, P)>>},
            w \in {Witness(2, 2, "none", "none"), Witness(1, 2, "true", "none"), Witness(1, 1, "none", "false")}}

PastedTried == {Whole, Altered, Mandate, Other}

=============================================================================
