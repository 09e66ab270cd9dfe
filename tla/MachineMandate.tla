--------------------------- MODULE MachineMandate ---------------------------
(***************************************************************************)
(* The second profile: hosted_profiles/machine_mandate.py and the renderer *)
(* it gives to the capsule page (MM_RENDER_JS).  A payload is a record of  *)
(* what the two dispatch on: its eat_profile (eat), whether it carries the *)
(* profile's vct, its credential_claims (cred: "absent", "null", a dict    *)
(* that is "plain", or one with the "vct"), its credential_preimage, its   *)
(* scope ("absent", "dict" or "list"), its self_check, whether it has an   *)
(* action_hash, and whether it is a pinned fixture: "exact", or with the   *)
(* fields of one only ("fields"), or "no".  A view is [kind, groups]: the  *)
(* sub-type that was picked, and the labels of the groups that are shown.  *)
(***************************************************************************)
EXTENDS Sequences, Naturals

IsMandate(d) ==
    /\ d.eat \in {"none", "aep", "ear"} /\ d.vct \in BOOLEAN /\ d.action_hash \in BOOLEAN
    /\ d.cred \in {"absent", "null", "plain", "vct"} /\ d.preimage \in {"absent", "null", "dict"}
    /\ d.scope \in {"absent", "dict", "list"} /\ d.selfcheck \in {"absent", "dict", "list"}
    /\ d.pinned \in {"no", "exact", "fields"} /\ d.cases \in Nat /\ d.submods \in Nat

is_machine_mandate(d) == d.vct \/ d.cred = "vct" \/ d.pinned = "exact"

-----------------------------------------------------------------------------

GroupIf(shown, label) == IF shown THEN <<label>> ELSE << >>

Cases(d) == [k \in 1..d.cases |-> "Gate-case"]

Submodules(d) == [k \in 1..d.submods |-> "Submodule"]

_parse_aep(d) == [kind |-> "aep", groups |-> <<"Token-identity", "Action", "Binding">>]

_parse_ear(d) == [kind |-> "ear", groups |-> <<"EAR-header">> \o Submodules(d)]

_parse_run_credential(d) ==
    [kind |-> "run", groups |-> <<"Credential-identity", "Action-seal">> \o GroupIf(d.scope # "list", "Scope")]

\* A missing member reads as an empty dict; one of another type is left out.
_parse_mint_record(d) ==
    [kind |-> "mint",
     groups |-> <<"Record-identity">>
                \o GroupIf(d.cred # "null", "Credential-claims")
                \o GroupIf(d.cred # "null" /\ d.scope # "list", "Scope")
                \o GroupIf(d.preimage = "dict", "Preimage-commitment")
                \o GroupIf(d.selfcheck # "list", "Self-check")
                \o (IF d.selfcheck = "dict" THEN Cases(d) ELSE << >>)]

parse_machine_mandate(d) ==
    CASE d.eat = "aep" -> _parse_aep(d)
      [] d.eat = "ear" -> _parse_ear(d)
      [] d.eat = "none" /\ d.cred # "absent" /\ d.preimage # "absent" -> _parse_mint_record(d)
      [] OTHER -> IF d.vct \/ d.action_hash THEN _parse_run_credential(d)
                  ELSE [kind |-> "unrecognised", groups |-> << >>]

-----------------------------------------------------------------------------

isMintRecord(d) == d.cred \in {"plain", "vct"} /\ d.preimage = "dict"

renderMachineMandate(d) ==
    CASE d.eat = "aep" -> [kind |-> "aep", groups |-> <<"Token-identity", "Action", "Binding">>]
      [] d.eat = "ear" -> [kind |-> "ear", groups |-> <<"EAR-header">> \o Submodules(d)]
      [] d.eat = "none" /\ isMintRecord(d) ->
            [kind |-> "mint",
             groups |-> <<"Record-identity", "Credential-claims", "Scope", "Preimage-commitment", "Self-check">>
                        \o (IF d.selfcheck = "dict" THEN Cases(d) ELSE << >>)]
      [] OTHER -> IF d.vct
                  THEN [kind |-> "run", groups |-> <<"Credential-identity", "Action-seal", "Scope">>]
                  ELSE [kind |-> "generic", groups |-> <<"MachineMandate-fields">>]

=============================================================================
