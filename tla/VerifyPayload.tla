--------------------------- MODULE VerifyPayload ---------------------------
(***************************************************************************)
(* verify_payload and verify_request_bytes of hosted_profiles/hosted.py:   *)
(* what one body posted to the hosted verifier is answered with.           *)
(*                                                                         *)
(* A body is its length in octets and the JSON object it starts with: the  *)
(* object ends at octet "need", and only white space follows up to octet   *)
(* "clean".  A prefix of the body therefore parses exactly when it ends in *)
(* need..clean; a body that is no JSON object has clean < need.  What the  *)
(* cryptography decides is whether an artefact is genuine and under which  *)
(* key.                                                                    *)
(***************************************************************************)
EXTENDS Integers

\* "none" is an absent or empty member; "undecodable" is not base64, or no
\* string at all; "malformed" decodes to octets that are no COSE_Sign1.
Contents == [stmt : {"none", "undecodable", "malformed", "forged", "genuine"},
             stmtKey : {"none", "wrong", "right"},
             rcpt : {"none", "undecodable", "malformed", "forged", "genuine"},
             logKey : {"none", "wrong", "right"},
             leaf : {"none", "other", "proven"}]

\* parse_signed_statement: signature_verified is "null" when no key was given,
\* whatever the octets are.
signature_verified(c) ==
    IF c.stmtKey = "none" THEN "null"
    ELSE IF c.stmt = "genuine" /\ c.stmtKey = "right" THEN "true" ELSE "false"

\* verify_payload on the statement: the report's signature_verified, and the
\* reasons it adds.
StatementReport(c) ==
    IF c.stmt = "undecodable" THEN "false" ELSE signature_verified(c)

StatementReasons(c) ==
    IF c.stmt = "none"                   THEN {}
    ELSE IF c.stmt = "undecodable"       THEN {"malformed-statement"}
    ELSE IF StatementReport(c) = "false" THEN {"statement-signature-did-not-verify"}
    ELSE IF StatementReport(c) = "null"  THEN {"statement-signature-not-checked"}
    ELSE {}

\* verify_receipt as verify_payload sees it: it holds of a genuine receipt, its
\* own log's key and the leaf it proves, and names an error otherwise.
ReceiptOk(c) == c.rcpt = "genuine" /\ c.logKey = "right" /\ c.leaf = "proven"

ReceiptReport(c) ==
    IF c.logKey = "none" \/ c.leaf = "none" THEN FALSE ELSE ReceiptOk(c)

ReceiptReasons(c) ==
    IF c.rcpt = "none"                           THEN {}
    ELSE IF c.logKey = "none" \/ c.leaf = "none" THEN {"receipt-requires-key-and-leaf"}
    ELSE IF c.rcpt = "undecodable"               THEN {"malformed-receipt"}
    ELSE IF ~ReceiptOk(c)                        THEN {"receipt-errors"}
    ELSE {}

Refusal == [valid |-> FALSE, bad_request |-> TRUE, reasons |-> {"bad-request"}]

\* Mutant: what was not refuted counts as verified.
components_not_false(c) ==
    (IF c.stmt = "none" THEN {} ELSE {StatementReport(c) # "false"})
    \cup (IF c.rcpt = "none" THEN {} ELSE {ReceiptReport(c)})

\* Every component the request carried must have been verified, and there must
\* be one.
components(c) == (IF c.stmt = "none" THEN {} ELSE {StatementReport(c) = "true"})
                 \cup (IF c.rcpt = "none" THEN {} ELSE {ReceiptReport(c)})

verify_payload(c) ==
    IF c.stmt = "none" /\ c.rcpt = "none" THEN Refusal
    ELSE [valid       |-> components(c) = {TRUE},
          bad_request |-> FALSE,
          reasons     |-> StatementReasons(c) \cup ReceiptReasons(c)]

\* The first n octets of body b.
verify_request_bytes(b, n) ==
    IF n \in b.need .. b.clean THEN verify_payload(b.content) ELSE Refusal
=============================================================================
