---------------------------- MODULE HostedServer ----------------------------
(***************************************************************************)
(* The hosted verifier as an ASGI application (make_asgi_app in            *)
(* hosted_profiles/hosted.py): requests interleave at their awaits, share  *)
(* the rate gate and the view counters, and one that asks the anchor holds *)
(* the event loop, because _anchor_proxy_json fetches without awaiting.    *)
(* The stdlib handler (make_handler), which serves one request at a time,  *)
(* is the operator do_POST / do_GET the interleaved service is compared    *)
(* with.                                                                   *)
(***************************************************************************)
EXTENDS VerifyPayload, FiniteSets

CONSTANTS Requests,         \* the requests that may arrive
          Scenarios,        \* functions: what each request will be
          Limits,           \* values of SCITT_VERIFY_RPM
          Window,           \* the gate's 60 seconds, in ticks
          Cap,              \* the largest body, in octets
          Keys,             \* keys an anchor may have signed with, or serve
          MaxTime           \* bound on the clock

None == "none"

\* A request's path with its trailing slashes removed; "view" is /v/<capsule_id>
\* and "anchor" /anchor-status/<capsule_id>, whose ids are 64 hex digits.
StaticPaths == {"/static/js", "/bundle/offline-shell", "/instrumentation-policy"}
PagePaths == StaticPaths \cup {"/health", "/bundle", "/", "/verify"}
Paths == PagePaths \cup {"view", "anchor", "other"}

\* A request: its method (the stdlib handler has no other handlers), its path,
\* the length of its body, and what a body posted to /verify carries.
IsRequest(i) ==
    /\ i.method \in {"GET", "POST"} /\ i.path \in Paths
    /\ {i.slash, i.html} \subseteq BOOLEAN
    /\ i.size \in Nat
    /\ i.content \in Contents

ASSUME HostedServerAssumption ==
    /\ IsFiniteSet(Requests) /\ None \notin Requests
    /\ \A sc \in Scenarios, r \in Requests : IsRequest(sc[r])
    /\ Limits \subseteq Int
    /\ Window \in Nat \ {0}
    /\ {Cap, MaxTime} \subseteq Nat

VARIABLES now,              \* time.monotonic
          gate,             \* the _RateGate: [per_minute, start, count]
          views,            \* _CAPSULE_VIEW_COUNTER and _REFERRER_COUNTER
          pc,               \* where each request's coroutine is
          input,            \* the request it serves, fixed from the start
          got,              \* octets of the body read so far
          gone,             \* the host has reported a disconnect to it
          answer,           \* its response: status and body
          looking,          \* the request whose fetch holds the event loop
          fetched,          \* the anchor's answer to its first fetch
          report,           \* what _anchor_proxy_json made of the anchor's answers
          admitted,         \* history: the requests the gate let through,
          at,               \*   when,
          window            \*   and the start of the window they were counted in

gateVars == <<gate, admitted, at, window>>
anchorVars == <<looking, fetched, report>>
vars == <<now, gate, views, pc, input, got, gone, answer, looking, fetched, report,
          admitted, at, window>>

\* _referrer_domain, for a Referer header: same-origin, absent and unparsable
\* ones have no domain.
Referers == {"same-origin", "external"}

\* A response: its status, the kind of its body, and the verdict in it.
Reply(status, body) == [status |-> status, body |-> body, valid |-> FALSE, reasons |-> {}]
NoReply == Reply(0, None)

\* What each page answers; the root is content-negotiated.
Page(i) ==
    Reply(200, CASE i.path = "/health"                 -> "ok"
                 [] i.path = "/static/js"              -> "js"
                 [] i.path = "/instrumentation-policy" -> "policy"
                 [] i.path \in {"/", "/verify"}        -> IF i.html THEN "html" ELSE "capabilities"
                 [] OTHER                              -> "html")

\* 400 if the transport was malformed, else 200 and the verdict.
Answer(verdict) ==
    [status  |-> IF verdict.bad_request THEN 400 ELSE 200,
     body    |-> "verdict",
     valid   |-> verdict.valid,
     reasons |-> verdict.reasons]

TooLarge == Reply(413, "request-too-large")

\* What GET /v1/inclusion at the anchor may end in: 404, a failure, an inclusion
\* without a receipt ("bare"), or one with a receipt, the key that signed it and
\* whether it proves the entry it names.
Failures == {"http-error", "unreachable", "unusable"}
Rungs == {"local-anchored", "counterparty-visible", "publicly-anchored"}
NotAsked == [kind |-> "not-asked", key |-> None, proves |-> FALSE, rung |-> None]
Inclusions ==
    {a \in [kind : {"not-found", "bare", "receipt"} \cup Failures, key : Keys \cup {None},
            proves : BOOLEAN, rung : Rungs \cup {None}] :
        /\ a.key # None <=> a.kind = "receipt"
        /\ a.proves => a.kind = "receipt"
        /\ a.rung # None <=> a.kind \in {"bare", "receipt"}}

\* The result dict of _anchor_proxy_json; error says whether its error is set.
Report(anchored, verified, rung, failed) ==
    [anchored |-> anchored, receipt_verified |-> verified, rung |-> rung, error |-> failed]

-----------------------------------------------------------------------------
(* The rate gate.                                                          *)

\* Mutant: a new window begins with the old count.
RolledUncleared(g) == IF now - g.start >= Window THEN [g EXCEPT !.start = now] ELSE g

Rolled(g) ==
    IF now - g.start >= Window
    THEN [per_minute |-> g.per_minute, start |-> now, count |-> 0]
    ELSE g

Counted(g) == [Rolled(g) EXCEPT !.count = @ + 1]

\* Mutant: the request at hand is not counted.
allow_one_more(g) == g.per_minute <= 0 \/ Rolled(g).count <= g.per_minute

allow(g) == g.per_minute <= 0 \/ Counted(g).count <= g.per_minute

AfterAllow(g) == IF g.per_minute <= 0 THEN g ELSE Counted(g)

-----------------------------------------------------------------------------
(* The coroutine of a request.  One action is one stretch between awaits.  *)

Init ==
    /\ now = 0
    /\ gate \in [per_minute : Limits, start : {0}, count : {0}]
    /\ views = [total |-> 0, external |-> 0]
    /\ pc = [r \in Requests |-> "idle"]
    /\ input \in Scenarios
    /\ got = [r \in Requests |-> 0]
    /\ gone = [r \in Requests |-> FALSE]
    /\ answer = [r \in Requests |-> NoReply]
    /\ looking = None
    /\ fetched = [r \in Requests |-> NotAsked]
    /\ report = [r \in Requests |-> Report(FALSE, FALSE, "standalone", FALSE)]
    /\ admitted = {}
    /\ at = [r \in Requests |-> 0]
    /\ window = [r \in Requests |-> 0]

Tick ==
    /\ now < MaxTime
    /\ now' = now + 1
    /\ UNCHANGED <<gateVars, views, pc, input, got, gone, answer, anchorVars>>

\* A request's coroutine runs only while no fetch holds the event loop.
Runs(r, from) == looking = None /\ pc[r] = from

Arrives(r, method, path) == /\ Runs(r, "idle")
                            /\ input[r].method = method
                            /\ input[r].path = path

\* The coroutine has its response and awaits send().
Respond(r, a) == /\ pc' = [pc EXCEPT ![r] = "send"]
                 /\ answer' = [answer EXCEPT ![r] = a]

\* GET of a page, or a method and path the service does not know.
ServePage(r) ==
    /\ Runs(r, "idle")
    /\ LET i == input[r]
       IN  \/ i.method = "GET" /\ i.path \in PagePaths /\ Respond(r, Page(i))
           \/ /\ i.method = "GET" => i.path = "other"
              /\ i.method = "POST" => i.path # "/verify"
              /\ Respond(r, Reply(404, "error"))
    /\ UNCHANGED <<now, gateVars, views, input, got, gone, anchorVars>>

\* GET /v/<capsule_id>: _instrument_capsule_view, then the page.
ServeView(r) ==
    /\ Arrives(r, "GET", "view")
    /\ views' = [total    |-> views.total + 1,
                 external |-> views.external + IF input[r].referer = "external" THEN 1 ELSE 0]
    /\ Respond(r, Reply(200, "html"))
    /\ UNCHANGED <<now, gateVars, input, got, gone, anchorVars>>

\* POST /verify, up to the first await: the gate is asked before any of the
\* body is read.
PostVerify(r) ==
    /\ Arrives(r, "POST", "/verify")
    /\ gate' = AfterAllow(gate)
    /\ IF allow(gate)
       THEN /\ pc' = [pc EXCEPT ![r] = "read"]
            /\ admitted' = admitted \cup {r}
            /\ at' = [at EXCEPT ![r] = now]
            /\ window' = [window EXCEPT ![r] = AfterAllow(gate).start]
            /\ UNCHANGED answer
       ELSE Respond(r, Reply(429, "rate-limited")) /\ UNCHANGED <<admitted, at, window>>
    /\ UNCHANGED <<now, views, input, got, gone, anchorVars>>

\* Mutant: the ceiling is looked at only while more is to come.
HaveBodyUncapped(r, n, more) ==
    IF ~more THEN Respond(r, Answer(verify_request_bytes(input[r], n)))
    ELSE IF n > Cap THEN Respond(r, TooLarge)
    ELSE UNCHANGED <<pc, answer>>

\* What the loop over receive() does with n octets in hand, more to come or not.
HaveBody(r, n, more) ==
    IF n > Cap THEN Respond(r, TooLarge)
    ELSE IF more THEN UNCHANGED <<pc, answer>>
    ELSE Respond(r, Answer(verify_request_bytes(input[r], n)))

\* An http.request message.  The host cuts the body as it likes; it may say
\* that more is to come when nothing is.
Receive(r) ==
    /\ Runs(r, "read") /\ ~gone[r]
    /\ \E n \in got[r] .. input[r].size, more \in BOOLEAN :
          /\ more \/ n = input[r].size
          /\ more => n > got[r]
          /\ got' = [got EXCEPT ![r] = n]
          /\ HaveBody(r, n, more)
    /\ UNCHANGED <<now, gateVars, views, input, gone, anchorVars>>

\* Mutant: the loop goes on until the body is complete.
DisconnectIgnored(r) ==
    /\ Runs(r, "read")
    /\ gone' = [gone EXCEPT ![r] = TRUE]
    /\ UNCHANGED <<now, gateVars, views, pc, input, got, answer, anchorVars>>

\* An http.disconnect message: it has neither body nor more_body, so the loop
\* ends and what has been read is verified.
Disconnect(r) ==
    /\ Runs(r, "read")
    /\ gone' = [gone EXCEPT ![r] = TRUE]
    /\ HaveBody(r, got[r], FALSE)
    /\ UNCHANGED <<now, gateVars, views, input, got, anchorVars>>

\* send() of http.response.start and then of http.response.body; between the two
\* nothing is read or written that another request shares.
Send(r) ==
    /\ Runs(r, "send")
    /\ pc' = [pc EXCEPT ![r] = "done"]
    /\ UNCHANGED <<now, gateVars, views, input, got, gone, answer, anchorVars>>

-----------------------------------------------------------------------------
(* _anchor_proxy_json.                                                     *)

\* GET /anchor-status/<capsule_id> starts the first fetch.
AskAnchor(r) ==
    /\ Arrives(r, "GET", "anchor")
    /\ pc' = [pc EXCEPT ![r] = "fetch"]
    /\ looking' = r
    /\ UNCHANGED <<now, gateVars, views, input, got, gone, answer, fetched, report>>

\* It returns the report, and the event loop runs again.
Proxied(r, p) ==
    /\ report' = [report EXCEPT ![r] = p]
    /\ looking' = None
    /\ Respond(r, Reply(200, "anchor-status"))

\* The first fetch ends.  anchored is set before the answer is looked into, and
\* without a receipt there is no second fetch.
FetchInclusion(r) ==
    /\ looking = r /\ pc[r] = "fetch"
    /\ \E a \in Inclusions :
          /\ fetched' = [fetched EXCEPT ![r] = a]
          /\ CASE a.kind = "not-found" -> Proxied(r, Report(FALSE, FALSE, "standalone", FALSE))
               [] a.kind \in Failures  -> Proxied(r, Report(a.kind = "unusable", FALSE, None, TRUE))
               [] a.kind = "bare"      -> Proxied(r, Report(TRUE, FALSE, a.rung, FALSE))
               [] a.kind = "receipt"   -> /\ pc' = [pc EXCEPT ![r] = "key"]
                                          /\ UNCHANGED <<answer, looking, report>>
    /\ UNCHANGED <<now, gateVars, views, input, got, gone>>

\* Mutant: an exception of the second fetch ends in the outer handler.
AfterKeyUnguarded(a, k) ==
    Report(TRUE, k = a.key /\ a.proves, IF k = "failed" THEN None ELSE a.rung, k = "failed")

\* The report after the second fetch, for the key served, "short" for one that
\* is not 64 digits, or "failed" for any exception, which the inner handler
\* keeps from the outer ones.
AfterKey(a, k) == Report(TRUE, k = a.key /\ a.proves, a.rung, FALSE)

FetchKey(r) ==
    /\ looking = r /\ pc[r] = "key"
    /\ \E k \in Keys \cup {"short", "failed"} : Proxied(r, AfterKey(fetched[r], k))
    /\ UNCHANGED <<now, gateVars, views, input, got, gone, fetched>>

-----------------------------------------------------------------------------
Step(r) == Receive(r) \/ Disconnect(r) \/ Send(r)
           \/ FetchInclusion(r) \/ FetchKey(r)

Request(r) == ServePage(r) \/ ServeView(r) \/ PostVerify(r) \/ AskAnchor(r)

Next == Tick \/ \E r \in Requests : Request(r) \/ Step(r)

\* The event loop runs every coroutine that can go on, a fetch ends by its
\* eight seconds at the latest, and the host reports the rest of a body or that
\* the client has gone.
Spec == Init /\ [][Next]_vars /\ \A r \in Requests : WF_vars(Step(r))

-----------------------------------------------------------------------------
(* The stdlib handler: the same service, one request at a time.  It looks  *)
(* for its routes in the request's whole target.  The target is plain when *)
(* it is the path as it stands; any other has a query string or            *)
(* percent-encoded characters as well, which scope["path"] is free of.     *)

\* rfile.read(Content-Length): to the end of the stream for a negative length.
ReadLength(i) == IF i.declared \in 0..i.size THEN i.declared ELSE i.size

do_POST(i, plain, allowed) ==
    IF ~plain \/ i.path # "/verify" THEN Reply(404, "error")
    ELSE IF ~allowed          THEN Reply(429, "rate-limited")
    ELSE IF i.declared > Cap  THEN TooLarge
    ELSE Answer(verify_request_bytes(i, ReadLength(i)))

\* It compares some paths with their trailing slash, which the ASGI routes drop.
do_GET(i, plain) ==
    IF ~plain THEN Reply(404, "error")
    ELSE IF i.path \in PagePaths /\ ~(i.slash /\ i.path \in StaticPaths) THEN Page(i)
    ELSE IF i.path = "view" THEN Reply(200, "html")
    ELSE IF i.path = "anchor" THEN Reply(200, "anchor-status")
    ELSE Reply(404, "error")

-----------------------------------------------------------------------------
(* Properties.                                                             *)

Fetching == {r \in Requests : pc[r] \in {"fetch", "key"}}

\* TypeOK: the types of the state; the event loop is held exactly by the request
\* that is fetching, of which there is at most one; only arrived requests were
\* admitted.
TypeOK ==
    /\ now \in Nat
    /\ gate \in [per_minute : Limits, start : Nat, count : Nat]
    /\ views \in [total : Nat, external : Nat]
    /\ pc \in [Requests -> {"idle", "read", "fetch", "key", "send", "done"}]
    /\ \A r \in Requests : IsRequest(input[r])
    /\ got \in [Requests -> Nat]
    /\ gone \in [Requests -> BOOLEAN]
    /\ Fetching = IF looking = None THEN {} ELSE {looking}
    /\ admitted \subseteq {r \in Requests : pc[r] # "idle"}
    /\ at \in [Requests -> Nat]
    /\ window \in [Requests -> Nat]

\* The requests counted in the gate's window that began at s.
In(s) == {r \in admitted : window[r] = s}

Least(a, b) == IF a <= b THEN a ELSE b

Limited == gate.per_minute > 0

\* GateInv: while the gate is on, its windows do not overlap, a request is
\* admitted within the window it is counted in, the current window has admitted
\* what it counted up to the limit, and no window has admitted more.
GateInv ==
    /\ gate.start <= now
    /\ Limited =>
         /\ \A r \in admitted : window[r] <= at[r] /\ at[r] < window[r] + Window /\ at[r] <= now
         /\ \A r \in admitted : window[r] = gate.start \/ window[r] + Window <= gate.start
         /\ \A r, q \in admitted : \/ window[r] = window[q]
                                   \/ window[r] + Window <= window[q]
                                   \/ window[q] + Window <= window[r]
         /\ Cardinality(In(gate.start)) = Least(gate.count, gate.per_minute)
         /\ \A r \in admitted : Cardinality(In(window[r])) <= gate.per_minute

\* BurstBound: in any stretch of Window ticks, wherever it begins, the fixed
\* window gate admits at most twice its limit, however requests interleave and
\* whatever the clock showed when the process started.
BurstBound ==
    Limited => \A r \in admitted :
        Cardinality({q \in admitted : at[r] <= at[q] /\ at[q] < at[r] + Window})
            <= 2 * gate.per_minute

\* RefusedOnlyWhenFull: a step answers 429 only while the gate's limit has been
\* admitted since its window began; refused requests use up nothing.
RefusedOnlyWhenFull ==
    [][\A r \in Requests : answer'[r].status = 429 /\ answer[r].status # 429 =>
          /\ Limited
          /\ Cardinality({q \in admitted : window[q] = gate'.start}) = gate.per_minute
          /\ now < gate'.start + Window]_vars

\* What a verdict is about: every artefact that was sent is genuine, under the
\* key that was sent, and something was sent.
Genuine(c) ==
    /\ c.stmt # "none" \/ c.rcpt # "none"
    /\ c.stmt # "none" => c.stmt = "genuine" /\ c.stmtKey = "right"
    /\ c.rcpt # "none" => c.rcpt = "genuine" /\ c.logKey = "right" /\ c.leaf = "proven"

\* VerdictIsOfTheContent: POST /verify says valid exactly of genuine content, an
\* unchecked artefact is never valid, and a verdict has reasons exactly when it
\* is not valid.
VerdictIsOfTheContent ==
    \A r \in Requests : answer[r].body = "verdict" =>
        /\ answer[r].valid => Genuine(input[r].content)
        /\ answer[r].status = 200 => (answer[r].valid <=> Genuine(input[r].content))
        /\ answer[r].valid <=> answer[r].reasons = {}

\* What the stdlib handler answers, its target plain or not, let in by its gate
\* or not.
StdlibAnswer(i, plain, allowed) ==
    IF i.method = "GET" THEN do_GET(i, plain) ELSE do_POST(i, plain, allowed)

\* WrappersAgree: a client that stays gets from the interleaved ASGI app, however
\* the host cut the body up, what the stdlib handler answers to the path, as long
\* as it has no trailing slash and Content-Length tells the body's length.  To a
\* target with more than the path the handler answers 404 and the app does not
\* mind, so the "Routes mirror the stdlib handler" (make_asgi_app) for paths alone.
WrappersAgree ==
    \A r \in Requests, plain \in BOOLEAN :
        LET i == input[r]
        IN  pc[r] = "done" /\ ~gone[r] /\ ~i.slash /\ i.declared = i.size =>
                (answer[r] = StdlibAnswer(i, plain, r \in admitted)
                    <=> plain \/ answer[r].status = 404)

\* ReportIsOfTheInclusion: an anchor report says standalone exactly when the
\* anchor answered 404, has no rung exactly when the first fetch failed, and says
\* receipt_verified only of a receipt that proves its entry; what happens to the
\* second fetch touches receipt_verified alone.
ReportIsOfTheInclusion ==
    \A r \in Requests : answer[r].body = "anchor-status" =>
        LET p == report[r]
            a == fetched[r]
        IN  /\ p.rung = "standalone" <=> a.kind = "not-found"
            /\ p.rung = None <=> a.kind \in Failures
            /\ p.error <=> p.rung = None
            /\ p.receipt_verified => p.anchored /\ a.kind = "receipt" /\ a.proves

\* Answered: every request is answered, whatever the others do, the disconnected
\* and the ones the anchor keeps waiting included.
Answered == \A r \in Requests : pc[r] # "idle" ~> pc[r] = "done"
=============================================================================
