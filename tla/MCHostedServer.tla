-------------------------- MODULE MCHostedServer --------------------------
(***************************************************************************)
(* Three requests against the hosted service: what one of them     *)
(* carries, how its body comes and ends, and its route vary.               *)
(***************************************************************************)
EXTENDS HostedServer, TLC

CONSTANTS r1, r2, r3, k1, k2

MCRequests == {r1, r2, r3}
MCKeys == {k1, k2}

GoodContent == [stmt |-> "genuine", stmtKey |-> "right", rcpt |-> "genuine",
                logKey |-> "right", leaf |-> "proven"]

Statement == [GoodContent EXCEPT !.rcpt = "none"]
Empty == [Statement EXCEPT !.stmt = "none"]

\* Good content with at most one member changed, each artefact alone, neither.
MCContents ==
    {c \in Contents : Cardinality({f \in DOMAIN c : c[f] # GoodContent[f]}) <= 1}
    \cup {[Statement EXCEPT !.stmtKey = "none"], [GoodContent EXCEPT !.stmt = "none", !.logKey = "wrong"], Empty}

Post(size, declared, need, clean, c) ==
    [method |-> "POST", path |-> "/verify", slash |-> FALSE, html |-> FALSE, referer |-> "same-origin",
     size |-> size, declared |-> declared, need |-> need, clean |-> clean, content |-> c]

Get(method, path, slash, html, referer) ==
    [Post(0, 0, 1, 0, Empty) EXCEPT !.method = method, !.path = path, !.slash = slash,
                                    !.html = html, !.referer = referer]

\* A body below, at and above the ceiling of two octets; white space after the
\* object; an object followed by something else; no object; a wrong length.
Bodies == {Post(1, 1, 1, 1, Statement), Post(2, 2, 2, 2, Statement), Post(2, 2, 1, 2, Statement),
           Post(2, 2, 1, 1, Statement), Post(2, 1, 2, 2, Statement), Post(2, 2, 1, 0, Empty),
           Post(3, 3, 2, 3, Statement), Post(3, 3, 3, 3, Statement), Post(3, -1, 3, 3, Statement)}

Routes == {Get("GET", p, FALSE, TRUE, "external") : p \in Paths}
          \cup {Get("GET", "/", TRUE, FALSE, "same-origin"), Get("GET", "view", FALSE, TRUE, "same-origin"),
                Get("GET", "/static/js", TRUE, FALSE, "same-origin"),
                Get("POST", "other", FALSE, FALSE, "same-origin")}

\* What is carried and the route vary beside two probes; bodies and the slower
\* routes vary beside a probe and a post; three posts compete for the gate.
Plain == Post(1, 1, 1, 1, Statement)
Probe == Get("GET", "/health", FALSE, FALSE, "same-origin")
Meet(a, b, c) == (r1 :> a) @@ (r2 :> b) @@ (r3 :> c)

MCScenarios ==
    {Meet(i, Probe, Probe) : i \in {Post(1, 1, 1, 1, c) : c \in MCContents} \cup Routes}
    \cup {Meet(i, Plain, Probe) : i \in Bodies \cup {g \in Routes : g.path \in {"view", "anchor"}}}
    \cup {Meet(Plain, Plain, Plain)}
===========================================================================
