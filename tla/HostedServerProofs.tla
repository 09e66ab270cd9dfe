------------------------ MODULE HostedServerProofs ------------------------
(***************************************************************************)
(* Proofs about the hosted service for any number of requests, any limit,  *)
(* any window and any clock: what the gate admits in any stretch of time   *)
(* and when it refuses, and what each request is answered with however     *)
(* their coroutines interleave.                                            *)
(***************************************************************************)
EXTENDS HostedServer, FiniteSetTheorems, TLAPS

PCs == {"idle", "read", "fetch", "key", "send", "done"}

\* The event loop part of TypeOK.
LoopOK == Fetching = IF looking = None THEN {} ELSE {looking}

\* How a step may move a request and the event loop with it.
LEMMA LoopStep ==
    ASSUME pc \in [Requests -> PCs], LoopOK, NEW r \in Requests, NEW to \in PCs,
           pc' = [pc EXCEPT ![r] = to],
           \/ looking = None /\ to \notin {"fetch", "key"} /\ looking' = looking
           \/ looking = None /\ to = "fetch" /\ looking' = r
           \/ looking = r /\ to = "key" /\ looking' = looking
           \/ looking = r /\ to \notin {"fetch", "key"} /\ looking' = None
    PROVE  LoopOK'
  <1>1. \A q \in Requests : q # r => pc'[q] = pc[q]
    OBVIOUS
  <1>2. pc'[r] = to
    OBVIOUS
  <1>3. r # None
    BY HostedServerAssumption
  <1>4. Fetching' = {q \in Requests : pc'[q] \in {"fetch", "key"}}
    BY DEF Fetching
  <1> QED BY <1>1, <1>2, <1>3, <1>4 DEF LoopOK, Fetching

\* The parts of the type invariant that an action of one request disturbs.
LEMMA PcStep ==
    ASSUME TypeOK, NEW r \in Requests, NEW to \in PCs \ {"idle"},
           pc' = [pc EXCEPT ![r] = to], admitted' \in SUBSET (admitted \cup {r})
    PROVE  /\ pc' \in [Requests -> PCs]
           /\ admitted' \subseteq {q \in Requests : pc'[q] # "idle"}
  BY DEF TypeOK, PCs

Gates == [per_minute : Limits, start : Nat, count : Nat]

\* What asking the gate does to it.
LEMMA GateStep ==
    ASSUME now \in Nat, NEW g \in Gates
    PROVE  /\ AfterAllow(g) \in Gates
           /\ AfterAllow(g).per_minute = g.per_minute
           /\ g.per_minute <= 0 => AfterAllow(g) = g
           /\ g.per_minute > 0 /\ now - g.start >= Window =>
                 AfterAllow(g).start = now /\ AfterAllow(g).count = 1
           /\ g.per_minute > 0 /\ ~(now - g.start >= Window) =>
                 AfterAllow(g).start = g.start /\ AfterAllow(g).count = g.count + 1
           /\ g.per_minute > 0 => (allow(g) <=> AfterAllow(g).count <= g.per_minute)
  <1>0. g.per_minute \in Int /\ g.start \in Nat /\ g.count \in Nat /\ Window \in Nat
    BY HostedServerAssumption DEF Gates
  <1>1. Rolled(g) = IF now - g.start >= Window
                    THEN [per_minute |-> g.per_minute, start |-> now, count |-> 0] ELSE g
    BY DEF Rolled
  <1>2. Rolled(g) \in Gates
    BY <1>1 DEF Gates
  <1>3. Counted(g) = [per_minute |-> Rolled(g).per_minute, start |-> Rolled(g).start,
                      count |-> Rolled(g).count + 1]
    BY <1>2 DEF Counted, Gates
  <1>4. Counted(g) \in Gates
    BY <1>2, <1>3 DEF Gates
  <1>5. CASE g.per_minute <= 0
    BY <1>0, <1>5 DEF AfterAllow, Gates
  <1>6. CASE ~(g.per_minute <= 0)
    <2>1. AfterAllow(g) = Counted(g) /\ (allow(g) <=> Counted(g).count <= g.per_minute)
      BY <1>6 DEF AfterAllow, allow
    <2>2. CASE now - g.start >= Window
      <3>1. Rolled(g) = [per_minute |-> g.per_minute, start |-> now, count |-> 0]
        BY <1>1, <2>2
      <3>2. Counted(g).per_minute = g.per_minute /\ Counted(g).start = now /\ Counted(g).count = 1
        BY <1>3, <3>1
      <3> QED BY <1>0, <1>4, <1>6, <2>1, <2>2, <3>2
    <2>3. CASE ~(now - g.start >= Window)
      <3>1. Rolled(g) = g
        BY <1>1, <2>3
      <3>2. /\ Counted(g).per_minute = g.per_minute /\ Counted(g).start = g.start
            /\ Counted(g).count = g.count + 1
        BY <1>3, <3>1
      <3> QED BY <1>0, <1>4, <1>6, <2>1, <2>3, <3>2
    <2> QED BY <2>2, <2>3
  <1> QED BY <1>5, <1>6

\* Every step leaves the state well typed, and the event loop is held by the
\* request whose fetch is under way and by no other.
THEOREM TypeCorrect == Spec => []TypeOK
  <1>1. Init => TypeOK
    <2> SUFFICES ASSUME Init PROVE TypeOK
      OBVIOUS
    <2>1. Fetching = {} /\ looking = None
      BY DEF Init, Fetching
    <2>2. gate \in [per_minute : Limits, start : Nat, count : Nat]
      BY DEF Init
    <2>3. \A r \in Requests : IsRequest(input[r])
      BY HostedServerAssumption DEF Init
    <2> QED BY <2>1, <2>2, <2>3 DEF Init, TypeOK
  <1>2. TypeOK /\ [Next]_vars => TypeOK'
    <2> SUFFICES ASSUME TypeOK, [Next]_vars PROVE TypeOK'
      OBVIOUS
    <2> USE DEF PCs
    <2>a. pc \in [Requests -> PCs] /\ LoopOK
      BY DEF TypeOK, LoopOK
    <2>1. CASE UNCHANGED vars
      BY <2>1 DEF TypeOK, vars, Fetching
    <2>2. CASE Tick
      BY <2>2 DEF Tick, TypeOK, gateVars, anchorVars, Fetching
    <2>3. ASSUME NEW r \in Requests, ServePage(r) PROVE TypeOK'
      <3>1. pc' = [pc EXCEPT ![r] = "send"]
        BY <2>3 DEF ServePage, Respond
      <3>2. looking = None /\ UNCHANGED <<now, gateVars, views, input, got, gone, anchorVars>>
        BY <2>3 DEF ServePage, Runs
      <3>3. LoopOK'
        BY <2>a, <3>1, <3>2, LoopStep DEF anchorVars
      <3>4. pc' \in [Requests -> PCs] /\ admitted' \subseteq {q \in Requests : pc'[q] # "idle"}
        BY <3>1, <3>2, PcStep DEF gateVars
      <3> QED BY <3>2, <3>3, <3>4 DEF TypeOK, LoopOK, gateVars
    <2>4. ASSUME NEW r \in Requests, ServeView(r) PROVE TypeOK'
      <3>1. pc' = [pc EXCEPT ![r] = "send"]
        BY <2>4 DEF ServeView, Respond
      <3>2. looking = None /\ UNCHANGED <<now, gateVars, input, got, gone, anchorVars>>
        BY <2>4 DEF ServeView, Arrives, Runs
      <3>3. LoopOK'
        BY <2>a, <3>1, <3>2, LoopStep DEF anchorVars
      <3>4. pc' \in [Requests -> PCs] /\ admitted' \subseteq {q \in Requests : pc'[q] # "idle"}
        BY <3>1, <3>2, PcStep DEF gateVars
      <3>5. views' \in [total : Nat, external : Nat]
        BY <2>4 DEF ServeView, TypeOK
      <3> QED BY <3>2, <3>3, <3>4, <3>5 DEF TypeOK, LoopOK, gateVars
    <2>5. ASSUME NEW r \in Requests, PostVerify(r) PROVE TypeOK'
      <3>1. \E to \in {"read", "send"} : pc' = [pc EXCEPT ![r] = to]
        BY <2>5 DEF PostVerify, Respond
      <3>2. looking = None /\ UNCHANGED <<now, views, input, got, gone, anchorVars>>
        BY <2>5 DEF PostVerify, Arrives, Runs
      <3>3. admitted' \in SUBSET (admitted \cup {r})
        BY <2>5 DEF PostVerify
      <3>4. LoopOK'
        BY <2>a, <3>1, <3>2, LoopStep DEF anchorVars
      <3>5. pc' \in [Requests -> PCs] /\ admitted' \subseteq {q \in Requests : pc'[q] # "idle"}
        BY <3>1, <3>3, PcStep
      <3>6. gate' \in [per_minute : Limits, start : Nat, count : Nat]
        BY <2>5, GateStep DEF PostVerify, TypeOK, Gates
      <3>7. at' \in [Requests -> Nat] /\ window' \in [Requests -> Nat]
        <4>1. gate'.start \in Nat /\ now \in Nat
          BY <3>6 DEF TypeOK
        <4>2. gate'.start = AfterAllow(gate).start
          BY <2>5 DEF PostVerify
        <4>3. at \in [Requests -> Nat] /\ window \in [Requests -> Nat]
          BY DEF TypeOK
        <4>4. CASE allow(gate)
          <5>1. at' = [at EXCEPT ![r] = now] /\ window' = [window EXCEPT ![r] = gate'.start]
            BY <2>5, <4>2, <4>4 DEF PostVerify
          <5> QED BY <4>1, <4>3, <5>1
        <4>5. CASE ~allow(gate)
          BY <2>5, <4>3, <4>5 DEF PostVerify
        <4> QED BY <4>4, <4>5
      <3> QED BY <3>2, <3>4, <3>5, <3>6, <3>7 DEF TypeOK, LoopOK
    <2>6. ASSUME NEW r \in Requests, AskAnchor(r) PROVE TypeOK'
      <3>1. pc' = [pc EXCEPT ![r] = "fetch"] /\ looking' = r
        BY <2>6 DEF AskAnchor
      <3>2. looking = None /\ UNCHANGED <<now, gateVars, views, input, got, gone>>
        BY <2>6 DEF AskAnchor, Arrives, Runs
      <3>3. LoopOK'
        BY <2>a, <3>1, <3>2, LoopStep
      <3>4. pc' \in [Requests -> PCs] /\ admitted' \subseteq {q \in Requests : pc'[q] # "idle"}
        BY <3>1, <3>2, PcStep DEF gateVars
      <3> QED BY <3>2, <3>3, <3>4 DEF TypeOK, LoopOK, gateVars
    <2>7. ASSUME NEW r \in Requests, Receive(r) \/ Disconnect(r) PROVE TypeOK'
      <3>1. pc' = pc \/ pc' = [pc EXCEPT ![r] = "send"]
        BY <2>7 DEF Receive, Disconnect, HaveBody, Respond
      <3>2. looking = None /\ UNCHANGED <<now, gateVars, views, input, anchorVars>>
        BY <2>7 DEF Receive, Disconnect, Runs
      <3>3. LoopOK'
        <4>1. CASE pc' = pc
          BY <2>a, <3>2, <4>1 DEF LoopOK, Fetching, anchorVars
        <4>2. CASE pc' = [pc EXCEPT ![r] = "send"]
          BY <2>a, <3>2, <4>2, LoopStep DEF anchorVars
        <4> QED BY <3>1, <4>1, <4>2
      <3>4. pc' \in [Requests -> PCs] /\ admitted' \subseteq {q \in Requests : pc'[q] # "idle"}
        <4>1. CASE pc' = pc
          BY <3>2, <4>1 DEF TypeOK, gateVars
        <4>2. CASE pc' = [pc EXCEPT ![r] = "send"]
          BY <3>2, <4>2, PcStep DEF gateVars
        <4> QED BY <3>1, <4>1, <4>2
      <3>5. got' \in [Requests -> Nat] /\ gone' \in [Requests -> BOOLEAN]
        <4>1. input[r].size \in Nat /\ got[r] \in Nat
          BY DEF TypeOK, IsRequest
        <4>2. CASE Receive(r)
          BY <4>1, <4>2 DEF Receive, TypeOK
        <4>3. CASE Disconnect(r)
          BY <4>3 DEF Disconnect, TypeOK
        <4> QED BY <2>7, <4>2, <4>3
      <3> QED BY <3>2, <3>3, <3>4, <3>5 DEF TypeOK, LoopOK, gateVars
    <2>8. ASSUME NEW r \in Requests, Send(r) PROVE TypeOK'
      <3>1. pc' = [pc EXCEPT ![r] = "done"]
        BY <2>8 DEF Send
      <3>2. looking = None /\ UNCHANGED <<now, gateVars, views, input, got, gone, anchorVars>>
        BY <2>8 DEF Send, Runs
      <3>3. LoopOK'
        BY <2>a, <3>1, <3>2, LoopStep DEF anchorVars
      <3>4. pc' \in [Requests -> PCs] /\ admitted' \subseteq {q \in Requests : pc'[q] # "idle"}
        BY <3>1, <3>2, PcStep DEF gateVars
      <3> QED BY <3>2, <3>3, <3>4 DEF TypeOK, LoopOK, gateVars
    <2>9. ASSUME NEW r \in Requests, FetchInclusion(r) \/ FetchKey(r) PROVE TypeOK'
      <3>1. \/ pc' = [pc EXCEPT ![r] = "send"] /\ looking' = None
            \/ pc' = [pc EXCEPT ![r] = "key"] /\ looking' = looking
        <4>1. CASE FetchInclusion(r)
          <5>1. PICK a \in Inclusions :
                   CASE a.kind = "not-found" -> Proxied(r, Report(FALSE, FALSE, "standalone", FALSE))
                     [] a.kind \in Failures  -> Proxied(r, Report(a.kind = "unusable", FALSE, None, TRUE))
                     [] a.kind = "bare"      -> Proxied(r, Report(TRUE, FALSE, a.rung, FALSE))
                     [] a.kind = "receipt"   -> /\ pc' = [pc EXCEPT ![r] = "key"]
                                                /\ UNCHANGED <<answer, looking, report>>
            BY <4>1 DEF FetchInclusion
          <5>2. a.kind \in {"not-found", "http-error", "unreachable", "unusable", "bare", "receipt"}
            BY DEF Inclusions, Failures
          <5>3. CASE a.kind = "receipt"
            BY <5>1, <5>3 DEF Failures
          <5>4. CASE a.kind # "receipt"
            BY <5>1, <5>2, <5>4 DEF Failures, Proxied, Respond
          <5> QED BY <5>3, <5>4
        <4>2. CASE FetchKey(r)
          BY <4>2 DEF FetchKey, Proxied, Respond
        <4> QED BY <2>9, <4>1, <4>2
      <3>2. looking = r /\ UNCHANGED <<now, gateVars, views, input, got, gone>>
        BY <2>9 DEF FetchInclusion, FetchKey
      <3>3. LoopOK'
        BY <2>a, <3>1, <3>2, LoopStep
      <3>4. pc' \in [Requests -> PCs] /\ admitted' \subseteq {q \in Requests : pc'[q] # "idle"}
        BY <3>1, <3>2, PcStep DEF gateVars
      <3> QED BY <3>2, <3>3, <3>4 DEF TypeOK, LoopOK, gateVars
    <2> QED BY <2>1, <2>2, <2>3, <2>4, <2>5, <2>6, <2>7, <2>8, <2>9 DEF Next, Request, Step
  <1> QED BY <1>1, <1>2, PTL DEF Spec

\* Every step but the gate's own leaves the gate and what it admitted alone,
\* while the clock may go on.
LEMMA GateKept ==
    ASSUME TypeOK, GateInv, UNCHANGED gateVars, now' \in Nat, now <= now'
    PROVE  GateInv'
  <1>1. \A s : In(s)' = In(s)
    BY DEF In, gateVars
  <1>2. Limited' = Limited
    BY DEF Limited, gateVars
  <1>3. now \in Nat /\ gate.start \in Nat /\ \A r \in admitted : at[r] \in Nat
    BY DEF TypeOK
  <1> QED BY <1>1, <1>2, <1>3 DEF GateInv, gateVars, Least

\* The sets of admitted requests are finite, and a newly admitted one is new.
LEMMA AdmittedFinite ==
    ASSUME TypeOK
    PROVE  IsFiniteSet(admitted) /\ \A s : IsFiniteSet(In(s)) /\ Cardinality(In(s)) \in Nat
  <1>1. IsFiniteSet(admitted)
    BY HostedServerAssumption, FS_Subset DEF TypeOK
  <1>2. \A s : In(s) \in SUBSET admitted
    BY DEF In
  <1> QED BY <1>1, <1>2, FS_Subset, FS_CardinalityType

\* The gate admits a request.
LEMMA GateAdmits ==
    ASSUME TypeOK, GateInv, Limited, NEW r \in Requests, PostVerify(r), allow(gate)
    PROVE  GateInv'
  <1> DEFINE g == AfterAllow(gate)
             Then(s) == {q \in admitted' : window'[q] = s}
  <1>1. /\ gate' = g /\ now' = now /\ r \notin admitted
        /\ admitted' = admitted \cup {r}
        /\ at' = [at EXCEPT ![r] = now] /\ window' = [window EXCEPT ![r] = g.start]
    BY DEF PostVerify, Arrives, Runs, TypeOK
  <1>2. /\ now \in Nat /\ gate \in Gates /\ Window \in Nat \ {0}
        /\ gate.per_minute \in Int /\ gate.start \in Nat /\ gate.count \in Nat
        /\ admitted \subseteq Requests
        /\ at \in [Requests -> Nat] /\ window \in [Requests -> Nat]
    BY HostedServerAssumption DEF TypeOK, Gates
  <1>3. /\ g.per_minute = gate.per_minute
        /\ g.count <= gate.per_minute
        /\ g.start \in Nat
        /\ \/ now - gate.start >= Window /\ g.start = now /\ g.count = 1
           \/ ~(now - gate.start >= Window) /\ g.start = gate.start /\ g.count = gate.count + 1
    BY <1>2, GateStep DEF Limited, Gates
  <1> HIDE DEF g
  <1>4. \A q \in admitted : at'[q] = at[q] /\ window'[q] = window[q]
    BY <1>1, <1>2
  <1>5. at'[r] = now /\ window'[r] = g.start
    BY <1>1, <1>2
  <1>6. \A q \in admitted : window[q] = g.start \/ window[q] + Window <= g.start
    BY <1>2, <1>3 DEF GateInv
  <1>7. Then(g.start) = In(g.start) \cup {r}
    BY <1>1, <1>4, <1>5 DEF In
  <1>8. \A s : s # g.start => Then(s) = In(s)
    BY <1>1, <1>4, <1>5 DEF In
  <1> HIDE DEF Then
  <1>9. Cardinality(In(g.start)) = g.count - 1
    <2>1. CASE now - gate.start >= Window
      <3>1. In(g.start) = {}
        BY <1>2, <1>3, <2>1 DEF In, GateInv
      <3> QED BY <1>3, <2>1, <3>1, FS_EmptySet
    <2>2. CASE ~(now - gate.start >= Window)
      <3>1. g.start = gate.start /\ g.count = gate.count + 1
        BY <1>3, <2>2
      <3>2. gate.count <= gate.per_minute
        BY <1>2, <1>3, <3>1
      <3> QED BY <1>2, <3>1, <3>2 DEF GateInv, Least
    <2> QED BY <2>1, <2>2
  <1>10. Cardinality(Then(g.start)) = g.count
    <2>1. r \notin In(g.start)
      BY <1>1 DEF In
    <2>2. Cardinality(In(g.start) \cup {r}) = Cardinality(In(g.start)) + 1
      BY <2>1, AdmittedFinite, FS_AddElement
    <2>3. g.count \in Nat
      BY <1>2, <1>3
    <2> QED BY <1>7, <1>9, <2>2, <2>3
  <1>11. gate'.start <= now'
    BY <1>1, <1>2, <1>3 DEF GateInv
  <1>12. \A q \in admitted' : /\ window'[q] <= at'[q] /\ at'[q] < window'[q] + Window
                              /\ at'[q] <= now'
    <2>1. \A q \in admitted : /\ window'[q] <= at'[q] /\ at'[q] < window'[q] + Window
                              /\ at'[q] <= now'
      BY <1>1, <1>4 DEF GateInv
    <2>2. window'[r] <= at'[r] /\ at'[r] < window'[r] + Window /\ at'[r] <= now'
      BY <1>1, <1>2, <1>3, <1>5 DEF GateInv
    <2> QED BY <1>1, <2>1, <2>2
  <1>13. \A q \in admitted' : window'[q] = gate'.start \/ window'[q] + Window <= gate'.start
    BY <1>1, <1>4, <1>5, <1>6
  <1>14. \A p, q \in admitted' : \/ window'[p] = window'[q]
                                 \/ window'[p] + Window <= window'[q]
                                 \/ window'[q] + Window <= window'[p]
    <2>1. \A p, q \in admitted : \/ window'[p] = window'[q]
                                 \/ window'[p] + Window <= window'[q]
                                 \/ window'[q] + Window <= window'[p]
      BY <1>4 DEF GateInv
    <2>2. \A q \in admitted : window'[q] = window'[r] \/ window'[q] + Window <= window'[r]
      BY <1>4, <1>5, <1>6
    <2> QED BY <1>1, <2>1, <2>2
  <1>15. \A q \in admitted' : Cardinality(Then(window'[q])) <= gate.per_minute
    <2> SUFFICES ASSUME NEW q \in admitted' PROVE Cardinality(Then(window'[q])) <= gate.per_minute
      OBVIOUS
    <2>1. CASE window'[q] = g.start
      BY <1>3, <1>10, <2>1
    <2>2. CASE window'[q] # g.start
      <3>1. q \in admitted /\ window'[q] = window[q]
        BY <1>1, <1>4, <1>5, <2>2
      <3>2. Then(window'[q]) = In(window[q])
        BY <1>8, <2>2, <3>1
      <3>3. Cardinality(In(window[q])) <= gate.per_minute
        BY <3>1 DEF GateInv
      <3> QED BY <3>2, <3>3
    <2> QED BY <2>1, <2>2
  <1>16. Cardinality(Then(gate'.start)) = Least(gate'.count, gate'.per_minute)
    BY <1>1, <1>3, <1>10 DEF Least
  <1>17. \A q \in admitted' : Cardinality(Then(window'[q])) <= gate'.per_minute
    BY <1>1, <1>3, <1>15
  <1> QED BY <1>11, <1>12, <1>13, <1>14, <1>16, <1>17 DEF GateInv, In, Least, Then

\* The gate refuses a request: the limit has been admitted in its window.
LEMMA GateRefuses ==
    ASSUME TypeOK, GateInv, NEW r \in Requests, PostVerify(r), ~allow(gate)
    PROVE  /\ GateInv' /\ Limited
           /\ Cardinality(In(gate.start)) = gate.per_minute
           /\ gate'.start = gate.start /\ now < gate.start + Window
  <1> DEFINE g == AfterAllow(gate)
  <1>1. gate' = g /\ now' = now /\ UNCHANGED <<admitted, at, window>>
    BY DEF PostVerify
  <1>2. /\ now \in Nat /\ gate \in Gates /\ Window \in Nat \ {0}
        /\ gate.per_minute \in Int /\ gate.start \in Nat /\ gate.count \in Nat
    BY HostedServerAssumption DEF TypeOK, Gates
  <1>3. gate.per_minute > 0
    BY <1>2 DEF allow
  <1>4. /\ g.per_minute = gate.per_minute
        /\ ~(g.count <= gate.per_minute)
        /\ \/ now - gate.start >= Window /\ g.start = now /\ g.count = 1
           \/ ~(now - gate.start >= Window) /\ g.start = gate.start /\ g.count = gate.count + 1
    BY <1>2, <1>3, GateStep DEF Gates
  <1> HIDE DEF g
  <1>5. /\ ~(now - gate.start >= Window) /\ g.start = gate.start
        /\ g.count = gate.count + 1 /\ gate.count >= gate.per_minute
    BY <1>2, <1>3, <1>4
  <1>6. Least(gate.count, gate.per_minute) = gate.per_minute
        /\ Least(g.count, g.per_minute) = gate.per_minute
    BY <1>2, <1>4, <1>5 DEF Least
  <1>7. Limited /\ Cardinality(In(gate.start)) = gate.per_minute
    BY <1>3, <1>6 DEF GateInv, Limited
  <1>8. GateInv'
    <2>2. In(gate.start)' = In(gate.start)
      BY <1>1, <1>5 DEF In
    <2>3. \A q \in admitted : In(window[q])' = In(window[q])
      BY <1>1 DEF In
    <2>4. Least(gate.count, gate.per_minute)' = gate.per_minute
      BY <1>1, <1>6 DEF Least
    <2> QED BY <1>1, <1>4, <1>5, <1>7, <2>2, <2>3, <2>4 DEF GateInv
  <1> QED BY <1>1, <1>2, <1>5, <1>7, <1>8

\* GateInv is inductive.
LEMMA GateInductive ==
    ASSUME TypeOK, TypeOK', GateInv, [Next]_vars
    PROVE  GateInv'
  <1>1. now \in Nat /\ now' \in Nat
    BY DEF TypeOK
  <1>2. CASE UNCHANGED gateVars /\ now <= now'
    BY <1>1, <1>2, GateKept
  <1>3. ASSUME NEW r \in Requests, PostVerify(r) PROVE GateInv'
    <2>1. CASE ~allow(gate)
      BY <1>3, <2>1, GateRefuses
    <2>2. CASE allow(gate) /\ Limited
      BY <1>3, <2>2, GateAdmits
    <2>3. CASE ~Limited
      <3>1. gate \in Gates /\ gate.per_minute \in Int
        BY HostedServerAssumption DEF TypeOK, Gates
      <3>2. gate.per_minute <= 0
        BY <2>3, <3>1 DEF Limited
      <3>3. gate' = gate /\ now' = now
        BY <1>3, <3>2 DEF PostVerify, AfterAllow
      <3> QED BY <2>3, <3>3 DEF GateInv, Limited
    <2> QED BY <2>1, <2>2, <2>3
  <1>4. CASE UNCHANGED vars
    BY <1>1, <1>2, <1>4 DEF vars, gateVars
  <1>5. CASE Tick
    BY <1>1, <1>2, <1>5 DEF Tick
  <1>6. ASSUME NEW r \in Requests, ServePage(r) \/ ServeView(r) \/ AskAnchor(r)
        PROVE  GateInv'
    BY <1>1, <1>2, <1>6 DEF ServePage, ServeView, AskAnchor
  <1>7. ASSUME NEW r \in Requests, Step(r) PROVE GateInv'
    <2>1. UNCHANGED <<gateVars, now>>
      <3>1. CASE Receive(r) \/ Disconnect(r) \/ Send(r)
        BY <3>1 DEF Receive, Disconnect, Send
      <3>2. CASE FetchInclusion(r) \/ FetchKey(r)
        BY <3>2 DEF FetchInclusion, FetchKey
      <3> QED BY <1>7, <3>1, <3>2 DEF Step
    <2> QED BY <1>1, <1>2, <2>1
  <1> QED BY <1>3, <1>4, <1>5, <1>6, <1>7 DEF Next, Request
\* The gate's windows do not overlap and none admits more than the limit.
THEOREM GateCorrect == Spec => []GateInv
  <1>1. Init => GateInv
    <2> SUFFICES ASSUME Init PROVE GateInv
      OBVIOUS
    <2>1. gate.start = 0 /\ gate.count = 0 /\ now = 0 /\ admitted = {}
      BY DEF Init
    <2>2. In(gate.start) = {}
      BY <2>1 DEF In
    <2>3. Cardinality(In(gate.start)) = 0
      BY <2>2, FS_EmptySet
    <2>4. gate.per_minute \in Int
      BY HostedServerAssumption DEF Init
    <2>5. Limited => Least(gate.count, gate.per_minute) = 0
      BY <2>1, <2>4 DEF Least, Limited
    <2> QED BY <2>1, <2>3, <2>5 DEF GateInv
  <1>2. TypeOK /\ TypeOK' /\ GateInv /\ [Next]_vars => GateInv'
    BY GateInductive
  <1> QED BY <1>1, <1>2, TypeCorrect, PTL DEF Spec

\* Three admissions within Window of the first lie in at most two windows.
LEMMA TwoWindows ==
    ASSUME TypeOK, GateInv, Limited, NEW r \in admitted, NEW p \in admitted, NEW q \in admitted,
           at[r] <= at[p], at[p] < at[r] + Window, at[r] <= at[q], at[q] < at[r] + Window
    PROVE  window[p] = window[r] \/ window[q] = window[r] \/ window[q] = window[p]
  <1>1. /\ at[r] \in Nat /\ at[p] \in Nat /\ at[q] \in Nat /\ Window \in Nat \ {0}
        /\ window[r] \in Nat /\ window[p] \in Nat /\ window[q] \in Nat
    BY HostedServerAssumption DEF TypeOK
  <1>2. /\ window[r] <= at[r] /\ at[r] < window[r] + Window
        /\ window[p] <= at[p] /\ at[p] < window[p] + Window
        /\ window[q] <= at[q] /\ at[q] < window[q] + Window
    BY DEF GateInv
  <1>3. window[p] = window[r] \/ window[r] + Window <= window[p] \/ window[p] + Window <= window[r]
    BY DEF GateInv
  <1>4. window[q] = window[r] \/ window[r] + Window <= window[q] \/ window[q] + Window <= window[r]
    BY DEF GateInv
  <1>5. window[p] = window[q] \/ window[q] + Window <= window[p] \/ window[p] + Window <= window[q]
    BY DEF GateInv
  <1> QED BY <1>1, <1>2, <1>3, <1>4, <1>5

\* In any stretch of Window ticks the gate admits at most twice its limit.
THEOREM BurstBounded == Spec => []BurstBound
  <1>1. TypeOK /\ GateInv => BurstBound
    <2> SUFFICES ASSUME TypeOK, GateInv, Limited, NEW r \in admitted
                 PROVE  Cardinality({q \in admitted : at[r] <= at[q] /\ at[q] < at[r] + Window})
                           <= 2 * gate.per_minute
      BY DEF BurstBound
    <2> DEFINE S == {q \in admitted : at[r] <= at[q] /\ at[q] < at[r] + Window}
    <2>1. gate.per_minute \in Int /\ gate.per_minute > 0
      BY HostedServerAssumption DEF TypeOK, Limited
    <2>2. \A q \in admitted : /\ IsFiniteSet(In(window[q])) /\ Cardinality(In(window[q])) \in Nat
                              /\ Cardinality(In(window[q])) <= gate.per_minute
      BY AdmittedFinite DEF GateInv
    <2>3. \E p \in admitted : S \subseteq In(window[r]) \cup In(window[p])
      <3>1. CASE \E p \in S : window[p] # window[r]
        <4>1. PICK p \in S : window[p] # window[r]
          BY <3>1
        <4>2. \A q \in S : window[q] = window[r] \/ window[q] = window[p]
          BY <4>1, TwoWindows
        <4> QED BY <4>1, <4>2 DEF In
      <3>2. CASE \A p \in S : window[p] = window[r]
        BY <3>2 DEF In
      <3> QED BY <3>1, <3>2
    <2> HIDE DEF S
    <2>4. PICK p \in admitted : S \subseteq In(window[r]) \cup In(window[p])
      BY <2>3
    <2> DEFINE A == In(window[r])
               B == In(window[p])
    <2>5. /\ IsFiniteSet(A) /\ IsFiniteSet(B) /\ Cardinality(A) \in Nat /\ Cardinality(B) \in Nat
          /\ Cardinality(A) <= gate.per_minute /\ Cardinality(B) <= gate.per_minute
      BY <2>2
    <2>6. S \in SUBSET (A \cup B)
      BY <2>4
    <2> HIDE DEF A, B
    <2>7. /\ IsFiniteSet(A \cup B)
          /\ Cardinality(A \cup B) = Cardinality(A) + Cardinality(B) - Cardinality(A \cap B)
      BY <2>5, FS_Union
    <2>8. IsFiniteSet(A \cap B)
      <3>1. A \cap B \in SUBSET A
        OBVIOUS
      <3> QED BY <2>5, <3>1, FS_Subset
    <2>9. Cardinality(A \cap B) \in Nat /\ Cardinality(A \cup B) \in Nat
      BY <2>7, <2>8, FS_CardinalityType
    <2>10. Cardinality(A \cup B) <= 2 * gate.per_minute
      BY <2>1, <2>5, <2>7, <2>9
    <2>11. IsFiniteSet(S) /\ Cardinality(S) <= Cardinality(A \cup B)
      BY <2>6, <2>7, FS_Subset
    <2>12. Cardinality(S) \in Nat
      BY <2>11, FS_CardinalityType
    <2>13. Cardinality(S) <= 2 * gate.per_minute
      BY <2>1, <2>9, <2>10, <2>11, <2>12
    <2> QED BY <2>13 DEF S
  <1> QED BY <1>1, TypeCorrect, GateCorrect, PTL

\* Responses are kept per request.
AnswerFn == answer = [q \in Requests |-> answer[q]]

\* Every step but a refusal of the gate answers one request, with another status
\* than 429, or none.
OtherAnswer(r) == \/ answer' = answer
                  \/ \E a : a.status # 429 /\ answer' = [answer EXCEPT ![r] = a]

Refuses(r) == /\ PostVerify(r) /\ ~allow(gate)
              /\ answer' = [answer EXCEPT ![r] = Reply(429, "rate-limited")]

LEMMA RespondOther ==
    ASSUME NEW r, NEW a, a.status # 429, Respond(r, a)
    PROVE  OtherAnswer(r)
  BY Zenon DEF Respond, OtherAnswer

LEMMA ReplyStatus == \A s, b : Reply(s, b).status = s
  BY DEF Reply

LEMMA AnswerSteps ==
    ASSUME NEW r \in Requests, Request(r) \/ Step(r)
    PROVE  OtherAnswer(r) \/ Refuses(r)
  <1>1. CASE ServePage(r)
    <2>1. Respond(r, Page(input[r])) \/ Respond(r, Reply(404, "error"))
      BY <1>1 DEF ServePage
    <2>2. Page(input[r]).status # 429 /\ Reply(404, "error").status # 429
      BY ReplyStatus DEF Page
    <2> QED BY <2>1, <2>2, RespondOther, Zenon
  <1>2. CASE ServeView(r)
    <2>1. Respond(r, Reply(200, "html"))
      BY <1>2 DEF ServeView
    <2>2. Reply(200, "html").status # 429
      BY ReplyStatus
    <2> QED BY <2>1, <2>2, RespondOther, Zenon
  <1>3. CASE PostVerify(r)
    BY <1>3 DEF PostVerify, Respond, OtherAnswer, Refuses
  <1>4. CASE AskAnchor(r)
    BY <1>4 DEF AskAnchor, OtherAnswer
  <1>5. CASE Receive(r) \/ Disconnect(r)
    <2>1. \E n, more : HaveBody(r, n, more)
      BY <1>5 DEF Receive, Disconnect
    <2>2. TooLarge.status # 429 /\ \A v : Answer(v).status # 429
      BY DEF TooLarge, Reply, Answer
    <2>3. answer' = answer \/ Respond(r, TooLarge) \/ \E v : Respond(r, Answer(v))
      BY <2>1 DEF HaveBody
    <2>4. CASE answer' = answer
      BY <2>4 DEF OtherAnswer
    <2>5. CASE Respond(r, TooLarge)
      BY <2>2, <2>5, RespondOther
    <2>6. ASSUME NEW v, Respond(r, Answer(v)) PROVE OtherAnswer(r)
      <3>1. Answer(v).status # 429
        BY <2>2
      <3> QED BY <2>6, <3>1, RespondOther, Zenon
    <2> QED BY <2>3, <2>4, <2>5, <2>6, Zenon
  <1>6. CASE Send(r)
    BY <1>6 DEF Send, OtherAnswer
  <1>7. CASE FetchInclusion(r) \/ FetchKey(r)
    <2>1. answer' = answer \/ Respond(r, Reply(200, "anchor-status"))
      <3>1. CASE FetchInclusion(r)
        BY <3>1 DEF FetchInclusion, Proxied, Inclusions, Failures
      <3>2. CASE FetchKey(r)
        BY <3>2 DEF FetchKey, Proxied
      <3> QED BY <1>7, <3>1, <3>2
    <2>2. Reply(200, "anchor-status").status # 429
      BY DEF Reply
    <2>3. CASE answer' = answer
      BY <2>3 DEF OtherAnswer
    <2> QED BY <2>1, <2>2, <2>3, RespondOther, Zenon
  <1> QED BY <1>1, <1>2, <1>3, <1>4, <1>5, <1>6, <1>7 DEF Request, Step

\* The gate refuses only while its limit has been admitted in the window that is
\* still running.
THEOREM RefusalsAreDue == Spec => RefusedOnlyWhenFull
  <1>1. Init => AnswerFn
    BY DEF Init, AnswerFn
  <1>2. AnswerFn /\ [Next]_vars => AnswerFn'
    <2> SUFFICES ASSUME AnswerFn, [Next]_vars PROVE AnswerFn'
      OBVIOUS
    <2>1. CASE answer' = answer
      BY <2>1 DEF AnswerFn
    <2>2. ASSUME NEW r \in Requests, Request(r) \/ Step(r) PROVE AnswerFn'
      <3>1. answer' = answer \/ \E a : answer' = [answer EXCEPT ![r] = a]
        BY <2>2, AnswerSteps DEF OtherAnswer, Refuses
      <3> QED BY <3>1 DEF AnswerFn
    <2> QED BY <2>1, <2>2 DEF Next, Tick, vars
  <1> DEFINE Due == \A r \in Requests : answer'[r].status = 429 /\ answer[r].status # 429 =>
                       /\ Limited
                       /\ Cardinality({q \in admitted : window[q] = gate'.start}) = gate.per_minute
                       /\ now < gate'.start + Window
  <1>3. \A r \in Requests : Request(r) \/ Step(r) => OtherAnswer(r) \/ Refuses(r)
    BY AnswerSteps
  <1>4. TypeOK /\ GateInv /\ AnswerFn /\ [Next]_vars => Due
    <2> SUFFICES ASSUME TypeOK, GateInv, AnswerFn, [Next]_vars, NEW x \in Requests,
                        answer'[x].status = 429, answer[x].status # 429
                 PROVE  /\ Limited
                        /\ Cardinality({q \in admitted : window[q] = gate'.start}) = gate.per_minute
                        /\ now < gate'.start + Window
      OBVIOUS
    <2>1. answer' # answer
      OBVIOUS
    <2>2. PICK p \in Requests : Request(p) \/ Step(p)
      BY <2>1 DEF Next, Tick, vars
    <2>3. ~OtherAnswer(p)
      BY <2>1 DEF OtherAnswer, AnswerFn
    <2>4. PostVerify(p) /\ ~allow(gate)
      <3>1. OtherAnswer(p) \/ Refuses(p)
        BY <1>3, <2>2
      <3>2. Refuses(p)
        BY <2>3, <3>1
      <3> QED BY <3>2 DEF Refuses
    <2>5. /\ Limited /\ Cardinality(In(gate.start)) = gate.per_minute
          /\ gate'.start = gate.start /\ now < gate.start + Window
      BY <2>4, GateRefuses
    <2> QED BY <2>5 DEF In
  <1> QED BY <1>1, <1>2, <1>4, TypeCorrect, GateCorrect, PTL DEF Spec, RefusedOnlyWhenFull

-----------------------------------------------------------------------------
(* What each request is answered with.                                     *)

\* What the properties say of one anchor report and the anchor's first answer.
ReportMeets(p, a) ==
    /\ p.rung = "standalone" <=> a.kind = "not-found"
    /\ p.rung = None <=> a.kind \in Failures
    /\ p.error <=> p.rung = None
    /\ p.receipt_verified => p.anchored /\ a.kind = "receipt" /\ a.proves

\* How a POST /verify that the gate let through has been answered: its body was
\* too large, or the verdict is of the n octets read, which are all of them
\* unless the client has gone.
Verified(r) ==
    LET i == input[r]
    IN  \/ answer[r] = TooLarge /\ (~gone[r] => i.size > Cap)
        \/ \E n \in 0 .. i.size : /\ answer[r] = Answer(verify_request_bytes(i, n))
                                  /\ ~gone[r] => n = i.size /\ n <= Cap

\* What the stdlib handler answers to a GET of the path alone.
PathGET(i) == do_GET(i, TRUE)

\* An answer that is ready, for each kind of request.
Served(r) ==
    LET i == input[r]
    IN  \/ /\ i.method = "GET"
           /\ ~i.slash => answer[r] = PathGET(i)
           /\ answer[r].body # "verdict"
           /\ answer[r].body = "anchor-status" => ReportMeets(report[r], fetched[r])
        \/ i.method = "POST" /\ i.path # "/verify" /\ answer[r] = Reply(404, "error")
        \/ /\ i.method = "POST" /\ i.path = "/verify"
           /\ \/ r \notin admitted /\ answer[r] = Reply(429, "rate-limited")
              \/ r \in admitted /\ Verified(r)

\* What is known of a request at each point of its coroutine.
RequestOK(r) ==
    /\ pc[r] = "idle" => answer[r] = NoReply /\ r \notin admitted /\ got[r] = 0
    /\ pc[r] = "read" => /\ input[r].method = "POST" /\ input[r].path = "/verify"
                         /\ r \in admitted /\ answer[r] = NoReply /\ got[r] <= input[r].size
    /\ pc[r] \in {"fetch", "key"} => /\ input[r].method = "GET" /\ input[r].path = "anchor"
                                     /\ answer[r] = NoReply
    /\ pc[r] = "key" => fetched[r] \in Inclusions /\ fetched[r].kind = "receipt"
    /\ pc[r] \in {"send", "done"} => Served(r)

RequestInv == \A r \in Requests : RequestOK(r)

\* Responses and anchor reports are kept per request.
PerRequest == /\ AnswerFn
              /\ fetched = [q \in Requests |-> fetched[q]]
              /\ report = [q \in Requests |-> report[q]]

\* A step of request r leaves every other request alone.
LeavesOthers(r) ==
    /\ input' = input
    /\ \A q \in Requests \ {r} :
          /\ pc'[q] = pc[q] /\ answer'[q] = answer[q] /\ got'[q] = got[q] /\ gone'[q] = gone[q]
          /\ fetched'[q] = fetched[q] /\ report'[q] = report[q]
          /\ q \in admitted' <=> q \in admitted

\* What is known of a request depends on its own state alone.
LEMMA RequestKept ==
    ASSUME NEW q \in Requests, RequestOK(q), input' = input,
           pc'[q] = pc[q], answer'[q] = answer[q], got'[q] = got[q], gone'[q] = gone[q],
           fetched'[q] = fetched[q], report'[q] = report[q], q \in admitted' <=> q \in admitted
    PROVE  RequestOK(q)'
  <1>1. Verified(q)' <=> Verified(q)
    BY DEF Verified
  <1>2. Served(q)' <=> Served(q)
    <2>1. PathGET(input[q])' = PathGET(input[q])
      BY DEF PathGET, do_GET
    <2>2. ReportMeets(report[q], fetched[q])' <=> ReportMeets(report[q], fetched[q])
      BY DEF ReportMeets
    <2> QED BY <1>1, <2>1, <2>2 DEF Served
  <1> QED BY <1>2 DEF RequestOK

LEMMA OthersKept ==
    ASSUME NEW r \in Requests, RequestInv, LeavesOthers(r), RequestOK(r)'
    PROVE  RequestInv'
  <1>1. ASSUME NEW q \in Requests, q # r PROVE RequestOK(q)'
    BY <1>1, RequestKept DEF LeavesOthers, RequestInv
  <1> QED BY <1>1 DEF RequestInv

\* A page's answer is no verdict and no anchor report.
LEMMA PageBody ==
    ASSUME NEW i
    PROVE  Page(i).body \notin {"verdict", "anchor-status"}
  BY DEF Page, Reply

\* The step answers request r, and no other.
LEMMA RespondAt ==
    ASSUME TypeOK, PerRequest, NEW r \in Requests, NEW a, Respond(r, a)
    PROVE  /\ pc'[r] = "send" /\ answer'[r] = a
           /\ \A q \in Requests \ {r} : pc'[q] = pc[q] /\ answer'[q] = answer[q]
  BY DEF Respond, TypeOK, PerRequest, AnswerFn

LEMMA ServePageOK ==
    ASSUME TypeOK, PerRequest, RequestInv, NEW r \in Requests, ServePage(r)
    PROVE  RequestInv'
  <1> DEFINE i == input[r]
  <1>0. /\ i.method \in {"GET", "POST"} /\ i.path \in Paths /\ input'[r] = input[r]
    BY DEF TypeOK, IsRequest, ServePage
  <1>1. PICK a : /\ Respond(r, a)
                 /\ \/ i.method = "GET" /\ i.path \in PagePaths /\ a = Page(i)
                    \/ /\ i.method = "GET" => i.path = "other"
                       /\ i.method = "POST" => i.path # "/verify"
                       /\ a = Reply(404, "error")
    BY Zenon DEF ServePage
  <1>2. UNCHANGED <<input, got, gone, fetched, report, admitted>>
    BY DEF ServePage, gateVars, anchorVars
  <1>3. pc'[r] = "send" /\ answer'[r] = a
    BY <1>1, RespondAt
  <1>4. LeavesOthers(r)
    BY <1>1, <1>2, RespondAt DEF LeavesOthers
  <1>5. Served(r)'
    <2>1. CASE i.method = "GET" /\ i.path \in PagePaths /\ a = Page(i)
      <3>1. ~i.slash => a = PathGET(i)
        BY <2>1 DEF PathGET, do_GET
      <3>2. a.body \notin {"verdict", "anchor-status"}
        BY <2>1, PageBody
      <3> QED BY <1>0, <1>3, <2>1, <3>1, <3>2 DEF Served
    <2>2. CASE i.method = "GET" /\ i.path = "other" /\ a = Reply(404, "error")
      <3>1. a = PathGET(i)
        BY <2>2 DEF PathGET, do_GET, PagePaths, StaticPaths
      <3>2. a.body \notin {"verdict", "anchor-status"}
        BY <2>2 DEF Reply
      <3> QED BY <1>0, <1>3, <2>2, <3>1, <3>2 DEF Served
    <2>3. CASE i.method = "POST" /\ i.path # "/verify" /\ a = Reply(404, "error")
      BY <1>0, <1>3, <2>3 DEF Served
    <2> QED BY <1>0, <1>1, <2>1, <2>2, <2>3
  <1>6. RequestOK(r)'
    BY <1>3, <1>5 DEF RequestOK
  <1> QED BY <1>4, <1>6, OthersKept

LEMMA ServeViewOK ==
    ASSUME TypeOK, PerRequest, RequestInv, NEW r \in Requests, ServeView(r)
    PROVE  RequestInv'
  <1> DEFINE a == Reply(200, "html")
  <1>1. Respond(r, a) /\ input[r].method = "GET" /\ input[r].path = "view"
    BY DEF ServeView, Arrives
  <1>2. UNCHANGED <<input, got, gone, fetched, report, admitted>>
    BY DEF ServeView, gateVars, anchorVars
  <1>3. pc'[r] = "send" /\ answer'[r] = a
    BY <1>1, RespondAt
  <1>4. LeavesOthers(r)
    BY <1>1, <1>2, RespondAt DEF LeavesOthers
  <1>5. a = PathGET(input[r])
    BY <1>1 DEF PathGET, do_GET, PagePaths, StaticPaths
  <1>6. a.body = "html"
    BY DEF Reply
  <1> HIDE DEF a
  <1>7. Served(r)'
    BY <1>1, <1>2, <1>3, <1>5, <1>6 DEF Served
  <1>8. RequestOK(r)'
    BY <1>3, <1>7 DEF RequestOK
  <1> QED BY <1>4, <1>8, OthersKept

LEMMA PostVerifyOK ==
    ASSUME TypeOK, PerRequest, RequestInv, NEW r \in Requests, PostVerify(r)
    PROVE  RequestInv'
  <1>1. /\ input[r].method = "POST" /\ input[r].path = "/verify" /\ pc[r] = "idle"
        /\ answer[r] = NoReply /\ r \notin admitted /\ got[r] = 0
    BY DEF PostVerify, Arrives, Runs, RequestInv, RequestOK
  <1>2. UNCHANGED <<input, got, gone, fetched, report>>
    BY DEF PostVerify, anchorVars
  <1>3. CASE allow(gate)
    <2>1. /\ pc' = [pc EXCEPT ![r] = "read"] /\ answer' = answer
          /\ admitted' = admitted \cup {r}
      BY <1>3 DEF PostVerify
    <2>2. LeavesOthers(r) /\ pc'[r] = "read"
      BY <1>2, <2>1 DEF LeavesOthers, TypeOK
    <2>3. input[r].size >= 0
      BY DEF TypeOK, IsRequest
    <2>4. RequestOK(r)'
      BY <1>1, <1>2, <2>1, <2>2, <2>3 DEF RequestOK
    <2> QED BY <2>2, <2>4, OthersKept
  <1>4. CASE ~allow(gate)
    <2>1. Respond(r, Reply(429, "rate-limited")) /\ admitted' = admitted
      BY <1>4 DEF PostVerify
    <2>2. LeavesOthers(r)
      BY <1>2, <2>1, RespondAt DEF LeavesOthers
    <2>3. pc'[r] = "send" /\ answer'[r] = Reply(429, "rate-limited")
      BY <2>1, RespondAt
    <2>4. Served(r)'
      BY <1>1, <1>2, <2>1, <2>3 DEF Served
    <2>5. RequestOK(r)'
      BY <2>3, <2>4 DEF RequestOK
    <2> QED BY <2>2, <2>5, OthersKept
  <1> QED BY <1>3, <1>4

LEMMA AskAnchorOK ==
    ASSUME TypeOK, RequestInv, NEW r \in Requests, AskAnchor(r)
    PROVE  RequestInv'
  <1>1. /\ input[r].method = "GET" /\ input[r].path = "anchor" /\ pc[r] = "idle"
        /\ answer[r] = NoReply
    BY DEF AskAnchor, Arrives, Runs, RequestInv, RequestOK
  <1>2. /\ pc' = [pc EXCEPT ![r] = "fetch"]
        /\ UNCHANGED <<input, got, gone, answer, fetched, report, admitted>>
    BY DEF AskAnchor, gateVars
  <1>3. LeavesOthers(r) /\ pc'[r] = "fetch"
    BY <1>2 DEF LeavesOthers, TypeOK
  <1>4. RequestOK(r)'
    BY <1>1, <1>2, <1>3 DEF RequestOK
  <1> QED BY <1>3, <1>4, OthersKept

\* n octets are in hand: the body is too large, there is more to come, or the
\* verdict is of those n octets.
LEMMA HaveBodyOK ==
    ASSUME TypeOK, PerRequest, RequestInv, NEW r \in Requests, pc[r] = "read",
           NEW n \in Nat, n <= input[r].size, NEW more \in BOOLEAN, HaveBody(r, n, more),
           ~gone'[r] => more \/ n = input[r].size,
           LeavesOthers(r), UNCHANGED <<admitted, fetched, report>>,
           got'[r] = n
    PROVE  RequestInv'
  <1>1. /\ input[r].method = "POST" /\ input[r].path = "/verify" /\ r \in admitted
        /\ answer[r] = NoReply /\ input' = input
    BY DEF RequestInv, RequestOK, LeavesOthers
  <1>2. input[r].size \in Nat /\ Cap \in Nat
    BY HostedServerAssumption DEF TypeOK, IsRequest
  <1>3. CASE n > Cap
    <2>1. pc'[r] = "send" /\ answer'[r] = TooLarge
      BY <1>3, RespondAt DEF HaveBody
    <2>2. Verified(r)'
      BY <1>1, <1>2, <1>3, <2>1 DEF Verified
    <2>3. Served(r)'
      BY <1>1, <2>2 DEF Served
    <2>4. RequestOK(r)'
      BY <2>1, <2>3 DEF RequestOK
    <2> QED BY <2>4, OthersKept
  <1>4. CASE ~(n > Cap) /\ more
    <2>1. pc' = pc /\ answer' = answer
      BY <1>4 DEF HaveBody
    <2>2. RequestOK(r)'
      BY <1>1, <1>2, <2>1 DEF RequestOK
    <2> QED BY <2>2, OthersKept
  <1>5. CASE ~(n > Cap) /\ ~more
    <2>1. Respond(r, Answer(verify_request_bytes(input[r], n)))
      BY <1>5 DEF HaveBody
    <2>2. pc'[r] = "send" /\ answer'[r] = Answer(verify_request_bytes(input[r], n))
      BY <2>1, RespondAt
    <2>3. n \in 0 .. input[r].size /\ (~gone'[r] => n = input[r].size /\ n <= Cap)
      BY <1>2, <1>5
    <2>4. Verified(r)'
      BY <1>1, <2>2, <2>3, Zenon DEF Verified
    <2>5. Served(r)'
      BY <1>1, <2>4 DEF Served
    <2>6. RequestOK(r)'
      BY <2>2, <2>5 DEF RequestOK
    <2> QED BY <2>6, OthersKept
  <1> QED BY <1>3, <1>4, <1>5

LEMMA ReceiveOK ==
    ASSUME TypeOK, PerRequest, RequestInv, NEW r \in Requests, Receive(r)
    PROVE  RequestInv'
  <1>1. PICK n \in got[r] .. input[r].size, more \in BOOLEAN :
           /\ more \/ n = input[r].size
           /\ got' = [got EXCEPT ![r] = n]
           /\ HaveBody(r, n, more)
    BY DEF Receive
  <1>2. /\ pc[r] = "read" /\ UNCHANGED <<input, gone, admitted, fetched, report>>
    BY DEF Receive, Runs, gateVars, anchorVars
  <1>3. n \in Nat /\ n <= input[r].size /\ got'[r] = n
    BY <1>1 DEF TypeOK, IsRequest
  <1>4. \A q \in Requests \ {r} : pc'[q] = pc[q] /\ answer'[q] = answer[q]
    BY <1>1, RespondAt DEF HaveBody
  <1>5. LeavesOthers(r)
    BY <1>1, <1>2, <1>4 DEF LeavesOthers, TypeOK
  <1> QED BY <1>1, <1>2, <1>3, <1>5, HaveBodyOK

LEMMA DisconnectOK ==
    ASSUME TypeOK, PerRequest, RequestInv, NEW r \in Requests, Disconnect(r)
    PROVE  RequestInv'
  <1>1. /\ pc[r] = "read" /\ UNCHANGED <<input, got, admitted, fetched, report>>
        /\ gone' = [gone EXCEPT ![r] = TRUE] /\ HaveBody(r, got[r], FALSE)
    BY DEF Disconnect, Runs, gateVars, anchorVars
  <1>2. got[r] \in Nat /\ got[r] <= input[r].size /\ got'[r] = got[r] /\ gone'[r] = TRUE
    BY <1>1 DEF TypeOK, RequestInv, RequestOK
  <1>3. \A q \in Requests \ {r} : pc'[q] = pc[q] /\ answer'[q] = answer[q]
    BY <1>1, RespondAt DEF HaveBody
  <1>4. LeavesOthers(r)
    BY <1>1, <1>3 DEF LeavesOthers, TypeOK
  <1> QED BY <1>1, <1>2, <1>4, HaveBodyOK

LEMMA SendOK ==
    ASSUME TypeOK, RequestInv, NEW r \in Requests, Send(r)
    PROVE  RequestInv'
  <1>1. /\ pc[r] = "send" /\ pc' = [pc EXCEPT ![r] = "done"]
        /\ UNCHANGED <<input, got, gone, answer, fetched, report, admitted>>
    BY DEF Send, Runs, gateVars, anchorVars
  <1>2. LeavesOthers(r) /\ pc'[r] = "done"
    BY <1>1 DEF LeavesOthers, TypeOK
  <1>3. Served(r)
    BY <1>1 DEF RequestInv, RequestOK
  <1>4. Verified(r)' <=> Verified(r)
    BY <1>1 DEF Verified
  <1>5. Served(r)'
    BY <1>1, <1>3, <1>4 DEF Served
  <1>6. RequestOK(r)'
    BY <1>2, <1>5 DEF RequestOK
  <1> QED BY <1>2, <1>6, OthersKept

\* Each ending of _anchor_proxy_json makes a report of the first answer.
LEMMA ReportsMeet ==
    ASSUME NEW a \in Inclusions
    PROVE  /\ a.kind = "not-found" => ReportMeets(Report(FALSE, FALSE, "standalone", FALSE), a)
           /\ a.kind \in Failures => ReportMeets(Report(a.kind = "unusable", FALSE, None, TRUE), a)
           /\ a.kind = "bare" => ReportMeets(Report(TRUE, FALSE, a.rung, FALSE), a)
           /\ a.kind = "receipt" => \A k : ReportMeets(AfterKey(a, k), a)
  <1>1. /\ a.kind \in {"not-found", "bare", "receipt"} \cup Failures
        /\ a.kind \in {"bare", "receipt"} => a.rung \in Rungs
    BY DEF Inclusions
  <1>2. None \notin Rungs /\ "standalone" \notin Rungs /\ None # "standalone"
    BY DEF Rungs, None
  <1>3. a.kind \in {"not-found", "bare", "receipt"} => a.kind \notin Failures
    BY DEF Failures
  <1>4. ASSUME a.kind = "not-found" PROVE ReportMeets(Report(FALSE, FALSE, "standalone", FALSE), a)
    <2> DEFINE p == Report(FALSE, FALSE, "standalone", FALSE)
    <2>1. p.rung = "standalone" /\ ~p.receipt_verified /\ ~p.error
      BY DEF Report
    <2>2. SUFFICES ReportMeets(p, a)
      OBVIOUS
    <2> HIDE DEF p
    <2> QED BY <1>1, <1>2, <1>3, <1>4, <2>1 DEF ReportMeets
  <1>5. ASSUME a.kind \in Failures PROVE ReportMeets(Report(a.kind = "unusable", FALSE, None, TRUE), a)
    <2> DEFINE p == Report(a.kind = "unusable", FALSE, None, TRUE)
    <2>1. p.rung = None /\ ~p.receipt_verified /\ p.error
      BY DEF Report
    <2>2. SUFFICES ReportMeets(p, a)
      OBVIOUS
    <2> HIDE DEF p
    <2> QED BY <1>1, <1>2, <1>3, <1>5, <2>1 DEF ReportMeets
  <1>6. ASSUME a.kind = "bare" PROVE ReportMeets(Report(TRUE, FALSE, a.rung, FALSE), a)
    <2> DEFINE p == Report(TRUE, FALSE, a.rung, FALSE)
    <2>1. p.rung = a.rung /\ ~p.receipt_verified /\ ~p.error
      BY DEF Report
    <2>2. SUFFICES ReportMeets(p, a)
      OBVIOUS
    <2> HIDE DEF p
    <2> QED BY <1>1, <1>2, <1>3, <1>6, <2>1 DEF ReportMeets
  <1>7. ASSUME a.kind = "receipt", NEW k PROVE ReportMeets(AfterKey(a, k), a)
    <2> DEFINE p == AfterKey(a, k)
    <2>1. p.rung = a.rung /\ (p.receipt_verified => a.proves) /\ p.anchored /\ ~p.error
      BY DEF Report, AfterKey
    <2>2. SUFFICES ReportMeets(p, a)
      OBVIOUS
    <2> HIDE DEF p
    <2> QED BY <1>1, <1>2, <1>3, <1>7, <2>1 DEF ReportMeets
  <1> QED BY <1>4, <1>5, <1>6, <1>7

\* The fetch ends with report p.
LEMMA ProxiedOK ==
    ASSUME TypeOK, PerRequest, RequestInv, NEW r \in Requests, pc[r] \in {"fetch", "key"},
           NEW p, Proxied(r, p), UNCHANGED <<input, got, gone, admitted>>,
           \A q \in Requests \ {r} : fetched'[q] = fetched[q],
           ReportMeets(p, fetched'[r])
    PROVE  RequestInv'
  <1> DEFINE a == Reply(200, "anchor-status")
  <1>1. input[r].method = "GET" /\ input[r].path = "anchor"
    BY DEF RequestInv, RequestOK
  <1>2. Respond(r, a) /\ report' = [report EXCEPT ![r] = p]
    BY DEF Proxied
  <1>3. report'[r] = p /\ \A q \in Requests \ {r} : report'[q] = report[q]
    BY <1>2 DEF PerRequest
  <1>4. pc'[r] = "send" /\ answer'[r] = a
    BY <1>2, RespondAt
  <1>5. LeavesOthers(r)
    BY <1>2, <1>3, RespondAt DEF LeavesOthers
  <1>6. a = PathGET(input[r]) /\ a.body = "anchor-status"
    BY <1>1 DEF PathGET, do_GET, PagePaths, StaticPaths, Reply
  <1> HIDE DEF a
  <1>7. PathGET(input[r])' = PathGET(input[r])
    BY DEF PathGET, do_GET
  <1>8. Served(r)'
    BY <1>1, <1>3, <1>4, <1>6, <1>7 DEF Served
  <1>9. RequestOK(r)'
    BY <1>4, <1>8 DEF RequestOK
  <1> QED BY <1>5, <1>9, OthersKept

LEMMA FetchInclusionOK ==
    ASSUME TypeOK, PerRequest, RequestInv, NEW r \in Requests, FetchInclusion(r)
    PROVE  RequestInv'
  <1>1. PICK a \in Inclusions :
           /\ fetched' = [fetched EXCEPT ![r] = a]
           /\ CASE a.kind = "not-found" -> Proxied(r, Report(FALSE, FALSE, "standalone", FALSE))
                [] a.kind \in Failures  -> Proxied(r, Report(a.kind = "unusable", FALSE, None, TRUE))
                [] a.kind = "bare"      -> Proxied(r, Report(TRUE, FALSE, a.rung, FALSE))
                [] a.kind = "receipt"   -> /\ pc' = [pc EXCEPT ![r] = "key"]
                                           /\ UNCHANGED <<answer, looking, report>>
    BY DEF FetchInclusion
  <1>2. pc[r] = "fetch" /\ UNCHANGED <<input, got, gone, admitted>>
    BY DEF FetchInclusion, gateVars
  <1>3. fetched'[r] = a /\ \A q \in Requests \ {r} : fetched'[q] = fetched[q]
    BY <1>1 DEF PerRequest
  <1>4. a.kind \in {"not-found", "bare", "receipt", "http-error", "unreachable", "unusable"}
    BY DEF Inclusions, Failures
  <1>5. CASE a.kind = "receipt"
    <2>1. pc' = [pc EXCEPT ![r] = "key"] /\ answer' = answer /\ report' = report
      BY <1>1, <1>5 DEF Failures
    <2>2. LeavesOthers(r) /\ pc'[r] = "key"
      BY <1>2, <1>3, <2>1 DEF LeavesOthers, TypeOK
    <2>3. input[r].method = "GET" /\ input[r].path = "anchor" /\ answer[r] = NoReply
      BY <1>2 DEF RequestInv, RequestOK
    <2>4. RequestOK(r)'
      BY <1>2, <1>3, <1>5, <2>1, <2>2, <2>3 DEF RequestOK
    <2> QED BY <2>2, <2>4, OthersKept
  <1>6. CASE a.kind # "receipt"
    <2>1. \E p : Proxied(r, p) /\ ReportMeets(p, a)
      <3>1. CASE a.kind = "not-found"
        BY <1>1, <3>1, ReportsMeet DEF Failures
      <3>2. CASE a.kind \in Failures
        BY <1>1, <3>2, ReportsMeet DEF Failures
      <3>3. CASE a.kind = "bare"
        BY <1>1, <3>3, ReportsMeet DEF Failures
      <3> QED BY <1>4, <1>6, <3>1, <3>2, <3>3 DEF Failures
    <2> QED BY <1>2, <1>3, <2>1, ProxiedOK
  <1> QED BY <1>5, <1>6

LEMMA FetchKeyOK ==
    ASSUME TypeOK, PerRequest, RequestInv, NEW r \in Requests, FetchKey(r)
    PROVE  RequestInv'
  <1>1. PICK k : Proxied(r, AfterKey(fetched[r], k))
    BY DEF FetchKey
  <1>2. pc[r] = "key" /\ UNCHANGED <<input, got, gone, fetched, admitted>>
    BY DEF FetchKey, gateVars
  <1>3. fetched[r] \in Inclusions /\ fetched[r].kind = "receipt"
    BY <1>2 DEF RequestInv, RequestOK
  <1>4. ReportMeets(AfterKey(fetched[r], k), fetched[r])
    BY <1>3, ReportsMeet
  <1> QED BY <1>1, <1>2, <1>4, ProxiedOK

LEMMA PerRequestStep ==
    ASSUME PerRequest, [Next]_vars
    PROVE  PerRequest'
  <1>1. CASE UNCHANGED <<answer, fetched, report>>
    BY <1>1 DEF PerRequest, AnswerFn
  <1>2. ASSUME NEW r \in Requests, Request(r) PROVE PerRequest'
    <2>1. UNCHANGED <<fetched, report>>
      BY <1>2 DEF Request, ServePage, ServeView, PostVerify, AskAnchor, anchorVars
    <2>2. answer' = answer \/ \E a : answer' = [answer EXCEPT ![r] = a]
      BY <1>2, AnswerSteps DEF OtherAnswer, Refuses
    <2> QED BY <2>1, <2>2 DEF PerRequest, AnswerFn
  <1>3. ASSUME NEW r \in Requests, Step(r) PROVE PerRequest'
    <2>1. answer' = answer \/ \E a : answer' = [answer EXCEPT ![r] = a]
      BY <1>3, AnswerSteps DEF OtherAnswer, Refuses
    <2>2. fetched' = fetched \/ \E a : fetched' = [fetched EXCEPT ![r] = a]
      BY <1>3 DEF Step, Receive, Disconnect, Send, FetchInclusion, FetchKey, anchorVars
    <2>3. report' = report \/ \E p : report' = [report EXCEPT ![r] = p]
      <3>1. CASE Receive(r) \/ Disconnect(r) \/ Send(r)
        BY <3>1 DEF Receive, Disconnect, Send, anchorVars
      <3>2. CASE FetchInclusion(r)
        BY <3>2 DEF FetchInclusion, Proxied, Inclusions, Failures
      <3>3. CASE FetchKey(r)
        BY <3>3 DEF FetchKey, Proxied
      <3> QED BY <1>3, <3>1, <3>2, <3>3 DEF Step
    <2> QED BY <2>1, <2>2, <2>3 DEF PerRequest, AnswerFn
  <1> QED BY <1>1, <1>2, <1>3 DEF Next, Tick, vars, anchorVars

\* RequestInv is inductive: what is known of each request, at each point of its
\* coroutine, survives every step of it and of every other.
LEMMA RequestsCorrect == Spec => [](PerRequest /\ RequestInv)
  <1>1. Init => PerRequest /\ RequestInv
    <2> SUFFICES ASSUME Init PROVE PerRequest /\ RequestInv
      OBVIOUS
    <2>1. PerRequest
      BY DEF Init, PerRequest, AnswerFn
    <2>2. \A r \in Requests : pc[r] = "idle" /\ answer[r] = NoReply /\ r \notin admitted /\ got[r] = 0
      BY DEF Init
    <2> QED BY <2>1, <2>2 DEF RequestInv, RequestOK
  <1>2. TypeOK /\ PerRequest /\ RequestInv /\ [Next]_vars => (PerRequest /\ RequestInv)'
    <2> SUFFICES ASSUME TypeOK, PerRequest, RequestInv, [Next]_vars PROVE RequestInv'
      BY PerRequestStep
    <2>1. CASE UNCHANGED <<pc, input, got, gone, answer, fetched, report, admitted>>
      BY <2>1, RequestKept DEF RequestInv
    <2>2. ASSUME NEW r \in Requests, Request(r) PROVE RequestInv'
      BY <2>2, ServePageOK, ServeViewOK, PostVerifyOK, AskAnchorOK DEF Request
    <2>3. ASSUME NEW r \in Requests, Step(r) PROVE RequestInv'
      BY <2>3, ReceiveOK, DisconnectOK, SendOK, FetchInclusionOK, FetchKeyOK DEF Step
    <2> QED BY <2>1, <2>2, <2>3 DEF Next, Tick, vars, gateVars, anchorVars
  <1> QED BY <1>1, <1>2, TypeCorrect, PTL DEF Spec

\* verify_payload says valid exactly of genuine content and has a reason exactly
\* when it does not.
LEMMA PayloadVerdict ==
    ASSUME NEW c \in Contents
    PROVE  LET v == verify_payload(c)
           IN  /\ v.valid <=> Genuine(c)
               /\ v.valid <=> v.reasons = {}
               /\ v.bad_request <=> c.stmt = "none" /\ c.rcpt = "none"
  <1> DEFINE v == verify_payload(c)
             stmtOk == c.stmt = "genuine" /\ c.stmtKey = "right"
  <1>1. CASE c.stmt = "none" /\ c.rcpt = "none"
    BY <1>1 DEF verify_payload, Refusal, Genuine
  <1>2. CASE ~(c.stmt = "none" /\ c.rcpt = "none")
    <2>1. /\ v.valid = (components(c) = {TRUE}) /\ v.bad_request = FALSE
          /\ v.reasons = StatementReasons(c) \cup ReceiptReasons(c)
      BY <1>2 DEF verify_payload
    <2>2. c.stmt # "none" => (StatementReport(c) = "true" <=> stmtOk)
      BY DEF StatementReport, signature_verified
    <2>3. StatementReasons(c) = {} <=> c.stmt = "none" \/ stmtOk
      BY DEF StatementReasons, StatementReport, signature_verified
    <2>4. ReceiptReport(c) <=> ReceiptOk(c)
      BY DEF ReceiptReport, ReceiptOk
    <2>5. ReceiptReasons(c) = {} <=> c.rcpt = "none" \/ ReceiptOk(c)
      BY DEF ReceiptReasons, ReceiptOk
    <2>6. ReceiptReport(c) \in BOOLEAN
      BY DEF ReceiptReport, ReceiptOk
    <2>7. components(c) = {TRUE} <=> /\ c.stmt = "none" \/ stmtOk
                                     /\ c.rcpt = "none" \/ ReceiptOk(c)
      <3>1. CASE c.stmt = "none"
        BY <1>2, <2>4, <2>6, <3>1 DEF components
      <3>2. CASE c.rcpt = "none"
        BY <1>2, <2>2, <3>2 DEF components
      <3>3. CASE c.stmt # "none" /\ c.rcpt # "none"
        BY <2>2, <2>4, <2>6, <3>3 DEF components
      <3> QED BY <3>1, <3>2, <3>3
    <2>8. Genuine(c) <=> (c.stmt = "none" \/ stmtOk) /\ (c.rcpt = "none" \/ ReceiptOk(c))
      BY <1>2 DEF Genuine, ReceiptOk
    <2> HIDE DEF v, stmtOk
    <2>9. v.valid <=> Genuine(c)
      BY <2>1, <2>7, <2>8
    <2>10. v.valid <=> v.reasons = {}
      BY <2>1, <2>3, <2>5, <2>7
    <2> QED BY <1>2, <2>1, <2>9, <2>10 DEF v
  <1> QED BY <1>1, <1>2

\* The same of the first n octets of a body.
LEMMA BytesVerdict ==
    ASSUME NEW i, i.content \in Contents, NEW n
    PROVE  LET a == Answer(verify_request_bytes(i, n))
           IN  /\ a.valid => Genuine(i.content)
               /\ a.status = 200 => (a.valid <=> Genuine(i.content))
               /\ a.valid <=> a.reasons = {}
               /\ a.body = "verdict"
  <1> DEFINE v == verify_request_bytes(i, n)
  <1>1. /\ Answer(v).valid = v.valid /\ Answer(v).reasons = v.reasons /\ Answer(v).body = "verdict"
        /\ Answer(v).status = 200 => ~v.bad_request
    BY DEF Answer
  <1>2. CASE n \in i.need .. i.clean
    <2>1. v = verify_payload(i.content)
      BY <1>2 DEF verify_request_bytes
    <2> QED BY <1>1, <2>1, PayloadVerdict
  <1>3. CASE n \notin i.need .. i.clean
    <2>1. v = Refusal
      BY <1>3 DEF verify_request_bytes
    <2>2. v.valid = FALSE /\ v.bad_request = TRUE /\ v.reasons # {}
      BY <2>1 DEF Refusal
    <2> QED BY <1>1, <2>2
  <1> QED BY <1>2, <1>3

\* Whatever the host cut the body into, and whether or not the client stayed, a
\* verdict is of what was posted.
THEOREM VerdictCorrect == Spec => []VerdictIsOfTheContent
  <1>1. TypeOK /\ RequestInv => VerdictIsOfTheContent
    <2> SUFFICES ASSUME TypeOK, RequestInv, NEW r \in Requests, answer[r].body = "verdict"
                 PROVE  /\ answer[r].valid => Genuine(input[r].content)
                        /\ answer[r].status = 200 => (answer[r].valid <=> Genuine(input[r].content))
                        /\ answer[r].valid <=> answer[r].reasons = {}
      BY DEF VerdictIsOfTheContent
    <2>1. \A s, b : Reply(s, b).body = b
      BY DEF Reply
    <2>2. pc[r] \in {"send", "done"}
      <3>1. answer[r] # NoReply
        BY <2>1 DEF NoReply, None
      <3> QED BY <3>1 DEF TypeOK, RequestInv, RequestOK
    <2>3. Served(r)
      BY <2>2 DEF RequestInv, RequestOK
    <2>4. PICK n : answer[r] = Answer(verify_request_bytes(input[r], n))
      BY <2>1, <2>3 DEF Served, Verified, TooLarge
    <2>5. input[r].content \in Contents
      BY DEF TypeOK, IsRequest
    <2> QED BY <2>4, <2>5, BytesVerdict
  <1> QED BY <1>1, TypeCorrect, RequestsCorrect, PTL

\* Nothing but the error of a route has status 404.
LEMMA StatusIs404 ==
    /\ \A i : PathGET(i).status = 404 => PathGET(i) = Reply(404, "error")
    /\ Reply(404, "error").status = 404 /\ Reply(429, "rate-limited").status # 404
    /\ TooLarge.status # 404 /\ \A v : Answer(v).status # 404
  <1>1. /\ \A s, b : Reply(s, b).status = s
        /\ \A v : Answer(v).status \in {200, 400}
    BY DEF Reply, Answer
  <1>2. TooLarge.status = 413 /\ \A i : Page(i).status = 200
    BY <1>1 DEF TooLarge, Page
  <1>3. ASSUME NEW i, PathGET(i).status = 404 PROVE PathGET(i) = Reply(404, "error")
    BY <1>1, <1>2, <1>3 DEF PathGET, do_GET
  <1> QED BY <1>1, <1>2, <1>3

\* A client that stays gets from the interleaved service what the sequential one
\* answers to the path, without a trailing slash and with a Content-Length that
\* tells the body's length; of a target with more than the path, the sequential
\* one answers the same only when that is 404.
THEOREM WrappersMatch == Spec => []WrappersAgree
  <1>1. TypeOK /\ RequestInv => WrappersAgree
    <2> SUFFICES ASSUME TypeOK, RequestInv, NEW r \in Requests, pc[r] = "done", ~gone[r],
                        ~input[r].slash, input[r].declared = input[r].size, NEW plain \in BOOLEAN
                 PROVE  answer[r] = StdlibAnswer(input[r], plain, r \in admitted)
                            <=> plain \/ answer[r].status = 404
      BY DEF WrappersAgree
    <2> DEFINE i == input[r]
               ofPath == StdlibAnswer(i, TRUE, r \in admitted)
               ofTarget == StdlibAnswer(i, FALSE, r \in admitted)
    <2> SUFFICES answer[r] = ofPath /\ (answer[r] = ofTarget <=> answer[r].status = 404)
      <3>1. plain = TRUE \/ plain = FALSE
        OBVIOUS
      <3> QED BY <3>1, Zenon
    <2>1. Served(r) /\ i.size \in Nat /\ Cap \in Nat
      BY HostedServerAssumption DEF RequestInv, RequestOK, TypeOK, IsRequest
    <2>2. ReadLength(i) = i.size
      BY <2>1 DEF ReadLength
    <2>3. ofTarget = Reply(404, "error")
      BY DEF StdlibAnswer, do_GET, do_POST
    <2>4. CASE i.method = "GET"
      <3>1. answer[r] = PathGET(i)
        BY <2>1, <2>4 DEF Served
      <3>2. ofPath = PathGET(i)
        BY <2>4 DEF StdlibAnswer, PathGET
      <3> HIDE DEF ofPath, ofTarget
      <3> QED BY <2>3, <3>1, <3>2, StatusIs404
    <2>5. CASE i.method = "POST" /\ i.path # "/verify"
      <3>1. answer[r] = Reply(404, "error")
        BY <2>1, <2>5 DEF Served
      <3>2. ofPath = Reply(404, "error")
        BY <2>5 DEF StdlibAnswer, do_POST
      <3> HIDE DEF ofPath, ofTarget
      <3> QED BY <2>3, <3>1, <3>2, StatusIs404
    <2>6. CASE i.method = "POST" /\ i.path = "/verify" /\ r \notin admitted
      <3>1. answer[r] = Reply(429, "rate-limited")
        BY <2>1, <2>6 DEF Served
      <3>2. ofPath = Reply(429, "rate-limited")
        BY <2>6 DEF StdlibAnswer, do_POST
      <3> HIDE DEF ofPath, ofTarget
      <3> QED BY <2>3, <3>1, <3>2, StatusIs404
    <2>7. CASE i.method = "POST" /\ i.path = "/verify" /\ r \in admitted
      <3>1. Verified(r)
        BY <2>1, <2>7 DEF Served
      <3>2. ofPath =
                IF i.size > Cap THEN TooLarge ELSE Answer(verify_request_bytes(i, i.size))
        BY <2>2, <2>7 DEF StdlibAnswer, do_POST
      <3> HIDE DEF ofPath, ofTarget
      <3>3. CASE answer[r] = TooLarge /\ i.size > Cap
        BY <2>3, <3>2, <3>3, StatusIs404
      <3>4. CASE answer[r] = Answer(verify_request_bytes(i, i.size)) /\ i.size <= Cap
        BY <2>1, <2>3, <3>2, <3>4, StatusIs404
      <3> QED BY <3>1, <3>3, <3>4 DEF Verified
    <2>8. i.method \in {"GET", "POST"}
      BY DEF TypeOK, IsRequest
    <2> HIDE DEF ofPath, ofTarget
    <2> QED BY <2>4, <2>5, <2>6, <2>7, <2>8
  <1> QED BY <1>1, TypeCorrect, RequestsCorrect, PTL

\* An anchor report is of the anchor's first answer, whatever becomes of the
\* second fetch.
THEOREM ReportsCorrect == Spec => []ReportIsOfTheInclusion
  <1>1. TypeOK /\ RequestInv => ReportIsOfTheInclusion
    <2> SUFFICES ASSUME TypeOK, RequestInv, NEW r \in Requests, answer[r].body = "anchor-status"
                 PROVE  ReportMeets(report[r], fetched[r])
      BY DEF ReportIsOfTheInclusion, ReportMeets
    <2>1. \A s, b : Reply(s, b).body = b
      BY DEF Reply
    <2>2. pc[r] \in {"send", "done"}
      <3>1. answer[r] # NoReply
        BY <2>1 DEF NoReply, None
      <3> QED BY <3>1 DEF TypeOK, RequestInv, RequestOK
    <2>3. Served(r) /\ \A n : Answer(verify_request_bytes(input[r], n)).body = "verdict"
      BY <2>2 DEF RequestInv, RequestOK, Answer
    <2> QED BY <2>1, <2>3 DEF Served, Verified, TooLarge
  <1> QED BY <1>1, TypeCorrect, RequestsCorrect, PTL

===========================================================================
