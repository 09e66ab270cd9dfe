# A verification project for scitt-cose

TLA+ models of the verifiers in this repository, the TLC runs that check them on
small instances, and TLAPS proofs of their central properties for every instance.
Paths are relative to the repository root.

## 1. The system

scitt-cose verifies transparency evidence: COSE_Sign1 statements, COSE Receipts
over RFC 9162 Merkle trees, and bundles of Agent Action Capsules. Its parts:

| Part | Code | State it keeps | Hard behaviour |
|---|---|---|---|
| Merkle primitives | `scitt_cose/merkle.py`, `rust/scitt-cose/src/merkle.rs`, `scitt-cose-go-verify/main.go` | none; a caller keeps a tree head | unbalanced trees, sizes at a boundary, proofs chosen by someone else |
| Receipt verification | `scitt_cose/receipt.py`, `scitt_cose/cose_sign1.py`, `receipt.rs`, `main.go` | one result under construction | an unprotected array of candidate proofs, three ports that must agree, what a failure may report |
| Receipt minting | `receipt.py` `build_receipt` | none | index, path and root from one tree |
| Encoding rule | `_encoding_rule.py`, `encoding.rs`, `encoding.go` | none | one answer in three languages |
| Statements | `scitt_cose/statement.py`, `main.go` | none | verified and unverified fields |
| Checkpointed local log | `scitt_cose/cll.py`, `MMR_JS` in `hosted_profiles/hosted.py` | none; a caller keeps checkpoints | MMR positions, range proofs |
| Hosted service | `hosted_profiles/hosted.py` | the rate gate's window and count, view counters | interleaved requests, disconnects, partial fetches |
| Bundle page: checks | `BUNDLE_JS` in `hosted.py` | the results of one load | envelopes, cycles, absent WebCrypto |
| Bundle page: event loop | the render section of `BUNDLE_JS` | current bundle and fragment, panels, witness list | awaits, late answers, overlapping loads |
| Capsule page | `CAPSULE_JS` in `hosted.py` | focal capsule, graph, privilege log, ritual, regulatory panel, banner | two fragment blocks, late hashes and rituals, the anchor's answer |
| Witness check | `viewer/src/witness.js` | none | up to five proofs chained together, nodes against entries |
| AAC renderer | `hosted_profiles/aac.py`, `machine_mandate.py` | none | the capsule page's checks again, in another language |
| CLI, vectors | `scitt_cose/cli.py`, `vectors.py` | none | none |

A receipt verifier calls the Merkle primitives to rebuild a root and the COSE
layer to check the signature over it. The bundle page runs its own checks, the
MMR range proof and the witness check in the browser; the service hands the page
out and offers `POST /verify`, which calls the receipt verifier. The capsule page
asks the service's anchor proxy about one record; its checks are a mirror of
`aac.py`. The witness check goes from a bundle's checkpoint, through the MMR
functions, to receipts of witnesses on the reader's list.

What makes each part correct:

- Merkle: no proof makes a false entry or a rewritten history acceptable, every
  honest proof is accepted, and the guards leave nothing for the fold to trip on.
- Receipts: acceptance depends on the signed content and the set of proofs, never
  on their order; only signed content is reported; a failure says how far it got;
  the ports agree.
- Bundle checks: the displays of one bundle agree, and four green stages mean
  what they say.
- Bundle page: whatever overtakes what, what is shown is about the bundle in the
  address bar.
- Local log: a reader that trusts the verifiers sees one history that only grows;
  the browser's port decides as the library does.
- Witness check: "witnessed" means that somebody on the reader's list holds the
  checkpoint, through whatever chain; a failure is never outvoted.
- Capsule page: no green banner over a body that does not hash to its id, no pass
  that was not earned, and silence is never shown as disproof.
- AAC renderer: Integrity passes only over sealed payloads, the page passes no Sequence
  and no Witness that the library does not, and the two differ over no other statements
  than those that one of them alone can read.

## 2. The modules

### Merkle, MerkleLog, MerkleFold

`Merkle` has the functions of `merkle.py` as operators. A digest is the term that
was hashed, tagged by its domain-separation prefix; SHA-256 is assumed to be
collision free and nothing else. Python recursion and loops are recursive
functions (`largest_pow2_below`, `mth`, `inclusion_proof`, `subproof`,
`ConsistencyLoop`). The test `m & (m - 1) == 0` is `IsPow2`: m is then the largest
power of two below m + 1.

`MerkleLog` puts two of them to use: a reader holds a tree head, moves it by
`verify_consistency` (`AdvanceHead`) and accepts entries by `verify_inclusion`
(`AcceptEntry`). The repository has no such reader of its own; it is the caller
the README's example stands for, and the map marks it external. The operator
appends and rewrites. `LogView` is what a reader of any such log is promised: a
view that only grows, and entries that are those of the view; `MerkleLog` and
`MmrLog` both implement it (`ImplementsLogView`). Proofs are not the honest ones: every sequence of tree
nodes up to the bound is tried. With collision-free hashing a digest that is not
a node of the tree cannot occur in a proof that verifies, so no others are needed
for the run; the theorems of section 4 are about every sequence. Its specification is
`ReaderSpec`, and it assumes that the log stays below the ceiling
(`MaxEntries <= MAX_TREE_SIZE`), since `verify_inclusion` refuses larger trees.

`MerkleFold` is `root_from_inclusion_proof` with its nested `fold` unrolled on a
stack: `Refuse`/`Start` are the guards, `Call`, `Bottom` and `Return` the
activations, `Finish` the test for left-over siblings. It calls the recursive
helpers of `Merkle` where the code does, and `Tree(lo, n)` is what `mth` makes of the
n entries from lo. The Rust and Go functions are the same code.

### Receipt, ReceiptVerify

A receipt is a record of the flaws of its octets and types, the protected header,
the array of proofs and what was signed. `Receipt` has each port's structural
checks (`python_structure`, `rust_structure`, `go_structure`), the proof decoder,
the CCF fold, the signature step and the claims; `Acceptable` is the contract.
Error text is left out: every early return before the signature step leaves the
same result, so a port's structural checks are a conjunction and their order
shows nowhere.

`ReceiptVerify` runs the three ports in turn on one receipt. `Structure`,
`Decode`, `TryCandidate`, `Exhaust`, `CCF` and `Claims` follow `_verify_receipt`;
the Rust and Go functions have the same steps, and differ in `StructureOK`,
`SignatureOK`, the ceilings of the CCF path, and in Go ending the process on a
key it cannot load.

### BundleChecks

One bundle, one step per `await` of `loadBundle`: `Identify`, `Privlog` (log and
records table), `Completeness`, `CrossCheck`, `Ritual`. A record is its id and
parent, whether its body hashes to the id, what it discloses, and whether it sits
in a Disclosure Envelope. The model keeps which checks unwrap envelopes
(`verifyCapsuleId`, `findChainGaps`, `annotateRecords`) and which read the raw
item (`checkCompleteness`, `crossCheckSelfReport`, `evaluateBundleRitual`). A
range proof is the sequence of ids its root commits to; `verifyBundle` of the
vendored library is its two verdicts.

### BundlePage

The event loop around those checks. A panel holds the number of the load it shows.
`BeginLoad` is the synchronous start of `loadBundle`, `AfterIntegrity` to
`AfterRitual` its segments between awaits; `Paste`, `readDroppedFile`,
`loadDroppedText` and `bootstrapLoad` start loads; `ChooseNone`,
`ChoosePublished`, `readOwn` and `OwnListRead` change the witness list, and
`WitnessChecked` is the answer of a check, dropped when bundle or list have
changed. Bundles that make a check throw are among the inputs.

### VerifyPayload, HostedServer

`VerifyPayload` is `verify_payload` and `verify_request_bytes` as operators on what
a body carries. A body is its length, where its JSON object ends (`need`) and how
far only white space follows (`clean`), so the model knows which truncated bodies
still parse.

`HostedServer` is the ASGI app, one action per stretch between awaits: `ServePage`,
`ServeView`, `PostVerify` (routing and the gate, up to the first `receive`),
`Receive` and `Disconnect` (one turn of the read loop, verification included),
`Send`. The host cuts a body as it likes. `AskAnchor`, `FetchInclusion` and
`FetchKey` are `_anchor_proxy_json`, which does not await: `looking` is the request
that holds the event loop meanwhile. What each request will be is fixed at the
start (`Scenarios`). `do_GET` and `do_POST` are the stdlib handler, which serves one
request at a time and needs no machine. A request's target is a path, with or without
a trailing slash, and perhaps more. The handler looks at the target as it came, the app at
the path in it, decoded, so the handler's answers depend on whether the target is `plain`,
that is the path and nothing else. `admitted`, `at` and `window` are history.

### Mmr, MmrReference, MmrLog

`Mmr` has the functions of `cll.py`: position arithmetic (`height_at`, `peaks`,
`locate_path`), `root_from_peaks` and the three verifiers. Loops are recursive
functions, a refusal is a value (`NoPeaks`, `NoCount`), and an exception inside a
verifier is its False. `MmrReference` is the log that mints proofs, written from the
definition of a mountain range and sharing no arithmetic with `Mmr` but the powers of
two (`TwoTo`, the code's `2 ** h`).

`MmrLog` is the caller of the checkpoint functions: an operator that appends,
rewrites, and issues checkpoints under its own or another log id, a Transparency
Service that registers one, and a reader that moves by `verify_checkpoint_chain` and
takes up a leaf or a range. As in `MerkleLog` every proof that could hold is tried;
`Extends`, `Included` and `Ranged` say once, for each history, what some proof can
show. Its specification is `ReaderSpec`.

### MmrJs

`MMR_JS` is a port, so its loops are run as loops: one turn or one await to a step,
on a call chosen at the start. A call is a position function with any argument up
to the bound, or a verifier with a minted proof that may have been edited (a
witness dropped, added, swapped or replaced, another body, another size; not the
peak lists). The
recursion of `reconstructRangeSubtree` is a stack of subtrees still to be visited.

### WitnessEvidence

One step per stage of `checkWitnessEvidence`: `NoCheckpoint` or `CheckCheckpoint`;
`TakeChain` or `TakeDirect`; `CheckEarlier`, `ClimbChain` and `CheckCadence` for a
chain; `CheckReceipt` for each receipt; `Conclude`. Each stage takes its evidence from
all that is honest and from all single edits of it. At most one stage is defective in
a run (`defects`): one defect is what a missing guard would let through, and the
counterexamples of the mutants need no second. The receipt verifier of `witness.js`
is a port of its own (`receiptRoot`) and is compared with `Merkle`; it refuses sizes
that are not safe integers (`MAX_SAFE_INTEGER`), long before `merkle.py` does
(`MAX_TREE_SIZE`). A receipt's size and index are not signed, and every other size and
index is among the edits (`Claimed`). Signatures are
the key that sealed a checkpoint. `Placements` are the logs a witness may have, by where
the entry looked for is in them. `describeWitness` is how the page words the result.

### AacProfile, CapsuleChecks, MachineMandate, AacRitual

An item of a bundle is bare, an envelope, a binding of two capsules, or something
else; a capsule is the digests it names, its constraints, whether its body hashes to
its id, and its disposition. A payload is hashed in three ways (canonical JSON with or
without escapes, raw text) because the two sides do not always use the same one.
`AacProfile` is `aac.py`; `CapsuleChecks` the functions of `CAPSULE_JS` that mirror it,
with the regulatory panel of both sides. What is wrong with a signed statement in a
sidecar is named, since the two decoders take different ones (`OnlyPythonTakes`,
`OnlyPageTakes`); `MachineMandate` the second profile, parser and
renderer. `AacRitual` runs Python and the page in turn on one link: `ParseCapsule`,
`EvaluateRitual`, `RenderAac`, `RenderRitual`, or `ReadMandate`. `IsItem` and `IsMandate`
say which items and payloads there are, for the proofs; the runs enumerate some of each.

### CapsulePage

The event loop of `CAPSULE_JS`. `RunScript` is the script up to the fetch, both
fragment blocks included; `Paste`, `Navigate` and `Reload` are the reader.
`loadCapsule` and `renderRitual` do at once what the code does before its first await,
and leave the rest in `renders`, `hashing` and `rituals`, which end in any order
(`FinishRender`, `FinishHash`, `FinishRitual`). `AnswerArrives` is the fetch with the
handler up to its await, `ApplyAnswer` the rest. Constraints that are not a list make
the panel and the parser throw, which the model follows to the catch that gets it.

## 3. The runs

| Run | Shows |
|---|---|
| `Merkle` | The reader's view only grows, and what it accepted is and stays in it, whatever was served (`ImplementsLogView`); honest proofs verify for every pair of sizes (`HonestProofsVerify`). Beside it the calls of `MerkleFold`: an audit path that rebuilds the log's root proves its leaf (`InclusionSound`); the guards suffice (`GuardsSuffice`); every call returns what the recursive definition computes (`FoldIsTheOperator`). |
| `ReceiptVerify` | A port accepts exactly the acceptable receipts (`AcceptsExactly`), reports only what was signed (`OkIsAuthentic`) and says how far it got (`FailedAtTells`); all three answer, and agree where they are meant to, the diagnostic of a failed signature included (`PortsAgree`). |
| `BundleChecks` | The ancestor walk is exact (`CitesExactlyDescendants`); a passing Sequence has no hole, and four green stages with WebCrypto mean genuine records (`AllGreenMeansGenuine`); bare records are displayed alike everywhere (`BareDisplaysAgree`). |
| `BundlePage` | The witness panel and the address bar are about the current bundle (`WitnessIsFresh`, `HashIsCurrent`), and so is every panel while no load overlaps another (`SoloPanelsAgree`); the page settles, with the current bundle checked and its witness answer shown (`Settles`). |
| `HostedServer` | No stretch of a window's length admits more than twice the limit (`BurstBound`), and 429 means that the limit was admitted in the running window (`RefusedOnlyWhenFull`). A verdict is valid exactly of genuine content (`VerdictIsOfTheContent`); the ASGI app answers what the stdlib handler answers to the path, however the body was cut, and to a target with a query string nothing the same but 404 (`WrappersAgree`); the second fetch of the anchor proxy touches `receipt_verified` alone (`ReportIsOfTheInclusion`); everyone is answered (`Answered`). |
| `Mmr` | The same of checkpoints (`ImplementsLogView`); a leaf accepted with a receipt is in a history whose checkpoint was registered (`WitnessedLeafWasRegistered`); the records of an accepted range are the checkpoint's last ones, none left out (`RangeIsTheTip`). Beside it the calls of `MmrJs`: the page's loops end (`Returns`) and place every node where a growing log has it (`PositionsAreTheLogs`); page and library pass exactly the proofs that the log minted, so that every witness hash and the body and size named count (`OnlyTheMintedProofPasses`). |
| `WitnessEvidence` | "Witnessed" is true of the logs, and "in part" counts entries and not nodes (`WitnessedMeansHeld`); a receipt passes only for an entry that a named witness has, whatever size and index it claims, an honest one of a safe-integer size never fails, and up to that size the fourth receipt verifier rebuilds what `merkle.py` rebuilds, beyond it nothing (`ReceiptsPassWhenHeld`); the verdict is FAILED exactly when a row is (`FailureIsNamed`). |
| `CapsulePage` | A witness pass covers every record shown and rests on a verified answer or the fragment's own declaration, and a failure on that declaration or on an entry the anchor has, never on an anchor out of reach (`WitnessIsEarned`); on a page nobody touched the anchored banner is over a body that hashes to its id (`UntouchedPageIsGated`); a late hash marks only a row with its digest (`MatchIsOfTheRow`); whichever of answer and load comes first, the inclusion-only view is never beside a capsule and receipt rows are only under the banner (`AnswerMeetsLoad`); the banner is decided, and the ritual in the end is of the fragment's records (`PageSettles`). |
| `AacRitual` | Integrity passes only over sealed payloads and the descendants of an altered record are flagged (`AlteredRecordsShow`); graphs, privilege logs, MachineMandate views (`ViewsAgree`) and regulatory panels (`PanelsAgree`) of the two sides agree; the page passes no Sequence and no Witness that the library does not, Authenticity differs only over statements one side alone takes, and absence disproves nothing on either side (`PageIsNoLaxer`). |

Three runs state what the code itself says and are violated:

- `RangeIsOfTheCheckpoint`. `verify_range_against_checkpoint` never compares the
  proof's size with the checkpoint's (`cll.py:906`), so under an honest checkpoint of
  three records the last one is accepted as record 5. `RangeIsTheTip` is what remains
  true.
- `VerifiesThereToo`. The page's COSE verifier is said to mirror `cose_sign1.py` so that
  what verifies on one side verifies on the other (`hosted.py:1081`). It reads neither
  what follows the message nor the unprotected header nor `crit`, and takes encodings
  that `strict_decode` refuses; Authenticity then fails in the library alone.
  `PageIsNoLaxer` says that they differ over such statements only.
- `UncheckedIsNotFailed`. A check that did not run is said never to be reported as a
  failed verification (`hosted.py:1488`, and 1024 for the ritual). `receipt_verified`
  starts as False (`hosted.py:3111`), so an entry without a receipt, or whose key could
  not be fetched, reads like one whose receipt failed, and the page shows Witness as
  failed (`hosted.py:1656`). `WitnessIsEarned` covers the other silences.

Noted and not run, with the properties stated so that they hold beside them:

- Receipts. Go applies no ceilings to a CCF receipt and accepts what Python refuses
  (`README.md:227` says they agree). A signature item that is no byte string fails at
  "signature" in Python and at "structure" in Rust and Go (`receipt.py:190`).
  `verify_consistency` from size 0 looks at no root (`merkle.py:236`).
- Service. The routes of the ASGI app are said to mirror the stdlib handler's
  (`hosted.py:4268`). The handler compares `self.path`, query string included, and the
  app `scope["path"]`, so `GET /health?x` and `POST /verify?x` are 404 from the one and
  served by the other; `WrappersAgree` says that they agree about paths and nothing
  else. The handler collapses slashes at the start of a target, which is not modelled.
  The stdlib handler answers 404 to the static paths and
  `/instrumentation-policy` with a trailing slash, which the ASGI app serves, and reads
  to the end of the stream for a negative Content-Length (`hosted.py:4242`), which is
  why `WrappersAgree` asks for a true length.
- Bundle page. A wrapped record's mismatch is in the privilege log and not in Integrity
  (`hosted.py:2653`); the table never marks a disclosure, since `_capMismatched` reads
  `matchOk` before anyone sets it (`hosted.py:2331`); without WebCrypto, Integrity passes
  (`hosted.py:2678`); an older load that ends last leaves its panels under the newer
  fragment (`hosted.py:2966`); a witness check that throws (`witness.js:41`) leaves the
  previous verdict; Sequence passes when each parent is merely some record of the
  bundle (`hosted.py:2709`).
- Local log. `witness_status_line` calls MMR nodes entries (`cll.py:731`). `bytes.fromhex`
  skips white space in the hex of a proof, which `MMR_JS` refuses; the `v` field of
  proofs is left out of the model.
- Witness check. The page refuses a receipt of a size beyond 2^53 - 1 (`witness.js:204`),
  which `merkle.py` takes up to 2^62. The size and the index of a receipt are not signed:
  one may pass with a size and an index at which the log does not have the entry, as long
  as it has it somewhere (of three entries, the last passes as the second of two). A `key_ids` hash whose key is not in the row is used as a raw key, so
  its receipts fail rather than stay unchecked (`witness.js:282`).
- Capsule page. The banner is not revisited after a paste or a step, and the id in the
  path is not compared with the body's; renderings, rituals and logs of an older call
  may end after those of a newer one; a step through the bundle replaces the anchor's
  witness by the declared one, and a later load drops the receipt rows; the address bar
  holds one capsule after a bundle was loaded, so a reload shows that one; a wrapper is
  first taken for a single item; constraints that are not a list turn "anchored" into
  "unreachable".
- Renderer. A digest that is already a node hides a disclosure for it (`aac.py:270`);
  string payloads are hashed raw in Python and as JSON on the page, and non-ASCII ones
  with escapes in Python alone; the agent payloads of a binding always read as a
  mismatch on the page; `parseAac` decides no match, so the page never reports
  `digest_mismatch`; Python's Sequence passes with no links declared, and its Witness
  with 1 of 1 in a bundle of two; the summary counts `human_disposed` alone where the
  panel also takes an approver "human"; the two MachineMandate sides fall back
  differently on payloads that do not say what they are.

### Bounds

- `Merkle`, the reader: five entries, one rewrite, consistency proofs of up to four nodes
  and paths of up to three. Five entries have every shape the code distinguishes:
  old sizes that are and are not powers of two, balanced and unbalanced trees; no
  honest proof is longer.
- `Merkle`, the calls: a log of five entries with a repeated one, sizes 0 to 6 around a
  ceiling of 5, every path of up to three of nine digests. A behaviour is either one call
  or the reader beside a call that was refused, since the two share nothing
  (`CallsAndReads`).
- `ReceiptVerify`: ceilings of two proofs and two siblings, so arrays of three and
  a CCF path of three cross them; every header value that some check tells apart;
  each flaw alone and together with a bad signature item.
- `BundleChecks`: every chain of up to three records over three ids and a missing
  parent, which includes cycles, repeated ids and forks; every mix of two records
  with every certificate and self-report.
- `BundlePage`: two loads, two files, one list. Overtaking needs two loads; the
  proofs lift the bound for the invariants.
- `HostedServer`: three requests, a gate that is off or admits one, a window of two
  ticks and a clock of three, bodies of up to three octets around a ceiling of two.
  A burst over the edge of a window needs three posts; every body that the parser or
  the ceiling tells apart, every content that differs from a good one in one member,
  every route and every answer of the anchor occurs, beside probes and plain posts.
- `Mmr`, the reader: five leaves, one rewrite, ranges of up to two records: a range proof
  that crosses mountains, and peaks of heights 2, 1 and 0. Most of the
  time goes into trying every proof. The run of the finding tries ranges of three.
- `Mmr`, the calls: positions up to 40 and logs of up to seven leaves, which have three
  mountains; every edit of every proof. Composed as in `Merkle`.
- `WitnessEvidence`: histories of one and of three entries and a fork of them, cadence
  trees of depth 2, a ceiling of five entries with safe integers up to four, witness logs
  up to the ceiling, claimed sizes up to one above it, two receipts, one defect (see above); lists with rows that name a
  key, its hash, or another witness's.
- `CapsulePage`: two steps of the reader after the script, which is enough for a paste
  or a step to overtake anything under way; fragments of every form, with capsules that
  hash to their ids and that do not, shared digests and constraints that are not a list.
- `AacRitual`: bundles of up to three links with every parent, cycles included; single
  items in every shape with every payload form; every mandate the parsers tell apart.

The runs of pure calls and of the page may stop (there is nothing left to do), so
deadlock is not checked.

### Fairness

`MerkleFold` and `ReceiptVerify` are straight-line code: weak fairness of the next
step. `BundlePage` assumes that the script runs and that promises and file reads
settle, each by itself; the reader of the page is under no obligation.
`MmrJs` is one async function that goes on when it can. `CapsulePage` assumes that the
script runs, that hashes and rituals under way end, and that the fetch answers or
fails; nothing is assumed of the reader, of the order, or of the answer.
`HostedServer` assumes of each request that the event loop resumes it, that a fetch
ends (`timeout=8`), and that the host reports the rest of a body or that the client
has gone; requests need not arrive and the clock need not move.

## 4. The proofs

| Module | Theorems |
|---|---|
| `MerkleFoldProofs` | `InclusionProofsAreSound`, `InclusionProofsAreOfEntries`, `InclusionProofsVerify`, `ConsistencyProofsAreSound`, `ConsistencyProofsVerify`; `ReaderHonestProofsVerify`, `ReaderImplementsLogView`; `FoldTyped`, `FoldSound`, `FoldGuardsSuffice` |
| `ReceiptVerifyProofs` | `ReceiptTyped`, `ReceiptAcceptsExactly`, `ReceiptOkIsAuthentic`, `ReceiptFailedAtTells` |
| `BundleChecksProofs` | `ChecksCorrect`, `WalkIsExact`, `GreenIsGenuine`, `DisplaysAgree` |
| `BundlePageProofs` | `PageTyped`, `PageWitnessIsFresh`, `PageHashIsCurrent`, `PageSoloPanelsAgree` |
| `HostedServerProofs` | `TypeCorrect`, `GateCorrect`, `BurstBounded`, `RefusalsAreDue`, `VerdictCorrect`, `WrappersMatch`, `ReportsCorrect` |
| `LocalLogProofs` | `MmrConsistencyProofsAreSound`, `MmrInclusionProofsAreSound`, `MmrRangeProofsAreSound`; `ReaderInvariant`, `WitnessedLeafRegistered`, `AcceptedRangeIsTheTip`, `MmrLogImplementsLogView`; `EvidenceCorrect`, `ReceiptsMatchTheLogs`, `FailuresAreNamed`, `WitnessedIsHeld` |
| `CapsulePageProofs` | `PageAnswerMeetsLoad`, `PageIsGated`, `PageWitnessIsEarned`, `PageMatchIsOfTheRow` |
| `AacRitualProofs` | `RitualCorrect`, `AlteredRecordsAreShown`, `PageNoLaxer`, `PanelsMatch`, `ViewsMatch` |

They hold for every value of the constants: every ceiling, log, tree size and call;
every set of receipts, bundles, fragments, items and mandates, of any length; every
number of loads, files and lists; every finite set of requests, every limit and window.
What is assumed of the constants is their types (`IsBundle`, `IsItem`, `IsMandate`,
`IsFragment`, `IsRequest`, histories of entries, the ceilings natural numbers), that the
bounds on a log stay below the verifiers' ceilings, and no more; TLC evaluates each
assumption on the run's inputs. The inductive invariants were checked by TLC while the
proofs were made; the runs keep what follows from them.

- **Merkle.** `InclusionProofsAreSound` and `InclusionProofsVerify` are about the
  recursive functions of `merkle.py` themselves. The library's induction rules take
  an operator, which no installed prover instantiates, so induction is over sets:
  a subset of Nat that holds n whenever it holds everything below n is Nat
  (`NatStrong`). `Recursion` shows in the same way that a definition has the function
  it defines, put together from approximations, and so its defining equation.
  Soundness goes down the tree: the root of a subtree is equal to the log's only if both
  halves are, and so on to the leaf.
- **Consistency proofs.** The verifier works on positions, the prover on ranges. The
  bridge is the powers of two, defined as the least set that has 1 and is closed under
  doubling (`Pow2`; the prover does not know exponentiation), with induction over them
  (`Pow2Least`), divisibility, and the one odd part of a number (`OddPart`).
  `largest_pow2_below` and `IsPow2` are shown to be what they say (`PowSplits`,
  `IsPow2Is`), and the two shifting loops to stop at the nodes `LeftEdge` and `RightEdge`
  describe. For `ConsistencyProofsAreSound` the invariant of the loop over the proof is
  `SoundAt`: fn and sn are the indices, at one level of the two trees, of the nodes over
  the last old and the last new entry, and if the rebuilt digests are those nodes then the
  entries from there on agree; at the end fn is 0, so all do. No proof is excluded: a
  digest need not be of any tree. `ConsistencyProofsVerify` goes down the recursion of
  `_subproof`: a call over a range leaves a proof with which the loop ends at the node
  over that range in both trees (`Retraced`), a call to the left because its node is a
  left child (`RetracedLeft`), one to the right because the second loop climbs to the
  right child with the same leaves (`RetracedRight`).
- **Reader.** `ReaderInv` says that the trusted head is that of the history behind it.
  `ReaderHonestProofsVerify` is then completeness of both proofs; `ReaderImplementsLogView`
  is soundness, step by step: `AdvanceHead` is `Extend`, `AcceptEntry` is `Accept` at the
  index after the entry's, and what the operator does is a stutter.
- **Fold.** Soundness alone is not inductive, since it speaks of the end. `FoldInv` adds
  that the suspended activations form a chain from the whole tree to the current subtree
  (`Linked`), each about the range of the log that holds the index (`Covers`); that as
  many siblings are left as the current subtree is deep; and that the digest returned so
  far equals the log's own subtree only if the leaf is the log's (`ReturnsSound`).
  `Return` is the interesting step: equal nodes have equal halves.
- **Receipts.** Assumed: proofs are a sequence, and nobody signed None. `CallInv`
  states at each step what has been established: after `Decode` every proof decodes;
  in the loop no earlier candidate verified, and the diagnostic is the first that
  rebuilt a root; at `Claims` the root has been verified.
- **Bundle checks.** `ChecksInv` says that every stage that is over shows what its
  function computes of the bundle. `WalkIsExact` is about the loop of `annotateRecords`,
  which stops at the first id it has seen: such a walk over a finite set of ids ends at
  an altered record exactly when one is an ancestor, where ancestors are the smallest set
  closed under parents. One direction is by minimality, the other by the number of ids
  not yet seen. `GreenIsGenuine` needs the records of the range in the order of the
  bundle, and that ids differ where the library's own check has passed.
- **Bundle page.** `SoloInv` adds to the three properties that without overlap only the
  newest load may be under way and every panel it has passed shows it.
  (When loads overlap the panels need not agree, and only `WitnessIsFresh`,
  `HashIsCurrent` and `Settles` remain.) `WitnessIsFresh` is inductive with the types because a load's last segment starts
  a check of whatever is current.
- **Service.** `BurstBound` says nothing of the windows the gate keeps, and is not
  inductive. `GateInv` ties every admission to its window: admitted within it, the
  windows a whole length apart, the current one's admissions equal to its count up to
  the limit. Three admissions within one length then lie in at most two windows
  (`TwoWindows`), each of which admitted at most the limit. `RefusedOnlyWhenFull`
  follows from the same invariant and from no other step answering 429. For the answers
  `RequestInv` says of every request where its coroutine can be and, once it has
  answered, by which branch (`Served`); the three properties are read off the branches.
- **Mountain ranges.** The arithmetic of `cll.py` climbs and descends on positions; what
  it finds are mountains. A mountain is its root's position, its height h and its first
  leaf f, where f is a multiple of `TwoTo[h]` (`Aligned`): it is the part of an endless tree
  that append-only growth fills from the left, and its root's position is
  `PosOf(f, h)`, the number of nodes over the leaves before it plus those of itself. A
  history's mountains are a `Ridge`: they abut, they fall in height, and together they
  cover it; appending a leaf and merging (`Standing`, `Merging`) keeps that. From there
  each function is shown to find what its name says of every size and position: `height_at`
  the height of the position, `peaks` the roots of the ridge (`PeaksAre`), `locate_path`
  the turns from a node up to the mountain it is in (`PathAt`), `leaf_count` the length
  (`LeafCountIs`). The definitions are recursive functions of pairs and triples, so each
  first gets its equation, by `Recursion` over a rank for its kind of call (`Turn`,
  `Rank`).
- **Soundness of the local log.** Given the positions, soundness needs no more of the
  prover of a proof than `merkle.py`'s did: equal roots are equal bags, equal bags of as
  many peaks are the same peaks, and a digest that a path folds into the peak of a mountain
  is the node at the position it started from (`HashesUp`, `NodeThere`). For
  `MmrInclusionProofsAreSound` that node is the leaf; for `MmrConsistencyProofsAreSound` it
  is every old peak, and a peak tells all the leaves under it (`NodeTells`). Both are
  about any proof whatever; of an inclusion proof only that its peaks are lists.
- **Ranges.** `verify_range` has no path to fold: it walks down every mountain, takes what
  lies outside the range from the witness and hashes the rest. The walk is a function of
  the place in the tree and of the cursor into the witness, which has to stay a number
  before the walk can be unfolded (`CursorIs`). A walk that ends at a node of the log has
  found the log's entries at every place of the range (`WalkSound`). The size, though, is
  the proof's own. `PeaksTell` shows that only the sizes of logs have peaks, and
  `BagTells` that the rebuilt peaks and the log's are as many and the same, for what ends
  a bag is tagged as a leaf or a node and never as a bag. With two records or more some
  mountain that reaches into the range is a node, whose hash names its position, so that it
  ends where the log's does (`SameEnd`) and the size is the log's. A single record may be a
  mountain of its own, and its hash names no position: all that follows is that it is the
  log's last one. This is how
  `MmrRangeProofsAreSound` comes to conclude `to_seq = Len(l)` for two records or more
  only, and why `RangeIsOfTheCheckpoint` is violated.
- **Reader of checkpoints.** `ReaderInv` adds to `WitnessedLeafWasRegistered` that the held
  and every registered checkpoint are of the log's own name and over the history recorded
  with them. A receipt is for a registered checkpoint with the held one's digest; the
  digest has the root, the root tells the history (`CheckpointTells`), and the leaf is in
  the held history by soundness. `RangeInv` says the same of the range, of the history as
  it was when the range was accepted; a longer history keeps it (`TipKept`).
  `MmrLogImplementsLogView` goes as for `MerkleLog`.
- **Witness evidence.** `witness.js` has a receipt verifier of its own. It is shown to
  rebuild what `root_from_inclusion_proof` rebuilds for sizes that are safe integers
  (`ReceiptRootIs`) and nothing beyond (`ReceiptRootIsBounded`), so that theorems about
  `merkle.py` hold of it too: a receipt the witness made passes, by `InclusionProofsVerify`,
  and a passing one is of an entry the witness has. For the latter soundness at the log's
  own size is not enough, since a receipt may claim another: `InclusionProofsAreOfEntries`
  goes down the claimed tree and the log's together, which may part in shape but not in
  digests, until the path ends at a leaf of the log. `Inv` adds that the logs are around the entry whose
  receipts are read, and what each stage has set of the result (`ResultSoFar`), which is
  what `FailureIsNamed` lacks to be inductive. `WitnessedMeansHeld` speaks of the end and of
  evidence that three steps took up, so `ChainSoFar` says what each of them established: a
  checkpoint that verifies is over its history and sealed by the key it names (`Verified`;
  a deviation that changes the history's root is refused, `VerifiedIs`), the earlier
  checkpoint's history is a beginning of the bundle's by soundness of `verify_consistency`,
  and the cadence log has the entry over the leaf by soundness of `verify_inclusion`.
- **Capsule page.** Four invariants, since the properties share little: `LoadInv`;
  `GatedInv`, by which the item the answer waits for is the fragment's own until the
  reader does something; `EarnedInv`, by which every ritual under way was started with a
  witness that fragment or answer justify, so that it does not matter which ends last;
  `RowsInv`, by which not only the rows shown but those of every rendering under way are
  of their digests, and only terms that are there are hashed. What a rendering's rows are
  comes from the renderer's proofs (`RenderedRows`), whose operators are shown to be the
  page's (`SameRendering`); a late hash then marks a row whose digest it was compared with.
- **Renderer.** `Inv` says that each function's result stays what the function computes
  of the link. Most of the work is in the operators: the ancestor walk as above;
  `ExtractReads`, by induction over the references of a capsule, that every disclosed
  payload of a digest named once gets its row in the privilege log, matched against the
  payload's own digest. For `ViewsMatch` the two readings of an item go in step
  (`Alike`): the same node ids, the library's edges among the page's, every edge between
  nodes, and the rows paired. Equal starts are alike (`PythonStarts`, `PageStarts`), one
  reference keeps views alike (`ReadAlike`), and so do all of a capsule's
  (`ExtractAlike`), although the library draws an edge twice that the page draws once.

Only model-checked: the liveness properties (`PortsAgree` and `FoldIsTheOperator` among
them), which are beyond the prover; and `MmrJs`, whose
`PositionsAreTheLogs` would need the loops of the page tied to the functions of `cll.py`,
and whose `OnlyTheMintedProofPasses` is stronger than soundness: it says that no edit of a
minted proof passes, of a fixed list of edits. Completeness of the local log's proofs (an
honest one verifies) is checked by `MmrJs` and not proved.

## 5. Plan

1. Completeness of the local log's proofs, and the loops of the page's `mmr.js` tied to
   the functions of `cll.py`.
2. `ReceiptLog`: `build_receipt` on a growing log composed with `ReceiptVerify`.
3. Statements and attached receipts; the encoding rule over abstract items.

Not modelled: the command line, the vector runner and generators, printing and page
layout, vendored code, demo and CI scripts, which keep no state that a check reads;
octet-level CBOR and the cryptographic primitives, which are symbolic throughout.
