# Warden in TLA+

Warden sits between AI agents and the tools they use. Every tool call goes through a
gateway that checks the agent's credential, the tool's reviewed manifest and a policy,
asks a second person where the policy says so, and writes signed, hash-chained receipts
of what was decided, approved and done. This directory models the parts of that program
whose correctness depends on order: concurrent requests, failed writes, restarts,
several processes over one database.

## The system and its parts

| Part (source) | State it keeps | Operations | What makes it correct |
|---|---|---|---|
| Gateway (`internal/gateway`) | held calls and taint in memory, under `mu`; receipts in order, under `receiptMu` | `Call`, `Approve`, `Resume`, `execute` | no receipt, no action; one run per call at a time; taint reaches every later decision; withheld if not recorded |
| Approval statements (`internal/approval`) | none | `Sign`, `Verify`, `Accept` | an approval is a trusted other person's signature over this very call, and fresh |
| Receipt store (`internal/store`, `internal/chain/chain.go`) | SQLite tables receipts, meta, statements, openings; an appender in memory | `Open`, `Append`, `Rotate`, `SaveStatement`, `SaveOpening`, `Export` | one linked chain, in time order, one signing key at a time, across failures and processes |
| Verifier rules (`internal/chain/verify.go`, `internal/receipt`) | what it has read so far | `VerifyAll` | what the gateway writes passes; what somebody changes does not |
| Key rotation (`cmd/warden/rotate.go`, `internal/keyfile`) | key files, `keys.json`, `warden.json` | `rotate-key`, `revoke-key` | the signing key is never lost; a key id names one key; local trust follows the log |
| Checkpointer and anchors (`cmd/warden/serve.go`, `internal/checkpoint`, `internal/anchor/s3`) | last anchored size, pending checkpoint, backoff | tick, publish, read back | anchored sizes grow; every checkpoint is of the log; a retry is not a fork |
| Merkle tree (`internal/merkle`) | none | root, inclusion path, check | a root binds its leaves; a path verifies exactly for the leaf it was made for |
| Log verifier (`cmd/warden-verify`) | what it learned in a first pass | read anchors, merge, match revocations, verify | no false alarm on an untouched log; what it calls checkpointed was signed first; the exposure is exact |
| Revocation and key resolution (`internal/revocation`, `internal/keys`) | published statements; keys learned from handovers | publish, read, match; accept | a revoked key keeps what it signed up to the checkpoint believed good, and nothing else |
| Approver API and its clients (`internal/approverapi`, `warden approve`, console) | nonces, held calls | list, check, sign, submit | a request counts once; an approval is about the call that was shown, and lapses |
| Registry, broker, upstream, agent endpoint | pins, bindings, sessions, exposed tools | pin, load, connect, expose, call, scrub | a tool runs as described, with exactly its credentials, and does not hand them to the agent |
| Identity, policy, argument schemas, inspection | policy, certificates | check, decide | they feed the gateway; here: free choices with the right range |
| Canonical JSON, commitments, composite signatures, configuration, demo, gate | none | | taken as given or not part of the running system |

How they meet: the agent endpoint calls `Gateway.Call` and `Resume` from one goroutine per
request; the approver API and the console call `Approve`. All three append through one
`Store`, whose appender holds the chain's position in memory. The checkpointer reads the
same store once a second. `warden rotate-key` is another process that opens the same
database. The verifier sees only the exported log, the anchors and the trust file.

What is hard: requests that interleave between the critical sections; a write that fails
after a side effect, or that took effect and reported an error; restarts that lose memory
and not the log; a clock that jumps; two processes with one database and stale
appenders; a multi-step command that stops half way. `PROJECT.json` lists these hazards at
the lines where they bite, each with the properties that watch it.

## Modules

**ReceiptRules** holds the receipts and the verifier's rules as predicates over a log: a
sequence whose position p is the receipt with `seq` p - 1.

**Gateway** (extends ReceiptRules) models `gateway.go`. A worker is a request goroutine;
`req[w]` holds its local variables, and its program counter names the next step.

| Action | Code |
|---|---|
| `CallBegin`, `Decide`, `RecordDecision`, `Hold` | `Call`: credential, manifest and arguments; `taintOf` and the decision; the write-ahead receipt; the map of held calls |
| `Approve` | `Approve`, one step, as it holds both locks throughout |
| `ResumeBegin`, `ResumeAdmit` | `Resume`: the clock and the credential before the lock; the checks and the `running` mark under it |
| `Prepare`, `Invoke`, `RecordResult`, `AddTaint` | `execute`: credential and manifest again; the tool; the result receipt; `addTaint` |
| `Return` | the end of `Call` or `Resume`, where the held call is deleted or becomes resumable again |
| `Restart`, `SetClock` | a new process over the same database; the wall clock, which may be stepped back |

The store appears here as `AppendOK` and `AppendError`. An append that reports an error has
written nothing, or has written the row although the answer was lost (the request's
context ended). In the second case the appender is one row behind (`behind`) and the
primary key refuses everything it offers until a restart. ReceiptStore derives exactly this
behaviour from the appender and the table.

**GatewayProperties** states the properties, **CallLifecycle** is the abstract life of a
call (free, denied, waiting, rejected, cleared, done) and `LifeOfCalls` the refinement.
**GatewayInvariant** is the inductive invariant, **GatewayProofs** the proofs of the properties and
of the refinement. The other proofs are in **RotationProofs** (of ReceiptStore and KeyRotation),
**CheckpointerProofs**, **AuditProofs**, **LogRulesProofs**, **ApproversProofs** and
**ToolAccessProofs**, each with its inductive invariant. **VerifierProofs** holds what AuditProofs and
LogRulesProofs share: induction, and what one pass of `VerifyAll` establishes.

**ReceiptStore** models `store.go` and `chain.go`: the receipts table by sequence number,
`current_kid`, and for every process that has the database open an appender (key, next
sequence number, last digest, last time) that is only read from the database on `Open`.
**SignedChain** is what an auditor is promised: one growing chain, one signer at a time,
handed over by itself. `OneSigner` says that the store implements it.

**KeyRotation** (extends ReceiptStore) is `warden rotate-key` beside `warden serve`: each
file write is a step that can fail or be the last one before a crash. `Repair` stands for
the operator who completes a half-done rotation by hand, as the error messages of the
command ask.

**Checkpointer** is the checkpoint loop of `warden serve` with its two anchors. A pass of the
loop reads the size of the log (`Tick`), exports and signs it and writes the line (`Write`),
syncs it (`Sync`), and offers the newest checkpoint to the object store (`Published`, or
`Skip` while it waits). `Grow` is a receipt that a request appends meanwhile. The file can
fail with nothing, a part of the line or all of it in the file (`WriteFailed`,
`SyncFailed`), a request to the store can fail and arrive all the same (`PublishFailed`,
`Arrive`), the server can be killed at any point (`Kill`) and the machine can go down (`Crash`).
A kill leaves the file as it was written; the variable `disk` holds every content a machine
that goes down may leave of it, all that was written since the last sync or any prefix of it,
and `Crash` picks one, also long after the kill. `Start` reads the file back as
`newCheckpointer` does, refuses a file that `ReadVerified` refuses, and offers the last line to
the store without syncing it; `readBack` notes such lines and `lost` those that reached the
store, or may, and went with the machine. That a file just created is found again after its
sync is taken for granted, though Warden does not sync the directory.

**Verifier** has no state: it is `VerifyAll` with what it remembers from line to line, the key
table that handovers extend, the two anchors and how they are read and merged, revocations,
and `warden-verify` and the console as functions of their inputs. A digest is a name, a Merkle
root the sequence of its leaves (which `RootBindsHolds` justifies). The loop of `VerifyAll` is a
recursive function of the number of lines read (`Pass`), so that it can be proved about.

**Audit** (extends Verifier) is the world around it: Warden appends, changes keys, publishes
checkpoints and stores them, the operator revokes and exports, and somebody else may hold
signing keys, change the exported copy and the anchor file, and write to the object store
with its versions, delete markers and locks. An auditor may look at any time: the
properties are about what the verifier says then. Warden's own steps commute with what
is done to a copy, so they come first (`Undisturbed`).

**Merkle** is `merkle.go` on terms; its recursion goes over slices of the leaves. **LogRules**
(extends Verifier, Merkle) enumerates logs and lists of leaves and compares the algorithms with
definitions that say the same in another way: above all `VerifyAll` with the predicates of
ReceiptRules, so that `LogVerifies`, proved of the gateway, is about what the verifier does.

**Approvers** is the approver API with concurrent handlers, its client, `warden approve` and the
console's button, where anybody may send a signed request or statement late or again.
`Receive` and `Authenticate` are the two halves of `authenticate`, before and under the lock.

**ToolAccess** ties pins, credentials, sessions and the exposed tools together: every
configuration from a set of bindings, secrets and manifests that change between any two
steps of a call, and servers that echo what they were given.

MCGateway, MCRotation, MCCheckpointer, MCAudit, MCRules, MCApprovers and MCToolAccess
instantiate these for TLC. Definitions named with a suffix (`Accept_Once`) are the same step
with a plausible mistake. No specification uses them; they serve to check that each property
notices a mistake.

## Runs

| Run | Instance | Shows |
|---|---|---|
| `approval` | 2 requests, 1 tool needing approval, 2 people (one is the principal), clock 0..1, 3 receipts, fairness | `NoReceiptNoAction`, `LogVerifies`, `OneRunner`, `RunningEnds` |
| `taint` | 2 requests, 2 agents on one task, 2 tools, 1 label, changing and unreachable manifests, 3 receipts | `TypeOK`, `ApprovalsBacked`, `DeliveredIsRecorded`, `DecidedWithTaint`, `RecordedResultEndsCall`, `LifeOfCalls` (Gateway implements CallLifecycle), and `IInv`, the invariant of the proofs |
| `rotation` | 3 processes, 3 keys, 3 sequence numbers, 4 signed lines, 4 commands, trust file readable or not | `TypeOK`, `KeyOnHand`, `KidsNamedOnce`, `TrustFollows`, `Linked`, `CurrentIsSigner`, `OneSigner` (the store implements SignedChain) |
| `checkpoint` | 2 receipts, a checkpoint every 2 receipts or 2 passes, wait capped at 3 passes, 3 starts, 2 failures of the file, clock standing still, fairness | `TypeOK`, `NoFalseFork`, `AnchorsAgree`, `ReceiptsCovered`, `CheckpointsStored` |
| `audit` | 2 keys, 3 receipts, 2 revocations, 2 changes to copy and anchor file (1 with both revocations); or 1 key, 2 receipts, clock 0..1, retention 1, 3 changes, one each to copy, file and store | `NoFalseAlarm`, `CheckpointedIsGenuine`, `LeakContained`, `ExposureExact`, `ConsoleAgrees`, `PrintedCommand`, `StoreBinds` |
| `rules` | logs of up to 4 receipts, up to 6 leaves of 2 values | `RulesAgree`, `GapsListed`, `RootBinds`, `PathsExact` |
| `approvers` | 1 approver, clock a skew ahead or behind, 1 call, 2 argument values, 2 handlers, 2 list requests, times 0..3 | `ListedOnce`, `ShownIsRecorded`, `AuthorityLapses` |
| `console` | as `approvers`, clocks equal, 1 handler, times 0..1 | violates `SignsTheCallTheySaw` |
| `tools` | an HTTP server with 2 tools and a stdio server with 1, every configuration of up to 2 of 6 bindings, 2 versions of a secret, one secret changed or missing at a time, 2 manifests | `CredentialsExact`, `EchoRemoved`, `RunsAsShown` |
| `anchor_order` | as `checkpoint`, no failure of the file | violates `OrderMeansTampering` |
| `expiry` | as `approval`, clock 0..2 | violates `ResultsInTime` |
| `single_use` | as `approval` | violates `ApprovalSingleUse` |

Why the bounds are enough. A call that needs approval takes three receipts (decision,
approval, result); with two decisions among the three, a second call gets in between. Two
requests suffice to race for one call, because every step of a request touches one decision. Two times tell before from after an expiry. Three sequence
numbers give a row before the handover, the handover and a row after it, and exhaust the
chain. Two rotations and two starts of a server fit in four commands.
Two receipts make two checkpoints and, with `Every` at 2, one that only the interval brings.
Three starts are one that is killed between two writes, one that reads back what it left and
offers it, and one after the machine went down; two failures of the file leave a line that is
torn and one that is not synced. The cap on the wait lies below the next doubling, so that it
bites. Failures of the store are not bounded. The clock stands still in `checkpoint`:
`anchor_order` is the run in which it moves. In `audit` three receipts hold a handover between
two others, two revocations cover both keys, and two changes are enough to cut or rewrite the
copy and to match the anchor file to it (one with both revocations, to keep the run short);
with the store, one change each rewrites the copy, the file and the store together, and two
times lie before and after the end of a lock. MCAudit's `Affordable` is a bound, not an
assumption: a behaviour either uses the store, over one key and time that passes, or changes,
leaks and revokes keys while the clock stands still; both together are too many states for TLC
and are left to the theorems, which have no such bound. Six leaves make trees with one and with
two levels that have no sibling. Two list requests make one console approval, or a second
request whose handler purges the nonce of the first; with times 0..3 a nonce of time -1 or 0 is
forgotten within the run. Two bindings suffice to overlap or to ride on one call, and
`OneSecretChanged` (MCToolAccess) keeps all secrets but one at their first version. `MaxTime`,
`MaxLog`, `MaxStatements`, `MaxLines`, `MaxRows`, `MaxStarts`, `MaxFaults`, `MaxRevs`,
`MaxDeeds`, `MaxLeaves`, `MaxCalls`, `MaxLists`, `MaxBindings` and `MaxVersion` are the only
bounds; `MaxLog` of Gateway and `MaxSeq` are also the real limit of the code
(`receipt.MaxSeq`), made small.
Requests, processes and the keys other than the first are symmetric.

`rotation`, `audit` and `rules` do not check for deadlock: all commands may have
ended, and logs and copies are finite.

### What the properties assume

- `ListedOnce`: no handler waits longer than the clock skew (`MaxDelay <= Skew`, a minute in the
  code) between reading the clock and holding the lock, Warden's clock does not go back, and
  the process is the same: after a restart within the window a request is answered again.
- `ShownIsRecorded` is about `warden approve`, whatever the server shows. Of the console it is
  false, and `console` shows it.
- `NoFalseAlarm` asks that the export is no older than the checkpoints it is compared with, that
  no receipt in it is of a key revoked before, and that what is in the store is still locked.
- `ConsoleAgrees` and `PrintedCommand` say what is said before the first checkpoint too, when the
  anchor file does not exist (`Exists`): the console takes a missing file for no checkpoint and
  the log verifies; `warden-verify` and the printed command, given its name, end with an error of
  use.
- `DecidedWithTaint` is about the labels delivered before a decision reads the taint. What is
  delivered between that read and the decision receipt is not seen by the decision
  (`gateway.go:264`), and no property says otherwise.
- `RunsAsShown`: the server may still change what the tool does between the second look at its
  manifest and the call, and without changing what it says of it; Warden cannot see that.
- `CheckpointedIsGenuine`, `LeakContained` and `ExposureExact` are about an anchor file as Warden
  wrote it; `StoreBinds` is about one that anybody wrote, as long as the lock holds.
- `NoFalseFork` and `AnchorsAgree` exempt one case, exactly: a checkpoint whose line was written
  and not synced when its server was killed, that the next start read back and offered to the
  store, and that the machine then lost (`lost`). Warden signs another of its size and reports
  its own checkpoint as a fork, as `serve.go` offers what it read back without syncing it. Without
  the exemption TLC finds this in `checkpoint`.
- `EchoRemoved` is about values that went out with the call and, for stdio servers, that are
  still what the secret resolves to.

### What the code does and its documents deny

- `expiry`: an approval that expires while its call runs makes the gateway write a result
  that ADR-0009's rule 5 forbids, so that `warden-verify` refuses Warden's own log.
- `single_use`: an approved call whose result could not be stored is resumable, and its
  tool runs twice under one approval.
- `console`: the console's button lists the pending calls again and signs the row of that list
  (`cmd/warden/console.go:439`), so an approver can sign a call they did not see, which
  `internal/approverapi/approverapi.go:10` denies.
- `anchor_order`: a clock stepped back between two checkpoints gives an anchor file that
  `warden serve` takes for tampered with and does not start over.

Met while modelling, without a run of their own:

- An approved call without a result is not among the open decisions of the report, which
  lists `allow` decisions only (`internal/chain/verify.go:385`). ADR-0004 line 19 calls every
  decision without a result detectable and says that it raises an alert; `docs/design.md:312`
  documents the report as it is. `GapsListed` says exactly which are missed: the calls that a
  person approved, all of them, and no other.
- `rotate-key` succeeds while a server runs, where `docs/not-done.md:67` says that it refuses.
  The log stays sound (`OneSigner`); the server can record nothing more until a restart.
- The first key id can be used again when the trust file cannot be read
  (`cmd/warden/rotate.go:105`); `KidsNamedOnce` is about the keys that were rotated in.
- The command that `warden export` prints has no `--root`, so it refuses every log with a
  handover (`PrintedCommand` says exactly when it works); what `revoke-key` prints lacks it too.
- Before the first checkpoint the console says of a log that it verifies
  (`cmd/warden/console.go:337`), while the command that `warden export` prints names the anchor
  file that does not exist yet (`cmd/warden/admin.go:395`) and exits 2
  (`cmd/warden-verify/main.go:215`). `ConsoleAgrees` and `PrintedCommand` state both.
- A tool server that never answers keeps a resumed call marked as running for as long as the
  agent waits: neither the HTTP client (`internal/upstream/upstream.go:85`) nor the call
  (`:186`) nor the server (`cmd/warden/serve.go:157`) has a limit.
- `pin --write` lists the tools again and pins what it gets then, which need not be what was
  reviewed (`internal/registry/registry.go:185`).
- A stdio server gets its secrets when Warden starts it, so a rotated secret does not take effect
  there without a restart (`internal/broker/broker.go:115` says it does), and an old value it
  remembers is not scrubbed.

## Fairness

`approval` assumes weak fairness of `OwnStep(w)` for each request: what a goroutine does by itself
or with the local database it does in the end, with an error if need be. The Go scheduler and a
local SQLite file justify it. Nothing is assumed of the tool server: Warden puts no limit on a
call to it, so `Prepare` and `Invoke` may never happen, and `RunningEnds` says that a resumed call
stays marked as running for no longer than the tool server is waited for (`Outside`). Nothing is
assumed of agents, approvers, the clock or restarts either.

`checkpoint` assumes that the loop ticks and goes through its pass while the server runs
(weak fairness of `Tick(FALSE)`, `Skip`, `Write`, `Sync`: a ticker and local disk writes),
that a server that stopped is started again (`Start`; the last start is followed by no
kill), and that an object store that is tried again and again answers at some time (strong
fairness of `Published`, as failures come in between). The other runs assume nothing.

## Proofs

A theorem holds for every value of the constants that satisfies the named assumptions of the
module it is about: any number of requests, processes, keys, receipts, tools and any
clock. The assumptions give types, say that the values for "none" are not members of the sets
they stand beside and that the first key is one of the keys, and, for the approver API, that a
handler waits no longer than the clock skew (`MaxDelay \in 0..Skew`). TLC evaluates them in
every run of their module. Each inductive invariant was checked with TLC as well, on the instance of
its run; `IInv` is an invariant of `taint`.

| Module | Theorem | Statement |
|---|---|---|
| GatewayProofs | `Invariance` | `Spec => []IInv` |
| | `TypeCorrectness` | `Spec => []TypeOK` |
| | `NoActionWithoutReceipt` | `Spec => []NoReceiptNoAction` |
| | `LogAlwaysVerifies` | `Spec => []LogVerifies` |
| | `ApprovalsAlwaysBacked` | `Spec => []ApprovalsBacked` |
| | `DeliveriesRecorded` | `Spec => []DeliveredIsRecorded` |
| | `OneRunnerAtATime` | `Spec => []OneRunner` |
| | `TaintReachesDecisions` | `Spec => DecidedWithTaint` |
| | `RecordedCallsAreOver` | `Spec => RecordedResultEndsCall` |
| | `GatewayLifeOfCalls` | `Spec => LifeOfCalls`: Gateway implements CallLifecycle |
| RotationProofs | `StoreLinked` | `StoreSpec => [](StoreInv /\ Linked /\ CurrentIsSigner)` |
| | `StoreOneSigner` | `StoreSpec => OneSigner`: the store implements SignedChain |
| | `RotationInvariant` | `Spec => [](RotationInv /\ TypeOK)` |
| | `RotationUsesStore` | `Spec => StoreSpec`: the commands use the store as the store means it |
| | `RotationLinked`, `RotationCurrentIsSigner`, `RotationOneSigner` | what the store promises, of the commands |
| | `RotationKeyOnHand` | `Spec => []KeyOnHand` |
| | `RotationKidsNamedOnce` | `Spec => []KidsNamedOnce` |
| | `RotationTrustFollows` | `Spec => []TrustFollows` |
| CheckpointerProofs | `CheckpointerInvariant` | `Spec => [](AnchorInv /\ TypeOK)` |
| | `CheckpointerNoFalseFork` | `Spec => []NoFalseFork` |
| | `CheckpointerAnchorsAgree` | `Spec => []AnchorsAgree` |
| ApproversProofs | `ApproversInvariant` | `Spec => [](ApproversInv /\ ApproversTypeOK)` |
| | `ApproversListedOnce` | `Spec => []ListedOnce` |
| | `ApproversShownIsRecorded` | `Spec => []ShownIsRecorded` |
| | `ApproversAuthorityLapses` | `Spec => AuthorityLapses` |
| ToolAccessProofs | `AccessInvariant` | `Spec => [](AccessInv /\ AccessTypeOK)` |
| | `AccessCredentialsExact` | `Spec => []CredentialsExact` |
| | `AccessEchoRemoved` | `Spec => []EchoRemoved` |
| | `AccessRunsAsShown` | `Spec => []RunsAsShown` |
| AuditProofs | `NoFalseAlarmHolds` | `Spec => []NoFalseAlarm` |
| | `CheckpointedIsGenuineHolds` | `Spec => []CheckpointedIsGenuine` |
| | `StoreBindsHolds` | `Spec => []StoreBinds` |
| | `LeakContainedHolds` | `Spec => []LeakContained` |
| | `ConsoleAgreesHolds` | `Spec => []ConsoleAgrees` |
| | `ExposureExactHolds` | `Spec => []ExposureExact` |
| | `PrintedCommandHolds` | `Spec => []PrintedCommand` |
| LogRulesProofs | `RulesAgreeHolds` | `Spec => []RulesAgree` |
| | `GapsListedHolds` | `Spec => []GapsListed` |
| | `RootBindsHolds` | `Spec => []RootBinds` |
| | `PathsExactHolds` | `Spec => []PathsExact` |

Every proof has one lemma per action (`...Keeps`, `...Life`, `...Inv`), a step lemma that puts them
together along `Next`, and theorems that read the property off the invariant.

### The gateway

None of the properties is inductive by itself: that a result may be written is known to the
request that writes it, not to the log. `IInv` adds what requests and memory know:

- a held call is on record as `require_approval`, and an approved one is authorized
  (`HeldOK`); unless the store is behind, memory knows every answer and every result
  (`HeldKnown`);
- a request inside `execute` has an authorized decision and, if it resumed one, holds its
  `running` mark (`ExecutorOK`); its result is not in the log before it writes it
  (`ResultOK`); no other request holds or executes the same decision (`Exclusive`);
- labels that a request carries out are those of a recorded result and already taint the
  task (`LabelsOK`, `TaintCovers`).

Once the store is behind, memory and log may disagree, but then the log does not grow any
more, so `LogVerifies` cannot be broken; a restart makes memory forget. Lemmas on growing logs
(`GrowFacts`, `GrowVerifies`, `NoApprovalNoResult`, `NothingAhead`) do the work common to the three actions that append.

The refinement reads the stage of a call off the log (`StageIs` says how). A receipt moves one
call (`StageSame`, `Moves`), and `IInv` says in which stage that call was: only there does
`ExecutorOK` matter, as `Finish` and `Run` need a cleared call.

### The receipt store and rotate-key

An appender reads the database once, when it is opened, so `Linked` depends on what handles
remember. `StoreInv` says that the sequence numbers have no gap, that an open handle is not
ahead of the table, and that one that is not behind has the current key and the digest and
time of the last row (`HandleFollows`). One that is behind names a sequence number that is taken, and
the primary key refuses its row; nothing else keeps two processes from forking the log.

`RotationInv` adds the files. A key file is created exclusively: from then to the handover its
command is the only one to hold the key id, and no row names it (`CmdHolds`, `HeldApart`). So the
clean-up of a failed command cannot remove a key that the log signs with (`NamedOnDisk`),
and no key id is brought in twice. At most the current key is missing from the trust file, and
never the configured one (`TrustLags`).

### The checkpointer

`NoFalseFork` and `AnchorsAgree` both rest on what was ever offered to the store, requests still on
their way included, and not lost since (`Standing`). No two of those checkpoints have the same
size, the running server is past all of them, and a file that can be read holds them all, in
ascending size (`FileOK`). The last part must also hold of whatever a machine that goes down may
leave of the file (`DiskOK`), but for what a start read back: a line is offered by the server
that wrote it only after the sync, when the file has one content left, and this order is what
makes the invariant inductive. A line that was lost is never signed again, as every signing is a
new one (`LostOK`), so that what stands cannot be among the lost.

### The approver API

A nonce is forgotten `2 * Skew` after its time stamp. `Consumed` says that the request is
then too late for anybody who reads the clock, and `InTime` that a handler that read it before
the lock did so at most `MaxDelay` ago; together they give `ListedOnce` with `MaxDelay <= Skew` and not
without. `SeenOK` follows what was seen from the list through the client and the statement to the
record: a statement of `warden approve` is about the call that was seen, as the client signs the
reply it checked, and calls do not change. `Allowed` ties the answer in memory to a statement that
`Accept` found in range.

### Tool access

A call relies on what `Start`, `Decide`, `Fetch` and `Recheck` established earlier. `AccessInv` says what
each of them established and that it still holds while the call runs, though secrets, pin files
and descriptions change in between (`ServeChecked`, `ShownPinned`, `CallDecided`, `CallFetched`,
`CallRechecked`, `CallReceived`). `call.since` is a history of what the server said of the tool from the
moment `execute` took the call up; `Recheck` finds the description of the decision in it.

### The verifier and the audit

What `VerifyAll` says is a recursive function of the log, so its proofs are inductions over the
lines. `Induction` (VerifierProofs) is stated for a set of numbers instead of a predicate and proved
from the well-foundedness of less-than; that the recursive functions `Pass`, `split` and `mth` are what
their equations say is proved with it first (`PassDefined`, `TreeExists`). After that a pass is
anything that satisfies `IsPass`: a fault ends it and changes nothing else (`FaultStays`), and without
one it has counted the lines, kept their digests and knows who signs next (`PassRemembers`), every
line is at its place (`PassPlaced`), keys are genuine if the root only certified genuine ones
(`PassKeys`), and a checkpoint that does not differ agrees line by line (`PassCheckpoint`).

Two comparisons of passes carry the rest. `Lockstep`: a pass that learns keys on its way and one
that has them from the start are in the same state up to their keys until the first fault, and so
have the same verdict (`SameVerdict`); this is why `warden-verify` may walk the log twice with one key
table, and why the console agrees with it. `SamePass`: the same first lines lead to the same state
whatever follows them, and whatever is revoked if it concerns none of them. An anchor file or a
file of revocations that does not exist yet and is not named leads to the same verdict and report
as an empty one (`EmptyFilesSame`, `PresentSame`), so the other proofs need not ask which files
exist; `ConsoleSame` does, as a file that is named and missing stops only the command.

`AuditInv` says where everything the auditor may be shown comes from. The log is Warden's, line j
with digest j, signed by whoever was named last (`LogInv`). A line of the copy is one of these, perhaps
with a broken signature, or was signed with a leaked key and has a digest beyond the log's
(`CopyInv`). An anchor file that nobody touched holds Warden's checkpoints in order (`FileInv`), every
revocation names one of them (`RevsInv`), and what was stored is still among the versions of
its name while the lock holds (`StoredInv`); nothing is claimed of what else is there. Then:

- `CheckpointedIsGenuine`, `StoreBinds`: a digest below the length of the log is not that of a forged
  line, so a copy that agrees with a checkpoint of Warden begins with Warden's lines.
  For the store this needs that names are read without omission (`InOrderHasAll`) and that all
  versions of a name are the same bytes (`StoreHolds`).
- `LeakContained`: a forged line is after the checkpoint its key was revoked at, and refused, or
  before it, and does not match it.
- `ExposureExact`: by `SamePass` the passes over the first n lines find no fault. The anchor file
  can still be read, because the keys it is signed with were named in lines that it covers.
- `NoFalseAlarm`, `PrintedCommand`: each line of Warden passes (`GoodPasses`) because the keys
  named before it are known (`NamedKnown`).

`RulesAgree` and `GapsListed` compare the flags the pass keeps for each decision with the positions in the
log that the rules speak of (`Book`, `Knows`); a log with at most one approval per decision is what
makes the flags sufficient (`OneApproval`). `RootBinds` is an induction over the size of a slice: the
two parts of a node have the sizes `split` gives, and terms of different shape differ.

`PathsExact` relates the recursion of the tree to the bits of the index that the check follows. A
slice of k leaves, k a power of two, that has leaves to its right is a full node: from leaf j of
node e its path leads to node e of the level (`ReachFull`). A slice on the right edge leads to the
last node of a level; its smaller part climbs past the levels where it has no sibling, as many as
the power of two between the two parts says (`RoomDivides`, `ClimbEdge`, `ReachEdge`). With node 0
this is the root, so the path of a leaf verifies. Nothing else does: where a walk is does not
depend on the hashes (`WalksAlike`), a walk that goes on at the root fails (`TooLong`), and from
the root down every hash determines the two below it (`OneVerifies`).

### Only model-checked

Liveness under fairness: `RunningEnds`, `ReceiptsCovered`, `CheckpointsStored`. The provers
have no rule for it. Every safety property of a passing run is proved.

## Not modelled

Cryptography, canonical JSON, commitments and certificates are taken to do their job: a
digest names one line, a signature is its owner's. Policy evaluation (`Cedar`), schema
validation (`Fitting`) and content inspection are functions whose results are free. Requests
for time stamps and the HTTP of the object store are left out; tokens appear only as inputs of
`warden-verify`, and no run supplies them. A failed database commit is taken to have written
nothing. Taint and held calls are lost in a restart, as in the code. Configuration parsing,
session tokens and pages of the console, and `add-approver` and `issue-task`, which write one
file each, hold no state that a property could relate. The demo, the example tools, the release
gate and the documentation checks are not part of the running system; a third of the
repository's lines is theirs.

## Plan

1. Done: gateway, receipt rules, receipt store, rotate-key, checkpointer, verifier and its
   anchors, revocation, Merkle tree, approver API, tool access.
2. Done: proofs of both refinements and of every safety property of the gateway, the store,
   rotate-key, the checkpointer, the approver API, tool access, the verifier, the audit and
   the Merkle tree.
3. Next: an audit whose copy is taken again after an alteration.
