------------------------------ MODULE Verifier ------------------------------
(***************************************************************************)
(* The log verifier: VerifyAll (internal/chain/verify.go), the keys it     *)
(* learns on its way (internal/keys/rotating.go), the anchored checkpoints *)
(* and revocations it is given (internal/checkpoint, internal/anchor/s3,   *)
(* internal/revocation), and warden-verify (cmd/warden-verify), which puts *)
(* them together.  Everything here is a function of its input; the module  *)
(* has no state.                                                           *)
(*                                                                         *)
(* A line of a log is a record: id stands for the digest of its bytes, kid *)
(* is the key id it names, key the key its signature verifies under, and r *)
(* the receipt.  Other is a key that no certificate and no trust file      *)
(* names, so a line that somebody changed without signing it again has key *)
(* Other.  The genuine key of a key id is written as the key id itself.    *)
(* The Merkle root of some lines is the sequence of their digests.  In a   *)
(* receipt dec is the position of the decision, its seq plus one.          *)
(***************************************************************************)
EXTENDS ReceiptRules, Integers, FiniteSets, FiniteSetsExt, SequencesExt, Functions

CONSTANTS
    Kid,        \* key ids
    Other,      \* a key that nobody vouches for
    Skew        \* --store-skew: how far a checkpoint may be ahead of the store

ASSUME VerifierAssumption == Other \notin Kid /\ Skew \in Nat

-----------------------------------------------------------------------------
(* Keys.  known maps the key ids trusted so far to their keys. *)

\* VerifyKeyEpoch: issued by the root, and valid at the given time.
VerifyKeyEpoch(cert, at) == cert.root /\ cert.from <= at /\ at <= cert.until

\* Faulty variant: a key id that is known already is refused.
Accept_Once(known, root, rot, at) ==
    /\ root
    /\ VerifyKeyEpoch(rot.cert, at)
    /\ rot.cert.kid = rot.to
    /\ rot.cert.key = rot.key
    /\ rot.to \notin DOMAIN known

\* Faulty variant: without the root any certificate will do.
Accept_NoRoot(known, root, rot, at) ==
    /\ VerifyKeyEpoch(rot.cert, at)
    /\ rot.cert.kid = rot.to
    /\ rot.cert.key = rot.key
    /\ rot.to \in DOMAIN known => known[rot.to] = rot.cert.key

\* Rotating.Accept: the incoming key of a rotation is certified by the root as
\* of the rotation, and does not replace another key of the same name.  Without
\* the root (StaticKeys) there is nothing to judge it by, and it is refused.
Accept(known, root, rot, at) ==
    /\ root
    /\ VerifyKeyEpoch(rot.cert, at)
    /\ rot.cert.kid = rot.to
    /\ rot.cert.key = rot.key
    /\ rot.to \in DOMAIN known => known[rot.to] = rot.cert.key

Learn(known, rot) ==
    [ k \in DOMAIN known \cup {rot.to} |-> IF k = rot.to THEN rot.cert.key ELSE known[k] ]

\* A signed statement whose key id is trusted and whose signature verifies.
SignedBy(known, s) == s.kid \in DOMAIN known /\ known[s.kid] = s.key

-----------------------------------------------------------------------------
(* VerifyAll.  What it remembers while it goes through the lines. *)

\* GenesisPrev binds the first key and its id.
Genesis(kid, key) == <<"genesis", kid, key>>

Start(known) ==
    [ fault |-> "none", n |-> 0, leaves |-> <<>>, lastTS |-> 0, signer |-> Other,
      known |-> known, rotations |-> <<>>, decisions |-> [d \in {} |-> 0] ]

\* Each of the following names the first check that fails.
ApprovalFault(st, r) ==
    LET d == st.decisions[r.dec] IN
    IF      r.dec \notin DOMAIN st.decisions           THEN "bad_reference"
    ELSE IF d.r.verdict # "require_approval"           THEN "bad_reference"
    ELSE IF ~SameCall(d.r, r)                          THEN "bad_reference"
    ELSE IF d.approval # {}                            THEN "duplicate_approval"
    ELSE IF d.resulted                                 THEN "bad_reference"
    ELSE IF r.approver = PrincipalOf[d.r.ident]        THEN "self_approval"
    ELSE                                                    "none"

\* Faulty variant: an approval counts whatever it says.
ResultFault_AnyAnswer(st, r) ==
    LET d     == st.decisions[r.dec]
        asked == d.r.verdict = "require_approval"
    IN
    IF      r.dec \notin DOMAIN st.decisions           THEN "bad_reference"
    ELSE IF ~SameCall(d.r, r)                          THEN "bad_reference"
    ELSE IF d.resulted                                 THEN "duplicate_result"
    ELSE IF d.r.verdict = "deny"                       THEN "denied_call_executed"
    ELSE IF asked /\ d.approval = {}                   THEN "missing_approval"
    ELSE IF asked /\ \E a \in d.approval : r.ts > a.expires
                                                       THEN "approval_expired"
    ELSE                                                    "none"

ResultFault(st, r) ==
    LET d     == st.decisions[r.dec]
        asked == d.r.verdict = "require_approval"
    IN
    IF      r.dec \notin DOMAIN st.decisions           THEN "bad_reference"
    ELSE IF ~SameCall(d.r, r)                          THEN "bad_reference"
    ELSE IF d.resulted                                 THEN "duplicate_result"
    ELSE IF d.r.verdict = "deny"                       THEN "denied_call_executed"
    ELSE IF asked /\ d.approval = {}                   THEN "missing_approval"
    ELSE IF asked /\ \E a \in d.approval : a.verdict # "approved"
                                                       THEN "rejected_call_executed"
    ELSE IF asked /\ \E a \in d.approval : r.ts > a.expires
                                                       THEN "approval_expired"
    ELSE                                                    "none"

RotationFault(st, l, root) ==
    IF      l.r.from # l.kid                           THEN "bad_rotation"
    ELSE IF ~Accept(st.known, root, l.r, l.r.ts)       THEN "uncertified_key"
    ELSE                                                    "none"

TypeFault(st, l, root) ==
    CASE l.r.type = "decision"     -> "none"
      [] l.r.type = "approval"     -> ApprovalFault(st, l.r)
      [] l.r.type = "result"       -> ResultFault(st, l.r)
      [] l.r.type = "key_rotation" -> RotationFault(st, l, root)

\* Faulty variant: a revoked key may still sign the first line after the
\* checkpoint.
Withdrawn_Late(revs, kid, n) == \E v \in revs : v.kid = kid /\ n > v.size

\* A revoked key keeps what the checkpoint covers and signs nothing after it.
Withdrawn(revs, kid, n) == \E v \in revs : v.kid = kid /\ n >= v.size

\* Receipt.Validate, as far as fields depend on each other; a line whose fields
\* are not well formed by themselves is malformed.
Validate(seq, r) ==
    CASE r.type = "decision"     -> TRUE
      [] r.type = "approval"     -> r.dec \in 1..seq /\ r.expires > r.ts
      [] r.type = "result"       -> r.dec \in 1..seq
      [] r.type = "key_rotation" -> r.from # r.to

\* The checks that every line passes before its type is looked at.
LineFault(st, l, revs) ==
    LET prev == IF st.n = 0 THEN Genesis(l.kid, l.key) ELSE st.leaves[st.n] IN
    IF      l.form = "malformed"                       THEN "malformed"
    ELSE IF l.kid \notin DOMAIN st.known               THEN "unknown_key"
    ELSE IF ~SignedBy(st.known, l)                     THEN "bad_signature"
    ELSE IF ~Validate(l.seq, l.r)                      THEN "invalid_receipt"
    ELSE IF l.form = "foreign"                         THEN "wrong_chain"
    ELSE IF l.seq # st.n                               THEN "seq_gap"
    ELSE IF l.prev # prev                              THEN "chain_break"
    ELSE IF l.r.ts < st.lastTS                         THEN "time_regression"
    ELSE IF st.n > 0 /\ l.kid # st.signer              THEN "wrong_key"
    ELSE IF Withdrawn(revs, l.kid, st.n)               THEN "revoked_key"
    ELSE                                                    "none"

\* The decisions after a line: a new one, one that was answered, or one that
\* has its result.
Decided(st, r) ==
    CASE r.type = "decision" ->
           [ d \in DOMAIN st.decisions \cup {st.n + 1} |->
               IF d = st.n + 1 THEN [r |-> r, resulted |-> FALSE, approval |-> {}]
                               ELSE st.decisions[d] ]
      [] r.type = "approval" -> [st.decisions EXCEPT ![r.dec].approval = {r}]
      [] r.type = "result"   -> [st.decisions EXCEPT ![r.dec].resulted = TRUE]
      [] OTHER               -> st.decisions

OrElse(fault, next) == IF fault # "none" THEN fault ELSE next

\* What is remembered after a line that was found to have this fault, or none.
After(st, l, fault) ==
    LET turns == l.r.type = "key_rotation" IN
    IF fault # "none" THEN [st EXCEPT !.fault = fault]
    ELSE [ fault |-> "none", n |-> st.n + 1, leaves |-> Append(st.leaves, l.id),
           lastTS    |-> l.r.ts,
           signer    |-> IF turns THEN l.r.to ELSE l.kid,
           known     |-> IF turns THEN Learn(st.known, l.r) ELSE st.known,
           rotations |-> IF turns THEN Append(st.rotations, <<l.r.from, l.r.to>>)
                                  ELSE st.rotations,
           decisions |-> Decided(st, l.r) ]

\* One pass of the loop; a log is not read on after a fault.
VerifyLine(st, l, root, revs) ==
    IF st.fault # "none" THEN st
    ELSE After(st, l, OrElse(LineFault(st, l, revs), TypeFault(st, l, root)))

\* Faulty variant: only the number of receipts is compared.
Differs_SizeOnly(st, c) == c.size > st.n

\* The log differs from a checkpoint: receipts were removed, or rewritten.
Differs(st, c) ==
    \/ c.size > st.n
    \/ c.root # SubSeq(st.leaves, 1, c.size)
    \/ c.head # st.leaves[c.size]

\* Faulty variant: the exposure starts at the first checkpoint.
Covered_First(cps) == IF cps = {} THEN 0 ELSE Min({ c.size : c \in cps })

Covered(cps) == IF cps = {} THEN 0 ELSE Max({ c.size : c \in cps })

\* Faulty variant: the results are not looked at.
Open_All(decisions) == { d \in DOMAIN decisions : decisions[d].r.verdict = "allow" }

\* The allowed calls that have no result.
Open(decisions) ==
    { d \in DOMAIN decisions : decisions[d].r.verdict = "allow" /\ ~decisions[d].resulted }

\* What is wrong with a log after its last line.
LogFault(st, cps) ==
    IF      st.fault # "none"                          THEN st.fault
    ELSE IF st.n = 0                                   THEN "empty_log"
    ELSE IF \E c \in cps : Differs(st, c)              THEN "checkpoint_mismatch"
    ELSE                                                    "none"

Report(st, cps, fault) ==
    [ verified     |-> fault = "none",
      fault        |-> fault,
      receipts     |-> st.n,
      known        |-> st.known,
      rotations    |-> st.rotations,
      checkpointed |-> Covered(cps),
      unanchored   |-> st.n - Covered(cps),
      open         |-> Open(st.decisions) ]

\* The loop of VerifyAll: what it remembers after each number of lines.
Pass(log, known, root, revs) ==
    LET st[n \in 0..Len(log)] ==
          IF n = 0 THEN Start(known) ELSE VerifyLine(st[n - 1], log[n], root, revs)
    IN st

\* VerifyAll: the lines one after the other, then the checkpoints.
VerifyAll(log, known, root, cps, revs) ==
    LET Conclude(st) == Report(st, cps, LogFault(st, cps)) IN
    Conclude(Pass(log, known, root, revs)[Len(log)])

-----------------------------------------------------------------------------
(* Anchors.  A checkpoint is as it was signed: kid, key, size, root, head, *)
(* ts.  A file anchor is a sequence of them.                               *)

\* checkpoint.ReadVerified: every signature verifies, sizes grow and times do
\* not go back.
ReadVerified(lines, known) ==
    /\ \A i \in DOMAIN lines : SignedBy(known, lines[i])
    /\ \A i \in 2..Len(lines) : /\ lines[i - 1].size < lines[i].size
                                /\ lines[i - 1].ts <= lines[i].ts

(* The object store: objects[name] is the sequence of versions of a name,  *)
(* newest last.  A name is the size of a checkpoint, or Stray.             *)

Stray == 0

\* The versions of a name that are not delete markers.
Objects(versions) == { i \in DOMAIN versions : ~versions[i].marker }

\* Faulty variant: a name whose newest version is a delete marker is left out.
Names_Visible(objects) ==
    { n \in DOMAIN objects : objects[n] # <<>> /\ ~Last(objects[n]).marker }

\* The names that hold something, whatever delete markers lie on top.
Names(objects) == { n \in DOMAIN objects : Objects(objects[n]) # {} }

\* The oldest version of a name is the anchor; the order in which the store
\* lists them breaks a tie.
Oldest(vs) ==
    vs[CHOOSE i \in Objects(vs) :
         \A j \in Objects(vs) : vs[i].at < vs[j].at \/ (vs[i].at = vs[j].at /\ i <= j)]

\* Every version is locked in compliance mode, and still is.
Locked(vs, now) == \A i \in Objects(vs) : vs[i].mode = "COMPLIANCE" /\ vs[i].until > now

SameBytes(vs) == \A i \in Objects(vs) : vs[i].line = Oldest(vs).line

\* Numbers in ascending order.
InOrder(S) ==
    [ i \in 1..Cardinality(S) |-> CHOOSE n \in S : Cardinality({ m \in S : m < n }) = i - 1 ]

\* s3.Read: a fault, and the anchored version of every name in size order.
ReadStore(objects, now) ==
    LET names == Names(objects) IN
    [ fault |-> IF      Stray \in names                                 THEN "stray"
                ELSE IF \E n \in names : ~Locked(objects[n], now)       THEN "not_locked"
                ELSE IF \E n \in names : ~SameBytes(objects[n])         THEN "rewritten"
                ELSE                                                         "none",
      found |-> [ i \in 1..Cardinality(names) |->
                    LET n == InOrder(names)[i] IN
                    [name |-> n, line |-> Oldest(objects[n]).line, at |-> Oldest(objects[n]).at] ] ]

Lines(found) == [ i \in DOMAIN found |-> found[i].line ]

\* readStore: the store's own rules, the signatures and the order, each name
\* against its contents, the claimed time against the store's, and the file.
StoreFault(read, known, file) ==
    LET found == read.found
        backdated(f) == f.line.ts > f.at + Skew
        conflict(f)  == \E j \in DOMAIN file : file[j].size = f.line.size /\ file[j] # f.line
    IN
    IF      read.fault # "none"                                   THEN read.fault
    ELSE IF ~ReadVerified(Lines(found), known)                    THEN "anchor"
    ELSE IF \E f \in Range(found) : f.line.size # f.name          THEN "name"
    ELSE IF \E f \in Range(found) : backdated(f)                  THEN "backdated"
    ELSE IF \E f \in Range(found) : conflict(f)                   THEN "conflict"
    ELSE                                                               "none"

\* merge: the checkpoints of both anchors, one per size.  Where both have one
\* they are the same.
Merge(file, stored) == Range(file) \cup Range(stored)

-----------------------------------------------------------------------------
(* Revocations: kid, size, head, whether the root signed them, and whether *)
(* they are about this chain.  One file may hold those of several chains.  *)

OfChain(revs) == { v \in revs : v.own }

\* revocation.ReadVerified: the root signed every line, also of other chains.
RevocationsSigned(revs) == \A v \in revs : v.root

\* revocation.Match: each is about an anchored checkpoint of this history.
Matched(revs, cps) ==
    \A v \in OfChain(revs) : \E c \in cps : c.size = v.size /\ c.head = v.head

(* Time stamp tokens: message is the anchored line a token is filed under, *)
(* over the data it was made for, sound whether a trusted authority did.   *)

TokenOK(t) == t.sound /\ t.over = t.message

-----------------------------------------------------------------------------
(* warden-verify.  Its arguments a: the log, the keys of the trust file,  *)
(* whether the root is given, the anchor file, the object store, the       *)
(* revocations and the time stamps, each with a flag that says whether it  *)
(* is given.  A file that is given is there, but for the anchor: exists    *)
(* says whether Warden has written one yet.                                *)

Anchored(a) == a.useFile \/ a.useStore

\* Revocations are signed by the root and take effect from an anchored
\* checkpoint; time stamps are over anchored lines.
RevocationUsage(a) == a.useRevs /\ (~a.root \/ ~Anchored(a))
TokenUsage(a) == a.useTokens /\ ~Anchored(a)

\* With the root and an anchor the log is read once just to learn the keys of its
\* rotations, as checkpoints may be signed with them.
FirstPass(a) == VerifyAll(a.log, a.trusted, TRUE, {}, {})

\* What the object store holds, if it is given.
StoreRead(a) ==
    IF a.useStore THEN ReadStore(a.objects, a.now) ELSE [fault |-> "none", found |-> <<>>]

\* How many receipts come after the newest checkpoint of the store.
StoreUnanchored(receipts, stored) ==
    receipts - (IF stored = <<>> THEN 0 ELSE Last(stored).size)

Warning(cps, useStore, stored) ==
    IF cps = {} THEN "no checkpoints"
    ELSE IF useStore /\ stored = <<>> THEN "not in the store" ELSE "none"

File(a) == IF a.useFile /\ a.exists THEN a.file ELSE <<>>
Revocations(a) == IF a.useRevs THEN a.revs ELSE {}
Checkpoints(a, read) == Merge(File(a), Lines(read.found))

\* The keys that anchors are read with: the same table goes into both passes.
Keys(a, first) == IF a.root /\ Anchored(a) THEN first.known ELSE a.trusted

LastPass(a, read, first) ==
    VerifyAll(a.log, Keys(a, first), a.root, Checkpoints(a, read), OfChain(Revocations(a)))

\* The stage that fails, in the order of the command, before the last pass.
Stage(a, read, first) ==
    LET cps  == Checkpoints(a, read)
        keys == Keys(a, first)
        wrong == \E t \in a.tokens : t.message \in cps /\ ~TokenOK(t)
    IN
    IF      RevocationUsage(a)                                        THEN "usage"
    ELSE IF a.root /\ Anchored(a) /\ ~first.verified                  THEN "log"
    ELSE IF a.useFile /\ ~a.exists                                    THEN "usage"
    ELSE IF ~ReadVerified(File(a), keys)                              THEN "anchor"
    ELSE IF a.useStore /\ StoreFault(read, keys, File(a)) # "none"    THEN "anchor store"
    ELSE IF ~RevocationsSigned(Revocations(a))                        THEN "revocation"
    ELSE IF ~Matched(Revocations(a), cps)                             THEN "revocation"
    ELSE IF TokenUsage(a)                                             THEN "usage"
    ELSE IF a.useTokens /\ wrong                                      THEN "timestamp"
    ELSE                                                                   "none"

\* A result without a report; the exit code tells a failed verification from a
\* wrong use.
Refused(stage) ==
    [ verified |-> FALSE, stage |-> stage, exit |-> IF stage = "usage" THEN 2 ELSE 1 ]

Outcome(a, read, last) ==
    IF ~last.verified THEN Refused("log")
    ELSE [ verified        |-> TRUE,
           stage           |-> "none",
           exit            |-> 0,
           checkpointed    |-> last.checkpointed,
           unanchored      |-> last.unanchored,
           storeUnanchored |-> StoreUnanchored(last.receipts, Lines(read.found)),
           warning         |-> Warning(Checkpoints(a, read), a.useStore, Lines(read.found)) ]

Run(a) ==
    LET End(read, first, stage) ==
          IF stage # "none" THEN Refused(stage)
          ELSE Outcome(a, read, LastPass(a, read, first))
        Go(read, first) == End(read, first, Stage(a, read, first))
    IN Go(StoreRead(a), FirstPass(a))

-----------------------------------------------------------------------------
(* The console shows the same log to an approver: its verdict, and a feed of *)
(* the receipts.  It takes the keys, the root and the anchor file.           *)

\* Faulty variant: the keys of rotations are not looked for.
Follow_Not(a) == a.trusted

\* follow: one pass through the log for its keys, whatever its verdict.
Follow(a) == IF a.root THEN FirstPass(a).known ELSE a.trusted

\* verify: the anchor with these keys, then the log.  An anchor file that is not
\* there is one without checkpoints.
ConsoleVerify(a) ==
    LET Verify(keys) ==
          /\ ReadVerified(File(a), keys)
          /\ VerifyAll(a.log, keys, a.root, Range(File(a)), {}).verified
    IN Verify(Follow(a))

\* summarize: the receipts whose signature verifies, newest first.
Feed(a) ==
    LET shown(keys, l) == l.form # "malformed" /\ SignedBy(keys, l) /\ Validate(l.seq, l.r)
        Newest(keys) ==
          LET feed[n \in 0..Len(a.log)] ==
                IF n = 0 THEN <<>>
                ELSE IF shown(keys, a.log[n]) THEN <<a.log[n]>> \o feed[n - 1]
                ELSE feed[n - 1]
          IN feed[Len(a.log)]
    IN Newest(Follow(a))
=============================================================================
