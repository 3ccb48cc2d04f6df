-------------------------------- MODULE Audit --------------------------------
(***************************************************************************)
(* A log, its anchors and its audit.  Warden appends receipts, hands over  *)
(* to new keys, publishes checkpoints to a file and to an object store,    *)
(* and the operator revokes keys (warden revoke-key) and exports the log   *)
(* (warden export).  Somebody else may hold a leaked signing key, change   *)
(* the exported copy, the anchor file, and write to the object store,      *)
(* which keeps versions and locks (as internal/anchor/s3/s3fake does).  An *)
(* auditor may run warden-verify at any time: Verdict is what it reports.  *)
(*                                                                         *)
(* Receipts are decisions and handovers: what the verifier demands of      *)
(* approvals and results is the matter of LogRules.  How checkpoints are   *)
(* retried is the matter of Checkpointer.  Digests are numbered in the     *)
(* order of signing.                                                       *)
(***************************************************************************)
EXTENDS Verifier

CONSTANTS
    FirstKid,       \* the key the chain starts with, the one in the trust file
    Retention,      \* how long a stored checkpoint is locked
    Epoch,          \* how long a key certificate is valid
    Bucket,         \* whether there is an object store
    MaxLog,         \* bound on the length of logs
    MaxTime,        \* bound on the clock
    MaxRevs,        \* bound on the number of revocations
    MaxDeeds        \* bound on what is done to copies and anchors

ASSUME AuditAssumption ==
    /\ FirstKid \in Kid
    /\ {Retention, Epoch, MaxLog, MaxTime, MaxRevs, MaxDeeds} \subseteq Nat
    /\ Bucket \in BOOLEAN

VARIABLES
    log,        \* the receipts Warden signed
    signer,     \* the key Warden signs with
    file,       \* the anchor file
    objects,    \* the versions under each name of the object store
    revs,       \* the published revocations
    leaked,     \* signing keys that somebody else holds
    copy,       \* the exported log as the auditor gets it
    now,        \* the clock
    signed,     \* how many lines have been signed
    deeds,      \* how much was done to the copy, the file and the store
    stored      \* history: what Warden stored, and until when it is locked

vars == <<log, signer, file, objects, revs, leaked, copy, now, signed, deeds, stored>>

Sizes == 0..MaxLog

Where == {"copy", "file", "store"}

Init ==
    /\ log = <<>> /\ signer = FirstKid /\ copy = <<>> /\ file = <<>>
    /\ objects = [n \in Sizes |-> <<>>]
    /\ revs = {} /\ leaked = {} /\ stored = {}
    /\ now = 0 /\ signed = 0 /\ deeds = [w \in Where |-> 0]

-----------------------------------------------------------------------------
(* Signing. *)

Digest(n) == <<"line", n>>

\* The next line of a log, signed by kid with receipt r.
NextLine(chain, kid, r) ==
    [ id   |-> Digest(signed + 1), kid |-> kid, key |-> kid, form |-> "ok",
      seq  |-> Len(chain),
      prev |-> IF chain = <<>> THEN Genesis(kid, kid) ELSE Last(chain).id,
      r    |-> r ]

ADecision ==
    LET i == CHOOSE x \in Ident : TRUE  t == CHOOSE x \in Tool : TRUE IN
    Decision(now, i, [tool |-> t, man |-> "pinned"], "deny", {})

KeyRotation(from, to, cert) ==
    [type |-> "key_rotation", ts |-> now, from |-> from, to |-> to, key |-> to, cert |-> cert]

Certificate(kid) ==
    [kid |-> kid, key |-> kid, root |-> TRUE, from |-> now, until |-> now + Epoch]

\* A checkpoint of the first size lines of a log, signed by kid.
Checkpoint(chain, size, kid) ==
    [ kid |-> kid, key |-> kid, size |-> size, head |-> chain[size].id, ts |-> now,
      root |-> [i \in 1..size |-> chain[i].id] ]

-----------------------------------------------------------------------------
(* Warden and its operator.  What they do commutes with what is done to an *)
(* exported copy and to the anchor file, so all of it comes first.         *)

NoDeed(where) == deeds[where] = 0

Undisturbed == NoDeed("copy") /\ NoDeed("file")

AppendReceipt ==
    /\ Undisturbed
    /\ Len(log) < MaxLog
    /\ log' = Append(log, NextLine(log, signer, ADecision))
    /\ signed' = signed + 1
    /\ UNCHANGED <<signer, file, objects, revs, leaked, copy, now, deeds, stored>>

Handovers == { i \in DOMAIN log : log[i].r.type = "key_rotation" }

Used == {FirstKid} \cup { log[i].r.to : i \in Handovers }

Rotate(to) ==
    /\ Undisturbed
    /\ Len(log) < MaxLog
    /\ to \notin Used
    /\ log' = Append(log, NextLine(log, signer, KeyRotation(signer, to, Certificate(to))))
    /\ signer' = to
    /\ signed' = signed + 1
    /\ UNCHANGED <<file, objects, revs, leaked, copy, now, deeds, stored>>

\* A checkpoint of the whole log, after the newest one in the file.
Publish ==
    /\ Undisturbed
    /\ log # <<>>
    /\ file # <<>> => Last(file).size < Len(log)
    /\ file' = Append(file, Checkpoint(log, Len(log), signer))
    /\ UNCHANGED <<log, signer, objects, revs, leaked, copy, now, signed, deeds, stored>>

Version(line, mode, until) ==
    [line |-> line, marker |-> FALSE, mode |-> mode, until |-> until, at |-> now]

\* If-None-Match: no object, or a delete marker on top.
Free(name) == objects[name] # <<>> => Last(objects[name]).marker

\* Anchor.Publish: the newest checkpoint goes to the store under its size.
Store ==
    /\ Undisturbed
    /\ Bucket
    /\ file # <<>>
    /\ LET c == Last(file) IN
       /\ Free(c.size)
       /\ objects' = [objects EXCEPT ![c.size] =
                        Append(@, Version(c, "COMPLIANCE", now + Retention))]
       /\ stored' = stored \cup {[cp |-> c, until |-> now + Retention]}
    /\ UNCHANGED <<log, signer, file, revs, leaked, copy, now, signed, deeds>>

\* revocation.Sign: the root signs, about this chain, that nothing kid signed
\* after checkpoint c is to be believed.
Revocation(kid, c) ==
    [kid |-> kid, size |-> c.size, head |-> c.head, root |-> TRUE, own |-> TRUE]

\* warden revoke-key: a key that was used, from an anchored checkpoint on.
RevokeKey(kid) ==
    /\ Undisturbed
    /\ Cardinality(revs) < MaxRevs
    /\ kid \in Used
    /\ \E i \in DOMAIN file :
         file[i].size >= 1 /\ revs' = revs \cup {Revocation(kid, file[i])}
    /\ UNCHANGED <<log, signer, file, objects, leaked, copy, now, signed, deeds, stored>>

\* warden export, for a new audit.
Export ==
    /\ Undisturbed
    /\ copy' = log
    /\ UNCHANGED <<log, signer, file, objects, revs, leaked, now, signed, deeds, stored>>

Tick ==
    /\ now < MaxTime
    /\ now' = now + 1
    /\ UNCHANGED <<log, signer, file, objects, revs, leaked, copy, signed, deeds, stored>>

-----------------------------------------------------------------------------
(* What can happen to keys, copies and anchors. *)

Leak(kid) ==
    /\ Undisturbed
    /\ kid \in Used
    /\ leaked' = leaked \cup {kid}
    /\ UNCHANGED <<log, signer, file, objects, revs, copy, now, signed, deeds, stored>>

Deed(where) ==
    /\ deeds["copy"] + deeds["file"] + deeds["store"] < MaxDeeds
    /\ deeds' = [deeds EXCEPT ![where] = @ + 1]

\* Lines of the copy are left out, put in another order, or changed without the
\* key; or a line is signed with a leaked one, perhaps to hand over to a key
\* whose certificate is in the log or of somebody's own making.
Alter ==
    /\ copy # <<>>
    /\ Deed("copy")
    /\ \/ \E i \in DOMAIN copy : copy' = RemoveAt(copy, i) /\ UNCHANGED signed
       \/ \E i \in 1..(Len(copy) - 1) :
            /\ copy' = [copy EXCEPT ![i] = copy[i + 1], ![i + 1] = copy[i]]
            /\ UNCHANGED signed
       \/ \E i \in DOMAIN copy :
            copy' = [copy EXCEPT ![i].key = Other] /\ UNCHANGED signed
       \/ \E kid \in leaked, keep \in 0..Len(copy) :
            LET kept  == SubSeq(copy, 1, keep)
                certs == { log[i].r.cert : i \in Handovers }
                         \cup { [Certificate(k) EXCEPT !.root = FALSE] : k \in Kid }
            IN /\ keep < MaxLog
               /\ \E r \in {ADecision} \cup { KeyRotation(kid, c.kid, c) : c \in certs } :
                    copy' = Append(kept, NextLine(kept, kid, r))
               /\ signed' = signed + 1
    /\ UNCHANGED <<log, signer, file, objects, revs, leaked, now, stored>>

\* The anchor file is cut, or gets a checkpoint of the copy signed with a
\* leaked key.
AlterFile ==
    /\ Deed("file")
    /\ \/ file # <<>> /\ file' = Front(file)
       \/ \E kid \in leaked, size \in 1..Len(copy) :
            file' = Append(SelectSeq(file, LAMBDA c : c.size < size), Checkpoint(copy, size, kid))
    /\ UNCHANGED <<log, signer, objects, revs, leaked, copy, now, signed, stored>>

\* Somebody writes to the store: any anchored line or one made with a leaked
\* key, under any name, locked or not; a delete marker; or the removal of a
\* version that is not locked any more.
AlterStore ==
    /\ Bucket
    /\ Deed("store")
    /\ \E name \in Sizes :
         \/ \E line \in Range(file) \cup
                { Checkpoint(copy, s, k) : s \in 1..Len(copy), k \in leaked } :
              \E mode \in {"COMPLIANCE", "none"} :
                 objects' = [objects EXCEPT ![name] =
                               Append(@, Version(line, mode, now + Retention))]
         \/ /\ objects[name] # <<>>
            /\ objects' = [objects EXCEPT ![name] =
                             Append(@, [Last(@) EXCEPT !.marker = TRUE, !.at = now])]
         \/ \E i \in DOMAIN objects[name] :
              /\ objects[name][i].marker \/ objects[name][i].mode = "none"
                   \/ objects[name][i].until <= now
              /\ objects' = [objects EXCEPT ![name] = RemoveAt(@, i)]
    /\ UNCHANGED <<log, signer, file, revs, leaked, copy, now, signed, stored>>

Next ==
    \/ AppendReceipt \/ Publish \/ Store \/ Export \/ Tick
    \/ \E kid \in Kid : Rotate(kid) \/ RevokeKey(kid) \/ Leak(kid)
    \/ Alter \/ AlterFile \/ AlterStore

Spec == Init /\ [][Next]_vars

-----------------------------------------------------------------------------
(* The audit. *)

Trusted == [k \in {FirstKid} |-> FirstKid]

\* The first checkpoint creates the anchor file; nobody removes it.
Exists == file # <<>> \/ ~NoDeed("file")

\* warden-verify with the root and everything that is anchored.  The first
\* revoke-key creates the file of revocations.
Full ==
    [ log |-> copy, trusted |-> Trusted, root |-> TRUE,
      useFile |-> Exists, exists |-> Exists, file |-> file,
      useStore |-> Bucket, objects |-> objects, useRevs |-> revs # {}, revs |-> revs,
      useTokens |-> FALSE, tokens |-> {}, now |-> now ]

FileOnly == [Full EXCEPT !.useStore = FALSE]

\* The command that warden export prints: all keys ever used, and the anchor file
\* whether or not there is one.
Printed ==
    [ FileOnly EXCEPT !.trusted = [k \in Used |-> k], !.root = FALSE, !.useFile = TRUE,
                      !.useRevs = FALSE ]

Honest == \A w \in Where : NoDeed(w)

\* Everything a revoked key signed comes before the checkpoint it keeps.
NothingAfterRevocation ==
    \A v \in revs, i \in DOMAIN copy : copy[i].kid = v.kid => i <= v.size

\* An untouched log verifies, however often the keys changed, as long as it was
\* exported after the checkpoints it is compared with, nothing in it is from a
\* revoked key, and the store still locks what it holds.
NoFalseAlarm ==
    ( /\ Honest /\ copy # <<>>
      /\ \A i \in DOMAIN file : file[i].size <= Len(copy)
      /\ \A s \in stored : s.until > now
      /\ NothingAfterRevocation )
    => Run(Full).verified

\* If the log verifies against an anchor file that is as Warden wrote it, then
\* the receipts that the report calls checkpointed are the ones that were
\* signed first, even if somebody else has every signing key.
CheckpointedIsGenuine ==
    LET report == Run(FileOnly) IN
    (copy # <<>> /\ NoDeed("file") /\ report.verified) =>
        IsPrefix(SubSeq(log, 1, report.checkpointed), copy)

\* What Warden stored binds whoever rewrites the log, the anchor file and the
\* store: as long as the lock holds, a log that verifies begins with the
\* receipts of every checkpoint that was stored, whatever was written on top.
StoreBinds ==
    (copy # <<>> /\ Run(Full).verified) =>
        \A s \in stored : s.until > now => IsPrefix(SubSeq(log, 1, s.cp.size), copy)

\* Revoking every leaked key takes its holder out of the log: what verifies
\* then is a part of what Warden signed.
LeakContained ==
    ( /\ copy # <<>> /\ NoDeed("file")
      /\ \A k \in leaked : \E v \in revs : v.kid = k
      /\ Run(FileOnly).verified )
    => IsPrefix(copy, log)

\* The console and warden-verify give the same verdict on the files that are there,
\* though one learns all keys before it looks at anything and the other only where
\* an anchor is given; and the feed of a log that verifies shows all of it.  They
\* differ, exactly, on an anchor that is named before Warden has written one: the
\* console goes on without it, warden-verify ends with an error of use.
ConsoleAgrees ==
    \A root, named \in BOOLEAN :
        LET a == [FileOnly EXCEPT !.root = root, !.useFile = named, !.useRevs = FALSE]
            b == [a EXCEPT !.useFile = named /\ Exists]
            verifies == ConsoleVerify(a)
        IN /\ verifies <=> Run(b).verified
           /\ named /\ ~Exists => ~Run(a).verified
           /\ verifies => Feed(a) = Reverse(copy)

\* Unanchored is the exposure: of a log that verifies exactly the receipts
\* counted there can be cut off unnoticed, if the anchor file is Warden's.
ExposureExact ==
    LET report == Run(FileOnly) IN
    (copy # <<>> /\ NoDeed("file") /\ report.verified) =>
        \A n \in 1..(Len(copy) - 1) :
            Run([FileOnly EXCEPT !.log = SubSeq(copy, 1, n)]).verified
                <=> n >= Len(copy) - report.unanchored

Rotations(lines) == { i \in DOMAIN lines : lines[i].r.type = "key_rotation" }

\* The command that warden export prints names all keys of the log, the anchor
\* file and not the root.  It verifies what was exported if and only if there is a
\* checkpoint and no key was ever changed: before the first one the file it names
\* is missing, an error of use, and without the root no handover is followed, even
\* to a key of the trust file.
PrintedCommand ==
    /\ Run(Printed).verified =>
           /\ Exists
           /\ Rotations(copy) = {} /\ \A i \in DOMAIN copy : copy[i].kid = copy[1].kid
    /\ ( /\ Honest /\ copy # <<>> /\ Rotations(copy) = {} /\ Exists
         /\ \A i \in DOMAIN file : file[i].size <= Len(copy) ) => Run(Printed).verified
    /\ ~Exists => Run(Printed).exit = 2
=============================================================================
