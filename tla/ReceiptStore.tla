----------------------------- MODULE ReceiptStore ----------------------------
(***************************************************************************)
(* The durable receipt log (internal/store/store.go) and the appender that *)
(* signs for it (internal/chain/chain.go).                                 *)
(*                                                                         *)
(* Several processes may have the same database open: a running Warden, a  *)
(* warden rotate-key.  Each one has an appender of its own in memory - the *)
(* key it signs with, the next sequence number, the digest and the time of *)
(* the last line - and does not look at the database again after Open.     *)
(* What keeps them apart is the primary key of the receipts table.         *)
(*                                                                         *)
(* Each operation reads and changes the database in one transaction, so it *)
(* is one step.  A digest is a number that no two signed lines share; the  *)
(* genesis prev is 0.  The contents of receipts, the other tables and the  *)
(* chain id, which never changes, are left out.                            *)
(***************************************************************************)
EXTENDS Naturals, FiniteSets, Sequences

CONSTANTS
    Proc,       \* processes that open the store
    Kid,        \* key ids
    NoKid,      \* filler for "no key"
    MaxSeq,     \* receipt.MaxSeq, the last sequence number of a chain
    MaxTime,    \* bound on the clocks
    MaxLines    \* bound on the number of lines ever signed

ASSUME StoreAssumption ==
    /\ NoKid \notin Kid
    /\ MaxSeq \in Nat /\ MaxTime \in Nat /\ MaxLines \in Nat

VARIABLES
    rows,       \* the receipts table, by sequence number
    current,    \* current_kid in the meta table, NoKid before the first Open
    handle,     \* what each process has in memory
    lines       \* how many lines have been signed so far

storeVars == <<rows, current, handle, lines>>

Time == 0..MaxTime

\* to names the incoming key in a key_rotation receipt, and is NoKid in others.
Row == [id : Nat, prev : Nat, ts : Nat, kid : Kid, to : Kid \cup {NoKid}]

Closed == [open |-> FALSE, kid |-> NoKid, next |-> 0, prev |-> 0, lastTS |-> 0]

Count == Cardinality(DOMAIN rows)
LastRow == rows[Count - 1]

StoreTypeOK ==
    /\ DOMAIN rows \subseteq 0..MaxSeq
    /\ \A s \in DOMAIN rows : rows[s] \in Row
    /\ current \in Kid \cup {NoKid}
    /\ handle \in [Proc -> [ open : BOOLEAN, kid : Kid \cup {NoKid},
                             next : Nat, prev : Nat, lastTS : Nat ]]
    /\ lines \in Nat

StoreInit ==
    /\ rows = [s \in {} |-> 0]
    /\ current = NoKid
    /\ handle = [p \in Proc |-> Closed]
    /\ lines = 0

-----------------------------------------------------------------------------

\* init: a store signs with the key that the meta table names; a new one takes
\* the key it is given.  The appender resumes after the last row.
Opens(p, kid) ==
    /\ ~handle[p].open
    /\ current \in {kid, NoKid}
    /\ DOMAIN rows = 0..(Count - 1)
    /\ current' = kid
    /\ handle' = [handle EXCEPT ![p] =
         IF Count = 0 THEN [Closed EXCEPT !.open = TRUE, !.kid = kid]
         ELSE [ open |-> TRUE, kid |-> kid, next |-> Count,
                prev |-> LastRow.id, lastTS |-> LastRow.ts ]]
    /\ UNCHANGED <<rows, lines>>

Close(p) ==
    /\ handle[p].open
    /\ handle' = [handle EXCEPT ![p] = Closed]
    /\ UNCHANGED <<rows, current, lines>>

\* Faulty variant: the end of the sequence is not checked.
CanSign_Endless(p, ts) ==
    handle[p].open /\ handle[p].lastTS <= ts /\ lines < MaxLines

\* Appender.Append refuses when the sequence is exhausted or time goes back.
CanSign(p, ts) ==
    /\ handle[p].open
    /\ handle[p].next <= MaxSeq
    /\ handle[p].lastTS <= ts
    /\ lines < MaxLines

\* The line that the appender of p signs.
Line(p, ts, to) ==
    [id |-> lines + 1, prev |-> handle[p].prev, ts |-> ts, kid |-> handle[p].kid, to |-> to]

\* The appender after it has signed r.
Advanced(p, r) ==
    [handle[p] EXCEPT !.next = @ + 1, !.prev = r.id, !.lastTS = r.ts]

\* Faulty variant: the row replaces whatever has its sequence number.
Insert_Replace(s, r) == rows' = [t \in DOMAIN rows \cup {s} |-> IF t = s THEN r ELSE rows[t]]

\* INSERT: the primary key admits one row per sequence number.
Insert(s, r) ==
    /\ s \notin DOMAIN rows
    /\ rows' = [t \in DOMAIN rows \cup {s} |-> IF t = s THEN r ELSE rows[t]]

\* Faulty variant: the appender is not rolled back when the write fails.
RolledBack_Not(p, r) == handle' = [handle EXCEPT ![p] = Advanced(p, r)]

\* After a failed write the appender is where it was before.
RolledBack(p, r) == UNCHANGED handle

\* Store.Append writes a receipt.
AppendDone(p, ts) ==
    /\ CanSign(p, ts)
    /\ LET r == Line(p, ts, NoKid) IN
       /\ Insert(handle[p].next, r)
       /\ handle' = [handle EXCEPT ![p] = Advanced(p, r)]
    /\ lines' = lines + 1
    /\ UNCHANGED current

\* Store.Append reports an error after signing: the row was not written, or it
\* was and the caller's context ended before the answer came back.
AppendFailed(p, ts) ==
    /\ CanSign(p, ts)
    /\ LET r == Line(p, ts, NoKid) IN
       /\ UNCHANGED rows \/ Insert(handle[p].next, r)
       /\ RolledBack(p, r)
    /\ lines' = lines + 1
    /\ UNCHANGED current

\* Faulty variant: the meta table is left for later.
RotateDone_RowOnly(p, to, ts) ==
    /\ CanSign(p, ts)
    /\ LET r == Line(p, ts, to) IN
       /\ Insert(handle[p].next, r)
       /\ handle' = [handle EXCEPT ![p] = [Advanced(p, r) EXCEPT !.kid = to]]
    /\ lines' = lines + 1
    /\ UNCHANGED current

\* Store.Rotate: the handover row and current_kid are written together, then
\* the process signs with the incoming key.
RotateDone(p, to, ts) ==
    /\ CanSign(p, ts)
    /\ LET r == Line(p, ts, to) IN
       /\ Insert(handle[p].next, r)
       /\ handle' = [handle EXCEPT ![p] = [Advanced(p, r) EXCEPT !.kid = to]]
    /\ current' = to
    /\ lines' = lines + 1

RotateFailed(p, to, ts) ==
    /\ CanSign(p, ts)
    /\ RolledBack(p, Line(p, ts, to))
    /\ lines' = lines + 1
    /\ UNCHANGED <<rows, current>>

StoreNext ==
    \E p \in Proc :
        \/ \E kid \in Kid : Opens(p, kid)
        \/ Close(p)
        \/ \E ts \in Time : AppendDone(p, ts) \/ AppendFailed(p, ts)
        \/ \E ts \in Time, to \in Kid : RotateDone(p, to, ts) \/ RotateFailed(p, to, ts)

StoreSpec == StoreInit /\ [][StoreNext]_storeVars

-----------------------------------------------------------------------------

\* The exported log verifies: sequence numbers without a gap, every line holds
\* the digest of the one before, and no process that lost track of the log,
\* by a lost answer or by another process's rows, has written past it.
Linked ==
    /\ DOMAIN rows = 0..(Count - 1)
    /\ \A s \in DOMAIN rows : rows[s].prev = IF s = 0 THEN 0 ELSE rows[s - 1].id

\* The meta table names the key that the log says signs next, so that a store
\* can always be opened with the right key after a crash.
CurrentIsSigner ==
    Linked /\ Count > 0 =>
        current = IF LastRow.to = NoKid THEN LastRow.kid ELSE LastRow.to

Chain == INSTANCE SignedChain
           WITH chain  <- [i \in 1..Count |->
                             [kid |-> rows[i - 1].kid, ts |-> rows[i - 1].ts,
                              to  |-> rows[i - 1].to]],
                signer <- current

\* Whatever processes share the store, however their steps interleave and
\* whichever writes fail, an auditor sees one chain signed by one key at a time.
OneSigner == Chain!CSpec
=============================================================================
