---------------------------- MODULE RotationProofs ----------------------------
(***************************************************************************)
(* Proofs about the receipt store and about warden rotate-key beside       *)
(* warden serve, for every number of processes, commands, keys and rows.   *)
(*                                                                         *)
(* Of the store: whatever order processes open, append, rotate and fail    *)
(* in, the table is one linked chain that the keys of the meta table sign  *)
(* in turn.  An appender never looks at the database again, so the         *)
(* argument is about handles: one that is at the end of the log knows the  *)
(* last row and has the current key, and one that has fallen behind names  *)
(* a sequence number that is taken, so that the primary key refuses its    *)
(* row.                                                                    *)
(*                                                                         *)
(* The commands use the store only through its operations, so all of this  *)
(* holds beside them.  The rest is about the files: a key file is created  *)
(* exclusively, so between that step and the handover the command is the   *)
(* only one that holds the key id, and no row names it; that is why the    *)
(* clean-up of a failed command can neither remove the key the log signs   *)
(* with nor let a key id be used again.                                    *)
(***************************************************************************)
EXTENDS KeyRotation, FiniteSetTheorems, SequenceTheorems, TLAPS

-----------------------------------------------------------------------------
(* The receipt store. *)

\* The sequence numbers have no gap.
NoGap == Count \in Nat /\ DOMAIN rows = 0..(Count - 1)

\* The digest and the time that the next row has to build on.
LastId == IF Count = 0 THEN 0 ELSE LastRow.id
LastTime == IF Count = 0 THEN 0 ELSE LastRow.ts

\* An open handle has not overtaken the log, and knows its end if it is there.
HandleFollows(p) ==
    handle[p].open =>
        /\ handle[p].kid \in Kid
        /\ current \in Kid
        /\ handle[p].next <= Count
        /\ handle[p].next = Count =>
             /\ handle[p].kid = current
             /\ handle[p].prev = LastId
             /\ handle[p].lastTS = LastTime

HandlesFollow ==
    \A p \in Proc : HandleFollows(p) /\ (~handle[p].open => handle[p] = Closed)

\* Every row holds the digest of the one before.
Chained == \A s \in DOMAIN rows : rows[s].prev = IF s = 0 THEN 0 ELSE rows[s - 1].id

\* The key that the last row leaves in charge is the current one.
Signing ==
    Count > 0 => current = IF LastRow.to = NoKid THEN LastRow.kid ELSE LastRow.to

\* The inductive invariant.
StoreInv == StoreTypeOK /\ NoGap /\ HandlesFollow /\ Chained /\ Signing

-----------------------------------------------------------------------------
(* The steps that write a row. *)

\* An interval from 0 has as many elements as its bound says.
LEMMA Counted == ASSUME NEW n \in Nat PROVE Cardinality(0..(n - 1)) = n
  <1>1. Cardinality(0..(n - 1)) = IF 0 > n - 1 THEN 0 ELSE (n - 1) - 0 + 1
    BY FS_Interval
  <1> QED BY <1>1

\* What a row is that p signs.
LEMMA LineFacts ==
    ASSUME StoreInv, NEW p \in Proc, NEW ts \in Time, NEW to \in Kid \cup {NoKid},
           CanSign(p, ts)
    PROVE  /\ Line(p, ts, to) \in Row
           /\ Line(p, ts, to).id = lines + 1
           /\ Line(p, ts, to).prev = handle[p].prev
           /\ Line(p, ts, to).ts = ts
           /\ Line(p, ts, to).kid = handle[p].kid
           /\ Line(p, ts, to).to = to
  BY StoreAssumption DEF StoreInv, StoreTypeOK, HandlesFollow, HandleFollows, CanSign, Line, Row, Time

\* The primary key admits a row only from a process that is at the end of the
\* log; the row then follows the last one.
LEMMA Inserted ==
    ASSUME StoreInv, NEW p \in Proc, NEW ts \in Time, NEW r \in Row,
           CanSign(p, ts), Insert(handle[p].next, r)
    PROVE  /\ handle[p].next = Count
           /\ Count \in Nat /\ Count' = Count + 1
           /\ DOMAIN rows' = 0..Count /\ Count <= MaxSeq
           /\ DOMAIN rows = 0..(Count - 1)
           /\ rows'[Count] = r
           /\ \A s \in 0..(Count - 1) : rows'[s] = rows[s]
           /\ LastRow' = r
           /\ handle[p].kid = current /\ current \in Kid
           /\ handle[p].prev = LastId /\ handle[p].lastTS = LastTime
           /\ LastId' = r.id /\ LastTime' = r.ts
  <1> DEFINE n == handle[p].next
  <1>1. Count \in Nat /\ DOMAIN rows = 0..(Count - 1)
    BY DEF StoreInv, NoGap
  <1>2. n \in Nat /\ n <= Count /\ n <= MaxSeq
    BY DEF StoreInv, StoreTypeOK, HandlesFollow, HandleFollows, CanSign
  <1>3. n \notin DOMAIN rows
    BY DEF Insert
  <1>4. n = Count
    BY <1>1, <1>2, <1>3
  <1>5. rows' = [t \in DOMAIN rows \cup {Count} |-> IF t = Count THEN r ELSE rows[t]]
    BY <1>4 DEF Insert
  <1>6. DOMAIN rows \cup {Count} = 0..Count
    BY <1>1
  <1>7. DOMAIN rows' = 0..Count
    BY <1>5, <1>6
  <1>8. Count' = Count + 1
    <2>1. Cardinality(0..((Count + 1) - 1)) = Count + 1
      BY <1>1, Counted
    <2>2. (Count + 1) - 1 = Count
      BY <1>1
    <2> QED BY <1>7, <2>1, <2>2 DEF Count
  <1>9. rows'[Count] = r /\ \A s \in 0..(Count - 1) : rows'[s] = rows[s]
    BY <1>1, <1>5, <1>6
  <1>10. LastRow' = r
    BY <1>1, <1>8, <1>9 DEF LastRow
  <1>11. handle[p].kid = current /\ current \in Kid
         /\ handle[p].prev = LastId /\ handle[p].lastTS = LastTime
    BY <1>4 DEF StoreInv, HandlesFollow, HandleFollows, CanSign
  <1>12. LastId' = r.id /\ LastTime' = r.ts
    BY <1>1, <1>8, <1>10 DEF LastId, LastTime
  <1> QED BY <1>1, <1>2, <1>4, <1>7, <1>8, <1>9, <1>10, <1>11, <1>12

\* What the appender of p is once it has signed r and the row is written.
Past(p, r, kid) ==
    [open |-> TRUE, kid |-> kid, next |-> Count + 1, prev |-> r.id, lastTS |-> r.ts]

\* A step that writes a row of p keeps the invariant, whether p hears of it or
\* not, and with or without a new key: every other handle falls behind.
LEMMA WriteKeeps ==
    ASSUME StoreInv, NEW p \in Proc, NEW ts \in Time, NEW to \in Kid \cup {NoKid},
           CanSign(p, ts), Insert(handle[p].next, Line(p, ts, to)),
           current' = IF to = NoKid THEN current ELSE to,
           lines' = lines + 1,
           \/ handle' = handle
           \/ handle' = [handle EXCEPT ![p] = Past(p, Line(p, ts, to), current')]
    PROVE  StoreInv'
  <1> DEFINE r == Line(p, ts, to)
  <1>1. /\ r \in Row /\ r.id = lines + 1 /\ r.prev = handle[p].prev /\ r.ts = ts
        /\ r.kid = handle[p].kid /\ r.to = to
    BY LineFacts
  <1> HIDE DEF r
  <1>2. /\ handle[p].next = Count
        /\ Count \in Nat /\ Count' = Count + 1
        /\ DOMAIN rows' = 0..Count /\ Count <= MaxSeq
        /\ DOMAIN rows = 0..(Count - 1)
        /\ rows'[Count] = r
        /\ \A s \in 0..(Count - 1) : rows'[s] = rows[s]
        /\ LastRow' = r
        /\ handle[p].kid = current /\ current \in Kid
        /\ handle[p].prev = LastId /\ handle[p].lastTS = LastTime
        /\ LastId' = r.id /\ LastTime' = r.ts
    BY <1>1, Inserted DEF r
  <1>3. current' \in Kid
    BY <1>2
  <1>4. MaxSeq \in Nat
    BY StoreAssumption
  <1>5. StoreTypeOK'
    <2>1. DOMAIN rows' \subseteq 0..MaxSeq
      BY <1>2, <1>4
    <2>2. \A s \in DOMAIN rows' : rows'[s] \in Row
      BY <1>1, <1>2 DEF StoreInv, StoreTypeOK
    <2>3. handle' \in [Proc -> [ open : BOOLEAN, kid : Kid \cup {NoKid},
                                 next : Nat, prev : Nat, lastTS : Nat ]]
      <3>1. Past(p, r, current') \in [ open : BOOLEAN, kid : Kid \cup {NoKid},
                                       next : Nat, prev : Nat, lastTS : Nat ]
        BY <1>1, <1>2, <1>3 DEF Past, Row
      <3> QED BY <3>1 DEF StoreInv, StoreTypeOK, r
    <2>4. lines' \in Nat
      BY DEF StoreInv, StoreTypeOK
    <2> QED BY <1>3, <2>1, <2>2, <2>3, <2>4 DEF StoreTypeOK
  <1>6. NoGap'
    BY <1>2 DEF NoGap
  <1>7. HandlesFollow'
    <2> SUFFICES ASSUME NEW q \in Proc
                 PROVE  HandleFollows(q)' /\ (~handle'[q].open => handle'[q] = Closed)
      BY DEF HandlesFollow
    <2>1. HandleFollows(q) /\ (~handle[q].open => handle[q] = Closed)
      BY DEF StoreInv, HandlesFollow
    <2>2. handle[q].next \in Nat /\ handle \in [Proc -> [ open : BOOLEAN, kid : Kid \cup {NoKid},
                                 next : Nat, prev : Nat, lastTS : Nat ]]
      BY DEF StoreInv, StoreTypeOK
    <2>3. CASE handle'[q] = handle[q]
      BY <1>2, <1>3, <2>1, <2>2, <2>3 DEF HandleFollows
    <2>4. CASE q = p /\ handle' = [handle EXCEPT ![p] = Past(p, r, current')]
      <3>1. handle'[q] = Past(p, r, current')
        BY <2>2, <2>4
      <3> QED BY <1>2, <1>3, <3>1 DEF HandleFollows, Past
    <2> QED BY <2>2, <2>3, <2>4 DEF r
  <1>8. Chained'
    BY <1>1, <1>2 DEF StoreInv, Chained, LastId, LastRow
  <1>9. Signing'
    BY <1>1, <1>2, StoreAssumption DEF Signing
  <1> QED BY <1>5, <1>6, <1>7, <1>8, <1>9 DEF StoreInv

\* After a write the appender is past the row.
LEMMA AdvancedFacts ==
    ASSUME StoreInv, NEW p \in Proc, NEW ts \in Time, NEW to \in Kid \cup {NoKid},
           CanSign(p, ts), Insert(handle[p].next, Line(p, ts, to))
    PROVE  /\ Advanced(p, Line(p, ts, to)) = Past(p, Line(p, ts, to), current)
           /\ \A k \in Kid : [Advanced(p, Line(p, ts, to)) EXCEPT !.kid = k]
                               = Past(p, Line(p, ts, to), k)
  <1> DEFINE r == Line(p, ts, to)
  <1>1. r \in Row
    BY LineFacts
  <1>2. handle[p].next = Count /\ handle[p].kid = current
    BY <1>1, Inserted
  <1>3. handle[p] \in [ open : BOOLEAN, kid : Kid \cup {NoKid},
                        next : Nat, prev : Nat, lastTS : Nat ] /\ handle[p].open
    BY DEF StoreInv, StoreTypeOK, CanSign
  <1> HIDE DEF r
  <1>4. Advanced(p, r) = [ open |-> handle[p].open, kid |-> current, next |-> Count + 1,
                           prev |-> r.id, lastTS |-> r.ts ]
    <2> DEFINE h == Advanced(p, r)
    <2>1. h \in [ open : BOOLEAN, kid : Kid \cup {NoKid}, next : Nat, prev : Nat, lastTS : Nat ]
      <3>1. r.id \in Nat /\ r.ts \in Nat /\ handle[p].next + 1 \in Nat
        BY <1>1, <1>3 DEF Row
      <3> QED BY <1>3, <3>1 DEF Advanced
    <2>2. /\ h.open = handle[p].open /\ h.kid = handle[p].kid /\ h.next = handle[p].next + 1
          /\ h.prev = r.id /\ h.lastTS = r.ts
      BY <1>3 DEF Advanced
    <2> HIDE DEF h
    <2>3. h = [ open |-> handle[p].open, kid |-> current, next |-> Count + 1,
                prev |-> r.id, lastTS |-> r.ts ]
      BY <1>2, <2>1, <2>2
    <2> QED BY <2>3 DEF h
  <1>5. Advanced(p, r) = Past(p, r, current)
    BY <1>3, <1>4 DEF Past
  <1>6. ASSUME NEW k \in Kid
        PROVE  [Advanced(p, r) EXCEPT !.kid = k] = Past(p, r, k)
    <2>1. [Advanced(p, r) EXCEPT !.kid = k]
            = [ open |-> handle[p].open, kid |-> k, next |-> Count + 1,
                prev |-> r.id, lastTS |-> r.ts ]
      BY <1>4
    <2> QED BY <1>3, <2>1 DEF Past
  <1> QED BY <1>5, <1>6 DEF r

-----------------------------------------------------------------------------
(* One lemma per operation. *)

\* A failed attempt that writes nothing changes what the next digest will be.
LEMMA AttemptKeeps ==
    ASSUME StoreInv, lines' = lines + 1, UNCHANGED <<rows, current, handle>>
    PROVE  StoreInv'
  BY DEF StoreInv, StoreTypeOK, NoGap, HandlesFollow, HandleFollows, Chained, Signing,
         Count, LastRow, LastId, LastTime

\* Opening a store leaves the handle at the end of the log.
LEMMA OpensKeeps ==
    ASSUME StoreInv, NEW p \in Proc, NEW kid \in Kid, Opens(p, kid)
    PROVE  StoreInv'
  <1> DEFINE h == IF Count = 0 THEN [Closed EXCEPT !.open = TRUE, !.kid = kid]
                  ELSE [ open |-> TRUE, kid |-> kid, next |-> Count,
                         prev |-> LastRow.id, lastTS |-> LastRow.ts ]
  <1>1. UNCHANGED <<rows, lines, Count, LastRow, LastId, LastTime>>
    BY DEF Opens, Count, LastRow, LastId, LastTime
  <1>2. handle' = [handle EXCEPT ![p] = h] /\ current' = kid /\ current \in {kid, NoKid}
    BY DEF Opens
  <1>3. Count \in Nat /\ DOMAIN rows = 0..(Count - 1)
    BY DEF StoreInv, NoGap
  <1>4. Count > 0 => LastRow \in Row
    BY <1>3 DEF StoreInv, StoreTypeOK, LastRow
  <1>5. /\ h.open = TRUE /\ h.kid = kid /\ h.next = Count /\ h.prev = LastId /\ h.lastTS = LastTime
        /\ h \in [ open : BOOLEAN, kid : Kid \cup {NoKid}, next : Nat, prev : Nat, lastTS : Nat ]
    <2>1. CASE Count = 0
      <3>1. h = [open |-> TRUE, kid |-> kid, next |-> 0, prev |-> 0, lastTS |-> 0]
        BY <2>1 DEF Closed
      <3> HIDE DEF h
      <3> QED BY <2>1, <3>1 DEF LastId, LastTime
    <2>2. CASE Count # 0
      <3>1. h = [open |-> TRUE, kid |-> kid, next |-> Count, prev |-> LastRow.id, lastTS |-> LastRow.ts]
        BY <2>2
      <3> QED BY <1>3, <1>4, <2>2, <3>1 DEF LastId, LastTime, Row
    <2> QED BY <2>1, <2>2
  <1> HIDE DEF h
  <1>6. handle \in [Proc -> [ open : BOOLEAN, kid : Kid \cup {NoKid},
                              next : Nat, prev : Nat, lastTS : Nat ]]
    BY DEF StoreInv, StoreTypeOK
  <1>7. StoreTypeOK'
    BY <1>1, <1>2, <1>5, <1>6 DEF StoreInv, StoreTypeOK
  <1>8. Count > 0 => current = kid
    BY <1>2, <1>4, StoreAssumption DEF StoreInv, Signing, Row
  <1>9. HandlesFollow'
    <2> SUFFICES ASSUME NEW q \in Proc
                 PROVE  HandleFollows(q)' /\ (~handle'[q].open => handle'[q] = Closed)
      BY DEF HandlesFollow
    <2>1. HandleFollows(q) /\ (~handle[q].open => handle[q] = Closed)
      BY DEF StoreInv, HandlesFollow
    <2>2. CASE q = p
      BY <1>1, <1>2, <1>3, <1>5, <1>6, <2>2 DEF HandleFollows
    <2>3. CASE q # p
      <3>1. handle'[q] = handle[q]
        BY <1>2, <1>6, <2>3
      <3> QED BY <1>1, <1>2, <3>1, <2>1, StoreAssumption DEF HandleFollows
    <2> QED BY <2>2, <2>3
  <1>10. NoGap' /\ Chained'
    BY <1>1 DEF StoreInv, NoGap, Chained
  <1>11. Signing'
    BY <1>1, <1>2, <1>3, <1>8 DEF StoreInv, Signing
  <1> QED BY <1>7, <1>9, <1>10, <1>11 DEF StoreInv

\* Closing a handle forgets what it knew.
LEMMA CloseKeeps ==
    ASSUME StoreInv, NEW p \in Proc, handle' = [handle EXCEPT ![p] = Closed],
           UNCHANGED <<rows, current, lines>>
    PROVE  StoreInv'
  <1>1. UNCHANGED <<Count, LastRow, LastId, LastTime>>
    BY DEF Count, LastRow, LastId, LastTime
  <1>2. StoreTypeOK'
    BY DEF StoreInv, StoreTypeOK, Closed
  <1>3. HandlesFollow'
    BY <1>1 DEF StoreInv, StoreTypeOK, HandlesFollow, HandleFollows, Closed
  <1> QED BY <1>1, <1>2, <1>3 DEF StoreInv, NoGap, Chained, Signing

\* A receipt is appended, and the caller is told.
LEMMA AppendDoneKeeps ==
    ASSUME StoreInv, NEW p \in Proc, NEW ts \in Time, AppendDone(p, ts)
    PROVE  StoreInv'
  <1>1. /\ CanSign(p, ts) /\ Insert(handle[p].next, Line(p, ts, NoKid))
        /\ handle' = [handle EXCEPT ![p] = Advanced(p, Line(p, ts, NoKid))]
        /\ lines' = lines + 1 /\ current' = current
    BY DEF AppendDone
  <1>2. Advanced(p, Line(p, ts, NoKid)) = Past(p, Line(p, ts, NoKid), current)
    BY <1>1, AdvancedFacts
  <1> QED BY <1>1, <1>2, WriteKeeps

\* An append fails, perhaps after its row was written.
LEMMA AppendFailedKeeps ==
    ASSUME StoreInv, NEW p \in Proc, NEW ts \in Time, AppendFailed(p, ts)
    PROVE  StoreInv'
  <1>1. /\ CanSign(p, ts) /\ UNCHANGED <<handle, current>> /\ lines' = lines + 1
        /\ UNCHANGED rows \/ Insert(handle[p].next, Line(p, ts, NoKid))
    BY DEF AppendFailed, RolledBack
  <1> QED BY <1>1, WriteKeeps, AttemptKeeps

\* The key is handed over.
LEMMA RotateDoneKeeps ==
    ASSUME StoreInv, NEW p \in Proc, NEW to \in Kid, NEW ts \in Time, RotateDone(p, to, ts)
    PROVE  StoreInv'
  <1>1. /\ CanSign(p, ts) /\ Insert(handle[p].next, Line(p, ts, to))
        /\ handle' = [handle EXCEPT ![p] = [Advanced(p, Line(p, ts, to)) EXCEPT !.kid = to]]
        /\ lines' = lines + 1 /\ current' = to
    BY DEF RotateDone
  <1>2. [Advanced(p, Line(p, ts, to)) EXCEPT !.kid = to] = Past(p, Line(p, ts, to), to)
    BY <1>1, AdvancedFacts
  <1> QED BY <1>1, <1>2, WriteKeeps, StoreAssumption

-----------------------------------------------------------------------------
(* The theorems. *)

\* An empty store satisfies the invariant.
LEMMA StoreInitInv == ASSUME StoreInit PROVE StoreInv
  <1>1. DOMAIN rows = {} /\ Count = 0
    BY FS_EmptySet DEF StoreInit, Count
  <1> QED BY <1>1 DEF StoreInit, StoreInv, StoreTypeOK, NoGap, HandlesFollow, HandleFollows,
                      Chained, Signing, Closed

\* No operation of the store breaks the invariant.
LEMMA StoreStep == ASSUME StoreInv, [StoreNext]_storeVars PROVE StoreInv'
  <1>1. CASE UNCHANGED storeVars
    BY <1>1 DEF storeVars, StoreInv, StoreTypeOK, NoGap, HandlesFollow, HandleFollows, Chained,
                Signing, Count, LastRow, LastId, LastTime
  <1>2. ASSUME NEW p \in Proc, NEW kid \in Kid, Opens(p, kid) PROVE StoreInv'
    BY <1>2, OpensKeeps
  <1>3. ASSUME NEW p \in Proc, Close(p) PROVE StoreInv'
    BY <1>3, CloseKeeps DEF Close
  <1>4. ASSUME NEW p \in Proc, NEW ts \in Time, AppendDone(p, ts) \/ AppendFailed(p, ts)
        PROVE  StoreInv'
    BY <1>4, AppendDoneKeeps, AppendFailedKeeps
  <1>5. ASSUME NEW p \in Proc, NEW ts \in Time, NEW to \in Kid,
               RotateDone(p, to, ts) \/ RotateFailed(p, to, ts)
        PROVE  StoreInv'
    BY <1>5, RotateDoneKeeps, AttemptKeeps DEF RotateFailed, RolledBack
  <1> QED BY <1>1, <1>2, <1>3, <1>4, <1>5 DEF StoreNext

\* The invariant says what an auditor relies on.
LEMMA StoreInvLinked == ASSUME StoreInv PROVE Linked /\ CurrentIsSigner
  BY DEF StoreInv, NoGap, Chained, Signing, Linked, CurrentIsSigner

\* Whatever processes share the database, however their appends, rotations and
\* failures interleave, the exported log has no gap, every line holds the digest
\* of the one before, and current_kid is the key the log says signs next.
THEOREM StoreLinked == StoreSpec => [](StoreInv /\ Linked /\ CurrentIsSigner)
  <1>1. StoreSpec => []StoreInv
    BY StoreInitInv, StoreStep, PTL DEF StoreSpec
  <1> QED BY <1>1, StoreInvLinked, PTL

-----------------------------------------------------------------------------
(* The store implements SignedChain. *)

\* The receipt that an auditor sees in row r.
Entry(r) == [kid |-> r.kid, ts |-> r.ts, to |-> r.to]
Entries == [kid : Kid, ts : Nat, to : Kid \cup {NoKid}]

\* The chain of the refinement mapping.
Log == [i \in 1..Count |-> [kid |-> rows[i - 1].kid, ts |-> rows[i - 1].ts, to |-> rows[i - 1].to]]

LogIsTable ==
    /\ Log \in Seq(Entries) /\ Len(Log) = Count /\ Count \in Nat
    /\ \A i \in 1..Count : Log[i] = Entry(rows[i - 1])

\* The chain has an entry for each row.
LEMMA LogFacts == StoreInv => LogIsTable
  <1> SUFFICES ASSUME StoreInv PROVE LogIsTable
    OBVIOUS
  <1>1. Count \in Nat /\ DOMAIN rows = 0..(Count - 1)
    BY DEF StoreInv, NoGap
  <1>2. \A i \in 1..Count : rows[i - 1] \in Row
    BY <1>1 DEF StoreInv, StoreTypeOK
  <1>3. \A i \in 1..Count : Log[i] = Entry(rows[i - 1]) /\ Log[i] \in Entries
    BY <1>2 DEF Log, Entry, Entries, Row
  <1>4. Log \in [1..Count -> Entries]
    BY <1>3 DEF Log
  <1> QED BY <1>1, <1>3, <1>4 DEF LogIsTable

\* Writing a row signs one more entry with the current key, in time order.
LEMMA WriteSigns ==
    ASSUME StoreInv, NEW p \in Proc, NEW ts \in Time, NEW to \in Kid \cup {NoKid},
           CanSign(p, ts), Insert(handle[p].next, Line(p, ts, to)), StoreInv'
    PROVE  Chain!Sign(ts, to)
  <1> DEFINE r == Line(p, ts, to)
             e == [kid |-> current, ts |-> ts, to |-> to]
  <1>1. /\ r \in Row /\ r.id = lines + 1 /\ r.prev = handle[p].prev /\ r.ts = ts
        /\ r.kid = handle[p].kid /\ r.to = to
    BY LineFacts
  <1> HIDE DEF r
  <1>2. /\ Count' = Count + 1 /\ rows'[Count] = r
        /\ \A s \in 0..(Count - 1) : rows'[s] = rows[s]
        /\ handle[p].kid = current /\ current \in Kid /\ handle[p].lastTS = LastTime
    BY <1>1, Inserted DEF r
  <1>3. /\ Log \in Seq(Entries) /\ Len(Log) = Count /\ Count \in Nat
        /\ \A i \in 1..Count : Log[i] = Entry(rows[i - 1])
    BY LogFacts DEF LogIsTable
  <1>4. /\ Log' \in Seq(Entries) /\ Len(Log') = Count + 1
        /\ \A i \in 1..(Count + 1) : Log'[i] = Entry(rows'[i - 1])
    <2>1. StoreInv' => LogIsTable'
      BY LogFacts, PTL
    <2> QED BY <1>2, <2>1 DEF LogIsTable
  <1>5. e \in Entries
    BY <1>2, StoreAssumption DEF Entries, Time
  <1>6. /\ Append(Log, e) \in Seq(Entries) /\ Len(Append(Log, e)) = Count + 1
        /\ \A i \in 1..Count : Append(Log, e)[i] = Log[i]
        /\ Append(Log, e)[Count + 1] = e
    BY <1>3, <1>5
  <1>7. \A i \in 1..(Count + 1) : Log'[i] = Append(Log, e)[i]
    <2>1. ASSUME NEW i \in 1..Count PROVE Log'[i] = Append(Log, e)[i]
      <3>1. i - 1 \in 0..(Count - 1) /\ i \in 1..(Count + 1)
        BY <1>3
      <3> QED BY <3>1, <1>2, <1>3, <1>4, <1>6
    <2>2. Log'[Count + 1] = e
      <3>1. (Count + 1) - 1 = Count /\ Count + 1 \in 1..(Count + 1)
        BY <1>3
      <3> QED BY <3>1, <1>1, <1>2, <1>4 DEF Entry
    <2> QED BY <1>3, <1>6, <2>1, <2>2
  <1>8. Log' = Append(Log, e)
    BY <1>4, <1>6, <1>7, SeqEqual
  <1>9. Log # <<>> => Log[Len(Log)].ts <= ts
    <2> SUFFICES ASSUME Log # <<>> PROVE Log[Len(Log)].ts <= ts
      OBVIOUS
    <2>1. Count > 0
      BY <1>3
    <2>2. Log[Count].ts = LastTime
      BY <1>3, <2>1 DEF Entry, LastTime, LastRow
    <2> QED BY <1>2, <1>3, <2>2 DEF CanSign
  <1>10. current # NoKid
    BY <1>2, StoreAssumption
  <1> QED BY <1>8, <1>9, <1>10 DEF Log, Chain!Sign, Chain!InOrder

\* Every step of the store is a step of the chain, or leaves it alone.
LEMMA ChainStep ==
    ASSUME StoreInv, [StoreNext]_storeVars, StoreInv'
    PROVE  [Chain!CNext]_<<Log, current>>
  <1>1. CASE UNCHANGED storeVars
    BY <1>1 DEF storeVars, Log, Count
  <1>2. ASSUME NEW p \in Proc, NEW kid \in Kid, Opens(p, kid)
        PROVE  [Chain!CNext]_<<Log, current>>
    <2>1. current' = kid /\ current \in {kid, NoKid} /\ UNCHANGED Log
      BY <1>2 DEF Opens, Log, Count
    <2> QED BY <2>1 DEF Log, Chain!CNext, Chain!Found
  <1>3. ASSUME NEW p \in Proc, Close(p) PROVE UNCHANGED <<Log, current>>
    BY <1>3 DEF Close, Log, Count
  <1>4. ASSUME NEW p \in Proc, NEW ts \in Time, AppendDone(p, ts) \/ AppendFailed(p, ts)
        PROVE  [Chain!CNext]_<<Log, current>>
    <2>1. CanSign(p, ts) /\ current' = current
          /\ (UNCHANGED rows \/ Insert(handle[p].next, Line(p, ts, NoKid)))
      BY <1>4 DEF AppendDone, AppendFailed
    <2>2. CASE UNCHANGED rows
      BY <2>1, <2>2 DEF Log, Count
    <2>3. CASE Insert(handle[p].next, Line(p, ts, NoKid))
      BY <2>1, <2>3, WriteSigns DEF Chain!CNext, Chain!Record
    <2> QED BY <2>1, <2>2, <2>3
  <1>5. ASSUME NEW p \in Proc, NEW ts \in Time, NEW to \in Kid,
               RotateDone(p, to, ts) \/ RotateFailed(p, to, ts)
        PROVE  [Chain!CNext]_<<Log, current>>
    <2>1. CASE RotateDone(p, to, ts)
      BY <2>1, WriteSigns DEF RotateDone, Chain!CNext, Chain!HandOver
    <2>2. CASE RotateFailed(p, to, ts)
      BY <2>2 DEF RotateFailed, Log, Count
    <2> QED BY <1>5, <2>1, <2>2
  <1> QED BY <1>1, <1>2, <1>3, <1>4, <1>5 DEF StoreNext

\* An empty store is an empty chain.
LEMMA ChainInit == ASSUME StoreInit PROVE Chain!CInit
  <1>1. Count = 0 /\ current = NoKid
    BY FS_EmptySet DEF StoreInit, Count
  <1> QED BY <1>1 DEF Chain!CInit

\* The store implements SignedChain: an auditor who only sees the exported log
\* sees it grow by one receipt at a time, in time order, signed by the one key
\* in charge, which only that key itself can replace.
THEOREM StoreOneSigner == StoreSpec => OneSigner
  <1>1. StoreSpec => []StoreInv
    BY StoreLinked, PTL
  <1>2. StoreInit => Chain!CInit
    BY ChainInit
  <1>3. StoreInv /\ [StoreNext]_storeVars /\ StoreInv' => [Chain!CNext]_<<Log, current>>
    BY ChainStep
  <1> QED BY <1>1, <1>2, <1>3, PTL DEF StoreSpec, OneSigner, Chain!CSpec, Log

-----------------------------------------------------------------------------
(* The command. *)

\* The key ids that rotations have brought in, and all that ever signed.
Named == {rows[s].to : s \in DOMAIN rows} \ {NoKid}
Known == {Genesis} \cup Named

\* Steps between creating the key file and the handover.
Holding == {"cert", "open", "rotate"}
Rotating == {"key", "trust", "config"} \cup Holding

\* What a command under way relies on.
CmdReads(p) ==
    cmd[p].pc \in Rotating =>
        /\ cmd[p].kid \in Kid /\ cmd[p].kid \in Known /\ cmd[p].kid \in trust
        /\ cmd[p].to \in Kid /\ cmd[p].ts \in Time
CmdHolds(p) ==
    cmd[p].pc \in Holding => keyfile[cmd[p].to] = "good" /\ cmd[p].to \notin Named
CmdSigns(p) ==
    cmd[p].pc = "rotate" => handle[p].open /\ handle[p].kid = cmd[p].kid
CmdFollows(p) ==
    /\ cmd[p].pc \in {"trust", "config"} => cmd[p].to \in Named
    /\ cmd[p].pc = "config" => cmd[p].to \in trust

CmdsOK == \A p \in Proc : CmdReads(p) /\ CmdHolds(p) /\ CmdSigns(p) /\ CmdFollows(p)

\* No two commands hold the same key id.
HeldApart ==
    \A p, q \in Proc :
        cmd[p].pc \in Holding /\ cmd[q].pc \in Holding /\ cmd[p].to = cmd[q].to => p = q

\* Every key that the log names has its file.
NamedOnDisk == \A k \in Named : keyfile[k] = "good"

\* Only keys that the log knows sign, are current or are configured.
SignersKnown ==
    /\ \A s \in DOMAIN rows : rows[s].kid \in Known
    /\ current \in Known \cup {NoKid}
    /\ cfg \in Known

\* At most the current key is missing from the trust file, and then it is not
\* the configured one.
TrustLags == Known \subseteq trust \cup {current} /\ Genesis \in trust /\ cfg \in trust

\* The inductive invariant.
RotationInv ==
    /\ TypeOK /\ StoreInv
    /\ CmdsOK /\ HeldApart /\ NamedOnDisk /\ SignersKnown /\ TrustLags /\ KidsNamedOnce

-----------------------------------------------------------------------------
(* The store, as the commands use it. *)

Pc == {"off", "serve", "key", "cert", "open", "rotate", "trust", "config"}
Cmd == [pc : Pc, kid : Kid \cup {NoKid}, to : Kid \cup {NoKid}, ts : Nat]

\* A step to another program counter changes nothing else of the command.
LEMMA GotoFacts ==
    ASSUME TypeOK, NEW p \in Proc, NEW pc \in Pc, Goto(p, pc)
    PROVE  /\ cmd' \in [Proc -> Cmd]
           /\ cmd'[p].pc = pc /\ cmd'[p].kid = cmd[p].kid
           /\ cmd'[p].to = cmd[p].to /\ cmd'[p].ts = cmd[p].ts
           /\ \A q \in Proc : q # p => cmd'[q] = cmd[q]
  BY DEF TypeOK, Cmd, Pc, Goto

\* A command that ends leaves the others alone.
LEMMA ExitFacts ==
    ASSUME TypeOK, NEW p \in Proc, Exit(p)
    PROVE  /\ cmd' \in [Proc -> Cmd] /\ cmd'[p].pc = "off"
           /\ \A q \in Proc : q # p => cmd'[q] = cmd[q] /\ handle'[q] = handle[q]
           /\ UNCHANGED <<rows, current, lines, starts>>
  BY DEF TypeOK, StoreTypeOK, Cmd, Pc, Exit, Off

\* For the store, the end of a process closes its handle.
LEMMA ExitIsStep ==
    ASSUME StoreInv, NEW p \in Proc, Exit(p)
    PROVE  [StoreNext]_storeVars
  <1>1. CASE handle[p].open
    BY <1>1 DEF Exit, StoreNext, Close
  <1>2. CASE ~handle[p].open
    <2>1. handle[p] = Closed /\ handle \in [Proc -> [ open : BOOLEAN, kid : Kid \cup {NoKid},
                                 next : Nat, prev : Nat, lastTS : Nat ]]
      BY <1>2 DEF StoreInv, StoreTypeOK, HandlesFollow
    <2>2. handle' = handle
      BY <2>1 DEF Exit
    <2> QED BY <2>2 DEF Exit, storeVars
  <1> QED BY <1>1, <1>2

\* Every step of a command is a step of the store, or does not touch it.
LEMMA StepIsStore ==
    ASSUME RotationInv, [Next]_vars
    PROVE  [StoreNext]_storeVars
  <1> USE DEF RotationInv
  <1>1. CASE UNCHANGED vars
    BY <1>1 DEF vars, storeVars
  <1>2. ASSUME NEW p \in Proc, Serve(p) PROVE [StoreNext]_storeVars
    BY <1>2 DEF Serve, StoreNext, TypeOK
  <1>3. ASSUME NEW p \in Proc, NEW ts \in Time, ServeAppend(p, ts) PROVE [StoreNext]_storeVars
    BY <1>3 DEF ServeAppend, StoreNext
  <1>4. ASSUME NEW p \in Proc, NEW to \in Kid, NEW ts \in Time, RotateBegin(p, to, ts)
        PROVE  [StoreNext]_storeVars
    BY <1>4 DEF RotateBegin, storeVars
  <1>5. ASSUME NEW p \in Proc, WriteKey(p) PROVE [StoreNext]_storeVars
    BY <1>5, ExitIsStep DEF WriteKey, storeVars
  <1>6. ASSUME NEW p \in Proc, WriteCert(p) PROVE [StoreNext]_storeVars
    BY <1>6, ExitIsStep DEF WriteCert, CleanUp, storeVars
  <1>7. ASSUME NEW p \in Proc, OpenStore(p) PROVE [StoreNext]_storeVars
    <2>1. cmd[p].kid \in Kid
      BY <1>7 DEF OpenStore, CmdsOK, CmdReads, Rotating, Holding
    <2> QED BY <1>7, <2>1, ExitIsStep DEF OpenStore, CleanUp, StoreNext
  <1>8. ASSUME NEW p \in Proc, Rotate(p) PROVE [StoreNext]_storeVars
    <2>1. cmd[p].to \in Kid /\ cmd[p].ts \in Time
      BY <1>8 DEF Rotate, CmdsOK, CmdReads, Rotating, Holding
    <2> QED BY <1>8, <2>1, ExitIsStep DEF Rotate, CleanUp, StoreNext
  <1>9. ASSUME NEW p \in Proc, AddTrustedKey(p) PROVE [StoreNext]_storeVars
    BY <1>9, ExitIsStep DEF AddTrustedKey, storeVars
  <1>10. ASSUME NEW p \in Proc, SaveConfig(p) PROVE [StoreNext]_storeVars
    BY <1>10, ExitIsStep DEF SaveConfig
  <1>11. ASSUME NEW p \in Proc, Die(p) PROVE [StoreNext]_storeVars
    BY <1>11, ExitIsStep DEF Die
  <1>12. CASE Repair
    BY <1>12 DEF Repair, storeVars
  <1> QED BY <1>1, <1>2, <1>3, <1>4, <1>5, <1>6, <1>7, <1>8, <1>9, <1>10, <1>11, <1>12 DEF Next

-----------------------------------------------------------------------------
(* Steps that end a command. *)

\* A step that leaves the rows alone leaves what they say alone.
LEMMA RowsSame ==
    ASSUME UNCHANGED rows
    PROVE  UNCHANGED <<Named, Known>> /\ (KidsNamedOnce => KidsNamedOnce')
  BY DEF Named, Known, KidsNamedOnce

\* A command may end with the configuration saved or not, and may remove or
\* leave behind only a key file that no row names and no other command holds.
LEMMA ExitKeeps ==
    ASSUME RotationInv, NEW p \in Proc, Exit(p), UNCHANGED trust, StoreInv',
           keyfile' \in [Kid -> {"none", "partial", "good"}],
           \A k \in Kid : keyfile'[k] # keyfile[k] =>
               /\ k \notin Named
               /\ \A q \in Proc : q # p /\ cmd[q].pc \in Holding => cmd[q].to # k,
           cfg' = cfg \/ (cfg' \in Known /\ cfg' \in trust /\ cfg' \in Kid)
    PROVE  RotationInv'
  <1>1. /\ cmd' \in [Proc -> Cmd] /\ cmd'[p].pc = "off"
        /\ \A q \in Proc : q # p => cmd'[q] = cmd[q] /\ handle'[q] = handle[q]
        /\ UNCHANGED <<rows, current, lines, starts>>
    BY ExitFacts DEF RotationInv
  <1>2. UNCHANGED <<Named, Known>> /\ KidsNamedOnce'
    BY <1>1, RowsSame DEF RotationInv
  <1>3. Named \subseteq Kid
    BY StoreAssumption DEF RotationInv, StoreInv, StoreTypeOK, Row, Named
  <1>4. TypeOK'
    BY <1>1 DEF RotationInv, TypeOK, StoreInv, Cmd, Pc
  <1>5. CmdsOK'
    <2> SUFFICES ASSUME NEW q \in Proc
                 PROVE  CmdReads(q)' /\ CmdHolds(q)' /\ CmdSigns(q)' /\ CmdFollows(q)'
      BY DEF CmdsOK
    <2>1. CASE q = p
      BY <1>1, <2>1 DEF CmdReads, CmdHolds, CmdSigns, CmdFollows, Rotating, Holding
    <2>2. CASE q # p
      <3>1. CmdReads(q) /\ CmdHolds(q) /\ CmdSigns(q) /\ CmdFollows(q)
        BY DEF RotationInv, CmdsOK
      <3>2. cmd'[q] = cmd[q] /\ handle'[q] = handle[q]
        BY <1>1, <2>2
      <3>3. CmdReads(q)' /\ CmdSigns(q)' /\ CmdFollows(q)'
        BY <1>2, <3>1, <3>2 DEF CmdReads, CmdSigns, CmdFollows
      <3>4. CmdHolds(q)'
        BY <1>2, <2>2, <3>1, <3>2 DEF CmdReads, CmdHolds, Rotating
      <3> QED BY <3>3, <3>4
    <2> QED BY <2>1, <2>2
  <1>6. HeldApart'
    BY <1>1 DEF RotationInv, HeldApart, Holding
  <1>7. NamedOnDisk'
    BY <1>2, <1>3 DEF RotationInv, NamedOnDisk
  <1>8. SignersKnown' /\ TrustLags'
    BY <1>1, <1>2 DEF RotationInv, SignersKnown, TrustLags
  <1> QED BY <1>2, <1>4, <1>5, <1>6, <1>7, <1>8 DEF RotationInv

\* A command that holds a key id removes its file when it fails.
LEMMA CleanUpKeeps ==
    ASSUME RotationInv, NEW p \in Proc, cmd[p].pc \in Holding, CleanUp(p), StoreInv'
    PROVE  RotationInv'
  <1>1. cmd[p].to \in Kid /\ cmd[p].to \notin Named
    BY DEF RotationInv, CmdsOK, CmdReads, CmdHolds, Rotating
  <1>2. /\ keyfile' = [keyfile EXCEPT ![cmd[p].to] = "none"]
        /\ Exit(p) /\ UNCHANGED <<trust, cfg>>
    BY DEF CleanUp
  <1>3. keyfile' \in [Kid -> {"none", "partial", "good"}]
    BY <1>2 DEF RotationInv, TypeOK
  <1>4. \A k \in Kid : keyfile'[k] # keyfile[k] => k = cmd[p].to
    BY <1>2 DEF RotationInv, TypeOK
  <1>5. \A q \in Proc : q # p /\ cmd[q].pc \in Holding => cmd[q].to # cmd[p].to
    BY DEF RotationInv, HeldApart
  <1> QED BY <1>1, <1>2, <1>3, <1>4, <1>5, ExitKeeps

-----------------------------------------------------------------------------
(* Steps that write a row. *)

\* A written row names at most one more key, and is signed by the current one.
LEMMA WriteNames ==
    ASSUME RotationInv, NEW p \in Proc, NEW ts \in Time, NEW to \in Kid \cup {NoKid},
           CanSign(p, ts), Insert(handle[p].next, Line(p, ts, to))
    PROVE  /\ Named' = Named \cup ({to} \ {NoKid})
           /\ Known' = Known \cup ({to} \ {NoKid})
           /\ \A s \in DOMAIN rows' : rows'[s].kid \in Known'
           /\ to \notin Named => KidsNamedOnce'
           /\ handle[p].kid = current
  <1> DEFINE r == Line(p, ts, to)
  <1>1. r \in Row /\ r.kid = handle[p].kid /\ r.to = to
    BY LineFacts DEF RotationInv
  <1> HIDE DEF r
  <1>2. /\ Count \in Nat /\ DOMAIN rows' = 0..Count /\ DOMAIN rows = 0..(Count - 1)
        /\ rows'[Count] = r /\ \A s \in 0..(Count - 1) : rows'[s] = rows[s]
        /\ handle[p].kid = current /\ current \in Kid
    BY <1>1, Inserted DEF RotationInv, r
  <1>3. DOMAIN rows' = DOMAIN rows \cup {Count}
    BY <1>2
  <1>4. \A s \in DOMAIN rows : rows'[s] = rows[s] /\ s # Count
    BY <1>2
  <1>5. Named' = Named \cup ({to} \ {NoKid})
    BY <1>1, <1>2, <1>3, <1>4 DEF Named
  <1>6. Known' = Known \cup ({to} \ {NoKid})
    BY <1>5 DEF Known
  <1>7. current \in Known
    BY <1>2, StoreAssumption DEF RotationInv, SignersKnown
  <1>8. \A s \in DOMAIN rows' : rows'[s].kid \in Known'
    BY <1>1, <1>2, <1>3, <1>4, <1>6, <1>7 DEF RotationInv, SignersKnown
  <1>9. ASSUME to \notin Named PROVE KidsNamedOnce'
    <2> SUFFICES ASSUME NEW s \in DOMAIN rows', NEW t \in DOMAIN rows',
                        rows'[s].to # NoKid, rows'[t].to = rows'[s].to
                 PROVE  s = t
      BY DEF KidsNamedOnce
    <2>1. CASE s = Count
      BY <1>1, <1>2, <1>3, <1>4, <1>9, <2>1 DEF Named
    <2>2. CASE t = Count
      BY <1>1, <1>2, <1>3, <1>4, <1>9, <2>2 DEF Named
    <2>3. CASE s # Count /\ t # Count
      BY <1>3, <1>4, <2>3 DEF RotationInv, KidsNamedOnce
    <2> QED BY <2>1, <2>2, <2>3
  <1> QED BY <1>2, <1>5, <1>6, <1>8, <1>9

\* A receipt of the running server brings in no key.
LEMMA ServeAppendKeeps ==
    ASSUME RotationInv, NEW p \in Proc, NEW ts \in Time, ServeAppend(p, ts), StoreInv'
    PROVE  RotationInv'
  <1>1. /\ CanSign(p, ts) /\ UNCHANGED <<current, keyfile, trust, cfg, cmd, starts>>
        /\ cmd[p].pc = "serve"
        /\ UNCHANGED rows \/ Insert(handle[p].next, Line(p, ts, NoKid))
    BY DEF ServeAppend, AppendDone, AppendFailed
  <1>2. \A q \in Proc : q # p => handle'[q] = handle[q]
    BY DEF ServeAppend, AppendDone, AppendFailed, RolledBack, RotationInv, TypeOK, StoreTypeOK
  <1>3. NoKid \notin Named
    BY DEF Named
  <1>4. UNCHANGED <<Named, Known>> /\ KidsNamedOnce' /\ \A s \in DOMAIN rows' : rows'[s].kid \in Known
    <2>1. CASE UNCHANGED rows
      BY <2>1, RowsSame DEF RotationInv, SignersKnown
    <2>2. CASE Insert(handle[p].next, Line(p, ts, NoKid))
      BY <1>1, <1>3, <2>2, WriteNames
    <2> QED BY <1>1, <2>1, <2>2
  <1>5. TypeOK'
    BY <1>1 DEF RotationInv, TypeOK, StoreInv
  <1>6. CmdsOK'
    <2> SUFFICES ASSUME NEW q \in Proc
                 PROVE  CmdReads(q)' /\ CmdHolds(q)' /\ CmdSigns(q)' /\ CmdFollows(q)'
      BY DEF CmdsOK
    <2>1. CmdReads(q) /\ CmdHolds(q) /\ CmdSigns(q) /\ CmdFollows(q)
      BY DEF RotationInv, CmdsOK
    <2> QED BY <1>1, <1>2, <1>4, <2>1 DEF CmdReads, CmdHolds, CmdSigns, CmdFollows
  <1>7. HeldApart' /\ NamedOnDisk' /\ SignersKnown' /\ TrustLags'
    BY <1>1, <1>4 DEF RotationInv, HeldApart, NamedOnDisk, SignersKnown, TrustLags
  <1> QED BY <1>4, <1>5, <1>6, <1>7 DEF RotationInv

\* The handover names the key id that the command holds.
LEMMA RotateKeeps ==
    ASSUME RotationInv, NEW p \in Proc, Rotate(p), StoreInv'
    PROVE  RotationInv'
  <1>1. CASE CleanUp(p)
    BY <1>1, CleanUpKeeps DEF Rotate, Holding
  <1>2. CASE /\ RotateDone(p, cmd[p].to, cmd[p].ts) /\ Goto(p, "trust")
             /\ UNCHANGED <<keyfile, trust, cfg, starts>>
    <2> DEFINE to == cmd[p].to
               ts == cmd[p].ts
    <2>1. /\ cmd[p].pc = "rotate" /\ to \in Kid /\ ts \in Time
          /\ keyfile[to] = "good" /\ to \notin Named
          /\ cmd[p].kid = handle[p].kid /\ cmd[p].kid \in trust
      BY DEF Rotate, RotationInv, CmdsOK, CmdReads, CmdHolds, CmdSigns, Rotating, Holding
    <2>2. CanSign(p, ts) /\ Insert(handle[p].next, Line(p, ts, to)) /\ current' = to
      BY <1>2 DEF RotateDone
    <2>3. \A q \in Proc : q # p => handle'[q] = handle[q]
      BY <1>2 DEF RotateDone, RotationInv, TypeOK, StoreTypeOK
    <2>4. /\ cmd' \in [Proc -> Cmd] /\ cmd'[p].pc = "trust" /\ cmd'[p].kid = cmd[p].kid
          /\ cmd'[p].to = to /\ cmd'[p].ts = ts
          /\ \A q \in Proc : q # p => cmd'[q] = cmd[q]
      BY <1>2, GotoFacts DEF RotationInv, Pc
    <2> HIDE DEF to, ts
    <2>5. to # NoKid
      BY <2>1, StoreAssumption
    <2>6. /\ Named' = Named \cup {to} /\ Known' = Known \cup {to} /\ KidsNamedOnce'
          /\ \A s \in DOMAIN rows' : rows'[s].kid \in Known'
          /\ handle[p].kid = current
      BY <2>1, <2>2, <2>5, WriteNames
    <2>7. TypeOK'
      BY <1>2, <2>4 DEF RotationInv, TypeOK, StoreInv, Cmd, Pc
    <2>8. CmdsOK'
      <3> SUFFICES ASSUME NEW q \in Proc
                   PROVE  CmdReads(q)' /\ CmdHolds(q)' /\ CmdSigns(q)' /\ CmdFollows(q)'
        BY DEF CmdsOK
      <3>1. CmdReads(q) /\ CmdHolds(q) /\ CmdSigns(q) /\ CmdFollows(q)
        BY DEF RotationInv, CmdsOK
      <3>2. CASE q = p
        <4>1. CmdReads(p)
          BY <3>1, <3>2
        <4> QED BY <1>2, <2>1, <2>4, <2>6, <3>2, <4>1
                DEF CmdReads, CmdHolds, CmdSigns, CmdFollows, Rotating, Holding
      <3>3. CASE q # p
        <4>1. cmd'[q] = cmd[q] /\ handle'[q] = handle[q]
          BY <2>3, <2>4, <3>3
        <4>2. CmdReads(q)' /\ CmdSigns(q)' /\ CmdFollows(q)'
          BY <1>2, <2>6, <3>1, <4>1 DEF CmdReads, CmdSigns, CmdFollows
        <4>3. cmd[q].pc \in Holding => cmd[q].to # to
          BY <2>1, <3>3 DEF RotationInv, HeldApart, Holding, to
        <4>4. CmdHolds(q)'
          BY <1>2, <2>6, <3>1, <4>1, <4>3 DEF CmdHolds
        <4> QED BY <4>2, <4>4
      <3> QED BY <3>2, <3>3
    <2>9. HeldApart'
      BY <2>4 DEF RotationInv, HeldApart, Holding
    <2>10. NamedOnDisk'
      BY <1>2, <2>1, <2>6 DEF RotationInv, NamedOnDisk
    <2>11. SignersKnown'
      BY <1>2, <2>2, <2>6 DEF RotationInv, SignersKnown
    <2>12. TrustLags'
      BY <1>2, <2>1, <2>2, <2>6 DEF RotationInv, TrustLags
    <2> QED BY <2>6, <2>7, <2>8, <2>9, <2>10, <2>11, <2>12 DEF RotationInv
  <1> QED BY <1>1, <1>2 DEF Rotate

-----------------------------------------------------------------------------
(* The other steps leave the rows alone. *)

\* A step of p that keeps the rows and the key files, lets the trust file only
\* grow and leaves p in order keeps the other commands in order.
LEMMA OthersKeep ==
    ASSUME RotationInv, NEW p \in Proc, UNCHANGED <<rows, keyfile>>, trust \subseteq trust',
           \A q \in Proc : q # p => cmd'[q] = cmd[q] /\ handle'[q] = handle[q],
           CmdReads(p)', CmdHolds(p)', CmdSigns(p)', CmdFollows(p)'
    PROVE  CmdsOK'
  <1> SUFFICES ASSUME NEW q \in Proc, q # p
               PROVE  CmdReads(q)' /\ CmdHolds(q)' /\ CmdSigns(q)' /\ CmdFollows(q)'
    BY DEF CmdsOK
  <1>1. CmdReads(q) /\ CmdHolds(q) /\ CmdSigns(q) /\ CmdFollows(q)
    BY DEF RotationInv, CmdsOK
  <1>2. UNCHANGED <<Named, Known>>
    BY RowsSame
  <1> QED BY <1>1, <1>2 DEF CmdReads, CmdHolds, CmdSigns, CmdFollows

\* Opening the store changes the current key only from none to a known one.
LEMMA OpensFacts ==
    ASSUME RotationInv, NEW p \in Proc, NEW kid \in Kid, kid \in Known, kid \in trust,
           Opens(p, kid), UNCHANGED <<trust, cfg>>
    PROVE  /\ UNCHANGED <<rows, Named, Known, lines>> /\ current' = kid
           /\ handle'[p].open /\ handle'[p].kid = kid
           /\ \A q \in Proc : q # p => handle'[q] = handle[q]
           /\ SignersKnown' /\ TrustLags' /\ KidsNamedOnce'
  <1>1. UNCHANGED <<rows, lines>> /\ current' = kid /\ current \in {kid, NoKid}
    BY DEF Opens
  <1>2. UNCHANGED <<Named, Known>> /\ KidsNamedOnce'
    BY <1>1, RowsSame DEF RotationInv
  <1>3. /\ handle'[p].open /\ handle'[p].kid = kid
        /\ \A q \in Proc : q # p => handle'[q] = handle[q]
    BY DEF Opens, RotationInv, TypeOK, StoreTypeOK, Closed
  <1>4. Genesis # NoKid /\ NoKid \notin Known
    BY StoreAssumption, RotationAssumption DEF Known, Named
  <1>5. SignersKnown' /\ TrustLags'
    BY <1>1, <1>2, <1>4 DEF RotationInv, SignersKnown, TrustLags
  <1> QED BY <1>1, <1>2, <1>3, <1>5

\* The server starts.
LEMMA ServeKeeps ==
    ASSUME RotationInv, NEW p \in Proc, Serve(p), StoreInv'
    PROVE  RotationInv'
  <1>1. Opens(p, cfg) /\ Goto(p, "serve") /\ starts' = starts + 1 /\ UNCHANGED <<keyfile, trust, cfg>>
    BY DEF Serve, fileVars
  <1>2. cfg \in Kid /\ cfg \in Known /\ cfg \in trust
    BY DEF RotationInv, TypeOK, SignersKnown, TrustLags
  <1>3. /\ UNCHANGED <<rows, Named, Known>> /\ \A q \in Proc : q # p => handle'[q] = handle[q]
        /\ SignersKnown' /\ TrustLags' /\ KidsNamedOnce'
    BY <1>1, <1>2, OpensFacts
  <1>4. /\ cmd' \in [Proc -> Cmd] /\ cmd'[p].pc = "serve"
        /\ \A q \in Proc : q # p => cmd'[q] = cmd[q]
    BY <1>1, GotoFacts DEF RotationInv, Pc
  <1>5. TypeOK'
    BY <1>1, <1>4 DEF RotationInv, TypeOK, StoreInv, Cmd, Pc
  <1>6. CmdReads(p)' /\ CmdHolds(p)' /\ CmdSigns(p)' /\ CmdFollows(p)'
    BY <1>4 DEF CmdReads, CmdHolds, CmdSigns, CmdFollows, Rotating, Holding
  <1>7. CmdsOK'
    BY <1>1, <1>3, <1>4, <1>6, OthersKeep
  <1>8. HeldApart' /\ NamedOnDisk'
    BY <1>1, <1>3, <1>4 DEF RotationInv, HeldApart, NamedOnDisk, Holding
  <1> QED BY <1>3, <1>5, <1>7, <1>8 DEF RotationInv

\* A rotation starts from the configured key.
LEMMA RotateBeginKeeps ==
    ASSUME RotationInv, NEW p \in Proc, NEW to \in Kid, NEW ts \in Time,
           RotateBegin(p, to, ts), StoreInv'
    PROVE  RotationInv'
  <1>1. /\ cmd' = [cmd EXCEPT ![p] = [pc |-> "key", kid |-> cfg, to |-> to, ts |-> ts]]
        /\ starts' = starts + 1
        /\ UNCHANGED <<rows, current, handle, lines, keyfile, trust, cfg>>
    BY DEF RotateBegin
  <1>2. cfg \in Kid /\ cfg \in Known /\ cfg \in trust
    BY DEF RotationInv, TypeOK, SignersKnown, TrustLags
  <1>3. ts \in Nat
    BY StoreAssumption DEF Time
  <1>4. /\ cmd' \in [Proc -> Cmd] /\ cmd'[p].pc = "key" /\ cmd'[p].kid = cfg
        /\ cmd'[p].to = to /\ cmd'[p].ts = ts
        /\ \A q \in Proc : q # p => cmd'[q] = cmd[q]
    BY <1>1, <1>2, <1>3 DEF RotationInv, TypeOK, Cmd, Pc
  <1>5. UNCHANGED <<Named, Known>> /\ KidsNamedOnce'
    BY <1>1, RowsSame DEF RotationInv
  <1>6. TypeOK'
    BY <1>1, <1>4 DEF RotationInv, TypeOK, StoreInv, Cmd, Pc
  <1>7. CmdReads(p)' /\ CmdHolds(p)' /\ CmdSigns(p)' /\ CmdFollows(p)'
    BY <1>1, <1>2, <1>4, <1>5 DEF CmdReads, CmdHolds, CmdSigns, CmdFollows, Rotating, Holding
  <1>8. CmdsOK'
    BY <1>1, <1>4, <1>7, OthersKeep
  <1>9. HeldApart' /\ NamedOnDisk' /\ SignersKnown' /\ TrustLags'
    BY <1>1, <1>4, <1>5 DEF RotationInv, HeldApart, NamedOnDisk, SignersKnown, TrustLags, Holding
  <1> QED BY <1>5, <1>6, <1>8, <1>9 DEF RotationInv

\* Creating the key file takes the key id: a file that was not there is of a
\* key that no row names and no command holds.
LEMMA WriteKeyKeeps ==
    ASSUME RotationInv, NEW p \in Proc, WriteKey(p), StoreInv'
    PROVE  RotationInv'
  <1> DEFINE to == cmd[p].to
  <1>1. to \in Kid /\ cmd[p].pc = "key" /\ CmdReads(p)
    BY DEF WriteKey, RotationInv, CmdsOK, CmdReads, Rotating
  <1>2. keyfile \in [Kid -> {"none", "partial", "good"}] /\ UNCHANGED <<trust, cfg>>
    BY DEF RotationInv, TypeOK, WriteKey
  <1>3. keyfile[to] = "none" =>
            to \notin Named /\ \A q \in Proc : cmd[q].pc \in Holding => cmd[q].to # to
    BY DEF RotationInv, NamedOnDisk, CmdsOK, CmdHolds
  <1>4. CASE keyfile[to] # "none" /\ UNCHANGED keyfile /\ Exit(p)
    BY <1>2, <1>4, ExitKeeps
  <1>5. CASE keyfile[to] = "none" /\ keyfile' = [keyfile EXCEPT ![to] = "partial"] /\ Exit(p)
    <2>1. keyfile' \in [Kid -> {"none", "partial", "good"}]
      BY <1>2, <1>5
    <2>2. \A k \in Kid : keyfile'[k] # keyfile[k] => k = to
      BY <1>2, <1>5
    <2> QED BY <1>2, <1>3, <1>5, <2>1, <2>2, ExitKeeps
  <1>6. CASE /\ keyfile[to] = "none" /\ keyfile' = [keyfile EXCEPT ![to] = "good"]
             /\ Goto(p, "cert") /\ UNCHANGED <<rows, current, handle, lines, starts>>
    <2>1. /\ keyfile' \in [Kid -> {"none", "partial", "good"}] /\ keyfile'[to] = "good"
          /\ \A k \in Kid : keyfile[k] = "good" => keyfile'[k] = "good"
      BY <1>1, <1>2, <1>6
    <2>2. /\ cmd' \in [Proc -> Cmd] /\ cmd'[p].pc = "cert" /\ cmd'[p].kid = cmd[p].kid
          /\ cmd'[p].to = to /\ cmd'[p].ts = cmd[p].ts
          /\ \A q \in Proc : q # p => cmd'[q] = cmd[q]
      BY <1>6, GotoFacts DEF RotationInv, Pc
    <2> HIDE DEF to
    <2>3. UNCHANGED <<Named, Known>> /\ KidsNamedOnce'
      BY <1>6, RowsSame DEF RotationInv
    <2>4. TypeOK'
      BY <1>2, <1>6, <2>1, <2>2 DEF RotationInv, TypeOK, StoreInv, Cmd, Pc
    <2>5. CmdsOK'
      <3> SUFFICES ASSUME NEW q \in Proc
                   PROVE  CmdReads(q)' /\ CmdHolds(q)' /\ CmdSigns(q)' /\ CmdFollows(q)'
        BY DEF CmdsOK
      <3>1. CASE q = p
        BY <1>1, <1>2, <1>3, <1>6, <2>1, <2>2, <2>3, <3>1
           DEF CmdReads, CmdHolds, CmdSigns, CmdFollows, Rotating, Holding
      <3>2. CASE q # p
        <4>1. CmdReads(q) /\ CmdHolds(q) /\ CmdSigns(q) /\ CmdFollows(q)
          BY DEF RotationInv, CmdsOK
        <4> QED BY <1>2, <1>6, <2>1, <2>2, <2>3, <3>2, <4>1
                DEF CmdReads, CmdHolds, CmdSigns, CmdFollows, Rotating
      <3> QED BY <3>1, <3>2
    <2>6. HeldApart'
      BY <1>3, <1>6, <2>2 DEF RotationInv, HeldApart
    <2>7. Named \subseteq Kid
      BY StoreAssumption DEF RotationInv, StoreInv, StoreTypeOK, Row, Named
    <2>8. NamedOnDisk' /\ SignersKnown' /\ TrustLags'
      BY <1>2, <1>6, <2>1, <2>3, <2>7 DEF RotationInv, NamedOnDisk, SignersKnown, TrustLags
    <2> QED BY <2>3, <2>4, <2>5, <2>6, <2>8 DEF RotationInv
  <1> QED BY <1>4, <1>5, <1>6 DEF WriteKey

\* The certificate is written, or the command cleans up.
LEMMA WriteCertKeeps ==
    ASSUME RotationInv, NEW p \in Proc, WriteCert(p), StoreInv'
    PROVE  RotationInv'
  <1>1. CASE CleanUp(p)
    BY <1>1, CleanUpKeeps DEF WriteCert, Holding
  <1>2. CASE Goto(p, "open") /\ UNCHANGED <<rows, current, handle, lines, keyfile, trust, cfg, starts>>
    <2>1. /\ cmd' \in [Proc -> Cmd] /\ cmd'[p].pc = "open" /\ cmd'[p].kid = cmd[p].kid
          /\ cmd'[p].to = cmd[p].to /\ cmd'[p].ts = cmd[p].ts
          /\ \A q \in Proc : q # p => cmd'[q] = cmd[q]
      BY <1>2, GotoFacts DEF RotationInv, Pc
    <2>2. UNCHANGED <<Named, Known>> /\ KidsNamedOnce'
      BY <1>2, RowsSame DEF RotationInv
    <2>3. TypeOK'
      BY <1>2, <2>1 DEF RotationInv, TypeOK, StoreInv, Cmd, Pc
    <2>4. cmd[p].pc = "cert" /\ CmdReads(p) /\ CmdHolds(p)
      BY DEF WriteCert, RotationInv, CmdsOK
    <2>5. CmdReads(p)' /\ CmdHolds(p)' /\ CmdSigns(p)' /\ CmdFollows(p)'
      BY <1>2, <2>1, <2>2, <2>4 DEF CmdReads, CmdHolds, CmdSigns, CmdFollows, Rotating, Holding
    <2>6. CmdsOK'
      BY <1>2, <2>1, <2>5, OthersKeep
    <2>7. HeldApart'
      BY <2>1, <2>4 DEF RotationInv, HeldApart, Holding
    <2>8. NamedOnDisk' /\ SignersKnown' /\ TrustLags'
      BY <1>2, <2>2 DEF RotationInv, NamedOnDisk, SignersKnown, TrustLags
    <2> QED BY <2>2, <2>3, <2>6, <2>7, <2>8 DEF RotationInv
  <1> QED BY <1>1, <1>2 DEF WriteCert

\* The command opens the store with the outgoing key, or cleans up.
LEMMA OpenStoreKeeps ==
    ASSUME RotationInv, NEW p \in Proc, OpenStore(p), StoreInv'
    PROVE  RotationInv'
  <1>1. CASE CleanUp(p)
    BY <1>1, CleanUpKeeps DEF OpenStore, Holding
  <1>2. CASE Opens(p, cmd[p].kid) /\ Goto(p, "rotate") /\ UNCHANGED <<keyfile, trust, cfg, starts>>
    <2>1. cmd[p].pc = "open" /\ CmdReads(p) /\ CmdHolds(p)
      BY DEF OpenStore, RotationInv, CmdsOK
    <2>2. cmd[p].kid \in Kid /\ cmd[p].kid \in Known /\ cmd[p].kid \in trust
      BY <2>1 DEF CmdReads, Rotating, Holding
    <2>3. /\ UNCHANGED <<rows, Named, Known, lines>>
          /\ handle'[p].open /\ handle'[p].kid = cmd[p].kid
          /\ \A q \in Proc : q # p => handle'[q] = handle[q]
          /\ SignersKnown' /\ TrustLags' /\ KidsNamedOnce'
      BY <1>2, <2>2, OpensFacts
    <2>4. /\ cmd' \in [Proc -> Cmd] /\ cmd'[p].pc = "rotate" /\ cmd'[p].kid = cmd[p].kid
          /\ cmd'[p].to = cmd[p].to /\ cmd'[p].ts = cmd[p].ts
          /\ \A q \in Proc : q # p => cmd'[q] = cmd[q]
      BY <1>2, GotoFacts DEF RotationInv, Pc
    <2>5. TypeOK'
      BY <1>2, <2>4 DEF RotationInv, TypeOK, StoreInv, Cmd, Pc
    <2>6. CmdReads(p)' /\ CmdHolds(p)' /\ CmdSigns(p)' /\ CmdFollows(p)'
      BY <1>2, <2>1, <2>3, <2>4 DEF CmdReads, CmdHolds, CmdSigns, CmdFollows, Rotating, Holding
    <2>7. CmdsOK'
      BY <1>2, <2>3, <2>4, <2>6, OthersKeep
    <2>8. HeldApart'
      BY <2>1, <2>4 DEF RotationInv, HeldApart, Holding
    <2>9. NamedOnDisk'
      BY <1>2, <2>3 DEF RotationInv, NamedOnDisk
    <2> QED BY <2>3, <2>5, <2>7, <2>8, <2>9 DEF RotationInv
  <1> QED BY <1>1, <1>2 DEF OpenStore

\* The incoming key enters the trust file, or the command ends without it.
LEMMA AddTrustedKeyKeeps ==
    ASSUME RotationInv, NEW p \in Proc, AddTrustedKey(p), StoreInv'
    PROVE  RotationInv'
  <1>1. /\ cmd[p].pc = "trust" /\ CmdReads(p) /\ CmdFollows(p) /\ cmd[p].to \in Kid
        /\ UNCHANGED <<keyfile, cfg>>
    BY DEF AddTrustedKey, RotationInv, CmdsOK, CmdReads, Rotating
  <1>2. CASE Exit(p) /\ UNCHANGED trust
    <2>1. keyfile' \in [Kid -> {"none", "partial", "good"}]
      BY <1>1 DEF RotationInv, TypeOK
    <2> QED BY <1>1, <1>2, <2>1, ExitKeeps
  <1>3. CASE /\ trust' = trust \cup {cmd[p].to} /\ Goto(p, "config")
             /\ UNCHANGED <<rows, current, handle, lines, starts>>
    <2>1. /\ cmd' \in [Proc -> Cmd] /\ cmd'[p].pc = "config" /\ cmd'[p].kid = cmd[p].kid
          /\ cmd'[p].to = cmd[p].to /\ cmd'[p].ts = cmd[p].ts
          /\ \A q \in Proc : q # p => cmd'[q] = cmd[q]
      BY <1>3, GotoFacts DEF RotationInv, Pc
    <2>2. UNCHANGED <<Named, Known>> /\ KidsNamedOnce'
      BY <1>3, RowsSame DEF RotationInv
    <2>3. TypeOK'
      BY <1>1, <1>3, <2>1 DEF RotationInv, TypeOK, StoreInv, Cmd, Pc
    <2>4. CmdReads(p)' /\ CmdHolds(p)' /\ CmdSigns(p)' /\ CmdFollows(p)'
      BY <1>1, <1>3, <2>1, <2>2 DEF CmdReads, CmdHolds, CmdSigns, CmdFollows, Rotating, Holding
    <2>5. CmdsOK'
      BY <1>1, <1>3, <2>1, <2>4, OthersKeep
    <2>6. HeldApart'
      BY <2>1 DEF RotationInv, HeldApart, Holding
    <2>7. NamedOnDisk' /\ SignersKnown' /\ TrustLags'
      BY <1>1, <1>3, <2>2 DEF RotationInv, NamedOnDisk, SignersKnown, TrustLags
    <2> QED BY <2>2, <2>3, <2>5, <2>6, <2>7 DEF RotationInv
  <1> QED BY <1>2, <1>3 DEF AddTrustedKey

\* The configuration follows only once the trust file has.
LEMMA SaveConfigKeeps ==
    ASSUME RotationInv, NEW p \in Proc, SaveConfig(p), StoreInv'
    PROVE  RotationInv'
  <1>1. /\ cmd[p].to \in Kid /\ cmd[p].to \in Named /\ cmd[p].to \in trust
        /\ UNCHANGED <<keyfile, trust>> /\ Exit(p) /\ (cfg' = cmd[p].to \/ cfg' = cfg)
    BY DEF SaveConfig, RotationInv, CmdsOK, CmdReads, CmdFollows, Rotating
  <1>2. cmd[p].to \in Known
    BY <1>1 DEF Known
  <1>3. keyfile' \in [Kid -> {"none", "partial", "good"}]
    BY <1>1 DEF RotationInv, TypeOK
  <1> QED BY <1>1, <1>2, <1>3, ExitKeeps

\* A killed process leaves its files as they are.
LEMMA DieKeeps ==
    ASSUME RotationInv, NEW p \in Proc, Die(p), StoreInv'
    PROVE  RotationInv'
  <1>1. Exit(p) /\ UNCHANGED <<keyfile, trust, cfg>>
    BY DEF Die, fileVars
  <1>2. keyfile' \in [Kid -> {"none", "partial", "good"}]
    BY <1>1 DEF RotationInv, TypeOK
  <1> QED BY <1>1, <1>2, ExitKeeps

\* The operator brings the files up to the log.
LEMMA RepairKeeps ==
    ASSUME RotationInv, Repair, StoreInv'
    PROVE  RotationInv'
  <1>1. /\ current \in Kid /\ cfg' = current /\ trust' = trust \cup {current}
        /\ UNCHANGED <<rows, current, handle, lines, keyfile, cmd, starts>>
    BY DEF Repair
  <1>2. UNCHANGED <<Named, Known>> /\ KidsNamedOnce'
    BY <1>1, RowsSame DEF RotationInv
  <1>3. TypeOK'
    BY <1>1 DEF RotationInv, TypeOK, StoreInv
  <1>4. CmdsOK'
    BY <1>1, <1>2 DEF RotationInv, CmdsOK, CmdReads, CmdHolds, CmdSigns, CmdFollows
  <1>5. HeldApart' /\ NamedOnDisk'
    BY <1>1, <1>2 DEF RotationInv, HeldApart, NamedOnDisk
  <1>6. SignersKnown' /\ TrustLags'
    BY <1>1, <1>2, StoreAssumption DEF RotationInv, SignersKnown, TrustLags
  <1> QED BY <1>2, <1>3, <1>4, <1>5, <1>6 DEF RotationInv

-----------------------------------------------------------------------------
(* The theorems. *)

\* An installation that warden init has just made satisfies the invariant.
LEMMA RotationInit == ASSUME Init PROVE RotationInv
  <1>1. StoreInv
    BY StoreInitInv DEF Init
  <1>2. DOMAIN rows = {}
    BY DEF Init, StoreInit
  <1>3. Named = {} /\ Known = {Genesis}
    BY <1>2 DEF Named, Known
  <1>4. TypeOK
    BY <1>1, RotationAssumption DEF Init, TypeOK, StoreInv, Off
  <1>5. CmdsOK /\ HeldApart
    BY DEF Init, Off, CmdsOK, CmdReads, CmdHolds, CmdSigns, CmdFollows, HeldApart, Rotating, Holding
  <1>6. NamedOnDisk /\ SignersKnown /\ TrustLags /\ KidsNamedOnce
    BY <1>2, <1>3 DEF Init, StoreInit, NamedOnDisk, SignersKnown, TrustLags, KidsNamedOnce
  <1> QED BY <1>1, <1>4, <1>5, <1>6 DEF RotationInv

\* No step of a command, no crash and no repair breaks the invariant.
LEMMA RotationStep == ASSUME RotationInv, [Next]_vars PROVE RotationInv'
  <1>1. StoreInv'
    BY StepIsStore, StoreStep DEF RotationInv
  <1>2. CASE UNCHANGED vars
    <2>1. UNCHANGED <<Named, Known>> /\ KidsNamedOnce'
      BY <1>2, RowsSame DEF vars, RotationInv
    <2>2. TypeOK'
      BY <1>1, <1>2 DEF vars, RotationInv, TypeOK, StoreInv
    <2> QED BY <1>1, <1>2, <2>1, <2>2
            DEF vars, RotationInv, CmdsOK, CmdReads, CmdHolds, CmdSigns, CmdFollows, HeldApart,
                NamedOnDisk, SignersKnown, TrustLags
  <1>3. ASSUME NEW p \in Proc, Serve(p) PROVE RotationInv'
    BY <1>1, <1>3, ServeKeeps
  <1>4. ASSUME NEW p \in Proc, NEW ts \in Time, ServeAppend(p, ts) PROVE RotationInv'
    BY <1>1, <1>4, ServeAppendKeeps
  <1>5. ASSUME NEW p \in Proc, NEW to \in Kid, NEW ts \in Time, RotateBegin(p, to, ts)
        PROVE  RotationInv'
    BY <1>1, <1>5, RotateBeginKeeps
  <1>6. ASSUME NEW p \in Proc,
               WriteKey(p) \/ WriteCert(p) \/ OpenStore(p) \/ Rotate(p)
        PROVE  RotationInv'
    BY <1>1, <1>6, WriteKeyKeeps, WriteCertKeeps, OpenStoreKeeps, RotateKeeps
  <1>7. ASSUME NEW p \in Proc, AddTrustedKey(p) \/ SaveConfig(p) \/ Die(p)
        PROVE  RotationInv'
    BY <1>1, <1>7, AddTrustedKeyKeeps, SaveConfigKeeps, DieKeeps
  <1>8. CASE Repair
    BY <1>1, <1>8, RepairKeeps
  <1> QED BY <1>2, <1>3, <1>4, <1>5, <1>6, <1>7, <1>8 DEF Next

\* Every variable keeps its type, and the invariant the other theorems rest on
\* holds in every reachable state.
THEOREM RotationInvariant == Spec => [](RotationInv /\ TypeOK)
  <1>1. RotationInv => TypeOK
    BY DEF RotationInv
  <1> QED BY <1>1, RotationInit, RotationStep, PTL DEF Spec

\* Commands, crashes and repairs are, for the receipt store, nothing but a
\* sequence of its operations.
THEOREM RotationUsesStore == Spec => StoreSpec
  <1>1. Init => StoreInit
    BY DEF Init
  <1> QED BY <1>1, RotationInvariant, StepIsStore, PTL DEF Spec, StoreSpec

\* However serve and rotate-key interleave and whichever of their writes fail,
\* the log has no gap and its digests link.
THEOREM RotationLinked == Spec => []Linked
  BY RotationUsesStore, StoreLinked, PTL

\* current_kid is the key that the log says signs next.
THEOREM RotationCurrentIsSigner == Spec => []CurrentIsSigner
  BY RotationUsesStore, StoreLinked, PTL

\* The log of a Warden whose keys are rotated is one chain, in time order, that
\* one key at a time signs.
THEOREM RotationOneSigner == Spec => OneSigner
  BY RotationUsesStore, StoreOneSigner, PTL

\* The private key that the log signs with is never lost: not by the clean-up
\* of a failed rotation, a crash, or two rotations at once.
THEOREM RotationKeyOnHand == Spec => []KeyOnHand
  <1>1. RotationInv => KeyOnHand
    BY DEF RotationInv, SignersKnown, NamedOnDisk, KeyOnHand, HasKey, Known
  <1> QED BY <1>1, RotationInvariant, PTL

\* No key id is brought in twice, whether or not the trust file can be read.
THEOREM RotationKidsNamedOnce == Spec => []KidsNamedOnce
  <1>1. RotationInv => KidsNamedOnce
    BY DEF RotationInv
  <1> QED BY <1>1, RotationInvariant, PTL

\* Once the configuration has caught up with the log, the trust file holds every
\* key that signed it or was brought in by it.
THEOREM RotationTrustFollows == Spec => []TrustFollows
  <1>1. RotationInv => TrustFollows
    <2> SUFFICES ASSUME RotationInv, cfg = current, NEW s \in DOMAIN rows,
                        NEW k \in {rows[s].kid, rows[s].to} \ {NoKid}
                 PROVE  k \in trust
      BY DEF TrustFollows
    <2>1. k \in Known
      BY DEF RotationInv, SignersKnown, Known, Named
    <2> QED BY <2>1 DEF RotationInv, TrustLags
  <1> QED BY <1>1, RotationInvariant, PTL
===============================================================================
