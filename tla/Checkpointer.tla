---------------------------- MODULE Checkpointer -----------------------------
(***************************************************************************)
(* The checkpoint loop of warden serve (cmd/warden/serve.go), the anchor   *)
(* file it writes (internal/checkpoint) and the write-once object store it *)
(* offers each checkpoint to (internal/anchor/s3).                         *)
(*                                                                         *)
(* One pass of the loop holds the checkpointer's lock and runs beside the  *)
(* requests that append receipts; its steps are the reads and writes that  *)
(* an append, a crash or a lost answer can come between.  The log itself   *)
(* only grows (ReceiptStore), so a checkpoint is its size, its time and    *)
(* the number of the signing: two signatures are never the same bytes.     *)
(*                                                                         *)
(* Waiting is measured by the monotonic clock, in passes of the loop, one  *)
(* a second; receipts and checkpoints are dated by the wall clock, which   *)
(* may be stepped back.  Keys, time stamp tokens and the retention of      *)
(* locked objects are left out.                                            *)
(*                                                                         *)
(* A server that is killed leaves the file as it wrote it.  A machine that *)
(* goes down keeps of it what was synced and any prefix of what was        *)
(* written since; disk holds the contents that may be found afterwards.    *)
(***************************************************************************)
EXTENDS Naturals, Sequences

CONSTANTS
    Every,      \* Policy.Every: receipts between checkpoints
    Interval,   \* Policy.Interval, in passes
    MaxWait,    \* maxAnchorBackoff, in passes
    MaxShift,   \* failures that still lengthen the wait: 9 in the code
    MaxRows,    \* bound on the receipts
    MaxTime,    \* bound on the clock
    MaxStarts,  \* bound on the starts of the server
    MaxFaults   \* bound on the failures of the anchor file

ASSUME CheckpointerAssumption ==
    /\ Every \in Nat /\ Interval \in Nat /\ MaxWait \in Nat /\ MaxShift \in Nat
    /\ MaxRows \in Nat /\ MaxTime \in Nat /\ MaxStarts \in Nat /\ MaxFaults \in Nat

VARIABLES
    rows,       \* the number of receipts in the database
    lastTS,     \* the time of the last one
    now,        \* the wall clock
    file,       \* the lines of the anchor file
    tail,       \* the last of them lacks its line end
    disk,       \* what the file may hold after the machine went down
    objects,    \* the object store: the checkpoint under each size
    flight,     \* requests that were given up and may still reach the store
    forked,     \* history: checkpoints the store was found to hold for another
    readBack,   \* history: checkpoints a start took from a file not synced
    lost,       \* history: those of them that reached the store and are gone
    ck,         \* the checkpointer in memory, and the pass it is in
    signed,     \* number of checkpoints signed so far
    starts,     \* number of starts so far
    faults      \* number of failures of the anchor file so far

log == <<rows, lastTS, now>>
counters == <<signed, starts, faults>>
anchor == <<file, tail, disk>>
past == <<forked, readBack, lost>>
vars == <<log, anchor, objects, flight, past, ck, counters>>

Size == 1..MaxRows
Time == 0..MaxTime

Checkpoint == [size : Size, ts : Time, id : Nat \ {0}]
NoLine == [size |-> 0, ts |-> 0, id |-> 0]

\* What a torn write leaves in the file: a line that does not parse.
Torn == [size |-> 0, ts |-> 1, id |-> 0]

\* What a file may hold: its lines, the last of them without its end or not.
Content == [lines : Seq(Checkpoint \cup {Torn}), tail : BOOLEAN]
Current == [lines |-> file, tail |-> tail]
Lines(c) == {c.lines[i] : i \in 1..Len(c.lines)}

Off == [ pc |-> "off", force |-> FALSE, next |-> 0, lastSize |-> 0, age |-> 0, ts |-> 0,
         cp |-> NoLine, pending |-> NoLine, failures |-> 0, wait |-> 0 ]

TypeOK ==
    /\ rows \in 0..MaxRows /\ lastTS \in Time /\ now \in Time
    /\ Current \in Content
    /\ disk \subseteq Content
    /\ objects \in [Size -> Checkpoint \cup {NoLine}]
    /\ flight \subseteq Checkpoint
    /\ forked \subseteq Checkpoint /\ readBack \subseteq Checkpoint /\ lost \subseteq Checkpoint
    /\ ck \in [ pc : {"off", "idle", "export", "sync", "offer"}, force : BOOLEAN,
                next : 0..MaxRows, lastSize : 0..MaxRows, age : 0..Interval, ts : Time,
                cp : Checkpoint \cup {NoLine}, pending : Checkpoint \cup {NoLine},
                failures : 0..MaxShift, wait : 0..MaxWait ]
    /\ signed \in Nat /\ starts \in 0..MaxStarts /\ faults \in 0..MaxFaults

Init ==
    /\ rows = 0 /\ lastTS = 0 /\ now = 0
    /\ file = <<>> /\ tail = FALSE /\ disk = {Current}
    /\ objects = [s \in Size |-> NoLine]
    /\ flight = {}
    /\ forked = {} /\ readBack = {} /\ lost = {}
    /\ ck = Off
    /\ signed = 0 /\ starts = 0 /\ faults = 0

-----------------------------------------------------------------------------
(* The server starts, and receipts are appended. *)

\* ReadVerified: every line parses, sizes grow and times do not decrease.
Readable(lines) ==
    /\ \A i \in 1..Len(lines) : lines[i] # Torn
    /\ \A i \in 2..Len(lines) : /\ lines[i - 1].size < lines[i].size
                                /\ lines[i - 1].ts <= lines[i].ts

\* newCheckpointer goes on after the last checkpoint in the file, and offers
\* it to the store again.
Resumed ==
    LET last == IF file = <<>> THEN NoLine ELSE file[Len(file)] IN
    [Off EXCEPT !.pc = "idle", !.next = rows, !.lastSize = last.size, !.pending = last]

Start ==
    /\ ck.pc = "off"
    /\ starts < MaxStarts
    /\ Readable(file)
    /\ ck' = Resumed
    /\ readBack' = IF disk = {Current} THEN readBack ELSE readBack \cup ({ck'.pending} \ {NoLine})
    /\ starts' = starts + 1
    /\ UNCHANGED <<log, anchor, objects, flight, forked, lost, signed, faults>>

\* A receipt is written.  One whose answer was lost is in the database, and the
\* appender, which does not know of it, writes no further one.
Grow(seen) ==
    /\ ck.pc # "off"
    /\ ck.next = rows
    /\ rows < MaxRows
    /\ lastTS <= now
    /\ rows' = rows + 1
    /\ lastTS' = now
    /\ ck' = IF seen THEN [ck EXCEPT !.next = @ + 1] ELSE ck
    /\ UNCHANGED <<now, anchor, objects, flight, past, counters>>

-----------------------------------------------------------------------------
(* One pass: checkpointLocked, then anchorExternally. *)

\* Faulty variant: only the number of receipts counts.
Due_CountOnly(lastSize, size, age) == size > lastSize /\ size - lastSize >= Every

Due(lastSize, size, age) ==
    /\ size > lastSize
    /\ size - lastSize >= Every \/ age >= Interval

\* The size of the log is read.  force marks the last pass of a server that is
\* shutting down, which does not wait for anything.
Tick(force) ==
    /\ ck.pc = "idle"
    /\ force => starts < MaxStarts
    /\ LET age == IF ck.age < Interval THEN ck.age + 1 ELSE Interval
           due == ck.next > ck.lastSize /\ (force \/ Due(ck.lastSize, ck.next, age))
       IN ck' = [ck EXCEPT !.pc = IF due THEN "export" ELSE "offer",
                           !.force = force, !.age = age, !.ts = now,
                           !.wait = IF @ > 0 THEN @ - 1 ELSE 0]
    /\ UNCHANGED <<log, anchor, objects, flight, past, counters>>

\* Builder.Checkpoint over what Export returned, which may be more than the
\* size that was read before.
Signed == [size |-> rows, ts |-> ck.ts, id |-> signed + 1]

\* The line is appended to the file, with or without its end; behind a line
\* without its end it makes one line with it.
After(line, ended) ==
    [ lines |-> IF tail THEN [file EXCEPT ![Len(file)] = Torn] ELSE Append(file, line),
      tail  |-> ~ended ]

\* Of the line, nothing, a part or all may be on the disk.
Written(line, ended) ==
    /\ file' = After(line, ended).lines /\ tail' = After(line, ended).tail
    /\ disk' = disk \cup {After(Torn, FALSE), After(line, FALSE), Current'}

Write ==
    /\ ck.pc = "export"
    /\ Written(Signed, TRUE)
    /\ ck' = [ck EXCEPT !.pc = "sync", !.cp = Signed]
    /\ signed' = signed + 1
    /\ UNCHANGED <<log, objects, flight, past, starts, faults>>

\* The checkpoint is anchored in the file and waits for the store.
Noted(cp) ==
    [ck EXCEPT !.pc = "offer", !.lastSize = cp.size, !.age = 0, !.pending = cp, !.cp = NoLine]

\* Faulty variant: the checkpoint counts as anchored although it is not.
NotNoted_Anyway(cp) == Noted(cp)

\* The checkpoint is given up; a later pass signs another.
NotNoted(cp) == [ck EXCEPT !.pc = "offer", !.cp = NoLine]

\* The log cannot be read, or the write fails: with nothing, with a part of the
\* line or with all of it but its end in the file.
WriteFailed ==
    /\ ck.pc = "export"
    /\ faults < MaxFaults
    /\ \/ UNCHANGED anchor
       \/ \E line \in {Torn, Signed} : Written(line, FALSE)
    /\ ck' = NotNoted(Signed)
    /\ signed' = signed + 1
    /\ faults' = faults + 1
    /\ UNCHANGED <<log, objects, flight, past, starts>>

\* Faulty variant: the file is not synced.
Synced_Not == disk

\* File.Sync: the file is on the disk as it stands.
Synced == {Current}

Sync ==
    /\ ck.pc = "sync"
    /\ disk' = Synced
    /\ ck' = Noted(ck.cp)
    /\ UNCHANGED <<log, file, tail, objects, flight, past, counters>>

\* The line stays in the file although the checkpointer takes it for lost.
SyncFailed ==
    /\ ck.pc = "sync"
    /\ faults < MaxFaults
    /\ ck' = NotNoted(ck.cp)
    /\ faults' = faults + 1
    /\ UNCHANGED <<log, anchor, objects, flight, past, signed, starts>>

\* The pass ends, and with the last pass the server.
Done(c) == IF c.force THEN Off ELSE [c EXCEPT !.pc = "idle"]

\* Nothing waits for the store, or it is too early to try again.
Skip ==
    /\ ck.pc = "offer"
    /\ ck.pending = NoLine \/ (~ck.force /\ ck.wait > 0)
    /\ ck' = Done(ck)
    /\ UNCHANGED <<log, anchor, objects, flight, past, counters>>

Offering ==
    /\ ck.pc = "offer"
    /\ ck.pending # NoLine
    /\ ck.force \/ ck.wait = 0

Settled == Done([ck EXCEPT !.pending = NoLine, !.failures = 0, !.wait = 0])

\* Publish writes under a free name.  A name that is taken is read back: these
\* very bytes count as published, others are ErrConflict, reported as a fork and
\* not offered again.
Published ==
    /\ Offering
    /\ LET held == objects[ck.pending.size] IN
       /\ objects' = [objects EXCEPT ![ck.pending.size] = IF held = NoLine THEN ck.pending ELSE held]
       /\ forked' = forked \cup ({held} \ {NoLine, ck.pending})
    /\ ck' = Settled
    /\ UNCHANGED <<log, anchor, flight, readBack, lost, counters>>

\* Faulty variant: the wait doubles without end.
Backoff_Endless(failures) == 2 ^ failures

Backoff(failures) == IF 2 ^ failures \in 0..MaxWait THEN 2 ^ failures ELSE MaxWait

\* Faulty variant: a checkpoint that failed is not offered again.
Unreached_GivesUp(failures) ==
    [ck EXCEPT !.pending = NoLine, !.failures = failures, !.wait = Backoff(failures)]

Unreached(failures) == [ck EXCEPT !.failures = failures, !.wait = Backoff(failures)]

\* No answer, or an error.  The request may reach the store after all.
PublishFailed ==
    /\ Offering
    /\ ck' = Done(Unreached(IF ck.failures < MaxShift THEN ck.failures + 1 ELSE MaxShift))
    /\ flight' \in {flight, flight \cup {ck.pending}}
    /\ UNCHANGED <<log, anchor, objects, past, counters>>

-----------------------------------------------------------------------------
(* The environment *)

\* A late request arrives.  The write is conditional on a free name.
Arrive(line) ==
    /\ line \in flight
    /\ objects' = [objects EXCEPT ![line.size] = IF @ = NoLine THEN line ELSE @]
    /\ flight' = flight \ {line}
    /\ UNCHANGED <<log, anchor, past, ck, counters>>

\* The server is killed.  What it wrote is in the file.
Kill ==
    /\ ck.pc # "off"
    /\ starts < MaxStarts
    /\ ck' = Off
    /\ UNCHANGED <<log, anchor, objects, flight, past, counters>>

\* The store has the checkpoint, or a request that is under way will bring it.
Given(x) == x \in flight \/ \E s \in Size : objects[s] = x

\* The machine goes down, the server with it, and comes up with one of the
\* contents the file may have.
Crash(content) ==
    /\ starts < MaxStarts
    /\ file' = content.lines /\ tail' = content.tail /\ disk' = {content}
    /\ lost' = lost \cup {x \in readBack \ Lines(content) : Given(x)}
    /\ ck' = Off
    /\ UNCHANGED <<log, objects, flight, forked, readBack, counters>>

SetClock(n) ==
    /\ now' = n
    /\ UNCHANGED <<rows, lastTS, anchor, objects, flight, past, ck, counters>>

Next ==
    \/ Start
    \/ \E seen \in BOOLEAN : Grow(seen)
    \/ \E force \in BOOLEAN : Tick(force)
    \/ Write \/ WriteFailed \/ Sync \/ SyncFailed
    \/ Skip \/ Published \/ PublishFailed
    \/ \E line \in flight : Arrive(line)
    \/ Kill
    \/ \E content \in disk : Crash(content)
    \/ \E n \in Time : SetClock(n)

Spec == Init /\ [][Next]_vars

\* The loop goes on while the server runs, the server is started again after it
\* stopped, and neither the disk nor the store fails for ever.
FairSpec ==
    /\ Spec
    /\ WF_vars(Start)
    /\ WF_vars(Tick(FALSE)) /\ WF_vars(Skip)
    /\ WF_vars(Write) /\ WF_vars(Sync)
    /\ SF_vars(Published)

-----------------------------------------------------------------------------

\* A checkpoint of the same size in the store is reported as a fork or tampering
\* (serve.go).  Here nobody forks the log or tampers with anything, and however
\* answers are lost, requests late, writes torn, servers killed and machines
\* down, the server finds none of Warden's own checkpoints in the place of
\* another - but for one that a start offered before it was synced and that the
\* machine then lost, which it does take for a fork.
NoFalseFork == forked \subseteq lost

\* ADR-0017: as long as the anchor file can be read, every object in the store
\* is a line of the file, so an auditor who compares the two finds them equal;
\* but for a checkpoint that was lost as above.
AnchorsAgree ==
    Readable(file) =>
        \A s \in Size : objects[s] \in {NoLine} \cup lost \cup Lines(Current)

\* Every receipt the server knows of comes to be covered by a checkpoint in the
\* file, also when the log is idle, unless the file has become unreadable.
ReceiptsCovered ==
    \A s \in Size :
        ck.next >= s ~> \/ \E i \in 1..Len(file) : file[i].size >= s
                        \/ ~Readable(file)

\* A checkpoint in the file reaches the store, or a later one does, across
\* failures and restarts, unless the file has become unreadable.
CheckpointsStored ==
    \A s \in Size :
        ck.lastSize >= s ~> \/ \E t \in s..MaxRows : objects[t] # NoLine
                            \/ ~Readable(file)

\* anchor.go: checkpoints out of order mean that the anchor was reordered or
\* tampered with.  Here nobody does.
OrderMeansTampering == Readable(file)
=============================================================================
