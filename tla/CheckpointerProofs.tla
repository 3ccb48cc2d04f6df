-------------------------- MODULE CheckpointerProofs --------------------------
(***************************************************************************)
(* The checkpointer never takes its own checkpoint for a fork, and the     *)
(* anchor file and the object store agree, but for what a machine lost     *)
(* after a start had offered it unsynced.                                  *)
(*                                                                         *)
(* Neither is inductive.  Both rest on what was ever offered to the store  *)
(* and not lost since: no two of those checkpoints share a size, the       *)
(* running server has gone past all of them, all of them are lines of the  *)
(* file, and the ones that no start read back from an unsynced file are    *)
(* lines of whatever the file may hold after the machine goes down.        *)
(***************************************************************************)
EXTENDS Checkpointer, TLAPS, SequenceTheorems

\* The checkpointer's record, as TypeOK has it.
CkType ==
    [ pc : {"off", "idle", "export", "sync", "offer"}, force : BOOLEAN,
      next : 0..MaxRows, lastSize : 0..MaxRows, age : 0..Interval, ts : Time,
      cp : Checkpoint \cup {NoLine}, pending : Checkpoint \cup {NoLine},
      failures : 0..MaxShift, wait : 0..MaxWait ]

\* A checkpoint that is in the store, or may still come to be.
Offered(x) ==
    /\ x # NoLine
    /\ \/ \E s \in Size : objects[s] = x
       \/ x \in flight
       \/ x = ck.pending

\* And that was not lost.
Standing(x) == Offered(x) /\ x \notin lost

Sorted(lines) == \A i, j \in 1..Len(lines) : i < j => lines[i].size < lines[j].size

\* A content that can be read is sorted and holds everything that stands, but
\* perhaps for some.
Holds(c, but) ==
    Readable(c.lines) =>
        /\ Sorted(c.lines)
        /\ \A x \in Checkpoint : Standing(x) => x \in Lines(c) \cup but

\* A content is of lines that were signed and not lost.
Sound(c) ==
    /\ c.tail => c.lines # <<>>
    /\ \A x \in Lines(c) : x.id <= signed /\ x \notin lost

FileOK == Sound(Current) /\ Holds(Current, {})
DiskOK == \A c \in disk : Sound(c) /\ Holds(c, readBack)

FiledUnderSize == \A s \in Size : objects[s] # NoLine => objects[s].size = s
OfferedOnce == \A x, y \in Checkpoint : Standing(x) /\ Standing(y) /\ x.size = y.size => x = y
OfferedPast == ck.pc # "off" => \A x \in Checkpoint : Standing(x) => x.size <= ck.lastSize

LostOK == lost \subseteq readBack /\ \A x \in readBack : x.id <= signed

PassOK ==
    /\ ck.pc = "off" => ck = Off
    /\ ck.pc # "off" => ck.next <= rows
    /\ ck.pc = "export" => ck.lastSize < rows
    /\ ck.pc = "sync" => /\ tail = FALSE /\ file # <<>> /\ file[Len(file)] \in {ck.cp, Torn}
                         /\ ck.cp \in Checkpoint /\ ck.lastSize < ck.cp.size
                         /\ ck.cp \notin lost
    /\ ck.pending \notin lost

AnchorInv ==
    /\ TypeOK
    /\ NoFalseFork
    /\ FiledUnderSize
    /\ OfferedOnce
    /\ OfferedPast
    /\ LostOK
    /\ PassOK
    /\ FileOK
    /\ DiskOK

-----------------------------------------------------------------------------
(* The state's parts. *)

\* What is no checkpoint, and the record of a server that is off.
LEMMA ConstantFacts ==
    /\ NoLine \notin Checkpoint /\ Torn \notin Checkpoint /\ NoLine # Torn /\ NoLine.size = 0
    /\ Torn.id = 0 /\ \A x \in Checkpoint : x.id \in Nat \ {0}
    /\ Off \in CkType /\ Off.pc = "off" /\ Off.pending = NoLine
    /\ Off.cp = NoLine /\ Off.force = FALSE /\ Off.next = 0 /\ Off.lastSize = 0
  <1>1. /\ NoLine \notin Checkpoint /\ Torn \notin Checkpoint /\ NoLine # Torn /\ NoLine.size = 0
        /\ Torn.id = 0 /\ \A x \in Checkpoint : x.id \in Nat \ {0}
    BY CheckpointerAssumption DEF Checkpoint, Size, NoLine, Torn
  <1>2. Off \in CkType
    BY CheckpointerAssumption DEF Off, CkType, Time
  <1>3. /\ Off.pc = "off" /\ Off.pending = NoLine
        /\ Off.cp = NoLine /\ Off.force = FALSE /\ Off.next = 0 /\ Off.lastSize = 0
    BY DEF Off
  <1> QED BY <1>1, <1>2, <1>3

\* The file as a content.
LEMMA CurrentFacts ==
    /\ Current.lines = file /\ Current.tail = tail
    /\ Lines(Current) = {file[i] : i \in 1..Len(file)}
    /\ Current \in Content <=> file \in Seq(Checkpoint \cup {Torn}) /\ tail \in BOOLEAN
  BY DEF Current, Lines, Content

\* What TypeOK says of the file.
LEMMA FileFacts ==
    TypeOK => /\ file \in Seq(Checkpoint \cup {Torn}) /\ Len(file) \in Nat /\ tail \in BOOLEAN
              /\ \A i \in 1..Len(file) : file[i] \in Checkpoint \cup {Torn}
              /\ file = <<>> => Len(file) = 0
              /\ file # <<>> => Len(file) \in 1..Len(file)
  BY CurrentFacts DEF TypeOK

\* TypeOK in two parts: the checkpointer's record, and the rest.
LEMMA CkTyped == TypeOK => ck \in CkType
  BY DEF TypeOK, CkType

\* What stands changes only with the store, the late requests and pending.
LEMMA OfferedSame ==
    ASSUME UNCHANGED <<objects, flight, lost>>, ck'.pending \in {ck.pending, NoLine}
    PROVE  \A x \in Checkpoint : Standing(x)' => Standing(x)
  BY ConstantFacts DEF Standing, Offered

\* A content that is kept stays in order when nothing new stands.
LEMMA ContentKept ==
    ASSUME NEW c, NEW but, NEW more, but \subseteq more,
           Sound(c), Holds(c, but), UNCHANGED lost, signed \in Nat, signed' \in Nat,
           signed <= signed', \A x \in Lines(c) : x.id \in Nat,
           \A x \in Checkpoint : Standing(x)' => Standing(x)
    PROVE  (c.tail => c.lines # <<>>) /\ (\A x \in Lines(c) : x.id <= signed' /\ x \notin lost')
           /\ (Readable(c.lines) =>
                  Sorted(c.lines) /\ \A x \in Checkpoint : Standing(x)' => x \in Lines(c) \cup more)
  <1>1. ASSUME NEW x \in Lines(c) PROVE x.id <= signed' /\ x \notin lost'
    BY DEF Sound
  <1>2. c.tail => c.lines # <<>>
    BY DEF Sound
  <1>3. ASSUME Readable(c.lines)
        PROVE  Sorted(c.lines) /\ \A x \in Checkpoint : Standing(x)' => x \in Lines(c) \cup more
    BY <1>3 DEF Holds
  <1> QED BY <1>1, <1>2, <1>3

\* The lines of a content are numbered.
LEMMA ContentFacts ==
    ASSUME NEW c \in Content
    PROVE  /\ Len(c.lines) \in Nat /\ \A x \in Lines(c) : x \in Checkpoint \cup {Torn} /\ x.id \in Nat
           /\ Readable(c.lines) => \A x \in Lines(c) : x \in Checkpoint
  <1>1. c.lines \in Seq(Checkpoint \cup {Torn}) /\ Len(c.lines) \in Nat
    BY DEF Content
  <1>2. \A i \in 1..Len(c.lines) : c.lines[i] \in Checkpoint \cup {Torn}
    BY <1>1
  <1>3. \A x \in Lines(c) : x \in Checkpoint \cup {Torn} /\ x.id \in Nat
    BY <1>2, ConstantFacts DEF Lines
  <1>4. Readable(c.lines) => \A x \in Lines(c) : x # Torn
    BY DEF Readable, Lines
  <1> QED BY <1>1, <1>3, <1>4

\* A step that leaves the file alone, offers nothing new and does not go back
\* keeps what is said of the offered checkpoints.
LEMMA Fewer ==
    ASSUME AnchorInv, UNCHANGED <<file, tail, disk, readBack, lost>>,
           signed \in Nat, signed' \in Nat, signed <= signed',
           \A x \in Checkpoint : Standing(x)' => Standing(x),
           ck'.pc # "off" => ck.pc # "off" /\ ck'.lastSize = ck.lastSize
    PROVE  OfferedOnce' /\ OfferedPast' /\ FileOK' /\ DiskOK' /\ LostOK'
  <1>1. OfferedOnce' /\ OfferedPast'
    BY DEF AnchorInv, OfferedOnce, OfferedPast
  <1>2. TypeOK /\ FileOK /\ DiskOK /\ LostOK
    BY DEF AnchorInv
  <1>3. Current' = Current
    BY DEF Current
  <1>4. FileOK'
    <2>1. /\ Sound(Current) /\ Holds(Current, {})
          /\ \A x \in Lines(Current) : x.id \in Nat
      BY <1>2, ContentFacts DEF FileOK, TypeOK
    <2> HIDE DEF Current
    <2>2. ASSUME NEW c, c = Current
          PROVE  (Sound(c) /\ Holds(c, {}))'
      <3>1. Sound(c) /\ Holds(c, {}) /\ \A x \in Lines(c) : x.id \in Nat
        BY <2>1, <2>2
      <3> HIDE DEF Lines, Readable, Sorted
      <3>2. (c.tail => c.lines # <<>>) /\ (\A x \in Lines(c) : x.id <= signed' /\ x \notin lost')
            /\ (Readable(c.lines) =>
                  Sorted(c.lines) /\ \A x \in Checkpoint : Standing(x)' => x \in Lines(c) \cup {})
        BY <3>1, ContentKept
      <3> QED BY <3>2 DEF Sound, Holds
    <2> QED BY <1>3, <2>2 DEF FileOK
  <1>5. DiskOK'
    <2> SUFFICES ASSUME NEW c \in disk PROVE (Sound(c) /\ Holds(c, readBack))'
      BY DEF DiskOK
    <2>1. Sound(c) /\ Holds(c, readBack) /\ \A x \in Lines(c) : x.id \in Nat
      BY <1>2, ContentFacts DEF DiskOK, TypeOK
    <2>2. (c.tail => c.lines # <<>>) /\ (\A x \in Lines(c) : x.id <= signed' /\ x \notin lost')
          /\ (Readable(c.lines) =>
                Sorted(c.lines) /\ \A x \in Checkpoint : Standing(x)' => x \in Lines(c) \cup readBack)
      BY <2>1, ContentKept
    <2> QED BY <2>2 DEF Sound, Holds
  <1>6. LostOK'
    BY <1>2, ConstantFacts DEF LostOK, TypeOK
  <1> QED BY <1>1, <1>4, <1>5, <1>6

\* Another line in the file, or one that runs into the unfinished last line.
LEMMA AfterFacts ==
    ASSUME AnchorInv, NEW line \in Checkpoint \cup {Torn}, NEW ended \in BOOLEAN,
           line.id <= signed + 1, line \notin lost, signed' = signed + 1, UNCHANGED lost,
           \A x \in Checkpoint : Standing(x)' => Standing(x),
           NEW c, c = After(line, ended)
    PROVE  /\ c \in Content /\ c.lines # <<>> /\ c.tail = ~ended
           /\ c.lines[Len(c.lines)] \in {line, Torn}
           /\ Sound(c)' /\ Holds(c, {})'
  <1>1. /\ file \in Seq(Checkpoint \cup {Torn}) /\ Len(file) \in Nat
        /\ \A i \in 1..Len(file) : file[i] \in Checkpoint \cup {Torn}
        /\ file = <<>> => Len(file) = 0
        /\ tail => file # <<>> /\ Len(file) \in 1..Len(file)
        /\ tail \in BOOLEAN
    BY FileFacts, CurrentFacts DEF AnchorInv, FileOK, Sound
  <1>2. signed \in Nat /\ Torn \notin lost /\ Torn.id = 0
    BY ConstantFacts DEF AnchorInv, TypeOK
  <1>3. \A i \in 1..Len(file) : /\ file[i].id \in Nat /\ file[i].id <= signed
                                /\ file[i] \notin lost
    BY <1>1, ConstantFacts, CurrentFacts DEF AnchorInv, FileOK, Sound
  <1>4. line.id \in Nat
    BY ConstantFacts
  <1>5. c.tail = ~ended
    BY DEF After
  <1>6. CASE tail
    <2>1. c.lines = [file EXCEPT ![Len(file)] = Torn]
      BY <1>6 DEF After
    <2>2. /\ c.lines \in Seq(Checkpoint \cup {Torn}) /\ Len(c.lines) = Len(file)
          /\ c.lines # <<>>
      BY <1>1, <1>6, <2>1
    <2>3. /\ c.lines[Len(c.lines)] = Torn /\ Len(c.lines) \in 1..Len(c.lines)
          /\ \A i \in 1..Len(c.lines) : c.lines[i] \in {file[i], Torn}
      BY <1>1, <1>6, <2>1, <2>2
    <2>4. c \in Content
      BY <1>1, <1>6, <2>1, <2>2 DEF After, Content
    <2>5. Sound(c)'
      <3>1. ASSUME NEW x \in Lines(c) PROVE x.id <= signed + 1 /\ x \notin lost
        <4>1. PICK i \in 1..Len(c.lines) : x = c.lines[i]
          BY DEF Lines
        <4>2. x = file[i] \/ x = Torn
          BY <2>3, <4>1
        <4> QED BY <1>2, <1>3, <2>2, <4>1, <4>2
      <3> HIDE DEF Lines
      <3> QED BY <2>2, <3>1 DEF Sound
    <2>6. Holds(c, {})'
      BY <2>3 DEF Holds, Readable
    <2> QED BY <1>5, <2>2, <2>3, <2>4, <2>5, <2>6
  <1>7. CASE ~tail
    <2>1. c.lines = Append(file, line)
      BY <1>7 DEF After
    <2>2. /\ c.lines \in Seq(Checkpoint \cup {Torn}) /\ Len(c.lines) = Len(file) + 1
          /\ c.lines # <<>>
          /\ \A i \in 1..Len(file) : c.lines[i] = file[i]
          /\ c.lines[Len(file) + 1] = line
      BY <1>1, <2>1
    <2>3. c \in Content
      BY <1>7, <2>1, <2>2 DEF After, Content
    <2>4. Sound(c)'
      <3>1. ASSUME NEW x \in Lines(c) PROVE x.id <= signed + 1 /\ x \notin lost
        <4>1. PICK i \in 1..Len(c.lines) : x = c.lines[i]
          BY DEF Lines
        <4>2. x = line \/ (i \in 1..Len(file) /\ x = file[i])
          BY <1>1, <2>2, <4>1
        <4> QED BY <1>2, <1>3, <4>2
      <3> HIDE DEF Lines
      <3> QED BY <2>2, <3>1 DEF Sound
    <2>5. ASSUME Readable(c.lines)
          PROVE  /\ Sorted(c.lines)
                 /\ \A x \in Checkpoint : Standing(x)' => x \in Lines(c)
      <3>1. /\ \A i \in 1..Len(c.lines) : c.lines[i] # Torn
            /\ \A i \in 2..Len(c.lines) : /\ c.lines[i - 1].size < c.lines[i].size
                                          /\ c.lines[i - 1].ts <= c.lines[i].ts
        BY <2>5 DEF Readable
      <3>2. Readable(file)
        <4>1. \A i \in 1..Len(file) : file[i] # Torn
          BY <1>1, <2>2, <3>1
        <4>2. ASSUME NEW i \in 2..Len(file)
              PROVE  file[i - 1].size < file[i].size /\ file[i - 1].ts <= file[i].ts
          <5>1. /\ i \in 2..Len(c.lines) /\ i \in 1..Len(file) /\ i - 1 \in 1..Len(file)
            BY <1>1, <2>2
          <5>2. c.lines[i] = file[i] /\ c.lines[i - 1] = file[i - 1]
            BY <2>2, <5>1
          <5> QED BY <3>1, <5>1, <5>2
        <4> QED BY <4>1, <4>2 DEF Readable
      <3>3. Sorted(file) /\ \A x \in Checkpoint : Standing(x) => x \in Lines(Current)
        BY <3>2, CurrentFacts DEF AnchorInv, FileOK, Holds
      <3>4. \A i \in 1..Len(c.lines) : c.lines[i] \in Checkpoint /\ c.lines[i].size \in Nat
        BY <2>2, <3>1, CheckpointerAssumption DEF Checkpoint, Size
      <3>5. ASSUME NEW i \in 1..Len(c.lines), NEW j \in 1..Len(c.lines), i < j
            PROVE  c.lines[i].size < c.lines[j].size
        <4>1. CASE j <= Len(file)
          BY <1>1, <2>2, <3>3, <3>5, <4>1 DEF Sorted
        <4>2. CASE j = Len(file) + 1
          <5>1. /\ Len(file) \in 1..Len(file) /\ j \in 2..Len(c.lines) /\ j - 1 = Len(file)
                /\ i \in 1..Len(file)
            BY <1>1, <2>2, <3>5, <4>2
          <5>2. c.lines[Len(file)].size < c.lines[j].size
            BY <3>1, <5>1
          <5>3. i = Len(file) \/ file[i].size < file[Len(file)].size
            BY <1>1, <3>3, <5>1 DEF Sorted
          <5>4. c.lines[i].size = file[i].size /\ c.lines[Len(file)].size = file[Len(file)].size
            BY <2>2, <5>1
          <5> QED BY <3>4, <5>1, <5>2, <5>3, <5>4, <3>5
        <4> QED BY <1>1, <2>2, <4>1, <4>2
      <3>6. ASSUME NEW x \in Checkpoint, Standing(x)' PROVE x \in Lines(c)
        <4>1. PICK i \in 1..Len(file) : file[i] = x
          BY <3>3, <3>6, CurrentFacts
        <4> QED BY <1>1, <2>2, <4>1 DEF Lines
      <3> QED BY <3>5, <3>6 DEF Sorted
    <2>6. Holds(c, {})'
      BY <2>5 DEF Holds, Readable, Sorted, Lines
    <2> QED BY <1>5, <2>2, <2>3, <2>4, <2>6
  <1> QED BY <1>1, <1>6, <1>7

\* A write that went well or failed half-way.
LEMMA WrittenKeeps ==
    ASSUME AnchorInv, NEW line \in Checkpoint \cup {Torn}, NEW ended \in BOOLEAN,
           line.id <= signed + 1, line \notin lost, signed' = signed + 1,
           UNCHANGED <<lost, readBack>>,
           \A x \in Checkpoint : Standing(x)' => Standing(x),
           Written(line, ended)
    PROVE  /\ Current' \in Content /\ disk' \subseteq Content /\ file' # <<>> /\ tail' = ~ended
           /\ file'[Len(file')] \in {line, Torn}
           /\ FileOK' /\ DiskOK' /\ LostOK'
  <1> DEFINE full == After(line, ended)
             part == After(Torn, FALSE)
             most == After(line, FALSE)
  <1>1. /\ file' = full.lines /\ tail' = full.tail
        /\ disk' = disk \cup {part, most, Current'}
    BY DEF Written
  <1>2. TypeOK /\ DiskOK /\ signed \in Nat /\ Torn \notin lost /\ Torn.id = 0 /\ LostOK
    BY ConstantFacts DEF AnchorInv, TypeOK
  <1>3. /\ full \in Content /\ full.lines # <<>> /\ full.tail = ~ended
        /\ full.lines[Len(full.lines)] \in {line, Torn}
    BY AfterFacts
  <1>4. Current' = full
    BY <1>1, <1>3 DEF Current, Content
  <1>5. ASSUME NEW c, c \in {full, part, most} PROVE c \in Content /\ Sound(c)' /\ Holds(c, {})'
    <2>1. CASE c = part
      <3>1. Torn \in Checkpoint \cup {Torn} /\ Torn.id <= signed + 1 /\ FALSE \in BOOLEAN
        BY <1>2
      <3>2. c = After(Torn, FALSE)
        BY <2>1
      <3> QED BY <1>2, <3>1, <3>2, AfterFacts
    <2>2. CASE c = full
      BY <2>2, AfterFacts
    <2>3. CASE c = most
      BY <2>3, AfterFacts
    <2> QED BY <1>5, <2>1, <2>2, <2>3
  <1> HIDE DEF full, part, most
  <1>6. part \in Content /\ most \in Content
    BY <1>5
  <1>7. ASSUME NEW c \in disk PROVE (Sound(c) /\ Holds(c, readBack))'
    <2>1. Sound(c) /\ Holds(c, readBack) /\ \A x \in Lines(c) : x.id \in Nat
      BY <1>2, ContentFacts DEF DiskOK, TypeOK
    <2> HIDE DEF Lines, Readable, Sorted
    <2>2. (c.tail => c.lines # <<>>) /\ (\A x \in Lines(c) : x.id <= signed' /\ x \notin lost')
          /\ (Readable(c.lines) =>
                Sorted(c.lines) /\ \A x \in Checkpoint : Standing(x)' => x \in Lines(c) \cup readBack)
      BY <1>2, <2>1, ContentKept
    <2> QED BY <2>2 DEF Sound, Holds
  <1>8. FileOK'
    <2>1. ASSUME NEW c, c = Current' PROVE Sound(c)' /\ Holds(c, {})'
      BY <1>4, <1>5, <2>1
    <2> QED BY <2>1 DEF FileOK
  <1>9. DiskOK'
    <2> SUFFICES ASSUME NEW c \in disk' PROVE (Sound(c) /\ Holds(c, readBack))'
      BY DEF DiskOK
    <2>1. CASE c \in disk
      BY <1>7, <2>1
    <2>2. CASE c \in {full, part, most}
      BY <1>5, <2>2 DEF Holds
    <2> QED BY <1>1, <1>4, <2>1, <2>2
  <1>10. LostOK'
    BY <1>2, ConstantFacts DEF LostOK, TypeOK
  <1> QED BY <1>1, <1>2, <1>3, <1>4, <1>6, <1>8, <1>9, <1>10 DEF TypeOK

-----------------------------------------------------------------------------
(* The log, and the start of the server. *)

\* Another receipt.
LEMMA GrowKeeps == ASSUME AnchorInv, NEW seen \in BOOLEAN, Grow(seen) PROVE AnchorInv'
  <1> DEFINE c == [ck EXCEPT !.next = @ + 1]
  <1>1. /\ ck.pc # "off" /\ ck.next = rows /\ rows < MaxRows /\ rows' = rows + 1 /\ lastTS' = now
        /\ ck' = (IF seen THEN c ELSE ck)
        /\ UNCHANGED <<now, file, tail, disk, objects, flight, forked, readBack, lost, signed,
                       starts, faults>>
    BY DEF Grow, counters, anchor, past
  <1>2. ck \in CkType /\ TypeOK /\ rows \in Nat /\ MaxRows \in Nat /\ signed \in Nat
    BY CkTyped, CheckpointerAssumption DEF AnchorInv, TypeOK
  <1>3. /\ c \in CkType /\ c.pc = ck.pc /\ c.lastSize = ck.lastSize /\ c.cp = ck.cp
        /\ c.pending = ck.pending /\ c.next = rows + 1
    BY <1>1, <1>2 DEF CkType
  <1> HIDE DEF c
  <1>4. /\ ck' \in CkType /\ ck'.pc = ck.pc /\ ck'.lastSize = ck.lastSize /\ ck'.cp = ck.cp
        /\ ck'.pending = ck.pending /\ ck'.next <= rows'
    BY <1>1, <1>2, <1>3
  <1>5. TypeOK'
    BY <1>1, <1>2, <1>4 DEF TypeOK, CkType, Current
  <1>6. OfferedOnce' /\ OfferedPast' /\ FileOK' /\ DiskOK' /\ LostOK'
    BY <1>1, <1>2, <1>4, OfferedSame, Fewer
  <1>7. PassOK'
    <2>1. ck.lastSize \in Nat
      BY <1>2 DEF CkType
    <2> QED BY <1>1, <1>2, <1>4, <2>1 DEF AnchorInv, PassOK
  <1>8. NoFalseFork' /\ FiledUnderSize'
    BY <1>1 DEF AnchorInv, NoFalseFork, FiledUnderSize
  <1> QED BY <1>5, <1>6, <1>7, <1>8 DEF AnchorInv

\* Steps that change none of the state but the wall clock.
LEMMA StutterKeeps ==
    ASSUME AnchorInv, now' \in Time,
           UNCHANGED <<rows, lastTS, file, tail, disk, objects, flight, forked, readBack, lost,
                       ck, signed, starts, faults>>
    PROVE  AnchorInv'
  <1>1. signed \in Nat
    BY DEF AnchorInv, TypeOK
  <1>2. OfferedOnce' /\ OfferedPast' /\ FileOK' /\ DiskOK' /\ LostOK'
    BY <1>1, OfferedSame, Fewer
  <1>3. TypeOK' /\ PassOK' /\ NoFalseFork' /\ FiledUnderSize'
    BY DEF AnchorInv, TypeOK, PassOK, NoFalseFork, FiledUnderSize, Current
  <1> QED BY <1>2, <1>3 DEF AnchorInv

\* The server goes on after the last line of the file: nothing that stands is
\* larger, and what has its size is that line.  If the line is not synced, a
\* start has now taken it from the file.
LEMMA StartKeeps == ASSUME AnchorInv, Start PROVE AnchorInv'
  <1> DEFINE last == IF file = <<>> THEN NoLine ELSE file[Len(file)]
             c == [Off EXCEPT !.pc = "idle", !.next = rows, !.lastSize = last.size,
                              !.pending = last]
  <1>1. /\ ck.pc = "off" /\ starts < MaxStarts /\ Readable(file) /\ ck' = c
        /\ starts' = starts + 1
        /\ readBack' = (IF disk = {Current} THEN readBack ELSE readBack \cup ({ck'.pending} \ {NoLine}))
        /\ UNCHANGED <<rows, lastTS, now, file, tail, disk, objects, flight, forked, lost, signed,
                       faults>>
    BY DEF Start, log, Resumed, anchor
  <1>2. /\ TypeOK /\ rows \in 0..MaxRows /\ ck = Off /\ FileOK /\ DiskOK /\ LostOK
        /\ lost \subseteq Checkpoint /\ signed \in Nat
    BY <1>1 DEF AnchorInv, TypeOK, PassOK
  <1>3. /\ Len(file) \in Nat /\ Sorted(file)
        /\ \A x \in Checkpoint : Standing(x) => \E i \in 1..Len(file) : file[i] = x
        /\ file = <<>> => Len(file) = 0
        /\ file # <<>> => Len(file) \in 1..Len(file)
        /\ \A i \in 1..Len(file) : /\ file[i] \in Checkpoint /\ file[i].size \in Size
                                   /\ file[i].id <= signed /\ file[i] \notin lost
    <2>1. \A i \in 1..Len(file) : file[i] \in Checkpoint
      BY <1>1, <1>2, FileFacts DEF Readable
    <2>2. Sorted(file) /\ \A x \in Checkpoint : Standing(x) => \E i \in 1..Len(file) : file[i] = x
      BY <1>1, CurrentFacts DEF AnchorInv, FileOK, Holds
    <2>3. \A i \in 1..Len(file) : file[i].id <= signed /\ file[i] \notin lost
      BY <1>2, CurrentFacts DEF FileOK, Sound
    <2> QED BY <1>2, <2>1, <2>2, <2>3, FileFacts DEF Checkpoint
  <1>4. /\ last \in Checkpoint \cup {NoLine} /\ last.size \in 0..MaxRows /\ last \notin lost
        /\ last # NoLine => file # <<>> /\ last = file[Len(file)] /\ last.id <= signed
        /\ file # <<>> => last = file[Len(file)]
    BY <1>2, <1>3, ConstantFacts, CheckpointerAssumption DEF Size
  <1> HIDE DEF last
  <1>5. /\ c \in CkType /\ c.pc = "idle" /\ c.next = rows /\ c.lastSize = last.size
        /\ c.pending = last
    BY <1>2, <1>4, ConstantFacts DEF CkType
  <1> HIDE DEF c
  <1>6. /\ readBack' \subseteq Checkpoint /\ readBack \subseteq readBack'
        /\ \A x \in readBack' : x \in readBack \/ (x = last /\ last # NoLine)
        /\ disk # {Current} => last \in readBack' \cup {NoLine}
    BY <1>1, <1>2, <1>4, <1>5 DEF TypeOK
  <1>7. TypeOK'
    BY <1>1, <1>2, <1>5, <1>6, CheckpointerAssumption DEF TypeOK, CkType, Current
  <1>8. \A x \in Checkpoint : Standing(x)' => Standing(x) \/ (x = last /\ last # NoLine)
    BY <1>1, <1>5 DEF Standing, Offered
  <1>9. ASSUME NEW x \in Checkpoint, Standing(x)'
        PROVE  \E i \in 1..Len(file) : file[i] = x
    BY <1>3, <1>4, <1>8, <1>9
  <1>10. OfferedOnce'
    <2> SUFFICES ASSUME NEW x \in Checkpoint, NEW y \in Checkpoint, Standing(x)', Standing(y)',
                        x.size = y.size
                 PROVE  x = y
      BY DEF OfferedOnce
    <2>1. PICK i \in 1..Len(file) : file[i] = x
      BY <1>9
    <2>2. PICK j \in 1..Len(file) : file[j] = y
      BY <1>9
    <2>3. ~(i < j) /\ ~(j < i)
      BY <1>3, <2>1, <2>2, CheckpointerAssumption DEF Sorted, Size
    <2> QED BY <1>3, <2>1, <2>2, <2>3
  <1>11. OfferedPast'
    <2> SUFFICES ASSUME NEW x \in Checkpoint, Standing(x)' PROVE x.size <= last.size
      BY <1>1, <1>5 DEF OfferedPast
    <2>1. PICK i \in 1..Len(file) : file[i] = x
      BY <1>9
    <2>2. file # <<>> /\ Len(file) \in 1..Len(file) /\ last = file[Len(file)]
      BY <1>3, <1>4, <2>1
    <2>3. i = Len(file) \/ file[i].size < file[Len(file)].size
      BY <1>3, <2>2 DEF Sorted
    <2>4. x.size \in Nat /\ last.size \in Nat
      BY <1>3, <2>1, <2>2, CheckpointerAssumption DEF Size
    <2> QED BY <2>1, <2>2, <2>3, <2>4
  <1>12. FileOK'
    <2>1. Sound(Current)'
      BY <1>1, <1>2 DEF FileOK, Sound, Current, Lines
    <2>2. Holds(Current, {})'
      BY <1>1, <1>3, <1>9 DEF Holds, Current, Lines, Sorted
    <2> QED BY <2>1, <2>2 DEF FileOK
  <1>13. DiskOK'
    <2> SUFFICES ASSUME NEW d \in disk PROVE (Sound(d) /\ Holds(d, readBack))'
      BY <1>1 DEF DiskOK
    <2>1. Sound(d) /\ Holds(d, readBack)
      BY <1>2 DEF DiskOK
    <2>2. Sound(d)'
      BY <1>1, <2>1 DEF Sound
    <2>3. ASSUME Readable(d.lines), NEW x \in Checkpoint, Standing(x)'
          PROVE  x \in Lines(d) \cup readBack'
      <3>1. CASE Standing(x)
        BY <1>6, <2>1, <2>3, <3>1 DEF Holds
      <3>2. CASE x = last /\ last # NoLine /\ disk # {Current}
        BY <1>6, <3>2
      <3>3. CASE x = last /\ last # NoLine /\ disk = {Current}
        <4>1. d = Current
          BY <3>3
        <4>2. x \in Lines(Current)
          BY <1>9, <2>3, CurrentFacts
        <4> QED BY <4>1, <4>2
      <3> QED BY <1>8, <2>3, <3>1, <3>2, <3>3
    <2>4. Holds(d, readBack)'
      <3>1. Readable(d.lines) => Sorted(d.lines)
        BY <2>1 DEF Holds
      <3> HIDE DEF Readable, Sorted, Lines
      <3> QED BY <2>3, <3>1 DEF Holds
    <2> QED BY <2>2, <2>4
  <1>14. LostOK'
    BY <1>1, <1>2, <1>4, <1>6 DEF LostOK
  <1>15. PassOK' /\ NoFalseFork' /\ FiledUnderSize'
    BY <1>1, <1>2, <1>4, <1>5, CheckpointerAssumption
    DEF AnchorInv, PassOK, NoFalseFork, FiledUnderSize
  <1> QED BY <1>7, <1>10, <1>11, <1>12, <1>13, <1>14, <1>15 DEF AnchorInv

-----------------------------------------------------------------------------
(* One pass. *)

\* The size is read; a checkpoint is due only if there is something to cover.
LEMMA TickKeeps == ASSUME AnchorInv, NEW force \in BOOLEAN, Tick(force) PROVE AnchorInv'
  <1> DEFINE age == IF ck.age < Interval THEN ck.age + 1 ELSE Interval
             due == ck.next > ck.lastSize /\ (force \/ Due(ck.lastSize, ck.next, age))
             wait == IF ck.wait > 0 THEN ck.wait - 1 ELSE 0
             pc == IF due THEN "export" ELSE "offer"
             c == [ck EXCEPT !.pc = pc, !.force = force, !.age = age, !.ts = now, !.wait = wait]
  <1>1. /\ ck.pc = "idle" /\ ck' = c
        /\ UNCHANGED <<rows, lastTS, now, file, tail, disk, objects, flight, forked, readBack, lost,
                       signed, starts, faults>>
    BY DEF Tick, log, counters, anchor, past
  <1>2. /\ ck \in CkType /\ TypeOK /\ now \in Time /\ ck.next <= rows /\ rows \in Nat
        /\ signed \in Nat
    BY <1>1, CkTyped, CheckpointerAssumption DEF AnchorInv, TypeOK, PassOK
  <1>3. age \in 0..Interval /\ wait \in 0..MaxWait
    BY <1>2, CheckpointerAssumption DEF CkType
  <1>4. pc \in {"export", "offer"} /\ (pc = "export" => ck.next > ck.lastSize)
    OBVIOUS
  <1> HIDE DEF age, due, wait, pc
  <1>5. /\ c \in CkType /\ c.pc = pc /\ c.next = ck.next /\ c.lastSize = ck.lastSize
        /\ c.pending = ck.pending
    BY <1>2, <1>3, <1>4 DEF CkType
  <1> HIDE DEF c
  <1>6. TypeOK'
    BY <1>1, <1>2, <1>5 DEF TypeOK, CkType, Current
  <1>7. OfferedOnce' /\ OfferedPast' /\ FileOK' /\ DiskOK' /\ LostOK'
    BY <1>1, <1>2, <1>4, <1>5, OfferedSame, Fewer
  <1>8. PassOK'
    <2>1. ck.next \in Nat /\ ck.lastSize \in Nat
      BY <1>2 DEF CkType
    <2> QED BY <1>1, <1>2, <1>4, <1>5, <2>1 DEF AnchorInv, PassOK
  <1>9. NoFalseFork' /\ FiledUnderSize'
    BY <1>1 DEF AnchorInv, NoFalseFork, FiledUnderSize
  <1> QED BY <1>6, <1>7, <1>8, <1>9 DEF AnchorInv

\* What is signed covers more than the last checkpoint, and is new.
LEMMA SignedFacts ==
    ASSUME AnchorInv, ck.pc = "export"
    PROVE  /\ Signed \in Checkpoint /\ Signed.size = rows /\ ck.lastSize < rows
           /\ Signed.id <= signed + 1 /\ Signed \notin lost
  <1>1. /\ rows \in 0..MaxRows /\ ck.ts \in Time /\ signed + 1 \in Nat \ {0} /\ signed \in Nat
        /\ ck.lastSize < rows /\ ck.lastSize \in Nat
    BY DEF AnchorInv, TypeOK, PassOK
  <1>2. rows \in Size
    BY <1>1, CheckpointerAssumption DEF Size
  <1>3. \A x \in lost : x.id <= signed
    BY DEF AnchorInv, LostOK
  <1>4. Signed.id = signed + 1 /\ Signed.size = rows /\ Signed \in Checkpoint
    BY <1>1, <1>2 DEF Signed, Checkpoint
  <1> HIDE DEF Signed
  <1> QED BY <1>1, <1>3, <1>4

\* The line is written and not yet synced.
LEMMA WriteKeeps == ASSUME AnchorInv, Write PROVE AnchorInv'
  <1> DEFINE line == Signed
             c == [ck EXCEPT !.pc = "sync", !.cp = line]
  <1>1. /\ ck.pc = "export" /\ Written(line, TRUE) /\ ck' = c /\ signed' = signed + 1
        /\ UNCHANGED <<rows, lastTS, now, objects, flight, forked, readBack, lost, starts, faults>>
    BY DEF Write, log, past
  <1>2. /\ ck \in CkType /\ TypeOK /\ line \in Checkpoint /\ ck.lastSize < line.size
        /\ ck.next <= rows /\ line.id <= signed + 1 /\ line \notin lost
    BY <1>1, CkTyped, SignedFacts DEF AnchorInv, PassOK
  <1> HIDE DEF line
  <1>3. /\ c \in CkType /\ c.pc = "sync" /\ c.cp = line /\ c.next = ck.next
        /\ c.lastSize = ck.lastSize /\ c.pending = ck.pending
    BY <1>2 DEF CkType
  <1> HIDE DEF c
  <1>4. \A x \in Checkpoint : Standing(x)' => Standing(x)
    BY <1>1, <1>3, OfferedSame
  <1>5. /\ Current' \in Content /\ disk' \subseteq Content /\ file' # <<>> /\ tail' = FALSE
        /\ file'[Len(file')] \in {line, Torn}
        /\ FileOK' /\ DiskOK' /\ LostOK'
    BY <1>1, <1>2, <1>4, WrittenKeeps
  <1>6. TypeOK'
    <2>1. signed' \in Nat
      BY <1>1, <1>2 DEF TypeOK
    <2> QED BY <1>1, <1>2, <1>3, <1>5, <2>1 DEF TypeOK, CkType
  <1>7. OfferedOnce' /\ OfferedPast'
    BY <1>1, <1>3, <1>4 DEF AnchorInv, OfferedOnce, OfferedPast
  <1>8. PassOK'
    BY <1>1, <1>2, <1>3, <1>5 DEF PassOK, AnchorInv
  <1>9. NoFalseFork' /\ FiledUnderSize'
    BY <1>1 DEF AnchorInv, NoFalseFork, FiledUnderSize
  <1> QED BY <1>5, <1>6, <1>7, <1>8, <1>9 DEF AnchorInv

\* A checkpoint that is given up leaves the rest of the record as it was.
LEMMA NotNotedFacts ==
    ASSUME ck \in CkType, NEW cp
    PROVE  /\ NotNoted(cp) \in CkType /\ NotNoted(cp).pc = "offer" /\ NotNoted(cp).next = ck.next
           /\ NotNoted(cp).lastSize = ck.lastSize /\ NotNoted(cp).pending = ck.pending
  <1> DEFINE c == [ck EXCEPT !.pc = "offer", !.cp = NoLine]
  <1>1. /\ c \in CkType /\ c.pc = "offer" /\ c.next = ck.next
        /\ c.lastSize = ck.lastSize /\ c.pending = ck.pending
    BY DEF CkType
  <1> HIDE DEF c
  <1>2. NotNoted(cp) = c
    BY DEF NotNoted, c
  <1> QED BY <1>1, <1>2

\* The write fails with nothing, part or nearly all of the line in the file.
LEMMA WriteFailedKeeps == ASSUME AnchorInv, WriteFailed PROVE AnchorInv'
  <1>1. /\ ck.pc = "export" /\ ck' = NotNoted(Signed) /\ signed' = signed + 1
        /\ faults < MaxFaults /\ faults' = faults + 1
        /\ UNCHANGED <<rows, lastTS, now, objects, flight, forked, readBack, lost, starts>>
    BY DEF WriteFailed, log, past
  <1>2. /\ TypeOK /\ ck \in CkType /\ Signed \in Checkpoint /\ ck.next <= rows
        /\ Signed.id <= signed + 1 /\ Signed \notin lost
        /\ signed \in Nat /\ Torn \notin lost /\ Torn.id = 0
    BY <1>1, CkTyped, SignedFacts, ConstantFacts DEF AnchorInv, PassOK, TypeOK
  <1>3. /\ ck' \in CkType /\ ck'.pc = "offer" /\ ck'.next = ck.next
        /\ ck'.lastSize = ck.lastSize /\ ck'.pending = ck.pending
    BY <1>1, <1>2, NotNotedFacts
  <1>4. \A x \in Checkpoint : Standing(x)' => Standing(x)
    BY <1>1, <1>3, OfferedSame
  <1>5. Current' \in Content /\ disk' \subseteq Content /\ FileOK' /\ DiskOK' /\ LostOK'
    <2>1. CASE UNCHANGED anchor
      <3>1. UNCHANGED <<file, tail, disk>> /\ signed <= signed' /\ signed' \in Nat
        BY <1>1, <1>2, <2>1 DEF anchor
      <3>2. FileOK' /\ DiskOK' /\ LostOK'
        BY <1>1, <1>2, <1>3, <1>4, <3>1, Fewer
      <3> QED BY <1>2, <3>1, <3>2 DEF TypeOK, Current
    <2>2. ASSUME NEW line \in {Torn, Signed}, Written(line, FALSE)
          PROVE  Current' \in Content /\ disk' \subseteq Content /\ FileOK' /\ DiskOK' /\ LostOK'
      <3>1. line \in Checkpoint \cup {Torn} /\ line.id <= signed + 1 /\ line \notin lost
        BY <1>2, <2>2
      <3> QED BY <1>1, <1>4, <2>2, <3>1, WrittenKeeps
    <2> QED BY <2>1, <2>2 DEF WriteFailed
  <1>6. TypeOK'
    BY <1>1, <1>2, <1>3, <1>5, CheckpointerAssumption DEF TypeOK, CkType
  <1>7. OfferedOnce' /\ OfferedPast'
    BY <1>1, <1>3, <1>4 DEF AnchorInv, OfferedOnce, OfferedPast
  <1>8. PassOK'
    BY <1>1, <1>2, <1>3 DEF PassOK, AnchorInv
  <1>9. NoFalseFork' /\ FiledUnderSize'
    BY <1>1 DEF AnchorInv, NoFalseFork, FiledUnderSize
  <1> QED BY <1>5, <1>6, <1>7, <1>8, <1>9 DEF AnchorInv

\* The line is anchored and on the disk.  It is larger than whatever stands.
LEMMA SyncKeeps == ASSUME AnchorInv, Sync PROVE AnchorInv'
  <1> DEFINE cp == ck.cp
             size == cp.size
             c == [ck EXCEPT !.pc = "offer", !.lastSize = size, !.age = 0, !.pending = cp,
                             !.cp = NoLine]
  <1>1. /\ ck.pc = "sync" /\ ck' = c /\ disk' = {Current}
        /\ UNCHANGED <<rows, lastTS, now, file, tail, objects, flight, forked, readBack, lost,
                       signed, starts, faults>>
    BY DEF Sync, log, counters, Noted, Synced, past
  <1>2. /\ ck \in CkType /\ TypeOK /\ cp \in Checkpoint /\ ck.lastSize < cp.size /\ ck.next <= rows
        /\ file # <<>> /\ file[Len(file)] \in {cp, Torn} /\ cp \notin lost /\ FileOK /\ LostOK
    BY <1>1, CkTyped DEF AnchorInv, PassOK
  <1>3. cp.size \in 0..MaxRows /\ cp.size \in Nat /\ ck.lastSize \in Nat
    BY <1>2, CheckpointerAssumption DEF Checkpoint, Size, CkType
  <1> HIDE DEF cp
  <1>4. /\ c \in CkType /\ c.pc = "offer" /\ c.next = ck.next /\ c.lastSize = cp.size
        /\ c.pending = cp
    <2>1. 0 \in 0..Interval /\ size \in 0..MaxRows /\ size = cp.size
      BY <1>3, CheckpointerAssumption
    <2> HIDE DEF size
    <2>2. c \in CkType
      BY <1>2, <2>1 DEF CkType
    <2>3. c.pc = "offer" /\ c.next = ck.next /\ c.lastSize = size /\ c.pending = cp
      BY <1>2 DEF CkType
    <2> QED BY <2>1, <2>2, <2>3
  <1> HIDE DEF c
  <1>5. \A x \in Checkpoint : Standing(x)' => Standing(x) \/ x = cp
    BY <1>1, <1>4 DEF Standing, Offered
  <1>6. \A x \in Checkpoint : Standing(x) => x.size <= ck.lastSize /\ x.size \in Nat
    BY <1>1, CheckpointerAssumption DEF AnchorInv, OfferedPast, Checkpoint, Size
  <1>7. OfferedPast'
    BY <1>1, <1>2, <1>3, <1>4, <1>5, <1>6 DEF OfferedPast
  <1>8. OfferedOnce'
    <2> SUFFICES ASSUME NEW x \in Checkpoint, NEW y \in Checkpoint, Standing(x)', Standing(y)',
                        x.size = y.size
                 PROVE  x = y
      BY DEF OfferedOnce
    <2>1. (Standing(x) \/ x = cp) /\ (Standing(y) \/ y = cp)
      BY <1>5
    <2>2. CASE Standing(x) /\ Standing(y)
      BY <2>2 DEF AnchorInv, OfferedOnce
    <2>3. ~(Standing(x) /\ y = cp) /\ ~(Standing(y) /\ x = cp)
      BY <1>2, <1>3, <1>6
    <2> QED BY <2>1, <2>2, <2>3
  <1>9. Sound(Current)'
    BY <1>1, <1>2 DEF FileOK, Sound, Current, Lines
  <1>10. ASSUME Readable(file)
         PROVE  Sorted(file) /\ \A x \in Checkpoint : Standing(x)' => x \in Lines(Current)
    <2>1. Sorted(file) /\ \A x \in Checkpoint : Standing(x) => x \in Lines(Current)
      BY <1>2, <1>10, CurrentFacts DEF FileOK, Holds
    <2>2. file[Len(file)] = cp /\ Len(file) \in 1..Len(file)
      BY <1>2, <1>10, FileFacts DEF Readable
    <2>3. cp \in Lines(Current)
      BY <2>2, CurrentFacts
    <2> QED BY <1>5, <2>1, <2>3
  <1>11. Holds(Current, {})' /\ Holds(Current, readBack)'
    BY <1>1, <1>10 DEF Holds, Current, Lines, Sorted, Readable
  <1>12. FileOK' /\ DiskOK' /\ LostOK'
    <2>1. DiskOK'
      <3> SUFFICES ASSUME NEW d, d = Current' PROVE (Sound(d) /\ Holds(d, readBack))'
        BY <1>1 DEF DiskOK, Current
      <3> QED BY <1>9, <1>11
    <2>2. LostOK'
      BY <1>1, <1>2 DEF LostOK
    <2> QED BY <1>9, <1>11, <2>1, <2>2 DEF FileOK
  <1>13. TypeOK'
    BY <1>1, <1>2, <1>4 DEF TypeOK, CkType, Current
  <1>14. PassOK'
    BY <1>1, <1>2, <1>4 DEF PassOK
  <1>15. NoFalseFork' /\ FiledUnderSize'
    BY <1>1 DEF AnchorInv, NoFalseFork, FiledUnderSize
  <1> QED BY <1>7, <1>8, <1>12, <1>13, <1>14, <1>15 DEF AnchorInv

\* The line stays, and the checkpointer takes it for lost.
LEMMA SyncFailedKeeps == ASSUME AnchorInv, SyncFailed PROVE AnchorInv'
  <1>1. /\ ck.pc = "sync" /\ ck' = NotNoted(ck.cp) /\ faults < MaxFaults /\ faults' = faults + 1
        /\ UNCHANGED <<rows, lastTS, now, file, tail, disk, objects, flight, forked, readBack, lost,
                       signed, starts>>
    BY DEF SyncFailed, log, anchor, past
  <1>2. TypeOK /\ ck \in CkType /\ ck.next <= rows /\ signed \in Nat
    BY <1>1, CkTyped DEF AnchorInv, PassOK, TypeOK
  <1>3. /\ ck' \in CkType /\ ck'.pc = "offer" /\ ck'.next = ck.next
        /\ ck'.lastSize = ck.lastSize /\ ck'.pending = ck.pending
    BY <1>1, <1>2, NotNotedFacts
  <1>4. OfferedOnce' /\ OfferedPast' /\ FileOK' /\ DiskOK' /\ LostOK'
    BY <1>1, <1>2, <1>3, OfferedSame, Fewer
  <1>5. TypeOK'
    BY <1>1, <1>2, <1>3, CheckpointerAssumption DEF TypeOK, CkType, Current
  <1>6. PassOK'
    BY <1>1, <1>2, <1>3 DEF PassOK, AnchorInv
  <1>7. NoFalseFork' /\ FiledUnderSize'
    BY <1>1 DEF AnchorInv, NoFalseFork, FiledUnderSize
  <1> QED BY <1>4, <1>5, <1>6, <1>7 DEF AnchorInv

-----------------------------------------------------------------------------
(* The end of a pass, and the store. *)

\* A pass ends with the server off or idle.
LEMMA DoneFacts ==
    ASSUME NEW c \in CkType
    PROVE  /\ Done(c) \in CkType
           /\ \/ Done(c) = Off
              \/ /\ Done(c).pc = "idle" /\ Done(c).next = c.next
                 /\ Done(c).lastSize = c.lastSize /\ Done(c).pending = c.pending
  <1> DEFINE d == [c EXCEPT !.pc = "idle"]
  <1>1. /\ d \in CkType /\ d.pc = "idle" /\ d.next = c.next /\ d.lastSize = c.lastSize
        /\ d.pending = c.pending
    BY DEF CkType
  <1>2. Done(c) = Off \/ Done(c) = d
    BY DEF Done
  <1> HIDE DEF d
  <1> QED BY <1>1, <1>2, ConstantFacts

\* The end of a pass keeps the invariant if the store holds nothing that was not
\* offered before, each under its size, and what it held for another was lost.
LEMMA EndKeeps ==
    ASSUME AnchorInv, NEW c \in CkType, c.next = ck.next, c.lastSize = ck.lastSize,
           c.pending \in {ck.pending, NoLine}, ck.pc = "offer", ck' = Done(c),
           UNCHANGED <<rows, lastTS, now, file, tail, disk, readBack, lost, signed, starts, faults>>,
           objects' \in [Size -> Checkpoint \cup {NoLine}], flight' \subseteq Checkpoint,
           forked' \subseteq lost, FiledUnderSize',
           \A x \in Checkpoint :
               (\E s \in Size : objects'[s] = x) \/ x \in flight' => Offered(x)
    PROVE  AnchorInv'
  <1>1. /\ ck' \in CkType
        /\ \/ ck' = Off
           \/ /\ ck'.pc = "idle" /\ ck'.next = ck.next /\ ck'.lastSize = ck.lastSize
              /\ ck'.pending \in {ck.pending, NoLine}
    BY DoneFacts
  <1>2. TypeOK /\ ck.next <= rows /\ signed \in Nat /\ lost \subseteq Checkpoint
    BY DEF AnchorInv, PassOK, TypeOK
  <1>3. \A x \in Checkpoint : Standing(x)' => Standing(x)
    BY <1>1, ConstantFacts DEF Standing, Offered
  <1>4. OfferedOnce' /\ OfferedPast' /\ FileOK' /\ DiskOK' /\ LostOK'
    BY <1>1, <1>2, <1>3, ConstantFacts, Fewer
  <1>5. TypeOK'
    BY <1>1, <1>2 DEF TypeOK, CkType, Current
  <1>6. PassOK'
    BY <1>1, <1>2, ConstantFacts DEF AnchorInv, PassOK
  <1>7. NoFalseFork'
    BY DEF NoFalseFork
  <1> QED BY <1>4, <1>5, <1>6, <1>7 DEF AnchorInv

\* Nothing is offered in this pass.
LEMMA SkipKeeps == ASSUME AnchorInv, Skip PROVE AnchorInv'
  <1>1. /\ ck.pc = "offer" /\ ck' = Done(ck)
        /\ UNCHANGED <<rows, lastTS, now, file, tail, disk, objects, flight, forked, readBack, lost,
                       signed, starts, faults>>
    BY DEF Skip, log, counters, anchor, past
  <1>2. ck \in CkType /\ TypeOK
    BY CkTyped DEF AnchorInv
  <1>3. FiledUnderSize' /\ forked' \subseteq lost
    BY <1>1, <1>2 DEF AnchorInv, FiledUnderSize, NoFalseFork, TypeOK
  <1>4. /\ objects' \in [Size -> Checkpoint \cup {NoLine}] /\ flight' \subseteq Checkpoint
        /\ \A x \in Checkpoint :
               (\E s \in Size : objects'[s] = x) \/ x \in flight' => Offered(x)
    BY <1>1, <1>2, ConstantFacts DEF TypeOK, Offered
  <1> QED BY <1>1, <1>2, <1>3, <1>4, EndKeeps

\* What the store does with a line under its size: a line it already holds
\* stays, and if that is another than one that stands, it was lost.
LEMMA StoreFacts ==
    ASSUME AnchorInv, NEW line \in Checkpoint, Offered(line),
           objects' = [objects EXCEPT ![line.size] = IF objects[line.size] = NoLine THEN line
                                                     ELSE objects[line.size]]
    PROVE  /\ objects' \in [Size -> Checkpoint \cup {NoLine}]
           /\ FiledUnderSize'
           /\ \A x \in Checkpoint : (\E s \in Size : objects'[s] = x) => Offered(x)
           /\ line \notin lost => objects[line.size] \in {NoLine, line} \cup lost
  <1>1. objects \in [Size -> Checkpoint \cup {NoLine}] /\ line.size \in Size /\ line # NoLine
    BY ConstantFacts DEF AnchorInv, TypeOK, Checkpoint
  <1>2. /\ objects' \in [Size -> Checkpoint \cup {NoLine}]
        /\ \A s \in Size : objects'[s] = objects[s] \/ (objects'[s] = line /\ s = line.size)
    BY <1>1
  <1>3. FiledUnderSize'
    BY <1>2 DEF AnchorInv, FiledUnderSize
  <1>4. \A s \in Size : objects[s] # NoLine => Offered(objects[s])
    BY <1>1 DEF Offered
  <1>5. \A x \in Checkpoint : (\E s \in Size : objects'[s] = x) => Offered(x)
    BY <1>2, <1>4, ConstantFacts
  <1>6. ASSUME line \notin lost PROVE objects[line.size] \in {NoLine, line} \cup lost
    <2> SUFFICES ASSUME objects[line.size] # NoLine, objects[line.size] \notin lost
                 PROVE  objects[line.size] = line
      OBVIOUS
    <2>1. objects[line.size] \in Checkpoint /\ objects[line.size].size = line.size
      BY <1>1 DEF AnchorInv, FiledUnderSize
    <2>2. Standing(objects[line.size]) /\ Standing(line)
      BY <1>1, <1>4, <1>6 DEF Standing
    <2> QED BY <2>1, <2>2 DEF AnchorInv, OfferedOnce
  <1> QED BY <1>2, <1>3, <1>5, <1>6

\* The checkpointer's line is in the store, or the very same line was already,
\* or one that was lost.
LEMMA PublishedKeeps == ASSUME AnchorInv, Published PROVE AnchorInv'
  <1> DEFINE line == ck.pending
             c == [ck EXCEPT !.pending = NoLine, !.failures = 0, !.wait = 0]
  <1>1. /\ ck.pc = "offer" /\ line # NoLine /\ ck' = Done(c)
        /\ objects' = [objects EXCEPT ![line.size] = IF objects[line.size] = NoLine THEN line
                                                     ELSE objects[line.size]]
        /\ forked' = forked \cup ({objects[line.size]} \ {NoLine, line})
        /\ UNCHANGED <<rows, lastTS, now, file, tail, disk, flight, readBack, lost, signed, starts,
                       faults>>
    BY DEF Published, Offering, Settled, log, counters, anchor
  <1>2. ck \in CkType /\ TypeOK /\ forked \subseteq lost /\ line \notin lost
    BY CkTyped DEF AnchorInv, TypeOK, NoFalseFork, PassOK
  <1>3. line \in Checkpoint /\ Offered(line)
    BY <1>1, <1>2 DEF CkType, Offered
  <1>4. c \in CkType /\ c.next = ck.next /\ c.lastSize = ck.lastSize /\ c.pending = NoLine
    <2>1. 0 \in 0..MaxShift /\ 0 \in 0..MaxWait
      BY CheckpointerAssumption
    <2> QED BY <1>2, <2>1 DEF CkType
  <1>5. flight' \subseteq Checkpoint /\ \A x \in Checkpoint : x \in flight' => Offered(x)
    BY <1>1, <1>2, ConstantFacts DEF TypeOK, Offered
  <1> HIDE DEF line, c
  <1>6. /\ objects' \in [Size -> Checkpoint \cup {NoLine}]
        /\ FiledUnderSize'
        /\ \A x \in Checkpoint : (\E s \in Size : objects'[s] = x) => Offered(x)
        /\ objects[line.size] \in {NoLine, line} \cup lost
    BY <1>1, <1>2, <1>3, StoreFacts
  <1>7. forked' \subseteq lost
    BY <1>1, <1>2, <1>6
  <1> QED BY <1>1, <1>4, <1>5, <1>6, <1>7, EndKeeps

\* The wait stays within its bound.
LEMMA BackoffFacts == ASSUME NEW n \in 0..MaxShift PROVE Backoff(n) \in 0..MaxWait
  <1>1. MaxWait \in 0..MaxWait
    BY CheckpointerAssumption
  <1>2. CASE 2 ^ n \in 0..MaxWait
    BY <1>2 DEF Backoff
  <1>3. CASE ~(2 ^ n \in 0..MaxWait)
    BY <1>1, <1>3 DEF Backoff
  <1> QED BY <1>2, <1>3

\* The line goes on waiting, and its request may still be under way.
LEMMA PublishFailedKeeps == ASSUME AnchorInv, PublishFailed PROVE AnchorInv'
  <1> DEFINE n == IF ck.failures < MaxShift THEN ck.failures + 1 ELSE MaxShift
             w == Backoff(n)
             c == [ck EXCEPT !.failures = n, !.wait = w]
  <1>1. /\ ck.pc = "offer" /\ ck.pending # NoLine /\ ck' = Done(c)
        /\ flight' \in {flight, flight \cup {ck.pending}}
        /\ UNCHANGED <<rows, lastTS, now, file, tail, disk, objects, forked, readBack, lost, signed,
                       starts, faults>>
    BY DEF PublishFailed, Offering, Unreached, log, counters, anchor, past
  <1>2. ck \in CkType /\ TypeOK /\ forked \subseteq lost
    BY CkTyped DEF AnchorInv, TypeOK, NoFalseFork
  <1>3. n \in 0..MaxShift
    BY <1>2, CheckpointerAssumption DEF CkType
  <1> HIDE DEF n
  <1>4. w \in 0..MaxWait
    BY <1>3, BackoffFacts
  <1> HIDE DEF w
  <1>5. /\ c \in CkType /\ c.next = ck.next /\ c.lastSize = ck.lastSize
        /\ c.pending = ck.pending
    BY <1>2, <1>3, <1>4 DEF CkType
  <1> HIDE DEF c
  <1>6. ck.pending \in Checkpoint /\ Offered(ck.pending)
    BY <1>1, <1>2 DEF CkType, Offered
  <1>7. /\ objects' \in [Size -> Checkpoint \cup {NoLine}] /\ flight' \subseteq Checkpoint
        /\ \A x \in Checkpoint :
               (\E s \in Size : objects'[s] = x) \/ x \in flight' => Offered(x)
    BY <1>1, <1>2, <1>6, ConstantFacts DEF TypeOK, Offered
  <1>8. FiledUnderSize' /\ forked' \subseteq lost
    BY <1>1, <1>2 DEF AnchorInv, FiledUnderSize
  <1> QED BY <1>1, <1>5, <1>7, <1>8, EndKeeps

\* A late request finds the name free or taken; the line was offered before.
LEMMA ArriveKeeps == ASSUME AnchorInv, NEW line \in flight, Arrive(line) PROVE AnchorInv'
  <1>1. /\ objects' = [objects EXCEPT ![line.size] = IF objects[line.size] = NoLine THEN line
                                                     ELSE objects[line.size]]
        /\ flight' = flight \ {line}
        /\ UNCHANGED <<rows, lastTS, now, file, tail, disk, forked, readBack, lost, ck, signed,
                       starts, faults>>
    BY DEF Arrive, log, counters, anchor, past
  <1>2. TypeOK /\ line \in Checkpoint /\ Offered(line) /\ signed \in Nat
    BY ConstantFacts DEF AnchorInv, TypeOK, Offered
  <1>3. /\ objects' \in [Size -> Checkpoint \cup {NoLine}]
        /\ FiledUnderSize'
        /\ \A x \in Checkpoint : (\E s \in Size : objects'[s] = x) => Offered(x)
    BY <1>1, <1>2, StoreFacts
  <1>4. \A x \in Checkpoint : Standing(x)' => Standing(x)
    BY <1>1, <1>3 DEF Standing, Offered
  <1>5. OfferedOnce' /\ OfferedPast' /\ FileOK' /\ DiskOK' /\ LostOK'
    BY <1>1, <1>2, <1>4, Fewer
  <1>6. TypeOK' /\ PassOK' /\ NoFalseFork'
    BY <1>1, <1>2, <1>3 DEF AnchorInv, TypeOK, PassOK, NoFalseFork, Current
  <1> QED BY <1>3, <1>5, <1>6 DEF AnchorInv

\* The server is gone; the file is as it wrote it.
LEMMA KillKeeps == ASSUME AnchorInv, Kill PROVE AnchorInv'
  <1>1. /\ ck' = Off
        /\ UNCHANGED <<rows, lastTS, now, file, tail, disk, objects, flight, forked, readBack, lost,
                       signed, starts, faults>>
    BY DEF Kill, log, counters, anchor, past
  <1>2. TypeOK /\ signed \in Nat /\ lost \subseteq Checkpoint
    BY DEF AnchorInv, TypeOK
  <1>3. OfferedOnce' /\ OfferedPast' /\ FileOK' /\ DiskOK' /\ LostOK'
    BY <1>1, <1>2, ConstantFacts, OfferedSame, Fewer
  <1>4. TypeOK' /\ PassOK' /\ NoFalseFork' /\ FiledUnderSize'
    BY <1>1, <1>2, ConstantFacts
    DEF AnchorInv, TypeOK, CkType, PassOK, NoFalseFork, FiledUnderSize, Current
  <1> QED BY <1>3, <1>4 DEF AnchorInv

\* The machine is gone, and the file is one of those the disk may hold.  What
\* stood and is not in it had been read back before it was synced, and is lost.
LEMMA CrashKeeps == ASSUME AnchorInv, NEW content \in disk, Crash(content) PROVE AnchorInv'
  <1> DEFINE gone == {x \in readBack \ Lines(content) : Given(x)}
  <1>1. /\ ck' = Off /\ file' = content.lines /\ tail' = content.tail /\ disk' = {content}
        /\ lost' = lost \cup gone
        /\ UNCHANGED <<rows, lastTS, now, objects, flight, forked, readBack, signed, starts, faults>>
    BY DEF Crash, log, counters
  <1>2. /\ TypeOK /\ signed \in Nat /\ lost \subseteq Checkpoint /\ readBack \subseteq Checkpoint
        /\ LostOK /\ content \in Content
    BY DEF AnchorInv, TypeOK
  <1>3. Sound(content) /\ Holds(content, readBack)
    BY DEF AnchorInv, DiskOK
  <1>4. Current' = content
    BY <1>1, <1>2 DEF Current, Content
  <1>5. gone \subseteq readBack /\ \A x \in gone : x \notin Lines(content)
    OBVIOUS
  <1>6. ASSUME NEW x \in Checkpoint, Standing(x)'
        PROVE  Standing(x) /\ (x \in readBack => x \in Lines(content))
    <2>1. Given(x) /\ x \notin lost'
      BY <1>1, <1>6, ConstantFacts DEF Standing, Offered, Given
    <2>2. x \notin lost /\ x \notin gone
      BY <1>1, <2>1
    <2>3. Standing(x)
      BY <1>6, <2>1, <2>2, ConstantFacts DEF Standing, Offered, Given
    <2> QED BY <2>1, <2>2, <2>3
  <1> HIDE DEF gone
  <1>7. OfferedOnce' /\ OfferedPast'
    BY <1>1, <1>6, ConstantFacts DEF AnchorInv, OfferedOnce, OfferedPast
  <1>8. Sound(content)'
    BY <1>1, <1>3, <1>5 DEF Sound
  <1>9. Holds(content, {})' /\ Holds(content, readBack)'
    <2>1. ASSUME Readable(content.lines)
          PROVE  Sorted(content.lines) /\ \A x \in Checkpoint : Standing(x)' => x \in Lines(content)
      BY <1>3, <1>6, <2>1 DEF Holds
    <2> HIDE DEF Readable, Sorted, Lines
    <2> QED BY <2>1 DEF Holds
  <1>10. FileOK' /\ DiskOK'
    <2>1. FileOK'
      <3>1. ASSUME NEW c, c = Current' PROVE Sound(c)' /\ Holds(c, {})'
        BY <1>4, <1>8, <1>9, <3>1
      <3> QED BY <3>1 DEF FileOK
    <2>2. DiskOK'
      <3> SUFFICES ASSUME NEW c, c = content PROVE (Sound(c) /\ Holds(c, readBack))'
        BY <1>1 DEF DiskOK
      <3> QED BY <1>8, <1>9
    <2> QED BY <2>1, <2>2
  <1>11. LostOK'
    BY <1>1, <1>2, <1>5 DEF LostOK
  <1>12. TypeOK'
    <2>1. Current' \in Content /\ disk' \subseteq Content /\ lost' \subseteq Checkpoint
      BY <1>1, <1>2, <1>4, <1>5
    <2> QED BY <1>1, <1>2, <2>1, ConstantFacts DEF TypeOK, CkType
  <1>13. NoFalseFork' /\ FiledUnderSize'
    BY <1>1 DEF AnchorInv, NoFalseFork, FiledUnderSize
  <1>14. PassOK'
    <2>1. NoLine \notin lost'
      BY <1>1, <1>2, <1>5, ConstantFacts
    <2> QED BY <1>1, <2>1, ConstantFacts DEF PassOK
  <1> QED BY <1>7, <1>10, <1>11, <1>12, <1>13, <1>14 DEF AnchorInv

-----------------------------------------------------------------------------
(* The theorems. *)

\* At first nothing is in the file or in the store.
LEMMA InitAnchorInv == Init => AnchorInv
  <1> SUFFICES ASSUME Init PROVE AnchorInv
    OBVIOUS
  <1>1. /\ rows = 0 /\ lastTS = 0 /\ now = 0 /\ file = <<>> /\ tail = FALSE /\ disk = {Current}
        /\ objects = [s \in Size |-> NoLine] /\ flight = {} /\ ck = Off
        /\ forked = {} /\ readBack = {} /\ lost = {}
        /\ signed = 0 /\ starts = 0 /\ faults = 0
    BY DEF Init
  <1>2. \A x \in Checkpoint : ~Standing(x)
    BY <1>1, ConstantFacts DEF Standing, Offered
  <1>3. Current \in Content
    <2>1. file \in Seq(Checkpoint \cup {Torn})
      BY <1>1
    <2>2. tail \in BOOLEAN
      BY <1>1
    <2> QED BY <2>1, <2>2 DEF Current, Content
  <1>4. TypeOK
    <2>1. /\ 0 \in 0..MaxRows /\ 0 \in Time /\ 0 \in 0..MaxStarts /\ 0 \in 0..MaxFaults
      BY CheckpointerAssumption DEF Time
    <2>2. objects \in [Size -> Checkpoint \cup {NoLine}]
      BY <1>1
    <2>3. flight \subseteq Checkpoint /\ ck \in CkType
      BY <1>1, ConstantFacts
    <2> QED BY <1>1, <1>3, <2>1, <2>2, <2>3 DEF TypeOK, CkType
  <1>5. PassOK /\ NoFalseFork /\ FiledUnderSize /\ LostOK
    BY <1>1, ConstantFacts DEF PassOK, NoFalseFork, FiledUnderSize, LostOK
  <1>6. OfferedOnce /\ OfferedPast
    BY <1>1, <1>2 DEF OfferedOnce, OfferedPast
  <1>7. Sound(Current) /\ Holds(Current, {}) /\ Holds(Current, readBack)
    BY <1>1, <1>2, CurrentFacts DEF Sound, Holds, Sorted
  <1>8. FileOK /\ DiskOK
    BY <1>1, <1>7 DEF FileOK, DiskOK
  <1> QED BY <1>4, <1>5, <1>6, <1>8 DEF AnchorInv

\* Every step keeps the invariant.
LEMMA NextAnchorInv == AnchorInv /\ [Next]_vars => AnchorInv'
  <1> SUFFICES ASSUME AnchorInv, [Next]_vars PROVE AnchorInv'
    OBVIOUS
  <1>1. CASE UNCHANGED vars
    BY <1>1, StutterKeeps DEF vars, log, anchor, past, counters, AnchorInv, TypeOK
  <1>2. ASSUME NEW n \in Time, SetClock(n) PROVE AnchorInv'
    BY <1>2, StutterKeeps DEF SetClock, anchor, past, counters
  <1>3. CASE Next
    BY <1>2, <1>3, StartKeeps, GrowKeeps, TickKeeps, WriteKeeps, WriteFailedKeeps, SyncKeeps,
       SyncFailedKeeps, SkipKeeps, PublishedKeeps, PublishFailedKeeps, ArriveKeeps, KillKeeps,
       CrashKeeps
    DEF Next
  <1> QED BY <1>1, <1>3

\* The checkpointer, the file and the store keep their types, and what was
\* offered to the store and not lost is told apart by its size, past, and in
\* the file; unless a start read it back unsynced, it is in whatever a machine
\* that goes down may leave of the file.
THEOREM CheckpointerInvariant == Spec => [](AnchorInv /\ TypeOK)
  <1>1. AnchorInv => TypeOK
    BY DEF AnchorInv
  <1> QED BY <1>1, InitAnchorInv, NextAnchorInv, PTL DEF Spec

\* For every policy, backoff and number of crashes, failed writes, lost answers
\* and late requests: what Warden takes for a fork (ErrConflict) is a checkpoint
\* that a start offered before it was synced and the machine then lost.
THEOREM CheckpointerNoFalseFork == Spec => []NoFalseFork
  <1>1. AnchorInv => NoFalseFork
    BY DEF AnchorInv
  <1> QED BY <1>1, CheckpointerInvariant, PTL

\* And as long as the anchor file can be read, every object in the store but
\* such a one is a line of it.
THEOREM CheckpointerAnchorsAgree == Spec => []AnchorsAgree
  <1>1. AnchorInv => AnchorsAgree
    <2> SUFFICES ASSUME AnchorInv, Readable(file), NEW s \in Size, objects[s] # NoLine,
                        objects[s] \notin lost
                 PROVE  objects[s] \in Lines(Current)
      BY DEF AnchorsAgree
    <2>1. objects[s] \in Checkpoint /\ Standing(objects[s])
      BY DEF AnchorInv, TypeOK, Offered, Standing
    <2> QED BY <2>1, CurrentFacts DEF AnchorInv, FileOK, Holds
  <1> QED BY <1>1, CheckpointerInvariant, PTL
===============================================================================
