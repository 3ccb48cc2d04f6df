----------------------------- MODULE AuditProofs -----------------------------
(***************************************************************************)
(* What an audit shows, for logs, anchors and alterations of every size.   *)
(***************************************************************************)
EXTENDS Audit, VerifierProofs

-----------------------------------------------------------------------------
(* Sequences. *)

IsSeq(s) == s \in Seq(Range(s))

\* A sequence over a set is one over its own elements.
LEMMA SeqIs ==
    ASSUME NEW T, NEW t \in Seq(T)
    PROVE  IsSeq(t)
  <1>1. t \in [1..Len(t) -> T] /\ Len(t) \in Nat
    OBVIOUS
  <1>2. t \in [1..Len(t) -> Range(t)]
    BY <1>1 DEF Range
  <1> QED BY <1>1, <1>2, IsASeq DEF IsSeq

\* Its length and its domain.
LEMMA SeqFacts ==
    ASSUME NEW s, IsSeq(s)
    PROVE  /\ Len(s) \in Nat /\ DOMAIN s = 1..Len(s)
           /\ s = <<>> <=> Len(s) = 0
           /\ \A i \in 1..Len(s) : s[i] \in Range(s)
           /\ \A x \in Range(s) : \E i \in 1..Len(s) : s[i] = x
  BY DEF IsSeq, Range

\* Sequences of the same elements are equal.
LEMMA SeqSame ==
    ASSUME NEW s, NEW t, IsSeq(s), IsSeq(t), Len(s) = Len(t), \A i \in 1..Len(s) : s[i] = t[i]
    PROVE  s = t
  BY DEF IsSeq

\* A line is added at the end.
LEMMA SeqAppend ==
    ASSUME NEW s, NEW x, IsSeq(s)
    PROVE  /\ IsSeq(Append(s, x)) /\ Len(Append(s, x)) = Len(s) + 1
           /\ \A i \in 1..Len(s) : Append(s, x)[i] = s[i]
           /\ Append(s, x)[Len(s) + 1] = x
  <1> DEFINE S == Range(s)
             T == S \cup {x}
  <1>1. s \in Seq(S)
    BY DEF IsSeq
  <1> HIDE DEF S
  <1>2. s \in Seq(T) /\ x \in T
    BY <1>1
  <1> HIDE DEF T
  <1>3. Append(s, x) \in Seq(T)
    BY <1>2
  <1>4. /\ Len(Append(s, x)) = Len(s) + 1
        /\ \A i \in 1..Len(s) : Append(s, x)[i] = s[i]
        /\ Append(s, x)[Len(s) + 1] = x
    BY <1>2, AppendProperties
  <1>5. IsSeq(Append(s, x))
    BY <1>3, SeqIs
  <1> QED BY <1>4, <1>5

\* The first k lines.
LEMMA SeqCut ==
    ASSUME NEW s, IsSeq(s), NEW k \in 0..Len(s)
    PROVE  /\ IsSeq(SubSeq(s, 1, k)) /\ Len(SubSeq(s, 1, k)) = k
           /\ \A i \in 1..k : SubSeq(s, 1, k)[i] = s[i]
  <1> DEFINE S == Range(s)
  <1>1. s \in Seq(S)
    BY DEF IsSeq
  <1> HIDE DEF S
  <1>2. SubSeq(s, 1, k) \in Seq(S)
    BY <1>1
  <1>3. IsSeq(SubSeq(s, 1, k))
    BY <1>2, SeqIs
  <1> QED BY <1>1, <1>3

\* One line is left out.
LEMMA SeqRemove ==
    ASSUME NEW s, IsSeq(s), NEW i \in 1..Len(s)
    PROVE  /\ IsSeq(RemoveAt(s, i)) /\ Len(RemoveAt(s, i)) = Len(s) - 1
           /\ \A j \in 1..(Len(s) - 1) : RemoveAt(s, i)[j] = IF j < i THEN s[j] ELSE s[j + 1]
  <1> DEFINE S == Range(s)
             a == SubSeq(s, 1, i - 1)
             b == SubSeq(s, i + 1, Len(s))
  <1>1. s \in Seq(S) /\ Len(s) \in Nat
    BY DEF IsSeq
  <1> HIDE DEF S
  <1>2. a \in Seq(S) /\ Len(a) = i - 1 /\ \A j \in 1..(i - 1) : a[j] = s[j]
    BY <1>1
  <1>3. b \in Seq(S) /\ Len(b) = Len(s) - i /\ \A j \in 1..(Len(s) - i) : b[j] = s[j + i]
    BY <1>1
  <1>4. RemoveAt(s, i) = a \o b
    BY DEF RemoveAt
  <1> HIDE DEF a, b
  <1>a. /\ a \o b \in Seq(S) /\ Len(a \o b) = Len(a) + Len(b)
        /\ \A j \in 1..(Len(a) + Len(b)) : (a \o b)[j] = IF j <= Len(a) THEN a[j] ELSE b[j - Len(a)]
    <2>1. a \in Seq(S) /\ b \in Seq(S)
      BY <1>2, <1>3
    <2> QED BY <2>1, ConcatProperties
  <1>5. a \o b \in Seq(S) /\ Len(a \o b) = Len(s) - 1
    BY <1>1, <1>2, <1>3, <1>a
  <1>6. ASSUME NEW j \in 1..(Len(s) - 1) PROVE (a \o b)[j] = IF j < i THEN s[j] ELSE s[j + 1]
    <2>1. (a \o b)[j] = IF j <= Len(a) THEN a[j] ELSE b[j - Len(a)]
      BY <1>1, <1>2, <1>3, <1>a
    <2>2. CASE j < i
      BY <1>1, <1>2, <2>1, <2>2
    <2>3. CASE ~(j < i)
      <3>1. j - Len(a) \in 1..(Len(s) - i) /\ (j - Len(a)) + i = j + 1
        BY <1>1, <1>2, <2>3
      <3> QED BY <1>2, <1>3, <2>1, <2>3, <3>1
    <2> QED BY <2>2, <2>3
  <1> QED BY <1>4, <1>5, <1>6, SeqIs

\* Prefixes, line by line.
LEMMA PrefixByLines ==
    ASSUME NEW s, NEW t, IsSeq(s), IsSeq(t), Len(s) <= Len(t), \A i \in 1..Len(s) : s[i] = t[i]
    PROVE  IsPrefix(s, t)
  <1>1. Len(s) \in 0..Len(t) /\ Len(s) \in 0..Len(s) /\ Len(s) \in Nat
    BY SeqFacts
  <1>2. SubSeq(s, 1, Len(s)) = SubSeq(t, 1, Len(s))
    <2> DEFINE a == SubSeq(s, 1, Len(s))  b == SubSeq(t, 1, Len(s))
    <2>1. IsSeq(a) /\ Len(a) = Len(s) /\ \A i \in 1..Len(s) : a[i] = s[i]
      BY <1>1, SeqCut
    <2>2. IsSeq(b) /\ Len(b) = Len(s) /\ \A i \in 1..Len(s) : b[i] = t[i]
      BY <1>1, SeqCut
    <2> HIDE DEF a, b
    <2> QED BY <2>1, <2>2, SeqSame DEF a, b
  <1> QED BY <1>2 DEF IsPrefix

-----------------------------------------------------------------------------
(* The invariant. *)

IsTurn(l) == l.r.type = "key_rotation"

\* Who signs after n lines, and who has been named to sign until then.
Signer(lg, n) == IF n = 0 THEN FirstKid ELSE IF IsTurn(lg[n]) THEN lg[n].r.to ELSE lg[n].kid

Named(lg, n) == {FirstKid} \cup {lg[i].r.to : i \in {k \in 1..n : IsTurn(lg[k])}}

\* A certificate for the genuine key of an id, or one that the root did not sign.
CertOK(cert) == cert.root => cert.key = cert.kid /\ cert.kid \in Kid

\* A handover as Warden signs it.
GoodTurn(l) ==
    /\ IsTurn(l) /\ l.r.from = l.kid /\ l.r.to \in Kid /\ l.r.to # l.r.from /\ l.r.key = l.r.to
    /\ l.r.cert.kid = l.r.to /\ l.r.cert.key = l.r.to /\ l.r.cert.root
    /\ l.r.cert.from = l.r.ts /\ l.r.cert.until >= l.r.ts

IsLine(l) ==
    l = [ id |-> l.id, kid |-> l.kid, key |-> l.key, form |-> l.form, seq |-> l.seq,
          prev |-> l.prev, r |-> l.r ]

\* The line of Warden's log at position j.
GoodLine(lg, j) ==
    LET l == lg[j] IN
    /\ IsLine(l) /\ l.id = Digest(j) /\ l.seq = j - 1 /\ l.form = "ok"
    /\ l.kid = Signer(lg, j - 1) /\ l.kid \in Named(lg, j - 1) /\ l.kid \in Kid /\ l.key = l.kid
    /\ l.prev = IF j = 1 THEN Genesis(l.kid, l.kid) ELSE Digest(j - 1)
    /\ l.r.ts \in Nat
    /\ j > 1 => lg[j - 1].r.ts <= l.r.ts
    /\ l.r.type = "decision" \/ GoodTurn(l)

TypeInv ==
    /\ IsSeq(log) /\ IsSeq(copy) /\ Len(log) <= MaxLog
    /\ DOMAIN objects = Sizes /\ \A n \in Sizes : IsSeq(objects[n])
    /\ deeds \in [Where -> Nat] /\ now \in Nat /\ signed \in Nat /\ leaked \subseteq Kid

LogInv ==
    /\ \A j \in 1..Len(log) : GoodLine(log, j) /\ log[j].r.ts <= now
    /\ signer = Signer(log, Len(log)) /\ signer \in Named(log, Len(log)) /\ signer \in Kid
    /\ Len(log) <= signed /\ (NoDeed("copy") => signed = Len(log))

\* A line that Warden signed, perhaps changed since.
FromLog(lg, l) ==
    \E j \in 1..Len(lg) :
        /\ l.id = lg[j].id /\ l.seq = lg[j].seq /\ l.r = lg[j].r
        /\ l = lg[j] \/ l.key = Other

\* A line that somebody else signed.
Forged(lg, keys, total, l) ==
    /\ l.kid \in keys
    /\ \E k \in (Len(lg) + 1)..total : l.id = Digest(k)
    /\ l.r.type = "decision" \/ (IsTurn(l) /\ CertOK(l.r.cert))

\* Where a line of the copy comes from.
Sourced(lg, keys, total, l) == IsLine(l) /\ (FromLog(lg, l) \/ Forged(lg, keys, total, l))

CopyInv ==
    IF NoDeed("copy")
      THEN Len(copy) <= Len(log) /\ \A i \in 1..Len(copy) : copy[i] = log[i]
      ELSE \A i \in 1..Len(copy) : Sourced(log, leaked, signed, copy[i])

\* A checkpoint of Warden.
GoodCheckpoint(lg, c) ==
    /\ c.size \in 1..Len(lg) /\ c.head = Digest(c.size) /\ c.root = [j \in 1..c.size |-> Digest(j)]
    /\ c.kid = Signer(lg, c.size) /\ c.key = c.kid /\ c.ts \in Nat

FileInv ==
    NoDeed("file") =>
      /\ IsSeq(file)
      /\ \A i \in 1..Len(file) : GoodCheckpoint(log, file[i]) /\ file[i].ts <= now
      /\ \A i, j \in 1..Len(file) : i < j => file[i].size < file[j].size /\ file[i].ts <= file[j].ts

RevsInv ==
    \A v \in revs :
      /\ v.root /\ v.own
      /\ NoDeed("file") => \E i \in 1..Len(file) : v.size = file[i].size /\ v.head = file[i].head

\* A version of an object that holds s.
Holds(o, s) == o.line = s.cp /\ ~o.marker /\ o.mode = "COMPLIANCE" /\ o.until = s.until

StoredInv ==
    \A s \in stored :
      /\ Bucket
      /\ GoodCheckpoint(log, s.cp) /\ s.until \in Nat
      /\ s.until > now => \E i \in 1..Len(objects[s.cp.size]) : Holds(objects[s.cp.size][i], s)

\* A version of an object as Warden stores it.
GoodObject(fl, st, n, o) ==
    /\ \E k \in 1..Len(fl) : o.line = fl[k]
    /\ o.line.size = n /\ ~o.marker /\ o.mode = "COMPLIANCE"
    /\ o.at \in Nat /\ o.line.ts <= o.at
    /\ \E s \in st : s.until = o.until

ObjectsInv ==
    Honest => \A n \in Sizes :
        Len(objects[n]) # 0 => Len(objects[n]) = 1 /\ GoodObject(file, stored, n, objects[n][1])

AuditInv ==
    TypeInv /\ LogInv /\ CopyInv /\ FileInv /\ RevsInv /\ StoredInv /\ ObjectsInv

\* It holds at the start.
LEMMA InitInv == Init => AuditInv
  <1> SUFFICES ASSUME Init PROVE AuditInv
    OBVIOUS
  <1> USE AuditAssumption
  <1>1. IsSeq(<<>>) /\ Len(<<>>) = 0
    <2>1. <<>> \in Seq({})
      OBVIOUS
    <2>2. IsSeq(<<>>)
      BY <2>1, SeqIs
    <2> QED BY <2>2
  <1>2. TypeInv
    BY <1>1 DEF Init, TypeInv, Sizes
  <1>3. LogInv
    BY <1>1 DEF Init, LogInv, Signer, Named
  <1>4. CopyInv /\ FileInv /\ RevsInv /\ StoredInv
    BY <1>1 DEF Init, CopyInv, FileInv, RevsInv, StoredInv
  <1>5. ObjectsInv
    BY <1>1 DEF Init, ObjectsInv
  <1> QED BY <1>2, <1>3, <1>4, <1>5 DEF AuditInv

\* What was true of a log stays so when it grows.
LEMMA GrownLog ==
    ASSUME NEW lg, NEW x, IsSeq(lg)
    PROVE  LET big == Append(lg, x) IN
           /\ \A n \in 0..Len(lg) : Signer(big, n) = Signer(lg, n) /\ Named(big, n) = Named(lg, n)
           /\ \A j \in 1..Len(lg) : GoodLine(lg, j) => GoodLine(big, j)
           /\ \A c : GoodCheckpoint(lg, c) => GoodCheckpoint(big, c)
  <1> DEFINE big == Append(lg, x)
  <1>1. Len(lg) \in Nat /\ Len(big) = Len(lg) + 1 /\ \A i \in 1..Len(lg) : big[i] = lg[i]
    BY SeqAppend, SeqFacts
  <1> HIDE DEF big
  <1>2. ASSUME NEW n \in 0..Len(lg) PROVE Signer(big, n) = Signer(lg, n) /\ Named(big, n) = Named(lg, n)
    <2>1. Signer(big, n) = Signer(lg, n)
      BY <1>1 DEF Signer
    <2>2. \A i \in 1..n : big[i] = lg[i]
      BY <1>1
    <2>3. Named(big, n) = Named(lg, n)
      BY <2>2 DEF Named
    <2> QED BY <2>1, <2>3
  <1>3. ASSUME NEW j \in 1..Len(lg), GoodLine(lg, j) PROVE GoodLine(big, j)
    <2>1. j - 1 \in 0..Len(lg) /\ big[j] = lg[j]
      BY <1>1
    <2>2. j > 1 => big[j - 1] = lg[j - 1]
      BY <1>1
    <2> QED BY <1>2, <1>3, <2>1, <2>2 DEF GoodLine
  <1>4. ASSUME NEW c, GoodCheckpoint(lg, c) PROVE GoodCheckpoint(big, c)
    <2>1. c.size \in 0..Len(lg) /\ c.size \in 1..Len(big)
      BY <1>1, <1>4 DEF GoodCheckpoint
    <2> QED BY <1>2, <1>4, <2>1 DEF GoodCheckpoint
  <1> QED BY <1>2, <1>3, <1>4 DEF big

\* The next signer has been named.
LEMMA SignerNamed ==
    ASSUME NEW lg, NEW n \in Nat, n > 0 => GoodLine(lg, n)
    PROVE  Signer(lg, n) \in Named(lg, n)
  <1>1. CASE n = 0
    BY <1>1 DEF Signer, Named
  <1>2. CASE n > 0 /\ IsTurn(lg[n])
    BY <1>2 DEF Signer, Named
  <1>3. CASE n > 0 /\ ~IsTurn(lg[n])
    <2>1. Signer(lg, n) = lg[n].kid
      BY <1>3 DEF Signer
    <2>2. lg[n].kid \in Named(lg, n - 1)
      BY <1>3 DEF GoodLine
    <2>3. Named(lg, n - 1) \subseteq Named(lg, n)
      <3>1. 1..(n - 1) \subseteq 1..n
        OBVIOUS
      <3> QED BY <3>1 DEF Named
    <2> QED BY <2>1, <2>2, <2>3
  <1> QED BY <1>1, <1>2, <1>3

\* Warden signs one more line.
LEMMA LineInv ==
    ASSUME AuditInv, Undisturbed, Len(log) < MaxLog, NEW x,
           log' = Append(log, x), GoodLine(log', Len(log) + 1), x.r.ts <= now,
           signer' = Signer(log', Len(log) + 1), signer' \in Kid, signed' = signed + 1,
           UNCHANGED <<file, objects, revs, leaked, copy, now, deeds, stored>>
    PROVE  AuditInv'
  <1>1. TypeInv /\ LogInv /\ CopyInv /\ FileInv /\ RevsInv /\ StoredInv /\ ObjectsInv
    BY DEF AuditInv
  <1>2. IsSeq(log) /\ Len(log) \in Nat /\ signed = Len(log)
    BY <1>1, SeqFacts DEF TypeInv, LogInv, Undisturbed
  <1>3. /\ IsSeq(log') /\ Len(log') = Len(log) + 1 /\ log'[Len(log) + 1] = x
        /\ \A i \in 1..Len(log) : log'[i] = log[i]
    BY <1>2, SeqAppend
  <1>4. /\ \A n \in 0..Len(log) : Signer(log', n) = Signer(log, n) /\ Named(log', n) = Named(log, n)
        /\ \A j \in 1..Len(log) : GoodLine(log, j) => GoodLine(log', j)
        /\ \A c : GoodCheckpoint(log, c) => GoodCheckpoint(log', c)
    BY <1>2, GrownLog
  <1>5. TypeInv'
    BY <1>1, <1>2, <1>3, AuditAssumption DEF TypeInv, Sizes
  <1>6. LogInv'
    <2>1. \A j \in 1..Len(log') : GoodLine(log', j) /\ log'[j].r.ts <= now'
      BY <1>1, <1>2, <1>3, <1>4 DEF LogInv
    <2>2. signer' \in Named(log', Len(log'))
      <3>1. Len(log') \in Nat /\ GoodLine(log', Len(log'))
        BY <1>2, <1>3
      <3> QED BY <1>3, <3>1, SignerNamed
    <2> QED BY <1>2, <1>3, <2>1, <2>2 DEF LogInv
  <1>7. CopyInv'
    BY <1>1, <1>2, <1>3, SeqFacts DEF CopyInv, Undisturbed, NoDeed, TypeInv
  <1>8. FileInv'
    BY <1>1, <1>4 DEF FileInv, NoDeed
  <1>9. RevsInv'
    BY <1>1 DEF RevsInv, NoDeed
  <1>10. StoredInv'
    BY <1>1, <1>4 DEF StoredInv, Holds
  <1>11. ObjectsInv'
    BY <1>1 DEF ObjectsInv, Honest, NoDeed, GoodObject, Sizes
  <1> QED BY <1>5, <1>6, <1>7, <1>8, <1>9, <1>10, <1>11 DEF AuditInv

\* The next line that Warden signs is one.
LEMMA NextLineGood ==
    ASSUME AuditInv, Undisturbed, NEW r, r.ts = now,
           LET x == NextLine(log, signer, r) IN r.type = "decision" \/ GoodTurn(x)
    PROVE  LET x == NextLine(log, signer, r) IN
           GoodLine(Append(log, x), Len(log) + 1) /\ x.r = r /\ x.kid = signer
  <1> DEFINE x == NextLine(log, signer, r)
             big == Append(log, x)
             m == Len(log)
  <1>1. IsSeq(log) /\ m \in Nat /\ now \in Nat /\ signed = m /\ (log = <<>> <=> m = 0)
    BY SeqFacts DEF AuditInv, TypeInv, LogInv, Undisturbed
  <1>2. x = [ id |-> Digest(m + 1), kid |-> signer, key |-> signer, form |-> "ok", seq |-> m,
              prev |-> IF m = 0 THEN Genesis(signer, signer) ELSE log[m].id, r |-> r ]
    BY <1>1 DEF NextLine, Last
  <1>3. r.type = "decision" \/ GoodTurn(x)
    OBVIOUS
  <1> HIDE DEF x
  <1>4. /\ IsLine(x) /\ x.id = Digest(m + 1) /\ x.kid = signer /\ x.key = signer /\ x.form = "ok"
        /\ x.seq = m /\ x.r = r
        /\ x.prev = IF m = 0 THEN Genesis(signer, signer) ELSE log[m].id
    BY <1>2 DEF IsLine
  <1>5. big[m + 1] = x /\ \A i \in 1..m : big[i] = log[i]
    BY <1>1, SeqAppend
  <1>6. Signer(big, m) = Signer(log, m) /\ Named(big, m) = Named(log, m)
    BY <1>1, GrownLog
  <1>7. signer = Signer(log, m) /\ signer \in Named(log, m) /\ signer \in Kid
    BY DEF AuditInv, LogInv
  <1>8. m > 0 => log[m].id = Digest(m) /\ log[m].r.ts <= now
    BY <1>1 DEF AuditInv, LogInv, GoodLine
  <1> HIDE DEF big
  <1>9. GoodLine(big, m + 1)
    <2>1. (m + 1) - 1 = m /\ (m + 1 = 1 <=> m = 0) /\ (m + 1 > 1 <=> m > 0)
      BY <1>1
    <2>2. m > 0 => big[m] = log[m]
      BY <1>1, <1>5
    <2>3. x.prev = IF m + 1 = 1 THEN Genesis(x.kid, x.kid) ELSE Digest(m)
      BY <1>1, <1>4, <1>8, <2>1
    <2>4. x.r.ts \in Nat /\ (m + 1 > 1 => big[m].r.ts <= x.r.ts)
      BY <1>1, <1>4, <1>8, <2>1, <2>2
    <2>5. x.kid = Signer(big, m) /\ x.kid \in Named(big, m) /\ x.kid \in Kid /\ x.key = x.kid
      BY <1>4, <1>6, <1>7
    <2>6. x.r.type = "decision" \/ GoodTurn(x)
      BY <1>3, <1>4
    <2> HIDE DEF m
    <2> QED BY <1>4, <1>5, <2>1, <2>3, <2>4, <2>5, <2>6 DEF GoodLine
  <1> QED BY <1>4, <1>9 DEF big, x

\* AppendReceipt.
LEMMA AppendInv ==
    ASSUME AuditInv, AppendReceipt
    PROVE  AuditInv'
  <1> DEFINE x == NextLine(log, signer, ADecision)
  <1>1. Undisturbed /\ Len(log) < MaxLog /\ log' = Append(log, x) /\ signed' = signed + 1
          /\ UNCHANGED <<signer, file, objects, revs, leaked, copy, now, deeds, stored>>
    BY DEF AppendReceipt
  <1>2. ADecision.ts = now /\ ADecision.type = "decision"
    BY DEF ADecision, Decision
  <1>3. GoodLine(Append(log, x), Len(log) + 1) /\ x.r = ADecision /\ x.kid = signer
    BY <1>1, <1>2, NextLineGood
  <1>4. now \in Nat /\ signer \in Kid /\ IsSeq(log)
    BY DEF AuditInv, TypeInv, LogInv
  <1> HIDE DEF x
  <1>5. Signer(log', Len(log) + 1) = signer
    <2>1. log'[Len(log) + 1] = x /\ Len(log) \in Nat
      BY <1>1, <1>4, SeqAppend, SeqFacts
    <2> QED BY <1>2, <1>3, <2>1 DEF Signer, IsTurn
  <1>6. x.r.ts <= now
    BY <1>2, <1>3, <1>4
  <1> QED BY <1>1, <1>3, <1>4, <1>5, <1>6, LineInv

\* Rotate.
LEMMA RotateInv ==
    ASSUME AuditInv, NEW to \in Kid, Rotate(to)
    PROVE  AuditInv'
  <1> DEFINE r == KeyRotation(signer, to, Certificate(to))
             x == NextLine(log, signer, r)
  <1>1. Undisturbed /\ Len(log) < MaxLog /\ log' = Append(log, x) /\ signed' = signed + 1
          /\ signer' = to
          /\ UNCHANGED <<file, objects, revs, leaked, copy, now, deeds, stored>>
    BY DEF Rotate
  <1>2. r.ts = now /\ r.type = "key_rotation" /\ r.from = signer /\ r.to = to /\ r.key = to
          /\ r.cert = Certificate(to)
    BY DEF KeyRotation
  <1>3. now \in Nat /\ signer \in Kid /\ IsSeq(log) /\ Epoch \in Nat
    BY AuditAssumption DEF AuditInv, TypeInv, LogInv
  <1>4. to # signer
    <2>1. signer \in Named(log, Len(log))
      BY DEF AuditInv, LogInv
    <2>2. Named(log, Len(log)) = Used
      <3>1. DOMAIN log = 1..Len(log)
        BY <1>3, SeqFacts
      <3> QED BY <3>1 DEF Named, Used, Handovers, IsTurn
    <2> QED BY <2>1, <2>2 DEF Rotate
  <1>5. /\ Certificate(to).kid = to /\ Certificate(to).key = to /\ Certificate(to).root
        /\ Certificate(to).from = now /\ Certificate(to).until = now + Epoch
    BY DEF Certificate
  <1>6. x.kid = signer /\ x.r = r
    BY DEF NextLine
  <1> HIDE DEF r, x
  <1>7. GoodTurn(x)
    BY <1>2, <1>3, <1>4, <1>5, <1>6 DEF GoodTurn, IsTurn
  <1>8. GoodLine(Append(log, x), Len(log) + 1)
    BY <1>1, <1>2, <1>7, NextLineGood DEF x
  <1>9. Signer(log', Len(log) + 1) = to
    <2>1. log'[Len(log) + 1] = x /\ Len(log) \in Nat
      BY <1>1, <1>3, SeqAppend, SeqFacts
    <2> QED BY <1>2, <1>6, <2>1 DEF Signer, IsTurn
  <1>10. x.r.ts <= now
    BY <1>2, <1>3, <1>6
  <1> QED BY <1>1, <1>8, <1>9, <1>10, LineInv

\* A step that leaves the log, its copy and the number of signatures alone.
LEMMA SameLines ==
    ASSUME AuditInv, UNCHANGED <<log, signer, signed, copy>>, now' \in Nat, now <= now',
           leaked \subseteq leaked', NoDeed("copy")' <=> NoDeed("copy")
    PROVE  LogInv' /\ CopyInv'
  <1>1. TypeInv /\ LogInv /\ CopyInv /\ now \in Nat
    BY DEF AuditInv, TypeInv
  <1>2. LogInv'
    <2>1. ASSUME NEW j \in 1..Len(log) PROVE GoodLine(log, j) /\ log[j].r.ts <= now'
      <3>1. GoodLine(log, j) /\ log[j].r.ts <= now
        BY <1>1 DEF LogInv
      <3>2. log[j].r.ts \in Nat
        BY <3>1 DEF GoodLine
      <3> QED BY <1>1, <3>1, <3>2
    <2> QED BY <1>1, <2>1 DEF LogInv
  <1>3. CopyInv'
    <2>1. \A l : Sourced(log, leaked, signed, l) => Sourced(log, leaked', signed, l)
      BY DEF Sourced, Forged
    <2> QED BY <1>1, <2>1 DEF CopyInv
  <1> QED BY <1>2, <1>3

\* Publish.
LEMMA PublishInv ==
    ASSUME AuditInv, Publish
    PROVE  AuditInv'
  <1> DEFINE m == Len(log)
             c == Checkpoint(log, m, signer)
             k == Len(file)
  <1>1. TypeInv /\ LogInv /\ CopyInv /\ FileInv /\ RevsInv /\ StoredInv /\ ObjectsInv
    BY DEF AuditInv
  <1>2. /\ Undisturbed /\ log # <<>> /\ file' = Append(file, c)
        /\ file # <<>> => Last(file).size < m
        /\ UNCHANGED <<log, signer, objects, revs, leaked, copy, now, signed, deeds, stored>>
    BY DEF Publish
  <1>3. IsSeq(log) /\ m \in Nat \ {0} /\ now \in Nat /\ IsSeq(file) /\ k \in Nat
    BY <1>1, <1>2, SeqFacts DEF TypeInv, FileInv, Undisturbed
  <1>4. IsSeq(file') /\ Len(file') = k + 1 /\ file'[k + 1] = c /\ \A i \in 1..k : file'[i] = file[i]
    BY <1>2, <1>3, SeqAppend
  <1>5. GoodCheckpoint(log, c) /\ c.ts = now /\ c.size = m
    <2>1. \A j \in 1..m : log[j].id = Digest(j)
      BY <1>1 DEF LogInv, GoodLine
    <2>2. c = [ kid |-> signer, key |-> signer, size |-> m, head |-> Digest(m), ts |-> now,
                root |-> [j \in 1..m |-> Digest(j)] ]
      BY <1>3, <2>1 DEF Checkpoint
    <2>3. signer = Signer(log, m)
      BY <1>1 DEF LogInv
    <2> HIDE DEF c, m
    <2> QED BY <1>3, <2>2, <2>3 DEF GoodCheckpoint, m
  <1> HIDE DEF c
  <1>6. /\ \A i \in 1..k : GoodCheckpoint(log, file[i]) /\ file[i].ts <= now
        /\ \A i, j \in 1..k : i < j => file[i].size < file[j].size /\ file[i].ts <= file[j].ts
    BY <1>1, <1>2 DEF FileInv, Undisturbed
  <1>7. \A i \in 1..k : file[i].size < m
    <2> SUFFICES ASSUME NEW i \in 1..k PROVE file[i].size < m
      OBVIOUS
    <2>1. k \in 1..k /\ file[k].size < m
      BY <1>2, <1>3, SeqFacts DEF Last
    <2>2. file[i].size \in Nat /\ file[k].size \in Nat
      <3>1. GoodCheckpoint(log, file[i]) /\ GoodCheckpoint(log, file[k])
        BY <1>6, <2>1
      <3>2. file[i].size \in 1..m /\ file[k].size \in 1..m
        BY <3>1 DEF GoodCheckpoint
      <3> HIDE DEF m, k
      <3> QED BY <1>3, <3>2
    <2>3. i = k \/ file[i].size < file[k].size
      BY <1>3, <1>6, <2>1
    <2> QED BY <1>3, <2>1, <2>2, <2>3
  <1>8. FileInv'
    <2>1. \A i \in 1..(k + 1) : GoodCheckpoint(log, file'[i]) /\ file'[i].ts <= now
      BY <1>3, <1>4, <1>5, <1>6
    <2>2. ASSUME NEW i \in 1..(k + 1), NEW j \in 1..(k + 1), i < j
          PROVE  file'[i].size < file'[j].size /\ file'[i].ts <= file'[j].ts
      <3>1. i \in 1..k
        BY <1>3, <2>2
      <3>2. CASE j = k + 1
        BY <1>4, <1>5, <1>6, <1>7, <3>1, <3>2
      <3>3. CASE j \in 1..k
        BY <1>4, <1>6, <2>2, <3>1, <3>3
      <3> QED BY <1>3, <3>2, <3>3
    <2> QED BY <1>2, <1>4, <2>1, <2>2 DEF FileInv
  <1>9. RevsInv'
    <2> SUFFICES ASSUME NEW v \in revs
                 PROVE  /\ v.root /\ v.own
                        /\ \E i \in 1..Len(file') : v.size = file'[i].size /\ v.head = file'[i].head
      BY <1>2 DEF RevsInv
    <2>1. v.root /\ v.own
      BY <1>1 DEF RevsInv
    <2>2. PICK i \in 1..k : v.size = file[i].size /\ v.head = file[i].head
      BY <1>1, <1>2 DEF RevsInv, Undisturbed
    <2>3. i \in 1..Len(file') /\ file'[i] = file[i]
      BY <1>3, <1>4
    <2> QED BY <2>1, <2>2, <2>3
  <1>10. ObjectsInv'
    <2>1. \A n, o : GoodObject(file, stored, n, o) => GoodObject(file', stored, n, o)
      <3> SUFFICES ASSUME NEW n, NEW o, GoodObject(file, stored, n, o)
                   PROVE  GoodObject(file', stored, n, o)
        OBVIOUS
      <3>1. PICK i \in 1..k : o.line = file[i]
        BY DEF GoodObject
      <3>2. i \in 1..Len(file') /\ o.line = file'[i]
        BY <1>3, <1>4, <3>1
      <3> QED BY <1>2, <3>2 DEF GoodObject
    <2> QED BY <1>1, <1>2, <2>1 DEF ObjectsInv, Honest, NoDeed, Sizes
  <1>11. LogInv' /\ CopyInv'
    BY <1>2, <1>3, SameLines DEF NoDeed
  <1>12. TypeInv'
    BY <1>1, <1>2 DEF TypeInv, Sizes
  <1>13. StoredInv'
    BY <1>1, <1>2 DEF StoredInv, Holds
  <1> QED BY <1>8, <1>9, <1>10, <1>11, <1>12, <1>13 DEF AuditInv

\* Store.
LEMMA StoreInv ==
    ASSUME AuditInv, Store
    PROVE  AuditInv'
  <1> DEFINE c == Last(file)
             o == Version(c, "COMPLIANCE", now + Retention)
             s == [cp |-> c, until |-> now + Retention]
             n == c.size
  <1>1. TypeInv /\ LogInv /\ CopyInv /\ FileInv /\ RevsInv /\ StoredInv /\ ObjectsInv
    BY DEF AuditInv
  <1>2. /\ Undisturbed /\ Bucket /\ file # <<>> /\ Free(n)
        /\ objects' = [objects EXCEPT ![n] = Append(objects[n], o)]
        /\ stored' = stored \cup {s}
        /\ UNCHANGED <<log, signer, file, revs, leaked, copy, now, signed, deeds>>
    BY DEF Store
  <1>3. now \in Nat /\ Retention \in Nat /\ MaxLog \in Nat /\ Len(log) \in Nat /\ Len(log) <= MaxLog
    BY <1>1, SeqFacts, AuditAssumption DEF TypeInv
  <1>4. IsSeq(file) /\ Len(file) \in 1..Len(file) /\ c = file[Len(file)]
    BY <1>1, <1>2, SeqFacts DEF FileInv, Undisturbed, Last
  <1>5. GoodCheckpoint(log, c) /\ c.ts <= now
    BY <1>1, <1>2, <1>4 DEF FileInv, Undisturbed
  <1>6. n \in Sizes /\ c.ts \in Nat
    <2>1. n \in 1..Len(log)
      BY <1>5 DEF GoodCheckpoint
    <2> HIDE DEF n
    <2> QED BY <1>3, <1>5, <2>1 DEF Sizes, GoodCheckpoint
  <1>7. /\ o.line = c /\ ~o.marker /\ o.mode = "COMPLIANCE" /\ o.until = now + Retention /\ o.at = now
    BY DEF Version
  <1>8. s.cp = c /\ s.until = now + Retention
    OBVIOUS
  <1>9. IsSeq(objects[n]) /\ Len(objects[n]) \in Nat
    BY <1>1, <1>6, SeqFacts DEF TypeInv
  <1> HIDE DEF o, s
  <1>10. /\ IsSeq(Append(objects[n], o)) /\ Len(Append(objects[n], o)) = Len(objects[n]) + 1
         /\ Append(objects[n], o)[Len(objects[n]) + 1] = o
         /\ \A i \in 1..Len(objects[n]) : Append(objects[n], o)[i] = objects[n][i]
    BY <1>9, SeqAppend
  <1> HIDE DEF n
  <1>11. /\ objects'[n] = Append(objects[n], o) /\ DOMAIN objects' = Sizes
         /\ \A m \in Sizes : m # n => objects'[m] = objects[m]
    BY <1>1, <1>2, <1>6 DEF TypeInv
  <1>12. TypeInv'
    <2>1. \A m \in Sizes : IsSeq(objects'[m])
      BY <1>1, <1>10, <1>11 DEF TypeInv
    <2> QED BY <1>1, <1>2, <1>11, <2>1 DEF TypeInv, Sizes
  <1>13. LogInv' /\ CopyInv'
    BY <1>2, <1>3, SameLines DEF NoDeed
  <1>14. FileInv' /\ RevsInv'
    BY <1>1, <1>2 DEF FileInv, RevsInv, NoDeed
  <1>15. StoredInv'
    <2> SUFFICES ASSUME NEW t \in stored'
                 PROVE  /\ GoodCheckpoint(log, t.cp) /\ t.until \in Nat
                        /\ t.until > now =>
                             \E i \in 1..Len(objects'[t.cp.size]) : Holds(objects'[t.cp.size][i], t)
      BY <1>2 DEF StoredInv, Holds
    <2>1. CASE t = s
      <3>1. GoodCheckpoint(log, t.cp) /\ t.until \in Nat /\ t.cp.size = n
        BY <1>3, <1>5, <1>8, <2>1 DEF n
      <3>2. Holds(o, t)
        BY <1>7, <1>8, <2>1 DEF Holds
      <3>3. Len(objects[n]) + 1 \in 1..Len(objects'[n]) /\ objects'[n][Len(objects[n]) + 1] = o
        BY <1>9, <1>10, <1>11
      <3> QED BY <3>1, <3>2, <3>3
    <2>2. CASE t \in stored
      <3> DEFINE m == t.cp.size
      <3>1. GoodCheckpoint(log, t.cp) /\ t.until \in Nat
        BY <1>1, <2>2 DEF StoredInv
      <3>2. m \in Sizes
        <4>1. m \in 1..Len(log)
          BY <3>1 DEF GoodCheckpoint
        <4> HIDE DEF m
        <4> QED BY <1>3, <4>1 DEF Sizes
      <3>3. ASSUME t.until > now PROVE \E i \in 1..Len(objects'[m]) : Holds(objects'[m][i], t)
        <4>1. PICK i \in 1..Len(objects[m]) : Holds(objects[m][i], t)
          BY <1>1, <2>2, <3>3 DEF StoredInv
        <4> HIDE DEF m
        <4>2. CASE m = n
          <5>1. i \in 1..Len(objects'[m]) /\ objects'[m][i] = objects[m][i]
            BY <1>9, <1>10, <1>11, <4>2
          <5> QED BY <4>1, <5>1
        <4>3. CASE m # n
          BY <1>11, <3>2, <4>1, <4>3
        <4> QED BY <4>2, <4>3
      <3> QED BY <3>1, <3>3
    <2> QED BY <1>2, <2>1, <2>2
  <1>16. ObjectsInv'
    <2> SUFFICES ASSUME Honest, NEW m \in Sizes, Len(objects'[m]) # 0
                 PROVE  Len(objects'[m]) = 1 /\ GoodObject(file, stored', m, objects'[m][1])
      BY <1>2 DEF ObjectsInv, Honest, NoDeed, Sizes
    <2>1. \A x, y : GoodObject(file, stored, x, y) => GoodObject(file, stored', x, y)
      BY <1>2 DEF GoodObject
    <2>2. CASE m # n
      BY <1>1, <1>11, <2>1, <2>2 DEF ObjectsInv
    <2>3. CASE m = n
      <3>1. Len(objects[n]) = 0
        <4> SUFFICES ASSUME Len(objects[n]) # 0 PROVE FALSE
          OBVIOUS
        <4>1. Len(objects[n]) = 1 /\ ~objects[n][1].marker
          BY <1>1, <1>6 DEF ObjectsInv, GoodObject
        <4>2. objects[n] # <<>>
          BY <1>9, <4>1, SeqFacts
        <4> QED BY <1>2, <4>1, <4>2 DEF Free, Last
      <3>2. Len(objects'[n]) = 1 /\ objects'[n][1] = o
        BY <1>10, <1>11, <3>1
      <3>3. GoodObject(file, stored', n, o)
        <4>1. o.line.size = n
          BY <1>7 DEF n
        <4>2. s \in stored' /\ s.until = o.until
          BY <1>2, <1>7, <1>8
        <4>3. o.at \in Nat /\ o.line.ts <= o.at
          BY <1>3, <1>5, <1>7
        <4>4. Len(file) \in 1..Len(file) /\ o.line = file[Len(file)]
          BY <1>4, <1>7
        <4> QED BY <1>7, <4>1, <4>2, <4>3, <4>4 DEF GoodObject
      <3> QED BY <2>3, <3>2, <3>3
    <2> QED BY <2>2, <2>3
  <1> QED BY <1>12, <1>13, <1>14, <1>15, <1>16 DEF AuditInv

\* RevokeKey.
LEMMA RevokeInv ==
    ASSUME AuditInv, NEW kid \in Kid, RevokeKey(kid)
    PROVE  AuditInv'
  <1>1. TypeInv /\ LogInv /\ CopyInv /\ FileInv /\ RevsInv /\ StoredInv /\ ObjectsInv
    BY DEF AuditInv
  <1>2. Undisturbed /\ UNCHANGED <<log, signer, file, objects, leaked, copy, now, signed, deeds, stored>>
    BY DEF RevokeKey
  <1>3. PICK i \in DOMAIN file : revs' = revs \cup {Revocation(kid, file[i])}
    BY DEF RevokeKey
  <1>4. i \in 1..Len(file)
    BY <1>1, <1>2, SeqFacts DEF FileInv, Undisturbed
  <1>5. RevsInv'
    <2> DEFINE v == Revocation(kid, file[i])
    <2>1. v.root /\ v.own /\ v.size = file[i].size /\ v.head = file[i].head
      BY DEF Revocation
    <2> HIDE DEF v
    <2> SUFFICES ASSUME NEW w \in revs'
                 PROVE  /\ w.root /\ w.own
                        /\ \E j \in 1..Len(file) : w.size = file[j].size /\ w.head = file[j].head
      BY <1>2 DEF RevsInv
    <2>2. CASE w \in revs
      BY <1>1, <1>2, <2>2 DEF RevsInv, Undisturbed
    <2>3. CASE w = v
      BY <1>4, <2>1, <2>3
    <2> QED BY <1>3, <2>2, <2>3 DEF v
  <1>6. LogInv' /\ CopyInv'
    <2>1. now \in Nat
      BY <1>1 DEF TypeInv
    <2> QED BY <1>2, <2>1, SameLines DEF NoDeed
  <1>7. TypeInv' /\ FileInv' /\ StoredInv'
    BY <1>1, <1>2 DEF TypeInv, FileInv, StoredInv, NoDeed, Sizes, Holds
  <1>8. ObjectsInv'
    BY <1>1, <1>2 DEF ObjectsInv, Honest, NoDeed, Sizes, GoodObject
  <1> QED BY <1>5, <1>6, <1>7, <1>8 DEF AuditInv

\* Export.
LEMMA ExportInv ==
    ASSUME AuditInv, Export
    PROVE  AuditInv'
  <1>1. TypeInv /\ LogInv /\ CopyInv /\ FileInv /\ RevsInv /\ StoredInv /\ ObjectsInv
    BY DEF AuditInv
  <1>2. Undisturbed /\ copy' = log /\ UNCHANGED <<log, signer, file, objects, revs, leaked, now, signed, deeds, stored>>
    BY DEF Export
  <1>3. Len(log) \in Nat
    BY <1>1, SeqFacts DEF TypeInv
  <1>4. CopyInv'
    BY <1>2, <1>3 DEF CopyInv, NoDeed, Undisturbed
  <1>5. TypeInv' /\ LogInv'
    BY <1>1, <1>2 DEF TypeInv, LogInv, Sizes, NoDeed
  <1>6. FileInv' /\ StoredInv' /\ RevsInv'
    BY <1>1, <1>2 DEF FileInv, StoredInv, RevsInv, NoDeed, Holds
  <1>7. ObjectsInv'
    BY <1>1, <1>2 DEF ObjectsInv, Honest, NoDeed, Sizes, GoodObject
  <1> QED BY <1>4, <1>5, <1>6, <1>7 DEF AuditInv

\* Tick.
LEMMA TickInv ==
    ASSUME AuditInv, Tick
    PROVE  AuditInv'
  <1>1. TypeInv /\ LogInv /\ CopyInv /\ FileInv /\ RevsInv /\ StoredInv /\ ObjectsInv
    BY DEF AuditInv
  <1>2. now' = now + 1 /\ UNCHANGED <<log, signer, file, objects, revs, leaked, copy, signed, deeds, stored>>
    BY DEF Tick
  <1>3. now \in Nat /\ now' \in Nat /\ now <= now'
    BY <1>1, <1>2 DEF TypeInv
  <1>4. LogInv' /\ CopyInv'
    BY <1>2, <1>3, SameLines DEF NoDeed
  <1>5. TypeInv' /\ RevsInv'
    BY <1>1, <1>2, <1>3 DEF TypeInv, RevsInv, Sizes, NoDeed
  <1>6. FileInv'
    <2> SUFFICES ASSUME NoDeed("file") PROVE FileInv'
      BY <1>2 DEF FileInv, NoDeed
    <2>1. ASSUME NEW i \in 1..Len(file) PROVE GoodCheckpoint(log, file[i]) /\ file[i].ts <= now'
      <3>1. GoodCheckpoint(log, file[i]) /\ file[i].ts <= now
        BY <1>1 DEF FileInv
      <3>2. file[i].ts \in Nat
        BY <3>1 DEF GoodCheckpoint
      <3> QED BY <1>3, <3>1, <3>2
    <2> QED BY <1>1, <1>2, <2>1 DEF FileInv
  <1>7. StoredInv'
    <2> SUFFICES ASSUME NEW s \in stored
                 PROVE  /\ GoodCheckpoint(log, s.cp) /\ s.until \in Nat
                        /\ s.until > now' =>
                             \E i \in 1..Len(objects[s.cp.size]) : Holds(objects[s.cp.size][i], s)
      BY <1>1, <1>2 DEF StoredInv, Holds
    <2>1. s.until \in Nat
      BY <1>1 DEF StoredInv
    <2>2. s.until > now' => s.until > now
      BY <1>3, <2>1
    <2> QED BY <1>1, <2>2 DEF StoredInv
  <1>8. ObjectsInv'
    BY <1>1, <1>2 DEF ObjectsInv, Honest, NoDeed, Sizes, GoodObject
  <1> QED BY <1>4, <1>5, <1>6, <1>7, <1>8 DEF AuditInv

\* Leak.
LEMMA LeakInv ==
    ASSUME AuditInv, NEW kid \in Kid, Leak(kid)
    PROVE  AuditInv'
  <1>1. TypeInv /\ LogInv /\ CopyInv /\ FileInv /\ RevsInv /\ StoredInv /\ ObjectsInv
    BY DEF AuditInv
  <1>2. leaked' = leaked \cup {kid} /\ UNCHANGED <<log, signer, file, objects, revs, copy, now, signed, deeds, stored>>
    BY DEF Leak
  <1>3. now \in Nat
    BY <1>1 DEF TypeInv
  <1>4. LogInv' /\ CopyInv'
    BY <1>2, <1>3, SameLines DEF NoDeed
  <1>5. TypeInv' /\ RevsInv'
    BY <1>1, <1>2, <1>3 DEF TypeInv, RevsInv, Sizes, NoDeed
  <1>6. FileInv' /\ StoredInv'
    BY <1>1, <1>2 DEF FileInv, StoredInv, NoDeed, Holds
  <1>7. ObjectsInv'
    BY <1>1, <1>2 DEF ObjectsInv, Honest, NoDeed, Sizes, GoodObject
  <1> QED BY <1>4, <1>5, <1>6, <1>7 DEF AuditInv

\* What a deed leaves alone.
LEMMA DeedKeeps ==
    ASSUME AuditInv, NEW where \in Where, Deed(where)
    PROVE  /\ deeds' \in [Where -> Nat] /\ ~NoDeed(where)' /\ ~Honest'
           /\ \A w \in Where : w # where => (NoDeed(w)' <=> NoDeed(w))
  <1>1. deeds \in [Where -> Nat] /\ deeds' = [deeds EXCEPT ![where] = @ + 1]
    BY DEF AuditInv, TypeInv, Deed
  <1> QED BY <1>1 DEF NoDeed, Honest

\* The lines of the copy, whether it was altered before or not.
LEMMA CopyLines ==
    ASSUME AuditInv
    PROVE  \A i \in 1..Len(copy) : Sourced(log, leaked, signed, copy[i])
  <1> SUFFICES ASSUME NoDeed("copy"), NEW i \in 1..Len(copy)
               PROVE  IsLine(copy[i]) /\ FromLog(log, copy[i])
    BY DEF AuditInv, CopyInv, Sourced
  <1>1. Len(copy) \in Nat /\ Len(log) \in Nat
    BY SeqFacts DEF AuditInv, TypeInv
  <1>2. i \in 1..Len(log) /\ copy[i] = log[i]
    BY <1>1 DEF AuditInv, CopyInv
  <1>3. GoodLine(log, i)
    BY <1>2 DEF AuditInv, LogInv
  <1> QED BY <1>2, <1>3 DEF FromLog, GoodLine

\* A copy made of lines of the copy and of lines signed with a leaked key.
LEMMA CopyChanged ==
    ASSUME AuditInv, Deed("copy"), IsSeq(copy'), signed' \in Nat, signed <= signed',
           UNCHANGED <<log, signer, file, objects, revs, leaked, now, stored>>,
           \A i \in 1..Len(copy') : Sourced(log, leaked, signed', copy'[i])
    PROVE  AuditInv'
  <1>1. TypeInv /\ LogInv /\ CopyInv /\ FileInv /\ RevsInv /\ StoredInv /\ ObjectsInv
    BY DEF AuditInv
  <1>2. /\ deeds' \in [Where -> Nat] /\ ~NoDeed("copy")' /\ ~Honest'
        /\ NoDeed("file")' <=> NoDeed("file")
    BY DeedKeeps DEF Where
  <1>3. TypeInv'
    BY <1>1, <1>2 DEF TypeInv, Sizes
  <1>4. LogInv'
    <2>1. Len(log) \in Nat /\ Len(log) <= signed /\ signed \in Nat
      BY <1>1, SeqFacts DEF TypeInv, LogInv
    <2> QED BY <1>1, <1>2, <2>1 DEF LogInv
  <1>5. CopyInv'
    BY <1>2 DEF CopyInv
  <1>6. FileInv' /\ RevsInv' /\ StoredInv'
    BY <1>1, <1>2 DEF FileInv, RevsInv, StoredInv, Holds
  <1>7. ObjectsInv'
    BY <1>2 DEF ObjectsInv
  <1> QED BY <1>3, <1>4, <1>5, <1>6, <1>7 DEF AuditInv

\* A line that is changed without the key.
LEMMA KeyChanged ==
    ASSUME AuditInv, NEW l, Sourced(log, leaked, signed, l)
    PROVE  Sourced(log, leaked, signed, [l EXCEPT !.key = Other])
  <1> DEFINE m == [l EXCEPT !.key = Other]
  <1>1. /\ m = [ id |-> l.id, kid |-> l.kid, key |-> Other, form |-> l.form, seq |-> l.seq,
                 prev |-> l.prev, r |-> l.r ]
    <2>1. l = [ id |-> l.id, kid |-> l.kid, key |-> l.key, form |-> l.form, seq |-> l.seq,
                prev |-> l.prev, r |-> l.r ]
      BY DEF Sourced, IsLine
    <2> QED BY <2>1
  <1> HIDE DEF m
  <1>2. IsLine(m) /\ m.key = Other /\ m.id = l.id /\ m.kid = l.kid /\ m.seq = l.seq /\ m.r = l.r
    BY <1>1 DEF IsLine
  <1>3. CASE FromLog(log, l)
    BY <1>2, <1>3 DEF m, FromLog, Sourced
  <1>4. CASE Forged(log, leaked, signed, l)
    BY <1>2, <1>4 DEF m, Forged, Sourced, IsTurn
  <1> QED BY <1>3, <1>4 DEF Sourced

\* The handover certificates that a forger has at hand.
Certs == { log[i].r.cert : i \in Handovers } \cup { [Certificate(k) EXCEPT !.root = FALSE] : k \in Kid }

\* None of them is the root's word for a wrong key.
LEMMA CertsAtHand ==
    ASSUME AuditInv, NEW c \in Certs
    PROVE  CertOK(c)
  <1>1. CASE c \in { log[i].r.cert : i \in Handovers }
    <2>1. PICK i \in DOMAIN log : log[i].r.type = "key_rotation" /\ c = log[i].r.cert
      BY <1>1 DEF Handovers
    <2>2. i \in 1..Len(log)
      BY SeqFacts DEF AuditInv, TypeInv
    <2>3. GoodTurn(log[i])
      BY <2>1, <2>2 DEF AuditInv, LogInv, GoodLine
    <2> QED BY <2>1, <2>3 DEF GoodTurn, CertOK
  <1>2. CASE c \in { [Certificate(k) EXCEPT !.root = FALSE] : k \in Kid }
    <2>1. PICK k \in Kid : c = [Certificate(k) EXCEPT !.root = FALSE]
      BY <1>2
    <2>2. \A z : [Certificate(k) EXCEPT !.root = z].root = z
      BY DEF Certificate
    <2>3. c.root = FALSE
      BY <2>1, <2>2, Zenon
    <2> QED BY <2>3 DEF CertOK
  <1> QED BY <1>1, <1>2 DEF Certs

\* A line signed with a leaked key.
LEMMA ForgedLine ==
    ASSUME AuditInv, NEW kid \in leaked, NEW chain, NEW r,
           r.type = "decision" \/ (r.type = "key_rotation" /\ CertOK(r.cert))
    PROVE  Sourced(log, leaked, signed + 1, NextLine(chain, kid, r))
  <1> DEFINE x == NextLine(chain, kid, r)
             prev == IF chain = <<>> THEN Genesis(kid, kid) ELSE Last(chain).id
  <1>1. x = [ id |-> Digest(signed + 1), kid |-> kid, key |-> kid, form |-> "ok",
              seq |-> Len(chain), prev |-> prev, r |-> r ]
    BY DEF NextLine
  <1> HIDE DEF x, prev
  <1>2. IsLine(x) /\ x.kid = kid /\ x.id = Digest(signed + 1) /\ x.r = r
    BY <1>1 DEF IsLine
  <1>3. signed + 1 \in (Len(log) + 1)..(signed + 1)
    <2>1. signed \in Nat /\ Len(log) \in Nat /\ Len(log) <= signed
      BY SeqFacts DEF AuditInv, TypeInv, LogInv
    <2> QED BY <2>1
  <1>4. Forged(log, leaked, signed + 1, x)
    BY <1>2, <1>3 DEF Forged, IsTurn
  <1> QED BY <1>2, <1>4 DEF Sourced, x

\* Alter.
LEMMA AlterInv ==
    ASSUME AuditInv, Alter
    PROVE  AuditInv'
  <1>0. /\ copy # <<>> /\ Deed("copy")
        /\ UNCHANGED <<log, signer, file, objects, revs, leaked, now, stored>>
    BY DEF Alter
  <1>1. /\ IsSeq(copy) /\ Len(copy) \in Nat /\ DOMAIN copy = 1..Len(copy) /\ signed \in Nat
    BY SeqFacts DEF AuditInv, TypeInv
  <1>2. \A i \in 1..Len(copy) : Sourced(log, leaked, signed, copy[i])
    BY CopyLines
  <1>3. CASE \E i \in DOMAIN copy : copy' = RemoveAt(copy, i) /\ UNCHANGED signed
    <2>1. PICK i \in 1..Len(copy) : copy' = RemoveAt(copy, i) /\ UNCHANGED signed
      BY <1>1, <1>3
    <2>2. /\ IsSeq(copy') /\ Len(copy') = Len(copy) - 1
          /\ \A j \in 1..(Len(copy) - 1) : copy'[j] = IF j < i THEN copy[j] ELSE copy[j + 1]
      BY <1>1, <2>1, SeqRemove
    <2>3. ASSUME NEW j \in 1..Len(copy') PROVE Sourced(log, leaked, signed', copy'[j])
      <3>1. j \in 1..(Len(copy) - 1) /\ j \in 1..Len(copy) /\ j + 1 \in 1..Len(copy)
        BY <1>1, <2>2
      <3>2. copy'[j] = copy[j] \/ copy'[j] = copy[j + 1]
        BY <2>2, <3>1
      <3> QED BY <1>2, <2>1, <3>1, <3>2
    <2> QED BY <1>0, <1>1, <2>1, <2>2, <2>3, CopyChanged
  <1>4. CASE \E i \in 1..(Len(copy) - 1) :
               /\ copy' = [copy EXCEPT ![i] = copy[i + 1], ![i + 1] = copy[i]]
               /\ UNCHANGED signed
    <2>1. PICK i \in 1..(Len(copy) - 1) :
               /\ copy' = [copy EXCEPT ![i] = copy[i + 1], ![i + 1] = copy[i]]
               /\ UNCHANGED signed
      BY <1>4
    <2>2. i \in 1..Len(copy) /\ i + 1 \in 1..Len(copy)
      BY <1>1
    <2>3. copy' \in [1..Len(copy) -> Range(copy)]
      <3>1. copy \in [1..Len(copy) -> Range(copy)]
        BY <1>1 DEF IsSeq
      <3> QED BY <2>1, <2>2, <3>1
    <2>4. IsSeq(copy') /\ Len(copy') = Len(copy)
      <3>1. copy' \in Seq(Range(copy)) /\ Len(copy') = Len(copy)
        BY <1>1, <2>3
      <3> QED BY <3>1, SeqIs
    <2>5. ASSUME NEW j \in 1..Len(copy') PROVE Sourced(log, leaked, signed', copy'[j])
      <3>1. j \in 1..Len(copy)
        BY <2>4
      <3>2. copy'[j] = copy[j] \/ copy'[j] = copy[i] \/ copy'[j] = copy[i + 1]
        BY <1>1, <2>1, <2>2, <3>1
      <3> QED BY <1>2, <2>1, <2>2, <3>1, <3>2
    <2> QED BY <1>0, <1>1, <2>1, <2>4, <2>5, CopyChanged
  <1>5. CASE \E i \in DOMAIN copy : copy' = [copy EXCEPT ![i].key = Other] /\ UNCHANGED signed
    <2>1. PICK i \in 1..Len(copy) : copy' = [copy EXCEPT ![i].key = Other] /\ UNCHANGED signed
      BY <1>1, <1>5
    <2> DEFINE l == [copy[i] EXCEPT !.key = Other]
    <2>2. copy' = [copy EXCEPT ![i] = l]
      BY <2>1
    <2>3. Sourced(log, leaked, signed, l)
      BY <1>2, KeyChanged
    <2> HIDE DEF l
    <2>4. copy' \in [1..Len(copy) -> Range(copy) \cup {l}]
      <3>1. copy \in [1..Len(copy) -> Range(copy)]
        BY <1>1 DEF IsSeq
      <3> QED BY <2>2, <3>1
    <2>5. IsSeq(copy') /\ Len(copy') = Len(copy)
      <3>1. copy' \in Seq(Range(copy) \cup {l}) /\ Len(copy') = Len(copy)
        BY <1>1, <2>4
      <3> QED BY <3>1, SeqIs
    <2>6. ASSUME NEW j \in 1..Len(copy') PROVE Sourced(log, leaked, signed', copy'[j])
      <3>1. j \in 1..Len(copy)
        BY <2>5
      <3>2. copy'[j] = copy[j] \/ copy'[j] = l
        BY <1>1, <2>2, <3>1
      <3> QED BY <1>2, <2>1, <2>3, <3>1, <3>2
    <2> QED BY <1>0, <1>1, <2>1, <2>5, <2>6, CopyChanged
  <1>6. ASSUME NEW kid \in leaked, NEW keep \in 0..Len(copy),
               NEW r \in {ADecision} \cup { KeyRotation(kid, c.kid, c) : c \in Certs },
               copy' = Append(SubSeq(copy, 1, keep), NextLine(SubSeq(copy, 1, keep), kid, r)),
               signed' = signed + 1
        PROVE  AuditInv'
    <2> DEFINE kept == SubSeq(copy, 1, keep)
               x == NextLine(kept, kid, r)
    <2>1. r.type = "decision" \/ (r.type = "key_rotation" /\ CertOK(r.cert))
      <3>1. CASE r = ADecision
        BY <3>1 DEF ADecision, Decision
      <3>2. CASE r \in { KeyRotation(kid, c.kid, c) : c \in Certs }
        <4>1. PICK c \in Certs : r = KeyRotation(kid, c.kid, c)
          BY <3>2
        <4>2. r.type = "key_rotation" /\ r.cert = c
          BY <4>1 DEF KeyRotation
        <4> QED BY <4>1, <4>2, CertsAtHand
      <3> QED BY <3>1, <3>2
    <2>2. Sourced(log, leaked, signed + 1, x)
      BY <2>1, ForgedLine
    <2>3. IsSeq(kept) /\ Len(kept) = keep /\ \A i \in 1..keep : kept[i] = copy[i]
      BY <1>1, SeqCut
    <2> HIDE DEF x, kept
    <2>4. copy' = Append(kept, x)
      BY <1>6 DEF kept, x
    <2>5. /\ IsSeq(copy') /\ Len(copy') = keep + 1 /\ copy'[keep + 1] = x
          /\ \A i \in 1..keep : copy'[i] = kept[i]
      BY <2>3, <2>4, SeqAppend
    <2>6. \A l : Sourced(log, leaked, signed, l) => Sourced(log, leaked, signed + 1, l)
      <3>1. (Len(log) + 1)..signed \subseteq (Len(log) + 1)..(signed + 1)
        <4>1. Len(log) \in Nat
          BY SeqFacts DEF AuditInv, TypeInv
        <4> QED BY <1>1, <4>1
      <3> QED BY <3>1 DEF Sourced, Forged
    <2>7. ASSUME NEW j \in 1..Len(copy') PROVE Sourced(log, leaked, signed', copy'[j])
      <3>1. CASE j = keep + 1
        BY <1>6, <2>2, <2>5, <3>1
      <3>2. CASE j \in 1..keep
        <4>1. j \in 1..Len(copy) /\ copy'[j] = copy[j]
          BY <1>1, <2>3, <2>5, <3>2
        <4> QED BY <1>2, <1>6, <2>6, <4>1
      <3> QED BY <2>5, <3>1, <3>2
    <2>8. signed' \in Nat /\ signed <= signed'
      BY <1>1, <1>6
    <2> QED BY <1>0, <2>5, <2>7, <2>8, CopyChanged
  <1>7. CASE \E kid \in leaked, keep \in 0..Len(copy) :
               /\ \E r \in {ADecision} \cup { KeyRotation(kid, c.kid, c) : c \in Certs } :
                    copy' = Append(SubSeq(copy, 1, keep), NextLine(SubSeq(copy, 1, keep), kid, r))
               /\ signed' = signed + 1
    BY <1>6, <1>7
  <1> QED BY <1>3, <1>4, <1>5, <1>7 DEF Alter, Certs

\* AlterFile.
LEMMA AlterFileInv ==
    ASSUME AuditInv, AlterFile
    PROVE  AuditInv'
  <1>1. TypeInv /\ LogInv /\ CopyInv /\ RevsInv /\ StoredInv
    BY DEF AuditInv
  <1>2. Deed("file") /\ UNCHANGED <<log, signer, objects, revs, leaked, copy, now, signed, stored>>
    BY DEF AlterFile
  <1>3. /\ deeds' \in [Where -> Nat] /\ ~NoDeed("file")' /\ ~Honest'
        /\ NoDeed("copy")' <=> NoDeed("copy")
    BY <1>2, DeedKeeps DEF Where
  <1>4. TypeInv' /\ FileInv' /\ RevsInv' /\ ObjectsInv'
    BY <1>1, <1>2, <1>3 DEF TypeInv, Sizes, FileInv, RevsInv, ObjectsInv
  <1>5. StoredInv'
    BY <1>1, <1>2 DEF StoredInv, Holds
  <1>6. LogInv' /\ CopyInv'
    <2>1. now \in Nat
      BY <1>1 DEF TypeInv
    <2> QED BY <1>2, <1>3, <2>1, SameLines
  <1> QED BY <1>4, <1>5, <1>6 DEF AuditInv

\* AlterStore.
LEMMA AlterStoreInv ==
    ASSUME AuditInv, AlterStore
    PROVE  AuditInv'
  <1>1. TypeInv /\ LogInv /\ CopyInv /\ FileInv /\ RevsInv /\ StoredInv
    BY DEF AuditInv
  <1>2. Deed("store") /\ UNCHANGED <<log, signer, file, revs, leaked, copy, now, signed, stored>>
    BY DEF AlterStore
  <1>3. /\ deeds' \in [Where -> Nat] /\ ~Honest'
        /\ NoDeed("copy")' <=> NoDeed("copy")
        /\ NoDeed("file")' <=> NoDeed("file")
    BY <1>2, DeedKeeps DEF Where
  <1>4. PICK name \in Sizes :
           \/ \E o : objects' = [objects EXCEPT ![name] = Append(objects[name], o)]
           \/ \E i \in DOMAIN objects[name] :
                /\ objects[name][i].marker \/ objects[name][i].mode = "none"
                     \/ objects[name][i].until <= now
                /\ objects' = [objects EXCEPT ![name] = RemoveAt(objects[name], i)]
    BY DEF AlterStore
  <1>5. IsSeq(objects[name]) /\ Len(objects[name]) \in Nat /\ DOMAIN objects = Sizes
    BY <1>1, SeqFacts DEF TypeInv
  <1>6. /\ IsSeq(objects'[name]) /\ DOMAIN objects' = Sizes
        /\ \A n \in Sizes : n # name => objects'[n] = objects[n]
        /\ \A s \in stored : \A k \in 1..Len(objects[name]) :
             (s.until > now /\ Holds(objects[name][k], s)) =>
               \E j \in 1..Len(objects'[name]) : objects'[name][j] = objects[name][k]
    <2>1. CASE \E o : objects' = [objects EXCEPT ![name] = Append(objects[name], o)]
      <3>1. PICK o : objects' = [objects EXCEPT ![name] = Append(objects[name], o)]
        BY <2>1
      <3>2. /\ objects'[name] = Append(objects[name], o) /\ DOMAIN objects' = Sizes
            /\ \A n \in Sizes : n # name => objects'[n] = objects[n]
        BY <1>5, <3>1
      <3>3. /\ IsSeq(objects'[name]) /\ Len(objects'[name]) = Len(objects[name]) + 1
            /\ \A i \in 1..Len(objects[name]) : objects'[name][i] = objects[name][i]
        BY <1>5, <3>2, SeqAppend
      <3>4. \A k \in 1..Len(objects[name]) :
               \E j \in 1..Len(objects'[name]) : objects'[name][j] = objects[name][k]
        BY <1>5, <3>3
      <3> QED BY <3>2, <3>3, <3>4
    <2>2. CASE \E i \in DOMAIN objects[name] :
                /\ objects[name][i].marker \/ objects[name][i].mode = "none"
                     \/ objects[name][i].until <= now
                /\ objects' = [objects EXCEPT ![name] = RemoveAt(objects[name], i)]
      <3>1. PICK i \in 1..Len(objects[name]) :
                /\ objects[name][i].marker \/ objects[name][i].mode = "none"
                     \/ objects[name][i].until <= now
                /\ objects' = [objects EXCEPT ![name] = RemoveAt(objects[name], i)]
        BY <1>5, <2>2, SeqFacts
      <3>2. /\ objects'[name] = RemoveAt(objects[name], i) /\ DOMAIN objects' = Sizes
            /\ \A n \in Sizes : n # name => objects'[n] = objects[n]
        BY <1>5, <3>1
      <3>3. /\ IsSeq(objects'[name]) /\ Len(objects'[name]) = Len(objects[name]) - 1
            /\ \A j \in 1..(Len(objects[name]) - 1) :
                 objects'[name][j] = IF j < i THEN objects[name][j] ELSE objects[name][j + 1]
        BY <1>5, <3>2, SeqRemove
      <3>4. ASSUME NEW s \in stored, s.until > now, NEW k \in 1..Len(objects[name]),
                   Holds(objects[name][k], s)
            PROVE  \E j \in 1..Len(objects'[name]) : objects'[name][j] = objects[name][k]
        <4>1. s.until \in Nat /\ now \in Nat
          BY <1>1 DEF StoredInv, TypeInv
        <4>2. k # i
          BY <3>1, <3>4, <4>1 DEF Holds
        <4>3. CASE k < i
          <5>1. k \in 1..(Len(objects[name]) - 1)
            BY <1>5, <4>3
          <5>2. objects'[name][k] = objects[name][k] /\ k \in 1..Len(objects'[name])
            BY <3>3, <4>3, <5>1
          <5> QED BY <5>2
        <4>4. CASE k > i
          <5>1. k - 1 \in 1..(Len(objects[name]) - 1) /\ ~(k - 1 < i) /\ (k - 1) + 1 = k
            BY <1>5, <4>4
          <5>2. objects'[name][k - 1] = objects[name][k] /\ k - 1 \in 1..Len(objects'[name])
            BY <3>3, <5>1
          <5> QED BY <5>2
        <4> QED BY <4>2, <4>3, <4>4
      <3> QED BY <3>2, <3>3, <3>4
    <2> QED BY <1>4, <2>1, <2>2
  <1>7. TypeInv'
    BY <1>1, <1>2, <1>3, <1>6 DEF TypeInv, Sizes
  <1>8. FileInv' /\ RevsInv' /\ ObjectsInv'
    BY <1>1, <1>2, <1>3 DEF FileInv, RevsInv, ObjectsInv
  <1>9. LogInv' /\ CopyInv'
    <2>1. now \in Nat
      BY <1>1 DEF TypeInv
    <2> QED BY <1>2, <1>3, <2>1, SameLines
  <1>10. StoredInv'
    <2> SUFFICES ASSUME NEW s \in stored
                 PROVE  /\ GoodCheckpoint(log, s.cp) /\ s.until \in Nat
                        /\ s.until > now =>
                             \E i \in 1..Len(objects'[s.cp.size]) : Holds(objects'[s.cp.size][i], s)
      BY <1>1, <1>2 DEF StoredInv, Holds
    <2>1. GoodCheckpoint(log, s.cp) /\ s.until \in Nat
      BY <1>1 DEF StoredInv
    <2> DEFINE n == s.cp.size
    <2>2. n \in Sizes
      <3>1. n \in 1..Len(log) /\ Len(log) \in Nat /\ Len(log) <= MaxLog /\ MaxLog \in Nat
        BY <1>1, <2>1, SeqFacts, AuditAssumption DEF GoodCheckpoint, TypeInv
      <3> HIDE DEF n
      <3> QED BY <3>1 DEF Sizes
    <2>3. ASSUME s.until > now PROVE \E i \in 1..Len(objects'[n]) : Holds(objects'[n][i], s)
      <3>1. PICK k \in 1..Len(objects[n]) : Holds(objects[n][k], s)
        BY <1>1, <2>3 DEF StoredInv
      <3> HIDE DEF n
      <3>2. CASE n # name
        BY <1>6, <2>2, <3>1, <3>2
      <3>3. CASE n = name
        <4>1. PICK j \in 1..Len(objects'[name]) : objects'[name][j] = objects[name][k]
          BY <1>6, <2>3, <3>1, <3>3
        <4> QED BY <3>1, <3>3, <4>1
      <3> QED BY <3>2, <3>3
    <2> QED BY <2>1, <2>3
  <1> QED BY <1>7, <1>8, <1>9, <1>10 DEF AuditInv

\* It is inductive.
LEMMA NextInv == AuditInv /\ [Next]_vars => AuditInv'
  <1> SUFFICES ASSUME AuditInv, [Next]_vars PROVE AuditInv'
    OBVIOUS
  <1>1. CASE UNCHANGED vars
    <2>1. UNCHANGED <<log, signer, file, objects, revs, leaked, copy, now, signed, deeds, stored>>
      BY <1>1 DEF vars
    <2>2. TypeInv' /\ LogInv'
      BY <2>1 DEF AuditInv, TypeInv, LogInv, NoDeed, Sizes
    <2>3. CopyInv' /\ FileInv'
      BY <2>1 DEF AuditInv, CopyInv, FileInv, NoDeed
    <2>4. RevsInv' /\ StoredInv'
      BY <2>1 DEF AuditInv, RevsInv, StoredInv, NoDeed, Holds
    <2>5. ObjectsInv'
      BY <2>1 DEF AuditInv, ObjectsInv, Honest, NoDeed, Sizes, GoodObject
    <2> QED BY <2>2, <2>3, <2>4, <2>5 DEF AuditInv
  <1>2. CASE Next
    BY <1>2, AppendInv, PublishInv, StoreInv, ExportInv, TickInv, RotateInv, RevokeInv, LeakInv,
       AlterInv, AlterFileInv, AlterStoreInv DEF Next
  <1> QED BY <1>1, <1>2

\* So it holds at all times.
LEMMA AuditInvHolds == Spec => []AuditInv
  BY InitInv, NextInv, PTL DEF Spec

-----------------------------------------------------------------------------
(* A copy that verifies. *)

\* The keys an audit starts with are genuine, and so is every key that the root
\* certified in the copy.
LEMMA AuditKeys ==
    ASSUME AuditInv
    PROVE  KeysGenuine(Trusted) /\ CertsGenuine(copy)
  <1>1. KeysGenuine(Trusted)
    BY AuditAssumption DEF KeysGenuine, Trusted
  <1>2. ASSUME NEW i \in 1..Len(copy), copy[i].r.type = "key_rotation", copy[i].r.cert.root
        PROVE  copy[i].r.cert.key = copy[i].r.cert.kid /\ copy[i].r.cert.kid \in Kid
    <2>1. Sourced(log, leaked, signed, copy[i])
      BY CopyLines
    <2>2. CASE FromLog(log, copy[i])
      <3>1. PICK j \in 1..Len(log) : copy[i].r = log[j].r
        BY <2>2 DEF FromLog
      <3>2. GoodLine(log, j)
        BY DEF AuditInv, LogInv
      <3>3. GoodTurn(log[j])
        BY <1>2, <3>1, <3>2 DEF GoodLine
      <3> QED BY <3>1, <3>3 DEF GoodTurn
    <2>3. CASE Forged(log, leaked, signed, copy[i])
      BY <1>2, <2>3 DEF Forged, CertOK
    <2> QED BY <2>1, <2>2, <2>3 DEF Sourced
  <1> QED BY <1>1, <1>2 DEF CertsGenuine

\* A line is Warden's at this position, or somebody else signed it.
LEMMA SoundLines ==
    ASSUME AuditInv, NEW known, KeysGenuine(known), NEW root, NEW rs,
           NEW P, IsPass(P, copy, known, root, rs), P[Len(copy)].fault = "none",
           NEW i \in 1..Len(copy)
    PROVE  /\ (i <= Len(log) /\ copy[i] = log[i]) \/ Forged(log, leaked, signed, copy[i])
           /\ ~Withdrawn(rs, copy[i].kid, i - 1)
  <1>1. Len(copy) \in Nat /\ Len(log) \in Nat
    BY SeqFacts DEF AuditInv, TypeInv
  <1> DEFINE m == Len(copy)
             n == i - 1
  <1>2. m \in 0..Len(copy) /\ n \in 0..(m - 1) /\ n + 1 = i /\ n \in 0..Len(copy)
    BY <1>1
  <1>3. Placed(copy, P[n].known, rs, n)
    <2> HIDE DEF m, n
    <2>1. P[m].fault = "none"
      BY DEF m
    <2> QED BY <1>1, <1>2, <2>1, PassPlaced
  <1>4. KeysGenuine(P[n].known)
    <2>1. CertsGenuine(copy)
      BY AuditKeys
    <2>2. \A k \in 0..Len(copy) : KeysGenuine(P[k].known)
      BY <1>1, <2>1, PassKeys
    <2> QED BY <1>2, <2>2
  <1> HIDE DEF m, n
  <1>5. /\ SignedBy(P[n].known, copy[i]) /\ copy[i].seq = n
        /\ ~Withdrawn(rs, copy[i].kid, n)
    BY <1>2, <1>3 DEF Placed
  <1>6. copy[i].key # Other
    BY <1>4, <1>5, VerifierAssumption DEF SignedBy, KeysGenuine
  <1>7. ASSUME FromLog(log, copy[i]) PROVE i <= Len(log) /\ copy[i] = log[i]
    <2>1. PICK j \in 1..Len(log) : copy[i].seq = log[j].seq /\ (copy[i] = log[j] \/ copy[i].key = Other)
      BY <1>7 DEF FromLog
    <2>2. GoodLine(log, j)
      BY DEF AuditInv, LogInv
    <2>3. log[j].seq = j - 1
      BY <2>2 DEF GoodLine
    <2>4. i = j
      BY <1>1, <1>2, <1>5, <2>1, <2>3
    <2> QED BY <1>1, <1>6, <2>1, <2>4
  <1>8. Sourced(log, leaked, signed, copy[i])
    BY CopyLines
  <1> QED BY <1>5, <1>7, <1>8 DEF Sourced, n

\* The first n lines of the copy are Warden's.
Genuine(n) ==
    n \in Nat /\ n <= Len(log) /\ n <= Len(copy) /\ \A i \in 1..n : copy[i] = log[i]

\* The lines that one of Warden's checkpoints covers are Warden's.
LEMMA CheckpointedLines ==
    ASSUME AuditInv, NEW known, KeysGenuine(known), NEW root, NEW rs,
           NEW P, IsPass(P, copy, known, root, rs), P[Len(copy)].fault = "none",
           NEW c, GoodCheckpoint(log, c), ~Differs(P[Len(copy)], c)
    PROVE  Genuine(c.size)
  <1>1. Len(copy) \in Nat /\ Len(log) \in Nat
    BY SeqFacts DEF AuditInv, TypeInv
  <1>2. c.size \in Nat /\ c.size <= Len(log) /\ c.root = [j \in 1..c.size |-> Digest(j)]
    BY <1>1 DEF GoodCheckpoint
  <1>3. c.size <= Len(copy) /\ c.root = [j \in 1..c.size |-> copy[j].id]
    <2>1. Agrees(copy, c)
      BY <1>1, <1>2, PassCheckpoint
    <2> QED BY <2>1 DEF Agrees
  <1>4. ASSUME NEW i \in 1..c.size PROVE copy[i] = log[i]
    <2>1. i \in 1..Len(copy) /\ i \in 1..Len(log) /\ i \in Nat
      BY <1>1, <1>2, <1>3
    <2>2. copy[i].id = Digest(i)
      <3>1. c.root[i] = Digest(i)
        BY <1>2
      <3>2. c.root[i] = copy[i].id
        BY <1>3
      <3> QED BY <3>1, <3>2
    <2>3. ~Forged(log, leaked, signed, copy[i])
      <3> SUFFICES ASSUME NEW k \in (Len(log) + 1)..signed, copy[i].id = Digest(k) PROVE FALSE
        BY DEF Forged
      <3>1. i = k
        BY <2>2 DEF Digest
      <3> QED BY <1>1, <2>1, <3>1
    <2> QED BY <2>1, <2>3, SoundLines
  <1> QED BY <1>2, <1>3, <1>4 DEF Genuine

\* A pass over the copy finds no fault and no difference from checkpoints.
SoundCopy(K, P, rs, cps) ==
    /\ KeysGenuine(K) /\ IsPass(P, copy, K, TRUE, rs) /\ P[Len(copy)].fault = "none"
    /\ \A c \in cps : ~Differs(P[Len(copy)], c)

\* What a verdict with the root and an anchor rests on.
LEMMA RootedVerdict ==
    ASSUME AuditInv, NEW a, a.log = copy, a.trusted = Trusted, a.root = TRUE, Anchored(a),
           Run(a).verified
    PROVE  LET cps == Checkpoints(a, StoreRead(a)) IN
           /\ \E K, P : SoundCopy(K, P, OfChain(Revocations(a)), cps)
           /\ Run(a).checkpointed = Covered(cps)
  <1> DEFINE K == FirstPass(a).known
             rs == OfChain(Revocations(a))
             P == Pass(copy, K, TRUE, rs)
             cps == Checkpoints(a, StoreRead(a))
             last == LastPass(a, StoreRead(a), FirstPass(a))
  <1>2. Len(copy) \in Nat
    BY SeqFacts DEF AuditInv, TypeInv
  <1>3. KeysGenuine(K)
    <2> DEFINE F == Pass(copy, Trusted, TRUE, {})
    <2>1. FirstPass(a).known = F[Len(copy)].known
      <3>1. FirstPass(a) = VerifyAll(copy, Trusted, TRUE, {}, {})
        BY DEF FirstPass
      <3>2. Reports(VerifyAll(copy, Trusted, TRUE, {}, {}), F[Len(copy)], {})
        BY VerifyAllSays
      <3> QED BY <3>1, <3>2 DEF Reports
    <2>2. IsPass(F, copy, Trusted, TRUE, {})
      BY <1>2, PassIsPass
    <2> HIDE DEF F
    <2>3. \A k \in 0..Len(copy) : KeysGenuine(F[k].known)
      BY <1>2, <2>2, AuditKeys, PassKeys
    <2> QED BY <1>2, <2>1, <2>3
  <1>4. IsPass(P, copy, K, TRUE, rs)
    BY <1>2, PassIsPass
  <1>5. last = VerifyAll(copy, K, TRUE, cps, rs)
    BY DEF LastPass, Keys
  <1>6. last.verified /\ Run(a).checkpointed = last.checkpointed
    BY RunSays
  <1> HIDE DEF K, rs, last, cps
  <1>7. /\ P[Len(copy)].fault = "none" /\ \A c \in cps : ~Differs(P[Len(copy)], c)
        /\ last.checkpointed = Covered(cps)
    <2>1. Reports(last, P[Len(copy)], cps)
      BY <1>5, VerifyAllSays
    <2> HIDE DEF P
    <2> QED BY <1>6, <2>1 DEF Reports
  <1> HIDE DEF P
  <1>8. SoundCopy(K, P, rs, cps)
    BY <1>3, <1>4, <1>7 DEF SoundCopy
  <1> QED BY <1>6, <1>7, <1>8 DEF rs, cps

\* The same audit with an anchor file and a file of revocations, even if there is
\* nothing in them yet.
Present(a) == [a EXCEPT !.useFile = TRUE, !.exists = TRUE, !.useRevs = TRUE]

\* What the audits of a log x have in common.
Audits(a, x) ==
    /\ a.log = x /\ a.trusted = Trusted /\ a.root = TRUE /\ a.file = file /\ a.revs = revs
    /\ a.objects = objects /\ a.now = now /\ a.useTokens = FALSE

\* It makes no difference to the verdict and the numbers of the report.
LEMMA PresentSame ==
    ASSUME AuditInv, NEW x, Len(x) \in Nat, NEW a, NEW b, Audits(a, x), Audits(b, x),
           a.useFile <=> Exists, a.exists <=> Exists, a.useRevs <=> revs # {},
           a.useStore \in BOOLEAN, b.useStore = a.useStore,
           b.useFile = TRUE, b.exists = TRUE, b.useRevs = TRUE
    PROVE  /\ Run(a).verified <=> Run(b).verified
           /\ Run(a).verified => /\ Run(a).checkpointed = Run(b).checkpointed
                                 /\ Run(a).unanchored = Run(b).unanchored
  <1>1. ~Exists => file = <<>> /\ revs = {}
    BY DEF Exists, AuditInv, RevsInv
  <1>2. IsFun(a.trusted)
    BY DEF Audits, Trusted, IsFun
  <1>3. /\ ~a.useFile => a.file = <<>>
        /\ ~a.useRevs => a.revs = {}
        /\ a.useRevs => a.useFile
        /\ a.useFile <=> a.exists
    BY <1>1 DEF Audits
  <1>4. /\ Len(a.log) \in Nat /\ a.root = TRUE /\ a.useTokens = FALSE
        /\ b.log = a.log /\ b.trusted = a.trusted /\ b.root = TRUE /\ b.file = a.file
        /\ b.objects = a.objects /\ b.now = a.now /\ b.revs = a.revs /\ b.useTokens = FALSE
    BY DEF Audits
  <1> QED BY <1>2, <1>3, <1>4, EmptyFilesSame

\* The same for the anchor file alone.
LEMMA FileVerdict ==
    ASSUME AuditInv, Run(FileOnly).verified
    PROVE  /\ \E K, P : SoundCopy(K, P, OfChain(revs), Range(file))
           /\ Run(FileOnly).checkpointed = Covered(Range(file))
  <1> DEFINE a == Present(FileOnly)
  <1>a. /\ FileOnly.useFile = Exists /\ FileOnly.exists = Exists
        /\ FileOnly.useRevs = (revs # {}) /\ FileOnly.useStore = FALSE
    BY Zenon DEF FileOnly, Full
  <1>b. a.useFile = TRUE /\ a.exists = TRUE /\ a.useRevs = TRUE /\ a.useStore = FALSE
    BY Zenon DEF FileOnly, Full, Present
  <1>c. Audits(FileOnly, copy)
    BY Zenon DEF FileOnly, Full, Audits
  <1>d. Audits(a, copy)
    BY Zenon DEF FileOnly, Full, Present, Audits
  <1>1. /\ a.log = copy /\ a.trusted = Trusted /\ a.file = file /\ a.revs = revs
        /\ a.useStore = FALSE /\ a.useFile = TRUE /\ a.exists = TRUE /\ a.root = TRUE
        /\ a.useRevs = TRUE
    BY <1>b, <1>d, Zenon DEF Audits
  <1>2. File(a) = file /\ Anchored(a) /\ Revocations(a) = revs
    BY <1>1 DEF File, Revocations, Anchored
  <1>3. Checkpoints(a, StoreRead(a)) = Range(file)
    BY <1>1, <1>2, FileCheckpoints
  <1> HIDE DEF a
  <1>4. Run(a).verified /\ Run(FileOnly).checkpointed = Run(a).checkpointed
    <2>1. Len(copy) \in Nat
      BY SeqFacts DEF AuditInv, TypeInv
    <2>2. FileOnly.useStore \in BOOLEAN /\ a.useStore = FileOnly.useStore
      BY <1>a, <1>b
    <2>3. /\ FileOnly.useFile <=> Exists
          /\ FileOnly.exists <=> Exists
          /\ FileOnly.useRevs <=> revs # {}
      BY <1>a
    <2>4. /\ Run(FileOnly).verified <=> Run(a).verified
          /\ Run(FileOnly).verified => Run(FileOnly).checkpointed = Run(a).checkpointed
      BY <1>b, <1>c, <1>d, <2>1, <2>2, <2>3, PresentSame
    <2> QED BY <2>4
  <1>5. /\ \E K, P : SoundCopy(K, P, OfChain(Revocations(a)), Checkpoints(a, StoreRead(a)))
        /\ Run(a).checkpointed = Covered(Checkpoints(a, StoreRead(a)))
    BY <1>1, <1>2, <1>4, RootedVerdict
  <1>6. /\ \E K, P : SoundCopy(K, P, OfChain(revs), Range(file))
        /\ Run(a).checkpointed = Covered(Range(file))
    BY <1>2, <1>3, <1>5
  <1> QED BY <1>4, <1>6

\* The newest checkpoint of a file that nobody changed covers the others.
LEMMA CoveredIsLast ==
    ASSUME AuditInv, NoDeed("file"), Len(file) > 0
    PROVE  Covered(Range(file)) = file[Len(file)].size
  <1>1. /\ IsSeq(file) /\ Len(file) \in Nat
        /\ \A i \in 1..Len(file) : GoodCheckpoint(log, file[i])
        /\ \A i, j \in 1..Len(file) : i < j => file[i].size < file[j].size
    BY SeqFacts DEF AuditInv, FileInv
  <1> DEFINE S == {c.size : c \in Range(file)}
             x == file[Len(file)].size
  <1>2. S = {file[i].size : i \in 1..Len(file)}
    BY <1>1, SeqFacts
  <1>3. x \in S /\ S \subseteq Nat
    <2>1. Len(file) \in 1..Len(file)
      BY <1>1
    <2>2. ASSUME NEW i \in 1..Len(file) PROVE file[i].size \in Nat
      <3>1. Len(log) \in Nat
        BY SeqFacts DEF AuditInv, TypeInv
      <3>2. file[i].size \in 1..Len(log)
        BY <1>1 DEF GoodCheckpoint
      <3> QED BY <3>1, <3>2
    <2> QED BY <1>2, <2>1, <2>2
  <1>4. ASSUME NEW y \in S PROVE x >= y
    <2>1. PICK i \in 1..Len(file) : y = file[i].size
      BY <1>2
    <2>2. i = Len(file) \/ i < Len(file)
      BY <1>1
    <2>3. Len(file) \in 1..Len(file) /\ x \in Nat /\ y \in Nat
      BY <1>1, <1>3
    <2> QED BY <1>1, <2>1, <2>2, <2>3
  <1>5. Max(S) = x
    <2> HIDE DEF x, S
    <2>1. \A z \in S : (\A y \in S : z >= y) => z = x
      BY <1>3, <1>4
    <2> QED BY <1>3, <1>4, <2>1 DEF Max
  <1>6. Range(file) # {}
    BY <1>3
  <1> QED BY <1>5, <1>6 DEF Covered

\* CheckpointedIsGenuine: what the report calls checkpointed is what Warden
\* signed first, for every log, every set of leaked keys and every rewriting of
\* the copy.
LEMMA CheckpointedGenuine == AuditInv => CheckpointedIsGenuine
  <1> SUFFICES ASSUME AuditInv, NoDeed("file"), Run(FileOnly).verified
               PROVE  IsPrefix(SubSeq(log, 1, Run(FileOnly).checkpointed), copy)
    BY DEF CheckpointedIsGenuine
  <1> DEFINE size == Covered(Range(file))
  <1>1. Run(FileOnly).checkpointed = size
    BY FileVerdict
  <1>2. IsSeq(log) /\ IsSeq(copy) /\ Len(log) \in Nat /\ Len(copy) \in Nat /\ IsSeq(file)
    BY SeqFacts DEF AuditInv, TypeInv, FileInv
  <1>3. Genuine(size)
    <2>1. CASE Len(file) = 0
      <3>1. Range(file) = {}
        BY <1>2, <2>1, SeqFacts
      <3>2. size = 0
        BY <3>1 DEF Covered
      <3> QED BY <1>2, <3>2 DEF Genuine
    <2>2. CASE Len(file) > 0
      <3> DEFINE c == file[Len(file)]
      <3>1. size = c.size
        BY <2>2, CoveredIsLast
      <3>2. Len(file) \in Nat /\ Len(file) \in 1..Len(file)
        BY <1>2, <2>2, SeqFacts
      <3>3. c \in Range(file)
        BY <1>2, <3>2, SeqFacts
      <3>4. GoodCheckpoint(log, c)
        BY <3>2 DEF AuditInv, FileInv
      <3>5. PICK K, P : SoundCopy(K, P, OfChain(revs), Range(file))
        BY FileVerdict
      <3> HIDE DEF c, size
      <3>6. /\ KeysGenuine(K) /\ IsPass(P, copy, K, TRUE, OfChain(revs)) /\ P[Len(copy)].fault = "none"
            /\ ~Differs(P[Len(copy)], c)
        BY <3>3, <3>5 DEF SoundCopy
      <3>7. Genuine(c.size)
        BY <3>4, <3>6, CheckpointedLines
      <3> QED BY <3>1, <3>7
    <2>3. Len(file) \in Nat
      BY <1>2, SeqFacts
    <2> QED BY <2>1, <2>2, <2>3
  <1> HIDE DEF size
  <1> DEFINE s == SubSeq(log, 1, size)
  <1>4. IsSeq(s) /\ Len(s) = size /\ \A i \in 1..size : s[i] = log[i]
    BY <1>2, <1>3, SeqCut DEF Genuine
  <1> HIDE DEF s
  <1>5. IsPrefix(s, copy)
    BY <1>2, <1>3, <1>4, PrefixByLines DEF Genuine
  <1> QED BY <1>1, <1>5 DEF s

\* In every reachable state.
THEOREM CheckpointedIsGenuineHolds == Spec => []CheckpointedIsGenuine
  BY AuditInvHolds, CheckpointedGenuine, PTL

\* LeakContained: a forged line stands either after the checkpoint from which its
\* key is revoked, and is refused, or before it, and does not match.
LEMMA LeakIsContained == AuditInv => LeakContained
  <1> SUFFICES ASSUME AuditInv, NoDeed("file"), \A k \in leaked : \E v \in revs : v.kid = k,
                      Run(FileOnly).verified
               PROVE  IsPrefix(copy, log)
    BY DEF LeakContained
  <1>1. IsSeq(log) /\ IsSeq(copy) /\ Len(log) \in Nat /\ Len(copy) \in Nat /\ IsSeq(file)
    BY SeqFacts DEF AuditInv, TypeInv, FileInv
  <1>2. PICK K, P : SoundCopy(K, P, OfChain(revs), Range(file))
    BY FileVerdict
  <1>3. /\ KeysGenuine(K) /\ IsPass(P, copy, K, TRUE, OfChain(revs)) /\ P[Len(copy)].fault = "none"
        /\ \A c \in Range(file) : ~Differs(P[Len(copy)], c)
    BY <1>2 DEF SoundCopy
  <1>4. ASSUME NEW i \in 1..Len(copy) PROVE i <= Len(log) /\ copy[i] = log[i]
    <2>1. /\ (i <= Len(log) /\ copy[i] = log[i]) \/ Forged(log, leaked, signed, copy[i])
          /\ ~Withdrawn(OfChain(revs), copy[i].kid, i - 1)
      BY <1>3, SoundLines
    <2>2. CASE Forged(log, leaked, signed, copy[i])
      <3>1. PICK v \in revs : v.kid = copy[i].kid
        BY <2>2 DEF Forged
      <3>2. v \in OfChain(revs)
        BY <3>1 DEF AuditInv, RevsInv, OfChain
      <3>3. PICK j \in 1..Len(file) : v.size = file[j].size
        BY <3>1 DEF AuditInv, RevsInv
      <3> DEFINE c == file[j]
      <3>4. GoodCheckpoint(log, c)
        BY DEF AuditInv, FileInv
      <3>5. c \in Range(file)
        BY <1>1, SeqFacts
      <3> HIDE DEF c
      <3>6. ~Differs(P[Len(copy)], c)
        BY <1>3, <3>5
      <3>7. Genuine(c.size)
        BY <1>3, <3>4, <3>6, CheckpointedLines
      <3>8. ~(i - 1 >= v.size) /\ v.size = c.size
        BY <2>1, <3>1, <3>2, <3>3 DEF Withdrawn, c
      <3>9. i \in 1..c.size /\ i <= Len(log)
        BY <1>1, <3>7, <3>8 DEF Genuine
      <3> QED BY <3>7, <3>9 DEF Genuine
    <2> QED BY <2>1, <2>2
  <1>5. Len(copy) <= Len(log)
    <2>1. CASE Len(copy) > 0
      <3>1. Len(copy) \in 1..Len(copy)
        BY <1>1, <2>1
      <3> QED BY <1>4, <3>1
    <2> QED BY <1>1, <2>1
  <1>6. \A i \in 1..Len(copy) : copy[i] = log[i]
    BY <1>4
  <1> QED BY <1>1, <1>5, <1>6, PrefixByLines

\* In every reachable state.
THEOREM LeakContainedHolds == Spec => []LeakContained
  BY AuditInvHolds, LeakIsContained, PTL

-----------------------------------------------------------------------------
(* The object store. *)

Below(S, x) == {m \in S : m < x}

\* How many numbers are below one of a set tells its place.
LEMMA BelowCounts ==
    ASSUME NEW S, S \subseteq Nat, IsFiniteSet(S)
    PROVE  /\ Cardinality(S) \in Nat
           /\ \A x \in S : Cardinality(Below(S, x)) \in 0..(Cardinality(S) - 1)
           /\ \A x, y \in S : x < y => Cardinality(Below(S, x)) < Cardinality(Below(S, y))
  <1>1. Cardinality(S) \in Nat
    BY FS_CardinalityType
  <1>2. ASSUME NEW x \in S
        PROVE  /\ Below(S, x) \in SUBSET S /\ IsFiniteSet(Below(S, x)) /\ x \notin Below(S, x)
               /\ Cardinality(Below(S, x)) \in Nat
    <2>1. Below(S, x) \in SUBSET S /\ x \notin Below(S, x)
      BY DEF Below
    <2> QED BY <2>1, FS_Subset, FS_CardinalityType
  <1>3. ASSUME NEW T, IsFiniteSet(T), Cardinality(T) \in Nat, NEW U \in SUBSET T, NEW x \in T, x \notin U,
               Cardinality(U) \in Nat
        PROVE  Cardinality(U) < Cardinality(T)
    <2>1. Cardinality(U) <= Cardinality(T) /\ (Cardinality(T) = Cardinality(U) => T = U)
      BY <1>3, FS_Subset
    <2> QED BY <1>3, <2>1
  <1>4. ASSUME NEW x \in S PROVE Cardinality(Below(S, x)) \in 0..(Cardinality(S) - 1)
    <2>1. Cardinality(Below(S, x)) < Cardinality(S)
      BY <1>1, <1>2, <1>3
    <2> QED BY <1>1, <1>2, <2>1
  <1>5. ASSUME NEW x \in S, NEW y \in S, x < y
        PROVE  Cardinality(Below(S, x)) < Cardinality(Below(S, y))
    <2>1. x \in Nat /\ y \in Nat /\ \A m \in S : m \in Nat
      OBVIOUS
    <2>2. \A m \in S : m < x => m < y
      BY <1>5, <2>1
    <2>3. Below(S, x) \in SUBSET Below(S, y) /\ x \in Below(S, y)
      BY <1>5, <2>2 DEF Below
    <2> QED BY <1>2, <1>3, <2>3
  <1> QED BY <1>1, <1>4, <1>5

\* The i-th number is the one with i - 1 numbers below it.
LEMMA InOrderIs ==
    ASSUME NEW S, S \subseteq Nat, IsFiniteSet(S), NEW i \in 1..Cardinality(S)
    PROVE  InOrder(S)[i] \in S /\ Cardinality(Below(S, InOrder(S)[i])) = i - 1
  <1> DEFINE c == Cardinality(S)
             f == [x \in S |-> Cardinality(Below(S, x)) + 1]
  <1>1. /\ c \in Nat /\ \A x \in S : Cardinality(Below(S, x)) \in 0..(c - 1)
        /\ \A x, y \in S : x < y => Cardinality(Below(S, x)) < Cardinality(Below(S, y))
    BY BelowCounts
  <1>2. f \in Injection(S, 1..c)
    <2>1. f \in [S -> 1..c]
      BY <1>1
    <2>2. ASSUME NEW x \in S, NEW y \in S, f[x] = f[y] PROVE x = y
      <3>1. x \in Nat /\ y \in Nat
        OBVIOUS
      <3>2. Cardinality(Below(S, x)) = Cardinality(Below(S, y))
        BY <1>1, <2>2
      <3>3. ~(x < y) /\ ~(y < x)
        BY <1>1, <3>2
      <3> QED BY <3>1, <3>3
    <2> HIDE DEF f
    <2> QED BY <2>1, <2>2 DEF Injection, IsInjective
  <1>3. IsFiniteSet(1..c) /\ Cardinality(1..c) = c
    BY <1>1, FS_Interval
  <1>4. f \in Surjection(S, 1..c)
    <2> HIDE DEF f
    <2> QED BY <1>2, <1>3, FS_Injection
  <1>5. PICK x \in S : f[x] = i
    <2> HIDE DEF f
    <2> QED BY <1>4 DEF Surjection
  <1>6. Cardinality(Below(S, x)) = i - 1
    BY <1>1, <1>5
  <1>7. InOrder(S)[i] = CHOOSE n \in S : Cardinality(Below(S, n)) = i - 1
    BY DEF InOrder, Below
  <1> QED BY <1>6, <1>7

\* Every number has its place, and the numbers ascend.
LEMMA InOrderHasAll ==
    ASSUME NEW S, S \subseteq Nat, IsFiniteSet(S)
    PROVE  /\ \A n \in S : \E i \in 1..Cardinality(S) : InOrder(S)[i] = n
           /\ \A i, j \in 1..Cardinality(S) : i < j => InOrder(S)[i] < InOrder(S)[j]
  <1> DEFINE c == Cardinality(S)
             Rank(x) == Cardinality(Below(S, x))
  <1>1. /\ c \in Nat /\ \A x \in S : Rank(x) \in 0..(c - 1)
        /\ \A x, y \in S : x < y => Rank(x) < Rank(y)
    BY BelowCounts
  <1>2. \A i \in 1..c : InOrder(S)[i] \in S /\ Rank(InOrder(S)[i]) = i - 1
    BY InOrderIs
  <1> HIDE DEF Rank, c
  <1>3. ASSUME NEW n \in S PROVE \E i \in 1..c : InOrder(S)[i] = n
    <2> DEFINE i == Rank(n) + 1
               x == InOrder(S)[i]
    <2>1. i \in 1..c /\ i - 1 = Rank(n)
      BY <1>1
    <2>2. x \in S /\ Rank(x) = Rank(n)
      BY <1>2, <2>1
    <2> HIDE DEF x
    <2>3. ~(x < n) /\ ~(n < x) /\ x \in Nat /\ n \in Nat
      BY <1>1, <2>2
    <2>4. x = n
      BY <2>3
    <2> QED BY <2>1, <2>4 DEF x
  <1>4. ASSUME NEW i \in 1..c, NEW j \in 1..c, i < j PROVE InOrder(S)[i] < InOrder(S)[j]
    <2> DEFINE x == InOrder(S)[i]
               y == InOrder(S)[j]
    <2>1. x \in S /\ y \in S /\ Rank(x) = i - 1 /\ Rank(y) = j - 1
      BY <1>2
    <2> HIDE DEF x, y
    <2>2. x \in Nat /\ y \in Nat /\ ~(Rank(y) < Rank(x)) /\ Rank(x) # Rank(y)
      BY <1>1, <1>4, <2>1
    <2>3. ~(y < x) /\ x # y
      BY <1>1, <2>1, <2>2
    <2>4. x < y
      BY <2>2, <2>3
    <2> QED BY <2>4 DEF x, y
  <1> QED BY <1>3, <1>4 DEF c

\* A version that the store holds, read without a fault.
LEMMA StoreHolds ==
    ASSUME NEW objs, NEW t, IsFiniteSet(DOMAIN objs), DOMAIN objs \subseteq Nat,
           ReadStore(objs, t).fault = "none",
           NEW n \in DOMAIN objs, NEW i \in DOMAIN objs[n], ~objs[n][i].marker
    PROVE  objs[n][i].line \in Range(Lines(ReadStore(objs, t).found))
  <1> DEFINE names == Names(objs)
             found == ReadStore(objs, t).found
             line == Oldest(objs[n]).line
  <1>1. i \in Objects(objs[n])
    BY DEF Objects
  <1>2. n \in names
    BY <1>1 DEF Names
  <1>3. objs[n][i].line = line
    <2>1. SameBytes(objs[n])
      BY <1>2 DEF ReadStore
    <2> QED BY <1>1, <2>1 DEF SameBytes
  <1>4. names \subseteq Nat /\ IsFiniteSet(names)
    <2>1. names \in SUBSET DOMAIN objs
      BY DEF Names
    <2> HIDE DEF names
    <2> QED BY <2>1, FS_Subset
  <1>5. PICK k \in 1..Cardinality(names) : InOrder(names)[k] = n
    <2> HIDE DEF names
    <2> QED BY <1>2, <1>4, InOrderHasAll
  <1>6. k \in DOMAIN found /\ found[k].line = line
    BY <1>5 DEF ReadStore
  <1> HIDE DEF found, names, line
  <1>7. k \in DOMAIN Lines(found) /\ Lines(found)[k] = line
    BY <1>6 DEF Lines
  <1>8. line \in Range(Lines(found))
    BY <1>7 DEF Range
  <1> QED BY <1>3, <1>8 DEF found

\* A run that ends well has found no fault in the store.
LEMMA StoreStages ==
    ASSUME NEW a, a.useStore = TRUE, Run(a).verified
    PROVE  StoreRead(a).fault = "none" /\ StoreRead(a) = ReadStore(a.objects, a.now)
  <1> DEFINE read == StoreRead(a)
             first == FirstPass(a)
  <1>1. read = ReadStore(a.objects, a.now)
    BY DEF StoreRead
  <1>2. Stage(a, read, first) = "none"
    BY RunSays
  <1> HIDE DEF read, first
  <1>3. StoreFault(read, Keys(a, first), File(a)) = "none"
    BY <1>2 DEF Stage
  <1>4. read.fault = "none"
    BY <1>3 DEF StoreFault
  <1> QED BY <1>1, <1>4 DEF read

\* StoreBinds: what is stored is among the checkpoints that a sound log agrees with.
LEMMA StoredBinds == AuditInv => StoreBinds
  <1> SUFFICES ASSUME AuditInv, Run(Full).verified, NEW s \in stored, s.until > now
               PROVE  IsPrefix(SubSeq(log, 1, s.cp.size), copy)
    BY DEF StoreBinds
  <1> DEFINE a == Full
             n == s.cp.size
  <1>1. IsSeq(log) /\ IsSeq(copy) /\ Len(log) \in Nat /\ Len(copy) \in Nat
    BY SeqFacts DEF AuditInv, TypeInv
  <1>2. /\ Bucket /\ GoodCheckpoint(log, s.cp)
        /\ \E i \in 1..Len(objects[n]) : Holds(objects[n][i], s)
    BY DEF AuditInv, StoredInv
  <1>3. /\ a.log = copy /\ a.trusted = Trusted /\ a.root = TRUE
        /\ a.objects = objects /\ a.now = now
    BY DEF Full
  <1>4. a.useStore = TRUE
    <2>1. a.useStore = Bucket
      BY Zenon DEF Full
    <2>2. Bucket = TRUE
      BY <1>2, AuditAssumption
    <2> QED BY <2>1, <2>2
  <1>5. n \in DOMAIN objects /\ IsFiniteSet(DOMAIN objects) /\ DOMAIN objects \subseteq Nat
    <2>1. DOMAIN objects = 0..MaxLog /\ Len(log) <= MaxLog /\ MaxLog \in Nat
      BY AuditAssumption DEF AuditInv, TypeInv, Sizes
    <2>2. n \in 0..MaxLog
      BY <1>1, <1>2, <2>1 DEF GoodCheckpoint
    <2> QED BY <2>1, <2>2, FS_Interval
  <1>6. PICK i \in DOMAIN objects[n] : Holds(objects[n][i], s)
    <2>1. IsSeq(objects[n])
      BY <1>5 DEF AuditInv, TypeInv
    <2>2. DOMAIN objects[n] = 1..Len(objects[n])
      BY <2>1, SeqFacts
    <2> QED BY <1>2, <2>2
  <1>7. Run(a).verified /\ Anchored(a)
    BY <1>4 DEF Anchored
  <1> HIDE DEF a, n
  <1>8. StoreRead(a).fault = "none" /\ StoreRead(a) = ReadStore(objects, now)
    BY <1>3, <1>4, <1>7, StoreStages
  <1>9. objects[n][i].line \in Range(Lines(ReadStore(objects, now).found))
    <2>1. ~objects[n][i].marker
      BY <1>6 DEF Holds
    <2>2. ReadStore(objects, now).fault = "none"
      BY <1>8
    <2> QED BY <1>5, <2>1, <2>2, StoreHolds
  <1>10. s.cp \in Checkpoints(a, StoreRead(a))
    BY <1>6, <1>8, <1>9 DEF Holds, Checkpoints, Merge
  <1>11. PICK K, P : SoundCopy(K, P, OfChain(Revocations(a)), Checkpoints(a, StoreRead(a)))
    BY <1>3, <1>7, RootedVerdict
  <1>12. Genuine(s.cp.size)
    <2> DEFINE c == s.cp
               rs == OfChain(Revocations(a))
    <2>1. GoodCheckpoint(log, c)
      BY <1>2
    <2>2. /\ KeysGenuine(K) /\ IsPass(P, copy, K, TRUE, rs) /\ P[Len(copy)].fault = "none"
          /\ ~Differs(P[Len(copy)], c)
      BY <1>10, <1>11 DEF SoundCopy
    <2> HIDE DEF c, rs
    <2>3. Genuine(c.size)
      BY <2>1, <2>2, CheckpointedLines
    <2> QED BY <2>3 DEF c
  <1> DEFINE t == SubSeq(log, 1, n)
  <1>13. n \in Nat /\ n <= Len(log) /\ n <= Len(copy) /\ \A j \in 1..n : copy[j] = log[j]
    BY <1>12 DEF Genuine, n
  <1>14. IsSeq(t) /\ Len(t) = n /\ \A j \in 1..n : t[j] = log[j]
    BY <1>1, <1>13, SeqCut
  <1> HIDE DEF t
  <1>15. IsPrefix(t, copy)
    BY <1>1, <1>13, <1>14, PrefixByLines
  <1> QED BY <1>15 DEF t, n

\* In every reachable state.
THEOREM StoreBindsHolds == Spec => []StoreBinds
  BY AuditInvHolds, StoredBinds, PTL

-----------------------------------------------------------------------------
(* The console. *)

\* ConsoleAgrees: keys that are learned before and on the way lead to the same
\* verdict, and the feed leaves nothing out.
LEMMA ConsoleSame == AuditInv => ConsoleAgrees
  <1> SUFFICES ASSUME AuditInv, NEW root \in BOOLEAN, NEW named \in BOOLEAN
               PROVE  LET a == [FileOnly EXCEPT !.root = root, !.useFile = named, !.useRevs = FALSE]
                          b == [a EXCEPT !.useFile = named /\ Exists]
                      IN /\ ConsoleVerify(a) <=> Run(b).verified
                         /\ named /\ ~Exists => ~Run(a).verified
                         /\ ConsoleVerify(a) => Feed(a) = Reverse(copy)
    BY DEF ConsoleAgrees
  <1> DEFINE a == [FileOnly EXCEPT !.root = root, !.useFile = named, !.useRevs = FALSE]
             b == [a EXCEPT !.useFile = named /\ Exists]
             Has(x, flag) ==
               /\ x.root = root /\ x.useFile = flag /\ x.exists = Exists /\ x.useRevs = FALSE
               /\ x.log = copy /\ x.trusted = Trusted /\ x.file = file
               /\ x.useStore = FALSE /\ x.useTokens = FALSE
  <1>1. Has(a, named) /\ Has(b, named /\ Exists)
    BY Zenon DEF FileOnly, Full
  <1> HIDE DEF a, b
  <1>2. /\ a.root = root /\ a.useRevs = FALSE /\ a.log = copy /\ a.file = file
        /\ a.trusted = Trusted /\ a.useStore = FALSE /\ a.useTokens = FALSE
        /\ b.root = root /\ b.useRevs = FALSE /\ b.log = copy /\ b.file = file
        /\ b.trusted = Trusted /\ b.useStore = FALSE /\ b.useTokens = FALSE
    BY <1>1, Zenon
  <1>3. /\ a.useFile <=> named
        /\ a.exists <=> Exists
        /\ b.useFile <=> named /\ Exists
        /\ b.exists <=> Exists
    BY <1>1, Zenon
  <1>4. a.root \in BOOLEAN /\ a.useFile \in BOOLEAN /\ b.root \in BOOLEAN /\ b.useFile \in BOOLEAN
    <2>1. (named /\ Exists) \in BOOLEAN
      OBVIOUS
    <2> QED BY <1>1, <2>1, Zenon
  <1> HIDE DEF Has
  <1>5. Len(a.log) \in Nat /\ Len(b.log) \in Nat
    BY <1>2, SeqFacts DEF AuditInv, TypeInv
  <1>6. IsFun(a.trusted) /\ IsFun(b.trusted)
    BY <1>2 DEF Trusted, IsFun
  <1>7. File(a) = File(b)
    BY <1>2, <1>3 DEF File
  <1>8. Follow(a) = Follow(b)
    BY <1>2 DEF Follow, FirstPass
  <1>9. ConsoleVerify(a) <=> ConsoleVerify(b)
    BY <1>2, <1>7, <1>8 DEF ConsoleVerify
  <1>10. /\ ConsoleVerify(b) <=> Run(b).verified
         /\ ConsoleVerify(b) => \A i \in 1..Len(b.log) : Shown(Follow(b), b.log[i])
    BY <1>2, <1>3, <1>4, <1>5, <1>6, ConsoleSays
  <1>11. ConsoleVerify(a) => Feed(a) = Reverse(copy)
    <2>1. ConsoleVerify(a) => Feed(a) = Reverse(a.log)
      BY <1>2, <1>5, <1>8, <1>9, <1>10, FeedAll
    <2> QED BY <1>2, <2>1
  <1>12. ASSUME named, ~Exists PROVE ~Run(a).verified
    <2>1. Stage(a, StoreRead(a), FirstPass(a)) # "none"
      BY <1>2, <1>3, <1>12, PlainStages
    <2> QED BY <2>1, RunSays
  <1> QED BY <1>9, <1>10, <1>11, <1>12 DEF a, b

\* In every reachable state.
THEOREM ConsoleAgreesHolds == Spec => []ConsoleAgrees
  BY AuditInvHolds, ConsoleSame, PTL

-----------------------------------------------------------------------------
(* A log that is as Warden wrote it. *)

\* The checks of a line that Warden signed.
LEMMA GoodPasses ==
    ASSUME NEW lg, NEW n \in Nat, GoodLine(lg, n + 1), n > 0 => GoodLine(lg, n),
           NEW st, Remembers(st, lg, n), n = 0 => st.lastTS = 0,
           KeysGenuine(st.known), Named(lg, n) \subseteq DOMAIN st.known,
           NEW root, IsTurn(lg[n + 1]) => root,
           NEW rs, ~Withdrawn(rs, lg[n + 1].kid, n)
    PROVE  Passes(st, lg[n + 1], root, rs)
  <1> DEFINE l == lg[n + 1]
  <1>1. /\ l.id = Digest(n + 1) /\ l.seq = n /\ l.form = "ok" /\ l.kid = Signer(lg, n)
        /\ l.kid \in Named(lg, n) /\ l.key = l.kid /\ l.r.ts \in Nat
        /\ l.prev = IF n = 0 THEN Genesis(l.kid, l.kid) ELSE Digest(n)
        /\ n > 0 => lg[n].r.ts <= l.r.ts
        /\ l.r.type = "decision" \/ GoodTurn(l)
    <2>1. (n + 1) - 1 = n /\ (n + 1 = 1 <=> n = 0) /\ (n + 1 > 1 <=> n > 0)
      OBVIOUS
    <2> QED BY <2>1 DEF GoodLine
  <1>2. n > 0 => lg[n].id = Digest(n) /\ lg[n].r.ts \in Nat
    BY DEF GoodLine
  <1>3. /\ st.n = n /\ st.leaves = [i \in 1..n |-> lg[i].id]
        /\ n > 0 => /\ st.lastTS = lg[n].r.ts
                    /\ st.signer = IF lg[n].r.type = "key_rotation" THEN lg[n].r.to ELSE lg[n].kid
    BY DEF Remembers
  <1>4. l.prev = IF st.n = 0 THEN Genesis(l.kid, l.key) ELSE st.leaves[st.n]
    <2>1. CASE n = 0
      BY <1>1, <1>3, <2>1
    <2>2. CASE n > 0
      <3>1. st.leaves[n] = lg[n].id
        BY <1>3, <2>2
      <3> QED BY <1>1, <1>2, <1>3, <2>2, <3>1
    <2> QED BY <2>1, <2>2
  <1>5. ~(l.r.ts < st.lastTS)
    <2>1. CASE n = 0
      BY <1>1, <2>1
    <2>2. CASE n > 0
      BY <1>1, <1>2, <1>3, <2>2
    <2> QED BY <2>1, <2>2
  <1>6. st.n > 0 => l.kid = st.signer
    BY <1>1, <1>3 DEF Signer, IsTurn
  <1>7. SignedBy(st.known, l)
    BY <1>1 DEF SignedBy, KeysGenuine
  <1>8. Validate(l.seq, l.r)
    <2>1. CASE l.r.type = "decision"
      BY <2>1 DEF Validate
    <2>2. CASE GoodTurn(l)
      BY <2>2 DEF Validate, GoodTurn, IsTurn
    <2> QED BY <1>1, <2>1, <2>2
  <1>9. LineFault(st, l, rs) = "none"
    <2>1. LineSound(st, l, rs)
      BY <1>1, <1>3, <1>4, <1>5, <1>6, <1>7, <1>8 DEF LineSound
    <2> HIDE DEF l
    <2> QED BY <2>1, LineFaultSays
  <1>10. TypeFault(st, l, root) = "none"
    <2>1. CASE l.r.type = "decision"
      BY <2>1 DEF TypeFault
    <2>2. CASE GoodTurn(l)
      <3>1. Accept(st.known, root, l.r, l.r.ts)
        BY <1>1, <2>2 DEF Accept, VerifyKeyEpoch, GoodTurn, KeysGenuine
      <3>2. RotationFault(st, l, root) = "none"
        BY <2>2, <3>1 DEF RotationFault, GoodTurn
      <3>3. l.r.type = "key_rotation"
        BY <2>2 DEF GoodTurn, IsTurn
      <3> QED BY <3>2, <3>3 DEF TypeFault
    <2> QED BY <1>1, <2>1, <2>2
  <1> QED BY <1>9, <1>10 DEF Passes

\* The keys that were named are known after one more line.
LEMMA NamedKnown ==
    ASSUME NEW lg, NEW n \in Nat, NEW st, NEW root, TypeFault(st, lg[n + 1], root) = "none",
           Named(lg, n) \subseteq DOMAIN st.known
    PROVE  Named(lg, n + 1) \subseteq DOMAIN After(st, lg[n + 1], "none").known
  <1> DEFINE l == lg[n + 1]
  <1>1. Named(lg, n + 1) = Named(lg, n) \cup (IF IsTurn(l) THEN {l.r.to} ELSE {})
    <2>1. 1..(n + 1) = (1..n) \cup {n + 1}
      OBVIOUS
    <2>2. {k \in 1..(n + 1) : IsTurn(lg[k])}
            = {k \in 1..n : IsTurn(lg[k])} \cup (IF IsTurn(l) THEN {n + 1} ELSE {})
      BY <2>1
    <2> DEFINE A == {k \in 1..n : IsTurn(lg[k])}
               B == {k \in 1..(n + 1) : IsTurn(lg[k])}
    <2>3. Named(lg, n) = {FirstKid} \cup {lg[i].r.to : i \in A}
      BY DEF Named
    <2>4. Named(lg, n + 1) = {FirstKid} \cup {lg[i].r.to : i \in B}
      BY DEF Named
    <2> HIDE DEF A, B
    <2>5. B = A \cup (IF IsTurn(l) THEN {n + 1} ELSE {})
      BY <2>2 DEF A, B
    <2> QED BY <2>3, <2>4, <2>5
  <1> HIDE DEF l
  <1>2. CASE IsTurn(l)
    <2>1. After(st, l, "none").known = Learn(st.known, l.r)
      BY <1>2, LineKeys DEF IsTurn, l
    <2>2. DOMAIN Learn(st.known, l.r) = DOMAIN st.known \cup {l.r.to}
      BY DEF Learn
    <2> QED BY <1>1, <1>2, <2>1, <2>2 DEF l
  <1>3. CASE ~IsTurn(l)
    <2>1. After(st, l, "none").known = st.known
      BY <1>3, LineKeys DEF IsTurn, l
    <2> QED BY <1>1, <1>3, <2>1 DEF l
  <1> QED BY <1>2, <1>3

\* What is true of Warden's log is true of an export of it.
LEMMA ExportGood ==
    ASSUME AuditInv, NoDeed("copy")
    PROVE  /\ Len(copy) \in Nat /\ Len(log) \in Nat /\ Len(copy) <= Len(log)
           /\ \A i \in 1..Len(copy) : copy[i] = log[i] /\ GoodLine(copy, i)
           /\ \A n \in 0..Len(copy) : Named(copy, n) = Named(log, n)
  <1>1. Len(copy) \in Nat /\ Len(log) \in Nat
    BY SeqFacts DEF AuditInv, TypeInv
  <1>2. Len(copy) <= Len(log) /\ \A i \in 1..Len(copy) : copy[i] = log[i]
    BY DEF AuditInv, CopyInv
  <1>3. ASSUME NEW n \in 0..Len(copy) PROVE Named(copy, n) = Named(log, n) /\ Signer(copy, n) = Signer(log, n)
    <2>1. \A i \in 1..n : copy[i] = log[i]
      BY <1>1, <1>2
    <2>2. Named(copy, n) = Named(log, n)
      BY <2>1 DEF Named
    <2>3. Signer(copy, n) = Signer(log, n)
      BY <1>1, <1>2 DEF Signer
    <2> QED BY <2>2, <2>3
  <1>4. ASSUME NEW i \in 1..Len(copy) PROVE GoodLine(copy, i)
    <2>1. i \in 1..Len(log) /\ i - 1 \in 0..Len(copy) /\ copy[i] = log[i]
      BY <1>1, <1>2
    <2>2. i > 1 => copy[i - 1] = log[i - 1]
      BY <1>1, <1>2
    <2>3. GoodLine(log, i)
      BY <2>1 DEF AuditInv, LogInv
    <2> QED BY <1>3, <2>1, <2>2, <2>3 DEF GoodLine
  <1> QED BY <1>1, <1>2, <1>3, <1>4

\* A pass over an export finds no fault and learns every key.
LEMMA HonestPass ==
    ASSUME AuditInv, NoDeed("copy"), NEW known, KeysGenuine(known), FirstKid \in DOMAIN known,
           NEW root, root \/ Rotations(copy) = {}, NEW rs,
           \A i \in 1..Len(copy) : ~Withdrawn(rs, copy[i].kid, i - 1),
           NEW P, IsPass(P, copy, known, root, rs)
    PROVE  /\ P[Len(copy)].fault = "none" /\ Remembers(P[Len(copy)], copy, Len(copy))
           /\ Named(copy, Len(copy)) \subseteq DOMAIN P[Len(copy)].known
           /\ KeysGenuine(P[Len(copy)].known)
  <1>1. /\ Len(copy) \in Nat /\ \A i \in 1..Len(copy) : GoodLine(copy, i)
    BY ExportGood
  <1>2. \A n \in 0..Len(copy) : KeysGenuine(P[n].known)
    BY <1>1, AuditKeys, PassKeys
  <1>3. \A n \in 0..Len(copy) : P[n].fault = "none" => Remembers(P[n], copy, n)
    BY <1>1, PassRemembers
  <1> DEFINE S == {n \in Nat : n <= Len(copy) =>
                      P[n].fault = "none" /\ Named(copy, n) \subseteq DOMAIN P[n].known}
  <1>4. 0 \in S
    <2>1. P[0].fault = "none" /\ P[0].known = known
      BY DEF IsPass, Start
    <2>2. Named(copy, 0) = {FirstKid}
      BY DEF Named
    <2> QED BY <2>1, <2>2
  <1>5. ASSUME NEW n \in Nat, n \in S PROVE n + 1 \in S
    <2> SUFFICES ASSUME n + 1 <= Len(copy)
                 PROVE  P[n + 1].fault = "none" /\ Named(copy, n + 1) \subseteq DOMAIN P[n + 1].known
      OBVIOUS
    <2> DEFINE st == P[n]
    <2>1. n \in 0..(Len(copy) - 1) /\ n \in 0..Len(copy) /\ n + 1 \in 1..Len(copy) /\ (n + 1) - 1 = n
      BY <1>1
    <2>2. st.fault = "none" /\ Named(copy, n) \subseteq DOMAIN st.known
      BY <1>1, <1>5
    <2>3. Remembers(st, copy, n) /\ KeysGenuine(st.known)
      BY <1>2, <1>3, <2>1, <2>2
    <2>4. n = 0 => st.lastTS = 0
      BY DEF IsPass, Start
    <2>5. IsTurn(copy[n + 1]) => root
      <3>1. DOMAIN copy = 1..Len(copy)
        BY SeqFacts DEF AuditInv, TypeInv
      <3> QED BY <2>1, <3>1 DEF IsTurn, Rotations
    <2>6. ~Withdrawn(rs, copy[n + 1].kid, n)
      BY <2>1
    <2>7. GoodLine(copy, n + 1) /\ (n > 0 => GoodLine(copy, n))
      BY <1>1, <2>1
    <2> HIDE DEF st
    <2>8. Passes(st, copy[n + 1], root, rs)
      BY <2>2, <2>3, <2>4, <2>5, <2>6, <2>7, GoodPasses
    <2>9. P[n + 1].fault = "none" /\ P[n + 1] = After(st, copy[n + 1], "none")
      BY <2>1, <2>2, <2>8 DEF IsPass, st
    <2>10. TypeFault(st, copy[n + 1], root) = "none"
      BY <2>8 DEF Passes
    <2>11. Named(copy, n + 1) \subseteq DOMAIN After(st, copy[n + 1], "none").known
      BY <2>2, <2>10, NamedKnown
    <2> QED BY <2>9, <2>11
  <1>6. \A n \in Nat : n \in S
    <2> HIDE DEF S
    <2> QED BY <1>4, <1>5, Induction
  <1>7. P[Len(copy)].fault = "none" /\ Named(copy, Len(copy)) \subseteq DOMAIN P[Len(copy)].known
    BY <1>1, <1>6
  <1>8. Len(copy) \in 0..Len(copy)
    BY <1>1
  <1> QED BY <1>2, <1>3, <1>7, <1>8

\* An export agrees with the checkpoints that were made before it.
LEMMA HonestAgrees ==
    ASSUME AuditInv, NoDeed("copy"), NEW c, GoodCheckpoint(log, c), c.size <= Len(copy),
           NEW st, Remembers(st, copy, Len(copy))
    PROVE  ~Differs(st, c)
  <1>1. /\ Len(copy) \in Nat /\ Len(log) \in Nat /\ Len(copy) <= Len(log)
        /\ \A i \in 1..Len(copy) : copy[i] = log[i] /\ GoodLine(copy, i)
    BY ExportGood
  <1> DEFINE k == c.size
             ids == [i \in 1..Len(copy) |-> copy[i].id]
  <1>2. st.n = Len(copy) /\ st.leaves = ids
    BY DEF Remembers
  <1>3. k \in Nat /\ k >= 1 /\ k <= Len(copy) /\ c.head = Digest(k) /\ c.root = [j \in 1..k |-> Digest(j)]
    BY <1>1 DEF GoodCheckpoint
  <1>4. ASSUME NEW i \in 1..Len(copy) PROVE ids[i] = Digest(i)
    BY <1>1 DEF GoodLine
  <1>5. ids \in Seq({copy[i].id : i \in 1..Len(copy)}) /\ Len(ids) = Len(copy)
    BY <1>1
  <1> HIDE DEF k, ids
  <1>6. SubSeq(ids, 1, k) = [j \in 1..k |-> Digest(j)]
    <2>1. SubSeq(ids, 1, k) = [j \in 1..k |-> ids[j]]
      BY <1>1, <1>3, <1>5
    <2>2. \A j \in 1..k : ids[j] = Digest(j)
      BY <1>1, <1>3, <1>4
    <2> QED BY <2>1, <2>2
  <1>7. ids[k] = Digest(k)
    BY <1>1, <1>3, <1>4
  <1>8. ~(k > Len(copy))
    BY <1>1, <1>3
  <1> QED BY <1>2, <1>3, <1>6, <1>7, <1>8 DEF Differs, k

\* An anchor file that nobody changed can be read with the keys of the log.
LEMMA HonestFile ==
    ASSUME AuditInv, NoDeed("file"), NEW K, KeysGenuine(K),
           \A i \in 1..Len(file) : Named(log, file[i].size) \subseteq DOMAIN K
    PROVE  ReadVerified(file, K)
  <1>1. /\ IsSeq(file) /\ Len(file) \in Nat /\ DOMAIN file = 1..Len(file) /\ Len(log) \in Nat
        /\ \A i \in 1..Len(file) : GoodCheckpoint(log, file[i])
        /\ \A i, j \in 1..Len(file) : i < j => file[i].size < file[j].size /\ file[i].ts <= file[j].ts
    BY SeqFacts DEF AuditInv, FileInv, TypeInv
  <1>2. ASSUME NEW i \in 1..Len(file) PROVE SignedBy(K, file[i])
    <2> DEFINE c == file[i]
               n == c.size
    <2>1. n \in 1..Len(log) /\ c.kid = Signer(log, n) /\ c.key = c.kid
      BY <1>1 DEF GoodCheckpoint
    <2>2. GoodLine(log, n) /\ n \in Nat
      BY <1>1, <2>1 DEF AuditInv, LogInv
    <2>3. Named(log, n) \subseteq DOMAIN K
      OBVIOUS
    <2> HIDE DEF c, n
    <2>4. Signer(log, n) \in Named(log, n)
      BY <2>2, SignerNamed
    <2>5. SignedBy(K, c)
      BY <2>1, <2>3, <2>4 DEF SignedBy, KeysGenuine
    <2> QED BY <2>5 DEF c
  <1>3. ASSUME NEW i \in 2..Len(file)
        PROVE  file[i - 1].size < file[i].size /\ file[i - 1].ts <= file[i].ts
    <2>1. i - 1 \in 1..Len(file) /\ i \in 1..Len(file) /\ i - 1 < i
      BY <1>1
    <2> QED BY <1>1, <2>1
  <1> QED BY <1>1, <1>2, <1>3 DEF ReadVerified

\* The keys that were used are the ones that were named, and they are genuine.
LEMMA UsedNamed ==
    ASSUME AuditInv
    PROVE  Used = Named(log, Len(log)) /\ Used \subseteq Kid /\ FirstKid \in Used
  <1>1. DOMAIN log = 1..Len(log)
    BY SeqFacts DEF AuditInv, TypeInv
  <1>2. Used = Named(log, Len(log))
    BY <1>1 DEF Used, Handovers, Named, IsTurn
  <1>3. ASSUME NEW i \in 1..Len(log), log[i].r.type = "key_rotation" PROVE log[i].r.to \in Kid
    <2>1. GoodLine(log, i)
      BY DEF AuditInv, LogInv
    <2> QED BY <1>3, <2>1 DEF GoodLine, GoodTurn
  <1>4. Used \subseteq Kid
    BY <1>1, <1>3, AuditAssumption DEF Used, Handovers
  <1> QED BY <1>2, <1>4 DEF Used

\* Who was named for the first lines was named.
LEMMA NamedGrows ==
    ASSUME NEW lg, NEW m \in Nat, NEW n \in Nat, n <= m
    PROVE  Named(lg, n) \subseteq Named(lg, m)
  <1>1. 1..n \subseteq 1..m
    OBVIOUS
  <1> QED BY <1>1 DEF Named

\* What the printed command does: it looks for the anchor file first.
LEMMA PrintedSays ==
    ASSUME AuditInv, NEW T, T = [k \in Used |-> k]
    PROVE  /\ Run(Printed).verified <=>
                /\ Exists
                /\ ReadVerified(file, T) /\ VerifyAll(copy, T, FALSE, Range(file), {}).verified
           /\ ~Exists => Run(Printed).exit = 2
  <1> DEFINE a == Printed
  <1>1. /\ a.log = copy /\ a.trusted = T /\ a.file = file /\ a.useStore = FALSE /\ a.useTokens = FALSE
        /\ a.useFile = TRUE /\ a.root = FALSE /\ a.useRevs = FALSE /\ a.exists = Exists
    BY Zenon DEF Printed, FileOnly, Full
  <1> HIDE DEF a
  <1>2. Len(a.log) \in Nat
    BY <1>1, SeqFacts DEF AuditInv, TypeInv
  <1>3. IsFun(a.trusted)
    BY <1>1 DEF IsFun
  <1>4. CASE Exists
    <2>1. ConsoleVerify(a) <=> Run(a).verified
      BY <1>1, <1>2, <1>3, <1>4, ConsoleSays
    <2>2. File(a) = file /\ Follow(a) = T
      BY <1>1, <1>4 DEF File, Follow
    <2>3. ConsoleVerify(a) <=>
            ReadVerified(file, T) /\ VerifyAll(copy, T, FALSE, Range(file), {}).verified
      BY <1>1, <2>2 DEF ConsoleVerify
    <2> QED BY <1>4, <2>1, <2>3 DEF a
  <1>5. CASE ~Exists
    <2>1. Stage(a, StoreRead(a), FirstPass(a)) = "usage"
      BY <1>1, <1>5 DEF Stage, RevocationUsage
    <2>2. ~Run(a).verified
      BY <2>1, RunSays
    <2>3. Run(a) = Refused("usage")
      BY <2>1 DEF Run
    <2>4. Run(a).exit = 2
      BY <2>3 DEF Refused
    <2> QED BY <1>5, <2>2, <2>4 DEF a
  <1> QED BY <1>4, <1>5

\* PrintedCommand: without the root a sound log has no handover, so that one key
\* signed all of it; and without handovers the trust file is enough.
LEMMA PrintedVerifies == AuditInv => PrintedCommand
  <1> SUFFICES ASSUME AuditInv PROVE PrintedCommand
    OBVIOUS
  <1> DEFINE T == [k \in Used |-> k]
             P == Pass(copy, T, FALSE, {})
             last == Len(copy)
  <1>1. last \in Nat /\ DOMAIN copy = 1..last /\ Len(log) \in Nat /\ (copy # <<>> <=> last # 0)
    BY SeqFacts DEF AuditInv, TypeInv
  <1>2. /\ Run(Printed).verified <=>
              /\ Exists
              /\ ReadVerified(file, T) /\ VerifyAll(copy, T, FALSE, Range(file), {}).verified
        /\ ~Exists => Run(Printed).exit = 2
    BY PrintedSays
  <1>3. KeysGenuine(T) /\ DOMAIN T = Named(log, Len(log)) /\ FirstKid \in DOMAIN T
    BY UsedNamed DEF KeysGenuine
  <1> HIDE DEF T
  <1>4. IsPass(P, copy, T, FALSE, {})
    BY <1>1, PassIsPass
  <1>5. \A C : VerifyAll(copy, T, FALSE, C, {}).verified <=>
                 /\ P[Len(copy)].fault = "none" /\ Len(copy) # 0
                 /\ \A c \in C : ~Differs(P[Len(copy)], c)
    BY <1>1, VerifiedSays
  <1> HIDE DEF P
  <1>6. ASSUME Run(Printed).verified
        PROVE  /\ Exists
               /\ Rotations(copy) = {} /\ \A i \in DOMAIN copy : copy[i].kid = copy[1].kid
    <2>1. P[last].fault = "none"
      BY <1>2, <1>5, <1>6
    <2>2. ASSUME NEW n \in 0..(last - 1)
          PROVE  Placed(copy, P[n].known, {}, n) /\ copy[n + 1].r.type # "key_rotation"
      <3>1. last \in 0..Len(copy)
        BY <1>1
      <3> HIDE DEF last
      <3>2. Placed(copy, P[n].known, {}, n) /\ TypeFault(P[n], copy[n + 1], FALSE) = "none"
        BY <1>1, <1>4, <2>1, <3>1, PassPlaced DEF last
      <3> DEFINE st == P[n]
                 l == copy[n + 1]
      <3>3. TypeFault(st, l, FALSE) = "none"
        BY <3>2
      <3> HIDE DEF st, l
      <3>4. l.r.type # "key_rotation"
        BY <3>3, LineKeys
      <3> QED BY <3>2, <3>4 DEF l
    <2>3. ASSUME NEW i \in 1..last PROVE copy[i].r.type # "key_rotation"
      <3>1. i - 1 \in 0..(last - 1) /\ (i - 1) + 1 = i
        BY <1>1
      <3> QED BY <2>2, <3>1
    <2> DEFINE S == {n \in Nat : n + 1 <= last => copy[n + 1].kid = copy[1].kid}
    <2>4. 0 \in S
      OBVIOUS
    <2>5. ASSUME NEW n \in Nat, n \in S PROVE n + 1 \in S
      <3> SUFFICES ASSUME (n + 1) + 1 <= last PROVE copy[(n + 1) + 1].kid = copy[1].kid
        OBVIOUS
      <3> DEFINE m == n + 1
      <3>1. m \in 0..(last - 1) /\ m > 0 /\ m \in 1..last /\ m \in Nat
        BY <1>1
      <3>2. copy[m].kid = copy[1].kid
        BY <1>1, <2>5
      <3> HIDE DEF m
      <3>3. Placed(copy, P[m].known, {}, m) /\ copy[m].r.type # "key_rotation"
        BY <2>2, <2>3, <3>1
      <3>4. copy[m + 1].kid = copy[m].kid
        BY <3>1, <3>3 DEF Placed
      <3> QED BY <3>2, <3>4 DEF m
    <2>6. \A n \in Nat : n \in S
      <3> HIDE DEF S
      <3> QED BY <2>4, <2>5, Induction
    <2>7. ASSUME NEW i \in 1..last PROVE copy[i].kid = copy[1].kid
      <3>1. i - 1 \in Nat /\ (i - 1) + 1 = i /\ i <= last
        BY <1>1
      <3> QED BY <2>6, <3>1
    <2> QED BY <1>1, <1>2, <1>6, <2>3, <2>7 DEF Rotations
  <1>7. ASSUME Honest, copy # <<>>, Rotations(copy) = {}, Exists,
               \A i \in DOMAIN file : file[i].size <= Len(copy)
        PROVE  Run(Printed).verified
    <2>1. NoDeed("copy") /\ NoDeed("file")
      BY <1>7 DEF Honest, Where
    <2>2. /\ IsSeq(file) /\ DOMAIN file = 1..Len(file)
          /\ \A i \in 1..Len(file) : GoodCheckpoint(log, file[i])
      BY <2>1, SeqFacts DEF AuditInv, FileInv
    <2>3. ReadVerified(file, T)
      <3>1. ASSUME NEW i \in 1..Len(file) PROVE Named(log, file[i].size) \subseteq DOMAIN T
        <4> DEFINE n == file[i].size
                   m == Len(log)
        <4>1. n \in 1..m
          BY <2>2 DEF GoodCheckpoint
        <4>2. n \in Nat /\ m \in Nat /\ n <= m
          BY <1>1, <4>1
        <4> HIDE DEF n, m
        <4>3. Named(log, n) \subseteq Named(log, m)
          BY <4>2, NamedGrows
        <4> QED BY <1>3, <4>3 DEF n, m
      <3> QED BY <1>3, <2>1, <3>1, HonestFile
    <2>4. /\ P[Len(copy)].fault = "none" /\ Remembers(P[Len(copy)], copy, Len(copy))
      <3>1. \A i \in 1..Len(copy) : ~Withdrawn({}, copy[i].kid, i - 1)
        BY DEF Withdrawn
      <3> QED BY <1>3, <1>4, <1>7, <2>1, <3>1, HonestPass
    <2>5. ASSUME NEW c \in Range(file) PROVE ~Differs(P[Len(copy)], c)
      <3>1. PICK i \in 1..Len(file) : c = file[i]
        BY <2>2, SeqFacts
      <3>2. GoodCheckpoint(log, c) /\ c.size <= Len(copy)
        BY <1>7, <2>2, <3>1
      <3> DEFINE st == P[Len(copy)]
      <3>3. Remembers(st, copy, Len(copy))
        BY <2>4
      <3> HIDE DEF st
      <3>4. ~Differs(st, c)
        BY <2>1, <3>2, <3>3, HonestAgrees
      <3> QED BY <3>4 DEF st
    <2> QED BY <1>1, <1>2, <1>5, <1>7, <2>3, <2>4, <2>5
  <1> QED BY <1>2, <1>6, <1>7 DEF PrintedCommand

\* In every reachable state.
THEOREM PrintedCommandHolds == Spec => []PrintedCommand
  BY AuditInvHolds, PrintedVerifies, PTL

\* What the object store holds if nobody but Warden wrote to it.
LEMMA HonestObjects ==
    ASSUME AuditInv, Honest, NEW n \in Names(objects)
    PROVE  /\ GoodObject(file, stored, n, objects[n][1]) /\ Objects(objects[n]) = {1}
           /\ Oldest(objects[n]) = objects[n][1]
  <1> DEFINE vs == objects[n]
  <1>1. n \in Sizes /\ Objects(vs) # {}
    BY DEF Names, AuditInv, TypeInv
  <1>2. IsSeq(vs)
    BY <1>1 DEF AuditInv, TypeInv
  <1> HIDE DEF vs
  <1>3. Len(vs) \in Nat /\ DOMAIN vs = 1..Len(vs) /\ Len(vs) # 0
    BY <1>1, <1>2, SeqFacts DEF Objects
  <1>4. Len(vs) = 1 /\ GoodObject(file, stored, n, vs[1])
    BY <1>1, <1>3 DEF AuditInv, ObjectsInv, vs
  <1>5. Objects(vs) = {1}
    BY <1>3, <1>4 DEF Objects, GoodObject
  <1>6. Oldest(vs) = vs[1]
    BY <1>5 DEF Oldest
  <1> QED BY <1>4, <1>5, <1>6 DEF vs

\* Such a store is read without a fault.
LEMMA HonestStore ==
    ASSUME AuditInv, Honest, \A s \in stored : s.until > now, NEW K, ReadVerified(file, K)
    PROVE  /\ StoreFault(ReadStore(objects, now), K, file) = "none"
           /\ Range(Lines(ReadStore(objects, now).found)) \subseteq Range(file)
  <1> DEFINE names == Names(objects)
             c == Cardinality(names)
             read == ReadStore(objects, now)
             found == read.found
             name(k) == InOrder(names)[k]
             lines == Lines(found)
  <1>1. /\ IsSeq(file) /\ Len(file) \in Nat /\ DOMAIN file = 1..Len(file) /\ Len(log) \in Nat
        /\ \A i \in 1..Len(file) : GoodCheckpoint(log, file[i])
        /\ \A i, j \in 1..Len(file) : i < j => file[i].size < file[j].size /\ file[i].ts <= file[j].ts
    BY SeqFacts DEF AuditInv, FileInv, TypeInv, Honest, Where
  <1>2. \A n \in names : /\ GoodObject(file, stored, n, objects[n][1]) /\ Objects(objects[n]) = {1}
                         /\ Oldest(objects[n]) = objects[n][1]
    BY HonestObjects
  <1>3. names \subseteq Nat /\ IsFiniteSet(names) /\ c \in Nat
    <2>1. Sizes = 0..MaxLog /\ MaxLog \in Nat
      BY AuditAssumption DEF Sizes
    <2>2. names \in SUBSET Sizes
      BY DEF Names, AuditInv, TypeInv
    <2>3. IsFiniteSet(Sizes) /\ Sizes \subseteq Nat
      BY <2>1, FS_Interval
    <2> HIDE DEF names
    <2>4. IsFiniteSet(names)
      BY <2>2, <2>3, FS_Subset
    <2> QED BY <2>2, <2>3, <2>4, FS_CardinalityType
  <1>4. read.fault = "none"
    <2>1. Stray \notin names
      <3> SUFFICES ASSUME 0 \in names PROVE FALSE
        BY DEF Stray
      <3>1. GoodObject(file, stored, 0, objects[0][1])
        BY <1>2
      <3>2. PICK k \in 1..Len(file) : file[k].size = 0
        BY <3>1 DEF GoodObject
      <3>3. file[k].size \in 1..Len(log)
        BY <1>1 DEF GoodCheckpoint
      <3> QED BY <1>1, <3>2, <3>3
    <2>2. ASSUME NEW n \in names PROVE Locked(objects[n], now) /\ SameBytes(objects[n])
      <3>1. GoodObject(file, stored, n, objects[n][1]) /\ Objects(objects[n]) = {1}
            /\ Oldest(objects[n]) = objects[n][1]
        BY <1>2
      <3>2. objects[n][1].mode = "COMPLIANCE" /\ objects[n][1].until > now
        BY <3>1 DEF GoodObject
      <3> QED BY <3>1, <3>2 DEF Locked, SameBytes
    <2> HIDE DEF names
    <2> QED BY <2>1, <2>2 DEF ReadStore, names
  <1>5. /\ DOMAIN found = 1..c
        /\ \A k \in 1..c : /\ found[k].name = name(k) /\ found[k].line = Oldest(objects[name(k)]).line
                           /\ found[k].at = Oldest(objects[name(k)]).at
    BY DEF ReadStore
  <1>6. /\ \A k \in 1..c : name(k) \in names
        /\ \A i, j \in 1..c : i < j => name(i) < name(j)
    <2> HIDE DEF names
    <2>1. \A k \in 1..c : InOrder(names)[k] \in names /\ Cardinality(Below(names, InOrder(names)[k])) = k - 1
      BY <1>3, InOrderIs
    <2>2. \A i, j \in 1..c : i < j => InOrder(names)[i] < InOrder(names)[j]
      BY <1>3, InOrderHasAll
    <2> QED BY <2>1, <2>2
  <1> HIDE DEF names, c, read, found, name
  <1>7. ASSUME NEW k \in 1..c
        PROVE  /\ \E q \in 1..Len(file) : found[k].line = file[q]
               /\ found[k].line.size = name(k) /\ found[k].name = name(k) /\ name(k) \in Nat
               /\ found[k].at \in Nat /\ found[k].line.ts <= found[k].at
    <2> DEFINE n == name(k)
               o == objects[n][1]
    <2>1. n \in names /\ found[k].name = n /\ found[k].line = o.line /\ found[k].at = o.at
      BY <1>2, <1>5, <1>6
    <2>2. GoodObject(file, stored, n, o)
      BY <1>2, <2>1
    <2> HIDE DEF o, n
    <2>3. /\ \E q \in 1..Len(file) : o.line = file[q]
          /\ o.line.size = n /\ o.at \in Nat /\ o.line.ts <= o.at
      BY <2>2 DEF GoodObject
    <2> QED BY <1>3, <2>1, <2>3 DEF n
  <1>8. DOMAIN lines = 1..c /\ \A k \in 1..c : lines[k] = found[k].line
    BY <1>5 DEF Lines
  <1>9. Len(lines) = c
    <2>1. lines = [k \in 1..c |-> found[k].line]
      BY <1>5 DEF Lines
    <2> QED BY <1>3, <2>1
  <1> HIDE DEF lines
  <1>10. ReadVerified(lines, K)
    <2>1. ASSUME NEW k \in 1..c PROVE SignedBy(K, lines[k])
      <3>1. PICK q \in 1..Len(file) : found[k].line = file[q]
        BY <1>7
      <3>2. SignedBy(K, file[q])
        BY <1>1 DEF ReadVerified
      <3> QED BY <1>8, <3>1, <3>2
    <2>2. ASSUME NEW k \in 2..c
          PROVE  lines[k - 1].size < lines[k].size /\ lines[k - 1].ts <= lines[k].ts
      <3> DEFINE h == k - 1
      <3>1. h \in 1..c /\ k \in 1..c /\ h < k
        BY <1>3
      <3> HIDE DEF h
      <3>2. PICK p \in 1..Len(file) : found[h].line = file[p]
        BY <1>7, <3>1
      <3>3. PICK q \in 1..Len(file) : found[k].line = file[q]
        BY <1>7, <3>1
      <3>4. name(h) < name(k) /\ name(h) \in Nat /\ name(k) \in Nat
        BY <1>6, <1>7, <3>1
      <3>5. file[p].size = name(h) /\ file[q].size = name(k)
        BY <1>7, <3>1, <3>2, <3>3
      <3>6. p < q
        <4>1. p \in Nat /\ q \in Nat
          BY <1>1
        <4>2. p # q /\ ~(q < p)
          BY <1>1, <3>4, <3>5
        <4> QED BY <4>1, <4>2
      <3>7. file[p].ts <= file[q].ts
        BY <1>1, <3>6
      <3>8. lines[h] = file[p] /\ lines[k] = file[q]
        BY <1>8, <3>1, <3>2, <3>3
      <3> QED BY <3>4, <3>5, <3>7, <3>8 DEF h
    <2> QED BY <1>8, <1>9, <2>1, <2>2 DEF ReadVerified
  <1>11. ASSUME NEW f \in Range(found)
         PROVE  /\ f.line.size = f.name /\ ~(f.line.ts > f.at + Skew)
                /\ \A j \in DOMAIN file : file[j].size = f.line.size => file[j] = f.line
    <2>1. PICK k \in 1..c : f = found[k]
      BY <1>5 DEF Range
    <2>2. PICK q \in 1..Len(file) : f.line = file[q]
      BY <1>7, <2>1
    <2>3. f.line.size = f.name /\ f.at \in Nat /\ f.line.ts <= f.at
      BY <1>7, <2>1
    <2>4. f.line.ts \in Nat
      BY <1>1, <2>2 DEF GoodCheckpoint
    <2>5. ~(f.line.ts > f.at + Skew)
      BY <2>3, <2>4, VerifierAssumption
    <2>6. ASSUME NEW j \in DOMAIN file, file[j].size = f.line.size PROVE file[j] = f.line
      <3>1. j \in 1..Len(file) /\ j \in Nat /\ q \in Nat
        BY <1>1
      <3>2. file[j].size \in Nat
        <4>1. file[j].size \in 1..Len(log)
          BY <1>1, <3>1 DEF GoodCheckpoint
        <4> QED BY <1>1, <4>1
      <3>3. ~(j < q) /\ ~(q < j)
        BY <1>1, <2>2, <2>6, <3>1, <3>2
      <3> QED BY <2>2, <3>1, <3>3
    <2> QED BY <2>3, <2>5, <2>6
  <1>12. StoreFault(read, K, file) = "none"
    BY <1>4, <1>10, <1>11 DEF StoreFault, found, lines
  <1>13. Range(lines) \subseteq Range(file)
    <2>1. ASSUME NEW x \in Range(lines) PROVE x \in Range(file)
      <3>1. PICK k \in 1..c : x = found[k].line
        BY <1>8, <2>1 DEF Range
      <3>2. PICK q \in 1..Len(file) : found[k].line = file[q]
        BY <1>7
      <3> QED BY <1>1, <3>1, <3>2, SeqFacts
    <2> QED BY <2>1
  <1> QED BY <1>12, <1>13 DEF read, found, lines

\* NoFalseAlarm: the first pass learns every key, so that the anchors can be read,
\* and the last one finds neither a fault nor a difference from a checkpoint.
LEMMA HonestVerifies == AuditInv => NoFalseAlarm
  <1> SUFFICES ASSUME AuditInv, Honest, copy # <<>>,
                      \A i \in DOMAIN file : file[i].size <= Len(copy),
                      \A s \in stored : s.until > now, NothingAfterRevocation
               PROVE  Run(Full).verified
    BY DEF NoFalseAlarm
  <1> DEFINE a == Present(Full)
             first == FirstPass(a)
             read == StoreRead(a)
             cps == Checkpoints(a, read)
             rs == OfChain(revs)
             last == Len(copy)
             F == Pass(copy, Trusted, TRUE, {})
             K == F[last].known
             P == Pass(copy, K, TRUE, rs)
  <1>a. /\ Full.useFile = Exists /\ Full.exists = Exists
        /\ Full.useRevs = (revs # {}) /\ Full.useStore = Bucket
    BY Zenon DEF Full
  <1>b. a.useFile = TRUE /\ a.exists = TRUE /\ a.useRevs = TRUE /\ a.useStore = Bucket
    BY Zenon DEF Full, Present
  <1>c. Audits(Full, copy)
    BY Zenon DEF Full, Audits
  <1>d. Audits(a, copy)
    BY Zenon DEF Full, Present, Audits
  <1>e. Run(a).verified => Run(Full).verified
    <2>1. Len(copy) \in Nat
      BY SeqFacts DEF AuditInv, TypeInv
    <2>2. Full.useStore \in BOOLEAN /\ a.useStore = Full.useStore
      BY <1>a, <1>b, AuditAssumption
    <2>3. /\ Full.useFile <=> Exists
          /\ Full.exists <=> Exists
          /\ Full.useRevs <=> revs # {}
      BY <1>a
    <2> HIDE DEF a
    <2>4. Run(Full).verified <=> Run(a).verified
      BY <1>b, <1>c, <1>d, <2>1, <2>2, <2>3, PresentSame
    <2> QED BY <2>4
  <1>1. /\ a.log = copy /\ a.trusted = Trusted /\ a.root = TRUE /\ a.useFile = TRUE /\ a.file = file
        /\ a.objects = objects /\ a.now = now /\ a.useRevs = TRUE /\ a.revs = revs
        /\ a.useTokens = FALSE /\ a.exists = TRUE
    BY <1>b, <1>d, Zenon DEF Audits
  <1>2. a.useStore \in BOOLEAN
    BY <1>b, AuditAssumption
  <1> HIDE DEF a
  <1>3. NoDeed("copy") /\ NoDeed("file")
    BY DEF Honest, Where
  <1>4. /\ last \in Nat /\ last # 0 /\ Len(log) \in Nat /\ DOMAIN copy = 1..last
    BY SeqFacts DEF AuditInv, TypeInv
  <1>5. /\ IsSeq(file) /\ DOMAIN file = 1..Len(file)
        /\ \A i \in 1..Len(file) : GoodCheckpoint(log, file[i])
    BY <1>3, SeqFacts DEF AuditInv, FileInv
  <1>6. /\ F[last].fault = "none" /\ Named(copy, last) \subseteq DOMAIN K /\ KeysGenuine(K)
    <2>1. \A i \in 1..Len(copy) : ~Withdrawn({}, copy[i].kid, i - 1)
      BY DEF Withdrawn
    <2>2. IsPass(F, copy, Trusted, TRUE, {})
      BY <1>4, PassIsPass
    <2>3. FirstKid \in DOMAIN Trusted /\ KeysGenuine(Trusted)
      BY AuditKeys DEF Trusted
    <2> HIDE DEF F
    <2> QED BY <1>3, <2>1, <2>2, <2>3, HonestPass
  <1>7. first.known = K /\ first.verified
    <2>1. first = VerifyAll(copy, Trusted, TRUE, {}, {})
      BY <1>1 DEF FirstPass
    <2>2. Reports(VerifyAll(copy, Trusted, TRUE, {}, {}), F[Len(copy)], {})
      BY VerifyAllSays
    <2>3. \A C : VerifyAll(copy, Trusted, TRUE, C, {}).verified <=>
                   /\ F[Len(copy)].fault = "none" /\ Len(copy) # 0
                   /\ \A c \in C : ~Differs(F[Len(copy)], c)
      BY <1>4, VerifiedSays
    <2> HIDE DEF F, first
    <2>4. first.verified
      BY <1>4, <1>6, <2>1, <2>3
    <2>5. first.known = K
      BY <2>1, <2>2 DEF Reports
    <2> QED BY <2>4, <2>5
  <1> HIDE DEF K
  <1>8. \A i \in 1..Len(copy) : ~Withdrawn(rs, copy[i].kid, i - 1)
    <2> SUFFICES ASSUME NEW i \in 1..last, NEW v \in revs, v.kid = copy[i].kid, i - 1 >= v.size
                 PROVE  FALSE
      BY DEF Withdrawn, OfChain
    <2>1. i <= v.size
      BY <1>4 DEF NothingAfterRevocation
    <2>2. PICK j \in 1..Len(file) : v.size = file[j].size
      BY <1>3 DEF AuditInv, RevsInv
    <2>3. v.size \in 1..Len(log)
      BY <1>5, <2>2 DEF GoodCheckpoint
    <2> QED BY <1>4, <2>1, <2>3
  <1>9. P[last].fault = "none" /\ Remembers(P[last], copy, last)
    <2>1. IsPass(P, copy, K, TRUE, rs)
      BY <1>4, PassIsPass
    <2>2. FirstKid \in DOMAIN K
      BY <1>6 DEF Named
    <2> HIDE DEF P, rs
    <2> QED BY <1>3, <1>6, <1>8, <2>1, <2>2, HonestPass
  <1>10. ReadVerified(file, K)
    <2>1. ASSUME NEW i \in 1..Len(file) PROVE Named(log, file[i].size) \subseteq DOMAIN K
      <3> DEFINE n == file[i].size
      <3>1. n \in 1..Len(log) /\ n <= last
        BY <1>5 DEF GoodCheckpoint
      <3>2. n \in Nat /\ n <= last
        BY <1>4, <3>1
      <3> HIDE DEF n, last
      <3>3. Named(log, n) \subseteq Named(log, last)
        BY <1>4, <3>2, NamedGrows
      <3>4. Named(log, last) = Named(copy, last)
        BY <1>3, <1>4, ExportGood DEF last
      <3> QED BY <1>6, <3>3, <3>4 DEF n
    <2> QED BY <1>3, <1>6, <2>1, HonestFile
  <1>11. File(a) = file /\ Revocations(a) = revs /\ Anchored(a) /\ Keys(a, first) = K
    BY <1>1, <1>7 DEF File, Revocations, Anchored, Keys
  <1>12. /\ a.useStore => StoreFault(read, K, file) = "none"
         /\ cps = Range(file)
    <2>1. CASE a.useStore = TRUE
      <3>1. read = ReadStore(objects, now)
        BY <1>1, <2>1 DEF StoreRead
      <3>2. /\ StoreFault(ReadStore(objects, now), K, file) = "none"
            /\ Range(Lines(ReadStore(objects, now).found)) \subseteq Range(file)
        BY <1>10, HonestStore
      <3> HIDE DEF read
      <3> QED BY <1>11, <3>1, <3>2 DEF Checkpoints, Merge
    <2>2. CASE a.useStore = FALSE
      <3> QED BY <1>11, <2>2, FileCheckpoints
    <2> QED BY <1>2, <2>1, <2>2
  <1> HIDE DEF first, read, cps, P
  <1>13. Stage(a, read, first) = "none"
    <2>1. ~RevocationUsage(a) /\ ~TokenUsage(a)
      BY <1>1, <1>11 DEF RevocationUsage, TokenUsage
    <2>2. RevocationsSigned(revs)
      BY DEF AuditInv, RevsInv, RevocationsSigned
    <2>3. Matched(revs, Range(file))
      <3>1. ASSUME NEW v \in revs PROVE \E c \in Range(file) : c.size = v.size /\ c.head = v.head
        <4>1. PICK j \in 1..Len(file) : v.size = file[j].size /\ v.head = file[j].head
          BY <1>3 DEF AuditInv, RevsInv
        <4>2. file[j] \in Range(file)
          BY <1>5, SeqFacts
        <4> QED BY <4>1, <4>2
      <3> QED BY <3>1 DEF Matched, OfChain
    <2> QED BY <1>1, <1>7, <1>10, <1>11, <1>12, <2>1, <2>2, <2>3 DEF Stage, cps
  <1>14. LastPass(a, read, first).verified
    <2>1. LastPass(a, read, first) = VerifyAll(copy, K, TRUE, Range(file), rs)
      BY <1>1, <1>11, <1>12 DEF LastPass, cps
    <2>2. ASSUME NEW c \in Range(file) PROVE ~Differs(P[last], c)
      <3>1. PICK i \in 1..Len(file) : c = file[i]
        BY <1>5, SeqFacts
      <3>2. GoodCheckpoint(log, c) /\ c.size <= Len(copy)
        BY <1>5, <3>1
      <3> DEFINE st == P[last]
      <3>3. Remembers(st, copy, Len(copy))
        BY <1>9
      <3> HIDE DEF st
      <3>4. ~Differs(st, c)
        BY <1>3, <3>2, <3>3, HonestAgrees
      <3> QED BY <3>4 DEF st
    <2> HIDE DEF rs
    <2>3. \A C : VerifyAll(copy, K, TRUE, C, rs).verified <=>
                   /\ P[Len(copy)].fault = "none" /\ Len(copy) # 0
                   /\ \A c \in C : ~Differs(P[Len(copy)], c)
      BY <1>4, VerifiedSays DEF P
    <2> QED BY <1>4, <1>9, <2>1, <2>2, <2>3
  <1>15. Run(a).verified
    BY <1>13, <1>14, RunSays DEF read, first
  <1> QED BY <1>e, <1>15

\* In every reachable state.
THEOREM NoFalseAlarmHolds == Spec => []NoFalseAlarm
  BY AuditInvHolds, HonestVerifies, PTL

-----------------------------------------------------------------------------
(* The exposure. *)

\* The pass over a log that learns its keys, the keys, and the pass with them.
FirstOver(x) == Pass(x, Trusted, TRUE, {})
KeysOver(x) == FirstOver(x)[Len(x)].known
LastOver(x) == Pass(x, KeysOver(x), TRUE, OfChain(revs))

\* What verifies against the anchor file.
VerifiesFile(x) ==
    /\ Len(x) # 0 /\ FirstOver(x)[Len(x)].fault = "none" /\ ReadVerified(file, KeysOver(x))
    /\ RevocationsSigned(revs) /\ Matched(revs, Range(file))
    /\ LastOver(x)[Len(x)].fault = "none"
    /\ \A c \in Range(file) : ~Differs(LastOver(x)[Len(x)], c)

\* The command says so, and counts what comes after the newest checkpoint.
LEMMA FileRun ==
    ASSUME AuditInv, NEW x, Len(x) \in Nat,
           NEW f, f = [FileOnly EXCEPT !.log = x]
    PROVE  /\ Run(f).verified <=> VerifiesFile(x)
           /\ Run(f).verified => Run(f).unanchored = Len(x) - Covered(Range(file))
  <1> DEFINE a == Present(f)
             first == FirstPass(a)
             last == LastPass(a, StoreRead(a), first)
             F == FirstOver(x)
             K == KeysOver(x)
             rs == OfChain(revs)
             P == LastOver(x)
  <1>a. /\ f.useFile = Exists /\ f.exists = Exists
        /\ f.useRevs = (revs # {}) /\ f.useStore = FALSE
    BY Zenon DEF FileOnly, Full
  <1>b. a.useFile = TRUE /\ a.exists = TRUE /\ a.useRevs = TRUE /\ a.useStore = FALSE
    BY Zenon DEF FileOnly, Full, Present
  <1>c. Audits(f, x)
    BY Zenon DEF FileOnly, Full, Audits
  <1>d. Audits(a, x)
    BY Zenon DEF FileOnly, Full, Present, Audits
  <1>1. /\ a.log = x /\ a.trusted = Trusted /\ a.root = TRUE /\ a.useFile = TRUE /\ a.file = file
        /\ a.useRevs = TRUE /\ a.revs = revs /\ a.useTokens = FALSE /\ a.useStore = FALSE
        /\ a.exists = TRUE
    BY <1>b, <1>d, Zenon DEF Audits
  <1> HIDE DEF a
  <1>2. F = Pass(x, Trusted, TRUE, {}) /\ K = F[Len(x)].known /\ P = Pass(x, K, TRUE, rs)
    BY DEF FirstOver, KeysOver, LastOver
  <1>3. /\ first.known = K
        /\ first.verified <=> F[Len(x)].fault = "none" /\ Len(x) # 0
    <2>1. first = VerifyAll(x, Trusted, TRUE, {}, {})
      BY <1>1 DEF FirstPass
    <2> HIDE DEF first, F, K
    <2>2. Reports(VerifyAll(x, Trusted, TRUE, {}, {}), F[Len(x)], {})
      BY <1>2, VerifyAllSays
    <2>3. \A C : VerifyAll(x, Trusted, TRUE, C, {}).verified <=>
                   /\ F[Len(x)].fault = "none" /\ Len(x) # 0
                   /\ \A c \in C : ~Differs(F[Len(x)], c)
      BY <1>2, VerifiedSays
    <2>4. first.verified <=> F[Len(x)].fault = "none" /\ Len(x) # 0
      BY <2>1, <2>3
    <2>5. first.known = K
      BY <1>2, <2>1, <2>2 DEF Reports
    <2> QED BY <2>4, <2>5
  <1> HIDE DEF F, K, P
  <1>4. File(a) = file /\ Revocations(a) = revs /\ Anchored(a) /\ Keys(a, first) = K
    BY <1>1, <1>3 DEF File, Revocations, Anchored, Keys
  <1>5. ~RevocationUsage(a)
    BY <1>1, <1>4 DEF RevocationUsage
  <1>6. Checkpoints(a, StoreRead(a)) = Range(file)
    BY <1>1, <1>4, FileCheckpoints
  <1>7. last = VerifyAll(x, K, TRUE, Range(file), rs)
    BY <1>1, <1>4, <1>6 DEF LastPass
  <1> HIDE DEF first
  <1>8. Stage(a, StoreRead(a), first) = "none" <=>
          /\ first.verified /\ ReadVerified(file, K)
          /\ RevocationsSigned(revs) /\ Matched(revs, Range(file))
    <2>1. Stage(a, StoreRead(a), FirstPass(a)) = "none" <=>
             /\ ~RevocationUsage(a)
             /\ a.root /\ Anchored(a) => FirstPass(a).verified
             /\ a.useFile => a.exists
             /\ ReadVerified(File(a), Keys(a, FirstPass(a)))
             /\ RevocationsSigned(Revocations(a)) /\ Matched(Revocations(a), Range(File(a)))
      BY <1>1, PlainStages
    <2> QED BY <1>1, <1>4, <1>5, <2>1 DEF first
  <1> HIDE DEF last, rs
  <1>9. last.verified <=> /\ P[Len(x)].fault = "none" /\ Len(x) # 0
                          /\ \A c \in Range(file) : ~Differs(P[Len(x)], c)
    <2>1. \A C : VerifyAll(x, K, TRUE, C, rs).verified <=>
                   /\ P[Len(x)].fault = "none" /\ Len(x) # 0
                   /\ \A c \in C : ~Differs(P[Len(x)], c)
      BY <1>2, VerifiedSays
    <2> QED BY <1>7, <2>1
  <1>10. last.unanchored = P[Len(x)].n - Covered(Range(file))
    <2>1. Reports(VerifyAll(x, K, TRUE, Range(file), rs), P[Len(x)], Range(file))
      BY <1>2, VerifyAllSays
    <2> QED BY <1>7, <2>1 DEF Reports
  <1>11. /\ Run(a).verified <=> Stage(a, StoreRead(a), first) = "none" /\ last.verified
         /\ Run(a).verified => Run(a).unanchored = last.unanchored
    BY RunSays DEF first, last
  <1>12. P[Len(x)].fault = "none" => P[Len(x)].n = Len(x)
    <2>1. IsPass(P, x, K, TRUE, rs)
      BY <1>2, PassIsPass
    <2>2. \A n \in 0..Len(x) : P[n].fault = "none" => Remembers(P[n], x, n)
      BY <2>1, PassRemembers
    <2>3. Len(x) \in 0..Len(x)
      OBVIOUS
    <2> QED BY <2>2, <2>3 DEF Remembers
  <1>13. Run(a).verified <=> VerifiesFile(x)
    BY <1>3, <1>8, <1>9, <1>11 DEF VerifiesFile, F, K, P
  <1>14. Run(a).verified => Run(a).unanchored = Len(x) - Covered(Range(file))
    BY <1>9, <1>10, <1>11, <1>12
  <1>15. /\ Run(f).verified <=> Run(a).verified
         /\ Run(f).verified => Run(f).unanchored = Run(a).unanchored
    <2>1. f.useStore \in BOOLEAN /\ a.useStore = f.useStore
      BY <1>a, <1>b
    <2>2. /\ f.useFile <=> Exists
          /\ f.exists <=> Exists
          /\ f.useRevs <=> revs # {}
      BY <1>a
    <2> QED BY <1>b, <1>c, <1>d, <2>1, <2>2, PresentSame
  <1> QED BY <1>13, <1>14, <1>15

\* A pass without a fault knows every key that was named.
LEMMA NamedLearned ==
    ASSUME NEW lg, Len(lg) \in Nat, NEW known, FirstKid \in DOMAIN known, NEW root, NEW rs,
           NEW P, IsPass(P, lg, known, root, rs)
    PROVE  \A n \in 0..Len(lg) : P[n].fault = "none" => Named(lg, n) \subseteq DOMAIN P[n].known
  <1> DEFINE S == {n \in Nat : n <= Len(lg) =>
                      (P[n].fault = "none" => Named(lg, n) \subseteq DOMAIN P[n].known)}
  <1>1. 0 \in S
    <2>1. P[0].known = known
      BY DEF IsPass, Start
    <2>2. Named(lg, 0) = {FirstKid}
      BY DEF Named
    <2> QED BY <2>1, <2>2
  <1>2. ASSUME NEW n \in Nat, n \in S PROVE n + 1 \in S
    <2> SUFFICES ASSUME n + 1 <= Len(lg), P[n + 1].fault = "none"
                 PROVE  Named(lg, n + 1) \subseteq DOMAIN P[n + 1].known
      OBVIOUS
    <2> DEFINE st == P[n]
    <2>1. n \in 0..(Len(lg) - 1) /\ n <= Len(lg)
      OBVIOUS
    <2>2. /\ st.fault = "none" /\ P[n + 1] = After(st, lg[n + 1], "none")
          /\ TypeFault(st, lg[n + 1], root) = "none"
      BY <2>1 DEF IsPass, Passes
    <2>3. Named(lg, n) \subseteq DOMAIN st.known
      BY <1>2, <2>1, <2>2
    <2> HIDE DEF st
    <2> QED BY <2>2, <2>3, NamedKnown
  <1>3. \A n \in Nat : n \in S
    <2> HIDE DEF S
    <2> QED BY <1>1, <1>2, Induction
  <1> QED BY <1>3

\* The newest checkpoint tells whether a number of lines covers all of them.
LEMMA CoveredBounds ==
    ASSUME AuditInv, NoDeed("file"), NEW n \in Nat
    PROVE  /\ Covered(Range(file)) \in Nat
           /\ (\A c \in Range(file) : c.size <= n) <=> Covered(Range(file)) <= n
  <1> DEFINE size == Covered(Range(file))
  <1>1. /\ IsSeq(file) /\ Len(file) \in Nat /\ Len(log) \in Nat
        /\ \A i \in 1..Len(file) : file[i].size \in 1..Len(log)
        /\ \A i, j \in 1..Len(file) : i < j => file[i].size < file[j].size
    BY SeqFacts DEF AuditInv, FileInv, TypeInv, GoodCheckpoint
  <1>2. CASE Len(file) = 0
    <2>1. Range(file) = {}
      BY <1>1, <1>2, SeqFacts
    <2>2. size = 0
      BY <2>1 DEF Covered
    <2> QED BY <2>1, <2>2
  <1>3. CASE Len(file) > 0
    <2> DEFINE k == Len(file)
    <2>1. size = file[k].size
      BY <1>3, CoveredIsLast
    <2>2. k \in 1..k /\ file[k] \in Range(file) /\ file[k].size \in Nat
      BY <1>1, <1>3, SeqFacts
    <2>3. ASSUME NEW c \in Range(file) PROVE c.size \in Nat /\ c.size <= file[k].size
      <3>1. PICK i \in 1..k : c = file[i]
        BY <1>1, SeqFacts
      <3>2. i = k \/ i < k
        BY <1>1
      <3>3. c.size \in Nat
        BY <1>1, <3>1
      <3> HIDE DEF k
      <3>4. i < k => file[i].size < file[k].size
        BY <1>1, <2>2 DEF k
      <3> QED BY <2>2, <3>1, <3>2, <3>3, <3>4
    <2> HIDE DEF k, size
    <2> QED BY <2>1, <2>2, <2>3 DEF size
  <1> QED BY <1>1, <1>2, <1>3

\* The first n lines of a log.
IsCut(x, lg, n) == Len(x) = n /\ \A i \in 1..n : x[i] = lg[i]

\* What a copy that verifies comes with.
LEMMA VerifiedCopy ==
    ASSUME AuditInv, VerifiesFile(copy)
    PROVE  /\ Len(copy) \in Nat /\ IsFun(Trusted) /\ FirstKid \in DOMAIN Trusted
           /\ IsPass(FirstOver(copy), copy, Trusted, TRUE, {})
           /\ SoundUpTo(FirstOver(copy), Len(copy))
           /\ \A n \in 0..Len(copy) : KeysGenuine(FirstOver(copy)[n].known)
           /\ SoundCopy(KeysOver(copy), LastOver(copy), OfChain(revs), Range(file))
  <1> DEFINE F == FirstOver(copy)
             K == KeysOver(copy)
             P == LastOver(copy)
             rs == OfChain(revs)
  <1>1. Len(copy) \in Nat
    BY SeqFacts DEF AuditInv, TypeInv
  <1>2. IsFun(Trusted) /\ FirstKid \in DOMAIN Trusted
    BY DEF IsFun, Trusted
  <1>3. IsPass(F, copy, Trusted, TRUE, {})
    BY <1>1, PassIsPass DEF FirstOver
  <1>4. IsPass(P, copy, K, TRUE, rs)
    BY <1>1, PassIsPass DEF LastOver
  <1>5. /\ F[Len(copy)].fault = "none" /\ K = F[Len(copy)].known
        /\ P[Len(copy)].fault = "none" /\ \A c \in Range(file) : ~Differs(P[Len(copy)], c)
    BY DEF VerifiesFile, KeysOver
  <1> HIDE DEF F, K, P, rs
  <1>6. Len(copy) \in 0..Len(copy)
    BY <1>1
  <1>7. SoundUpTo(F, Len(copy))
    <2>1. \A n \in 0..Len(copy) : F[n].fault = "none" => SoundUpTo(F, n)
      BY <1>1, <1>3, SoundBefore
    <2> QED BY <1>5, <1>6, <2>1
  <1>8. \A n \in 0..Len(copy) : KeysGenuine(F[n].known)
    BY <1>1, <1>3, AuditKeys, PassKeys
  <1>9. SoundCopy(K, P, rs, Range(file))
    BY <1>4, <1>5, <1>6, <1>8 DEF SoundCopy
  <1> QED BY <1>1, <1>2, <1>3, <1>7, <1>8, <1>9 DEF F, K, P, rs


\* The passes over its first lines find no fault, and learn what was learned there.
LEMMA CutPasses ==
    ASSUME AuditInv, VerifiesFile(copy), NEW n \in 1..(Len(copy) - 1),
           NEW x, IsCut(x, copy, n)
    PROVE  /\ FirstOver(x)[n].fault = "none" /\ KeysOver(x) = FirstOver(copy)[n].known
           /\ LastOver(x)[n].fault = "none" /\ Remembers(LastOver(x)[n], x, n)
  <1> DEFINE F == FirstOver(copy)
             G == FirstOver(x)
             K == KeysOver(x)
             rs == OfChain(revs)
             none == {}
             yes == TRUE
             Q == Pass(x, K, yes, none)
             P == LastOver(x)
  <1>1. /\ Len(copy) \in Nat /\ IsFun(Trusted) /\ IsPass(F, copy, Trusted, yes, none)
        /\ SoundUpTo(F, Len(copy))
        /\ SoundCopy(KeysOver(copy), LastOver(copy), rs, Range(file))
    BY VerifiedCopy
  <1>2. /\ Len(x) = n /\ Len(x) \in Nat /\ n \in Nat /\ n <= Len(copy) /\ n \in 0..Len(x)
        /\ \A i \in 1..n : x[i] = copy[i]
    BY <1>1 DEF IsCut
  <1>3. IsPass(G, x, Trusted, yes, none) /\ K = G[n].known
    BY <1>2, PassIsPass DEF FirstOver, KeysOver
  <1>4. IsPass(Q, x, K, yes, none) /\ IsPass(P, x, K, yes, rs)
    BY <1>2, PassIsPass DEF LastOver
  <1>5. Spares(none, copy, n)
    BY DEF Withdrawn, Spares
  <1>6. Spares(rs, x, n)
    <2> DEFINE C == KeysOver(copy)
               L == LastOver(copy)
    <2>1. KeysGenuine(C) /\ IsPass(L, copy, C, yes, rs) /\ L[Len(copy)].fault = "none"
      BY <1>1 DEF SoundCopy
    <2> HIDE DEF C, L, yes, rs
    <2>2. \A i \in 1..Len(copy) : ~Withdrawn(rs, copy[i].kid, i - 1)
      BY <2>1, SoundLines
    <2> QED BY <1>1, <1>2, <2>2 DEF Spares
  <1>a. AlikeUpTo(x, copy, n) /\ AlikeUpTo(x, x, n)
    BY <1>2 DEF AlikeUpTo
  <1> HIDE DEF F, G, K, rs, none, yes, Q, P
  <1>7. SoundUpTo(F, n)
    BY <1>1, <1>2 DEF SoundUpTo
  <1>8. \A k \in 0..n : G[k] = F[k]
    <2>1. Along(F, copy, none, G, x, none, Trusted, yes, n)
      BY <1>1, <1>2, <1>3, <1>a, <1>5, <1>7 DEF Along
    <2> QED BY <2>1, SamePass
  <1>9. G[n].fault = "none" /\ K = F[n].known
    BY <1>2, <1>3, <1>7, <1>8 DEF SoundUpTo
  <1>10. SoundUpTo(Q, n)
    <2>1. BothPasses(G, Q, x, Trusted, yes, none)
      BY <1>1, <1>2, <1>3, <1>4 DEF BothPasses
    <2>2. G[Len(x)].fault = "none" <=> Q[Len(x)].fault = "none"
      BY <1>2, <2>1, SameVerdict
    <2>3. \A k \in 0..Len(x) : Q[k].fault = "none" => SoundUpTo(Q, k)
      BY <1>2, <1>4, SoundBefore
    <2> QED BY <1>2, <1>9, <2>2, <2>3
  <1>11. \A k \in 0..n : P[k] = Q[k]
    <2>1. Along(Q, x, none, P, x, rs, K, yes, n)
      BY <1>2, <1>4, <1>a, <1>6, <1>10 DEF Along
    <2> QED BY <2>1, SamePass
  <1>12. P[n].fault = "none"
    BY <1>2, <1>10, <1>11 DEF SoundUpTo
  <1>13. Remembers(P[n], x, n)
    <2>1. \A k \in 0..Len(x) : P[k].fault = "none" => Remembers(P[k], x, k)
      BY <1>2, <1>4, PassRemembers
    <2> QED BY <1>2, <1>12, <2>1
  <1> QED BY <1>9, <1>12, <1>13 DEF F, G, K, P

\* The anchor file can be read with the keys of the first lines that it covers.
LEMMA CutReads ==
    ASSUME AuditInv, NoDeed("file"), VerifiesFile(copy), NEW n \in 1..(Len(copy) - 1),
           \A c \in Range(file) : c.size <= n
    PROVE  ReadVerified(file, FirstOver(copy)[n].known)
  <1> DEFINE F == FirstOver(copy)
             K == F[n].known
  <1>1. /\ Len(copy) \in Nat /\ FirstKid \in DOMAIN Trusted /\ IsPass(F, copy, Trusted, TRUE, {})
        /\ SoundUpTo(F, Len(copy)) /\ \A k \in 0..Len(copy) : KeysGenuine(F[k].known)
        /\ SoundCopy(KeysOver(copy), LastOver(copy), OfChain(revs), Range(file))
    BY VerifiedCopy
  <1>2. n \in 0..Len(copy) /\ n \in Nat
    BY <1>1
  <1> HIDE DEF F
  <1>3. KeysGenuine(K)
    BY <1>1, <1>2
  <1>4. Named(copy, n) \subseteq DOMAIN K
    <2>1. \A k \in 0..Len(copy) : F[k].fault = "none" => Named(copy, k) \subseteq DOMAIN F[k].known
      BY <1>1, NamedLearned
    <2>2. F[n].fault = "none"
      BY <1>1, <1>2 DEF SoundUpTo
    <2> QED BY <1>2, <2>1, <2>2
  <1> HIDE DEF K
  <1>5. ASSUME NEW i \in 1..Len(file) PROVE Named(log, file[i].size) \subseteq DOMAIN K
    <2> DEFINE c == file[i]
               k == c.size
    <2>1. IsSeq(file) /\ GoodCheckpoint(log, c)
      BY DEF AuditInv, FileInv
    <2>2. c \in Range(file)
      BY <2>1, SeqFacts
    <2>3. Genuine(k)
      <3> DEFINE C == KeysOver(copy)
                 L == LastOver(copy)
                 rs == OfChain(revs)
                 yes == TRUE
      <3>1. /\ KeysGenuine(C) /\ IsPass(L, copy, C, yes, rs) /\ L[Len(copy)].fault = "none"
            /\ ~Differs(L[Len(copy)], c)
        BY <1>1, <2>2 DEF SoundCopy
      <3> HIDE DEF C, L, rs, yes, c
      <3> QED BY <2>1, <3>1, CheckpointedLines
    <2>4. k \in Nat /\ k <= n /\ \A j \in 1..k : copy[j] = log[j]
      BY <2>2, <2>3 DEF Genuine
    <2> HIDE DEF c, k
    <2>5. Named(log, k) = Named(copy, k)
      <3>1. {j \in 1..k : IsTurn(log[j])} = {j \in 1..k : IsTurn(copy[j])}
        BY <2>4
      <3> QED BY <2>4, <3>1 DEF Named
    <2>6. Named(copy, k) \subseteq Named(copy, n)
      BY <1>2, <2>4, NamedGrows
    <2>7. Named(log, k) \subseteq DOMAIN K
      BY <1>4, <2>5, <2>6
    <2> QED BY <2>7 DEF k, c
  <1>6. ReadVerified(file, K)
    BY <1>3, <1>5, HonestFile
  <1> QED BY <1>6 DEF K, F

\* What is left verifies if it covers the checkpoints.
LEMMA CutVerifies ==
    ASSUME AuditInv, NoDeed("file"), VerifiesFile(copy), NEW n \in 1..(Len(copy) - 1),
           NEW x, IsCut(x, copy, n), \A c \in Range(file) : c.size <= n
    PROVE  VerifiesFile(x)
  <1> DEFINE P == LastOver(copy)
             st == LastOver(x)[n]
  <1>1. /\ FirstOver(x)[n].fault = "none" /\ KeysOver(x) = FirstOver(copy)[n].known
        /\ st.fault = "none" /\ Remembers(st, x, n)
    BY CutPasses
  <1>2. ReadVerified(file, KeysOver(x))
    BY <1>1, CutReads
  <1>3. /\ Len(copy) \in Nat
        /\ SoundCopy(KeysOver(copy), P, OfChain(revs), Range(file))
    BY VerifiedCopy
  <1>4. Len(x) = n /\ n \in Nat /\ n # 0 /\ n <= Len(copy) /\ \A i \in 1..n : x[i] = copy[i]
    BY <1>3 DEF IsCut
  <1> HIDE DEF P, st
  <1>5. ASSUME NEW c \in Range(file) PROVE ~Differs(st, c)
    <2>1. PICK i \in 1..Len(file) : c = file[i]
      BY SeqFacts DEF AuditInv, FileInv
    <2>2. GoodCheckpoint(log, c) /\ Len(log) \in Nat
      BY <2>1, SeqFacts DEF AuditInv, FileInv, TypeInv
    <2>3. c.size \in Nat /\ c.size > 0 /\ c.size <= n
      BY <2>2 DEF GoodCheckpoint
    <2>4. Agrees(copy, c)
      <3> DEFINE K == KeysOver(copy)
                 rs == OfChain(revs)
                 yes == TRUE
      <3>1. /\ IsPass(P, copy, K, yes, rs) /\ P[Len(copy)].fault = "none"
            /\ ~Differs(P[Len(copy)], c)
        BY <1>3 DEF SoundCopy
      <3> HIDE DEF K, rs, yes
      <3> QED BY <1>3, <2>3, <3>1, PassCheckpoint
    <2>5. Agrees(x, c)
      <3>1. [j \in 1..c.size |-> copy[j].id] = [j \in 1..c.size |-> x[j].id]
        BY <1>4, <2>3
      <3>2. copy[c.size] = x[c.size]
        BY <1>4, <2>3
      <3> QED BY <1>4, <2>3, <2>4, <3>1, <3>2 DEF Agrees
    <2> QED BY <1>1, <1>4, <2>3, <2>5, AgreesSame
  <1> QED BY <1>1, <1>2, <1>4, <1>5 DEF VerifiesFile, st

\* ExposureExact: whoever cuts off what no checkpoint covers leaves a log with the
\* same lines, keys and checkpoints; whoever cuts off more leaves one that is too
\* short for the newest checkpoint.
LEMMA ExposureCounted == AuditInv => ExposureExact
  <1> SUFFICES ASSUME AuditInv, NoDeed("file"), Run(FileOnly).verified,
                      NEW n \in 1..(Len(copy) - 1)
               PROVE  Run([FileOnly EXCEPT !.log = SubSeq(copy, 1, n)]).verified
                        <=> n >= Len(copy) - Run(FileOnly).unanchored
    BY DEF ExposureExact
  <1> DEFINE size == Covered(Range(file))
             x == SubSeq(copy, 1, n)
             a == [FileOnly EXCEPT !.log = x]
             b == [FileOnly EXCEPT !.log = copy]
  <1>1. IsSeq(copy) /\ Len(copy) \in Nat /\ n \in Nat /\ n \in 0..Len(copy)
    <2>1. IsSeq(copy) /\ Len(copy) \in Nat
      BY SeqFacts DEF AuditInv, TypeInv
    <2> QED BY <2>1
  <1>2. IsCut(x, copy, n) /\ Len(x) = n
    BY <1>1, SeqCut DEF IsCut
  <1>3. FileOnly = b
    <2>1. FileOnly.log = copy
      BY DEF FileOnly, Full
    <2> QED BY Zenon, <2>1 DEF FileOnly, Full
  <1> HIDE DEF x
  <1>4. Run(a).verified <=> VerifiesFile(x)
    BY <1>1, <1>2, FileRun
  <1>5. VerifiesFile(copy) /\ Run(FileOnly).unanchored = Len(copy) - size
    <2>1. Run(b).verified
      BY <1>3
    <2> HIDE DEF size
    <2>2. VerifiesFile(copy) /\ Run(b).unanchored = Len(copy) - Covered(Range(file))
      BY <1>1, <2>1, FileRun
    <2> QED BY <1>3, <2>2 DEF size
  <1>6. size \in Nat /\ ((\A c \in Range(file) : c.size <= n) <=> size <= n)
    BY <1>1, CoveredBounds
  <1>7. VerifiesFile(x) => size <= n
    <2> SUFFICES ASSUME VerifiesFile(x) PROVE \A c \in Range(file) : c.size <= n
      BY <1>6
    <2>1. LastOver(x)[n].n = n
      <3>1. Remembers(LastOver(x)[n], x, n)
        BY <1>2, <1>5, CutPasses
      <3> QED BY <3>1 DEF Remembers
    <2>2. ASSUME NEW c \in Range(file) PROVE c.size <= n
      <3>1. ~Differs(LastOver(x)[n], c)
        BY <1>2 DEF VerifiesFile
      <3>2. ~(c.size > n)
        BY <2>1, <3>1 DEF Differs
      <3>3. c.size \in Nat
        <4>1. PICK i \in 1..Len(file) : c = file[i]
          BY SeqFacts DEF AuditInv, FileInv
        <4>2. GoodCheckpoint(log, c) /\ Len(log) \in Nat
          BY <4>1, SeqFacts DEF AuditInv, FileInv, TypeInv
        <4> QED BY <4>2 DEF GoodCheckpoint
      <3> QED BY <1>1, <3>2, <3>3
    <2> QED BY <2>2
  <1>8. size <= n => VerifiesFile(x)
    BY <1>2, <1>5, <1>6, CutVerifies
  <1> HIDE DEF size, a
  <1>9. Run(a).verified <=> n >= Len(copy) - (Len(copy) - size)
    BY <1>1, <1>4, <1>6, <1>7, <1>8
  <1> QED BY <1>5, <1>9 DEF a, x

\* In every reachable state.
THEOREM ExposureExactHolds == Spec => []ExposureExact
  BY AuditInvHolds, ExposureCounted, PTL
=============================================================================
