---------------------------- MODULE VerifierProofs ----------------------------
(***************************************************************************)
(* What VerifyAll finds out, for logs of every length.                     *)
(***************************************************************************)
EXTENDS Verifier, FiniteSetTheorems, SequenceTheorems, TLAPS

-----------------------------------------------------------------------------
(* Induction.  The sets of numbers that are left out have a least member.  *)

\* Less-than is well founded, as a set of pairs.
LEMMA LessWellFounded == IsWellFoundedOn({ss \in Nat \X Nat : ss[1] < ss[2]}, Nat)
  BY NatLessThanWellFounded DEF OpToRel

\* A set of numbers has a least member.
LEMMA LeastNumber ==
    ASSUME NEW T, T \subseteq Nat, T # {}
    PROVE  \E x \in T : \A y \in T : x <= y
  <1> DEFINE R == {ss \in Nat \X Nat : ss[1] < ss[2]}
  <1>1. IsWellFoundedOn(R, Nat)
    BY LessWellFounded
  <1> HIDE DEF R
  <1>2. PICK x \in T : \A y \in T : ~(<<y, x>> \in R)
    BY <1>1, WFMin
  <1>3. ASSUME NEW y \in T PROVE x <= y
    <2>1. x \in Nat /\ y \in Nat
      BY <1>2
    <2>2. ~(y < x)
      BY <1>2, <2>1 DEF R
    <2> QED BY <2>1, <2>2
  <1> QED BY <1>2, <1>3

\* A set that holds 0 and with every number the next one holds all of them.
LEMMA Induction ==
    ASSUME NEW S, 0 \in S, \A n \in Nat : n \in S => n + 1 \in S
    PROVE  \A n \in Nat : n \in S
  <1> SUFFICES ASSUME NEW m \in Nat, m \notin S PROVE FALSE
    OBVIOUS
  <1> DEFINE T == Nat \ S
  <1>1. PICK x \in T : \A y \in T : x <= y
    <2>1. T # {} /\ T \subseteq Nat
      OBVIOUS
    <2> HIDE DEF T
    <2> QED BY <2>1, LeastNumber
  <1>2. x \in Nat /\ x # 0 /\ x \notin S
    BY <1>1
  <1>3. x - 1 \in Nat /\ x - 1 \notin T
    BY <1>1, <1>2
  <1>4. x - 1 \in S
    BY <1>3
  <1> QED BY <1>2, <1>3, <1>4

-----------------------------------------------------------------------------
(* The loop. *)

\* The equation that defines the loop has a solution, so the loop satisfies it.
LEMMA PassDefined ==
    ASSUME NEW log, NEW known, NEW root, NEW revs, Len(log) \in Nat
    PROVE  /\ Pass(log, known, root, revs)[0] = Start(known)
           /\ \A n \in 1..Len(log) :
                Pass(log, known, root, revs)[n]
                  = VerifyLine(Pass(log, known, root, revs)[n - 1], log[n], root, revs)
  <1> DEFINE Next(st, n) == VerifyLine(st, log[n], root, revs)
             Is(f, m) == f = [n \in 0..m |-> IF n = 0 THEN Start(known) ELSE Next(f[n - 1], n)]
             S == {m \in Nat : \E f : Is(f, m)}
  <1>1. 0 \in S
    <2> DEFINE f == [n \in 0..0 |-> Start(known)]
    <2>1. Is(f, 0)
      <3> HIDE DEF Next
      <3> QED OBVIOUS
    <2> QED BY <2>1
  <1>2. ASSUME NEW m \in Nat, m \in S PROVE m + 1 \in S
    <2>1. PICK f : Is(f, m)
      BY <1>2
    <2> DEFINE g == [n \in 0..(m + 1) |-> IF n = m + 1 THEN Next(f[m], n) ELSE f[n]]
    <2>2. Is(g, m + 1)
      <3> HIDE DEF Next
      <3>1. ASSUME NEW n \in 0..(m + 1)
            PROVE g[n] = IF n = 0 THEN Start(known) ELSE Next(g[n - 1], n)
        <4>1. CASE n = m + 1
          BY <4>1
        <4>2. CASE n \in 0..m
          <5>1. f[n] = IF n = 0 THEN Start(known) ELSE Next(f[n - 1], n)
            BY <2>1, <4>2
          <5> QED BY <5>1, <4>2
        <4> QED BY <4>1, <4>2
      <3> QED BY <3>1
    <2> HIDE DEF Is, g
    <2> QED BY <2>2
  <1>3. Len(log) \in S
    <2> HIDE DEF S
    <2> QED BY <1>1, <1>2, Induction
  <1> DEFINE P == Pass(log, known, root, revs)
  <1>4. Is(P, Len(log))
    <2>1. \E f : Is(f, Len(log))
      BY <1>3
    <2>2. P = CHOOSE f : Is(f, Len(log))
      BY DEF Pass
    <2> HIDE DEF Is, P
    <2> QED BY <2>1, <2>2
  <1> HIDE DEF P, Next
  <1>5. P[0] = Start(known)
    BY <1>4
  <1>6. \A n \in 1..Len(log) : P[n] = Next(P[n - 1], n)
    BY <1>4
  <1> QED BY <1>5, <1>6 DEF P, Next

\* What the loop remembers is a record with these fields.
IsState(st) ==
    st = [ fault |-> st.fault, n |-> st.n, leaves |-> st.leaves, lastTS |-> st.lastTS,
           signer |-> st.signer, known |-> st.known, rotations |-> st.rotations,
           decisions |-> st.decisions ]

\* A line that passes every check.
Passes(st, l, root, revs) == LineFault(st, l, revs) = "none" /\ TypeFault(st, l, root) = "none"

\* A line that passes is remembered, any other one stops the loop.
LEMMA LineSteps ==
    ASSUME NEW st, NEW l, NEW root, NEW revs, IsState(st)
    PROVE  LET next == VerifyLine(st, l, root, revs) IN
           /\ IsState(next)
           /\ st.fault # "none" => next = st
           /\ next.fault = "none" <=> st.fault = "none" /\ Passes(st, l, root, revs)
           /\ next.fault = "none" => next = After(st, l, "none")
           /\ st.fault = "none" /\ next.fault # "none" => next = [st EXCEPT !.fault = next.fault]
  <1> DEFINE fault == OrElse(LineFault(st, l, revs), TypeFault(st, l, root))
             next == VerifyLine(st, l, root, revs)
  <1>1. fault = "none" <=> Passes(st, l, root, revs)
    BY DEF OrElse, Passes
  <1>2. CASE st.fault # "none"
    BY <1>2 DEF VerifyLine
  <1>3. CASE st.fault = "none" /\ fault = "none"
    <2>1. next = After(st, l, "none")
      BY <1>3 DEF VerifyLine
    <2>2. IsState(next) /\ next.fault = "none"
      BY <2>1 DEF After, IsState
    <2> QED BY <1>1, <1>3, <2>1, <2>2
  <1>4. CASE st.fault = "none" /\ fault # "none"
    <2>1. next = [st EXCEPT !.fault = fault]
      BY <1>4 DEF VerifyLine, After
    <2> HIDE DEF fault, next
    <2>2. IsState(next) /\ next.fault = fault
      BY <2>1 DEF IsState
    <2> QED BY <1>1, <1>4, <2>1, <2>2 DEF next
  <1> QED BY <1>2, <1>3, <1>4

\* P holds what a pass over log remembers after each number of lines.
IsPass(P, log, known, root, revs) ==
    /\ P[0] = Start(known)
    /\ \A n \in 0..Len(log) : IsState(P[n])
    /\ \A n \in 0..(Len(log) - 1) :
         /\ P[n + 1].fault = "none"
              <=> P[n].fault = "none" /\ Passes(P[n], log[n + 1], root, revs)
         /\ P[n + 1].fault = "none" => P[n + 1] = After(P[n], log[n + 1], "none")
         /\ P[n].fault = "none" /\ P[n + 1].fault # "none" =>
               P[n + 1] = [P[n] EXCEPT !.fault = P[n + 1].fault]
         /\ P[n].fault # "none" => P[n + 1] = P[n]

\* The loop is such a pass.
LEMMA PassIsPass ==
    ASSUME NEW log, NEW known, NEW root, NEW revs, Len(log) \in Nat
    PROVE  IsPass(Pass(log, known, root, revs), log, known, root, revs)
  <1> DEFINE P == Pass(log, known, root, revs)
  <1>1. P[0] = Start(known) /\ IsState(P[0])
    BY PassDefined DEF Start, IsState
  <1>2. \A n \in 1..Len(log) : P[n] = VerifyLine(P[n - 1], log[n], root, revs)
    BY PassDefined
  <1> HIDE DEF P
  <1>3. ASSUME NEW n \in Nat, n < Len(log)
        PROVE  P[n + 1] = VerifyLine(P[n], log[n + 1], root, revs)
    <2>1. n + 1 \in 1..Len(log) /\ (n + 1) - 1 = n
      BY <1>3
    <2> QED BY <1>2, <2>1
  <1> DEFINE S == {n \in Nat : n <= Len(log) => IsState(P[n])}
  <1>4. \A n \in Nat : n \in S
    <2>1. 0 \in S
      BY <1>1
    <2>2. ASSUME NEW n \in Nat, n \in S PROVE n + 1 \in S
      <3> SUFFICES ASSUME n + 1 <= Len(log) PROVE IsState(P[n + 1])
        OBVIOUS
      <3>1. n < Len(log)
        OBVIOUS
      <3>2. IsState(P[n])
        BY <2>2
      <3> QED BY <1>3, <3>1, <3>2, LineSteps
    <2> HIDE DEF S
    <2> QED BY <2>1, <2>2, Induction
  <1>5. \A n \in 0..Len(log) : IsState(P[n])
    BY <1>4
  <1>6. ASSUME NEW n \in 0..(Len(log) - 1)
        PROVE /\ P[n + 1].fault = "none"
                   <=> P[n].fault = "none" /\ Passes(P[n], log[n + 1], root, revs)
              /\ P[n + 1].fault = "none" => P[n + 1] = After(P[n], log[n + 1], "none")
              /\ P[n].fault = "none" /\ P[n + 1].fault # "none" =>
                    P[n + 1] = [P[n] EXCEPT !.fault = P[n + 1].fault]
              /\ P[n].fault # "none" => P[n + 1] = P[n]
    <2>1. IsState(P[n]) /\ n \in Nat /\ n < Len(log)
      BY <1>5
    <2>2. P[n + 1] = VerifyLine(P[n], log[n + 1], root, revs)
      BY <1>3, <2>1
    <2> QED BY <2>1, <2>2, LineSteps
  <1>7. IsPass(P, log, known, root, revs)
    BY <1>1, <1>5, <1>6 DEF IsPass
  <1> QED BY <1>7 DEF P

SoundUpTo(P, n) == \A i \in 0..n : P[i].fault = "none"

\* A log that is sound up to a line is sound before it.
LEMMA SoundBefore ==
    ASSUME NEW log, NEW known, NEW root, NEW revs, Len(log) \in Nat,
           NEW P, IsPass(P, log, known, root, revs)
    PROVE  \A n \in 0..Len(log) : P[n].fault = "none" => SoundUpTo(P, n)
  <1> SUFFICES ASSUME NEW n \in 0..Len(log), P[n].fault = "none"
               PROVE  \A i \in 0..n : P[i].fault = "none"
    BY DEF SoundUpTo
  <1> DEFINE S == {k \in Nat : k <= n => P[n - k].fault = "none"}
  <1>1. 0 \in S
    OBVIOUS
  <1>2. ASSUME NEW k \in Nat, k \in S PROVE k + 1 \in S
    <2> SUFFICES ASSUME k + 1 <= n PROVE P[n - (k + 1)].fault = "none"
      OBVIOUS
    <2>1. P[n - k].fault = "none"
      BY <1>2
    <2>2. n - (k + 1) \in 0..(Len(log) - 1) /\ (n - (k + 1)) + 1 = n - k
      OBVIOUS
    <2> QED BY <2>1, <2>2 DEF IsPass
  <1>3. \A k \in Nat : k \in S
    <2> HIDE DEF S
    <2> QED BY <1>1, <1>2, Induction
  <1>4. ASSUME NEW i \in 0..n PROVE P[i].fault = "none"
    <2>1. n - i \in Nat /\ n - (n - i) = i /\ n - i <= n
      OBVIOUS
    <2> QED BY <1>3, <2>1
  <1> QED BY <1>4

\* What is remembered of the lines themselves.
Remembers(st, log, n) ==
    /\ st.n = n
    /\ st.leaves = [i \in 1..n |-> log[i].id]
    /\ n > 0 => st.lastTS = log[n].r.ts
    /\ n > 0 => st.signer = IF log[n].r.type = "key_rotation" THEN log[n].r.to ELSE log[n].kid

\* The loop counts the lines, keeps their digests, and knows who signs next.
LEMMA PassRemembers ==
    ASSUME NEW log, NEW known, NEW root, NEW revs, Len(log) \in Nat,
           NEW P, IsPass(P, log, known, root, revs)
    PROVE  \A n \in 0..Len(log) : P[n].fault = "none" => Remembers(P[n], log, n)
  <1> DEFINE S == {n \in Nat : n <= Len(log) => (P[n].fault = "none" => Remembers(P[n], log, n))}
  <1>1. 0 \in S
    <2>1. P[0] = Start(known)
      BY DEF IsPass
    <2>2. <<>> = [i \in 1..0 |-> log[i].id]
      OBVIOUS
    <2> QED BY <2>1, <2>2 DEF Start, Remembers
  <1>2. ASSUME NEW n \in Nat, n \in S PROVE n + 1 \in S
    <2> SUFFICES ASSUME n + 1 <= Len(log), P[n + 1].fault = "none"
                 PROVE  Remembers(P[n + 1], log, n + 1)
      OBVIOUS
    <2>1. n \in 0..(Len(log) - 1)
      OBVIOUS
    <2>2. P[n].fault = "none" /\ P[n + 1] = After(P[n], log[n + 1], "none")
      BY <2>1 DEF IsPass
    <2>3. Remembers(P[n], log, n)
      BY <1>2, <2>2
    <2>4. Append([i \in 1..n |-> log[i].id], log[n + 1].id) = [i \in 1..(n + 1) |-> log[i].id]
      OBVIOUS
    <2>5. /\ P[n + 1].n = P[n].n + 1
          /\ P[n + 1].leaves = Append(P[n].leaves, log[n + 1].id)
          /\ P[n + 1].lastTS = log[n + 1].r.ts
          /\ P[n + 1].signer = IF log[n + 1].r.type = "key_rotation" THEN log[n + 1].r.to
                                                                     ELSE log[n + 1].kid
      BY <2>2 DEF After
    <2> QED BY <2>3, <2>4, <2>5 DEF Remembers
  <1>3. \A n \in Nat : n \in S
    <2> HIDE DEF S
    <2> QED BY <1>1, <1>2, Induction
  <1> QED BY <1>3

-----------------------------------------------------------------------------
(* What a verdict says of the lines. *)

\* A report of what was remembered after the last line.
Reports(report, st, cps) ==
    /\ report.verified <=> /\ st.fault = "none" /\ st.n # 0
                           /\ \A c \in cps : ~Differs(st, c)
    /\ report.known = st.known /\ report.receipts = st.n
    /\ report.checkpointed = Covered(cps) /\ report.unanchored = st.n - Covered(cps)

\* VerifyAll reports on the whole log.
LEMMA VerifyAllSays ==
    ASSUME NEW log, NEW known, NEW root, NEW cps, NEW revs
    PROVE  Reports(VerifyAll(log, known, root, cps, revs),
                   Pass(log, known, root, revs)[Len(log)], cps)
  <1> DEFINE st == Pass(log, known, root, revs)[Len(log)]
             report == VerifyAll(log, known, root, cps, revs)
             f == LogFault(st, cps)
  <1>1. report = Report(st, cps, f)
    BY DEF VerifyAll
  <1> HIDE DEF st, report
  <1>2. f = "none" <=> st.fault = "none" /\ st.n # 0 /\ \A c \in cps : ~Differs(st, c)
    BY DEF LogFault
  <1> HIDE DEF f
  <1>3. Report(st, cps, f).verified = (f = "none")
    BY Zenon DEF Report
  <1>4. report.verified <=> f = "none"
    BY <1>1, <1>3
  <1>5. /\ report.known = st.known /\ report.receipts = st.n
        /\ report.checkpointed = Covered(cps) /\ report.unanchored = st.n - Covered(cps)
    BY <1>1 DEF Report
  <1> QED BY <1>2, <1>4, <1>5 DEF st, report, Reports

\* The checks of LineFault in one formula.
LineSound(st, l, revs) ==
    /\ l.form # "malformed" /\ l.form # "foreign"
    /\ SignedBy(st.known, l) /\ Validate(l.seq, l.r)
    /\ l.seq = st.n
    /\ l.prev = IF st.n = 0 THEN Genesis(l.kid, l.key) ELSE st.leaves[st.n]
    /\ ~(l.r.ts < st.lastTS)
    /\ st.n > 0 => l.kid = st.signer
    /\ ~Withdrawn(revs, l.kid, st.n)

\* It names a fault exactly if one of them fails.
LEMMA LineFaultSays ==
    ASSUME NEW st, NEW l, NEW revs
    PROVE  LineFault(st, l, revs) = "none" <=> LineSound(st, l, revs)
  BY DEF LineFault, LineSound, SignedBy

\* Every key is the one of its id.
KeysGenuine(known) == DOMAIN known \subseteq Kid /\ \A k \in DOMAIN known : known[k] = k

\* The root certified no other key in this log.
CertsGenuine(log) ==
    \A i \in 1..Len(log) :
        (log[i].r.type = "key_rotation" /\ log[i].r.cert.root) =>
            log[i].r.cert.key = log[i].r.cert.kid /\ log[i].r.cert.kid \in Kid

\* What is known after a line that passes.
LEMMA LineKeys ==
    ASSUME NEW st, NEW l, NEW root, TypeFault(st, l, root) = "none"
    PROVE  /\ l.r.type # "key_rotation" => After(st, l, "none").known = st.known
           /\ l.r.type = "key_rotation" =>
                /\ root /\ l.r.from = l.kid /\ l.r.cert.root
                /\ l.r.cert.kid = l.r.to /\ l.r.cert.key = l.r.key
                /\ l.r.to \in DOMAIN st.known => st.known[l.r.to] = l.r.cert.key
                /\ After(st, l, "none").known = Learn(st.known, l.r)
  <1>1. l.r.type # "key_rotation" => After(st, l, "none").known = st.known
    BY DEF After
  <1>2. ASSUME l.r.type = "key_rotation"
        PROVE  /\ root /\ l.r.from = l.kid /\ l.r.cert.root
               /\ l.r.cert.kid = l.r.to /\ l.r.cert.key = l.r.key
               /\ l.r.to \in DOMAIN st.known => st.known[l.r.to] = l.r.cert.key
    <2>1. RotationFault(st, l, root) = "none"
      BY <1>2 DEF TypeFault
    <2>2. l.r.from = l.kid /\ Accept(st.known, root, l.r, l.r.ts)
      BY <2>1 DEF RotationFault
    <2> QED BY <2>2 DEF Accept, VerifyKeyEpoch
  <1>3. l.r.type = "key_rotation" => After(st, l, "none").known = Learn(st.known, l.r)
    BY DEF After
  <1> QED BY <1>1, <1>2, <1>3

\* The verifier learns genuine keys only.
LEMMA PassKeys ==
    ASSUME NEW log, NEW known, NEW root, NEW revs, Len(log) \in Nat,
           NEW P, IsPass(P, log, known, root, revs), KeysGenuine(known), CertsGenuine(log)
    PROVE  \A n \in 0..Len(log) : KeysGenuine(P[n].known)
  <1> DEFINE S == {n \in Nat : n <= Len(log) => KeysGenuine(P[n].known)}
  <1>1. 0 \in S
    BY DEF IsPass, Start
  <1>2. ASSUME NEW n \in Nat, n \in S PROVE n + 1 \in S
    <2> SUFFICES ASSUME n + 1 <= Len(log) PROVE KeysGenuine(P[n + 1].known)
      OBVIOUS
    <2> DEFINE l == log[n + 1]
               st == P[n]
    <2>1. n \in 0..(Len(log) - 1) /\ n \in 0..Len(log) /\ n + 1 \in 1..Len(log)
      OBVIOUS
    <2>2. KeysGenuine(st.known)
      BY <1>2
    <2>3. CASE P[n + 1].fault # "none"
      <3>1. P[n + 1] = st \/ P[n + 1] = [st EXCEPT !.fault = P[n + 1].fault]
        BY <2>1, <2>3 DEF IsPass
      <3>2. IsState(st)
        BY <2>1 DEF IsPass
      <3> DEFINE next == P[n + 1]
      <3> HIDE DEF st, next
      <3>3. next.known = st.known
        <4>1. CASE next = st
          BY <4>1
        <4>2. CASE next = [st EXCEPT !.fault = next.fault]
          <5> DEFINE f == next.fault
          <5> HIDE DEF f
          <5>1. next = [st EXCEPT !.fault = f]
            BY <4>2 DEF f
          <5> QED BY <3>2, <5>1 DEF IsState
        <4> QED BY <3>1, <4>1, <4>2 DEF next
      <3> QED BY <2>2, <3>3 DEF next
    <2>4. CASE P[n + 1].fault = "none"
      <3>1. P[n + 1] = After(st, l, "none") /\ TypeFault(st, l, root) = "none"
        BY <2>1, <2>4 DEF IsPass, Passes
      <3>4. (l.r.type = "key_rotation" /\ l.r.cert.root) =>
               l.r.cert.key = l.r.cert.kid /\ l.r.cert.kid \in Kid
        BY <2>1 DEF CertsGenuine
      <3> DEFINE next == P[n + 1]
      <3>5. next = After(st, l, "none")
        BY <3>1
      <3> HIDE DEF st, l, next
      <3>2. CASE l.r.type # "key_rotation"
        <4>1. After(st, l, "none").known = st.known
          BY <3>1, <3>2, LineKeys
        <4> QED BY <2>2, <3>5, <4>1 DEF next
      <3>3. CASE l.r.type = "key_rotation"
        <4>1. /\ l.r.cert.root /\ l.r.cert.kid = l.r.to
              /\ After(st, l, "none").known = Learn(st.known, l.r)
          BY <3>1, <3>3, LineKeys
        <4>2. KeysGenuine(Learn(st.known, l.r))
          BY <2>2, <3>3, <3>4, <4>1 DEF KeysGenuine, Learn
        <4> QED BY <3>5, <4>1, <4>2 DEF next
      <3> QED BY <3>2, <3>3
    <2> QED BY <2>3, <2>4
  <1>3. \A n \in Nat : n \in S
    <2> HIDE DEF S
    <2> QED BY <1>1, <1>2, Induction
  <1> QED BY <1>3

\* A line at its place in a log without a fault.
Placed(log, known, revs, n) ==
    LET l == log[n + 1] IN
    /\ l.form # "malformed" /\ l.form # "foreign" /\ SignedBy(known, l) /\ Validate(l.seq, l.r)
    /\ l.seq = n
    /\ l.prev = IF n = 0 THEN Genesis(l.kid, l.key) ELSE log[n].id
    /\ n > 0 => l.kid = IF log[n].r.type = "key_rotation" THEN log[n].r.to ELSE log[n].kid
    /\ ~Withdrawn(revs, l.kid, n)

\* Every line of a log without a fault is at its place.
LEMMA PassPlaced ==
    ASSUME NEW log, NEW known, NEW root, NEW revs, Len(log) \in Nat,
           NEW P, IsPass(P, log, known, root, revs),
           NEW m \in 0..Len(log), P[m].fault = "none", NEW n \in 0..(m - 1)
    PROVE  Placed(log, P[n].known, revs, n) /\ TypeFault(P[n], log[n + 1], root) = "none"
  <1>1. n \in 0..(Len(log) - 1) /\ n \in 0..Len(log) /\ n \in 0..m /\ n + 1 \in 0..m /\ n \in Nat
    OBVIOUS
  <1>a. \A i \in 0..m : P[i].fault = "none"
    <2>1. SoundUpTo(P, m)
      BY SoundBefore
    <2> QED BY <2>1 DEF SoundUpTo
  <1>2. P[n].fault = "none" /\ P[n + 1].fault = "none"
    BY <1>1, <1>a
  <1>3. Remembers(P[n], log, n)
    BY <1>1, <1>2, PassRemembers
  <1>4. LineFault(P[n], log[n + 1], revs) = "none" /\ TypeFault(P[n], log[n + 1], root) = "none"
    BY <1>1, <1>2 DEF IsPass, Passes
  <1>5. LineSound(P[n], log[n + 1], revs)
    BY <1>4, LineFaultSays
  <1>6. n > 0 => P[n].leaves[n] = log[n].id
    BY <1>1, <1>3 DEF Remembers
  <1> QED BY <1>1, <1>3, <1>4, <1>5, <1>6 DEF LineSound, Placed, Remembers

\* A log agrees with a checkpoint.
Agrees(log, c) ==
    /\ c.size <= Len(log)
    /\ c.root = [i \in 1..c.size |-> log[i].id]
    /\ c.size > 0 => c.head = log[c.size].id

\* It does if the checkpoint does not differ from what was remembered of it.
LEMMA PassCheckpoint ==
    ASSUME NEW log, NEW known, NEW root, NEW revs, Len(log) \in Nat,
           NEW P, IsPass(P, log, known, root, revs), P[Len(log)].fault = "none",
           NEW c, c.size \in Nat
    PROVE  ~Differs(P[Len(log)], c) => Agrees(log, c)
  <1> DEFINE st == P[Len(log)]
             ids == [i \in 1..Len(log) |-> log[i].id]
  <1>1. Len(log) \in 0..Len(log)
    OBVIOUS
  <1>2. st.n = Len(log) /\ st.leaves = ids
    <2>1. \A n \in 0..Len(log) : P[n].fault = "none" => Remembers(P[n], log, n)
      BY PassRemembers
    <2>2. Remembers(st, log, Len(log))
      BY <1>1, <2>1
    <2> HIDE DEF st
    <2> QED BY <2>2 DEF Remembers
  <1> HIDE DEF st, ids
  <1> SUFFICES ASSUME ~Differs(st, c)
               PROVE  Agrees(log, c)
    BY DEF st
  <1>3. c.size <= Len(log) /\ c.root = SubSeq(ids, 1, c.size) /\ c.head = ids[c.size]
    BY <1>2 DEF Differs
  <1>4. SubSeq(ids, 1, c.size) = [i \in 1..c.size |-> log[i].id]
    <2>1. ids \in Seq({log[i].id : i \in 1..Len(log)}) /\ Len(ids) = Len(log)
      BY DEF ids
    <2>2. \A i \in 1..c.size : ids[i] = log[i].id
      BY <1>3 DEF ids
    <2> HIDE DEF ids
    <2> DEFINE k == c.size
    <2>3. k \in Nat /\ k <= Len(ids)
      BY <1>3, <2>1
    <2> HIDE DEF k
    <2>4. SubSeq(ids, 1, k) = [i \in 1..k |-> ids[i]]
      BY <2>1, <2>3
    <2> QED BY <2>2, <2>4 DEF k
  <1>5. c.size > 0 => ids[c.size] = log[c.size].id
    BY <1>3 DEF ids
  <1> QED BY <1>3, <1>4, <1>5 DEF Agrees

-----------------------------------------------------------------------------
(* Keys that are learned first and keys that are learned on the way. *)

IsFun(f) == f = [x \in DOMAIN f |-> f[x]]

\* Whatever one table of keys says, the other one says too.
Keeps(small, big) ==
    DOMAIN small \subseteq DOMAIN big /\ \A k \in DOMAIN small : big[k] = small[k]

\* It is an order.
LEMMA KeepsOrder ==
    ASSUME NEW a, NEW b, NEW c
    PROVE  Keeps(a, a) /\ (Keeps(a, b) /\ Keeps(b, c) => Keeps(a, c))
  BY DEF Keeps

\* A fault leaves everything else as it was.
LEMMA FaultOnly ==
    ASSUME NEW st, NEW next, IsState(st), next = [st EXCEPT !.fault = next.fault]
    PROVE  next.known = st.known
  <1> DEFINE f == next.fault
  <1> HIDE DEF f
  <1>1. next = [st EXCEPT !.fault = f]
    BY DEF f
  <1> QED BY <1>1 DEF IsState

\* One more line adds to the keys.
LEMMA KnownGrows ==
    ASSUME NEW log, NEW known, NEW root, NEW revs, Len(log) \in Nat,
           NEW P, IsPass(P, log, known, root, revs), NEW n \in 0..(Len(log) - 1)
    PROVE  /\ Keeps(P[n].known, P[n + 1].known)
           /\ IsFun(P[n].known) => IsFun(P[n + 1].known)
  <1> DEFINE st == P[n]
             next == P[n + 1]
             l == log[n + 1]
  <1>1. IsState(st)
    BY DEF IsPass
  <1>2. CASE next.fault # "none"
    <2>1. next = st \/ next = [st EXCEPT !.fault = next.fault]
      BY <1>2 DEF IsPass
    <2> HIDE DEF st, next
    <2>2. next.known = st.known
      BY <1>1, <2>1, FaultOnly
    <2>3. Keeps(st.known, next.known) /\ (IsFun(st.known) => IsFun(next.known))
      BY <2>2, KeepsOrder
    <2> QED BY <2>3 DEF st, next
  <1>3. CASE next.fault = "none"
    <2>1. next = After(st, l, "none") /\ TypeFault(st, l, root) = "none"
      BY <1>3 DEF IsPass, Passes
    <2> HIDE DEF st, next, l
    <2>2. CASE l.r.type # "key_rotation"
      <3>1. After(st, l, "none").known = st.known
        BY <2>1, <2>2, LineKeys
      <3>2. Keeps(st.known, next.known) /\ (IsFun(st.known) => IsFun(next.known))
        BY <2>1, <3>1, KeepsOrder
      <3> QED BY <3>2 DEF st, next
    <2>3. CASE l.r.type = "key_rotation"
      <3>1. /\ l.r.to \in DOMAIN st.known => st.known[l.r.to] = l.r.cert.key
            /\ After(st, l, "none").known = Learn(st.known, l.r)
        BY <2>1, <2>3, LineKeys
      <3>2. next.known = Learn(st.known, l.r)
        BY <2>1, <3>1
      <3>3. Keeps(st.known, next.known) /\ IsFun(next.known)
        BY <3>1, <3>2 DEF Keeps, Learn, IsFun
      <3> QED BY <3>3 DEF st, next
    <2> QED BY <2>2, <2>3
  <1> QED BY <1>2, <1>3

\* The keys at the end have all keys from before.
LEMMA KnownKept ==
    ASSUME NEW log, NEW known, NEW root, NEW revs, Len(log) \in Nat, IsFun(known),
           NEW P, IsPass(P, log, known, root, revs)
    PROVE  /\ \A n \in 0..Len(log) : Keeps(P[n].known, P[Len(log)].known)
           /\ IsFun(P[Len(log)].known)
  <1> DEFINE last == Len(log)
             S == {k \in Nat : k <= last => Keeps(P[last - k].known, P[last].known)}
             T == {k \in Nat : k <= last => IsFun(P[k].known)}
  <1>1. 0 \in S
    BY KeepsOrder
  <1>2. ASSUME NEW k \in Nat, k \in S PROVE k + 1 \in S
    <2> SUFFICES ASSUME k + 1 <= last PROVE Keeps(P[last - (k + 1)].known, P[last].known)
      OBVIOUS
    <2> DEFINE n == last - (k + 1)
    <2>1. n \in 0..(Len(log) - 1) /\ n + 1 = last - k
      OBVIOUS
    <2>2. Keeps(P[n + 1].known, P[last].known)
      BY <1>2, <2>1
    <2> HIDE DEF n
    <2>3. Keeps(P[n].known, P[n + 1].known)
      BY <2>1, KnownGrows
    <2> HIDE DEF last
    <2>4. Keeps(P[n].known, P[last].known)
      BY <2>2, <2>3, KeepsOrder
    <2> QED BY <2>4 DEF n
  <1>3. \A k \in Nat : k \in S
    <2> HIDE DEF S
    <2> QED BY <1>1, <1>2, Induction
  <1>4. ASSUME NEW n \in 0..last PROVE Keeps(P[n].known, P[last].known)
    <2>1. last - n \in Nat /\ last - (last - n) = n /\ last - n <= last
      OBVIOUS
    <2> QED BY <1>3, <2>1
  <1>5. 0 \in T
    BY DEF IsPass, Start
  <1>6. ASSUME NEW k \in Nat, k \in T PROVE k + 1 \in T
    <2> SUFFICES ASSUME k + 1 <= last PROVE IsFun(P[k + 1].known)
      OBVIOUS
    <2>1. k \in 0..(Len(log) - 1) /\ IsFun(P[k].known)
      BY <1>6
    <2> QED BY <2>1, KnownGrows
  <1>7. \A k \in Nat : k \in T
    <2> HIDE DEF T
    <2> QED BY <1>5, <1>6, Induction
  <1>8. IsFun(P[last].known)
    BY <1>7
  <1> QED BY <1>4, <1>8

\* The same with other keys.
WithKeys(st, K) ==
    [ fault |-> st.fault, n |-> st.n, leaves |-> st.leaves, lastTS |-> st.lastTS,
      signer |-> st.signer, known |-> K, rotations |-> st.rotations, decisions |-> st.decisions ]

\* A line that passes also passes when all keys are known before.
LEMMA LineWithKeys ==
    ASSUME NEW st, NEW l, NEW root, NEW revs, Passes(st, l, root, revs),
           NEW K, IsFun(K), Keeps(st.known, K), Keeps(After(st, l, "none").known, K)
    PROVE  /\ Passes(WithKeys(st, K), l, root, revs)
           /\ After(WithKeys(st, K), l, "none") = WithKeys(After(st, l, "none"), K)
  <1> DEFINE sw == WithKeys(st, K)
             next == After(st, l, "none")
  <1>1. /\ sw.known = K /\ sw.n = st.n /\ sw.leaves = st.leaves /\ sw.lastTS = st.lastTS
        /\ sw.signer = st.signer /\ sw.decisions = st.decisions /\ sw.rotations = st.rotations
        /\ sw.fault = st.fault
    BY DEF WithKeys
  <1>2. LineFault(st, l, revs) = "none" /\ TypeFault(st, l, root) = "none"
    BY DEF Passes
  <1> HIDE DEF sw
  <1>3. LineFault(sw, l, revs) = "none"
    <2>1. LineSound(st, l, revs)
      BY <1>2, LineFaultSays
    <2>2. SignedBy(K, l)
      BY <2>1 DEF LineSound, SignedBy, Keeps
    <2>3. LineSound(sw, l, revs)
      BY <1>1, <2>1, <2>2 DEF LineSound
    <2> QED BY <2>3, LineFaultSays
  <1>4. l.r.type = "key_rotation" => K = Learn(K, l.r) /\ Accept(K, root, l.r, l.r.ts)
    <2> SUFFICES ASSUME l.r.type = "key_rotation"
                 PROVE  K = Learn(K, l.r) /\ Accept(K, root, l.r, l.r.ts)
      OBVIOUS
    <2>1. next.known = Learn(st.known, l.r)
      BY <1>2, LineKeys
    <2>2. l.r.to \in DOMAIN next.known /\ next.known[l.r.to] = l.r.cert.key
      BY <2>1 DEF Learn
    <2>3. l.r.to \in DOMAIN K /\ K[l.r.to] = l.r.cert.key
      BY <2>2 DEF Keeps
    <2>4. K = Learn(K, l.r)
      <3> DEFINE k == l.r.to  c == l.r.cert.key  D == DOMAIN K
      <3>1. D \cup {k} = D
        BY <2>3
      <3>2. Learn(K, l.r) = [x \in D |-> IF x = k THEN c ELSE K[x]]
        BY <3>1 DEF Learn
      <3>3. K = [x \in D |-> K[x]]
        BY DEF IsFun
      <3>4. [x \in D |-> IF x = k THEN c ELSE K[x]] = [x \in D |-> K[x]]
        BY <2>3
      <3> QED BY <3>2, <3>3, <3>4
    <2>5. RotationFault(st, l, root) = "none"
      BY <1>2 DEF TypeFault
    <2>6. Accept(st.known, root, l.r, l.r.ts)
      BY <2>5 DEF RotationFault
    <2> QED BY <2>3, <2>4, <2>6 DEF Accept
  <1>5. TypeFault(sw, l, root) = "none"
    <2>1. CASE l.r.type = "key_rotation"
      <3>1. RotationFault(st, l, root) = "none"
        BY <1>2, <2>1 DEF TypeFault
      <3>2. RotationFault(sw, l, root) = "none"
        BY <1>1, <1>4, <2>1, <3>1 DEF RotationFault
      <3> QED BY <2>1, <3>2 DEF TypeFault
    <2>2. CASE l.r.type # "key_rotation"
      <3>1. ApprovalFault(sw, l.r) = ApprovalFault(st, l.r) /\ ResultFault(sw, l.r) = ResultFault(st, l.r)
        BY <1>1 DEF ApprovalFault, ResultFault
      <3>2. TypeFault(sw, l, root) = TypeFault(st, l, root)
        BY <2>2, <3>1 DEF TypeFault
      <3> QED BY <1>2, <3>2
    <2> QED BY <2>1, <2>2
  <1>6. After(sw, l, "none") = WithKeys(next, K)
    <2>1. Decided(sw, l.r) = Decided(st, l.r)
      BY <1>1 DEF Decided
    <2>2. CASE l.r.type = "key_rotation"
      BY <1>1, <1>4, <2>1, <2>2 DEF After, WithKeys
    <2>3. CASE l.r.type # "key_rotation"
      BY <1>1, <2>1, <2>3 DEF After, WithKeys
    <2> QED BY <2>2, <2>3
  <1> QED BY <1>3, <1>5, <1>6 DEF Passes, sw

\* P learns the keys on its way, and Q has them from the start.
BothPasses(P, Q, log, known, root, revs) ==
    /\ IsPass(P, log, known, root, revs) /\ IsPass(Q, log, P[Len(log)].known, root, revs)
    /\ IsFun(known)

\* As long as P finds no fault they go in step.
LEMMA Lockstep ==
    ASSUME NEW log, NEW known, NEW root, NEW revs, Len(log) \in Nat,
           NEW P, NEW Q, BothPasses(P, Q, log, known, root, revs)
    PROVE  \A n \in 0..Len(log) :
              P[n].fault = "none" => Q[n] = WithKeys(P[n], P[Len(log)].known)
  <1> DEFINE K == P[Len(log)].known
             S == {n \in Nat : n <= Len(log) => (P[n].fault = "none" => Q[n] = WithKeys(P[n], K))}
  <1>1. IsPass(P, log, known, root, revs) /\ IsPass(Q, log, K, root, revs) /\ IsFun(known)
    BY DEF BothPasses
  <1>2. IsFun(K) /\ \A n \in 0..Len(log) : Keeps(P[n].known, K)
    BY <1>1, KnownKept
  <1> HIDE DEF K
  <1>3. 0 \in S
    BY <1>1 DEF IsPass, Start, WithKeys
  <1>4. ASSUME NEW n \in Nat, n \in S PROVE n + 1 \in S
    <2> SUFFICES ASSUME n + 1 <= Len(log), P[n + 1].fault = "none"
                 PROVE  Q[n + 1] = WithKeys(P[n + 1], K)
      OBVIOUS
    <2> DEFINE st == P[n]
               l == log[n + 1]
    <2>1. n \in 0..(Len(log) - 1) /\ n \in 0..Len(log) /\ n + 1 \in 0..Len(log)
      OBVIOUS
    <2>2. st.fault = "none" /\ Passes(st, l, root, revs) /\ P[n + 1] = After(st, l, "none")
      BY <1>1, <2>1 DEF IsPass
    <2>3. Q[n] = WithKeys(st, K)
      BY <1>4, <2>2
    <2>4. Keeps(st.known, K) /\ Keeps(After(st, l, "none").known, K)
      BY <1>2, <2>1, <2>2
    <2>5. Q[n].fault = "none"
      BY <2>2, <2>3 DEF WithKeys
    <2> HIDE DEF st, l
    <2>6. /\ Passes(WithKeys(st, K), l, root, revs)
          /\ After(WithKeys(st, K), l, "none") = WithKeys(After(st, l, "none"), K)
      BY <1>2, <2>2, <2>4, LineWithKeys
    <2>7. Q[n + 1] = After(Q[n], l, "none")
      <3>1. Passes(Q[n], log[n + 1], root, revs)
        BY <2>3, <2>6 DEF l
      <3> QED BY <1>1, <2>1, <2>5, <3>1 DEF IsPass, l
    <2> QED BY <2>2, <2>3, <2>6, <2>7
  <1>5. \A n \in Nat : n \in S
    <2> HIDE DEF S
    <2> QED BY <1>3, <1>4, Induction
  <1> QED BY <1>5 DEF K

\* After a fault nothing changes any more.
LEMMA FaultStays ==
    ASSUME NEW log, NEW known, NEW root, NEW revs, Len(log) \in Nat,
           NEW P, IsPass(P, log, known, root, revs)
    PROVE  \A n \in 0..Len(log) : P[n].fault # "none" => P[Len(log)] = P[n]
  <1> SUFFICES ASSUME NEW n \in 0..Len(log), P[n].fault # "none" PROVE P[Len(log)] = P[n]
    OBVIOUS
  <1> DEFINE S == {k \in Nat : n + k <= Len(log) => P[n + k] = P[n]}
  <1>1. 0 \in S
    OBVIOUS
  <1>2. ASSUME NEW k \in Nat, k \in S PROVE k + 1 \in S
    <2> SUFFICES ASSUME n + (k + 1) <= Len(log) PROVE P[n + (k + 1)] = P[n]
      OBVIOUS
    <2>1. P[n + k] = P[n] /\ n + k \in 0..(Len(log) - 1) /\ (n + k) + 1 = n + (k + 1)
      BY <1>2
    <2> QED BY <2>1 DEF IsPass
  <1>3. \A k \in Nat : k \in S
    <2> HIDE DEF S
    <2> QED BY <1>1, <1>2, Induction
  <1>4. Len(log) - n \in Nat /\ n + (Len(log) - n) = Len(log)
    OBVIOUS
  <1> QED BY <1>3, <1>4

FailsAfter(P, n) == P[n].fault = "none" /\ P[n + 1].fault # "none"

\* A log with a fault has a first one.
LEMMA FirstFault ==
    ASSUME NEW log, NEW known, NEW root, NEW revs, Len(log) \in Nat,
           NEW P, IsPass(P, log, known, root, revs), P[Len(log)].fault # "none"
    PROVE  \E n \in 0..(Len(log) - 1) : FailsAfter(P, n)
  <1> DEFINE T == {n \in 0..Len(log) : P[n].fault # "none"}
  <1>1. T # {} /\ T \subseteq Nat
    OBVIOUS
  <1>2. PICK x \in T : \A y \in T : x <= y
    <2> HIDE DEF T
    <2> QED BY <1>1, LeastNumber
  <1>3. x # 0
    BY DEF IsPass, Start
  <1>4. x - 1 \in 0..(Len(log) - 1) /\ x - 1 \in 0..Len(log) /\ (x - 1) + 1 = x /\ x - 1 \notin T
    BY <1>2, <1>3
  <1>5. FailsAfter(P, x - 1)
    BY <1>4 DEF FailsAfter
  <1> QED BY <1>4, <1>5

\* Both come to the same verdict.
LEMMA SameVerdict ==
    ASSUME NEW log, NEW known, NEW root, NEW revs, Len(log) \in Nat,
           NEW P, NEW Q, BothPasses(P, Q, log, known, root, revs)
    PROVE  P[Len(log)].fault = "none" <=> Q[Len(log)].fault = "none"
  <1> DEFINE last == Len(log)
             K == P[last].known
  <1>1. IsPass(P, log, known, root, revs) /\ IsPass(Q, log, K, root, revs) /\ IsFun(known)
    BY DEF BothPasses
  <1>2. \A n \in 0..Len(log) : P[n].fault = "none" => Q[n] = WithKeys(P[n], K)
    BY Lockstep
  <1>3. ASSUME P[last].fault = "none" PROVE Q[last].fault = "none"
    <2>1. Q[last] = WithKeys(P[last], K)
      BY <1>2, <1>3
    <2> QED BY <1>3, <2>1 DEF WithKeys
  <1>4. ASSUME P[last].fault # "none", Q[last].fault = "none" PROVE FALSE
    <2>0. PICK n \in 0..(Len(log) - 1) : FailsAfter(P, n)
      BY <1>1, <1>4, FirstFault
    <2>1. P[n].fault = "none" /\ P[n + 1].fault # "none"
      BY <2>0 DEF FailsAfter
    <2>2. n \in 0..Len(log) /\ n + 1 \in 0..Len(log)
      OBVIOUS
    <2>3. K = P[n].known
      <3>1. P[last] = P[n + 1]
        <4>1. \A m \in 0..Len(log) : P[m].fault # "none" => P[Len(log)] = P[m]
          BY <1>1, FaultStays
        <4> QED BY <2>1, <2>2, <4>1
      <3> DEFINE st == P[n]
                 next == P[n + 1]
      <3>2. next = [st EXCEPT !.fault = next.fault] /\ IsState(st)
        BY <1>1, <2>1, <2>2 DEF IsPass
      <3> HIDE DEF st, next
      <3>3. next.known = st.known
        BY <3>2, FaultOnly
      <3> QED BY <3>1, <3>3 DEF st, next
    <2>4. Q[n] = P[n]
      <3>1. Q[n] = WithKeys(P[n], P[n].known)
        BY <1>2, <2>1, <2>2, <2>3
      <3>2. IsState(P[n])
        BY <1>1, <2>2 DEF IsPass
      <3> QED BY <3>1, <3>2 DEF WithKeys, IsState
    <2>5. ~Passes(P[n], log[n + 1], root, revs)
      BY <1>1, <2>1 DEF IsPass
    <2>6. Q[n + 1].fault # "none"
      BY <1>1, <2>4, <2>5 DEF IsPass
    <2>7. Q[last] = Q[n + 1]
      <3> HIDE DEF K
      <3> QED BY <1>1, <2>2, <2>6, FaultStays
    <2> QED BY <1>4, <2>6, <2>7
  <1> QED BY <1>3, <1>4

\* Without the root no key is learned.
LEMMA FixedKeys ==
    ASSUME NEW log, NEW known, NEW revs, Len(log) \in Nat,
           NEW P, IsPass(P, log, known, FALSE, revs)
    PROVE  \A n \in 0..Len(log) : P[n].known = known
  <1> DEFINE S == {n \in Nat : n <= Len(log) => P[n].known = known}
  <1>1. 0 \in S
    BY DEF IsPass, Start
  <1>2. ASSUME NEW n \in Nat, n \in S PROVE n + 1 \in S
    <2> SUFFICES ASSUME n + 1 <= Len(log) PROVE P[n + 1].known = known
      OBVIOUS
    <2> DEFINE st == P[n]
               next == P[n + 1]
               l == log[n + 1]
    <2>1. n \in 0..(Len(log) - 1) /\ n \in 0..Len(log) /\ st.known = known
      BY <1>2
    <2>2. IsState(st)
      BY <2>1 DEF IsPass
    <2>3. \/ next = st \/ next = [st EXCEPT !.fault = next.fault]
          \/ next = After(st, l, "none") /\ TypeFault(st, l, FALSE) = "none"
      BY <2>1 DEF IsPass, Passes
    <2> HIDE DEF st, next, l
    <2>4. CASE next = After(st, l, "none") /\ TypeFault(st, l, FALSE) = "none"
      <3>1. l.r.type # "key_rotation"
        BY <2>4, LineKeys
      <3>2. After(st, l, "none").known = st.known
        BY <2>4, <3>1, LineKeys
      <3> QED BY <2>1, <2>4, <3>2 DEF next
    <2>5. CASE next = [st EXCEPT !.fault = next.fault]
      BY <2>1, <2>2, <2>5, FaultOnly DEF next
    <2> QED BY <2>1, <2>3, <2>4, <2>5 DEF next
  <1>3. \A n \in Nat : n \in S
    <2> HIDE DEF S
    <2> QED BY <1>1, <1>2, Induction
  <1> QED BY <1>3

-----------------------------------------------------------------------------
(* The feed of the console. *)

\* A receipt that the feed shows.
Shown(keys, l) == l.form # "malformed" /\ SignedBy(keys, l) /\ Validate(l.seq, l.r)

\* The first n lines, newest first.
Backwards(log, n) == [i \in 1..n |-> log[(n - i) + 1]]

\* One more line is put in front.
LEMMA BackwardsNext ==
    ASSUME NEW log, Len(log) \in Nat, NEW n \in 1..Len(log)
    PROVE  <<log[n]>> \o Backwards(log, n - 1) = Backwards(log, n)
  <1> DEFINE T == {log[i] : i \in 1..Len(log)}
             a == <<log[n]>>
             b == Backwards(log, n - 1)
             c == Backwards(log, n)
  <1>1. log[n] \in T /\ \A i \in 1..n : log[(n - i) + 1] \in T
    OBVIOUS
  <1>2. \A i \in 1..(n - 1) : log[((n - 1) - i) + 1] \in T
    OBVIOUS
  <1> HIDE DEF T
  <1>3. a \in Seq(T) /\ Len(a) = 1 /\ a[1] = log[n]
    BY <1>1
  <1>4. /\ b \in Seq(T) /\ Len(b) = n - 1
        /\ \A i \in 1..(n - 1) : b[i] = log[((n - 1) - i) + 1]
    <2>1. n - 1 \in Nat
      OBVIOUS
    <2> QED BY <1>2, <2>1 DEF Backwards
  <1>5. c \in Seq(T) /\ Len(c) = n /\ \A i \in 1..n : c[i] = log[(n - i) + 1]
    BY <1>1 DEF Backwards
  <1> HIDE DEF a, b, c
  <1>6. /\ a \o b \in Seq(T) /\ Len(a \o b) = Len(a) + Len(b)
        /\ \A j \in 1..(Len(a) + Len(b)) : (a \o b)[j] = IF j <= Len(a) THEN a[j] ELSE b[j - Len(a)]
    <2>1. a \in Seq(T) /\ b \in Seq(T)
      BY <1>3, <1>4
    <2> QED BY <2>1, ConcatProperties
  <1>7. Len(a \o b) = n
    BY <1>3, <1>4, <1>6
  <1>8. ASSUME NEW j \in 1..n PROVE (a \o b)[j] = c[j]
    <2>1. (a \o b)[j] = IF j <= Len(a) THEN a[j] ELSE b[j - Len(a)]
      BY <1>3, <1>4, <1>6
    <2>2. CASE j = 1
      BY <1>3, <1>5, <2>1, <2>2
    <2>3. CASE j > 1
      <3>1. j - 1 \in 1..(n - 1) /\ ((n - 1) - (j - 1)) + 1 = (n - j) + 1 /\ ~(j <= 1)
        BY <2>3
      <3>2. (a \o b)[j] = b[j - 1]
        BY <1>3, <2>1, <3>1
      <3>3. b[j - 1] = log[((n - 1) - (j - 1)) + 1]
        BY <1>4, <3>1
      <3>4. c[j] = log[(n - j) + 1]
        BY <1>5
      <3> QED BY <3>1, <3>2, <3>3, <3>4
    <2>4. j = 1 \/ j > 1
      OBVIOUS
    <2> QED BY <2>2, <2>3, <2>4
  <1>9. a \o b = c
    <2> DEFINE d == a \o b
    <2>1. /\ d \in Seq(T) /\ c \in Seq(T) /\ Len(d) = Len(c)
          /\ \A j \in 1..Len(d) : d[j] = c[j]
      BY <1>5, <1>6, <1>7, <1>8
    <2> HIDE DEF d
    <2>2. d = c
      BY <2>1, SeqEqual
    <2> QED BY <2>2 DEF d
  <1> QED BY <1>9 DEF a, b, c

\* A feed that shows every line is the log from its end.
LEMMA FeedAll ==
    ASSUME NEW a, Len(a.log) \in Nat,
           \A i \in 1..Len(a.log) : Shown(Follow(a), a.log[i])
    PROVE  Feed(a) = Reverse(a.log)
  <1> DEFINE log == a.log
             keys == Follow(a)
             show(n) == Shown(keys, log[n])
             Is(f) == f = [n \in 0..Len(log) |->
                             IF n = 0 THEN <<>>
                             ELSE IF show(n) THEN <<log[n]>> \o f[n - 1]
                             ELSE f[n - 1]]
             g == [n \in 0..Len(log) |-> Backwards(log, n)]
  <1>1. Feed(a) = (CHOOSE f : Is(f))[Len(log)]
    BY DEF Feed, Shown
  <1>2. \A n \in 1..Len(log) : show(n)
    OBVIOUS
  <1>3. Backwards(log, 0) = <<>>
    BY DEF Backwards
  <1>4. \A n \in 1..Len(log) : <<log[n]>> \o Backwards(log, n - 1) = Backwards(log, n)
    BY BackwardsNext
  <1>5. Reverse(log) = Backwards(log, Len(log))
    BY DEF Reverse, Backwards
  <1>a. Len(log) \in Nat
    OBVIOUS
  <1> HIDE DEF log, keys, show
  <1>6. Is(g)
    <2>1. ASSUME NEW n \in 0..Len(log)
          PROVE  g[n] = IF n = 0 THEN <<>>
                        ELSE IF show(n) THEN <<log[n]>> \o g[n - 1]
                        ELSE g[n - 1]
      <3>1. CASE n = 0
        BY <1>3, <3>1
      <3>2. CASE n # 0
        <4>1. n \in 1..Len(log) /\ n - 1 \in 0..Len(log)
          BY <1>a, <3>2
        <4> QED BY <1>2, <1>4, <3>2, <4>1
      <3> QED BY <3>1, <3>2
    <2> QED BY <2>1
  <1> DEFINE feed == CHOOSE f : Is(f)
  <1>7. Is(feed)
    <2> HIDE DEF Is, g
    <2> QED BY <1>6
  <1> HIDE DEF feed
  <1> DEFINE S == {n \in Nat : n <= Len(log) => feed[n] = Backwards(log, n)}
  <1>8. 0 \in S
    BY <1>3, <1>7, <1>a
  <1>9. ASSUME NEW n \in Nat, n \in S PROVE n + 1 \in S
    <2> SUFFICES ASSUME n + 1 <= Len(log) PROVE feed[n + 1] = Backwards(log, n + 1)
      OBVIOUS
    <2>1. n + 1 \in 1..Len(log) /\ (n + 1) - 1 = n /\ n + 1 \in 0..Len(log) /\ n + 1 # 0
      BY <1>a
    <2>2. feed[n + 1] = <<log[n + 1]>> \o feed[(n + 1) - 1]
      BY <1>2, <1>7, <2>1
    <2>3. feed[n] = Backwards(log, n)
      BY <1>9, <1>a
    <2>4. <<log[n + 1]>> \o Backwards(log, (n + 1) - 1) = Backwards(log, n + 1)
      BY <1>4, <2>1
    <2> QED BY <2>1, <2>2, <2>3, <2>4
  <1>10. \A n \in Nat : n \in S
    <2> HIDE DEF S
    <2> QED BY <1>8, <1>9, Induction
  <1>11. feed[Len(log)] = Backwards(log, Len(log))
    BY <1>10, <1>a
  <1> QED BY <1>1, <1>5, <1>11 DEF feed, log

-----------------------------------------------------------------------------
(* What warden-verify reports. *)

\* It reports on the last pass, if no stage before it fails.
LEMMA RunSays ==
    ASSUME NEW a
    PROVE  LET read == StoreRead(a)
               first == FirstPass(a)
               last == LastPass(a, read, first)
               good == Stage(a, read, first) = "none" /\ last.verified
           IN /\ Run(a).verified <=> good
              /\ good => /\ Run(a).checkpointed = last.checkpointed
                         /\ Run(a).unanchored = last.unanchored
  <1> DEFINE read == StoreRead(a)
             first == FirstPass(a)
             last == LastPass(a, read, first)
             stage == Stage(a, read, first)
  <1>1. Run(a) = IF stage # "none" THEN Refused(stage) ELSE Outcome(a, read, last)
    BY DEF Run
  <1> HIDE DEF read, first, last, stage
  <1>2. \A s : ~Refused(s).verified
    <2>1. \A s : Refused(s).verified = FALSE
      BY DEF Refused
    <2> QED BY <2>1
  <1>3. CASE stage # "none"
    BY <1>1, <1>2, <1>3 DEF read, first, last, stage
  <1>4. CASE stage = "none" /\ ~last.verified
    <2>1. Run(a) = Refused("log")
      BY <1>1, <1>4 DEF Outcome
    <2> QED BY <1>2, <1>4, <2>1 DEF read, first, last, stage
  <1>5. CASE stage = "none" /\ last.verified
    <2> DEFINE out == Outcome(a, read, last)
    <2>1. /\ out.verified = TRUE
          /\ out.checkpointed = last.checkpointed /\ out.unanchored = last.unanchored
      BY <1>5 DEF Outcome
    <2>2. Run(a) = out
      BY <1>1, <1>5
    <2> HIDE DEF out
    <2> QED BY <1>5, <2>1, <2>2 DEF read, first, last, stage
  <1> QED BY <1>3, <1>4, <1>5

\* Without the object store the anchor file has all checkpoints.
LEMMA FileCheckpoints ==
    ASSUME NEW a, a.useStore = FALSE
    PROVE  Checkpoints(a, StoreRead(a)) = Range(File(a))
  <1>1. StoreRead(a) = [fault |-> "none", found |-> <<>>]
    BY DEF StoreRead
  <1>2. Lines(<<>>) = <<>>
    BY DEF Lines
  <1>3. Range(Lines(StoreRead(a).found)) = {}
    BY <1>1, <1>2 DEF Range
  <1> QED BY <1>3 DEF Checkpoints, Merge

\* The stages before the last pass, without the object store.
LEMMA PlainStages ==
    ASSUME NEW a, a.useStore = FALSE, a.useTokens = FALSE
    PROVE  Stage(a, StoreRead(a), FirstPass(a)) = "none" <=>
             /\ ~RevocationUsage(a)
             /\ a.root /\ Anchored(a) => FirstPass(a).verified
             /\ a.useFile => a.exists
             /\ ReadVerified(File(a), Keys(a, FirstPass(a)))
             /\ RevocationsSigned(Revocations(a)) /\ Matched(Revocations(a), Range(File(a)))
  <1> DEFINE first == FirstPass(a)
             read == StoreRead(a)
  <1>1. Checkpoints(a, read) = Range(File(a))
    BY FileCheckpoints
  <1>2. ~TokenUsage(a)
    BY DEF TokenUsage
  <1> HIDE DEF first, read
  <1>3. Stage(a, read, first) = "none" <=>
             /\ ~RevocationUsage(a)
             /\ a.root /\ Anchored(a) => first.verified
             /\ a.useFile => a.exists
             /\ ReadVerified(File(a), Keys(a, first))
             /\ RevocationsSigned(Revocations(a)) /\ Matched(Revocations(a), Range(File(a)))
    BY <1>1, <1>2 DEF Stage
  <1> QED BY <1>3 DEF first, read

\* A log is verified if it is not empty and has no fault.
LEMMA VerifiedSays ==
    ASSUME NEW log, NEW known, NEW root, NEW cps, NEW revs, Len(log) \in Nat,
           NEW P, P = Pass(log, known, root, revs)
    PROVE  VerifyAll(log, known, root, cps, revs).verified <=>
             /\ P[Len(log)].fault = "none" /\ Len(log) # 0
             /\ \A c \in cps : ~Differs(P[Len(log)], c)
  <1> DEFINE last == P[Len(log)]
             report == VerifyAll(log, known, root, cps, revs)
  <1>1. Reports(report, last, cps)
    BY VerifyAllSays
  <1>2. IsPass(P, log, known, root, revs)
    BY PassIsPass
  <1>3. last.fault = "none" => last.n = Len(log)
    <2>1. \A n \in 0..Len(log) : P[n].fault = "none" => Remembers(P[n], log, n)
      BY <1>2, PassRemembers
    <2>2. last.fault = "none" => Remembers(last, log, Len(log))
      BY <2>1
    <2> HIDE DEF last
    <2> QED BY <2>2 DEF Remembers
  <1> HIDE DEF last, report
  <1>4. report.verified <=> /\ last.fault = "none" /\ Len(log) # 0
                            /\ \A c \in cps : ~Differs(last, c)
    BY <1>1, <1>3 DEF Reports
  <1> QED BY <1>4 DEF last, report

\* The console says what warden-verify says, if the anchor file is there.
LEMMA ConsoleSays ==
    ASSUME NEW a, Len(a.log) \in Nat, IsFun(a.trusted), a.root \in BOOLEAN, a.useFile \in BOOLEAN,
           a.useFile => a.exists,
           a.useStore = FALSE, a.useTokens = FALSE, a.useRevs = FALSE
    PROVE  /\ ConsoleVerify(a) <=> Run(a).verified
           /\ ConsoleVerify(a) => \A i \in 1..Len(a.log) : Shown(Follow(a), a.log[i])
  <1> DEFINE log == a.log
             cps == Range(File(a))
             first == FirstPass(a)
             F == Pass(log, a.trusted, TRUE, {})
             K == F[Len(log)].known
             Q == Pass(log, K, TRUE, {})
             last == LastPass(a, StoreRead(a), first)
  <1>1. first.known = K
    <2>1. first = VerifyAll(log, a.trusted, TRUE, {}, {})
      BY DEF FirstPass
    <2>2. Reports(VerifyAll(log, a.trusted, TRUE, {}, {}), F[Len(log)], {})
      BY VerifyAllSays
    <2> QED BY <2>1, <2>2 DEF Reports
  <1>2. IsPass(F, log, a.trusted, TRUE, {}) /\ IsPass(Q, log, K, TRUE, {})
    BY PassIsPass
  <1>3. first.verified <=> F[Len(log)].fault = "none" /\ Len(log) # 0
    <2>1. first = VerifyAll(log, a.trusted, TRUE, {}, {})
      BY DEF FirstPass
    <2>2. \A C : VerifyAll(log, a.trusted, TRUE, C, {}).verified <=>
                   /\ F[Len(log)].fault = "none" /\ Len(log) # 0
                   /\ \A c \in C : ~Differs(F[Len(log)], c)
      BY VerifiedSays
    <2> HIDE DEF first, log, F
    <2> QED BY <2>1, <2>2
  <1>4. F[Len(log)].fault = "none" <=> Q[Len(log)].fault = "none"
    <2> HIDE DEF F, Q
    <2> DEFINE t == a.trusted
               yes == TRUE
    <2>1. BothPasses(F, Q, log, t, yes, {}) /\ Len(log) \in Nat
      BY <1>2 DEF BothPasses
    <2> HIDE DEF log, t, yes
    <2> QED BY <2>1, SameVerdict
  <1>5. \A C : VerifyAll(log, K, TRUE, C, {}).verified <=>
                 /\ Q[Len(log)].fault = "none" /\ Len(log) # 0
                 /\ \A c \in C : ~Differs(Q[Len(log)], c)
    <2> HIDE DEF K
    <2> QED BY VerifiedSays
  <1>6. Revocations(a) = {} /\ OfChain({}) = {} /\ ~RevocationUsage(a)
    BY DEF Revocations, OfChain, RevocationUsage
  <1>7. RevocationsSigned(Revocations(a)) /\ Matched(Revocations(a), cps)
    BY <1>6 DEF RevocationsSigned, Matched, OfChain
  <1>8. Run(a).verified <=>
          /\ a.root /\ Anchored(a) => first.verified
          /\ ReadVerified(File(a), Keys(a, first)) /\ last.verified
    BY <1>6, <1>7, RunSays, PlainStages
  <1>9. last = VerifyAll(log, Keys(a, first), a.root, cps, {})
    BY <1>6, FileCheckpoints DEF LastPass
  <1>10. ConsoleVerify(a) <=>
           ReadVerified(File(a), Follow(a)) /\ VerifyAll(log, Follow(a), a.root, cps, {}).verified
    BY DEF ConsoleVerify
  <1> HIDE DEF log, first, F, K, Q, last
  <1>11. Anchored(a) <=> a.useFile
    BY DEF Anchored
  <1>12. Run(a).verified <=> ConsoleVerify(a)
    <2>1. CASE ~a.root
      <3>1. Keys(a, first) = a.trusted /\ Follow(a) = a.trusted
        BY <2>1 DEF Keys, Follow
      <3> QED BY <1>8, <1>9, <1>10, <2>1, <3>1
    <2>2. CASE a.root /\ a.useFile
      <3>1. Keys(a, first) = K /\ Follow(a) = K /\ a.root = TRUE
        BY <1>1, <1>11, <2>2 DEF Keys, Follow, first
      <3>2. last.verified => first.verified
        BY <1>3, <1>4, <1>5, <1>9, <3>1
      <3> QED BY <1>8, <1>9, <1>10, <1>11, <2>2, <3>1, <3>2
    <2>3. CASE a.root /\ ~a.useFile
      <3>1. Keys(a, first) = a.trusted /\ Follow(a) = K /\ a.root = TRUE
        BY <1>1, <1>11, <2>3 DEF Keys, Follow, first
      <3>2. File(a) = <<>>
        BY <2>3 DEF File
      <3>3. cps = {} /\ \A k : ReadVerified(File(a), k)
        BY <3>2 DEF Range, ReadVerified
      <3>4. last = first
        BY <1>9, <3>1, <3>3 DEF first, FirstPass, log
      <3>5. VerifyAll(log, K, TRUE, {}, {}).verified <=> first.verified
        BY <1>3, <1>4, <1>5
      <3> HIDE DEF cps
      <3> QED BY <1>8, <1>10, <1>11, <2>3, <3>1, <3>3, <3>4, <3>5
    <2> QED BY <2>1, <2>2, <2>3
  <1>13. ASSUME ConsoleVerify(a) PROVE \A i \in 1..Len(log) : Shown(Follow(a), log[i])
    <2> DEFINE keys == Follow(a)
               P == Pass(log, keys, a.root, {})
    <2>0. Len(log) \in Nat
      BY DEF log
    <2>1. P[Len(log)].fault = "none"
      <3>1. VerifyAll(log, keys, a.root, cps, {}).verified
        BY <1>10, <1>13
      <3> HIDE DEF keys, cps
      <3> QED BY <2>0, <3>1, VerifiedSays
    <2>2. IsPass(P, log, keys, a.root, {})
      BY <2>0, PassIsPass
    <2>3. \A n \in 0..Len(log) : P[n].known = keys
      <3>1. CASE a.root = FALSE
        <4>1. IsPass(P, log, keys, FALSE, {})
          BY <2>2, <3>1
        <4> HIDE DEF P, keys
        <4> QED BY <2>0, <4>1, FixedKeys
      <3>2. CASE a.root = TRUE
        <4>1. keys = K /\ P = Q
          BY <1>1, <3>2 DEF Follow, Q, first
        <4> DEFINE t == a.trusted
                   yes == TRUE
        <4>2. BothPasses(F, Q, log, t, yes, {})
          BY <1>2 DEF BothPasses, K
        <4>3. F[Len(log)].fault = "none"
          BY <1>4, <2>1, <4>1
        <4> HIDE DEF t, P, keys, yes
        <4>4. IsPass(F, log, t, yes, {})
          BY <4>2 DEF BothPasses
        <4>5. SoundUpTo(F, Len(log))
          <5>1. \A n \in 0..Len(log) : F[n].fault = "none" => SoundUpTo(F, n)
            BY <2>0, <4>4, SoundBefore
          <5> QED BY <2>0, <4>3, <5>1
        <4>6. \A n \in 0..Len(log) : F[n].fault = "none" => Q[n] = WithKeys(F[n], F[Len(log)].known)
          BY <2>0, <4>2, Lockstep
        <4>7. ASSUME NEW n \in 0..Len(log) PROVE P[n].known = keys
          <5>1. Q[n] = WithKeys(F[n], K)
            BY <4>5, <4>6 DEF SoundUpTo, K
          <5> QED BY <4>1, <5>1 DEF WithKeys
        <4> QED BY <4>7
      <3> QED BY <3>1, <3>2
    <2>4. ASSUME NEW i \in 1..Len(log) PROVE Shown(keys, log[i])
      <3> DEFINE n == i - 1
                 m == Len(log)
      <3>1. n \in 0..(m - 1) /\ n \in 0..Len(log) /\ n + 1 = i /\ m \in 0..Len(log)
        BY <2>0
      <3>2. P[m].fault = "none"
        BY <2>1
      <3> HIDE DEF n, m, P, keys
      <3>3. Placed(log, P[n].known, {}, n)
        BY <2>0, <2>2, <3>1, <3>2, PassPlaced
      <3>4. Placed(log, keys, {}, n)
        BY <2>3, <3>1, <3>3
      <3> QED BY <3>1, <3>4 DEF Placed, Shown
    <2> QED BY <2>4
  <1> QED BY <1>12, <1>13 DEF log

-----------------------------------------------------------------------------
(* Logs that begin with the same lines. *)

\* The revocations concern none of the first m lines of a log.
Spares(revs, log, m) == \A i \in 1..m : ~Withdrawn(revs, log[i].kid, i - 1)

AlikeUpTo(a, b, m) == \A i \in 1..m : a[i] = b[i]

\* P passes over the first m lines without a fault, and Q over the same lines.
Along(P, lgP, rsP, Q, lgQ, rsQ, known, root, m) ==
    /\ Len(lgP) \in Nat /\ IsPass(P, lgP, known, root, rsP)
    /\ Len(lgQ) \in Nat /\ IsPass(Q, lgQ, known, root, rsQ)
    /\ m \in Nat /\ m <= Len(lgP) /\ m <= Len(lgQ) /\ SoundUpTo(P, m)
    /\ AlikeUpTo(lgQ, lgP, m) /\ Spares(rsQ, lgP, m)

\* The same lines lead to the same state, whatever comes after them and whatever
\* revocations there are, if none is about them.
LEMMA SamePass ==
    ASSUME NEW P, NEW lgP, NEW rsP, NEW Q, NEW lgQ, NEW rsQ, NEW known, NEW root, NEW m,
           Along(P, lgP, rsP, Q, lgQ, rsQ, known, root, m)
    PROVE  \A n \in 0..m : Q[n] = P[n]
  <1> USE DEF Along
  <1> DEFINE S == {n \in Nat : n <= m => Q[n] = P[n]}
  <1>1. 0 \in S
    BY DEF IsPass
  <1>2. ASSUME NEW n \in Nat, n \in S PROVE n + 1 \in S
    <2> SUFFICES ASSUME n + 1 <= m PROVE Q[n + 1] = P[n + 1]
      OBVIOUS
    <2> DEFINE st == P[n]
               l == lgP[n + 1]
    <2>1. /\ n \in 0..(Len(lgP) - 1) /\ n \in 0..(Len(lgQ) - 1) /\ n \in 0..m /\ n + 1 \in 0..m
          /\ n + 1 \in 1..m /\ (n + 1) - 1 = n /\ n \in 0..Len(lgP)
      OBVIOUS
    <2>2. st.fault = "none" /\ P[n + 1].fault = "none"
      BY <2>1 DEF SoundUpTo
    <2>3. Passes(st, l, root, rsP) /\ P[n + 1] = After(st, l, "none")
      BY <2>1, <2>2 DEF IsPass
    <2>4. Remembers(st, lgP, n)
      <3>1. \A k \in 0..Len(lgP) : P[k].fault = "none" => Remembers(P[k], lgP, k)
        BY PassRemembers
      <3> QED BY <2>1, <2>2, <3>1
    <2>5. lgQ[n + 1] = l /\ ~Withdrawn(rsQ, l.kid, n) /\ Q[n] = st
      BY <1>2, <2>1 DEF AlikeUpTo, Spares
    <2> HIDE DEF st, l
    <2>6. Passes(st, l, root, rsQ)
      <3>1. LineSound(st, l, rsP) /\ TypeFault(st, l, root) = "none"
        BY <2>3, LineFaultSays DEF Passes
      <3>2. st.n = n
        BY <2>4 DEF Remembers
      <3>3. LineSound(st, l, rsQ)
        BY <2>5, <3>1, <3>2 DEF LineSound
      <3> QED BY <3>1, <3>3, LineFaultSays DEF Passes
    <2>7. Q[n + 1] = After(st, l, "none")
      <3>1. Q[n].fault = "none" /\ Passes(Q[n], lgQ[n + 1], root, rsQ)
        BY <2>2, <2>5, <2>6
      <3>2. Q[n + 1] = After(Q[n], lgQ[n + 1], "none")
        BY <2>1, <3>1 DEF IsPass
      <3> QED BY <2>5, <3>2
    <2> QED BY <2>3, <2>7
  <1>3. \A n \in Nat : n \in S
    <2> HIDE DEF S
    <2> QED BY <1>1, <1>2, Induction
  <1> QED BY <1>3

\* A checkpoint that a log agrees with does not differ from what is remembered.
LEMMA AgreesSame ==
    ASSUME NEW log, Len(log) \in Nat, NEW st, Remembers(st, log, Len(log)),
           NEW c, c.size \in Nat, c.size > 0, Agrees(log, c)
    PROVE  ~Differs(st, c)
  <1> DEFINE k == c.size
             ids == [i \in 1..Len(log) |-> log[i].id]
  <1>1. st.n = Len(log) /\ st.leaves = ids
    BY DEF Remembers
  <1>2. k <= Len(log) /\ c.root = [i \in 1..k |-> log[i].id] /\ c.head = log[k].id
    BY DEF Agrees
  <1>3. ids \in Seq({log[i].id : i \in 1..Len(log)}) /\ Len(ids) = Len(log)
    OBVIOUS
  <1>4. \A i \in 1..Len(log) : ids[i] = log[i].id
    OBVIOUS
  <1>5. k \in Nat /\ k > 0
    OBVIOUS
  <1> HIDE DEF k, ids
  <1>6. SubSeq(ids, 1, k) = [i \in 1..k |-> log[i].id]
    <2>1. SubSeq(ids, 1, k) = [i \in 1..k |-> ids[i]]
      BY <1>2, <1>3, <1>5
    <2>2. \A i \in 1..k : ids[i] = log[i].id
      BY <1>2, <1>4, <1>5
    <2> QED BY <2>1, <2>2
  <1>7. ids[k] = log[k].id /\ ~(k > Len(log))
    BY <1>2, <1>4, <1>5
  <1> QED BY <1>1, <1>2, <1>6, <1>7 DEF Differs, k

\* An anchor file without checkpoints and a file without revocations change
\* nothing: with a root, a log is read for its keys once more and no more.
LEMMA EmptyFilesSame ==
    ASSUME NEW a, NEW b, Len(a.log) \in Nat, IsFun(a.trusted), a.root = TRUE,
           a.useTokens = FALSE, a.useStore \in BOOLEAN, a.useFile <=> a.exists,
           ~a.useFile => a.file = <<>>, ~a.useRevs => a.revs = {}, a.useRevs => a.useFile,
           b.log = a.log, b.trusted = a.trusted, b.root = TRUE, b.file = a.file,
           b.useStore = a.useStore, b.objects = a.objects, b.now = a.now, b.revs = a.revs,
           b.useTokens = FALSE, b.useFile = TRUE, b.exists = TRUE, b.useRevs = TRUE
    PROVE  /\ Run(a).verified <=> Run(b).verified
           /\ Run(a).verified => /\ Run(a).checkpointed = Run(b).checkpointed
                                 /\ Run(a).unanchored = Run(b).unanchored
  <1> DEFINE first == FirstPass(a)
             read == StoreRead(a)
             revoked == Revocations(a)
             cps == Checkpoints(a, read)
  <1>1. FirstPass(b) = first /\ StoreRead(b) = read
    BY DEF FirstPass, StoreRead
  <1>2. File(a) = a.file /\ File(b) = a.file
    BY DEF File
  <1>3. Revocations(b) = revoked /\ revoked = a.revs
    BY DEF Revocations
  <1>4. Checkpoints(b, read) = cps
    BY <1>2 DEF Checkpoints
  <1>5. ~RevocationUsage(a) /\ ~RevocationUsage(b) /\ ~TokenUsage(a) /\ ~TokenUsage(b)
    BY DEF RevocationUsage, TokenUsage, Anchored
  <1>6. Anchored(b)
    BY DEF Anchored
  <1>7. CASE Anchored(a)
    <2> HIDE DEF first, read, revoked, cps
    <2>1. Keys(b, first) = Keys(a, first)
      BY <1>6, <1>7 DEF Keys
    <2>2. LastPass(a, read, first) = LastPass(b, read, first)
      BY <1>3, <1>4, <2>1 DEF LastPass, revoked, cps
    <2>3. Stage(a, read, first) = "none" <=> Stage(b, read, first) = "none"
      <3> DEFINE k == Keys(a, first)
      <3>1. Keys(b, first) = k
        BY <2>1
      <3> HIDE DEF k
      <3> QED BY <1>2, <1>3, <1>4, <1>5, <1>6, <1>7, <2>1, <3>1 DEF Stage, revoked, cps, k
    <2>4. /\ Run(a).verified <=> Stage(a, read, first) = "none" /\ LastPass(a, read, first).verified
          /\ Run(a).verified => /\ Run(a).checkpointed = LastPass(a, read, first).checkpointed
                                /\ Run(a).unanchored = LastPass(a, read, first).unanchored
      BY RunSays DEF first, read
    <2>5. /\ Run(b).verified <=> Stage(b, read, first) = "none" /\ LastPass(b, read, first).verified
          /\ Run(b).verified => /\ Run(b).checkpointed = LastPass(b, read, first).checkpointed
                                /\ Run(b).unanchored = LastPass(b, read, first).unanchored
      BY <1>1, RunSays
    <2> QED BY <2>2, <2>3, <2>4, <2>5
  <1>8. CASE ~Anchored(a)
    <2>1. a.useFile = FALSE /\ a.useStore = FALSE /\ a.revs = {} /\ a.file = <<>>
      BY <1>8 DEF Anchored
    <2> DEFINE log == a.log
               F == Pass(log, a.trusted, TRUE, {})
               K == F[Len(log)].known
               Q == Pass(log, K, TRUE, {})
    <2>2. first = VerifyAll(log, a.trusted, TRUE, {}, {})
      BY DEF FirstPass
    <2>3. Reports(VerifyAll(log, a.trusted, TRUE, {}, {}), F[Len(log)], {})
      BY VerifyAllSays
    <2>4. Reports(VerifyAll(log, K, TRUE, {}, {}), Q[Len(log)], {})
      BY VerifyAllSays
    <2>5. IsPass(F, log, a.trusted, TRUE, {}) /\ IsPass(Q, log, K, TRUE, {})
      BY PassIsPass
    <2>6. F[Len(log)].fault = "none" <=> Q[Len(log)].fault = "none"
      <3> HIDE DEF F, Q
      <3> DEFINE t == a.trusted
                 yes == TRUE
      <3>1. BothPasses(F, Q, log, t, yes, {}) /\ Len(log) \in Nat
        BY <2>5 DEF BothPasses
      <3> HIDE DEF log, t, yes
      <3> QED BY <3>1, SameVerdict
    <2>7. \A C : VerifyAll(log, K, TRUE, C, {}).verified <=>
                   /\ Q[Len(log)].fault = "none" /\ Len(log) # 0
                   /\ \A c \in C : ~Differs(Q[Len(log)], c)
      <3> TAKE C
      <3> DEFINE yes == TRUE
                 no  == {}
      <3>1. Q = Pass(log, K, yes, no) /\ Len(log) \in Nat
        OBVIOUS
      <3>2. VerifyAll(log, K, yes, C, no) = VerifyAll(log, K, TRUE, C, {})
        OBVIOUS
      <3> HIDE DEF Q, K, log, yes, no
      <3>3. VerifyAll(log, K, yes, C, no).verified <=>
              /\ Q[Len(log)].fault = "none" /\ Len(log) # 0
              /\ \A c \in C : ~Differs(Q[Len(log)], c)
        BY <3>1, VerifiedSays
      <3> QED BY <3>2, <3>3
    <2>8. \A C : VerifyAll(log, a.trusted, TRUE, C, {}).verified <=>
                   /\ F[Len(log)].fault = "none" /\ Len(log) # 0
                   /\ \A c \in C : ~Differs(F[Len(log)], c)
      <3> TAKE C
      <3> DEFINE t   == a.trusted
                 yes == TRUE
                 no  == {}
      <3>1. F = Pass(log, t, yes, no) /\ Len(log) \in Nat
        OBVIOUS
      <3>2. VerifyAll(log, t, yes, C, no) = VerifyAll(log, a.trusted, TRUE, C, {})
        OBVIOUS
      <3> HIDE DEF F, log, t, yes, no
      <3>3. VerifyAll(log, t, yes, C, no).verified <=>
              /\ F[Len(log)].fault = "none" /\ Len(log) # 0
              /\ \A c \in C : ~Differs(F[Len(log)], c)
        BY <3>1, VerifiedSays
      <3> QED BY <3>2, <3>3
    <2>9. /\ F[Len(log)].fault = "none" => F[Len(log)].n = Len(log)
          /\ Q[Len(log)].fault = "none" => Q[Len(log)].n = Len(log)
      <3>1. Len(log) \in Nat
        BY <2>5 DEF IsPass
      <3> DEFINE t == a.trusted
                 yes == TRUE
      <3> HIDE DEF F, K, Q, log, t, yes
      <3>2. IsPass(F, log, t, yes, {}) /\ IsPass(Q, log, K, yes, {})
        BY <2>5 DEF t, yes
      <3>3. /\ \A n \in 0..Len(log) : F[n].fault = "none" => Remembers(F[n], log, n)
            /\ \A n \in 0..Len(log) : Q[n].fault = "none" => Remembers(Q[n], log, n)
        BY <3>1, <3>2, PassRemembers
      <3>4. Len(log) \in 0..Len(log)
        BY <3>1
      <3> QED BY <3>3, <3>4 DEF Remembers
    <2> HIDE DEF F, Q, log, first, cps
    <2>10. cps = {} /\ \A k : ReadVerified(<<>>, k)
      <3>1. cps = Range(File(a))
        BY <2>1, FileCheckpoints DEF cps
      <3> QED BY <1>2, <2>1, <3>1 DEF Range, ReadVerified
    <2>11. Keys(a, first) = a.trusted /\ Keys(b, first) = K
      <3>1. first.known = K
        BY <2>2, <2>3 DEF Reports
      <3> QED BY <1>6, <1>8, <3>1 DEF Keys
    <2> HIDE DEF K
    <2>12. OfChain({}) = {} /\ RevocationsSigned({}) /\ Matched({}, Range(<<>>))
      BY DEF OfChain, RevocationsSigned, Matched
    <2>13. /\ LastPass(a, read, first) = VerifyAll(log, a.trusted, TRUE, {}, {})
           /\ LastPass(b, read, first) = VerifyAll(log, K, TRUE, {}, {})
      BY <1>3, <1>4, <2>1, <2>10, <2>11, <2>12 DEF LastPass, log, cps
    <2> HIDE DEF read, revoked
    <2>14. Stage(a, StoreRead(a), FirstPass(a)) = "none"
      BY <1>2, <1>3, <1>5, <1>8, <2>1, <2>10, <2>12, PlainStages DEF revoked
    <2>15. Stage(b, StoreRead(b), FirstPass(b)) = "none" <=> FirstPass(b).verified
      BY <1>2, <1>3, <1>5, <1>6, <2>1, <2>10, <2>12, PlainStages DEF revoked
    <2>16. /\ Run(a).verified <=> LastPass(a, read, first).verified
           /\ Run(a).verified => /\ Run(a).checkpointed = LastPass(a, read, first).checkpointed
                                 /\ Run(a).unanchored = LastPass(a, read, first).unanchored
      BY <2>14, RunSays DEF first, read
    <2>17. /\ Run(b).verified <=> first.verified /\ LastPass(b, read, first).verified
           /\ Run(b).verified => /\ Run(b).checkpointed = LastPass(b, read, first).checkpointed
                                 /\ Run(b).unanchored = LastPass(b, read, first).unanchored
      BY <1>1, <2>15, RunSays
    <2>18. Run(a).verified <=> Run(b).verified
      BY <2>2, <2>6, <2>7, <2>8, <2>13, <2>16, <2>17
    <2>19. Run(a).verified => /\ F[Len(log)].n = Len(log) /\ Q[Len(log)].n = Len(log)
      BY <2>6, <2>8, <2>9, <2>13, <2>16
    <2>20. Run(a).verified => /\ Run(a).checkpointed = Run(b).checkpointed
                              /\ Run(a).unanchored = Run(b).unanchored
      <3> SUFFICES ASSUME Run(a).verified
                   PROVE  /\ Run(a).checkpointed = Run(b).checkpointed
                          /\ Run(a).unanchored = Run(b).unanchored
        OBVIOUS
      <3>1. /\ Run(a).checkpointed = LastPass(a, read, first).checkpointed
            /\ Run(a).unanchored = LastPass(a, read, first).unanchored
        BY <2>16
      <3>2. /\ Run(b).checkpointed = LastPass(b, read, first).checkpointed
            /\ Run(b).unanchored = LastPass(b, read, first).unanchored
        BY <2>17, <2>18
      <3>3. F[Len(log)].n = Q[Len(log)].n
        BY <2>19
      <3>4. /\ LastPass(a, read, first).checkpointed = Covered({})
            /\ LastPass(a, read, first).unanchored = F[Len(log)].n - Covered({})
        BY <2>3, <2>13 DEF Reports
      <3>5. /\ LastPass(b, read, first).checkpointed = Covered({})
            /\ LastPass(b, read, first).unanchored = Q[Len(log)].n - Covered({})
        BY <2>4, <2>13 DEF Reports
      <3> QED BY <3>1, <3>2, <3>3, <3>4, <3>5
    <2> QED BY <2>18, <2>20
  <1> QED BY <1>7, <1>8
=============================================================================
