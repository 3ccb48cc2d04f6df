---------------------------- MODULE ApproversProofs ---------------------------
(***************************************************************************)
(* Proofs, for any number of approvers, calls, list requests and server    *)
(* goroutines and any clock, about the approver API and its clients.       *)
(*                                                                         *)
(* Three arguments run through the invariant.  A consumed nonce is only    *)
(* forgotten when its request is too old to pass the timestamp check, also *)
(* in a goroutine that read the clock earlier and waits for the lock.  A   *)
(* statement says what its approver saw, because the client checked the    *)
(* row that was printed and signs it.  An answer has the expiry of a       *)
(* statement that Accept found in range.                                   *)
(***************************************************************************)
EXTENDS Approvers, FiniteSetTheorems, TLAPS

Via == {"command", "console"}
Outcome == {"none", "approved", "rejected"}
Rows == UNION {[D -> Row] : D \in SUBSET Dec}
Request == [approver : Approver, nonce : Nonce, ts : Int]
Session ==
    [ pc : {"idle", "asked", "shown", "again", "ready"}, via : Via, nonce : 0..MaxLists,
      rows : Rows, dec : 0..MaxCalls, seen : Row \cup {NoRow}, outcome : Outcome, off : Int ]
StatementType ==
    [ approver : Approver, dec : Dec, who : Principal, commit : Args, outcome : Outcome,
      ts : Int, expires : Int, seen : Row \cup {NoRow}, via : Via ]

ApproversTypeOK ==
    /\ now \in Nat
    /\ calls \in Seq(Call) /\ Len(calls) <= MaxCalls
    /\ recorded \subseteq [st : StatementType, at : Nat]
    /\ held \in [Dec -> {"none", "waiting", "running"}]
    /\ answer \in [Dec -> [outcome : Outcome, approver : Approver \cup {"nobody"}, expires : Int]]
    /\ DOMAIN nonces \subseteq Nonce /\ \A n \in DOMAIN nonces : nonces[n] \in Int
    /\ served \in [Nonce -> Nat]
    /\ handler \in [Handler -> [ pc : {"idle", "checked", "authenticated"},
                                 rq : Request \cup {Waiting.rq}, at : Nat ]]
    /\ sent \subseteq Request /\ IsFiniteSet(sent)
    /\ client \in [Approver -> Session]
    /\ statements \subseteq StatementType

-----------------------------------------------------------------------------
(* Nonces. *)

\* Signed requests are told apart by their nonces.
NoncesDiffer ==
    /\ \A r \in sent : r.nonce <= Cardinality(sent)
    /\ \A r, q \in sent : r.nonce = q.nonce => r = q

\* A request being served was in time when its goroutine read the clock, which
\* is not long ago.
InTime(h) ==
    /\ handler[h].pc # "idle" => handler[h].rq \in sent
    /\ handler[h].pc = "checked" =>
         /\ handler[h].at <= now /\ now <= handler[h].at + MaxDelay
         /\ handler[h].at <= handler[h].rq.ts + Skew

\* The nonce of a request that was answered is remembered, or the request can
\* no longer be in time.
Consumed(r) ==
    served[r.nonce] # 0 =>
        \/ r.nonce \in DOMAIN nonces /\ nonces[r.nonce] = r.ts + 2 * Skew
        \/ now > r.ts + 2 * Skew

NoncesOK ==
    /\ NoncesDiffer
    /\ \A h \in Handler : InTime(h)
    /\ \A r \in sent : Consumed(r)
    /\ \A n \in Nonce : served[n] # 0 => \E r \in sent : r.nonce = n
    /\ \A n \in DOMAIN nonces : \E r \in sent : r.nonce = n /\ nonces[n] = r.ts + 2 * Skew
    /\ ListedOnce

-----------------------------------------------------------------------------
(* What approvers see. *)

\* What a session has checked of the rows it was shown.
Looks(c) ==
    /\ c.pc \in {"shown", "ready"} => \A d \in DOMAIN c.rows : Check(c.rows[d])
    /\ c.pc = "again" => c.via = "console" /\ c.dec \in Dec
    /\ c.pc = "ready" => c.dec \in DOMAIN c.rows
    /\ c.pc = "ready" /\ c.via = "command" => c.seen = c.rows[c.dec]

\* What a statement of the command says is what its approver saw.
Says(st) ==
    st.via = "command" => st.seen = [who |-> st.who, args |-> st.commit, commit |-> st.commit]

SeenOK ==
    /\ \A d \in Dec : held[d] # "none" => d \in 1..Len(calls)
    /\ \A a \in Approver : Looks(client[a])
    /\ \A st \in statements : Says(st)
    /\ \A r \in recorded : r.st.dec \in 1..Len(calls)
    /\ ShownIsRecorded

-----------------------------------------------------------------------------
(* What approvals allow. *)

\* An approved call has the expiry of a recorded approval of its decision, which
\* was in range when it was recorded.
Allowed(d) ==
    answer[d].outcome = "approved" =>
        \E r \in recorded : /\ r.st.dec = d /\ r.st.outcome = "approved"
                            /\ answer[d].expires <= r.at + MaxTTL + Skew

\* The inductive invariant.
ApproversInv ==
    ApproversTypeOK /\ NoncesOK /\ SeenOK /\ \A d \in Dec : Allowed(d)

-----------------------------------------------------------------------------
(* Steps that leave a part of the state alone. *)

\* The nonces are all right as long as nobody touches them or the clock.
LEMMA NoncesSame ==
    ASSUME NoncesOK, UNCHANGED <<sent, handler, served, nonces, now>>
    PROVE  NoncesOK'
  BY DEF NoncesOK, NoncesDiffer, InTime, Consumed, ListedOnce

\* What was seen is recorded as long as clients and records stay.
LEMMA SeenSame ==
    ASSUME SeenOK, UNCHANGED <<held, calls, client, statements, recorded>>
    PROVE  SeenOK'
  BY DEF SeenOK, Looks, Says, ShownIsRecorded

\* Approvals stay as long as answers and records stay.
LEMMA AllowedSame ==
    ASSUME \A d \in Dec : Allowed(d), UNCHANGED answer, recorded \subseteq recorded'
    PROVE  \A d \in Dec : Allowed(d)'
  BY DEF Allowed

\* The sets of the type invariant are not empty where they must not be.
LEMMA TypeFacts ==
    /\ NoRows \in Rows /\ Away \in Session /\ Looks(Away)
    /\ Waiting \in [ pc : {"idle", "checked", "authenticated"},
                     rq : Request \cup {Waiting.rq}, at : Nat ]
    /\ Waiting.pc = "idle"
    /\ NoAnswer \in [outcome : Outcome, approver : Approver \cup {"nobody"}, expires : Int]
    /\ NoAnswer.outcome = "none"
  <1>1. NoRows \in Rows
    <2>1. NoRows \in [{} -> Row]
      BY DEF NoRows
    <2> QED BY <2>1 DEF Rows
  <1>2. Away \in Session /\ Looks(Away)
    BY <1>1, ApproversAssumption DEF Away, Session, Looks, Via, Outcome
  <1>3. /\ Waiting \in [ pc : {"idle", "checked", "authenticated"},
                         rq : Request \cup {Waiting.rq}, at : Nat ]
        /\ Waiting.pc = "idle"
    BY DEF Waiting
  <1>4. /\ NoAnswer \in [outcome : Outcome, approver : Approver \cup {"nobody"}, expires : Int]
        /\ NoAnswer.outcome = "none"
    BY DEF NoAnswer, Outcome
  <1> QED BY <1>1, <1>2, <1>3, <1>4

\* The rows of a reply are rows of held calls.
LEMMA RowsFacts == ASSUME NEW rows \in Rows PROVE DOMAIN rows \subseteq Dec /\ \A d \in DOMAIN rows : rows[d] \in Row
  BY DEF Rows

-----------------------------------------------------------------------------
(* The gateway. *)

\* A decision stays what it is when another is recorded.
LEMMA HoldKeeps == ASSUME ApproversInv, NEW c \in Call, Hold(c) PROVE ApproversInv'
  <1>1. /\ Len(calls) < MaxCalls /\ calls' = Append(calls, c)
        /\ held' = [held EXCEPT ![Len(calls) + 1] = "waiting"]
        /\ UNCHANGED <<now, recorded, answer, nonces, served, handler, sent, client, statements>>
    BY DEF Hold
  <1>2. /\ calls \in Seq(Call) /\ Len(calls) \in Nat
        /\ held \in [Dec -> {"none", "waiting", "running"}] /\ MaxCalls \in Nat
    BY ApproversAssumption DEF ApproversInv, ApproversTypeOK
  <1>3. /\ calls' \in Seq(Call) /\ Len(calls') = Len(calls) + 1
        /\ \A i \in 1..Len(calls) : calls'[i] = calls[i]
    BY <1>1, <1>2
  <1>4. ApproversTypeOK'
    <2>1. Len(calls') <= MaxCalls
      BY <1>1, <1>2, <1>3
    <2>2. held' \in [Dec -> {"none", "waiting", "running"}]
      BY <1>1, <1>2
    <2> QED BY <1>1, <1>3, <2>1, <2>2 DEF ApproversInv, ApproversTypeOK
  <1>5. NoncesOK' /\ \A d \in Dec : Allowed(d)'
    BY <1>1, NoncesSame, AllowedSame DEF ApproversInv
  <1>7. SeenOK'
    <2>1. \A d \in Dec : held'[d] # "none" => d \in 1..Len(calls')
      BY <1>1, <1>2, <1>3 DEF ApproversInv, SeenOK, Dec
    <2>2. \A a \in Approver : Looks(client[a])'
      BY <1>1 DEF ApproversInv, SeenOK, Looks
    <2>3. \A st \in statements' : Says(st)'
      BY <1>1 DEF ApproversInv, SeenOK, Says
    <2>4. \A r \in recorded' : r.st.dec \in 1..Len(calls')
      BY <1>1, <1>2, <1>3 DEF ApproversInv, SeenOK
    <2>5. ShownIsRecorded'
      BY <1>1, <1>3 DEF ApproversInv, SeenOK, ShownIsRecorded
    <2> QED BY <2>1, <2>2, <2>3, <2>4, <2>5 DEF SeenOK
  <1> QED BY <1>4, <1>5, <1>7 DEF ApproversInv

\* A held call starts to run, or stops running.
LEMMA HeldKeeps ==
    ASSUME ApproversInv, NEW d \in Dec, held[d] # "none", NEW w \in {"none", "waiting", "running"},
           held' = [held EXCEPT ![d] = w],
           UNCHANGED <<now, calls, recorded, answer, nonces, served, handler, sent, client, statements>>
    PROVE  ApproversInv'
  <1>1. ApproversTypeOK'
    BY DEF ApproversInv, ApproversTypeOK
  <1>2. NoncesOK' /\ \A e \in Dec : Allowed(e)'
    BY NoncesSame, AllowedSame DEF ApproversInv
  <1>3. SeenOK'
    BY DEF ApproversInv, ApproversTypeOK, SeenOK, Looks, Says, ShownIsRecorded
  <1> QED BY <1>1, <1>2, <1>3 DEF ApproversInv

-----------------------------------------------------------------------------
(* The server. *)

\* The timestamp of a request is compared with the clock.
LEMMA ReceiveKeeps ==
    ASSUME ApproversInv, NEW h \in Handler, NEW rq \in sent, Receive(h, rq)
    PROVE  ApproversInv'
  <1>1. /\ handler' = [handler EXCEPT ![h] = [pc |-> "checked", rq |-> rq, at |-> now]]
        /\ now - Skew <= rq.ts
        /\ UNCHANGED <<now, calls, recorded, held, answer, nonces, served, sent, client, statements>>
    BY DEF Receive
  <1>2. /\ rq \in Request /\ now \in Nat
        /\ handler \in [Handler -> [ pc : {"idle", "checked", "authenticated"},
                                     rq : Request \cup {Waiting.rq}, at : Nat ]]
    BY DEF ApproversInv, ApproversTypeOK
  <1>3. /\ handler' \in [Handler -> [ pc : {"idle", "checked", "authenticated"},
                                      rq : Request \cup {Waiting.rq}, at : Nat ]]
        /\ handler'[h].pc = "checked" /\ handler'[h].rq = rq /\ handler'[h].at = now
        /\ \A g \in Handler : g # h => handler'[g] = handler[g]
    BY <1>1, <1>2
  <1>4. ApproversTypeOK'
    BY <1>1, <1>3 DEF ApproversInv, ApproversTypeOK
  <1>5. SeenOK' /\ \A d \in Dec : Allowed(d)'
    BY <1>1, SeenSame, AllowedSame DEF ApproversInv
  <1>6. \A g \in Handler : InTime(g)'
    <2>1. InTime(h)'
      <3>1. rq.ts \in Int /\ Skew \in Nat /\ MaxDelay \in Nat
        BY <1>2, ApproversAssumption DEF Request
      <3> QED BY <1>1, <1>2, <1>3, <3>1 DEF InTime
    <2>2. ASSUME NEW g \in Handler, g # h PROVE InTime(g)'
      BY <1>1, <1>3, <2>2 DEF ApproversInv, NoncesOK, InTime
    <2> QED BY <2>1, <2>2
  <1>7. NoncesOK'
    BY <1>1, <1>6 DEF ApproversInv, NoncesOK, NoncesDiffer, Consumed, ListedOnce
  <1> QED BY <1>4, <1>5, <1>7 DEF ApproversInv

\* The nonce of a request that is about to be answered was not answered before:
\* it could have been forgotten only by a clock at which no goroutine that
\* admitted the request can still be waiting for the lock.
LEMMA NotServed ==
    ASSUME ApproversInv, NEW h \in Handler, handler[h].pc = "checked",
           handler[h].rq.nonce \notin {n \in DOMAIN nonces : ~(handler[h].at > nonces[n])}
    PROVE  served[handler[h].rq.nonce] = 0
  <1> DEFINE rq == handler[h].rq
             n == rq.nonce
  <1>1. /\ rq \in sent /\ handler[h].at <= now /\ now <= handler[h].at + MaxDelay
        /\ handler[h].at <= rq.ts + Skew
    BY DEF ApproversInv, NoncesOK, InTime
  <1>2. rq.ts \in Int /\ handler[h].at \in Nat /\ now \in Nat /\ n \in Nonce
    BY <1>1 DEF ApproversInv, ApproversTypeOK, Request
  <1>3. Skew \in Nat /\ MaxDelay \in Nat /\ MaxDelay <= Skew
    BY ApproversAssumption
  <1> SUFFICES ASSUME served[n] # 0 PROVE FALSE
    OBVIOUS
  <1>4. \/ n \in DOMAIN nonces /\ nonces[n] = rq.ts + 2 * Skew
        \/ now > rq.ts + 2 * Skew
    BY <1>1 DEF ApproversInv, NoncesOK, Consumed
  <1>5. n \in DOMAIN nonces => handler[h].at > nonces[n]
    OBVIOUS
  <1> HIDE DEF n, rq
  <1> QED BY <1>1, <1>2, <1>3, <1>4, <1>5

\* Under the lock, a nonce is consumed or refused, and old ones are forgotten.
LEMMA AuthenticateKeeps ==
    ASSUME ApproversInv, NEW h \in Handler, Authenticate(h)
    PROVE  ApproversInv'
  <1> DEFINE rq == handler[h].rq
             n == rq.nonce
             kept == {m \in DOMAIN nonces : ~(handler[h].at > nonces[m])}
  <1>1. /\ handler[h].pc = "checked"
        /\ UNCHANGED <<now, calls, recorded, held, answer, sent, client, statements>>
    BY DEF Authenticate
  <1>2. /\ rq \in sent /\ rq \in Request /\ n \in Nonce /\ rq.ts \in Int
        /\ handler[h].at \in Nat /\ handler[h].at <= now /\ now \in Nat /\ Skew \in Nat
        /\ handler \in [Handler -> [ pc : {"idle", "checked", "authenticated"},
                                     rq : Request \cup {Waiting.rq}, at : Nat ]]
        /\ served \in [Nonce -> Nat] /\ DOMAIN nonces \subseteq Nonce
        /\ \A m \in DOMAIN nonces : nonces[m] \in Int
    BY <1>1, ApproversAssumption DEF ApproversInv, ApproversTypeOK, NoncesOK, InTime, Request
  <1>3. SeenOK' /\ \A d \in Dec : Allowed(d)'
    BY <1>1, SeenSame, AllowedSame DEF ApproversInv
  <1>4. ASSUME NEW r \in sent, r.nonce \in DOMAIN nonces, r.nonce \notin kept
        PROVE  now > r.ts + 2 * Skew
    <2>1. PICK q \in sent : q.nonce = r.nonce /\ nonces[r.nonce] = q.ts + 2 * Skew
      BY <1>4 DEF ApproversInv, NoncesOK
    <2>2. q = r /\ r.ts \in Int
      BY <2>1 DEF ApproversInv, ApproversTypeOK, NoncesOK, NoncesDiffer, Request
    <2>3. handler[h].at > nonces[r.nonce]
      BY <1>4
    <2> QED BY <1>2, <2>1, <2>2, <2>3
  <1>5. CASE n \in kept
    <2>1. /\ nonces' = [m \in kept |-> nonces[m]]
          /\ handler' = [handler EXCEPT ![h] = Waiting] /\ UNCHANGED served
      BY <1>5 DEF Authenticate
    <2>2. DOMAIN nonces' = kept /\ \A m \in kept : nonces'[m] = nonces[m]
      BY <2>1
    <2>3. /\ handler' \in [Handler -> [ pc : {"idle", "checked", "authenticated"},
                                        rq : Request \cup {Waiting.rq}, at : Nat ]]
          /\ handler'[h].pc = "idle" /\ \A g \in Handler : g # h => handler'[g] = handler[g]
      BY <1>2, <2>1, TypeFacts
    <2>4. ApproversTypeOK'
      BY <1>1, <1>2, <2>1, <2>2, <2>3 DEF ApproversInv, ApproversTypeOK
    <2>5. \A g \in Handler : InTime(g)'
      BY <1>1, <2>3 DEF ApproversInv, NoncesOK, InTime
    <2>6. \A r \in sent' : Consumed(r)'
      BY <1>1, <1>4, <2>1, <2>2 DEF ApproversInv, NoncesOK, Consumed
    <2>7. NoncesOK'
      BY <1>1, <2>1, <2>2, <2>5, <2>6 DEF ApproversInv, NoncesOK, NoncesDiffer, ListedOnce
    <2> QED BY <1>3, <2>4, <2>7 DEF ApproversInv
  <1>6. CASE n \notin kept
    <2>1. /\ nonces' = [m \in kept \cup {n} |-> IF m = n THEN ForgetAt(rq) ELSE nonces[m]]
          /\ handler' = [handler EXCEPT ![h].pc = "authenticated"]
          /\ served' = [served EXCEPT ![n] = @ + 1]
      BY <1>6 DEF Authenticate
    <2>2. served[n] = 0
      BY <1>1, <1>6, NotServed
    <2>3. /\ DOMAIN nonces' = kept \cup {n} /\ nonces'[n] = rq.ts + 2 * Skew
          /\ \A m \in kept : m # n => nonces'[m] = nonces[m]
      BY <2>1 DEF ForgetAt
    <2>4. /\ handler' \in [Handler -> [ pc : {"idle", "checked", "authenticated"},
                                        rq : Request \cup {Waiting.rq}, at : Nat ]]
          /\ handler'[h].pc = "authenticated" /\ handler'[h].rq = rq
          /\ \A g \in Handler : g # h => handler'[g] = handler[g]
      BY <1>2, <2>1
    <2>5. /\ served' \in [Nonce -> Nat] /\ served'[n] = 1
          /\ \A m \in Nonce : m # n => served'[m] = served[m]
      BY <1>2, <2>1, <2>2
    <2>6. rq.ts + 2 * Skew \in Int
      BY <1>2
    <2> HIDE DEF n, rq, kept
    <2>7. kept \subseteq DOMAIN nonces
      BY DEF kept
    <2>8. ApproversTypeOK'
      BY <1>1, <1>2, <2>3, <2>4, <2>5, <2>6, <2>7 DEF ApproversInv, ApproversTypeOK
    <2>9. \A g \in Handler : InTime(g)'
      BY <1>1, <1>2, <2>4 DEF ApproversInv, NoncesOK, InTime
    <2>10. \A r \in sent' : Consumed(r)'
      <3> SUFFICES ASSUME NEW r \in sent PROVE Consumed(r)'
        BY <1>1
      <3>1. CASE r.nonce = n
        <4>1. r = rq
          BY <1>2, <3>1 DEF ApproversInv, NoncesOK, NoncesDiffer, n
        <4> QED BY <2>3, <3>1, <4>1 DEF Consumed
      <3>2. CASE r.nonce # n
        <4>1. r.nonce \in Nonce /\ Consumed(r)
          BY DEF ApproversInv, ApproversTypeOK, NoncesOK, Request
        <4> QED BY <1>1, <1>4, <2>3, <2>5, <3>2, <4>1 DEF Consumed
      <3> QED BY <3>1, <3>2
    <2>11. \A m \in Nonce : served'[m] # 0 => \E r \in sent' : r.nonce = m
      BY <1>1, <1>2, <2>5 DEF ApproversInv, NoncesOK, n
    <2>12. \A m \in DOMAIN nonces' : \E r \in sent' : r.nonce = m /\ nonces'[m] = r.ts + 2 * Skew
      BY <1>1, <1>2, <2>3, <2>7 DEF ApproversInv, NoncesOK, n
    <2>13. ListedOnce'
      BY <2>5 DEF ApproversInv, NoncesOK, ListedOnce
    <2>14. NoncesOK'
      BY <1>1, <2>9, <2>10, <2>11, <2>12, <2>13 DEF ApproversInv, NoncesOK, NoncesDiffer
    <2> QED BY <1>3, <2>8, <2>14 DEF ApproversInv
  <1> QED BY <1>5, <1>6

\* The list of held calls is true, and a reply is a set of rows about them.
LEMMA ReplyFacts ==
    ASSUME ApproversInv, NEW rows \in Replies
    PROVE  rows \in Rows
  <1>1. \A d \in DOMAIN ListPending : d \in Dec /\ d \in 1..Len(calls)
    BY DEF ListPending, ApproversInv, SeenOK
  <1>3. \A d \in DOMAIN ListPending : ListPending[d] \in Row
    <2> SUFFICES ASSUME NEW d \in DOMAIN ListPending PROVE ListPending[d] \in Row
      OBVIOUS
    <2>1. calls[d] \in Call
      BY <1>1 DEF ApproversInv, ApproversTypeOK
    <2> QED BY <2>1 DEF ListPending, RowOf, Row, Call
  <1>4. ListPending \in [DOMAIN ListPending -> Row]
    BY <1>3 DEF ListPending
  <1>5. rows \in [DOMAIN ListPending -> Row]
    <2>1. CASE rows = ListPending
      BY <1>4, <2>1
    <2>2. CASE rows # ListPending
      <3>1. PICK d \in DOMAIN ListPending, r \in Row : rows = [ListPending EXCEPT ![d] = r]
        BY <2>2 DEF Replies
      <3> QED BY <1>4, <3>1
    <2> QED BY <2>1, <2>2
  <1>6. DOMAIN ListPending \in SUBSET Dec
    BY <1>1
  <1> QED BY <1>5, <1>6 DEF Rows

\* A session that receives a reply has checked it.
LEMMA ListedFacts ==
    ASSUME ApproversInv, NEW c \in Session, Looks(c), c.pc \in {"asked", "again"},
           NEW rows \in Replies
    PROVE  Listed(c, rows) \in Session /\ Looks(Listed(c, rows))
  <1>1. rows \in Rows
    BY ReplyFacts
  <1>2. Away \in Session /\ Looks(Away)
    BY TypeFacts
  <1>3. CASE Listed(c, rows) = Away
    BY <1>2, <1>3
  <1>4. CASE /\ \A d \in DOMAIN rows : Check(rows[d])
             /\ c.pc = "asked"
    <2> DEFINE e == [c EXCEPT !.pc = "shown", !.rows = rows]
    <2>1. Listed(c, rows) = e
      BY <1>4 DEF Listed
    <2>2. e \in Session /\ e.pc = "shown" /\ e.rows = rows
      BY <1>1 DEF Session
    <2> HIDE DEF e
    <2>3. Looks(e)
      BY <1>1, <1>4, <2>2 DEF Looks
    <2> QED BY <2>1, <2>2, <2>3
  <1>5. CASE /\ \A d \in DOMAIN rows : Check(rows[d])
             /\ c.pc = "again" /\ c.dec \in DOMAIN rows
    <2> DEFINE e == [c EXCEPT !.pc = "ready", !.rows = rows]
    <2>1. Listed(c, rows) = e
      BY <1>5 DEF Listed
    <2>2. /\ e \in Session /\ e.pc = "ready" /\ e.rows = rows /\ e.dec = c.dec /\ e.via = c.via
          /\ e.seen = c.seen
      BY <1>1 DEF Session
    <2> HIDE DEF e
    <2>3. Looks(e)
      BY <1>1, <1>5, <2>2 DEF Looks
    <2> QED BY <2>1, <2>2, <2>3
  <1>6. \/ Listed(c, rows) = Away
        \/ (\A d \in DOMAIN rows : Check(rows[d])) /\ c.pc = "asked"
        \/ (\A d \in DOMAIN rows : Check(rows[d])) /\ c.pc = "again" /\ c.dec \in DOMAIN rows
    <2>1. CASE \E d \in DOMAIN rows : ~Check(rows[d])
      BY <2>1 DEF Listed
    <2>2. CASE (\A d \in DOMAIN rows : Check(rows[d])) /\ c.pc # "asked" /\ c.dec \notin DOMAIN rows
      BY <2>2 DEF Listed
    <2> QED BY <2>1, <2>2
  <1> QED BY <1>3, <1>4, <1>5, <1>6

\* Whatever one session becomes, as long as it has looked at what it says it saw.
LEMMA SessionKeeps ==
    ASSUME ApproversInv, NEW a \in Approver, NEW c \in Session, Looks(c),
           client' = [client EXCEPT ![a] = c],
           UNCHANGED <<now, calls, recorded, held, answer, statements>>
    PROVE  client' \in [Approver -> Session] /\ SeenOK' /\ \A d \in Dec : Allowed(d)'
  <1>1. client \in [Approver -> Session]
    BY DEF ApproversInv, ApproversTypeOK
  <1>2. client' \in [Approver -> Session]
    BY <1>1
  <1>3. ASSUME NEW b \in Approver PROVE Looks(client[b])'
    <2>1. Looks(client'[b])
      BY <1>1 DEF ApproversInv, SeenOK
    <2> QED BY <2>1 DEF Looks
  <1>4. SeenOK'
    BY <1>3 DEF ApproversInv, SeenOK, Says, ShownIsRecorded
  <1> QED BY <1>2, <1>4, AllowedSame DEF ApproversInv

\* The reply reaches the client that waits for it, or nobody.
LEMMA ReplyKeeps ==
    ASSUME ApproversInv, NEW h \in Handler, NEW rows \in Replies, Reply(h, rows)
    PROVE  ApproversInv'
  <1> DEFINE a == handler[h].rq.approver
  <1>1. /\ handler[h].pc = "authenticated" /\ handler' = [handler EXCEPT ![h] = Waiting]
        /\ client' = IF client[a].pc \in {"asked", "again"} /\ client[a].nonce = handler[h].rq.nonce
                     THEN [client EXCEPT ![a] = Listed(client[a], rows)]
                     ELSE client
        /\ UNCHANGED <<now, calls, recorded, held, answer, nonces, served, sent, statements>>
    BY DEF Reply
  <1>2. a \in Approver
    BY <1>1 DEF ApproversInv, ApproversTypeOK, NoncesOK, InTime, Request
  <1>3. client[a] \in Session /\ Looks(client[a]) /\ client \in [Approver -> Session]
    BY <1>2 DEF ApproversInv, ApproversTypeOK, SeenOK
  <1> HIDE DEF a
  <1>4. client' \in [Approver -> Session] /\ SeenOK' /\ \A d \in Dec : Allowed(d)'
    <2>1. CASE client' = client
      BY <1>1, <1>3, <2>1, SeenSame, AllowedSame DEF ApproversInv
    <2>2. CASE client[a].pc \in {"asked", "again"} /\ client' = [client EXCEPT ![a] = Listed(client[a], rows)]
      <3>1. Listed(client[a], rows) \in Session /\ Looks(Listed(client[a], rows))
        BY <1>3, <2>2, ListedFacts
      <3> QED BY <1>1, <1>2, <2>2, <3>1, SessionKeeps
    <2> QED BY <1>1, <2>1, <2>2
  <1>5. /\ handler' \in [Handler -> [ pc : {"idle", "checked", "authenticated"},
                                      rq : Request \cup {Waiting.rq}, at : Nat ]]
        /\ handler'[h].pc = "idle" /\ \A g \in Handler : g # h => handler'[g] = handler[g]
    BY <1>1, TypeFacts DEF ApproversInv, ApproversTypeOK
  <1>6. ApproversTypeOK'
    BY <1>1, <1>4, <1>5 DEF ApproversInv, ApproversTypeOK
  <1>7. NoncesOK'
    BY <1>1, <1>5 DEF ApproversInv, NoncesOK, NoncesDiffer, InTime, Consumed, ListedOnce
  <1> QED BY <1>4, <1>6, <1>7 DEF ApproversInv

\* A statement that Accept lets through is about the call its approver saw, and
\* its expiry is in range.
LEMMA SubmitKeeps ==
    ASSUME ApproversInv, NEW st \in statements, Submit(st)
    PROVE  ApproversInv'
  <1> DEFINE d == st.dec
             rec == [st |-> st, at |-> now]
             ans == [outcome |-> st.outcome, approver |-> st.approver, expires |-> st.expires]
  <1>1. /\ held[d] # "none" /\ Accept(st) /\ recorded' = recorded \cup {rec}
        /\ answer' = [answer EXCEPT ![d] = ans]
        /\ UNCHANGED <<now, calls, held, nonces, served, handler, sent, client, statements>>
    BY DEF Submit
  <1>2. st \in StatementType /\ d \in Dec /\ Says(st) /\ now \in Nat /\ d \in 1..Len(calls)
    BY <1>1 DEF ApproversInv, ApproversTypeOK, SeenOK, StatementType
  <1>3. calls[d] \in Call
    BY <1>2 DEF ApproversInv, ApproversTypeOK
  <1>4. /\ st.who = calls[d].who /\ st.commit = calls[d].args
        /\ st.ts <= now + Skew /\ st.expires - st.ts <= MaxTTL
    BY <1>1 DEF Accept
  <1>5. rec \in [st : StatementType, at : Nat] /\ rec.st = st /\ rec.at = now
    BY <1>2
  <1>6. /\ ans \in [outcome : Outcome, approver : Approver \cup {"nobody"}, expires : Int]
        /\ ans.outcome = st.outcome /\ ans.expires = st.expires
    BY <1>2 DEF StatementType
  <1> HIDE DEF rec, ans, d
  <1>7. ApproversTypeOK'
    BY <1>1, <1>2, <1>5, <1>6 DEF ApproversInv, ApproversTypeOK
  <1>8. NoncesOK'
    BY <1>1, NoncesSame DEF ApproversInv
  <1>9. SeenOK'
    <2>1. st.via = "command" => st.seen = RowOf(calls[d])
      BY <1>2, <1>4 DEF Says, RowOf
    <2>2. ShownIsRecorded'
      BY <1>1, <1>5, <2>1 DEF ApproversInv, SeenOK, ShownIsRecorded, d
    <2>3. \A r \in recorded' : r.st.dec \in 1..Len(calls')
      BY <1>1, <1>2, <1>5 DEF ApproversInv, SeenOK, d
    <2> QED BY <1>1, <2>2, <2>3 DEF ApproversInv, SeenOK, Looks, Says
  <1>10. \A e \in Dec : Allowed(e)'
    <2> SUFFICES ASSUME NEW e \in Dec PROVE Allowed(e)'
      OBVIOUS
    <2>1. answer \in [Dec -> [outcome : Outcome, approver : Approver \cup {"nobody"}, expires : Int]]
      BY DEF ApproversInv, ApproversTypeOK
    <2>2. CASE e # d
      <3>1. answer'[e] = answer[e]
        BY <1>1, <2>1, <2>2
      <3> QED BY <1>1, <3>1 DEF ApproversInv, Allowed
    <2>3. CASE e = d
      <3>1. answer'[e] = ans
        BY <1>1, <1>2, <2>1, <2>3
      <3>2. st.ts \in Int /\ st.expires \in Int /\ Skew \in Nat /\ MaxTTL \in Nat
        BY <1>2, ApproversAssumption DEF StatementType
      <3>3. st.expires <= now + MaxTTL + Skew
        BY <1>2, <1>4, <3>2
      <3>4. rec \in recorded'
        BY <1>1
      <3> QED BY <1>5, <1>6, <2>3, <3>1, <3>3, <3>4 DEF Allowed, d
    <2> QED BY <2>2, <2>3
  <1> QED BY <1>7, <1>8, <1>9, <1>10 DEF ApproversInv

\* A new process has forgotten the held calls, the nonces and how often it
\* answered.
LEMMA RestartKeeps == ASSUME ApproversInv, Restart PROVE ApproversInv'
  <1>1. /\ held' = [d \in Dec |-> "none"] /\ answer' = [d \in Dec |-> NoAnswer]
        /\ nonces' = [n \in {} |-> 0] /\ served' = [n \in Nonce |-> 0]
        /\ handler' = [h \in Handler |-> Waiting]
        /\ UNCHANGED <<now, calls, recorded, sent, client, statements>>
    BY DEF Restart
  <1>2. DOMAIN nonces' = {}
    BY <1>1
  <1>3. ApproversTypeOK'
    BY <1>1, <1>2, TypeFacts DEF ApproversInv, ApproversTypeOK
  <1>4. NoncesOK'
    BY <1>1, <1>2, TypeFacts DEF ApproversInv, NoncesOK, NoncesDiffer, InTime, Consumed, ListedOnce,
                                 ApproversTypeOK, Request
  <1>5. SeenOK'
    BY <1>1 DEF ApproversInv, SeenOK, Looks, Says, ShownIsRecorded
  <1>6. \A d \in Dec : Allowed(d)'
    BY <1>1, TypeFacts DEF Allowed
  <1> QED BY <1>3, <1>4, <1>5, <1>6 DEF ApproversInv

-----------------------------------------------------------------------------
(* The clients and the clock. *)

\* A list request takes a nonce that no request has had.
LEMMA SendListKeeps ==
    ASSUME ApproversInv, NEW a \in Approver, NEW c \in Session, SendList(a, c),
           \A n \in Nonce : Looks([c EXCEPT !.nonce = n]),
           UNCHANGED <<now, server, statements>>
    PROVE  ApproversInv'
  <1> DEFINE n == Cardinality(sent) + 1
             rq == [approver |-> a, nonce |-> n, ts |-> now + c.off]
  <1>1. /\ n \in Nonce /\ sent' = sent \cup {rq}
        /\ client' = [client EXCEPT ![a] = [c EXCEPT !.nonce = n]]
        /\ UNCHANGED <<now, calls, recorded, held, answer, nonces, served, handler, statements>>
    BY DEF SendList, server
  <1>2. [c EXCEPT !.nonce = n] \in Session /\ Looks([c EXCEPT !.nonce = n])
    BY <1>1, ApproversAssumption DEF Session, Nonce
  <1>3. client' \in [Approver -> Session] /\ SeenOK' /\ \A d \in Dec : Allowed(d)'
    BY <1>1, <1>2, SessionKeeps
  <1>4. now \in Nat /\ IsFiniteSet(sent) /\ sent \subseteq Request
    BY DEF ApproversInv, ApproversTypeOK
  <1>5. Cardinality(sent) \in Nat
    BY <1>4, FS_CardinalityType
  <1>6. rq \in Request /\ rq.nonce = n
    BY <1>1, <1>4 DEF Request, Session
  <1> HIDE DEF rq
  <1>7. rq \notin sent
    BY <1>5, <1>6 DEF ApproversInv, NoncesOK, NoncesDiffer
  <1>8. IsFiniteSet(sent') /\ Cardinality(sent') = n
    BY <1>1, <1>4, <1>7, FS_AddElement
  <1>9. ApproversTypeOK'
    BY <1>1, <1>3, <1>4, <1>6, <1>8 DEF ApproversInv, ApproversTypeOK
  <1>10. NoncesDiffer'
    <2>1. \A r \in sent : r.nonce <= Cardinality(sent) /\ r.nonce \in Nat
      BY <1>4 DEF ApproversInv, NoncesOK, NoncesDiffer, Request, Nonce
    <2>2. \A r \in sent' : r.nonce <= Cardinality(sent')
      BY <1>1, <1>5, <1>6, <1>8, <2>1
    <2>3. \A r, q \in sent' : r.nonce = q.nonce => r = q
      BY <1>1, <1>5, <1>6, <2>1 DEF ApproversInv, NoncesOK, NoncesDiffer
    <2> QED BY <2>2, <2>3 DEF NoncesDiffer
  <1>11. served[n] = 0
    BY <1>1, <1>4, <1>5 DEF ApproversInv, NoncesOK, NoncesDiffer, Request, Nonce
  <1>12. \A r \in sent' : Consumed(r)'
    BY <1>1, <1>6, <1>11 DEF ApproversInv, NoncesOK, Consumed
  <1>13. NoncesOK'
    BY <1>1, <1>10, <1>12 DEF ApproversInv, NoncesOK, InTime, ListedOnce
  <1> QED BY <1>3, <1>9, <1>13 DEF ApproversInv

\* A session begins with a question.
LEMMA AskKeeps ==
    ASSUME ApproversInv, NEW a \in Approver, NEW via \in Via, NEW e \in Drift, Ask(a, via, e)
    PROVE  ApproversInv'
  <1> DEFINE c == [Away EXCEPT !.pc = "asked", !.via = via, !.off = e]
  <1>1. e \in Int
    BY ApproversAssumption
  <1>2. c \in Session /\ c.pc = "asked"
    BY <1>1, TypeFacts DEF Session, Away
  <1>3. SendList(a, c) /\ UNCHANGED <<now, server, statements>>
    BY DEF Ask
  <1> HIDE DEF c
  <1>4. ASSUME NEW n \in Nonce PROVE Looks([c EXCEPT !.nonce = n])
    <2> DEFINE x == [c EXCEPT !.nonce = n]
    <2>1. x.pc = "asked"
      BY <1>2 DEF Session
    <2> HIDE DEF x
    <2>2. Looks(x)
      BY <2>1 DEF Looks
    <2> QED BY <2>2 DEF x
  <1> QED BY <1>2, <1>3, <1>4, SendListKeeps

\* The command's approver says yes to the row that was printed.
LEMMA ConfirmKeeps ==
    ASSUME ApproversInv, NEW a \in Approver, NEW d \in Dec, NEW o \in {"approved", "rejected"},
           Confirm(a, d, o)
    PROVE  ApproversInv'
  <1> DEFINE c == client[a]
             e == [c EXCEPT !.pc = "ready", !.dec = d, !.outcome = o, !.seen = c.rows[d]]
  <1>1. /\ c.pc = "shown" /\ c.via = "command" /\ d \in DOMAIN c.rows
        /\ client' = [client EXCEPT ![a].pc = "ready", ![a].dec = d, ![a].outcome = o,
                                    ![a].seen = c.rows[d]]
        /\ UNCHANGED <<now, calls, recorded, held, answer, nonces, served, handler, sent, statements>>
    BY DEF Confirm, server
  <1>2. c \in Session /\ Looks(c) /\ client \in [Approver -> Session]
    BY DEF ApproversInv, ApproversTypeOK, SeenOK
  <1>3. client' = [client EXCEPT ![a] = e]
    BY <1>1, <1>2
  <1>4. c.rows[d] \in Row
    BY <1>1, <1>2, RowsFacts DEF Session
  <1>5. /\ e \in Session /\ e.pc = "ready" /\ e.via = "command" /\ e.dec = d /\ e.rows = c.rows
        /\ e.seen = c.rows[d]
    <2> DEFINE r == c.rows[d]
               rs == c.rows
    <2>1. d \in 0..MaxCalls /\ o \in Outcome /\ r \in Row \cup {NoRow}
      BY <1>4, ApproversAssumption DEF Dec, Outcome
    <2>2. c \in Session /\ c.via = "command"
      BY <1>1, <1>2
    <2>3. rs \in Rows /\ e = [c EXCEPT !.pc = "ready", !.dec = d, !.outcome = o, !.seen = r, !.rows = rs]
      BY <2>2 DEF Session
    <2> HIDE DEF c, e, r, rs
    <2>4. e \in Session /\ e.pc = "ready" /\ e.via = "command" /\ e.dec = d
      BY <2>1, <2>2, <2>3 DEF Session
    <2>5. e.rows = rs /\ e.seen = r
      BY <2>1, <2>2, <2>3 DEF Session
    <2> QED BY <2>4, <2>5 DEF r, rs
  <1> HIDE DEF e
  <1>6. Looks(e)
    BY <1>1, <1>2, <1>5 DEF Looks
  <1>7. client' \in [Approver -> Session] /\ SeenOK' /\ \A x \in Dec : Allowed(x)'
    BY <1>1, <1>3, <1>5, <1>6, SessionKeeps
  <1>8. NoncesOK'
    BY <1>1, NoncesSame DEF ApproversInv
  <1>9. ApproversTypeOK'
    BY <1>1, <1>7 DEF ApproversInv, ApproversTypeOK
  <1> QED BY <1>7, <1>8, <1>9 DEF ApproversInv

\* The console lists again when its button is pressed.
LEMMA PressKeeps ==
    ASSUME ApproversInv, NEW a \in Approver, NEW d \in Dec, NEW o \in {"approved", "rejected"},
           Press(a, d, o)
    PROVE  ApproversInv'
  <1> DEFINE c == client[a]
             e == [c EXCEPT !.pc = "again", !.dec = d, !.outcome = o, !.seen = c.rows[d],
                            !.rows = NoRows]
  <1>1. /\ c.pc = "shown" /\ c.via = "console" /\ d \in DOMAIN c.rows
        /\ SendList(a, e) /\ UNCHANGED <<now, server, statements>>
    BY DEF Press
  <1>2. c \in Session /\ Looks(c)
    BY DEF ApproversInv, ApproversTypeOK, SeenOK
  <1>3. c.rows[d] \in Row
    BY <1>1, <1>2, RowsFacts DEF Session
  <1>4. /\ e \in Session /\ e.pc = "again" /\ e.via = "console" /\ e.dec = d
        /\ e.seen = c.rows[d]
    <2> DEFINE r == c.rows[d]
               rs == NoRows
    <2>1. d \in 0..MaxCalls /\ o \in Outcome /\ r \in Row \cup {NoRow}
      BY <1>3, ApproversAssumption DEF Dec, Outcome
    <2>2. c \in Session /\ c.via = "console"
      BY <1>1, <1>2
    <2>3. rs \in Rows /\ e = [c EXCEPT !.pc = "again", !.dec = d, !.outcome = o, !.seen = r, !.rows = rs]
      BY TypeFacts
    <2> HIDE DEF c, e, r, rs
    <2>4. e \in Session /\ e.pc = "again" /\ e.via = "console" /\ e.dec = d
      BY <2>1, <2>2, <2>3 DEF Session
    <2>5. e.rows = rs /\ e.seen = r
      BY <2>1, <2>2, <2>3 DEF Session
    <2> QED BY <2>4, <2>5 DEF r, rs
  <1> HIDE DEF e
  <1>5. ASSUME NEW n \in Nonce PROVE Looks([e EXCEPT !.nonce = n])
    <2> DEFINE x == [e EXCEPT !.nonce = n]
    <2>1. /\ x.pc = "again" /\ x.via = "console" /\ x.dec = d
          /\ x.seen = c.rows[d]
      BY <1>4 DEF Session
    <2> HIDE DEF x
    <2>2. Looks(x)
      BY <1>1, <1>2, <2>1 DEF Looks
    <2> QED BY <2>2 DEF x
  <1> QED BY <1>1, <1>4, <1>5, SendListKeeps

\* What is signed is the row the client checked.
LEMMA SignKeeps ==
    ASSUME ApproversInv, NEW a \in Approver, NEW ttl \in TTL, Sign(a, ttl)
    PROVE  ApproversInv'
  <1> DEFINE c == client[a]
             st == Statement(a, c, ttl)
             r == c.rows[c.dec]
  <1>1. /\ c.pc = "ready" /\ Check(r) /\ statements' = statements \cup {st}
        /\ client' = [client EXCEPT ![a] = Away]
        /\ UNCHANGED <<now, calls, recorded, held, answer, nonces, served, handler, sent>>
    BY DEF Sign, server
  <1>2. c \in Session /\ Looks(c) /\ client \in [Approver -> Session] /\ now \in Nat
    BY DEF ApproversInv, ApproversTypeOK, SeenOK
  <1>3. c.dec \in DOMAIN c.rows
    BY <1>1, <1>2 DEF Looks
  <1>4. r \in Row /\ c.dec \in Dec
    BY <1>2, <1>3, RowsFacts DEF Session
  <1>5. ttl \in Nat
    BY ApproversAssumption
  <1>6. st \in StatementType
    BY <1>2, <1>4, <1>5 DEF Statement, StatementType, Session, Row
  <1>7. /\ st.via = c.via /\ st.seen = c.seen /\ st.dec = c.dec
        /\ st.who = r.who /\ st.commit = r.commit
    BY DEF Statement
  <1> HIDE DEF st
  <1>8. Says(st)
    <2>1. ASSUME st.via = "command"
          PROVE  st.seen = [who |-> st.who, args |-> st.commit, commit |-> st.commit]
      <3>1. st.seen = r
        BY <1>1, <1>2, <1>7, <2>1 DEF Looks
      <3> QED BY <1>1, <1>4, <1>7, <3>1 DEF Row, Check
    <2> QED BY <2>1 DEF Says
  <1>9. ApproversTypeOK'
    BY <1>1, <1>2, <1>6, TypeFacts DEF ApproversInv, ApproversTypeOK
  <1>10. NoncesOK' /\ \A x \in Dec : Allowed(x)'
    BY <1>1, NoncesSame, AllowedSame DEF ApproversInv
  <1>11. SeenOK'
    <2>1. ASSUME NEW b \in Approver PROVE Looks(client[b])'
      <3>1. Looks(client'[b])
        BY <1>1, <1>2, TypeFacts DEF ApproversInv, SeenOK
      <3> QED BY <1>1, <3>1 DEF Looks
    <2>2. \A x \in statements' : Says(x)'
      BY <1>1, <1>8 DEF ApproversInv, SeenOK, Says
    <2> QED BY <1>1, <2>1, <2>2 DEF ApproversInv, SeenOK, ShownIsRecorded
  <1> QED BY <1>9, <1>10, <1>11 DEF ApproversInv

\* A session may end at any time.
LEMMA GiveUpKeeps ==
    ASSUME ApproversInv, NEW a \in Approver, GiveUp(a)
    PROVE  ApproversInv'
  <1>1. /\ client' = [client EXCEPT ![a] = Away]
        /\ UNCHANGED <<now, calls, recorded, held, answer, nonces, served, handler, sent, statements>>
    BY DEF GiveUp, server
  <1>2. client' \in [Approver -> Session] /\ SeenOK' /\ \A x \in Dec : Allowed(x)'
    BY <1>1, TypeFacts, SessionKeeps
  <1>3. NoncesOK'
    BY <1>1, NoncesSame DEF ApproversInv
  <1>4. ApproversTypeOK'
    BY <1>1, <1>2 DEF ApproversInv, ApproversTypeOK
  <1> QED BY <1>2, <1>3, <1>4 DEF ApproversInv

\* Time passes for everybody, but not past a goroutine that waits too long.
LEMMA TickKeeps == ASSUME ApproversInv, Tick PROVE ApproversInv'
  <1>1. /\ now' = now + 1
        /\ \A h \in Handler : handler[h].pc = "checked" => now < handler[h].at + MaxDelay
        /\ UNCHANGED <<calls, recorded, held, answer, nonces, served, handler, sent, client, statements>>
    BY DEF Tick, server
  <1>2. now \in Nat /\ Skew \in Nat /\ MaxDelay \in Nat
    BY ApproversAssumption DEF ApproversInv, ApproversTypeOK
  <1>3. ApproversTypeOK'
    BY <1>1, <1>2 DEF ApproversInv, ApproversTypeOK
  <1>4. SeenOK' /\ \A d \in Dec : Allowed(d)'
    BY <1>1, SeenSame, AllowedSame DEF ApproversInv
  <1>5. \A h \in Handler : InTime(h)'
    <2> SUFFICES ASSUME NEW h \in Handler PROVE InTime(h)'
      OBVIOUS
    <2>1. InTime(h) /\ handler[h].at \in Nat
      BY DEF ApproversInv, ApproversTypeOK, NoncesOK
    <2> QED BY <1>1, <1>2, <2>1 DEF InTime
  <1>6. \A r \in sent' : Consumed(r)'
    <2> SUFFICES ASSUME NEW r \in sent PROVE Consumed(r)'
      BY <1>1
    <2>1. r.ts \in Int /\ Consumed(r)
      BY DEF ApproversInv, ApproversTypeOK, NoncesOK, Request
    <2> QED BY <1>1, <1>2, <2>1 DEF Consumed
  <1>7. NoncesOK'
    BY <1>1, <1>5, <1>6 DEF ApproversInv, NoncesOK, NoncesDiffer, ListedOnce
  <1> QED BY <1>3, <1>4, <1>7 DEF ApproversInv

-----------------------------------------------------------------------------
(* The theorems. *)

\* At first nothing is held, sent or signed.
LEMMA ApproversInit == ASSUME Init PROVE ApproversInv
  <1>1. DOMAIN nonces = {} /\ sent = {} /\ statements = {} /\ recorded = {}
    BY DEF Init
  <1>2. IsFiniteSet(sent) /\ Cardinality(sent) = 0
    BY <1>1, FS_EmptySet
  <1>3. calls \in Seq(Call) /\ Len(calls) = 0
    BY DEF Init
  <1>4. ApproversTypeOK
    BY <1>1, <1>2, <1>3, TypeFacts, ApproversAssumption DEF Init, ApproversTypeOK
  <1>5. NoncesOK
    BY <1>1, TypeFacts DEF Init, NoncesOK, NoncesDiffer, InTime, ListedOnce
  <1>6. SeenOK
    BY <1>1, TypeFacts DEF Init, SeenOK, ShownIsRecorded
  <1>7. \A d \in Dec : Allowed(d)
    BY TypeFacts DEF Init, Allowed
  <1> QED BY <1>4, <1>5, <1>6, <1>7 DEF ApproversInv

\* No step of the server, a client, the network or the clock breaks the invariant.
LEMMA ApproversStep == ASSUME ApproversInv, [Next]_vars PROVE ApproversInv'
  <1>1. CASE UNCHANGED vars
    <2>1. ApproversTypeOK'
      BY <1>1 DEF vars, ApproversInv, ApproversTypeOK
    <2> QED BY <1>1, <2>1, NoncesSame, SeenSame, AllowedSame DEF vars, ApproversInv
  <1>2. ASSUME NEW c \in Call, Hold(c) PROVE ApproversInv'
    BY <1>2, HoldKeeps
  <1>3. ASSUME NEW d \in Dec, Resume(d) PROVE ApproversInv'
    BY <1>3, HeldKeeps DEF Resume
  <1>4. ASSUME NEW d \in Dec, NEW o \in {"none", "waiting"}, Finish(d, o) PROVE ApproversInv'
    BY <1>4, HeldKeeps DEF Finish
  <1>5. ASSUME NEW h \in Handler, NEW rq \in sent, Receive(h, rq) PROVE ApproversInv'
    BY <1>5, ReceiveKeeps
  <1>6. ASSUME NEW h \in Handler, Authenticate(h) PROVE ApproversInv'
    BY <1>6, AuthenticateKeeps
  <1>7. ASSUME NEW h \in Handler, NEW rows \in Replies, Reply(h, rows) PROVE ApproversInv'
    BY <1>7, ReplyKeeps
  <1>8. ASSUME NEW st \in statements, Submit(st) PROVE ApproversInv'
    BY <1>8, SubmitKeeps
  <1>9. ASSUME NEW a \in Approver, NEW via \in {"command", "console"}, NEW e \in Drift, Ask(a, via, e)
        PROVE  ApproversInv'
    BY <1>9, AskKeeps DEF Via
  <1>10. ASSUME NEW a \in Approver, NEW d \in Dec, NEW o \in {"approved", "rejected"},
                Confirm(a, d, o) \/ Press(a, d, o)
         PROVE  ApproversInv'
    BY <1>10, ConfirmKeeps, PressKeeps
  <1>11. ASSUME NEW a \in Approver, NEW ttl \in TTL, Sign(a, ttl) PROVE ApproversInv'
    BY <1>11, SignKeeps
  <1>12. ASSUME NEW a \in Approver, GiveUp(a) PROVE ApproversInv'
    BY <1>12, GiveUpKeeps
  <1>13. CASE Restart \/ Tick
    BY <1>13, RestartKeeps, TickKeeps
  <1> QED BY <1>1, <1>2, <1>3, <1>4, <1>5, <1>6, <1>7, <1>8, <1>9, <1>10, <1>11, <1>12, <1>13
          DEF Next

\* The invariant holds in every reachable state, and every variable has its type.
THEOREM ApproversInvariant == Spec => [](ApproversInv /\ ApproversTypeOK)
  <1>1. ApproversInv => ApproversTypeOK
    BY DEF ApproversInv
  <1> QED BY <1>1, ApproversInit, ApproversStep, PTL DEF Spec

\* A signed list request is answered at most once by a server process, for any
\* clock skew, as long as no goroutine waits for the lock for longer than the skew.
THEOREM ApproversListedOnce == Spec => []ListedOnce
  <1>1. ApproversInv => ListedOnce
    BY DEF ApproversInv, NoncesOK
  <1> QED BY <1>1, ApproversInvariant, PTL

\* An approval receipt is about the call its approver had in front of them,
\* whatever replies the server made up for `warden approve`, and for the console
\* when its two lists told the truth.
THEOREM ApproversShownIsRecorded == Spec => []ShownIsRecorded
  <1>1. ApproversInv => ShownIsRecorded
    BY DEF ApproversInv, SeenOK
  <1> QED BY <1>1, ApproversInvariant, PTL

\* A call starts to run only under an approval of its own decision that was
\* recorded less than MaxTTL + Skew ago.
THEOREM ApproversAuthorityLapses == Spec => AuthorityLapses
  <1> DEFINE Lapse == \A d \in Dec : held[d] = "waiting" /\ held'[d] = "running" =>
                        \E r \in recorded : /\ r.st.dec = d /\ r.st.outcome = "approved"
                                            /\ now < r.at + MaxTTL + Skew
  <1>1. ApproversInv /\ [Next]_vars => [Lapse]_vars
    <2> SUFFICES ASSUME ApproversInv, Next, NEW d \in Dec, held[d] = "waiting", held'[d] = "running"
                 PROVE  \E r \in recorded : /\ r.st.dec = d /\ r.st.outcome = "approved"
                                            /\ now < r.at + MaxTTL + Skew
      OBVIOUS
    <2>1. held \in [Dec -> {"none", "waiting", "running"}] /\ now \in Nat
          /\ answer[d].expires \in Int /\ recorded \subseteq [st : StatementType, at : Nat]
      BY DEF ApproversInv, ApproversTypeOK
    <2>2. Resume(d)
      <3>1. \A c \in Call : ~Hold(c)
        BY <2>1 DEF Hold
      <3>2. \A e \in Dec, o \in {"none", "waiting"} : ~Finish(e, o)
        BY <2>1 DEF Finish
      <3>3. \A e \in Dec : Resume(e) => e = d
        BY <2>1 DEF Resume
      <3>4. UNCHANGED held => FALSE
        OBVIOUS
      <3>5. /\ \A h \in Handler, rq \in sent : ~Receive(h, rq)
            /\ \A h \in Handler : ~Authenticate(h)
            /\ \A h \in Handler, rows \in Replies : ~Reply(h, rows)
            /\ \A st \in statements : ~Submit(st)
        BY <3>4 DEF Receive, Authenticate, Reply, Submit
      <3>6. /\ \A a \in Approver, via \in {"command", "console"}, e \in Drift : ~Ask(a, via, e)
            /\ \A a \in Approver, e \in Dec, o \in {"approved", "rejected"} :
                 ~Confirm(a, e, o) /\ ~Press(a, e, o)
            /\ \A a \in Approver, ttl \in TTL : ~Sign(a, ttl)
            /\ \A a \in Approver : ~GiveUp(a)
        BY <3>4 DEF Ask, Confirm, Press, Sign, GiveUp, server
      <3>7. ~Restart /\ ~Tick
        BY <3>4 DEF Restart, Tick, server
      <3> QED BY <3>1, <3>2, <3>3, <3>5, <3>6, <3>7 DEF Next
    <2>3. answer[d].outcome = "approved" /\ now < answer[d].expires
      BY <2>2 DEF Resume
    <2>4. PICK r \in recorded : /\ r.st.dec = d /\ r.st.outcome = "approved"
                                /\ answer[d].expires <= r.at + MaxTTL + Skew
      BY <2>3 DEF ApproversInv, Allowed
    <2>5. r.at \in Nat /\ MaxTTL \in Nat /\ Skew \in Nat
      BY <2>1, ApproversAssumption
    <2> QED BY <2>1, <2>3, <2>4, <2>5
  <1> QED BY <1>1, ApproversInvariant, PTL DEF Spec, AuthorityLapses
=============================================================================
