------------------------------- MODULE Gateway -------------------------------
(***************************************************************************)
(* The pipeline every tool call of an agent goes through                   *)
(* (internal/gateway/gateway.go): Call, Approve, Resume and execute, run   *)
(* by concurrent request goroutines over one receipt log.                  *)
(*                                                                         *)
(* A worker is one request goroutine.  A step of a worker is one critical  *)
(* section (of mu or of receiptMu), one exchange with the tool server, or  *)
(* the code between two of them; the fields of req[w] are its local        *)
(* variables.  What the code refuses without changing anything (a bad      *)
(* credential, an unreachable tool server, an approval that does not       *)
(* verify) is a step that changes no variable, so it is no action here.    *)
(*                                                                         *)
(* Simplifications:                                                        *)
(*  - the answers of the tool server, of the credential broker and of the  *)
(*    disk are chosen freely at each exchange;                             *)
(*  - commitments and their stored openings, argument bytes, scrubbing and *)
(*    the wording of responses are left out; a failed SaveOpening is not;  *)
(*  - two calls of one credential, tool and manifest are the same Call,    *)
(*    though the salt in their argument commitments tells them apart, so   *)
(*    the model accepts more statements than the code;                     *)
(*  - Pending and ListPending only read, and are left out.                 *)
(***************************************************************************)
EXTENDS ReceiptRules, FiniteSets

CONSTANTS
    Worker,         \* request goroutines
    Approver,       \* people whose approver key is trusted
    Reviewed,       \* tools with a pinned manifest in the registry
    Fitting,        \* tools whose arguments fit the reviewed input schema
    Proposal,       \* the <<credential, tool>> pairs that agents propose
    Served,         \* manifests the tool server may describe: pinned, changed, down
    Cedar,          \* what the policy set answers: [Question -> {"permit", "forbid", "error"}]
    CredUntil,      \* [Ident -> Nat]: when the task credential expires
    MaxTime,        \* bound on the clock
    MaxLog,         \* receipt.MaxSeq + 1, the most receipts a chain holds
    MaxStatements,  \* bound on the stored approver statements
    MaxTTL,         \* approval.Limits.MaxTTL
    ClockSkew       \* approval.Limits.ClockSkew

PolicyVerdict == {"allow", "deny", "require_approval"}

\* May this call be made, and may it be made without asking anybody?
Question == {"call", "unattended"} \X Ident \X Tool \X SUBSET Label

ASSUME GatewayAssumption ==
    /\ Approver \subseteq Person
    /\ Proposal \subseteq Ident \X Tool
    /\ Served \subseteq Manifest \cup {"down"}
    /\ Cedar \in [Question -> {"permit", "forbid", "error"}]
    /\ CredUntil \in [Ident -> Nat]
    /\ MaxTime \in Nat
    /\ MaxLog \in Nat
    /\ MaxStatements \in Nat
    /\ MaxTTL \in Nat
    /\ ClockSkew \in Nat
    \* model values for the idle worker's fillers
    /\ Ident # {} /\ Tool # {}

VARIABLES
    log,         \* the receipts in the database, in order
    behind,      \* the store's appender missed a row that is in the database
    statements,  \* the approvers' signed statements in the database
    pending,     \* calls held for approval, by decision position
    taint,       \* taint labels, by task
    req,         \* what each worker is doing
    now,         \* Warden's clock
    runs,        \* history: times a decision's tool was invoked, 2 for more than once
    heard        \* history: labels of the results this process delivered to a task

vars == <<log, behind, statements, pending, taint, req, now, runs, heard>>

Pos == 1..MaxLog
Time == 0..MaxTime

NoAnswer == [outcome |-> "none", approver |-> Nobody, expires |-> 0]
NotHeld == [held |-> FALSE, running |-> FALSE, answer |-> NoAnswer]

SomeCall == [tool |-> CHOOSE t \in Tool : TRUE, man |-> "pinned"]
Idle == [ pc |-> "idle", op |-> "call", ident |-> CHOOSE i \in Ident : TRUE,
          call |-> SomeCall, verdict |-> "deny", taint |-> {}, dec |-> 0,
          at |-> 0, status |-> "none", labels |-> {} ]

Answered == [ outcome  : {"none", "approved", "rejected"},
              approver : Person \cup {Nobody},
              expires  : Nat ]

HeldCall == [held : BOOLEAN, running : BOOLEAN, answer : Answered]

Request ==
    [ pc      : {"idle", "decide", "record", "hold", "admit", "prepare",
                 "invoke", "result", "taint", "return"},
      op      : {"call", "resume"},
      ident   : Ident,
      call    : Call,
      verdict : PolicyVerdict,
      taint   : SUBSET Label,
      dec     : Nat,
      at      : Nat,
      status  : {"none", "ok", "error", "failed"},
      labels  : SUBSET Label ]

SignedStatement ==
    [ dec : Nat, ident : Ident, call : Call, outcome : {"approved", "rejected"},
      approver : Person, expires : Nat ]

TypeOK ==
    /\ log \in Seq(Receipt)
    /\ Len(log) <= MaxLog
    /\ behind \in BOOLEAN
    /\ statements \subseteq SignedStatement
    /\ pending \in [Pos -> HeldCall]
    /\ taint \in [Task -> SUBSET Label]
    /\ req \in [Worker -> Request]
    /\ now \in Nat
    /\ runs \in [Pos -> 0..2]
    /\ heard \in [Task -> SUBSET Label]

Init ==
    /\ log = <<>>
    /\ behind = FALSE
    /\ statements = {}
    /\ pending = [d \in Pos |-> NotHeld]
    /\ taint = [t \in Task |-> {}]
    /\ req = [w \in Worker |-> Idle]
    /\ now = 0
    /\ runs = [d \in Pos |-> 0]
    /\ heard = [t \in Task |-> {}]

-----------------------------------------------------------------------------
(* Store.Append under receiptMu, as its callers see it. *)

\* Faulty variant: the sequence may run past its end.
CanAppend_Endless(r) == ~behind /\ (log # <<>> => log[Len(log)].ts <= r.ts)

\* What the appender checks before it signs: room in the chain and time order.
\* An appender that missed a row offers its sequence number again, and the
\* database refuses the row.
CanAppend(r) ==
    /\ ~behind
    /\ Len(log) < MaxLog
    /\ log # <<>> => log[Len(log)].ts <= r.ts

AppendOK(r) ==
    /\ CanAppend(r)
    /\ log' = Append(log, r)
    /\ UNCHANGED behind

\* The append reports an error.  Nothing is written, or the row is in the
\* database all the same and the appender has rolled itself back.
AppendError(r) ==
    \/ UNCHANGED <<log, behind>>
    \/ /\ CanAppend(r)
       /\ log' = Append(log, r)
       /\ behind' = TRUE

-----------------------------------------------------------------------------
(* Call *)

\* The certificate profile is that of Ident; what is left to check is its time.
VerifyTask(i) == now <= CredUntil[i]

\* The manifest lookup and commitArgs.
CallBegin(w, i, t, m) ==
    /\ req[w].pc = "idle"
    /\ VerifyTask(i)
    /\ req' = [req EXCEPT ![w] = [Idle EXCEPT !.pc = "decide", !.ident = i,
                                              !.call = [tool |-> t, man |-> m]]]
    /\ UNCHANGED <<log, behind, statements, pending, taint, now, runs, heard>>

\* Registry.Check: the tool is reviewed and its manifest is the reviewed one.
Pinned(call) == call.tool \in Reviewed /\ call.man = "pinned"

\* checkArgs: the arguments fit the reviewed schema.
Fits(call) == call.tool \in Fitting

\* Engine.Decide: an evaluation error denies, and a call that may not be made
\* unattended needs approval.
PolicyDecide(i, call, labels) ==
    LET answer(q) == Cedar[<<q, i, call.tool, labels>>] IN
    IF answer("call") # "permit" \/ answer("unattended") = "error" THEN "deny"
    ELSE IF answer("unattended") = "permit" THEN "allow"
    ELSE "require_approval"

Verdict(i, call, labels) ==
    IF Pinned(call) /\ Fits(call) THEN PolicyDecide(i, call, labels) ELSE "deny"

\* taintOf and the decision made from what it returned.
Decide(w) ==
    /\ req[w].pc = "decide"
    /\ LET labels == taint[TaskOf[req[w].ident]] IN
       req' = [req EXCEPT ![w].pc = "record", ![w].taint = labels,
                          ![w].verdict = Verdict(req[w].ident, req[w].call, labels)]
    /\ UNCHANGED <<log, behind, statements, pending, taint, now, runs, heard>>

\* A worker that goes on with decision d needs nothing but the decision.
GoOn(pc, op, d) == [Idle EXCEPT !.pc = pc, !.op = op, !.dec = d]

\* The write-ahead decision receipt.  Without it the call is refused.
RecordDecision(w) ==
    /\ req[w].pc = "record"
    /\ LET q == req[w]
           r == Decision(now, q.ident, q.call, q.verdict, q.taint)
       IN \/ /\ AppendOK(r)
             /\ req' = [req EXCEPT ![w] =
                  CASE q.verdict = "deny"             -> Idle
                    [] q.verdict = "require_approval" -> GoOn("hold", "call", Len(log) + 1)
                    [] q.verdict = "allow"            -> GoOn("prepare", "call", Len(log) + 1)]
          \/ /\ AppendError(r)
             /\ req' = [req EXCEPT ![w] = Idle]
    /\ UNCHANGED <<statements, pending, taint, now, runs, heard>>

\* A call that needs approval waits in memory and the request returns.
Hold(w) ==
    /\ req[w].pc = "hold"
    /\ pending' = [pending EXCEPT ![req[w].dec] = [NotHeld EXCEPT !.held = TRUE]]
    /\ req' = [req EXCEPT ![w] = Idle]
    /\ UNCHANGED <<log, behind, statements, taint, now, runs, heard>>

-----------------------------------------------------------------------------
(* Approve, which holds mu and receiptMu from the lookup to the answer. *)

\* Faulty variant: an answered call can be answered again.
Answerable_Again(d) == pending[d].held

\* The call waiting under d can still be answered.
Answerable(d) == pending[d].held /\ pending[d].answer.outcome = "none"

\* Faulty variant: the call digest in the statement is not compared.
Accept_AnyCall(st) ==
    /\ log[st.dec].verdict = "require_approval"
    /\ st.approver \in Approver
    /\ st.approver # PrincipalOf[log[st.dec].ident]
    /\ now < st.expires

\* approval.Accept: the statement was signed by a trusted approver other than
\* the principal, over the call this decision is about, and is fresh.
Accept(st) ==
    /\ log[st.dec].verdict = "require_approval"
    /\ st.ident = log[st.dec].ident /\ st.call = log[st.dec].call
    /\ st.approver \in Approver
    /\ st.approver # PrincipalOf[log[st.dec].ident]
    /\ \E ts \in 0..(now + ClockSkew) : ts < st.expires /\ st.expires <= ts + MaxTTL
    /\ now < st.expires

\* A statement for decision d over the call of decision shown.
Statement(d, shown, outcome, a, expires) ==
    [ dec |-> d, ident |-> log[shown].ident, call |-> log[shown].call,
      outcome |-> outcome, approver |-> a, expires |-> expires ]

\* The statement is stored, then the approval receipt, then the answer is set.
Approve(st) ==
    /\ Answerable(st.dec)
    /\ Accept(st)
    /\ Cardinality(statements \cup {st}) <= MaxStatements
    /\ statements' = statements \cup {st}
    /\ LET r == Approval(now, st.dec, log[st.dec].ident, log[st.dec].call,
                         st.outcome, st.approver, st.expires)
       IN \/ /\ AppendOK(r)
             /\ pending' = [pending EXCEPT ![st.dec].answer =
                  [outcome |-> st.outcome, approver |-> st.approver, expires |-> st.expires]]
          \/ /\ AppendError(r)
             /\ UNCHANGED pending
    /\ UNCHANGED <<taint, req, now, runs, heard>>

-----------------------------------------------------------------------------
(* Resume *)

\* The clock is read and the credential verified before mu is taken.
ResumeBegin(w, i, d) ==
    /\ req[w].pc = "idle"
    /\ VerifyTask(i)
    /\ req' = [req EXCEPT ![w] = [Idle EXCEPT !.pc = "admit", !.op = "resume",
                                              !.ident = i, !.dec = d, !.at = now]]
    /\ UNCHANGED <<log, behind, statements, pending, taint, now, runs, heard>>

\* Faulty variant: any answer will do.
Admissible_AnyOutcome(q) ==
    LET p == pending[q.dec] IN
    /\ p.held /\ ~p.running /\ q.ident = log[q.dec].ident
    /\ p.answer.outcome # "none" /\ q.at < p.answer.expires

\* Faulty variant: a running call can be resumed.
Admissible_Running(q) ==
    LET p == pending[q.dec] IN
    /\ p.held /\ q.ident = log[q.dec].ident
    /\ p.answer.outcome = "approved" /\ q.at < p.answer.expires

\* The five refusals of Resume, none of which may hold.
Admissible(q) ==
    LET p == pending[q.dec] IN
    /\ p.held /\ ~p.running
    /\ q.ident = log[q.dec].ident
    /\ p.answer.outcome = "approved"
    /\ q.at < p.answer.expires

ResumeAdmit(w) ==
    /\ req[w].pc = "admit"
    /\ LET q == req[w] IN
       \/ /\ Admissible(q)
          /\ pending' = [pending EXCEPT ![q.dec].running = TRUE]
          /\ req' = [req EXCEPT ![w] = GoOn("prepare", "resume", q.dec)]
       \/ /\ ~Admissible(q)
          /\ req' = [req EXCEPT ![w] = Idle]
          /\ UNCHANGED pending
    /\ UNCHANGED <<log, behind, statements, taint, now, runs, heard>>

-----------------------------------------------------------------------------
(* execute, shared by an allowed Call and an admitted Resume. *)

\* Broker.For, and the manifest once more: m is what the tool server says now.
Prepare(w, hasCred, m) ==
    /\ req[w].pc = "prepare"
    /\ LET c == log[req[w].dec].call IN
       req' = [req EXCEPT ![w] =
         IF hasCred /\ Pinned([tool |-> c.tool, man |-> m]) /\ m = c.man
         THEN [@ EXCEPT !.pc = "invoke"]
         ELSE [@ EXCEPT !.pc = "result", !.status = "error"]]
    /\ UNCHANGED <<log, behind, statements, pending, taint, now, runs, heard>>

Saturate(n) == IF n >= 2 THEN 2 ELSE n

\* Upstream.Call.  The tool may fail (no labels), or answer with content that
\* carries labels and that may itself report an error.  Storing the opening of
\* the content may fail, and then execute returns without a result receipt.
Invoke(w) ==
    /\ req[w].pc = "invoke"
    /\ runs' = [runs EXCEPT ![req[w].dec] = Saturate(@ + 1)]
    /\ \/ \E status \in {"ok", "error"}, labels \in SUBSET Label :
            req' = [req EXCEPT ![w].pc = "result", ![w].status = status,
                               ![w].labels = labels]
       \/ req' = [req EXCEPT ![w].pc = "return", ![w].status = "failed"]
    /\ UNCHANGED <<log, behind, statements, pending, taint, now, heard>>

\* Faulty variant: the result is returned although it could not be receipted.
RecordResult_Unrecorded(w) ==
    /\ req[w].pc = "result"
    /\ AppendError(Result(now, req[w].dec, log[req[w].dec].ident, log[req[w].dec].call,
                          req[w].status, req[w].labels))
    /\ req' = [req EXCEPT ![w].pc = "taint"]
    /\ UNCHANGED <<statements, pending, taint, now, runs, heard>>

\* The result receipt.  Without it the result is withheld.
RecordResult(w) ==
    /\ req[w].pc = "result"
    /\ LET q == req[w]
           r == Result(now, q.dec, log[q.dec].ident, log[q.dec].call, q.status, q.labels)
       IN \/ /\ AppendOK(r)
             /\ req' = [req EXCEPT ![w].pc = "taint"]
          \/ /\ AppendError(r)
             /\ req' = [req EXCEPT ![w].pc = "return", ![w].status = "failed",
                                   ![w].labels = {}]
    /\ UNCHANGED <<statements, pending, taint, now, runs, heard>>

\* Faulty variant: the result goes out before the task is tainted.
AddTaint_Late(w) ==
    /\ req[w].pc = "taint"
    /\ heard' = [heard EXCEPT ![TaskOf[log[req[w].dec].ident]] = @ \cup req[w].labels]
    /\ req' = [req EXCEPT ![w].pc = "return"]
    /\ UNCHANGED <<log, behind, statements, pending, taint, now, runs>>

AddTaint(w) ==
    /\ req[w].pc = "taint"
    /\ taint' = [taint EXCEPT ![TaskOf[log[req[w].dec].ident]] = @ \cup req[w].labels]
    /\ req' = [req EXCEPT ![w].pc = "return"]
    /\ UNCHANGED <<log, behind, statements, pending, now, runs, heard>>

\* Faulty variant: a call that has run stays in the map, ready to be resumed.
Return_Kept(w) ==
    /\ req[w].pc = "return"
    /\ pending' = IF req[w].op = "call" THEN pending
                  ELSE [pending EXCEPT ![req[w].dec].running = FALSE]
    /\ req' = [req EXCEPT ![w] = Idle]
    /\ UNCHANGED <<log, behind, statements, taint, now, runs, heard>>

\* Faulty variant: a resumed call that failed keeps its running mark.
Return_Stuck(w) ==
    /\ req[w].pc = "return"
    /\ pending' = IF req[w].op = "call" \/ req[w].status = "failed" THEN pending
                  ELSE [pending EXCEPT ![req[w].dec] = NotHeld]
    /\ req' = [req EXCEPT ![w] = Idle]
    /\ UNCHANGED <<log, behind, statements, taint, now, runs, heard>>

\* The end of Call or of Resume.  A resumed call that failed can be resumed
\* again; one that did not is deleted.
Return(w) ==
    /\ req[w].pc = "return"
    /\ LET q == req[w] IN
       /\ pending' =
            IF q.op = "call" THEN pending
            ELSE IF q.status = "failed"
                 THEN [pending EXCEPT ![q.dec].running = FALSE]
                 ELSE [pending EXCEPT ![q.dec] = NotHeld]
       /\ heard' = [heard EXCEPT ![TaskOf[log[q.dec].ident]] = @ \cup q.labels]
    /\ req' = [req EXCEPT ![w] = Idle]
    /\ UNCHANGED <<log, behind, statements, taint, now, runs>>

-----------------------------------------------------------------------------
(* The environment *)

\* The process stops, or is killed, and starts again over the same database.
\* Held calls and taint live in memory only.
Restart ==
    /\ req' = [w \in Worker |-> Idle]
    /\ pending' = [d \in Pos |-> NotHeld]
    /\ taint' = [t \in Task |-> {}]
    /\ heard' = [t \in Task |-> {}]
    /\ behind' = FALSE
    /\ UNCHANGED <<log, statements, now, runs>>

\* The wall clock moves; it may be stepped back.
SetClock(n) ==
    /\ now' = n
    /\ UNCHANGED <<log, behind, statements, pending, taint, req, runs, heard>>

Work(w) ==
    \/ Decide(w) \/ RecordDecision(w) \/ Hold(w)
    \/ ResumeAdmit(w)
    \/ \E hasCred \in BOOLEAN, m \in Served : Prepare(w, hasCred, m)
    \/ Invoke(w) \/ RecordResult(w) \/ AddTaint(w) \/ Return(w)

Next ==
    \/ \E w \in Worker, x \in Proposal, m \in Served \ {"down"} : CallBegin(w, x[1], x[2], m)
    \/ \E w \in Worker, i \in Ident : \E d \in 1..Len(log) : ResumeBegin(w, i, d)
    \/ \E w \in Worker : Work(w)
    \/ \E d \in 1..Len(log), shown \in 1..Len(log), outcome \in {"approved", "rejected"},
          a \in Person, expires \in 1..(MaxTime + 1) :
          Approve(Statement(d, shown, outcome, a, expires))
    \/ Restart
    \/ \E n \in Time : SetClock(n)

Spec == Init /\ [][Next]_vars
=============================================================================
