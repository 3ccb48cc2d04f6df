-------------------------- MODULE GatewayProperties --------------------------
(***************************************************************************)
(* What the gateway promises, stated over the module Gateway.              *)
(***************************************************************************)
EXTENDS Gateway

\* The worker is inside execute, for the decision req[w].dec.
Executing(w) == req[w].pc \in {"prepare", "invoke", "result", "taint", "return"}

\* The log holds a decision that lets its tool run: an allow, or a
\* require_approval answered with approved by a trusted person who is not the
\* principal of the call.
Authorized(d) ==
    /\ d \in 1..Len(log)
    /\ log[d].type = "decision"
    /\ \/ log[d].verdict = "allow"
       \/ /\ log[d].verdict = "require_approval"
          /\ \E j \in 1..Len(log) :
                /\ log[j].type = "approval" /\ log[j].dec = d
                /\ log[j].verdict = "approved"
                /\ log[j].approver \in Approver
                /\ log[j].approver # PrincipalOf[log[d].ident]

\* No receipt, no action (ADR-0004): whenever a tool has been invoked for a
\* decision, the log already holds that decision and, if it needed one, its
\* approval - whatever failed, crashed or raced in between.
NoReceiptNoAction == \A d \in Pos : runs[d] > 0 => Authorized(d)

\* The log the gateway writes passes the verifier's rules on time order,
\* references, duplicates, denials and approvals, under every interleaving of
\* requests, failed writes and restarts.  (Expiry is the separate
\* ResultsInTime.)
LogVerifies ==
    \A i \in 1..Len(log) : TimeRule(log, i) /\ ApprovalRule(log, i) /\ ResultRule(log, i)

\* Two requests never execute the same decision at the same time: running is
\* set and reset so that Resume and Resume, or Call and Resume, exclude each
\* other.
OneRunner ==
    \A v, w \in Worker : Executing(v) /\ Executing(w) /\ req[v].dec = req[w].dec => v = w

\* Every approval receipt is backed by a stored statement that the approver
\* signed over the very call of the decision, so it can be proven later
\* (ADR-0009).
ApprovalsBacked ==
    \A j \in 1..Len(log) : log[j].type = "approval" =>
        \E st \in statements :
            /\ st.dec = log[j].dec /\ st.outcome = log[j].verdict
            /\ st.approver = log[j].approver /\ st.expires = log[j].expires
            /\ st.ident = log[st.dec].ident /\ st.call = log[st.dec].call

\* What an agent was given is on record: a label that was delivered to a task
\* comes from a result receipt of that task.  A result that could not be
\* receipted is withheld.
DeliveredIsRecorded ==
    \A t \in Task : \A l \in heard[t] :
        \E j \in 1..Len(log) : /\ log[j].type = "result"
                               /\ TaskOf[log[j].ident] = t
                               /\ l \in log[j].taint

\* Once a tainted result has been delivered to a task, every later decision
\* for that task is made with its labels, although taint is read outside the
\* lock that orders the receipts.
DecidedWithTaint ==
    [][ \A w \in Worker :
          req[w].pc = "decide" /\ req'[w].pc = "record"
            => heard[TaskOf[req[w].ident]] \subseteq req'[w].taint ]_vars

\* A call whose result is on record is over: its tool is not invoked again,
\* except by a process whose store has lost track of the log and can record
\* nothing more.
RecordedResultEndsCall ==
    [][ \A d \in Pos : runs'[d] # runs[d] => behind \/ ~Resulted(log, Len(log) + 1, d) ]_vars

-----------------------------------------------------------------------------
(* The gateway implements the life of a call. *)

StageOf(d) ==
    IF d \notin 1..Len(log) \/ log[d].type # "decision" THEN "free"
    ELSE IF Resulted(log, Len(log) + 1, d) THEN "done"
    ELSE IF log[d].verdict = "deny" THEN "denied"
    ELSE IF log[d].verdict = "allow" THEN "cleared"
    ELSE IF \E j \in 1..Len(log) :
               ApprovalBefore(log, Len(log) + 1, d, j) /\ log[j].verdict = "approved"
         THEN "cleared"
    ELSE IF \E j \in 1..Len(log) : ApprovalBefore(log, Len(log) + 1, d, j)
         THEN "rejected"
    ELSE "waiting"

Life == INSTANCE CallLifecycle
          WITH Id    <- Pos,
               stage <- [d \in Pos |-> StageOf(d)],
               ran   <- {d \in Pos : runs[d] > 0},
               blind <- behind

\* Every behaviour of the gateway - concurrent requests, failed and half-failed
\* writes, restarts - is a life of each call as CallLifecycle tells it.
LifeOfCalls == Life!LSpec

-----------------------------------------------------------------------------
(* Liveness.  What a goroutine does by itself or with the local database, it
   does in the end: Go schedules it, and a disk answers, with an error if need
   be.  Nothing is assumed of the tool server - Warden's HTTP client and its
   stdio connection wait without limit - and nothing of agents, approvers, the
   clock or restarts. *)

\* The steps of a request that ask nobody outside.
OwnStep(w) ==
    \/ Decide(w) \/ RecordDecision(w) \/ Hold(w) \/ ResumeAdmit(w)
    \/ RecordResult(w) \/ AddTaint(w) \/ Return(w)

FairSpec == Spec /\ \A w \in Worker : WF_vars(OwnStep(w))

\* A request that runs decision d waits for the tool server: to describe its
\* tool once more, or to answer the call.
Outside(d) == \E w \in Worker : req[w].dec = d /\ req[w].pc \in {"prepare", "invoke"}

\* A resumed call stays marked as running for no longer than the tool server
\* is waited for: once it has answered, whatever the answer and whichever
\* write fails, the call is deleted or can be resumed again.
RunningEnds == \A d \in Pos : pending[d].running ~> ~pending[d].running \/ Outside(d)

-----------------------------------------------------------------------------
(* What the documents say and the code does not do. *)

\* ADR-0009 rule 5: the result of an approved call is dated no later than the
\* approval's expiry.
ResultsInTime == \A i \in 1..Len(log) : ExpiryRule(log, i)

\* "Approvals are single-use": an approval lets its call run at most once.
ApprovalSingleUse ==
    \A d \in 1..Len(log) : log[d].verdict = "require_approval" => runs[d] <= 1
=============================================================================
