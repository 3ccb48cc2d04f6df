-------------------------- MODULE GatewayInvariant ---------------------------
(***************************************************************************)
(* The inductive invariant of the gateway: why the properties of           *)
(* GatewayProperties hold.  It relates what the requests in flight and the *)
(* calls in memory say to what the log says.  As long as the store has not *)
(* lost track of the log (behind), memory and log agree; afterwards the    *)
(* log does not grow any more, so what memory gets wrong cannot reach it.  *)
(***************************************************************************)
EXTENDS GatewayProperties

Decided(d, verdict) ==
    /\ d \in 1..Len(log)
    /\ log[d].type = "decision"
    /\ log[d].verdict = verdict

Approved(d) == \E j \in 1..Len(log) : log[j].type = "approval" /\ log[j].dec = d

HasResult(d) == \E j \in 1..Len(log) : log[j].type = "result" /\ log[j].dec = d

\* A held call is on record, and one that was approved is authorized.
HeldOK ==
    \A d \in Pos :
        /\ pending[d].held => Decided(d, "require_approval")
        /\ pending[d].held /\ pending[d].answer.outcome = "approved" => Authorized(d)

\* Memory knows of every answer and of every result in the log.
HeldKnown ==
    ~behind => \A d \in Pos : pending[d].held =>
        /\ pending[d].answer.outcome = "none" => ~Approved(d)
        /\ ~pending[d].running => ~HasResult(d)

\* The request between a decision that needs approval and the map of held calls.
Holding(w) == req[w].pc = "hold"

HolderOK(w) ==
    Holding(w) =>
        /\ Decided(req[w].dec, "require_approval")
        /\ ~pending[req[w].dec].held
        /\ ~behind => ~Approved(req[w].dec)

ExecutorOK(w) ==
    Executing(w) =>
        /\ Authorized(req[w].dec)
        /\ req[w].op = "call" => Decided(req[w].dec, "allow")
        /\ req[w].op = "resume" =>
              pending[req[w].dec].held /\ pending[req[w].dec].running

\* The result of a request that has not written one is not in the log.
ResultOK(w) ==
    /\ req[w].pc \in {"result", "taint"} => req[w].status \in {"ok", "error"}
    /\ ~behind /\ \/ req[w].pc \in {"prepare", "invoke", "result"}
                  \/ req[w].pc = "return" /\ req[w].status = "failed"
         => ~HasResult(req[w].dec)

\* The labels a request carries are those of a recorded result, and on the way
\* out they are already part of the taint of the task.
LabelsOK(w) ==
    /\ req[w].pc \in {"prepare", "invoke"} => req[w].labels = {}
    /\ req[w].pc \in {"taint", "return"} =>
         \A l \in req[w].labels :
           \E j \in 1..Len(log) : /\ log[j].type = "result"
                                  /\ TaskOf[log[j].ident] = TaskOf[log[req[w].dec].ident]
                                  /\ l \in log[j].taint
    /\ req[w].pc = "return" =>
         req[w].labels \subseteq taint[TaskOf[log[req[w].dec].ident]]

WorkerOK(w) ==
    /\ req[w].pc = "admit" => req[w].dec \in 1..Len(log)
    /\ HolderOK(w)
    /\ ExecutorOK(w)
    /\ ResultOK(w)
    /\ LabelsOK(w)

WorkersOK == \A w \in Worker : WorkerOK(w)

\* No two requests hold or execute the same decision.
Exclusive ==
    \A v, w \in Worker :
        /\ Holding(v) \/ Executing(v)
        /\ Holding(w) \/ Executing(w)
        /\ req[v].dec = req[w].dec
        => v = w

TaintCovers == \A t \in Task : heard[t] \subseteq taint[t]

\* Checked by TLC on the small instances and proved in GatewayProofs: the
\* invariant that carries every safety property of the gateway.
IInv ==
    /\ TypeOK
    /\ LogVerifies
    /\ NoReceiptNoAction
    /\ ApprovalsBacked
    /\ DeliveredIsRecorded
    /\ HeldOK
    /\ HeldKnown
    /\ WorkersOK
    /\ Exclusive
    /\ TaintCovers
=============================================================================
