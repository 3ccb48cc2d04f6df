---------------------------- MODULE GatewayProofs ----------------------------
(***************************************************************************)
(* Proofs, for every value of the constants, of the safety properties of   *)
(* the gateway, and that it implements CallLifecycle.  IInv (module        *)
(* GatewayInvariant) holds initially, is preserved by each action, and     *)
(* implies each of the properties.                                         *)
(***************************************************************************)
EXTENDS GatewayInvariant, TLAPS

\* One more element leaves the others in place.
LEMMA AppendFacts ==
    ASSUME NEW S, NEW s \in Seq(S), NEW e \in S
    PROVE  /\ Append(s, e) \in Seq(S)
           /\ Len(Append(s, e)) = Len(s) + 1
           /\ \A i \in 1..Len(s) : Append(s, e)[i] = s[i]
           /\ Append(s, e)[Len(s) + 1] = e
  OBVIOUS

\* A sequence has a natural length.
LEMMA LenNat == ASSUME NEW S, NEW s \in Seq(S) PROVE Len(s) \in Nat
  OBVIOUS

\* What is in the log is a receipt.
LEMMA LogElement == ASSUME TypeOK, NEW i \in 1..Len(log) PROVE log[i] \in Receipt
  BY DEF TypeOK

-----------------------------------------------------------------------------
(* What one more receipt does to the facts that are read off the log. *)

\* The step that the lemmas below are about.
Grow(r) == r \in Receipt /\ log' = Append(log, r)

\* A log that grows by one receipt keeps the others where they were.
LEMMA GrowFacts ==
    ASSUME TypeOK, NEW r, Grow(r)
    PROVE  /\ Len(log) \in Nat
           /\ log' \in Seq(Receipt)
           /\ Len(log') = Len(log) + 1
           /\ \A i \in 1..Len(log) : log'[i] = log[i]
           /\ log'[Len(log) + 1] = r
           /\ 1..Len(log') = 1..Len(log) \cup {Len(log) + 1}
  <1>1. log \in Seq(Receipt) /\ r \in Receipt /\ log' = Append(log, r)
    BY DEF TypeOK, Grow
  <1>2. Len(log) \in Nat
    BY <1>1, LenNat
  <1> QED BY <1>1, <1>2, AppendFacts

\* A decision stays on record when the log grows.
LEMMA GrowDecided ==
    ASSUME TypeOK, NEW r, Grow(r), NEW d, NEW v, Decided(d, v)
    PROVE  Decided(d, v)'
  BY GrowFacts DEF Decided

\* What is authorized stays so when the log grows.
LEMMA GrowAuthorized ==
    ASSUME TypeOK, NEW r, Grow(r), NEW d, Authorized(d)
    PROVE  Authorized(d)'
  <1>1. /\ Len(log) \in Nat /\ Len(log') = Len(log) + 1
        /\ \A i \in 1..Len(log) : log'[i] = log[i]
        /\ 1..Len(log') = 1..Len(log) \cup {Len(log) + 1}
    BY GrowFacts
  <1>2. d \in 1..Len(log') /\ log'[d] = log[d]
    BY <1>1 DEF Authorized
  <1>3. CASE log[d].verdict = "allow"
    BY <1>2, <1>3 DEF Authorized
  <1>4. CASE log[d].verdict # "allow"
    <2>1. PICK j \in 1..Len(log) :
             /\ log[j].type = "approval" /\ log[j].dec = d
             /\ log[j].verdict = "approved"
             /\ log[j].approver \in Approver
             /\ log[j].approver # PrincipalOf[log[d].ident]
      BY <1>4 DEF Authorized
    <2>2. j \in 1..Len(log') /\ log'[j] = log[j]
      BY <1>1, <2>1
    <2> QED BY <1>2, <1>4, <2>1, <2>2 DEF Authorized
  <1> QED BY <1>3, <1>4

\* One more receipt adds an answer only if it is that answer.
LEMMA GrowApproved ==
    ASSUME TypeOK, NEW r, Grow(r), NEW d, Approved(d)'
    PROVE  Approved(d) \/ (r.type = "approval" /\ r.dec = d)
  BY GrowFacts DEF Approved

\* One more receipt adds a result only if it is that result.
LEMMA GrowHasResult ==
    ASSUME TypeOK, NEW r, Grow(r), NEW d, HasResult(d)'
    PROVE  HasResult(d) \/ (r.type = "result" /\ r.dec = d)
  BY GrowFacts DEF HasResult

\* Approvals and results refer to earlier positions.
LEMMA NothingAhead ==
    ASSUME TypeOK, LogVerifies
    PROVE  ~Approved(Len(log) + 1) /\ ~HasResult(Len(log) + 1)
  <1>1. Len(log) \in Nat
    BY LenNat DEF TypeOK
  <1>2. ASSUME NEW j \in 1..Len(log), log[j].type \in {"approval", "result"}
        PROVE  log[j].dec \in 1..(j - 1)
    BY <1>2 DEF LogVerifies, ApprovalRule, ResultRule, DecisionBefore
  <1> QED BY <1>1, <1>2 DEF Approved, HasResult

\* A call that needs approval and has none has no result.
LEMMA NoApprovalNoResult ==
    ASSUME TypeOK, LogVerifies, NEW d, Decided(d, "require_approval"), ~Approved(d)
    PROVE  ~HasResult(d)
  <1>1. Len(log) \in Nat
    BY LenNat DEF TypeOK
  <1> SUFFICES ASSUME NEW j \in 1..Len(log), log[j].type = "result", log[j].dec = d
               PROVE  FALSE
    BY DEF HasResult
  <1>2. ResultRule(log, j)
    BY DEF LogVerifies
  <1>3. PICK k \in 1..(j - 1) : ApprovalBefore(log, j, d, k)
    BY <1>2 DEF ResultRule, Decided
  <1>4. k \in 1..Len(log) /\ log[k].type = "approval" /\ log[k].dec = d
    BY <1>1, <1>3 DEF ApprovalBefore
  <1> QED BY <1>4 DEF Approved

\* The rules look at a receipt and at what comes before it.
LEMMA RulesAreStable ==
    ASSUME TypeOK, LogVerifies, NEW r, Grow(r), NEW i \in 1..Len(log)
    PROVE  TimeRule(log', i) /\ ApprovalRule(log', i) /\ ResultRule(log', i)
  <1>1. /\ Len(log) \in Nat
        /\ \A k \in 1..Len(log) : log'[k] = log[k]
    BY GrowFacts
  <1>2. log'[i] = log[i] /\ \A k \in 1..(i - 1) : k \in 1..Len(log) /\ log'[k] = log[k]
    BY <1>1
  <1>3. TimeRule(log, i) /\ ApprovalRule(log, i) /\ ResultRule(log, i)
    BY DEF LogVerifies
  <1>4. TimeRule(log', i)
    BY <1>1, <1>2, <1>3 DEF TimeRule
  <1>5. ApprovalRule(log', i)
    BY <1>2, <1>3 DEF ApprovalRule, DecisionBefore, SameCall, ApprovalBefore, Resulted
  <1>6. ResultRule(log', i)
    BY <1>2, <1>3 DEF ResultRule, DecisionBefore, SameCall, ApprovalBefore, Resulted
  <1> QED BY <1>4, <1>5, <1>6

\* So a log that verifies still does when the new receipt obeys them.
LEMMA GrowVerifies ==
    ASSUME TypeOK, LogVerifies, NEW r, Grow(r), CanAppend(r),
           ApprovalRule(log', Len(log) + 1), ResultRule(log', Len(log) + 1)
    PROVE  LogVerifies'
  <1>1. /\ Len(log) \in Nat /\ Len(log') = Len(log) + 1
        /\ \A k \in 1..Len(log) : log'[k] = log[k]
        /\ log'[Len(log) + 1] = r
        /\ 1..Len(log') = 1..Len(log) \cup {Len(log) + 1}
    BY GrowFacts
  <1>2. TimeRule(log', Len(log) + 1)
    <2>1. Len(log) + 1 > 1 => log # <<>>
      BY <1>1 DEF TypeOK
    <2> QED BY <1>1, <2>1 DEF TimeRule, CanAppend
  <1>3. \A i \in 1..Len(log) :
           TimeRule(log', i) /\ ApprovalRule(log', i) /\ ResultRule(log', i)
    BY RulesAreStable
  <1> QED BY <1>1, <1>2, <1>3 DEF LogVerifies

-----------------------------------------------------------------------------
(* Types of what the actions build. *)

\* The three constructors build receipts.
LEMMA ConstructorTypes ==
    ASSUME NEW ts \in Nat, NEW d \in Nat, NEW i \in Ident, NEW c \in Call,
           NEW labels \in SUBSET Label
    PROVE  /\ \A v \in PolicyVerdict : Decision(ts, i, c, v, labels) \in Receipt
           /\ \A v \in {"approved", "rejected"}, a \in Person, e \in Nat :
                 Approval(ts, d, i, c, v, a, e) \in Receipt
           /\ \A v \in {"ok", "error"} : Result(ts, d, i, c, v, labels) \in Receipt
  BY DEF Decision, Approval, Result, Receipt, PolicyVerdict

\* An idle request is a request.
LEMMA IdleType ==
    /\ Idle \in Request /\ Idle.pc = "idle" /\ Idle.labels = {} /\ Idle.dec = 0
    /\ NotHeld \in HeldCall /\ ~NotHeld.held /\ ~NotHeld.running
    /\ NotHeld.answer.outcome = "none"
  <1>1. (CHOOSE i \in Ident : TRUE) \in Ident /\ (CHOOSE t \in Tool : TRUE) \in Tool
    BY GatewayAssumption
  <1> QED
    BY <1>1 DEF Idle, Request, SomeCall, Call, Manifest, PolicyVerdict, NotHeld, NoAnswer,
                HeldCall, Answered

\* So is one that goes on with a decision.
LEMMA GoOnType ==
    ASSUME NEW pc \in {"hold", "prepare"}, NEW op \in {"call", "resume"}, NEW d \in Nat
    PROVE  /\ GoOn(pc, op, d) \in Request
           /\ GoOn(pc, op, d).pc = pc /\ GoOn(pc, op, d).op = op
           /\ GoOn(pc, op, d).dec = d /\ GoOn(pc, op, d).labels = {}
           /\ GoOn(pc, op, d).status = "none"
  BY IdleType DEF GoOn, Request, Idle

\* The registry, the schema check and the policy give a policy verdict.
LEMMA VerdictType ==
    ASSUME NEW i \in Ident, NEW c \in Call, NEW labels \in SUBSET Label
    PROVE  Verdict(i, c, labels) \in PolicyVerdict
  BY DEF Verdict, PolicyDecide, PolicyVerdict

\* Positions are positive numbers.
LEMMA PosIsNat == Pos \subseteq Nat /\ \A d \in Pos : d \in Nat /\ d > 0
  BY GatewayAssumption DEF Pos

\* The log takes up positions of Pos.
LEMMA LogPositions ==
    ASSUME TypeOK
    PROVE  Len(log) \in Nat /\ 1..Len(log) \subseteq Pos /\ 1..Len(log) \subseteq Nat
  BY LenNat, GatewayAssumption DEF TypeOK, Pos

-----------------------------------------------------------------------------
(* Frames: what a step leaves alone. *)

\* A request other than the one that moved.
LEMMA OtherWorker ==
    ASSUME UNCHANGED <<log, behind, pending, taint>>, NEW v \in Worker, req'[v] = req[v],
           WorkerOK(v)
    PROVE  WorkerOK(v)'
  BY DEF WorkerOK, HolderOK, ExecutorOK, ResultOK, LabelsOK, Holding, Executing,
         Decided, Authorized, Approved, HasResult

\* The step of one request that changes its own local variables, and runs.
LEMMA LocalStepAndRuns ==
    ASSUME IInv, NEW w \in Worker, NEW q \in Request,
           req' = [req EXCEPT ![w] = q],
           UNCHANGED <<log, behind, statements, pending, taint, now, heard>>,
           runs' \in [Pos -> 0..2], NoReceiptNoAction',
           WorkerOK(w)',
           Holding(w)' \/ Executing(w)' =>
             (Holding(w) \/ Executing(w)) /\ q.dec = req[w].dec
    PROVE  IInv'
  <1>1. req \in [Worker -> Request] /\ req'[w] = q /\ \A v \in Worker \ {w} : req'[v] = req[v]
    BY DEF IInv, TypeOK
  <1>2. TypeOK'
    BY <1>1 DEF IInv, TypeOK
  <1>3. LogVerifies' /\ ApprovalsBacked' /\ DeliveredIsRecorded'
    BY DEF IInv, LogVerifies, ApprovalsBacked, DeliveredIsRecorded
  <1>4. HeldOK' /\ HeldKnown' /\ TaintCovers'
    BY DEF IInv, HeldOK, HeldKnown, TaintCovers, Decided, Authorized, Approved, HasResult
  <1>5. WorkersOK'
    BY <1>1, OtherWorker DEF IInv, WorkersOK
  <1>6. Exclusive'
    BY <1>1 DEF IInv, Exclusive, Holding, Executing
  <1> QED BY <1>2, <1>3, <1>4, <1>5, <1>6 DEF IInv

\* The same when runs does not change either.
LEMMA LocalStep ==
    ASSUME IInv, NEW w \in Worker, NEW q \in Request,
           req' = [req EXCEPT ![w] = q],
           UNCHANGED <<log, behind, statements, pending, taint, now, runs, heard>>,
           WorkerOK(w)',
           Holding(w)' \/ Executing(w)' =>
             (Holding(w) \/ Executing(w)) /\ q.dec = req[w].dec
    PROVE  IInv'
  <1>1. runs' \in [Pos -> 0..2] /\ NoReceiptNoAction'
    BY DEF IInv, TypeOK, NoReceiptNoAction, Authorized
  <1> QED BY <1>1, LocalStepAndRuns

-----------------------------------------------------------------------------
(* The actions, one lemma each. *)

\* The invariant holds of an empty log and a fresh process.
LEMMA InitIInv == Init => IInv
  <1> SUFFICES ASSUME Init PROVE IInv
    OBVIOUS
  <1>1. TypeOK
    <2>1. log = <<>> /\ now = 0 /\ behind = FALSE /\ MaxLog \in Nat
      BY GatewayAssumption DEF Init
    <2>6. log \in Seq(Receipt)
      BY <2>1
    <2>7. Len(log) <= MaxLog /\ now \in Nat
      BY <2>1
    <2>8. behind \in BOOLEAN
      BY <2>1
    <2>2. statements \subseteq SignedStatement /\ pending \in [Pos -> HeldCall]
      BY IdleType DEF Init
    <2>3. taint \in [Task -> SUBSET Label] /\ heard \in [Task -> SUBSET Label]
      BY DEF Init
    <2>4. req \in [Worker -> Request]
      BY IdleType DEF Init
    <2>5. runs \in [Pos -> 0..2]
      BY DEF Init
    <2> QED BY <2>2, <2>3, <2>4, <2>5, <2>6, <2>7, <2>8
      DEF TypeOK
  <1>2. log = <<>> /\ 1..Len(log) = {}
    BY DEF Init
  <1>3. LogVerifies /\ NoReceiptNoAction /\ ApprovalsBacked /\ DeliveredIsRecorded
    BY <1>2 DEF Init, LogVerifies, NoReceiptNoAction, ApprovalsBacked, DeliveredIsRecorded
  <1>4. HeldOK /\ HeldKnown
    BY IdleType DEF Init, HeldOK, HeldKnown
  <1>5. \A w \in Worker : req[w].pc = "idle"
    BY IdleType DEF Init
  <1>6. WorkersOK /\ Exclusive
    BY <1>5 DEF WorkersOK, WorkerOK, HolderOK, ExecutorOK, ResultOK, LabelsOK, Exclusive,
                Holding, Executing
  <1>7. TaintCovers
    BY DEF Init, TaintCovers
  <1> QED BY <1>1, <1>3, <1>4, <1>6, <1>7 DEF IInv

\* A request outside hold and execute has nothing to vouch for.
LEMMA WorkerAtRest ==
    ASSUME NEW w \in Worker, req'[w].pc \in {"idle", "decide", "record"}
    PROVE  WorkerOK(w)' /\ ~Holding(w)' /\ ~Executing(w)'
  BY DEF WorkerOK, HolderOK, ExecutorOK, ResultOK, LabelsOK, Holding, Executing

\* CallBegin touches no receipt and no held call.
LEMMA CallBeginIInv ==
    ASSUME IInv, NEW w \in Worker, NEW x \in Proposal, NEW m \in Served \ {"down"},
           CallBegin(w, x[1], x[2], m)
    PROVE  IInv'
  <1> DEFINE q == [Idle EXCEPT !.pc = "decide", !.ident = x[1],
                               !.call = [tool |-> x[2], man |-> m]]
  <1>1. x[1] \in Ident /\ x[2] \in Tool /\ m \in Manifest
    BY GatewayAssumption
  <1>2. q \in Request /\ q.pc = "decide"
    BY <1>1, IdleType DEF Request, Call, Idle
  <1>3. req' = [req EXCEPT ![w] = q]
    BY DEF CallBegin
  <1>4. req'[w] = q
    BY <1>3 DEF IInv, TypeOK
  <1> HIDE DEF q
  <1>5. WorkerOK(w)' /\ ~Holding(w)' /\ ~Executing(w)'
    BY <1>2, <1>4, WorkerAtRest
  <1> QED BY <1>2, <1>3, <1>5, LocalStep DEF CallBegin

\* Neither does Decide.
LEMMA DecideIInv ==
    ASSUME IInv, NEW w \in Worker, Decide(w)
    PROVE  IInv'
  <1> DEFINE labels == taint[TaskOf[req[w].ident]]
             v == Verdict(req[w].ident, req[w].call, labels)
             q == [req[w] EXCEPT !.pc = "record", !.taint = labels, !.verdict = v]
  <1>1. req[w] \in Request /\ req[w].ident \in Ident /\ req[w].call \in Call
    BY DEF IInv, TypeOK, Request
  <1>2. labels \in SUBSET Label
    BY <1>1, IdentAssumption DEF IInv, TypeOK
  <1>3. v \in PolicyVerdict
    BY <1>1, <1>2, VerdictType
  <1>4. req' = [req EXCEPT ![w] = q]
    BY DEF Decide
  <1> HIDE DEF labels, v
  <1>5. q \in Request /\ q.pc = "record"
    BY <1>1, <1>2, <1>3 DEF Request
  <1>6. req'[w] = q
    BY <1>4 DEF IInv, TypeOK
  <1> HIDE DEF q
  <1>7. WorkerOK(w)' /\ ~Holding(w)' /\ ~Executing(w)'
    BY <1>5, <1>6, WorkerAtRest
  <1> QED BY <1>4, <1>5, <1>7, LocalStep DEF Decide

\* ResumeBegin remembers a position of the log.
LEMMA ResumeBeginIInv ==
    ASSUME IInv, NEW w \in Worker, NEW i \in Ident, NEW d \in 1..Len(log), ResumeBegin(w, i, d)
    PROVE  IInv'
  <1> DEFINE q == [Idle EXCEPT !.pc = "admit", !.op = "resume",
                               !.ident = i, !.dec = d, !.at = now]
  <1>1. d \in Nat /\ now \in Nat
    BY LogPositions DEF IInv, TypeOK
  <1>2. q \in Request /\ q.pc = "admit" /\ q.dec = d
    BY <1>1, IdleType DEF Request, Idle
  <1>3. req' = [req EXCEPT ![w] = q] /\ log' = log
    BY DEF ResumeBegin
  <1>4. req'[w] = q
    BY <1>3 DEF IInv, TypeOK
  <1> HIDE DEF q
  <1>5. WorkerOK(w)' /\ ~Holding(w)' /\ ~Executing(w)'
    BY <1>2, <1>3, <1>4 DEF WorkerOK, HolderOK, ExecutorOK, ResultOK, LabelsOK, Holding, Executing
  <1> QED BY <1>2, <1>3, <1>5, LocalStep DEF ResumeBegin

\* Prepare keeps the decision that the request executes.
LEMMA PrepareIInv ==
    ASSUME IInv, NEW w \in Worker, NEW hasCred \in BOOLEAN, NEW m \in Served,
           Prepare(w, hasCred, m)
    PROVE  IInv'
  <1>1. req[w] \in Request
    BY DEF IInv, TypeOK
  <1>2. PICK q \in Request :
           /\ req' = [req EXCEPT ![w] = q]
           /\ q.pc \in {"invoke", "result"} /\ q.dec = req[w].dec /\ q.op = req[w].op
           /\ q.labels = req[w].labels
           /\ q.pc = "result" => q.status = "error"
    <2> DEFINE go == [req[w] EXCEPT !.pc = "invoke"]
               no == [req[w] EXCEPT !.pc = "result", !.status = "error"]
    <2>1. go \in Request /\ no \in Request
      BY <1>1 DEF Request
    <2>2. /\ go.pc = "invoke" /\ go.dec = req[w].dec /\ go.op = req[w].op
          /\ go.labels = req[w].labels
          /\ no.pc = "result" /\ no.dec = req[w].dec /\ no.op = req[w].op
          /\ no.labels = req[w].labels /\ no.status = "error"
      BY <1>1 DEF Request
    <2>3. req' = [req EXCEPT ![w] = go] \/ req' = [req EXCEPT ![w] = no]
      BY DEF Prepare
    <2> HIDE DEF go, no
    <2> QED BY <2>1, <2>2, <2>3
  <1>5. req'[w] = q
    BY <1>2 DEF IInv, TypeOK
  <1>6. req[w].pc = "prepare" /\ UNCHANGED <<log, behind, pending, taint>>
    BY DEF Prepare
  <1>7. WorkerOK(w) /\ Executing(w)
    BY <1>6 DEF IInv, WorkersOK, Executing
  <1>8. HolderOK(w)' /\ LabelsOK(w)'
    BY <1>2, <1>5, <1>6, <1>7 DEF WorkerOK, HolderOK, Holding, LabelsOK
  <1>9. ExecutorOK(w)' /\ ResultOK(w)'
    BY <1>2, <1>5, <1>6, <1>7 DEF WorkerOK, ExecutorOK, ResultOK, Executing,
                            Authorized, Decided, HasResult
  <1>10. WorkerOK(w)'
    BY <1>2, <1>5, <1>8, <1>9 DEF WorkerOK
  <1> QED BY <1>2, <1>7, <1>10, LocalStep DEF Prepare

\* What only speaks of the log and the statements depends on nothing else.
LEMMA LogFrame ==
    ASSUME IInv, UNCHANGED <<log, statements, runs>>
    PROVE  LogVerifies' /\ NoReceiptNoAction' /\ ApprovalsBacked'
  BY DEF IInv, LogVerifies, NoReceiptNoAction, Authorized, ApprovalsBacked

\* Deliveries on record depend on the log and on heard only.
LEMMA HeardFrame ==
    ASSUME IInv, UNCHANGED <<log, taint, heard>>
    PROVE  DeliveredIsRecorded' /\ TaintCovers'
  BY DEF IInv, DeliveredIsRecorded, TaintCovers

\* A request that did not move, when another one changed the map of held calls.
LEMMA WorkerBesideMap ==
    ASSUME UNCHANGED <<log, behind, taint>>, NEW v \in Worker, req'[v] = req[v], WorkerOK(v),
           Holding(v) => ~pending'[req[v].dec].held,
           Executing(v) /\ req[v].op = "resume" =>
             pending'[req[v].dec].held /\ pending'[req[v].dec].running
    PROVE  WorkerOK(v)'
  <1>1. HolderOK(v)'
    BY DEF WorkerOK, HolderOK, Holding, Decided, Approved
  <1>2. ExecutorOK(v)'
    BY DEF WorkerOK, ExecutorOK, Executing, Decided, Authorized
  <1>3. ResultOK(v)' /\ LabelsOK(v)'
    BY DEF WorkerOK, ResultOK, LabelsOK, HasResult
  <1> QED BY <1>1, <1>2, <1>3 DEF WorkerOK

\* A call that can be resumed is not in the hands of any request.
LEMMA ResumableIsFree ==
    ASSUME IInv, NEW d \in Pos, pending[d].held, ~pending[d].running, NEW v \in Worker,
           req[v].dec = d
    PROVE  ~Holding(v) /\ ~Executing(v)
  <1>1. Decided(d, "require_approval")
    BY DEF IInv, HeldOK
  <1>2. HolderOK(v) /\ ExecutorOK(v) /\ req[v].op \in {"call", "resume"}
    BY DEF IInv, WorkersOK, WorkerOK, TypeOK, Request
  <1> QED BY <1>1, <1>2 DEF HolderOK, ExecutorOK, Decided

\* ResumeAdmit hands a resumable call to one request.
LEMMA ResumeAdmitIInv ==
    ASSUME IInv, NEW w \in Worker, ResumeAdmit(w)
    PROVE  IInv'
  <1> PICK d : d = req[w].dec
    OBVIOUS
  <1>1. req \in [Worker -> Request] /\ pending \in [Pos -> HeldCall] /\ req[w].pc = "admit"
    BY DEF IInv, TypeOK, ResumeAdmit
  <1>2. d \in 1..Len(log) /\ d \in Pos /\ d \in Nat
    BY <1>1, LogPositions DEF IInv, WorkersOK, WorkerOK
  <1>3. CASE ~Admissible(req[w])
    <2>1. req' = [req EXCEPT ![w] = Idle]
          /\ UNCHANGED <<log, behind, statements, pending, taint, now, runs, heard>>
      BY <1>3 DEF ResumeAdmit
    <2>2. WorkerOK(w)' /\ ~Holding(w)' /\ ~Executing(w)'
      BY <1>1, <2>1, IdleType, WorkerAtRest
    <2> QED BY <2>1, <2>2, IdleType, LocalStep
  <1>4. CASE Admissible(req[w])
    <2> DEFINE q == GoOn("prepare", "resume", d)
    <2>1. /\ pending[d].held /\ ~pending[d].running /\ pending[d].answer.outcome = "approved"
          /\ pending' = [pending EXCEPT ![d].running = TRUE]
          /\ req' = [req EXCEPT ![w] = q]
          /\ UNCHANGED <<log, behind, statements, taint, now, runs, heard>>
      BY <1>4 DEF ResumeAdmit, Admissible
    <2>2. /\ q \in Request /\ q.pc = "prepare" /\ q.op = "resume" /\ q.dec = d
          /\ q.labels = {}
      BY <1>2, GoOnType
    <2> HIDE DEF q
    <2>3. req'[w] = q /\ \A v \in Worker \ {w} : req'[v] = req[v]
      BY <1>1, <2>1
    <2>4. /\ \A e \in Pos : /\ pending'[e].held = pending[e].held
                            /\ pending'[e].answer = pending[e].answer
                            /\ pending[e].running => pending'[e].running
                            /\ e # d => pending'[e].running = pending[e].running
          /\ pending'[d].running
          /\ pending' \in [Pos -> HeldCall]
      BY <1>1, <1>2, <2>1 DEF HeldCall
    <2>5. TypeOK'
      BY <1>1, <2>1, <2>2, <2>4 DEF IInv, TypeOK
    <2>6. LogVerifies' /\ NoReceiptNoAction' /\ ApprovalsBacked'
          /\ DeliveredIsRecorded' /\ TaintCovers'
      BY <2>1, LogFrame, HeardFrame
    <2>7. HeldOK'
      BY <2>1, <2>4 DEF IInv, HeldOK, Decided, Authorized
    <2>8. HeldKnown'
      BY <2>1, <2>4 DEF IInv, HeldKnown, Approved, HasResult
    <2>9. ASSUME NEW v \in Worker, v # w PROVE WorkerOK(v)'
      <3>1. WorkerOK(v) /\ req'[v] = req[v]
        BY <2>3, <2>9 DEF IInv, WorkersOK
      <3>2. Holding(v) \/ Executing(v) => req[v].dec \in Pos
        BY <3>1, LogPositions
           DEF IInv, WorkerOK, HolderOK, ExecutorOK, Decided, Authorized
      <3>3. Holding(v) => ~pending'[req[v].dec].held
        BY <2>4, <3>1, <3>2 DEF WorkerOK, HolderOK
      <3>4. Executing(v) /\ req[v].op = "resume" =>
              pending'[req[v].dec].held /\ pending'[req[v].dec].running
        BY <2>4, <3>1, <3>2 DEF WorkerOK, ExecutorOK
      <3> QED BY <2>1, <3>1, <3>3, <3>4, WorkerBesideMap
    <2>10. WorkerOK(w)'
      <3>1. Authorized(d)' /\ (~behind => ~HasResult(d))
        BY <1>2, <2>1 DEF IInv, HeldOK, HeldKnown, Authorized
      <3>2. HolderOK(w)' /\ LabelsOK(w)' /\ ResultOK(w)'
        BY <2>1, <2>2, <2>3, <3>1 DEF HolderOK, Holding, LabelsOK, ResultOK, HasResult
      <3>3. ExecutorOK(w)'
        BY <1>2, <2>1, <2>2, <2>3, <2>4, <3>1 DEF ExecutorOK
      <3> QED BY <2>2, <2>3, <3>2, <3>3 DEF WorkerOK
    <2>11. \A v \in Worker \ {w} : req[v].dec = d => ~Holding(v) /\ ~Executing(v)
      BY <1>2, <2>1, ResumableIsFree
    <2>12. Exclusive'
      BY <2>2, <2>3, <2>11 DEF IInv, Exclusive, Holding, Executing
    <2> QED BY <2>5, <2>6, <2>7, <2>8, <2>9, <2>10, <2>12 DEF IInv, WorkersOK
  <1> QED BY <1>3, <1>4

\* The positions that requests hold or execute are positions of the log.
LEMMA BusyOnRecord ==
    ASSUME IInv, NEW v \in Worker, Holding(v) \/ Executing(v)
    PROVE  req[v].dec \in 1..Len(log) /\ req[v].dec \in Pos
  BY LogPositions
     DEF IInv, WorkersOK, WorkerOK, HolderOK, ExecutorOK, Decided, Authorized

\* Hold puts a call that has no answer yet into the map.
LEMMA HoldIInv ==
    ASSUME IInv, NEW w \in Worker, Hold(w)
    PROVE  IInv'
  <1> PICK d : d = req[w].dec
    OBVIOUS
  <1> DEFINE p == [NotHeld EXCEPT !.held = TRUE]
  <1>1. /\ req \in [Worker -> Request] /\ pending \in [Pos -> HeldCall] /\ Holding(w)
        /\ pending' = [pending EXCEPT ![d] = p]
        /\ req' = [req EXCEPT ![w] = Idle]
        /\ UNCHANGED <<log, behind, statements, taint, now, runs, heard>>
    BY DEF IInv, TypeOK, Hold, Holding
  <1>2. p \in HeldCall /\ p.held /\ ~p.running /\ p.answer.outcome = "none"
    BY IdleType DEF HeldCall, NotHeld, NoAnswer
  <1> HIDE DEF p
  <1>3. /\ d \in Pos /\ Decided(d, "require_approval") /\ ~pending[d].held
        /\ ~behind => ~Approved(d)
    BY <1>1, BusyOnRecord DEF IInv, WorkersOK, WorkerOK, HolderOK
  <1>4. ~behind => ~HasResult(d)
    BY <1>3, NoApprovalNoResult DEF IInv
  <1>5. req'[w] = Idle /\ \A v \in Worker \ {w} : req'[v] = req[v]
    BY <1>1
  <1>6. /\ pending'[d] = p /\ \A e \in Pos \ {d} : pending'[e] = pending[e]
        /\ pending' \in [Pos -> HeldCall]
    BY <1>1, <1>2, <1>3
  <1>7. TypeOK'
    BY <1>1, <1>6, IdleType DEF IInv, TypeOK
  <1>8. LogVerifies' /\ NoReceiptNoAction' /\ ApprovalsBacked'
        /\ DeliveredIsRecorded' /\ TaintCovers'
    BY <1>1, LogFrame, HeardFrame
  <1>9. HeldOK'
    <2>1. \A e \in Pos : /\ pending'[e].held => Decided(e, "require_approval")
                         /\ pending'[e].held /\ pending'[e].answer.outcome = "approved" =>
                               Authorized(e)
      BY <1>2, <1>3, <1>6 DEF IInv, HeldOK
    <2> QED BY <1>1, <2>1 DEF HeldOK, Decided, Authorized
  <1>10. HeldKnown'
    <2>1. ~behind => \A e \in Pos : pending'[e].held =>
             /\ pending'[e].answer.outcome = "none" => ~Approved(e)
             /\ ~pending'[e].running => ~HasResult(e)
      BY <1>3, <1>4, <1>6 DEF IInv, HeldKnown
    <2> QED BY <1>1, <2>1 DEF HeldKnown, Approved, HasResult
  <1>11. WorkerOK(w)' /\ ~Holding(w)' /\ ~Executing(w)'
    BY <1>5, IdleType, WorkerAtRest
  <1>12. ASSUME NEW v \in Worker, v # w PROVE WorkerOK(v)'
    <2>1. WorkerOK(v) /\ req'[v] = req[v]
      BY <1>5, <1>12 DEF IInv, WorkersOK
    <2>2. Holding(v) \/ Executing(v) => req[v].dec \in Pos /\ req[v].dec # d
      BY <1>1, <1>12, BusyOnRecord DEF IInv, Exclusive
    <2>3. Holding(v) => ~pending'[req[v].dec].held
      BY <1>6, <2>1, <2>2 DEF WorkerOK, HolderOK
    <2>4. Executing(v) /\ req[v].op = "resume" =>
            pending'[req[v].dec].held /\ pending'[req[v].dec].running
      BY <1>6, <2>1, <2>2 DEF WorkerOK, ExecutorOK
    <2> QED BY <1>1, <2>1, <2>3, <2>4, WorkerBesideMap
  <1>13. Exclusive'
    BY <1>5, <1>11 DEF IInv, Exclusive, Holding, Executing
  <1> QED BY <1>7, <1>8, <1>9, <1>10, <1>11, <1>12, <1>13 DEF IInv, WorkersOK

\* Invoke runs the tool of a decision that is authorized.
LEMMA InvokeIInv ==
    ASSUME IInv, NEW w \in Worker, Invoke(w)
    PROVE  IInv'
  <1> PICK d : d = req[w].dec
    OBVIOUS
  <1>1. /\ req[w] \in Request /\ req[w].pc = "invoke" /\ Executing(w) /\ WorkerOK(w)
        /\ UNCHANGED <<log, behind, statements, pending, taint, now, heard>>
    BY DEF IInv, TypeOK, WorkersOK, Invoke, Executing
  <1>2. PICK q \in Request :
           /\ req' = [req EXCEPT ![w] = q]
           /\ q.dec = d /\ q.op = req[w].op
           /\ \/ q.pc = "result" /\ q.status \in {"ok", "error"}
              \/ q.pc = "return" /\ q.labels = {}
    <2>1. req[w].labels = {}
      BY <1>1 DEF WorkerOK, LabelsOK
    <2>2. CASE \E status \in {"ok", "error"}, labels \in SUBSET Label :
                  req' = [req EXCEPT ![w].pc = "result", ![w].status = status,
                                     ![w].labels = labels]
      <3>1. PICK status \in {"ok", "error"}, labels \in SUBSET Label :
                  req' = [req EXCEPT ![w].pc = "result", ![w].status = status,
                                     ![w].labels = labels]
        BY <2>2
      <3> DEFINE q == [req[w] EXCEPT !.pc = "result", !.status = status, !.labels = labels]
      <3>2. q \in Request /\ q.dec = d /\ q.op = req[w].op
            /\ q.pc = "result" /\ q.status \in {"ok", "error"}
        BY <1>1 DEF Request
      <3>3. req' = [req EXCEPT ![w] = q]
        BY <3>1
      <3> HIDE DEF q
      <3> QED BY <3>2, <3>3
    <2>3. CASE req' = [req EXCEPT ![w].pc = "return", ![w].status = "failed"]
      <3> DEFINE q == [req[w] EXCEPT !.pc = "return", !.status = "failed"]
      <3>1. q \in Request /\ q.dec = d /\ q.op = req[w].op /\ q.pc = "return" /\ q.labels = {}
        BY <1>1, <2>1 DEF Request
      <3>2. req' = [req EXCEPT ![w] = q]
        BY <2>3
      <3> HIDE DEF q
      <3> QED BY <3>1, <3>2
    <2> QED BY <2>2, <2>3 DEF Invoke
  <1>3. req'[w] = q
    BY <1>2 DEF IInv, TypeOK
  <1>4. d \in Pos /\ Authorized(d)
    BY <1>1, BusyOnRecord DEF WorkerOK, ExecutorOK
  <1>5. runs' \in [Pos -> 0..2] /\ \A e \in Pos \ {d} : runs'[e] = runs[e]
    <2>1. runs \in [Pos -> 0..2] /\ runs' = [runs EXCEPT ![d] = Saturate(runs[d] + 1)]
      BY DEF IInv, TypeOK, Invoke
    <2>2. runs[d] \in 0..2
      BY <1>4, <2>1
    <2>3. Saturate(runs[d] + 1) \in 0..2
      BY <2>2 DEF Saturate
    <2> QED BY <2>1, <2>3
  <1>6. NoReceiptNoAction'
    <2>1. \A e \in Pos : runs'[e] > 0 => Authorized(e)
      BY <1>4, <1>5 DEF IInv, NoReceiptNoAction
    <2> QED BY <1>1, <2>1 DEF NoReceiptNoAction, Authorized
  <1>7. ExecutorOK(w)' /\ HolderOK(w)'
    BY <1>1, <1>2, <1>3 DEF WorkerOK, ExecutorOK, HolderOK, Holding, Executing, Authorized,
                            Decided
  <1>8. ResultOK(w)' /\ LabelsOK(w)'
    BY <1>1, <1>2, <1>3 DEF WorkerOK, ResultOK, LabelsOK, HasResult
  <1>9. WorkerOK(w)'
    BY <1>2, <1>3, <1>7, <1>8 DEF WorkerOK
  <1> QED BY <1>1, <1>2, <1>5, <1>6, <1>9, LocalStepAndRuns

\* The task that a request executes for.
LEMMA TaskOfCall ==
    ASSUME IInv, NEW v \in Worker, Executing(v)
    PROVE  TaskOf[log[req[v].dec].ident] \in Task
  <1>1. log[req[v].dec] \in Receipt
    BY BusyOnRecord, LogElement DEF IInv
  <1> QED BY <1>1, IdentAssumption DEF Receipt

\* AddTaint only adds labels.
LEMMA AddTaintIInv ==
    ASSUME IInv, NEW w \in Worker, AddTaint(w)
    PROVE  IInv'
  <1> PICK d : d = req[w].dec
    OBVIOUS
  <1> DEFINE t == TaskOf[log[d].ident]
             q == [req[w] EXCEPT !.pc = "return"]
  <1>1. /\ req \in [Worker -> Request] /\ req[w] \in Request /\ req[w].pc = "taint"
        /\ taint \in [Task -> SUBSET Label]
        /\ taint' = [taint EXCEPT ![t] = @ \cup req[w].labels]
        /\ req' = [req EXCEPT ![w] = q]
        /\ UNCHANGED <<log, behind, statements, pending, now, runs, heard>>
    BY DEF IInv, TypeOK, AddTaint
  <1>2. /\ q \in Request /\ q.pc = "return" /\ q.dec = d /\ q.op = req[w].op
        /\ q.labels = req[w].labels /\ q.status = req[w].status
        /\ req[w].labels \in SUBSET Label
    BY <1>1 DEF Request
  <1> HIDE DEF q
  <1>3. req'[w] = q /\ \A v \in Worker \ {w} : req'[v] = req[v]
    BY <1>1
  <1>4. Executing(w) /\ t \in Task /\ WorkerOK(w)
    BY <1>1, TaskOfCall DEF Executing, IInv, WorkersOK
  <1>5. /\ taint' \in [Task -> SUBSET Label]
        /\ taint'[t] = taint[t] \cup req[w].labels
        /\ \A u \in Task : taint[u] \subseteq taint'[u]
    BY <1>1, <1>2, <1>4
  <1>6. TypeOK'
    BY <1>1, <1>2, <1>5 DEF IInv, TypeOK
  <1>7. LogVerifies' /\ NoReceiptNoAction' /\ ApprovalsBacked'
    BY <1>1, LogFrame
  <1>8. DeliveredIsRecorded' /\ TaintCovers'
    BY <1>1, <1>5 DEF IInv, DeliveredIsRecorded, TaintCovers
  <1>9. HeldOK' /\ HeldKnown'
    BY <1>1 DEF IInv, HeldOK, HeldKnown, Decided, Authorized, Approved, HasResult
  <1>10. ASSUME NEW v \in Worker, v # w PROVE WorkerOK(v)'
    <2>1. WorkerOK(v) /\ req'[v] = req[v]
      BY <1>3, <1>10 DEF IInv, WorkersOK
    <2>2. HolderOK(v)' /\ ExecutorOK(v)' /\ ResultOK(v)'
      BY <1>1, <2>1 DEF WorkerOK, HolderOK, ExecutorOK, ResultOK, Holding, Executing,
                        Decided, Authorized, Approved, HasResult
    <2>3. req[v].pc = "return" => TaskOf[log[req[v].dec].ident] \in Task
      BY TaskOfCall DEF Executing
    <2>4. LabelsOK(v)'
      BY <1>1, <1>5, <2>1, <2>3 DEF WorkerOK, LabelsOK
    <2> QED BY <1>1, <2>1, <2>2, <2>4 DEF WorkerOK
  <1>11. WorkerOK(w)'
    <2>1. HolderOK(w)' /\ ExecutorOK(w)' /\ ResultOK(w)'
      BY <1>1, <1>2, <1>3, <1>4
         DEF WorkerOK, HolderOK, ExecutorOK, ResultOK, Holding, Executing, Decided,
             Authorized, HasResult
    <2>2. req'[w].labels \subseteq taint'[TaskOf[log'[req'[w].dec].ident]]
      BY <1>1, <1>2, <1>3, <1>5
    <2>3. LabelsOK(w)'
      BY <1>1, <1>2, <1>3, <1>4, <2>2 DEF WorkerOK, LabelsOK
    <2> QED BY <1>2, <1>3, <2>1, <2>3 DEF WorkerOK
  <1>12. Exclusive'
    BY <1>2, <1>3, <1>4 DEF IInv, Exclusive, Holding, Executing
  <1> QED BY <1>6, <1>7, <1>8, <1>9, <1>10, <1>11, <1>12 DEF IInv, WorkersOK

\* Return gives the call back, or deletes one that has its result.
LEMMA ReturnIInv ==
    ASSUME IInv, NEW w \in Worker, Return(w)
    PROVE  IInv'
  <1> PICK d : d = req[w].dec
    OBVIOUS
  <1> DEFINE t == TaskOf[log[d].ident]
  <1>1. /\ req \in [Worker -> Request] /\ pending \in [Pos -> HeldCall]
        /\ heard \in [Task -> SUBSET Label]
        /\ req[w] \in Request /\ req[w].pc = "return"
        /\ heard' = [heard EXCEPT ![t] = @ \cup req[w].labels]
        /\ req' = [req EXCEPT ![w] = Idle]
        /\ UNCHANGED <<log, behind, statements, taint, now, runs>>
    BY DEF IInv, TypeOK, Return
  <1>2. Executing(w) /\ WorkerOK(w) /\ t \in Task /\ d \in Pos /\ req[w].labels \in SUBSET Label
    BY <1>1, TaskOfCall, BusyOnRecord DEF Executing, IInv, WorkersOK, Request
  <1>3. req'[w] = Idle /\ \A v \in Worker \ {w} : req'[v] = req[v]
    BY <1>1
  <1>4. \/ pending' = pending
        \/ /\ pending' = [pending EXCEPT ![d].running = FALSE]
           /\ req[w].op = "resume" /\ req[w].status = "failed"
        \/ pending' = [pending EXCEPT ![d] = NotHeld]
    BY <1>1 DEF Return, Request
  <1>5. /\ pending' \in [Pos -> HeldCall]
        /\ \A e \in Pos \ {d} : pending'[e] = pending[e]
        /\ \/ pending'[d] = pending[d]
           \/ /\ pending'[d].held = pending[d].held /\ pending'[d].answer = pending[d].answer
              /\ req[w].status = "failed"
           \/ ~pending'[d].held
    <2>1. CASE pending' = pending
      BY <1>1, <2>1
    <2>2. CASE /\ pending' = [pending EXCEPT ![d].running = FALSE]
               /\ req[w].op = "resume" /\ req[w].status = "failed"
      BY <1>1, <1>2, <2>2 DEF HeldCall
    <2>3. CASE pending' = [pending EXCEPT ![d] = NotHeld]
      BY <1>1, <1>2, <2>3, IdleType
    <2> QED BY <1>4, <2>1, <2>2, <2>3
  <1>6. /\ heard' \in [Task -> SUBSET Label]
        /\ heard'[t] = heard[t] \cup req[w].labels
        /\ \A u \in Task \ {t} : heard'[u] = heard[u]
    BY <1>1, <1>2
  <1>7. TypeOK'
    BY <1>1, <1>5, <1>6, IdleType DEF IInv, TypeOK
  <1>8. LogVerifies' /\ NoReceiptNoAction' /\ ApprovalsBacked'
    BY <1>1, LogFrame
  <1>9. TaintCovers'
    <2>1. req[w].labels \subseteq taint[t]
      BY <1>1, <1>2 DEF WorkerOK, LabelsOK
    <2> QED BY <1>1, <1>6, <2>1 DEF IInv, TaintCovers
  <1>10. DeliveredIsRecorded'
    <2>1. \A l \in req[w].labels :
            \E j \in 1..Len(log) : log[j].type = "result" /\ TaskOf[log[j].ident] = t
                                   /\ l \in log[j].taint
      BY <1>1, <1>2 DEF WorkerOK, LabelsOK
    <2>2. \A u \in Task : \A l \in heard'[u] :
            \E j \in 1..Len(log) : log[j].type = "result" /\ TaskOf[log[j].ident] = u
                                   /\ l \in log[j].taint
      BY <1>6, <2>1 DEF IInv, DeliveredIsRecorded
    <2> QED BY <1>1, <2>2 DEF DeliveredIsRecorded
  <1>11. HeldOK'
    <2>1. \A e \in Pos : /\ pending'[e].held => Decided(e, "require_approval")
                         /\ pending'[e].held /\ pending'[e].answer.outcome = "approved" =>
                               Authorized(e)
      BY <1>2, <1>5 DEF IInv, HeldOK
    <2> QED BY <1>1, <2>1 DEF HeldOK, Decided, Authorized
  <1>12. HeldKnown'
    <2>1. req[w].status = "failed" /\ ~behind => ~HasResult(d)
      BY <1>1, <1>2 DEF WorkerOK, ResultOK
    <2>2. ~behind => \A e \in Pos : pending'[e].held =>
             /\ pending'[e].answer.outcome = "none" => ~Approved(e)
             /\ ~pending'[e].running => ~HasResult(e)
      BY <1>2, <1>5, <2>1 DEF IInv, HeldKnown
    <2> QED BY <1>1, <2>2 DEF HeldKnown, Approved, HasResult
  <1>13. WorkerOK(w)' /\ ~Holding(w)' /\ ~Executing(w)'
    BY <1>3, IdleType, WorkerAtRest
  <1>14. ASSUME NEW v \in Worker, v # w PROVE WorkerOK(v)'
    <2>1. WorkerOK(v) /\ req'[v] = req[v]
      BY <1>3, <1>14 DEF IInv, WorkersOK
    <2>2. Holding(v) \/ Executing(v) => req[v].dec \in Pos /\ req[v].dec # d
      BY <1>2, <1>14, BusyOnRecord DEF IInv, Exclusive
    <2>3. Holding(v) => ~pending'[req[v].dec].held
      BY <1>5, <2>1, <2>2 DEF WorkerOK, HolderOK
    <2>4. Executing(v) /\ req[v].op = "resume" =>
            pending'[req[v].dec].held /\ pending'[req[v].dec].running
      BY <1>5, <2>1, <2>2 DEF WorkerOK, ExecutorOK
    <2> QED BY <1>1, <2>1, <2>3, <2>4, WorkerBesideMap
  <1>15. Exclusive'
    BY <1>3, <1>13 DEF IInv, Exclusive, Holding, Executing
  <1> QED BY <1>7, <1>8, <1>9, <1>10, <1>11, <1>12, <1>13, <1>14, <1>15 DEF IInv, WorkersOK

\* A restart forgets what could disagree with the log.
LEMMA RestartIInv ==
    ASSUME IInv, Restart
    PROVE  IInv'
  <1>1. \A w \in Worker : req'[w].pc = "idle"
    BY IdleType DEF Restart
  <1>2. TypeOK'
    <2>1. req' \in [Worker -> Request] /\ pending' \in [Pos -> HeldCall]
      BY IdleType DEF Restart
    <2>2. taint' \in [Task -> SUBSET Label] /\ heard' \in [Task -> SUBSET Label]
      BY DEF Restart
    <2>3. behind' \in BOOLEAN
      BY DEF Restart
    <2> QED BY <2>1, <2>2, <2>3 DEF IInv, TypeOK, Restart
  <1>3. LogVerifies' /\ NoReceiptNoAction' /\ ApprovalsBacked'
    BY LogFrame DEF Restart
  <1>4. DeliveredIsRecorded' /\ TaintCovers'
    BY DEF Restart, DeliveredIsRecorded, TaintCovers
  <1>5. \A d \in Pos : ~pending'[d].held
    BY IdleType DEF Restart
  <1>6. HeldOK' /\ HeldKnown'
    BY <1>5 DEF HeldOK, HeldKnown
  <1>7. WorkersOK' /\ Exclusive'
    BY <1>1, WorkerAtRest DEF WorkersOK, Exclusive
  <1> QED BY <1>2, <1>3, <1>4, <1>6, <1>7 DEF IInv

\* Nothing in the invariant depends on the clock.
LEMMA SetClockIInv ==
    ASSUME IInv, NEW n \in Time, SetClock(n)
    PROVE  IInv'
  <1>1. now' \in Nat /\ UNCHANGED <<log, behind, statements, pending, taint, req, runs, heard>>
    BY GatewayAssumption DEF SetClock, Time
  <1>2. TypeOK'
    BY <1>1 DEF IInv, TypeOK
  <1>3. LogVerifies' /\ NoReceiptNoAction' /\ ApprovalsBacked'
        /\ DeliveredIsRecorded' /\ TaintCovers'
    BY <1>1, LogFrame, HeardFrame
  <1>4. HeldOK' /\ HeldKnown'
    BY <1>1 DEF IInv, HeldOK, HeldKnown, Decided, Authorized, Approved, HasResult
  <1>5. WorkersOK'
    BY <1>1, OtherWorker DEF IInv, WorkersOK
  <1>6. Exclusive'
    BY <1>1 DEF IInv, Exclusive, Holding, Executing
  <1> QED BY <1>2, <1>3, <1>4, <1>5, <1>6 DEF IInv

-----------------------------------------------------------------------------
(* Frames of the steps that write a receipt r. *)

\* Tools that have run stay authorized when the log grows.
LEMMA GrowNoReceipt ==
    ASSUME IInv, NEW r, Grow(r), UNCHANGED runs
    PROVE  NoReceiptNoAction'
  BY GrowAuthorized DEF IInv, NoReceiptNoAction

\* Approvals stay backed when the log grows and the new one is backed.
LEMMA GrowBacked ==
    ASSUME IInv, NEW r, Grow(r), statements \subseteq statements',
           r.type = "approval" =>
             \E st \in statements' :
                /\ st.dec = r.dec /\ st.outcome = r.verdict
                /\ st.approver = r.approver /\ st.expires = r.expires
                /\ st.dec \in 1..Len(log)
                /\ st.ident = log[st.dec].ident /\ st.call = log[st.dec].call
    PROVE  ApprovalsBacked'
  <1>1. /\ Len(log) \in Nat
        /\ \A i \in 1..Len(log) : log'[i] = log[i]
        /\ log'[Len(log) + 1] = r
        /\ 1..Len(log') = 1..Len(log) \cup {Len(log) + 1}
    BY GrowFacts DEF IInv
  <1> SUFFICES ASSUME NEW j \in 1..Len(log'), log'[j].type = "approval"
               PROVE  \E st \in statements' :
                         /\ st.dec = log'[j].dec /\ st.outcome = log'[j].verdict
                         /\ st.approver = log'[j].approver /\ st.expires = log'[j].expires
                         /\ st.ident = log'[st.dec].ident /\ st.call = log'[st.dec].call
    BY DEF ApprovalsBacked
  <1>2. CASE j \in 1..Len(log)
    <2>1. log'[j] = log[j]
      BY <1>1, <1>2
    <2>2. PICK st \in statements :
             /\ st.dec = log[j].dec /\ st.outcome = log[j].verdict
             /\ st.approver = log[j].approver /\ st.expires = log[j].expires
             /\ st.ident = log[st.dec].ident /\ st.call = log[st.dec].call
      BY <1>2, <2>1 DEF IInv, ApprovalsBacked
    <2>3. log[j].dec \in 1..(j - 1)
      BY <1>2, <2>1 DEF IInv, LogVerifies, ApprovalRule, DecisionBefore
    <2>4. st.dec \in 1..Len(log)
      BY <1>1, <1>2, <2>2, <2>3
    <2>5. log'[st.dec] = log[st.dec] /\ st \in statements'
      BY <1>1, <2>4
    <2> QED BY <2>1, <2>2, <2>5
  <1>3. CASE j = Len(log) + 1
    BY <1>1, <1>3
  <1> QED BY <1>1, <1>2, <1>3

\* Deliveries stay on record when the log grows.
LEMMA GrowDelivered ==
    ASSUME IInv, NEW r, Grow(r), UNCHANGED heard
    PROVE  DeliveredIsRecorded'
  <1>1. /\ \A i \in 1..Len(log) : log'[i] = log[i]
        /\ 1..Len(log) \subseteq 1..Len(log')
    BY GrowFacts DEF IInv
  <1> QED BY <1>1 DEF IInv, DeliveredIsRecorded

\* A request that did not move, when the receipt is not about its decision.
LEMMA WorkerBesideLog ==
    ASSUME IInv, NEW r, Grow(r), UNCHANGED taint, NEW v \in Worker, req'[v] = req[v],
           \A e \in Pos : /\ pending'[e].held = pending[e].held
                          /\ pending'[e].running = pending[e].running,
           ~behind' => /\ ~behind
                       /\ Holding(v) => ~(r.type = "approval" /\ r.dec = req[v].dec)
                       /\ Executing(v) => ~(r.type = "result" /\ r.dec = req[v].dec)
    PROVE  WorkerOK(v)'
  <1>1. /\ \A i \in 1..Len(log) : log'[i] = log[i]
        /\ 1..Len(log) \subseteq 1..Len(log')
    BY GrowFacts DEF IInv
  <1>2. WorkerOK(v) /\ TypeOK
    BY DEF IInv, WorkersOK
  <1> PICK d : d = req[v].dec /\ d = req'[v].dec
    OBVIOUS
  <1>3. Holding(v) \/ Executing(v) => d \in 1..Len(log) /\ d \in Pos /\ log'[d] = log[d]
    BY <1>1, BusyOnRecord
  <1>4. HolderOK(v)'
    <2> SUFFICES ASSUME Holding(v)
                 PROVE  /\ Decided(d, "require_approval")'
                        /\ ~pending'[d].held
                        /\ ~behind' => ~Approved(d)'
      BY DEF HolderOK, Holding
    <2>1. HolderOK(v)
      BY <1>2 DEF WorkerOK
    <2> QED BY <1>2, <1>3, <2>1, GrowDecided, GrowApproved DEF HolderOK
  <1>5. ExecutorOK(v)'
    <2> SUFFICES ASSUME Executing(v)
                 PROVE  /\ Authorized(d)'
                        /\ req[v].op = "call" => Decided(d, "allow")'
                        /\ req[v].op = "resume" => pending'[d].held /\ pending'[d].running
      BY DEF ExecutorOK, Executing
    <2>1. ExecutorOK(v)
      BY <1>2 DEF WorkerOK
    <2> QED BY <1>2, <1>3, <2>1, GrowDecided, GrowAuthorized DEF ExecutorOK
  <1>6. ResultOK(v)'
    <2>1. ResultOK(v) /\ (HasResult(d)' => HasResult(d) \/ (r.type = "result" /\ r.dec = d))
      BY <1>2, GrowHasResult DEF WorkerOK
    <2> QED BY <2>1 DEF ResultOK, Executing
  <1>7. LabelsOK(v)'
    <2>1. req[v].pc \in {"taint", "return"} => log'[d] = log[d]
      BY <1>3 DEF Executing
    <2> QED BY <1>1, <1>2, <2>1 DEF WorkerOK, LabelsOK
  <1>8. req'[v].pc = "admit" => d \in 1..Len(log')
    BY <1>1, <1>2 DEF WorkerOK
  <1> QED BY <1>4, <1>5, <1>6, <1>7, <1>8 DEF WorkerOK

\* Held calls stay on record and authorized when the log grows.
LEMMA GrowHeld ==
    ASSUME IInv, NEW r, Grow(r), UNCHANGED pending,
           ~behind' => /\ ~behind
                       /\ \A d \in Pos : pending[d].held =>
                             /\ pending[d].answer.outcome = "none" =>
                                   ~(r.type = "approval" /\ r.dec = d)
                             /\ ~pending[d].running => ~(r.type = "result" /\ r.dec = d)
    PROVE  HeldOK' /\ HeldKnown'
  <1>1. HeldOK'
    BY GrowDecided, GrowAuthorized DEF IInv, HeldOK
  <1>2. HeldKnown'
    BY GrowApproved, GrowHasResult DEF IInv, HeldKnown
  <1> QED BY <1>1, <1>2

\* The three ways an append can end.
LEMMA AppendOutcomes ==
    ASSUME IInv, NEW r \in Receipt, AppendOK(r) \/ AppendError(r)
    PROVE  \/ UNCHANGED <<log, behind>>
           \/ Grow(r) /\ CanAppend(r) /\ behind' \in BOOLEAN /\ Len(log') <= MaxLog
  <1>1. CASE CanAppend(r) /\ log' = Append(log, r)
    <2>1. Grow(r) /\ Len(log) \in Nat /\ Len(log') = Len(log) + 1
      BY <1>1, GrowFacts DEF Grow, IInv
    <2>2. Len(log') <= MaxLog
      BY <1>1, <2>1, GatewayAssumption DEF CanAppend
    <2>3. behind' \in BOOLEAN
      BY DEF AppendOK, AppendError, IInv, TypeOK
    <2> QED BY <1>1, <2>1, <2>2, <2>3
  <1> QED BY <1>1 DEF AppendOK, AppendError

\* A decision is written and the request that wrote it goes on as q.
LEMMA DecisionWritten ==
    ASSUME IInv, NEW r, Grow(r), CanAppend(r), r.type = "decision",
           behind' \in BOOLEAN, Len(log') <= MaxLog,
           UNCHANGED <<statements, pending, taint, now, runs, heard>>,
           NEW w \in Worker, NEW q \in Request, req' = [req EXCEPT ![w] = q],
           WorkerOK(w)',
           Holding(w)' \/ Executing(w)' => q.dec = Len(log) + 1
    PROVE  IInv'
  <1>1. /\ Len(log) \in Nat
        /\ log' \in Seq(Receipt)
        /\ log'[Len(log) + 1] = r
    BY GrowFacts DEF IInv
  <1>2. req'[w] = q /\ \A v \in Worker \ {w} : req'[v] = req[v]
    BY DEF IInv, TypeOK
  <1>3. TypeOK'
    BY <1>1 DEF IInv, TypeOK
  <1>4. LogVerifies'
    <2>1. ApprovalRule(log', Len(log) + 1) /\ ResultRule(log', Len(log) + 1)
      BY <1>1 DEF ApprovalRule, ResultRule
    <2> QED BY <2>1, GrowVerifies DEF IInv
  <1>5. NoReceiptNoAction' /\ ApprovalsBacked' /\ DeliveredIsRecorded'
    BY GrowNoReceipt, GrowBacked, GrowDelivered
  <1>6. ~behind
    BY DEF CanAppend
  <1>7. HeldOK' /\ HeldKnown'
    BY <1>6, GrowHeld
  <1>8. \A v \in Worker \ {w} : WorkerOK(v)'
    BY <1>2, <1>6, WorkerBesideLog
  <1>9. Exclusive'
    <2>1. \A v \in Worker : Holding(v) \/ Executing(v) => req[v].dec # Len(log) + 1
      BY <1>1, BusyOnRecord
    <2> QED BY <1>2, <2>1 DEF IInv, Exclusive, Holding, Executing
  <1>10. TaintCovers'
    BY DEF IInv, TaintCovers
  <1> QED BY <1>3, <1>4, <1>5, <1>7, <1>8, <1>9, <1>10 DEF IInv, WorkersOK

\* RecordDecision, written or not, or written without notice.
LEMMA RecordDecisionIInv ==
    ASSUME IInv, NEW w \in Worker, RecordDecision(w)
    PROVE  IInv'
  <1> DEFINE q == req[w]
             rr == Decision(now, q.ident, q.call, q.verdict, q.taint)
  <1> PICK r : r = rr
    OBVIOUS
  <1> PICK n : n = Len(log) + 1
    OBVIOUS
  <1>1. /\ req \in [Worker -> Request] /\ q \in Request /\ now \in Nat
        /\ q.verdict \in PolicyVerdict
        /\ UNCHANGED <<statements, pending, taint, now, runs, heard>>
    BY DEF IInv, TypeOK, RecordDecision, Request
  <1>2. r \in Receipt /\ r.type = "decision" /\ r.verdict = q.verdict
    <2>1. q.ident \in Ident /\ q.call \in Call /\ q.taint \in SUBSET Label
      BY <1>1 DEF Request
    <2>2. rr \in Receipt
      BY <1>1, <2>1, ConstructorTypes
    <2> QED BY <2>2 DEF Decision
  <1>3. \/ AppendOK(r) /\ req' = [req EXCEPT ![w] =
                  CASE q.verdict = "deny"             -> Idle
                    [] q.verdict = "require_approval" -> GoOn("hold", "call", n)
                    [] q.verdict = "allow"            -> GoOn("prepare", "call", n)]
        \/ AppendError(r) /\ req' = [req EXCEPT ![w] = Idle]
    BY DEF RecordDecision
  <1>4. PICK new \in Request :
           /\ req' = [req EXCEPT ![w] = new]
           /\ \/ new = Idle /\ (AppendOK(r) \/ AppendError(r))
              \/ new = GoOn("hold", "call", n) /\ AppendOK(r) /\ q.verdict = "require_approval"
              \/ new = GoOn("prepare", "call", n) /\ AppendOK(r) /\ q.verdict = "allow"
    <2>1. n \in Nat
      BY LenNat DEF IInv, TypeOK
    <2>2. Idle \in Request /\ GoOn("hold", "call", n) \in Request
          /\ GoOn("prepare", "call", n) \in Request
      BY <2>1, IdleType, GoOnType
    <2> QED BY <1>1, <1>3, <2>2 DEF PolicyVerdict
  <1>5. req'[w] = new
    BY <1>1, <1>4
  <1>6. CASE new = Idle
    <2>1. WorkerOK(w)' /\ ~Holding(w)' /\ ~Executing(w)'
      BY <1>5, <1>6, IdleType, WorkerAtRest
    <2>2. AppendOK(r) \/ AppendError(r)
      BY <1>4
    <2>3. CASE UNCHANGED <<log, behind>>
      BY <1>1, <1>4, <2>1, <2>3, LocalStep
    <2>4. CASE Grow(r) /\ CanAppend(r) /\ behind' \in BOOLEAN /\ Len(log') <= MaxLog
      BY <1>1, <1>2, <1>4, <2>1, <2>4, DecisionWritten
    <2> QED BY <1>2, <2>2, <2>3, <2>4, AppendOutcomes
  <1>7. CASE /\ AppendOK(r)
             /\ \/ new = GoOn("hold", "call", n) /\ q.verdict = "require_approval"
                \/ new = GoOn("prepare", "call", n) /\ q.verdict = "allow"
    <2>1. Grow(r) /\ CanAppend(r) /\ behind' \in BOOLEAN /\ Len(log') <= MaxLog
      <3>1. Grow(r) /\ CanAppend(r)
        BY <1>2, <1>7 DEF Grow, AppendOK
      <3>2. Len(log) \in Nat /\ Len(log') = Len(log) + 1
        BY <3>1, GrowFacts DEF IInv
      <3>3. ~UNCHANGED <<log, behind>>
        BY <3>2
      <3> QED BY <1>2, <1>7, <3>3, AppendOutcomes
    <2>2. /\ Len(log) \in Nat /\ n \in 1..Len(log') /\ log'[n] = r /\ n \in Nat
      BY <2>1, GrowFacts DEF IInv
    <2>3. n \in Pos
      BY <2>1, <2>2, GatewayAssumption DEF Pos
    <2>5. log'[n].type = "decision" /\ log'[n].verdict = q.verdict
      BY <1>2, <2>2
    <2>6. ~Approved(n)' /\ ~HasResult(n)'
      BY <1>2, <2>1, NothingAhead, GrowApproved, GrowHasResult DEF IInv
    <2>7. ~pending[n].held
      BY <2>2, <2>3 DEF IInv, HeldOK, Decided
    <2>8. CASE new = GoOn("hold", "call", n) /\ q.verdict = "require_approval"
      <3>1. new.pc = "hold" /\ new.dec = n
        BY <2>2, <2>8, GoOnType
      <3>2. Decided(n, "require_approval")'
        BY <2>2, <2>5, <2>8 DEF Decided
      <3>3. HolderOK(w)'
        BY <1>1, <1>5, <2>6, <2>7, <3>1, <3>2 DEF HolderOK
      <3>4. WorkerOK(w)'
        BY <1>5, <3>1, <3>3 DEF WorkerOK, ExecutorOK, Executing, ResultOK, LabelsOK
      <3> QED BY <1>1, <1>2, <1>4, <2>1, <3>1, <3>4, DecisionWritten
    <2>9. CASE new = GoOn("prepare", "call", n) /\ q.verdict = "allow"
      <3>1. new.pc = "prepare" /\ new.dec = n /\ new.op = "call" /\ new.labels = {}
        BY <2>2, <2>9, GoOnType
      <3>2. Decided(n, "allow")' /\ Authorized(n)'
        BY <2>2, <2>5, <2>9 DEF Decided, Authorized
      <3>3. HolderOK(w)' /\ ResultOK(w)' /\ LabelsOK(w)'
        BY <1>5, <2>6, <3>1 DEF HolderOK, Holding, ResultOK, LabelsOK
      <3>4. ExecutorOK(w)'
        BY <1>5, <3>1, <3>2 DEF ExecutorOK
      <3>5. WorkerOK(w)'
        BY <1>5, <3>1, <3>3, <3>4 DEF WorkerOK
      <3> QED BY <1>1, <1>2, <1>4, <2>1, <3>1, <3>5, DecisionWritten
    <2> QED BY <1>7, <2>8, <2>9
  <1> QED BY <1>4, <1>6, <1>7

\* Approve, with the same three outcomes of the approval receipt.
LEMMA ApproveIInv ==
    ASSUME IInv, NEW st \in SignedStatement, st.dec \in 1..Len(log), Approve(st)
    PROVE  IInv'
  <1> PICK d : d = st.dec
    OBVIOUS
  <1> PICK r : r = Approval(now, d, log[d].ident, log[d].call,
                            st.outcome, st.approver, st.expires)
    OBVIOUS
  <1>1. /\ d \in 1..Len(log) /\ d \in Pos /\ d \in Nat /\ log[d] \in Receipt
        /\ pending \in [Pos -> HeldCall] /\ Len(log) \in Nat
    BY LogPositions, LogElement DEF IInv, TypeOK
  <1>2. /\ pending[d].held /\ pending[d].answer.outcome = "none"
        /\ st.ident = log[d].ident /\ st.call = log[d].call
        /\ st.approver \in Approver /\ st.approver # PrincipalOf[log[d].ident]
        /\ statements' = statements \cup {st}
        /\ UNCHANGED <<taint, req, now, runs, heard>>
    BY DEF Approve, Answerable, Accept
  <1>3. /\ st.outcome \in {"approved", "rejected"} /\ st.approver \in Person
        /\ st.expires \in Nat
    BY DEF SignedStatement
  <1>4. /\ r.type = "approval" /\ r.dec = d /\ r.ident = log[d].ident /\ r.call = log[d].call
        /\ r.verdict = st.outcome /\ r.approver = st.approver /\ r.expires = st.expires
    BY DEF Approval
  <1>5. r \in Receipt
    <2>1. log[d].ident \in Ident /\ log[d].call \in Call /\ now \in Nat
      BY <1>1 DEF Receipt, IInv, TypeOK
    <2> QED BY <1>1, <1>3, <2>1, ConstructorTypes
  <1>6. statements' \subseteq SignedStatement
    BY <1>2 DEF IInv, TypeOK
  <1>7. Decided(d, "require_approval")
    BY <1>1, <1>2 DEF IInv, HeldOK
  <1>8. CASE UNCHANGED <<log, behind, pending>>
    <2>1. TypeOK'
      BY <1>2, <1>6, <1>8 DEF IInv, TypeOK
    <2>2. LogVerifies' /\ NoReceiptNoAction' /\ DeliveredIsRecorded' /\ TaintCovers'
      BY <1>2, <1>8 DEF IInv, LogVerifies, NoReceiptNoAction, Authorized,
                        DeliveredIsRecorded, TaintCovers
    <2>3. ApprovalsBacked'
      BY <1>2, <1>8 DEF IInv, ApprovalsBacked
    <2>4. HeldOK' /\ HeldKnown'
      BY <1>8 DEF IInv, HeldOK, HeldKnown, Decided, Authorized, Approved, HasResult
    <2>5. WorkersOK'
      BY <1>2, <1>8, OtherWorker DEF IInv, WorkersOK
    <2>6. Exclusive'
      BY <1>2 DEF IInv, Exclusive, Holding, Executing
    <2> QED BY <2>1, <2>2, <2>3, <2>4, <2>5, <2>6 DEF IInv
  <1>9. CASE /\ Grow(r) /\ CanAppend(r) /\ behind' \in BOOLEAN /\ Len(log') <= MaxLog
             /\ \/ behind' /\ pending' = pending
                \/ pending' = [pending EXCEPT ![d].answer =
                     [outcome |-> st.outcome, approver |-> st.approver, expires |-> st.expires]]
    <2>1. /\ log' \in Seq(Receipt) /\ Len(log') = Len(log) + 1
          /\ \A i \in 1..Len(log) : log'[i] = log[i]
          /\ log'[Len(log) + 1] = r
      BY <1>9, GrowFacts DEF IInv
    <2>2. ~behind
      BY <1>9 DEF CanAppend
    <2>3. ~Approved(d) /\ ~HasResult(d)
      BY <1>1, <1>2, <1>7, <2>2, NoApprovalNoResult DEF IInv, HeldKnown
    <2>4. /\ pending' \in [Pos -> HeldCall]
          /\ \A e \in Pos : /\ pending'[e].held = pending[e].held
                            /\ pending'[e].running = pending[e].running
          /\ \A e \in Pos \ {d} : pending'[e] = pending[e]
          /\ (behind' /\ pending' = pending) \/ pending'[d].answer.outcome = st.outcome
      <3>1. CASE behind' /\ pending' = pending
        BY <1>1, <3>1
      <3>2. CASE pending' = [pending EXCEPT ![d].answer =
                     [outcome |-> st.outcome, approver |-> st.approver, expires |-> st.expires]]
        BY <1>1, <1>3, <3>2 DEF HeldCall, Answered
      <3> QED BY <1>9, <3>1, <3>2
    <2>5. TypeOK'
      BY <1>2, <1>6, <1>9, <2>1, <2>4 DEF IInv, TypeOK
    <2>6. LogVerifies'
      <3>1. log'[d].type = "decision" /\ log'[d].verdict = "require_approval"
            /\ log'[d] = log[d]
        BY <1>1, <1>7, <2>1 DEF Decided
      <3> PICK n : n = Len(log) + 1
        OBVIOUS
      <3>2. 1..(n - 1) = 1..Len(log) /\ log'[n] = r
        BY <1>1, <2>1
      <3>3. \A j \in 1..(n - 1) : ~ApprovalBefore(log', n, d, j)
        BY <2>1, <2>3, <3>2 DEF ApprovalBefore, Approved
      <3>4. ~Resulted(log', n, d)
        BY <2>1, <2>3, <3>2 DEF Resulted, HasResult
      <3>5. ApprovalRule(log', n)
        <4>1. DecisionBefore(log', n, d)
          BY <1>1, <3>1, <3>2 DEF DecisionBefore
        <4>2. SameCall(log'[d], r) /\ r.approver # PrincipalOf[log'[d].ident]
          BY <1>2, <1>4, <3>1 DEF SameCall
        <4> QED BY <1>4, <3>1, <3>2, <3>3, <3>4, <4>1, <4>2 DEF ApprovalRule
      <3>6. ResultRule(log', n)
        BY <1>4, <3>2 DEF ResultRule
      <3> QED BY <1>9, <3>5, <3>6, GrowVerifies DEF IInv
    <2>7. NoReceiptNoAction' /\ DeliveredIsRecorded' /\ TaintCovers'
      BY <1>2, <1>9, GrowNoReceipt, GrowDelivered DEF IInv, TaintCovers
    <2>8. ApprovalsBacked'
      BY <1>1, <1>2, <1>4, <1>9, GrowBacked
    <2>9. HeldOK' /\ HeldKnown'
      <3>1. CASE behind' /\ pending' = pending
        BY <1>9, <3>1, GrowHeld
      <3>2. CASE pending'[d].answer.outcome = st.outcome
        <4>1. st.outcome = "approved" => Authorized(d)'
          <5>1. /\ d \in 1..Len(log') /\ log'[d].type = "decision"
                /\ log'[d].verdict = "require_approval" /\ log'[d] = log[d]
                /\ Len(log) + 1 \in 1..Len(log')
            BY <1>1, <1>7, <2>1 DEF Decided
          <5> QED BY <1>2, <1>4, <2>1, <5>1 DEF Authorized
        <4>2. HeldOK'
          BY <1>9, <2>4, <3>2, <4>1, GrowDecided, GrowAuthorized DEF IInv, HeldOK
        <4>3. HeldKnown'
          <5>1. \A e \in Pos \ {d} : Approved(e)' => Approved(e)
            BY <1>4, <1>9, GrowApproved DEF IInv
          <5>2. \A e \in Pos : HasResult(e)' => HasResult(e)
            BY <1>4, <1>9, GrowHasResult DEF IInv
          <5>3. \A e \in Pos \ {d} : pending'[e].held =>
                  /\ pending'[e].answer.outcome = "none" => ~Approved(e)'
                  /\ ~pending'[e].running => ~HasResult(e)'
            <6> SUFFICES ASSUME NEW e \in Pos \ {d}, pending'[e].held
                         PROVE  /\ pending'[e].answer.outcome = "none" => ~Approved(e)'
                                /\ ~pending'[e].running => ~HasResult(e)'
              OBVIOUS
            <6>1. pending'[e] = pending[e]
              BY <2>4
            <6>2. /\ pending[e].answer.outcome = "none" => ~Approved(e)
                  /\ ~pending[e].running => ~HasResult(e)
              BY <2>2, <6>1 DEF IInv, HeldKnown
            <6> QED BY <5>1, <5>2, <6>1, <6>2
          <5>4. pending'[d].answer.outcome # "none" /\ ~HasResult(d)'
            BY <1>1, <1>3, <2>3, <3>2, <5>2
          <5> QED BY <5>3, <5>4 DEF HeldKnown
        <4> QED BY <4>2, <4>3
      <3> QED BY <2>4, <3>1, <3>2
    <2>10. WorkersOK'
      <3> SUFFICES ASSUME NEW v \in Worker PROVE WorkerOK(v)'
        BY DEF WorkersOK
      <3>1. Holding(v) => req[v].dec # d
        BY <1>2 DEF IInv, WorkersOK, WorkerOK, HolderOK
      <3> QED BY <1>2, <1>4, <1>9, <2>2, <2>4, <3>1, WorkerBesideLog
    <2>11. Exclusive'
      BY <1>2 DEF IInv, Exclusive, Holding, Executing
    <2> QED BY <2>5, <2>6, <2>7, <2>8, <2>9, <2>10, <2>11 DEF IInv
  <1>10. \/ /\ AppendOK(r)
            /\ pending' = [pending EXCEPT ![d].answer =
                 [outcome |-> st.outcome, approver |-> st.approver, expires |-> st.expires]]
         \/ AppendError(r) /\ pending' = pending
    BY DEF Approve
  <1>11. CASE UNCHANGED <<log, behind>>
    <2>1. ~AppendOK(r)
      <3>1. log' = Append(log, r) => Len(log') = Len(log) + 1
        BY <1>5, AppendFacts DEF IInv, TypeOK
      <3> QED BY <1>1, <1>11, <3>1 DEF AppendOK
    <2> QED BY <1>8, <1>10, <1>11, <2>1
  <1>12. CASE Grow(r) /\ CanAppend(r) /\ behind' \in BOOLEAN /\ Len(log') <= MaxLog
    <2>1. AppendError(r) => behind'
      <3>1. Len(log') = Len(log) + 1
        BY <1>12, GrowFacts DEF IInv
      <3> QED BY <1>1, <3>1 DEF AppendError
    <2> QED BY <1>9, <1>10, <1>12, <2>1
  <1> QED BY <1>5, <1>10, <1>11, <1>12, AppendOutcomes

\* RecordResult, with the same three outcomes of the result receipt.
LEMMA RecordResultIInv ==
    ASSUME IInv, NEW w \in Worker, RecordResult(w)
    PROVE  IInv'
  <1> PICK d : d = req[w].dec
    OBVIOUS
  <1> PICK r : r = Result(now, d, log[d].ident, log[d].call, req[w].status, req[w].labels)
    OBVIOUS
  <1> DEFINE done == [req[w] EXCEPT !.pc = "taint"]
             failed == [req[w] EXCEPT !.pc = "return", !.status = "failed", !.labels = {}]
  <1>1. /\ req \in [Worker -> Request] /\ req[w] \in Request /\ req[w].pc = "result"
        /\ Executing(w) /\ WorkerOK(w)
        /\ UNCHANGED <<statements, pending, taint, now, runs, heard>>
    BY DEF IInv, TypeOK, WorkersOK, RecordResult, Executing
  <1>2. /\ d \in 1..Len(log) /\ d \in Pos /\ d \in Nat /\ log[d] \in Receipt
        /\ Len(log) \in Nat
    BY <1>1, BusyOnRecord, LogPositions, LogElement DEF IInv
  <1>3. req[w].status \in {"ok", "error"} /\ req[w].labels \in SUBSET Label
        /\ req[w].op \in {"call", "resume"}
    BY <1>1 DEF WorkerOK, ResultOK, Request
  <1>4. r \in Receipt
    <2>1. log[d].ident \in Ident /\ log[d].call \in Call /\ now \in Nat
      BY <1>2 DEF Receipt, IInv, TypeOK
    <2> QED BY <1>2, <1>3, <2>1, ConstructorTypes
  <1>5. /\ r.type = "result" /\ r.dec = d /\ r.ident = log[d].ident /\ r.call = log[d].call
        /\ r.taint = req[w].labels
    BY DEF Result
  <1>6. /\ done \in Request /\ done.pc = "taint" /\ done.dec = d /\ done.op = req[w].op
        /\ done.labels = req[w].labels /\ done.status = req[w].status
    BY <1>1 DEF Request
  <1>7. /\ failed \in Request /\ failed.pc = "return" /\ failed.dec = d
        /\ failed.op = req[w].op /\ failed.labels = {} /\ failed.status = "failed"
    BY <1>1 DEF Request
  <1>8. \/ AppendOK(r) /\ req' = [req EXCEPT ![w] = done]
        \/ AppendError(r) /\ req' = [req EXCEPT ![w] = failed]
    BY DEF RecordResult
  <1>9. /\ Authorized(d)
        /\ req[w].op = "call" => Decided(d, "allow")
        /\ req[w].op = "resume" => pending[d].held /\ pending[d].running
        /\ ~behind => ~HasResult(d)
    BY <1>1 DEF WorkerOK, ExecutorOK, ResultOK
  <1> HIDE DEF done, failed
  <1>10. PICK q \in Request :
           /\ req' = [req EXCEPT ![w] = q]
           /\ (q = done /\ AppendOK(r)) \/ (q = failed /\ AppendError(r))
    <2>1. done \in Request /\ failed \in Request
      BY <1>6, <1>7
    <2> QED BY <1>8, <2>1
  <1>11. req'[w] = q /\ \A v \in Worker \ {w} : req'[v] = req[v]
    BY <1>1, <1>10
  <1>12. CASE UNCHANGED <<log, behind>>
    <2>1. ~AppendOK(r)
      <3>1. log' = Append(log, r) => Len(log') = Len(log) + 1
        BY <1>4, AppendFacts DEF IInv, TypeOK
      <3> QED BY <1>2, <1>12, <3>1 DEF AppendOK
    <2>2. q = failed
      BY <1>10, <2>1
    <2>3. HolderOK(w)' /\ LabelsOK(w)'
      BY <1>7, <1>11, <2>2 DEF HolderOK, Holding, LabelsOK
    <2>4. ExecutorOK(w)' /\ ResultOK(w)'
      BY <1>1, <1>7, <1>9, <1>11, <1>12, <2>2
         DEF ExecutorOK, ResultOK, Authorized, Decided, HasResult
    <2>5. WorkerOK(w)'
      BY <1>7, <1>11, <2>2, <2>3, <2>4 DEF WorkerOK
    <2> QED BY <1>1, <1>7, <1>10, <1>12, <2>2, <2>5, LocalStep
  <1>13. CASE Grow(r) /\ CanAppend(r) /\ behind' \in BOOLEAN /\ Len(log') <= MaxLog
    <2> PICK n : n = Len(log) + 1
      OBVIOUS
    <2>1. /\ log' \in Seq(Receipt) /\ Len(log') = n
          /\ \A i \in 1..Len(log) : log'[i] = log[i]
          /\ log'[n] = r /\ 1..(n - 1) = 1..Len(log) /\ n \in 1..Len(log')
          /\ log'[d] = log[d]
      BY <1>2, <1>13, GrowFacts DEF IInv
    <2>2. ~behind /\ ~HasResult(d)
      BY <1>9, <1>13 DEF CanAppend
    <2>3. TypeOK'
      BY <1>1, <1>10, <1>13, <2>1 DEF IInv, TypeOK
    <2>4. LogVerifies'
      <3>1. DecisionBefore(log', n, d) /\ SameCall(log'[d], r) /\ log[d].verdict # "deny"
        BY <1>2, <1>5, <1>9, <2>1 DEF DecisionBefore, SameCall, Authorized
      <3>2. ~Resulted(log', n, d)
        BY <2>1, <2>2 DEF Resulted, HasResult
      <3>3. log[d].verdict = "require_approval" =>
              \E j \in 1..(n - 1) : ApprovalBefore(log', n, d, j) /\ log'[j].verdict = "approved"
        BY <1>9, <2>1 DEF Authorized, ApprovalBefore
      <3>4. ResultRule(log', n)
        BY <1>5, <2>1, <3>1, <3>2, <3>3 DEF ResultRule
      <3>5. ApprovalRule(log', n)
        BY <1>5, <2>1 DEF ApprovalRule
      <3> QED BY <1>13, <3>4, <3>5, GrowVerifies DEF IInv
    <2>5. NoReceiptNoAction' /\ DeliveredIsRecorded' /\ TaintCovers'
      BY <1>1, <1>13, GrowNoReceipt, GrowDelivered DEF IInv, TaintCovers
    <2>6. ApprovalsBacked'
      BY <1>1, <1>5, <1>13, GrowBacked
    <2>7. \A e \in Pos : pending[e].held /\ ~pending[e].running => e # d
      BY <1>1, <1>2, ResumableIsFree
    <2>8. HeldOK' /\ HeldKnown'
      BY <1>1, <1>5, <1>13, <2>2, <2>7, GrowHeld
    <2>9. ASSUME NEW v \in Worker, v # w PROVE WorkerOK(v)'
      <3>1. Executing(v) => req[v].dec # d
        BY <1>1, <2>9 DEF IInv, Exclusive
      <3> QED BY <1>1, <1>5, <1>11, <1>13, <2>2, <2>9, <3>1, WorkerBesideLog
    <2>10. ExecutorOK(w)' /\ HolderOK(w)'
      <3>1. Authorized(d)' /\ (Decided(d, "allow") => Decided(d, "allow")')
        BY <1>9, <1>13, GrowAuthorized, GrowDecided DEF IInv
      <3>2. q.dec = d /\ q.op = req[w].op /\ q.pc # "hold"
        BY <1>6, <1>7, <1>10
      <3> QED BY <1>1, <1>9, <1>11, <3>1, <3>2 DEF ExecutorOK, HolderOK, Holding
    <2>11. ResultOK(w)' /\ LabelsOK(w)'
      <3>1. CASE q = failed
        <4>1. AppendError(r) => behind'
          BY <1>2, <2>1 DEF AppendError
        <4>2. AppendError(r)
          BY <1>6, <1>7, <1>10, <3>1
        <4> QED BY <1>7, <1>10, <1>11, <3>1, <4>1, <4>2 DEF ResultOK, LabelsOK
      <3>2. CASE q = done
        <4>1. \A l \in req[w].labels :
                 \E j \in 1..Len(log') :
                    /\ log'[j].type = "result"
                    /\ TaskOf[log'[j].ident] = TaskOf[log'[d].ident]
                    /\ l \in log'[j].taint
          BY <1>5, <2>1
        <4> QED BY <1>3, <1>6, <1>11, <3>2, <4>1 DEF ResultOK, LabelsOK
      <3> QED BY <1>10, <3>1, <3>2
    <2>12. WorkerOK(w)'
      BY <1>6, <1>7, <1>10, <1>11, <2>10, <2>11 DEF WorkerOK
    <2>13. Exclusive'
      <3>1. q.dec = req[w].dec
        BY <1>6, <1>7, <1>10
      <3> QED BY <1>1, <1>11, <3>1 DEF IInv, Exclusive, Holding, Executing
    <2> QED BY <2>3, <2>4, <2>5, <2>6, <2>8, <2>9, <2>12, <2>13 DEF IInv, WorkersOK
  <1> QED BY <1>4, <1>10, <1>12, <1>13, AppendOutcomes

-----------------------------------------------------------------------------
(* The invariant, and the properties it carries. *)

\* Every step keeps the invariant.
LEMMA NextIInv == IInv /\ [Next]_vars => IInv'
  <1> SUFFICES ASSUME IInv, [Next]_vars PROVE IInv'
    OBVIOUS
  <1>1. ASSUME NEW w \in Worker, NEW x \in Proposal, NEW m \in Served \ {"down"},
               CallBegin(w, x[1], x[2], m)
        PROVE  IInv'
    BY <1>1, CallBeginIInv
  <1>2. ASSUME NEW w \in Worker, NEW i \in Ident, NEW d \in 1..Len(log), ResumeBegin(w, i, d)
        PROVE  IInv'
    BY <1>2, ResumeBeginIInv
  <1>3. ASSUME NEW w \in Worker, Work(w)
        PROVE  IInv'
    BY <1>3, DecideIInv, RecordDecisionIInv, HoldIInv, ResumeAdmitIInv, PrepareIInv,
       InvokeIInv, RecordResultIInv, AddTaintIInv, ReturnIInv DEF Work
  <1>4. ASSUME NEW d \in 1..Len(log), NEW shown \in 1..Len(log),
               NEW outcome \in {"approved", "rejected"},
               NEW a \in Person, NEW expires \in 1..(MaxTime + 1),
               Approve(Statement(d, shown, outcome, a, expires))
        PROVE  IInv'
    <2> PICK st : st = Statement(d, shown, outcome, a, expires)
      OBVIOUS
    <2>1. d \in Nat /\ log[shown] \in Receipt /\ expires \in Nat
      BY LogPositions, LogElement, GatewayAssumption DEF IInv
    <2>2. st \in SignedStatement /\ st.dec = d
      BY <2>1 DEF Statement, SignedStatement, Receipt
    <2> QED BY <1>4, <2>2, ApproveIInv
  <1>5. CASE Restart
    BY <1>5, RestartIInv
  <1>6. ASSUME NEW n \in Time, SetClock(n)
        PROVE  IInv'
    BY <1>6, SetClockIInv
  <1>7. CASE UNCHANGED vars
    <2>1. UNCHANGED <<log, behind, statements, pending, taint, req, now, runs, heard>>
      BY <1>7 DEF vars
    <2>2. TypeOK'
      BY <2>1 DEF IInv, TypeOK
    <2>3. LogVerifies' /\ NoReceiptNoAction' /\ ApprovalsBacked'
          /\ DeliveredIsRecorded' /\ TaintCovers'
      BY <2>1, LogFrame, HeardFrame
    <2>4. HeldOK' /\ HeldKnown'
      BY <2>1 DEF IInv, HeldOK, HeldKnown, Decided, Authorized, Approved, HasResult
    <2>5. WorkersOK' /\ Exclusive'
      BY <2>1, OtherWorker DEF IInv, WorkersOK, Exclusive, Holding, Executing
    <2> QED BY <2>2, <2>3, <2>4, <2>5 DEF IInv
  <1> QED BY <1>1, <1>2, <1>3, <1>4, <1>5, <1>6, <1>7 DEF Next

\* The invariant holds in every reachable state of the gateway, whatever the
\* numbers of requests, receipts, people, tools and labels.
THEOREM Invariance == Spec => []IInv
  BY InitIInv, NextIInv, PTL DEF Spec

\* The variables of the gateway keep their types, and the log never outgrows
\* the sequence numbers the chain has.
THEOREM TypeCorrectness == Spec => []TypeOK
  BY Invariance, PTL DEF IInv

\* No receipt, no action: a tool is invoked only for a decision that the log
\* already authorizes.
THEOREM NoActionWithoutReceipt == Spec => []NoReceiptNoAction
  BY Invariance, PTL DEF IInv

\* The log the gateway writes obeys the verifier's rules.
THEOREM LogAlwaysVerifies == Spec => []LogVerifies
  BY Invariance, PTL DEF IInv

\* Every approval receipt is backed by a stored statement over its call.
THEOREM ApprovalsAlwaysBacked == Spec => []ApprovalsBacked
  BY Invariance, PTL DEF IInv

\* What an agent was given is on record.
THEOREM DeliveriesRecorded == Spec => []DeliveredIsRecorded
  BY Invariance, PTL DEF IInv

\* Two requests never execute the same decision at the same time.
THEOREM OneRunnerAtATime == Spec => []OneRunner
  <1>1. IInv => OneRunner
    BY DEF IInv, Exclusive, OneRunner
  <1> QED BY <1>1, Invariance, PTL

\* Approve moves no request and runs no tool.
LEMMA ApproveFrame == ASSUME NEW st, Approve(st) PROVE UNCHANGED <<req, runs>>
  BY DEF Approve

\* The clock moves no request and runs no tool.
LEMMA ClockFrame == ASSUME NEW n, SetClock(n) PROVE UNCHANGED <<req, runs>>
  BY DEF SetClock

\* Of the steps of a request only Invoke runs a tool.
LEMMA OnlyInvokeRuns == ASSUME NEW w, Work(w) PROVE UNCHANGED runs \/ Invoke(w)
  <1>1. ASSUME NEW hasCred, NEW m, Prepare(w, hasCred, m) PROVE UNCHANGED runs
    BY <1>1 DEF Prepare
  <1>2. ASSUME Decide(w) \/ Hold(w) \/ ResumeAdmit(w) \/ AddTaint(w) PROVE UNCHANGED runs
    BY <1>2 DEF Decide, Hold, ResumeAdmit, AddTaint
  <1>3. ASSUME RecordDecision(w) \/ RecordResult(w) \/ Return(w) PROVE UNCHANGED runs
    BY <1>3 DEF RecordDecision, RecordResult, Return
  <1> QED BY <1>1, <1>2, <1>3 DEF Work

\* A decision is made with every label that was delivered to its task.
THEOREM TaintReachesDecisions == Spec => DecidedWithTaint
  <1> DEFINE A == \A w \in Worker : req[w].pc = "decide" /\ req'[w].pc = "record"
                    => heard[TaskOf[req[w].ident]] \subseteq req'[w].taint
  <1>1. IInv /\ [Next]_vars => [A]_vars
    <2> SUFFICES ASSUME IInv, Next, NEW w \in Worker,
                        req[w].pc = "decide", req'[w].pc = "record"
                 PROVE  heard[TaskOf[req[w].ident]] \subseteq req'[w].taint
      OBVIOUS
    <2>1. req \in [Worker -> Request] /\ req[w] \in Request
      BY DEF IInv, TypeOK
    <2>2. Decide(w)
      <3>1. ASSUME NEW v \in Worker, NEW x \in Proposal, NEW m \in Served,
                   CallBegin(v, x[1], x[2], m)
            PROVE  FALSE
        <4>1. req'[v].pc = "decide" /\ \A u \in Worker \ {v} : req'[u] = req[u]
          BY <2>1, <3>1 DEF CallBegin, Idle
        <4> QED BY <4>1
      <3>2. ASSUME NEW v \in Worker, NEW i \in Ident, NEW d \in 1..Len(log), ResumeBegin(v, i, d)
            PROVE  FALSE
        <4>1. req[v].pc = "idle" /\ \A u \in Worker \ {v} : req'[u] = req[u]
          BY <2>1, <3>2 DEF ResumeBegin
        <4> QED BY <4>1
      <3>3. ASSUME NEW v \in Worker, Work(v), v # w
            PROVE  FALSE
        <4>1. req'[w] = req[w]
          BY <2>1, <3>3 DEF Work, Decide, RecordDecision, Hold, ResumeAdmit, Prepare, Invoke,
                            RecordResult, AddTaint, Return
        <4> QED BY <4>1
      <3>4. ASSUME Work(w)
            PROVE  Decide(w)
        BY <3>4 DEF Work, RecordDecision, Hold, ResumeAdmit, Prepare, Invoke, RecordResult,
                    AddTaint, Return
      <3>5. ~Restart
        BY IdleType DEF Restart
      <3>6. ~(UNCHANGED <<req, runs>>)
        OBVIOUS
      <3> QED BY <3>1, <3>2, <3>3, <3>4, <3>5, <3>6, ApproveFrame, ClockFrame DEF Next
    <2>3. req'[w].taint = taint[TaskOf[req[w].ident]]
      BY <2>1, <2>2 DEF Decide, Request
    <2>4. TaskOf[req[w].ident] \in Task
      BY <2>1, IdentAssumption DEF Request
    <2> QED BY <2>3, <2>4 DEF IInv, TaintCovers
  <1> QED BY <1>1, Invariance, PTL DEF Spec, DecidedWithTaint

\* A call whose result is on record does not run again while the store follows
\* the log.
THEOREM RecordedCallsAreOver == Spec => RecordedResultEndsCall
  <1> DEFINE A == \A d \in Pos : runs'[d] # runs[d] => behind \/ ~Resulted(log, Len(log) + 1, d)
  <1>1. IInv /\ [Next]_vars => [A]_vars
    <2> SUFFICES ASSUME IInv, Next, NEW d \in Pos, runs'[d] # runs[d], ~behind
                 PROVE  ~Resulted(log, Len(log) + 1, d)
      OBVIOUS
    <2>1. PICK w \in Worker : Invoke(w)
      <3>1. ~(UNCHANGED runs)
        OBVIOUS
      <3>2. \A w, i, t, m : ~CallBegin(w, i, t, m)
        BY <3>1 DEF CallBegin
      <3>3. \A w, i, e : ~ResumeBegin(w, i, e)
        BY <3>1 DEF ResumeBegin
      <3>4. ~Restart /\ (\A st : ~Approve(st)) /\ (\A n : ~SetClock(n))
        BY <3>1, ApproveFrame, ClockFrame DEF Restart
      <3> QED BY <3>1, <3>2, <3>3, <3>4, OnlyInvokeRuns DEF Next
    <2>2. req[w].dec = d /\ req[w].pc = "invoke"
      BY <2>1 DEF Invoke, IInv, TypeOK
    <2>3. ~HasResult(d)
      BY <2>2 DEF IInv, WorkersOK, WorkerOK, ResultOK
    <2>4. Len(log) \in Nat
      BY LogPositions DEF IInv
    <2> QED BY <2>3, <2>4 DEF HasResult, Resulted
  <1> QED BY <1>1, Invariance, PTL DEF Spec, RecordedResultEndsCall

-----------------------------------------------------------------------------
(* The gateway implements CallLifecycle.  The stage of a call is read off  *)
(* the log, so it moves only when the log grows.  A step that adds no      *)
(* receipt and runs no tool is a stutter, a restart is Recover, and Invoke *)
(* is Run.  The others add one receipt: the inductive invariant of the     *)
(* gateway tells the stage its decision is in when they do.                *)

Granted(d) == \E j \in 1..Len(log) :
                 log[j].type = "approval" /\ log[j].dec = d /\ log[j].verdict = "approved"

-----------------------------------------------------------------------------
(* What the stage of a call says. *)

\* What the verifier remembers at the end of the log is what the log holds.
LEMMA AtTheEnd ==
    TypeOK => \A d : /\ Resulted(log, Len(log) + 1, d) <=> HasResult(d)
                     /\ (\E j \in 1..Len(log) : ApprovalBefore(log, Len(log) + 1, d, j))
                          <=> Approved(d)
                     /\ (\E j \in 1..Len(log) : /\ ApprovalBefore(log, Len(log) + 1, d, j)
                                                /\ log[j].verdict = "approved")
                          <=> Granted(d)
  <1> SUFFICES ASSUME TypeOK, NEW d
               PROVE  /\ Resulted(log, Len(log) + 1, d) <=> HasResult(d)
                      /\ (\E j \in 1..Len(log) : ApprovalBefore(log, Len(log) + 1, d, j))
                           <=> Approved(d)
                      /\ (\E j \in 1..Len(log) : /\ ApprovalBefore(log, Len(log) + 1, d, j)
                                                 /\ log[j].verdict = "approved")
                           <=> Granted(d)
    OBVIOUS
  <1>1. Len(log) \in Nat
    BY LenNat DEF TypeOK
  <1>2. 1..(Len(log) + 1 - 1) = 1..Len(log)
    BY <1>1
  <1> QED BY <1>2 DEF Resulted, HasResult, ApprovalBefore, Approved, Granted

\* The stage of a call, by what the log holds of it.
StagesRead ==
    \A d : StageOf(d) =
        IF d \notin 1..Len(log) \/ log[d].type # "decision" THEN "free"
        ELSE IF HasResult(d) THEN "done"
        ELSE IF log[d].verdict = "deny" THEN "denied"
        ELSE IF log[d].verdict = "allow" THEN "cleared"
        ELSE IF Granted(d) THEN "cleared"
        ELSE IF Approved(d) THEN "rejected"
        ELSE "waiting"

\* That is what StageOf says of a log of receipts.
LEMMA StageIs == TypeOK => StagesRead
  BY AtTheEnd DEF StageOf, StagesRead

\* The same in the next state.
LEMMA StageIsNext == TypeOK' => StagesRead'
  BY StageIs, PTL

\* One more receipt: what it adds to the results and answers of a call.
LEMMA GrowMarks ==
    ASSUME TypeOK, NEW r, Grow(r), NEW d
    PROVE  /\ HasResult(d)' <=> HasResult(d) \/ (r.type = "result" /\ r.dec = d)
           /\ Approved(d)' <=> Approved(d) \/ (r.type = "approval" /\ r.dec = d)
           /\ Granted(d)' <=> \/ Granted(d)
                              \/ r.type = "approval" /\ r.dec = d /\ r.verdict = "approved"
  <1>1. /\ Len(log) \in Nat /\ Len(log) + 1 \in 1..Len(log')
        /\ \A i \in 1..Len(log) : log'[i] = log[i]
        /\ log'[Len(log) + 1] = r
        /\ 1..Len(log') = 1..Len(log) \cup {Len(log) + 1}
    BY GrowFacts
  <1>2. HasResult(d)' <=> HasResult(d) \/ (r.type = "result" /\ r.dec = d)
    BY <1>1 DEF HasResult
  <1>3. Approved(d)' <=> Approved(d) \/ (r.type = "approval" /\ r.dec = d)
    BY <1>1 DEF Approved
  <1>4. Granted(d)' <=> \/ Granted(d)
                        \/ r.type = "approval" /\ r.dec = d /\ r.verdict = "approved"
    BY <1>1 DEF Granted
  <1> QED BY <1>2, <1>3, <1>4

\* A receipt of one call leaves the stages of the others as they are.
LEMMA StageSame ==
    ASSUME TypeOK, TypeOK', NEW r, Grow(r), NEW d,
           r.type = "decision" => d # Len(log) + 1,
           r.type \in {"approval", "result"} => r.dec # d
    PROVE  StageOf(d)' = StageOf(d)
  <1>1. /\ (HasResult(d)' <=> HasResult(d)) /\ (Approved(d)' <=> Approved(d))
        /\ (Granted(d)' <=> Granted(d))
    BY GrowMarks
  <1>2. /\ Len(log) \in Nat
        /\ \A i \in 1..Len(log) : log'[i] = log[i]
        /\ log'[Len(log) + 1] = r
        /\ 1..Len(log') = 1..Len(log) \cup {Len(log) + 1}
    BY GrowFacts
  <1>3. CASE d \in 1..Len(log)
    BY <1>1, <1>2, <1>3, StageIs, StageIsNext DEF StagesRead
  <1>4. CASE d \notin 1..Len(log)
    <2>1. StageOf(d) = "free"
      BY <1>4, StageIs DEF StagesRead
    <2>2. d \notin 1..Len(log') \/ log'[d].type # "decision"
      BY <1>2, <1>4
    <2> QED BY <2>1, <2>2, StageIsNext DEF StagesRead
  <1> QED BY <1>3, <1>4

-----------------------------------------------------------------------------
(* The steps. *)

\* The log unchanged, the stages are.
LEMMA StageFrame == ASSUME UNCHANGED log, NEW d PROVE StageOf(d)' = StageOf(d)
  BY DEF StageOf, Resulted, ApprovalBefore

\* A step that neither writes nor runs anything is a stutter.
LEMMA Stutter ==
    ASSUME UNCHANGED <<log, behind, runs>>
    PROVE  UNCHANGED <<[d \in Pos |-> StageOf(d)], {d \in Pos : runs[d] > 0}, behind>>
  BY StageFrame

\* One more receipt that moves one call moves that call only.
LEMMA Moves ==
    ASSUME TypeOK, TypeOK', NEW r, Grow(r), ~behind, behind' \in BOOLEAN, UNCHANGED runs,
           NEW d \in Pos,
           r.type = "decision" => d = Len(log) + 1,
           r.type \in {"approval", "result"} => r.dec = d
    PROVE  Life!MoveTo(d, StageOf(d)')
  <1>1. r.type \in {"decision", "approval", "result"}
    BY DEF Grow, Receipt
  <1>2. \A e \in Pos \ {d} : StageOf(e)' = StageOf(e)
    BY <1>1, StageSame
  <1>3. [e \in Pos |-> StageOf(e)'] = [[e \in Pos |-> StageOf(e)] EXCEPT ![d] = StageOf(d)']
    BY <1>2
  <1> QED BY <1>3 DEF Life!MoveTo

LifeVars == <<[d \in Pos |-> StageOf(d)], {d \in Pos : runs[d] > 0}, behind>>

\* The append of a receipt is seen in the log or not at all.
LEMMA Written ==
    ASSUME IInv, NEW r \in Receipt, AppendOK(r) \/ AppendError(r)
    PROVE  \/ UNCHANGED <<log, behind>>
           \/ Grow(r) /\ ~behind /\ behind' \in BOOLEAN
  BY AppendOutcomes DEF CanAppend

\* The decision receipt begins the life of a call.
LEMMA RecordDecisionLife ==
    ASSUME IInv, TypeOK', NEW w \in Worker, RecordDecision(w)
    PROVE  Life!LNext \/ UNCHANGED LifeVars
  <1> DEFINE q == req[w]
             rr == Decision(now, q.ident, q.call, q.verdict, q.taint)
  <1> PICK r : r = rr
    OBVIOUS
  <1> PICK d : d = Len(log) + 1
    OBVIOUS
  <1>1. /\ q \in Request /\ now \in Nat /\ TypeOK
        /\ q.verdict \in {"allow", "deny", "require_approval"}
        /\ UNCHANGED runs
    BY DEF IInv, TypeOK, RecordDecision, Request, PolicyVerdict
  <1>2. r \in Receipt /\ r.type = "decision" /\ r.verdict = q.verdict
    <2>1. q.ident \in Ident /\ q.call \in Call /\ q.taint \in SUBSET Label
      BY <1>1 DEF Request
    <2>2. rr \in Receipt
      BY <1>1, <2>1, ConstructorTypes DEF PolicyVerdict
    <2> QED BY <2>2 DEF Decision
  <1>3. AppendOK(r) \/ AppendError(r)
    BY DEF RecordDecision
  <1>4. CASE UNCHANGED <<log, behind>>
    BY <1>1, <1>4, Stutter DEF LifeVars
  <1>5. CASE Grow(r) /\ ~behind /\ behind' \in BOOLEAN
    <2>1. Len(log) \in Nat /\ d \in 1..Len(log') /\ d \notin 1..Len(log) /\ log'[d] = r
      BY <1>1, <1>5, GrowFacts
    <2>2. d \in Pos
      <3>1. Len(log') <= MaxLog /\ Len(log') \in Nat
        BY LenNat DEF TypeOK
      <3> QED BY <2>1, <3>1, GatewayAssumption DEF Pos
    <2>3. StageOf(d) = "free"
      BY <1>1, <2>1, StageIs DEF StagesRead
    <2>4. ~HasResult(d)' /\ ~Approved(d)' /\ ~Granted(d)'
      <3>1. ~HasResult(d) /\ ~Approved(d)
        BY NothingAhead DEF IInv
      <3>2. ~Granted(d)
        BY <3>1 DEF Granted, Approved
      <3> QED BY <1>1, <1>2, <1>5, <3>1, <3>2, GrowMarks
    <2>5. StageOf(d)' \in {"denied", "waiting", "cleared"}
      BY <1>1, <1>2, <2>1, <2>4, StageIsNext DEF StagesRead
    <2>6. Life!MoveTo(d, StageOf(d)')
      BY <1>1, <1>2, <1>5, <2>2, Moves
    <2>7. [e \in Pos |-> StageOf(e)][d] = "free"
      BY <2>2, <2>3
    <2>8. Life!Propose(d)
      BY <2>5, <2>6, <2>7 DEF Life!Propose
    <2> QED BY <2>2, <2>8 DEF Life!LNext
  <1> QED BY <1>2, <1>3, <1>4, <1>5, Written

\* The approval receipt answers a call that waits.
LEMMA ApproveLife ==
    ASSUME IInv, TypeOK', NEW st \in SignedStatement, st.dec \in 1..Len(log), Approve(st)
    PROVE  Life!LNext \/ UNCHANGED LifeVars
  <1> PICK d : d = st.dec
    OBVIOUS
  <1> PICK r : r = Approval(now, d, log[d].ident, log[d].call,
                            st.outcome, st.approver, st.expires)
    OBVIOUS
  <1>1. /\ d \in 1..Len(log) /\ d \in Pos /\ d \in Nat /\ log[d] \in Receipt
        /\ TypeOK /\ Len(log) \in Nat
    BY LogPositions, LogElement DEF IInv
  <1>2. /\ pending[d].held /\ pending[d].answer.outcome = "none"
        /\ UNCHANGED runs
    BY DEF Approve, Answerable
  <1>3. /\ r.type = "approval" /\ r.dec = d /\ r.verdict = st.outcome
        /\ st.outcome \in {"approved", "rejected"}
    BY DEF Approval, SignedStatement
  <1>4. r \in Receipt
    <2>1. log[d].ident \in Ident /\ log[d].call \in Call /\ now \in Nat
      BY <1>1 DEF Receipt, TypeOK
    <2>2. st.approver \in Person /\ st.expires \in Nat
      BY DEF SignedStatement
    <2> QED BY <1>1, <1>3, <2>1, <2>2, ConstructorTypes
  <1>5. AppendOK(r) \/ AppendError(r)
    BY DEF Approve
  <1>6. Decided(d, "require_approval")
    BY <1>1, <1>2 DEF IInv, HeldOK
  <1>7. CASE UNCHANGED <<log, behind>>
    BY <1>2, <1>7, Stutter DEF LifeVars
  <1>8. CASE Grow(r) /\ ~behind /\ behind' \in BOOLEAN
    <2>1. ~Approved(d)
      BY <1>1, <1>2, <1>8 DEF IInv, HeldKnown
    <2>2. ~HasResult(d) /\ ~Granted(d)
      BY <1>6, <2>1, NoApprovalNoResult DEF IInv, Granted, Approved
    <2>3. StageOf(d) = "waiting"
      BY <1>1, <1>6, <2>1, <2>2, StageIs DEF StagesRead, Decided
    <2>4. log'[d] = log[d] /\ d \in 1..Len(log')
      BY <1>1, <1>8, GrowFacts
    <2>5. ~HasResult(d)' /\ Approved(d)' /\ (Granted(d)' <=> st.outcome = "approved")
      BY <1>1, <1>3, <1>8, <2>2, GrowMarks
    <2>6. StageOf(d)' \in {"rejected", "cleared"}
      BY <1>6, <2>4, <2>5, StageIsNext DEF StagesRead, Decided
    <2>7. Life!MoveTo(d, StageOf(d)')
      BY <1>1, <1>2, <1>3, <1>8, Moves
    <2>8. [e \in Pos |-> StageOf(e)][d] = "waiting"
      BY <1>1, <2>3
    <2>9. Life!Answer(d)
      BY <2>6, <2>7, <2>8 DEF Life!Answer
    <2> QED BY <1>1, <2>9 DEF Life!LNext
  <1> QED BY <1>4, <1>5, <1>7, <1>8, Written

\* An authorized call is cleared, unless its result is on record already.
LEMMA AuthorizedStage ==
    ASSUME TypeOK, NEW d, Authorized(d)
    PROVE  StageOf(d) = IF HasResult(d) THEN "done" ELSE "cleared"
  <1>1. /\ d \in 1..Len(log) /\ log[d].type = "decision"
        /\ \/ log[d].verdict = "allow"
           \/ log[d].verdict = "require_approval" /\ Granted(d)
    BY DEF Authorized, Granted
  <1> QED BY <1>1, StageIs DEF StagesRead

\* The result receipt ends a call that was cleared.
LEMMA RecordResultLife ==
    ASSUME IInv, TypeOK', NEW w \in Worker, RecordResult(w)
    PROVE  Life!LNext \/ UNCHANGED LifeVars
  <1> PICK d : d = req[w].dec
    OBVIOUS
  <1> PICK r : r = Result(now, d, log[d].ident, log[d].call, req[w].status, req[w].labels)
    OBVIOUS
  <1>1. /\ req[w] \in Request /\ req[w].pc = "result" /\ Executing(w) /\ WorkerOK(w)
        /\ TypeOK /\ UNCHANGED runs
    BY DEF IInv, TypeOK, WorkersOK, RecordResult, Executing
  <1>2. /\ d \in 1..Len(log) /\ d \in Pos /\ d \in Nat /\ log[d] \in Receipt
    BY <1>1, BusyOnRecord, LogPositions, LogElement DEF IInv
  <1>3. req[w].status \in {"ok", "error"} /\ req[w].labels \in SUBSET Label
    BY <1>1 DEF WorkerOK, ResultOK, Request
  <1>4. r \in Receipt
    <2>1. log[d].ident \in Ident /\ log[d].call \in Call /\ now \in Nat
      BY <1>1, <1>2 DEF Receipt, TypeOK
    <2> QED BY <1>2, <1>3, <2>1, ConstructorTypes
  <1>5. r.type = "result" /\ r.dec = d
    BY DEF Result
  <1>6. AppendOK(r) \/ AppendError(r)
    BY DEF RecordResult
  <1>7. Authorized(d) /\ (~behind => ~HasResult(d))
    BY <1>1 DEF WorkerOK, ExecutorOK, ResultOK
  <1>8. CASE UNCHANGED <<log, behind>>
    BY <1>1, <1>8, Stutter DEF LifeVars
  <1>9. CASE Grow(r) /\ ~behind /\ behind' \in BOOLEAN
    <2>1. StageOf(d) = "cleared"
      BY <1>1, <1>7, <1>9, AuthorizedStage
    <2>2. Authorized(d)' /\ HasResult(d)'
      BY <1>1, <1>5, <1>7, <1>9, GrowAuthorized, GrowMarks
    <2>3. StageOf(d)' = "done"
      BY <2>2, StageIsNext DEF StagesRead, Authorized
    <2>4. Life!MoveTo(d, StageOf(d)')
      BY <1>1, <1>2, <1>5, <1>9, Moves
    <2>5. [e \in Pos |-> StageOf(e)][d] = "cleared"
      BY <1>2, <2>1
    <2>6. Life!Finish(d)
      BY <2>3, <2>4, <2>5 DEF Life!Finish
    <2> QED BY <1>2, <2>6 DEF Life!LNext
  <1> QED BY <1>4, <1>6, <1>8, <1>9, Written

\* A tool is invoked for a call that is cleared, or that is done without the
\* process knowing.
LEMMA InvokeLife ==
    ASSUME IInv, NEW w \in Worker, Invoke(w)
    PROVE  Life!LNext
  <1> PICK d : d = req[w].dec
    OBVIOUS
  <1>1. /\ req[w].pc = "invoke" /\ Executing(w) /\ WorkerOK(w) /\ TypeOK
        /\ UNCHANGED <<log, behind>>
    BY DEF IInv, WorkersOK, Invoke, Executing
  <1>2. d \in Pos /\ Authorized(d) /\ (~behind => ~HasResult(d))
    BY <1>1, BusyOnRecord DEF WorkerOK, ExecutorOK, ResultOK
  <1>3. /\ runs \in [Pos -> 0..2] /\ runs' = [runs EXCEPT ![d] = Saturate(runs[d] + 1)]
        /\ runs[d] \in 0..2
    BY <1>2 DEF IInv, TypeOK, Invoke
  <1>4. Saturate(runs[d] + 1) > 0
    BY <1>3 DEF Saturate
  <1>5. {e \in Pos : runs'[e] > 0} = {e \in Pos : runs[e] > 0} \cup {d}
    BY <1>2, <1>3, <1>4
  <1>6. StageOf(d) = "cleared" \/ (behind /\ StageOf(d) = "done")
    BY <1>1, <1>2, AuthorizedStage DEF IInv, TypeOK
  <1>7. [e \in Pos |-> StageOf(e)][d] = StageOf(d)
    BY <1>2
  <1>8. [e \in Pos |-> StageOf(e)'] = [e \in Pos |-> StageOf(e)]
    BY <1>1, StageFrame
  <1>9. Life!Run(d)
    BY <1>1, <1>5, <1>6, <1>7, <1>8 DEF Life!Run
  <1> QED BY <1>2, <1>9 DEF Life!LNext

\* A new process follows its log again.
LEMMA RestartLife == ASSUME Restart PROVE Life!LNext
  <1>1. behind' = FALSE /\ UNCHANGED <<log, runs>>
    BY DEF Restart
  <1>2. [e \in Pos |-> StageOf(e)'] = [e \in Pos |-> StageOf(e)]
    BY <1>1, StageFrame
  <1>3. Life!Recover
    BY <1>1, <1>2 DEF Life!Recover
  <1> QED BY <1>3 DEF Life!LNext

\* The steps that are local to a request are stutters.
LEMMA LocalLife ==
    ASSUME NEW w,
           \/ Decide(w) \/ Hold(w) \/ ResumeAdmit(w) \/ AddTaint(w) \/ Return(w)
           \/ \E hasCred, m : Prepare(w, hasCred, m)
           \/ \E i, t, m : CallBegin(w, i, t, m)
           \/ \E i, d : ResumeBegin(w, i, d)
    PROVE  UNCHANGED LifeVars
  <1>1. UNCHANGED <<log, behind, runs>>
    BY DEF Decide, Hold, ResumeAdmit, AddTaint, Return, Prepare, CallBegin, ResumeBegin
  <1> QED BY <1>1, Stutter DEF LifeVars

\* Every step of the gateway is a step of the life of a call, or none.
LEMMA LifeStep == IInv /\ [Next]_vars /\ IInv' => [Life!LNext]_LifeVars
  <1> SUFFICES ASSUME IInv, [Next]_vars, IInv' PROVE Life!LNext \/ UNCHANGED LifeVars
    OBVIOUS
  <1>1. TypeOK'
    BY DEF IInv
  <1>2. ASSUME NEW w \in Worker, Work(w) PROVE Life!LNext \/ UNCHANGED LifeVars
    BY <1>1, <1>2, RecordDecisionLife, RecordResultLife, InvokeLife, LocalLife DEF Work
  <1>3. ASSUME NEW w \in Worker, NEW x, NEW m, CallBegin(w, x[1], x[2], m)
        PROVE  UNCHANGED LifeVars
    BY <1>3, LocalLife
  <1>4. ASSUME NEW w \in Worker, NEW i, NEW d, ResumeBegin(w, i, d) PROVE UNCHANGED LifeVars
    BY <1>4, LocalLife
  <1>5. ASSUME NEW d \in 1..Len(log), NEW shown \in 1..Len(log),
               NEW outcome \in {"approved", "rejected"},
               NEW a \in Person, NEW expires \in 1..(MaxTime + 1),
               Approve(Statement(d, shown, outcome, a, expires))
        PROVE  Life!LNext \/ UNCHANGED LifeVars
    <2> PICK st : st = Statement(d, shown, outcome, a, expires)
      OBVIOUS
    <2>1. d \in Nat /\ log[shown] \in Receipt /\ expires \in Nat
      BY LogPositions, LogElement, GatewayAssumption DEF IInv
    <2>2. st \in SignedStatement /\ st.dec = d
      BY <2>1 DEF Statement, SignedStatement, Receipt
    <2> QED BY <1>1, <1>5, <2>2, ApproveLife
  <1>6. ASSUME NEW n, SetClock(n) PROVE UNCHANGED LifeVars
    <2>1. UNCHANGED <<log, behind, runs>>
      BY <1>6 DEF SetClock
    <2> QED BY <2>1, Stutter DEF LifeVars
  <1>7. CASE UNCHANGED vars
    <2>1. UNCHANGED <<log, behind, runs>>
      BY <1>7 DEF vars
    <2> QED BY <2>1, Stutter DEF LifeVars
  <1> QED BY <1>2, <1>3, <1>4, <1>5, <1>6, <1>7, RestartLife DEF Next

\* At first every call is free.
LEMMA LifeInit == Init => Life!LInit
  <1> SUFFICES ASSUME Init PROVE Life!LInit
    OBVIOUS
  <1>1. log = <<>> /\ runs = [d \in Pos |-> 0] /\ behind = FALSE
    BY DEF Init
  <1>2. \A d \in Pos : StageOf(d) = "free" /\ ~(runs[d] > 0)
    BY <1>1 DEF StageOf
  <1> QED BY <1>1, <1>2 DEF Life!LInit

\* The gateway implements CallLifecycle, whatever the numbers of requests,
\* receipts, people and tools: a call is denied, waits, is answered once, is
\* cleared and done in that order only, and a tool runs only for a call that is
\* cleared - or done, in a process that has lost track of its log.
THEOREM GatewayLifeOfCalls == Spec => LifeOfCalls
  <1>1. Spec => []IInv
    BY Invariance
  <1>2. IInv /\ [Next]_vars /\ IInv' => [Life!LNext]_LifeVars
    BY LifeStep
  <1> QED BY <1>1, <1>2, LifeInit, PTL DEF Spec, LifeOfCalls, Life!LSpec, LifeVars
=============================================================================
