---------------------------- MODULE ReceiptRules ----------------------------
(***************************************************************************)
(* The receipts of one chain and the rules warden-verify checks on them    *)
(* (internal/receipt, internal/chain/verify.go), for the three receipt     *)
(* types the gateway writes: decision, approval and result.                *)
(*                                                                         *)
(* A log is the sequence of verified receipts.  Position p holds the       *)
(* receipt with seq p - 1, so seq, prev and the signature are not fields   *)
(* here: a line out of place cannot be a member of the sequence.  Those    *)
(* checks, key rotation and the checkpoints are the business of the        *)
(* receipt store.                                                          *)
(*                                                                         *)
(* Every receipt has the same fields.  A field that a type does not use    *)
(* holds a fixed filler: dec is 0 in a decision, approver is Nobody and    *)
(* expires is 0 outside approvals, taint is {} in an approval.  A Tool is  *)
(* a tool together with one argument value, so that a call is a tool and   *)
(* the manifest digest it was decided under.                               *)
(***************************************************************************)
EXTENDS Naturals, Sequences

CONSTANTS
    Ident,          \* verified task credentials: a task, its agent, its principal
    Task,           \* task ids
    Person,         \* principals and approvers
    Nobody,         \* filler for "no approver"
    Tool,           \* a tool with one argument value
    Label,          \* taint labels
    TaskOf,         \* [Ident -> Task]
    PrincipalOf     \* [Ident -> Person]

ASSUME IdentAssumption ==
    /\ TaskOf \in [Ident -> Task]
    /\ PrincipalOf \in [Ident -> Person]

ASSUME NobodyAssumption == Nobody \notin Person

\* A manifest digest as the registry sees it: the reviewed one, or another.
Manifest == {"pinned", "changed"}

Call == [tool : Tool, man : Manifest]

Receipt ==
    [ type     : {"decision", "approval", "result"},
      ts       : Nat,
      dec      : Nat,
      ident    : Ident,
      call     : Call,
      verdict  : {"allow", "deny", "require_approval",
                  "approved", "rejected", "ok", "error"},
      taint    : SUBSET Label,
      approver : Person \cup {Nobody},
      expires  : Nat ]

Decision(ts, ident, call, verdict, taint) ==
    [ type |-> "decision", ts |-> ts, dec |-> 0, ident |-> ident, call |-> call,
      verdict |-> verdict, taint |-> taint, approver |-> Nobody, expires |-> 0 ]

Approval(ts, dec, ident, call, outcome, approver, expires) ==
    [ type |-> "approval", ts |-> ts, dec |-> dec, ident |-> ident, call |-> call,
      verdict |-> outcome, taint |-> {}, approver |-> approver, expires |-> expires ]

Result(ts, dec, ident, call, status, taint) ==
    [ type |-> "result", ts |-> ts, dec |-> dec, ident |-> ident, call |-> call,
      verdict |-> status, taint |-> taint, approver |-> Nobody, expires |-> 0 ]

-----------------------------------------------------------------------------
(* What the verifier remembers of the lines before position i. *)

DecisionBefore(log, i, d) == d \in 1..(i - 1) /\ log[d].type = "decision"

ApprovalBefore(log, i, d, j) ==
    j \in 1..(i - 1) /\ log[j].type = "approval" /\ log[j].dec = d

Resulted(log, i, d) ==
    \E j \in 1..(i - 1) : log[j].type = "result" /\ log[j].dec = d

SameCall(r, s) == r.ident = s.ident /\ r.call = s.call

(* The rules, one per receipt type. *)

\* Receipts are in time order.
TimeRule(log, i) == i > 1 => log[i - 1].ts <= log[i].ts

\* An approval answers one earlier require_approval decision, which has no
\* approval and no result yet, and comes from someone else than the principal.
ApprovalRule(log, i) ==
    LET r == log[i] IN
    r.type = "approval" =>
        /\ DecisionBefore(log, i, r.dec)
        /\ log[r.dec].verdict = "require_approval"
        /\ SameCall(log[r.dec], r)
        /\ \A j \in 1..(i - 1) : ~ApprovalBefore(log, i, r.dec, j)
        /\ ~Resulted(log, i, r.dec)
        /\ r.approver # PrincipalOf[log[r.dec].ident]

\* A result answers one earlier decision that allowed the call, or that
\* required an approval and got it, and that has no result yet.
ResultRule(log, i) ==
    LET r == log[i] IN
    r.type = "result" =>
        /\ DecisionBefore(log, i, r.dec)
        /\ SameCall(log[r.dec], r)
        /\ ~Resulted(log, i, r.dec)
        /\ log[r.dec].verdict # "deny"
        /\ log[r.dec].verdict = "require_approval" =>
              \E j \in 1..(i - 1) :
                 ApprovalBefore(log, i, r.dec, j) /\ log[j].verdict = "approved"

\* The result of an approved call is not dated after the approval's expiry.
ExpiryRule(log, i) ==
    LET r == log[i] IN
    r.type = "result" =>
        \A j \in 1..(i - 1) : ApprovalBefore(log, i, r.dec, j) => r.ts <= log[j].expires
=============================================================================
