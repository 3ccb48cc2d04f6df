------------------------------ MODULE LogRules -------------------------------
(***************************************************************************)
(* What the functions of the verifier compute, compared with definitions   *)
(* that say it in another way.  The state is an input.  A log grows by any *)
(* receipt while it verifies, so that every log with one fault at its end  *)
(* is looked at; a list of leaves grows by any leaf.                       *)
(***************************************************************************)
EXTENDS Verifier, Merkle

CONSTANTS
    MaxLog,     \* bound on the length of a log
    Times,      \* the times of receipts
    Expiries,   \* the times at which approvals expire
    MaxLeaves   \* bound on the number of leaves

ASSUME LogRulesAssumption == MaxLog \in Nat /\ Times \subseteq Nat /\ Expiries \subseteq Nat

VARIABLES log, leaves

vars == <<log, leaves>>

Calls == [tool : Tool, man : {"pinned"}]

\* Every decision is about one call; approvals and results may be about another.
Decisions ==
    LET c == CHOOSE x \in Calls : TRUE IN
    { Decision(ts, i, c, v, {}) :
        ts \in Times, i \in Ident, v \in {"allow", "deny", "require_approval"} }

Approvals ==
    { Approval(ts, d, i, c, v, p, e) :
        ts \in Times, d \in 1..MaxLog, i \in Ident, c \in Calls,
        v \in {"approved", "rejected"}, p \in Person, e \in Expiries }

Results ==
    { Result(ts, d, i, c, "ok", {}) : ts \in Times, d \in 1..MaxLog, i \in Ident, c \in Calls }

TheKid == CHOOSE k \in Kid : TRUE

\* The receipts as the lines of a chain that is sound in every other respect.
Chain(receipts) ==
    [ n \in DOMAIN receipts |->
        [ id |-> LeafHash(n), kid |-> TheKid, key |-> TheKid, form |-> "ok", seq |-> n - 1,
          prev |-> IF n = 1 THEN Genesis(TheKid, TheKid) ELSE LeafHash(n - 1),
          r |-> receipts[n] ] ]

Verdict(receipts) == VerifyAll(Chain(receipts), [k \in {TheKid} |-> k], FALSE, {}, {})

Init == log = <<>> /\ leaves = <<>>

AddReceipt ==
    /\ leaves = <<>>
    /\ Len(log) < MaxLog
    /\ log # <<>> => Verdict(log).verified
    /\ \E r \in Decisions \cup Approvals \cup Results : log' = Append(log, r)
    /\ UNCHANGED leaves

AddLeaf ==
    /\ log = <<>>
    /\ Len(leaves) < MaxLeaves
    /\ \E x \in {0, 1} : leaves' = Append(leaves, LeafHash(x))
    /\ UNCHANGED log

Next == AddReceipt \/ AddLeaf

Spec == Init /\ [][Next]_vars

-----------------------------------------------------------------------------
\* Validate, said of the whole log.
ValidRule(i) ==
    LET r == log[i] IN
    /\ r.type # "decision" => r.dec \in 1..(i - 1)
    /\ r.type = "approval" => r.expires > r.ts

\* VerifyAll goes through the lines once and remembers what it needs.  It
\* accepts exactly the logs that keep the rules of ReceiptRules, on which the
\* proofs about the gateway rest.
RulesAgree ==
    log # <<>> =>
        (Verdict(log).verified <=>
            \A i \in DOMAIN log :
                /\ ValidRule(i) /\ TimeRule(log, i) /\ ApprovalRule(log, i)
                /\ ResultRule(log, i) /\ ExpiryRule(log, i))

\* A decision by which its call may run: policy allowed it, or somebody approved it.
Cleared(d) ==
    /\ log[d].type = "decision"
    /\ \/ log[d].verdict = "allow"
       \/ /\ log[d].verdict = "require_approval"
          /\ \E j \in 1..Len(log) :
               ApprovalBefore(log, Len(log) + 1, d, j) /\ log[j].verdict = "approved"

\* The cleared calls without a result: each of them may have run without a record of
\* what it did.
Gaps == { d \in 1..Len(log) : Cleared(d) /\ ~Resulted(log, Len(log) + 1, d) }

\* What the open decisions of a report (VerifyAll, after its last line) say of the calls
\* that may have run without a record: whatever is listed is one of them, and those
\* that are not listed are, without exception, the ones a person approved.
GapsListed ==
    (log # <<>> /\ Verdict(log).verified) =>
        LET listed == Verdict(log).open
            missed == Gaps \ listed
        IN /\ listed \subseteq Gaps
           /\ missed = { d \in Gaps : log[d].verdict = "require_approval" }

Lists == UNION { [1..n -> {LeafHash(0), LeafHash(1)}] : n \in 0..MaxLeaves }

\* Two lists of leaves with the same root are the same list, also when they
\* differ in length.  The checkpoints of Verifier rely on it: there the root
\* is the list itself.
RootBinds == \A other \in Lists : Root(other) = Root(leaves) => other = leaves

\* A path verifies a leaf at an index exactly if that leaf is there and the path
\* is the one from there, in trees of every shape up to the bound.
PathsExact ==
    \A m, index \in 0..(Len(leaves) - 1), x \in {0, 1} :
        VerifyInclusion(LeafHash(x), index, Len(leaves), path(m, leaves), Root(leaves))
            <=> leaves[index + 1] = LeafHash(x) /\ path(index, leaves) = path(m, leaves)
=============================================================================
