---- MODULE MCApprovers ----
\* One approver; one call whose arguments have two values; two list requests,
\* enough for a console approval or for two sessions of the command.  Handlers
\* are interchangeable, and so are the argument values.
EXTENDS Approvers, TLC
MCDrift == {-1, 1}
MCSymmetry == Permutations(Handler) \cup Permutations(Args)
====
