---- MODULE MCToolAccess ----
\* An HTTP server with two tools and a stdio server with one; bindings that
\* overlap, that differ only in the case of a header, and that no transport of
\* their server can deliver; a secret too short to scrub.  A name is a pair of
\* its lower-case form and its spelling.  Manifests are interchangeable.
EXTENDS ToolAccess, TLC
T(s, n) == [server |-> s, name |-> n]
MCTool == {T("web", "t"), T("web", "u"), T("proc", "t")}
MCVolatile == {T("web", "t")}
B(s, t, inject, name, ref) ==
    [server |-> s, tool |-> t, inject |-> inject, name |-> name, secret |-> ref]
MCBindings ==
    { B("web", "*", "header", <<"a", "A">>, "key"),
      B("web", "t", "header", <<"a", "a">>, "pin"),
      B("web", "u", "header", <<"b", "b">>, "pin"),
      B("web", "*", "env",    <<"a", "A">>, "key"),
      B("proc", "*", "env",    <<"a", "A">>, "key"),
      B("proc", "t", "env",    <<"b", "B">>, "pin"),
      B("proc", "*", "header", <<"a", "A">>, "pin") }
MCSymmetry == Permutations(Manifest)

\* A bound: one secret at a time is another than at first, or missing.
OneSecretChanged == \A r, q \in Refs : secret[r] # 0 /\ secret[q] # 0 => r = q
MCNext == Next /\ OneSecretChanged'
MCSpec == Init /\ [][MCNext]_vars
====
