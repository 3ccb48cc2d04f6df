------------------------------- MODULE Merkle --------------------------------
(***************************************************************************)
(* The Merkle tree over the lines of a log (internal/merkle/merkle.go):    *)
(* its root, inclusion paths, and the check of a path after RFC 9162.      *)
(*                                                                         *)
(* SHA-256 is taken to be free of collisions: a hash is a term that names  *)
(* what was hashed, and the prefix bytes 0x00 and 0x01 are the tags.       *)
(* Sequences count from 1 here and leaf indexes from 0, as in the code.    *)
(* A slice of the leaves is given by its first index and its length, and   *)
(* the recursion is on the length.                                         *)
(***************************************************************************)
EXTENDS Integers, Sequences

LeafHash(data) == <<"leaf", data>>

nodeHash(left, right) == <<"node", left, right>>

EmptyRoot == <<"empty">>

Double(k, n) == IF 2 * k < n THEN 2 * k ELSE k

\* The largest power of two below n, found by doubling.
split(n) ==
    LET k[i \in 0..n] == IF i = 0 THEN 1 ELSE Double(k[i - 1], n) IN k[n]

\* A slice of some leaves: its length and the index of its first leaf.
Slices(leaves) == (1..Len(leaves)) \X Nat

\* Faulty variant: both halves have the same size, and overlap if n is odd.
mth_Overlap(leaves) ==
    LET half(n) == (n + 1) \div 2
        h[s \in Slices(leaves)] ==
          IF s[1] = 1 THEN leaves[s[2] + 1]
          ELSE nodeHash(h[<<half(s[1]), s[2]>>], h[<<half(s[1]), s[2] + s[1] - half(s[1])>>])
    IN h[<<Len(leaves), 0>>]

\* mth: the root over leaves, of which there is at least one.
mth(leaves) ==
    LET h[s \in Slices(leaves)] ==
          LET k == split(s[1]) IN
          IF s[1] = 1 THEN leaves[s[2] + 1]
          ELSE nodeHash(h[<<k, s[2]>>], h[<<s[1] - k, s[2] + k>>])
    IN h[<<Len(leaves), 0>>]

Root(leaves) == IF leaves = <<>> THEN EmptyRoot ELSE mth(leaves)

\* The hashes beside the way from leaf m up to the root; m counts from the first
\* of all leaves, in every slice.
path(m, leaves) ==
    LET part(n, i) == mth(SubSeq(leaves, i + 1, i + n))
        p[s \in Slices(leaves)] ==
          LET n == s[1]  i == s[2]  k == split(n) IN
          IF n = 1 THEN <<>>
          ELSE IF m < i + k THEN Append(p[<<k, i>>], part(n - k, i + k))
          ELSE Append(p[<<n - k, i + k>>], part(k, i))
    IN p[<<Len(leaves), 0>>]

\* Where a node is: fn counts the nodes to its left on its level, sn the last
\* node of the level.  Climb goes up while a node on the right edge has no sibling.
Halve(at) ==
    IF at.fn % 2 = 0 /\ at.fn # 0 THEN [fn |-> at.fn \div 2, sn |-> at.sn \div 2] ELSE at

Climb(fn, sn) ==
    LET at[i \in 0..fn] == IF i = 0 THEN [fn |-> fn, sn |-> sn] ELSE Halve(at[i - 1]) IN at[fn]

\* Faulty variant: every node is taken to have a sibling.
Step_NoClimb(at, p) ==
    [ fn |-> at.fn \div 2, sn |-> at.sn \div 2,
      r  |-> IF at.fn % 2 = 1 \/ at.fn = at.sn THEN nodeHash(p, at.r) ELSE nodeHash(at.r, p) ]

\* One hash of the path.
Step(at, p) ==
    IF at.fn % 2 = 1 \/ at.fn = at.sn
      THEN LET up == Climb(at.fn, at.sn) IN
           [fn |-> up.fn \div 2, sn |-> up.sn \div 2, r |-> nodeHash(p, at.r)]
      ELSE [fn |-> at.fn \div 2, sn |-> at.sn \div 2, r |-> nodeHash(at.r, p)]

\* A path that goes on at the root is refused.
Ascend(at, p) == IF at.sn = 0 THEN [at EXCEPT !.r = <<"overlong">>] ELSE Step(at, p)

\* The path, hash by hash.
VerifyInclusion(leaf, index, size, proof, root) ==
    LET at[i \in 0..Len(proof)] ==
          IF i = 0 THEN [fn |-> index, sn |-> size - 1, r |-> leaf]
          ELSE Ascend(at[i - 1], proof[i])
        Ends(end) == end.sn = 0 /\ end.r = root
    IN index < size /\ Ends(at[Len(proof)])
=============================================================================
