----------------------------- MODULE MCIssues -----------------------------
(* Issues with interchangeable issues and requests. *)
EXTENDS Issues, TLC

CONSTANTS i1, i2, i3, p1, p2

IssueSymmetry == Permutations({i1, i2, i3}) \cup Permutations({p1, p2})
=============================================================================
