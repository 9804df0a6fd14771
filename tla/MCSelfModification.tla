-------------------------- MODULE MCSelfModification --------------------------
(* Instance of SelfModification for TLC. *)
EXTENDS SelfModification, TLC

CONSTANTS skill, risk, dot, auto, p1, p2, selfA, selfB

MCFiles == {skill, risk}
MCProtected == {risk}
MCPathspecs == {skill, risk, dot, auto}
MCMatches == skill :> {skill} @@ risk :> {risk} @@ dot :> {skill, risk} @@ auto :> {}
MCFlagLike == {auto}
MCBranches == {selfA, selfB}
Symmetry == Permutations(MCBranches)
MCRows == {p1, p2}
MCFiled == {p1}
==============================================================================
