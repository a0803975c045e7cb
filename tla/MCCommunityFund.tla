-------------------------- MODULE MCCommunityFund --------------------------
(***************************************************************************)
(* One proposal and its requests, through every way a vote can end.        *)
(***************************************************************************)
EXTENDS FundRefinement, TLC

mc_MinQuorum == [k \in {"proposal", "request"} |-> 5000]
mc_Share == [k \in {"proposal", "request"} |-> 7000]
mc_Bits == {"ABSTAIN_VOTE", "EXCLUDE"}
mc_T(y, n) == [yes |-> y, no |-> n, abs |-> 0]

\* Two votes in favour, two against and one alone: with a cycle of two blocks
\* they pass, fail and miss the quorum (unless a block is excluded).
mc_Tallies == {mc_T(2, 0), mc_T(0, 2), mc_T(1, 0)}

\* One proposal of 3 and two requests of 2: there is money for one of them.
mc1_Amount == (1 :> 3) @@ (11 :> 2) @@ (12 :> 2)
mc1_Parent == (11 :> 1) @@ (12 :> 1)
mc1_Deadline == 1 :> 2
mc1_Version == (1 :> mc_Bits) @@ (11 :> mc_Bits) @@ (12 :> mc_Bits)
=============================================================================
