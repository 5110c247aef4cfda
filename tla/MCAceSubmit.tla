---------------------------- MODULE MCAceSubmit -----------------------------
(* AceSubmit on small instances: two messages about one deal, or about two  *)
(* deals that carry the same GovWin id.                                     *)
EXTENDS AceSubmit, TLC

CONSTANTS d1, d2, g1, m1, m2, p1, solution

MCOneDeal == [m \in Msgs |-> d1]
MCTwoDeals == (m1 :> d1) @@ (m2 :> d2)

MCSameId == [d \in Deals |-> g1]
=============================================================================
