--------------------------- MODULE MCSourceStage ----------------------------
(* A day of two minutes, again and again. *)
EXTENDS SourceStage, TLC

CONSTANTS p, q

Entry(tier, start, end, page) ==
  [tier |-> tier, days |-> Days, start |-> start, end |-> end, page |-> page]

(* Two windows of one page; a gap, then an entry that a dated one hides. *)
TwoPlans ==
  {1 :> Entry("weekly", 0, 1, p) @@ 2 :> Entry("weekly", 1, 0, p),
   1 :> Entry("weekly", 1, Open, q) @@ 2 :> Entry("annual_date", 1, 0, p)}
=============================================================================
