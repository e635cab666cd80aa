--------------------------- MODULE MCHiddenPeScan ----------------------------
(* One or two small regions; each budget is the tightest in one of the      *)
(* limits, and roomy in another.                                            *)
EXTENDS HiddenPeScan

MCHunts == {<<5>>, <<3, 4>>}

Roomy == [total_bytes |-> 40, reads_per_region |-> 9, validations_per_region |-> 9,
          validations_total |-> 9, validated |-> 9, unvalidated |-> 9]

MCLimits == {Roomy, [Roomy EXCEPT !.total_bytes = 4], [Roomy EXCEPT !.reads_per_region = 3],
             [Roomy EXCEPT !.validations_per_region = 1, !.validated = 1],
             [Roomy EXCEPT !.validations_total = 2, !.validated = 0, !.unvalidated = 1]}
==============================================================================
