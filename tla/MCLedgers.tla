------------------------------ MODULE MCLedgers ------------------------------
(* A scan keeps two books, a tracker and a budget.  They share nothing, so a *)
(* behaviour moves one of them: what it does it does whatever the other did. *)
(* Two items and three dispositions are enough for a dropped item followed   *)
(* by a doubled one, the pair of errors that must not cancel; every limit is *)
(* reachable, and two in the same run, so that their order matters.          *)
EXTENDS CoverageLedger, BudgetLedger

MCLimits == [attempts |-> 2, bytes |-> 3, retained |-> 3, hits |-> 2, deadline |-> 2]

LedgersInit == Init /\ BudgetInit

TrackerCall == BudgetInit /\ Next /\ UNCHANGED budgetVars
BudgetCall  == Init /\ BudgetNext /\ UNCHANGED vars

LedgersSpec == LedgersInit /\ [][TrackerCall \/ BudgetCall]_<<vars, budgetVars>>
==============================================================================
