---------------------------- MODULE MCRepriceRun ----------------------------
(***************************************************************************)
(* Small instances of RepriceRun.  A chunk's plan is reduced to how many   *)
(* updates it proposes; the safety gate caps their total.                  *)
(***************************************************************************)
EXTENDS RepriceRunInv, FiniteSetsExt, TLC

CONSTANT SafetyCap   \* max_proposed_absolute, for the merged plan

ProposedBy(c) == IF c = None THEN 0 ELSE c.rows
MCSafePlan(p) == MapThenSumSet(LAMBDA i : ProposedBy(p[i]), Chunks) <= SafetyCap

\* Sound for the safety runs only: slots are interchangeable.
AnySlot == Permutations(Slots)
=============================================================================
