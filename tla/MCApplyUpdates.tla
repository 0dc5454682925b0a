--------------------------- MODULE MCApplyUpdates ---------------------------
(***************************************************************************)
(* Small instances of ApplyUpdates.  Run 1 is a scheduled execution.  Run 2 *)
(* is a plan which the safety check refused and a user applies from the    *)
(* command line.  Listing 2 is sold out, and in both plans at one price;   *)
(* listing 4 is fresh for run 1 only once run 2 has moved it back.         *)
(***************************************************************************)
EXTENDS ApplyUpdates

Row(id, prev, new, qty) == [id |-> id, prev |-> prev, new |-> new, qty |-> qty]
Item(price, qty) == [price |-> price, qty |-> qty]

\* Batches of two: three fresh rows make a full and a short one.
MCPlan == <<<<Row(1, 10, 12, 1), Row(2, 10, 9, 0), Row(3, 10, 12, 1), Row(4, 10, 12, 1)>>,
            <<Row(2, 10, 12, 0), Row(4, 12, 10, 1)>>>>
MCStock == <<Item(10, 1), Item(10, 0), Item(10, 1), Item(12, 1)>>
MCHow == <<"lambda", "cli">>
MCSafetyOk == <<"true", "false">>
=============================================================================
