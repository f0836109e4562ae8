--------------------------- MODULE MCDagTemplate ---------------------------
(***************************************************************************)
(* Instances of DagTemplate for TLC.                                       *)
(***************************************************************************)
EXTENDS DagTemplate, TLC

CONSTANTS t1, t2, t3  \* task objects; t1 and t2 have one name

MCWord == {"a", "b", "x", "y"}
MCName == {""} \union MCWord
MCNameOf == (t1 :> "a") @@ (t2 :> "a") @@ (t3 :> "b")

x == Outcome("x", "Failed")
y == Done("y")

(* With or at the top, inside parentheses, behind them and between them.   *)
MCWritten ==
  {<<x, OrOp, y>>,
   <<Open, x, OrOp, y, Close, OrOp, NotOp, x>>,
   <<y, AndOp, Open, x, OrOp, y, Close>>,
   <<Open, x, Close, OrOp, Open, y, Close>>,
   <<NotOp, Open, Open, x, OrOp, y, Close, AndOp, x, Close>>}
============================================================================
