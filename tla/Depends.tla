------------------------------ MODULE Depends ------------------------------
(***************************************************************************)
(* The depends expression of a task (dag.go), a sequence of tokens: the    *)
(* outcomes of tasks, the operators of Argo's expression language, and     *)
(* parentheses.  What Then and its relatives write, and what Argo reads.   *)
(***************************************************************************)
EXTENDS Integers, Sequences

CONSTANT Word  \* what a task can be called in an expression

Open  == <<"(">>
Close == <<")">>
OrOp  == <<"||">>
AndOp == <<"&&">>
NotOp == <<"!">>
Symbol == {Open, Close, OrOp, AndOp, NotOp}

TaskResult ==
  {"Succeeded", "Failed", "Errored", "Skipped", "Omitted", "Daemoned",
   "AnySucceeded", "AllFailed"}

(* A task that is named alone, and one outcome of it.                      *)
Done(n) == <<n>>
Outcome(n, result) == <<n, result>>

Token == Symbol \union {Done(n) : n \in Word}
                \union {Outcome(n, r) : n \in Word, r \in TaskResult}

ASSUME WordAssumption == \A n \in Word : Done(n) \notin Symbol

(* How deep the parentheses are after a token, and after the i-th of e.    *)
Deeper(token, depth) ==
  CASE token = Open               -> depth + 1
    [] token = Close /\ depth > 0 -> depth - 1
    [] OTHER                      -> depth

Depth(e) ==
  LET d[i \in 0 .. Len(e)] == IF i = 0 THEN 0 ELSE Deeper(e[i], d[i - 1])
  IN  d

(* Every parenthesis has its counterpart.                                  *)
Balanced(e) ==
  /\ \A i \in DOMAIN e : e[i] = Close => Depth(e)[i - 1] > 0
  /\ Depth(e)[Len(e)] = 0

TopLevel(e, operator) == {i \in DOMAIN e : e[i] = operator /\ Depth(e)[i] = 0}

(* Deviation for TasksRunAsWired: a closing parenthesis is not counted.    *)
OrBeforeParentheses(e) ==
  \E i \in DOMAIN e : e[i] = OrOp /\ \A j \in 1 .. i : e[j] # Open

ContainsTopLevelOr(e) == TopLevel(e, OrOp) # {}

(* What Then writes over the expression e of a task that is to follow n.   *)
Anded(e, n) ==
  IF e = << >> THEN <<Done(n)>>
  ELSE (IF ContainsTopLevelOr(e) THEN <<Open>> \o e \o <<Close>> ELSE e)
         \o <<AndOp, Done(n)>>

(* What Or returns.                                                        *)
OrOf(m, n) == <<Open, Done(m), OrOp, Done(n), Close>>

(* What Argo makes of the text x, when the outcomes in yes have come about *)
(* and H is what it makes of shorter texts: or binds loosest, then and,    *)
(* then not.                                                               *)
Reading(H, x, yes) ==
  LET Before(i) == H[SubSeq(x, 1, i - 1)]
      After(i)  == H[SubSeq(x, i + 1, Len(x))]
  IN  IF TopLevel(x, OrOp) # {}
      THEN LET i == CHOOSE i \in TopLevel(x, OrOp) : TRUE
           IN  Before(i) \/ After(i)
      ELSE IF TopLevel(x, AndOp) # {}
      THEN LET i == CHOOSE i \in TopLevel(x, AndOp) : TRUE
           IN  Before(i) /\ After(i)
      ELSE /\ x # << >>
           /\ IF Head(x) = NotOp THEN ~H[Tail(x)]
              ELSE IF Head(x) = Open THEN H[SubSeq(x, 2, Len(x) - 1)]
              ELSE Head(x) \in yes

(* Whether Argo runs a task whose expression is e when exactly the outcomes*)
(* in yes have come about.                                                 *)
Holds(e, yes) ==
  LET H[x \in Seq(Token)] == Reading(H, x, yes)
  IN  e = << >> \/ H[e]
============================================================================
