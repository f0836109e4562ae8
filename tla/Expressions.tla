---------------------------- MODULE Expressions ----------------------------
(***************************************************************************)
(* The expression builder: each method writes its operands and an operator *)
(* one after the other, without parentheses, and Argo reads the text back  *)
(* by the precedences of its expression language.  An Expr is its text (a  *)
(* sequence of tokens) and, as history, the text that was meant: the same  *)
(* calls with every operand in parentheses.                                *)
(***************************************************************************)
EXTENDS Naturals, Sequences

CONSTANT Word  \* what an operand can be called

(* The precedences of the expression language; those of one level behave   *)
(* alike, so a level has one or two of its operators here.                 *)
BinaryPrecedence ==
  [t \in {"||", "&&", "==", "+", "-", "*", "**"} |->
     CASE t = "||" -> 10 [] t = "&&" -> 15 [] t = "==" -> 20
       [] t \in {"+", "-"} -> 30 [] t = "*" -> 60 [] t = "**" -> 100]
UnaryPrecedence == [t \in {"!", "-"} |-> IF t = "!" THEN 50 ELSE 90]
BinaryOp == DOMAIN BinaryPrecedence
UnaryOp == DOMAIN UnaryPrecedence
RightAssociative == {"**"}
Tightest == 101   \* operands and postfix operators

Method == ".m"    \* attribute, index, slice, and method without an argument
WithLambda == ".map("

Symbol == BinaryOp \union UnaryOp \union {"(", ")", "?", ":", Method, WithLambda}

ASSUME WordAssumption == Word \intersect Symbol = {}

Meant(tokens) == <<"(">> \o tokens \o <<")">>

Least(a, b) == IF a < b THEN a ELSE b

(* left, right: the least precedence of an operator that what is written   *)
(* to the left, or to the right, of the text can tear off; nested: whether *)
(* every operand binds tighter than the operator it was given to.          *)

(* E of one word, and C.  A negative number is two tokens when it is read  *)
(* back: C(-5) is Unary("-", Operand("5")) here.                           *)
Operand(t) ==
  [repr |-> <<t>>, meant |-> <<t>>, left |-> Tightest, right |-> Tightest,
   nested |-> TRUE]

(* Equals, NotEquals, GT, GTE, LT, LTE, Add, Sub, Mul, Div, Mod, Pow, And, *)
(* OrExpr.                                                                 *)
Binary(t, a, b) ==
  LET p == BinaryPrecedence[t]
      fits == IF t \in RightAssociative THEN a.right > p /\ b.left >= p
                                        ELSE a.right >= p /\ b.left > p
  IN  [repr |-> a.repr \o <<t>> \o b.repr,
       meant |-> Meant(a.meant \o <<t>> \o b.meant),
       left |-> Least(p, a.left), right |-> Least(p, b.right),
       nested |-> a.nested /\ b.nested /\ fits]

(* Neg, Not.                                                               *)
Unary(t, a) ==
  [repr |-> <<t>> \o a.repr, meant |-> Meant(<<t>> \o a.meant),
   left |-> Tightest, right |-> Least(UnaryPrecedence[t], a.right),
   nested |-> a.nested /\ a.left >= UnaryPrecedence[t]]

(* Attr, Index, Key, Slice, Contains, Matches, Length, ToJSON, AsInt, ...  *)
Postfix(a) ==
  [repr |-> a.repr \o <<Method>>, meant |-> Meant(a.meant \o <<Method>>),
   left |-> a.left, right |-> Tightest,
   nested |-> a.nested /\ a.right = Tightest]

(* Map, Filter: the lambda is between parentheses of its own.              *)
Map(a, lambda) ==
  [repr |-> a.repr \o <<WithLambda>> \o lambda.repr \o <<")">>,
   meant |-> Meant(a.meant \o <<WithLambda>> \o lambda.meant \o <<")">>),
   left |-> a.left, right |-> Tightest,
   nested |-> a.nested /\ lambda.nested /\ a.right = Tightest]

(* Deviation for ConditionsAsBuilt: the condition is written last.         *)
CheckLast(c, yes, no) ==
  [repr |-> yes.repr \o <<"?">> \o c.repr \o <<":">> \o no.repr,
   meant |-> Meant(c.meant \o <<"?">> \o yes.meant \o <<":">> \o no.meant),
   left |-> 0, right |-> 0,
   nested |-> c.nested /\ yes.nested /\ no.nested /\ c.right > 0]

Check(c, yes, no) ==
  [repr |-> c.repr \o <<"?">> \o yes.repr \o <<":">> \o no.repr,
   meant |-> Meant(c.meant \o <<"?">> \o yes.meant \o <<":">> \o no.meant),
   left |-> 0, right |-> 0,
   nested |-> c.nested /\ yes.nested /\ no.nested /\ c.right > 0]

(* One call of the builder, on a and on b and c made elsewhere.            *)
Calls(a, b, c) ==
  {Binary(t, a, b) : t \in BinaryOp} \union {Binary(t, b, a) : t \in BinaryOp}
    \union {Unary(t, a) : t \in UnaryOp}
    \union {Postfix(a), Map(a, b), Map(b, a),
            Check(a, b, c), Check(b, a, c), Check(b, c, a)}

----------------------------------------------------------------------------
(* How the text s is read, by precedence climbing.  At(done, i, p): the    *)
(* text is read from token i on, as far as operators of precedence p or    *)
(* more reach, and done has been read before (nothing: an operand comes    *)
(* next).  Read[At(...)] is what that gives: the text with its parentheses,*)
(* and the first token that is left.                                       *)
EndOfText == "end"
Token == Word \union Symbol \union {EndOfText}
TokenAt(s, i) == IF i \in DOMAIN s THEN s[i] ELSE EndOfText

At(done, i, p) == [done |-> done, next |-> i, least |-> p]
Place == [done : Seq(Token), next : Nat, least : 0 .. Tightest]

(* The right operand of a binary operator reaches over these.              *)
RightPrecedence(t) ==
  IF t \in RightAssociative THEN BinaryPrecedence[t] ELSE BinaryPrecedence[t] + 1

(* What is read at r, when Read is what is read at the places after it.    *)
Reading(Read, s, r) ==
  LET t == TokenAt(s, r.next)
      From(i, p) == Read[At(<< >>, i, p)]
      Then(text, i) == Read[At(text, i, r.least)]
  IN  CASE r.done = << >> /\ t \in UnaryOp ->
             LET e == From(r.next + 1, UnaryPrecedence[t])
             IN  Then(Meant(<<t>> \o e.text), e.next)
        [] r.done = << >> /\ t \notin UnaryOp ->
             Then(<<t>>, r.next + 1)
        [] r.done # << >> /\ t = Method ->
             Then(Meant(r.done \o <<t>>), r.next + 1)
        [] r.done # << >> /\ t = WithLambda ->
             LET e == From(r.next + 1, 0)
             IN  Then(Meant(r.done \o <<t>> \o e.text \o <<")">>), e.next + 1)
        [] r.done # << >> /\ t \in BinaryOp /\ BinaryPrecedence[t] >= r.least ->
             LET e == From(r.next + 1, RightPrecedence(t))
             IN  Then(Meant(r.done \o <<t>> \o e.text), e.next)
        [] r.done # << >> /\ t = "?" /\ r.least = 0 ->
             LET yes == From(r.next + 1, 0)
                 no == From(yes.next + 1, 0)
             IN  Then(Meant(r.done \o <<t>> \o yes.text \o <<":">> \o no.text), no.next)
        [] OTHER -> [text |-> r.done, next |-> r.next]

Reader(s) ==
  LET Read[r \in Place] == Reading(Read, s, r)
  IN  Read

Reads(s) == Reader(s)[At(<< >>, 1, 0)].text
============================================================================
