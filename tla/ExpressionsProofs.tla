------------------------- MODULE ExpressionsProofs -------------------------
(***************************************************************************)
(* What Argo reads out of an expression is what was meant exactly when     *)
(* every operand binds tighter than the operator it was given to, for any  *)
(* expression that the builder can compose.                                *)
(***************************************************************************)
EXTENDS Expressions, SequenceTheorems, WellFoundedInduction, TLAPS

----------------------------------------------------------------------------
(* Texts.                                                                  *)
Text == Seq(Token)

LEMMA Tokens ==
  /\ Word \subseteq Token /\ BinaryOp \subseteq Token /\ UnaryOp \subseteq Token
  /\ {"(", ")", "?", ":", Method, WithLambda, EndOfText} \subseteq Token
BY DEF Token, Symbol

(* One token is a text, and so are two texts one after the other.          *)
LEMMA OneToken ==
  ASSUME NEW t \in Token
  PROVE  /\ <<t>> \in Text /\ Len(<<t>>) = 1 /\ <<t>>[1] = t
         /\ <<t>> # << >>
BY DEF Text

(* One text after the other; the provers are kept from taking it apart.    *)
u ++ v == u \o v

LEMMA Joined ==
  ASSUME NEW u \in Text, NEW v \in Text
  PROVE  u ++ v \in Text
BY DEF Text, ++

LEMMA MeantIs ==
  ASSUME NEW u
  PROVE  Meant(u) = <<"(">> ++ u ++ <<")">>
BY DEF Meant, ++

LEMMA MeantIsText ==
  ASSUME NEW u \in Text
  PROVE  Meant(u) \in Text /\ Meant(u) # << >>
<1>1. /\ <<"(">> \in Text /\ <<")">> \in Text
      /\ <<"(">> # << >>
  BY OneToken, Tokens
<1>2. Meant(u) \in Text
  BY <1>1, Joined, MeantIs
<1>3. Len(Meant(u)) # 0
  <2>1. <<"(">> \o u \in Text
    BY <1>1, Joined DEF ++
  <2>2. Len(Meant(u)) = Len(<<"(">>) + Len(u) + Len(<<")">>)
    BY <1>1, <2>1 DEF Meant, Text
  <2> QED
    BY <2>2, OneToken, Tokens, u \in Seq(Token) DEF Text
<1> QED
  BY <1>2, <1>3

LEMMA Assoc ==
  ASSUME NEW u \in Text, NEW v \in Text, NEW w \in Text
  PROVE  (u ++ v) ++ w = u ++ (v ++ w)
<1>1. u \in Seq(Token) /\ v \in Seq(Token) /\ w \in Seq(Token)
  BY DEF Text
<1>2. (u \o v) \o w = u \o (v \o w)
  BY <1>1, ConcatAssociative
<1> QED
  BY <1>2 DEF ++

(* Texts that begin alike go on alike.                                     *)
LEMMA Cancel ==
  ASSUME NEW u \in Text, NEW v \in Text, NEW w \in Text, u ++ v = u ++ w
  PROVE  v = w
BY ConcatSimplifications DEF Text, ++

LEMMA FirstTokens ==
  ASSUME NEW s \in Token, NEW t \in Token, NEW u \in Text, NEW v \in Text,
         <<s>> ++ u = <<t>> ++ v
  PROVE  s = t /\ u = v
<1>1. <<s>> \in Text /\ <<t>> \in Text /\ Len(<<s>>) = 1 /\ <<s>>[1] = s /\ <<t>>[1] = t
      /\ Len(<<t>>) = 1
  BY OneToken
<1>2. (<<s>> \o u)[1] = s /\ (<<t>> \o v)[1] = t
  BY <1>1 DEF Text
<1>3. s = t
  BY <1>2 DEF ++
<1> QED
  BY <1>1, <1>3, Cancel

LEMMA NothingMore ==
  ASSUME NEW u \in Text
  PROVE  << >> \in Text /\ u ++ << >> = u
BY ConcatEmptySeq, EmptySeq DEF Text, ++

----------------------------------------------------------------------------
(* Precedences.                                                            *)

(* An operator that can follow an expression, of which the right end is    *)
(* torn off by operators above r, tears nothing off.                       *)
CanFollow(t, r) ==
  /\ t \in {Method, WithLambda} => r = Tightest
  /\ t = "?" => r > 0
  /\ t \in BinaryOp => IF t \in RightAssociative THEN r > BinaryPrecedence[t]
                                                 ELSE r >= BinaryPrecedence[t]

(* The reader stops before t when it reads over precedences from p on.     *)
StopsAt(t, p) ==
  /\ t \notin {Method, WithLambda}
  /\ t \in BinaryOp => BinaryPrecedence[t] < p
  /\ ~(t = "?" /\ p = 0)

LEMMA Numbers ==
  /\ BinaryOp = {"||", "&&", "==", "+", "-", "*", "**"}
  /\ UnaryOp = {"!", "-"}
  /\ \A t \in BinaryOp : /\ BinaryPrecedence[t] \in 1 .. 100
                         /\ BinaryPrecedence[t] \notin {50, 90}
                         /\ BinaryPrecedence[t] = 100 <=> t = "**"
  /\ \A t \in UnaryOp : UnaryPrecedence[t] \in {50, 90}
BY DEF BinaryOp, UnaryOp, BinaryPrecedence, UnaryPrecedence

(* No token plays two roles, but the minus is an operator of both kinds.   *)
LEMMA Roles ==
  /\ \A t \in BinaryOp : t \notin {"(", ")", "?", ":", Method, WithLambda, EndOfText}
  /\ \A t \in UnaryOp : t \notin {"(", ")", "?", ":", Method, WithLambda, EndOfText}
  /\ "?" \notin {"(", ")", ":", Method, WithLambda, EndOfText}
  /\ Method \notin {"(", ")", ":", WithLambda, EndOfText}
  /\ WithLambda \notin {"(", ")", ":", EndOfText}
  /\ "(" \notin {")", ":", EndOfText}
BY Numbers DEF Method, WithLambda, EndOfText

(* The reader of a right operand stops where an operator tears nothing off *)
(* that the operator before the operand holds.                             *)
LEMMA RightOperands ==
  ASSUME NEW t \in BinaryOp, NEW n
  PROVE  /\ RightPrecedence(t) \in 1 .. Tightest
         /\ CanFollow(n, BinaryPrecedence[t]) <=> StopsAt(n, RightPrecedence(t))
<1> DEFINE P == BinaryPrecedence[t]
<1>1. P \in 1 .. 100 /\ (P = 100 <=> t = "**")
  BY Numbers
<1>2. RightPrecedence(t) = IF P = 100 THEN 100 ELSE P + 1
  BY <1>1 DEF RightPrecedence, RightAssociative
<1> HIDE DEF P
<1>3. CASE n \in BinaryOp
  <2> DEFINE Q == BinaryPrecedence[n]
  <2>1. Q \in 1 .. 100 /\ (Q = 100 <=> n \in RightAssociative)
    BY <1>3, Numbers DEF RightAssociative
  <2>2. n \notin {Method, WithLambda, "?"}
    BY <1>3, Roles
  <2>3. CanFollow(n, P) <=> IF n \in RightAssociative THEN P > Q ELSE P >= Q
    BY <1>3, <2>2 DEF CanFollow
  <2>4. StopsAt(n, RightPrecedence(t)) <=> Q < RightPrecedence(t)
    BY <1>3, <2>2 DEF StopsAt
  <2> HIDE DEF Q
  <2> QED
    BY <1>1, <1>2, <2>1, <2>3, <2>4 DEF Tightest, P
<1>4. CASE n \notin BinaryOp
  BY <1>1, <1>2, <1>4 DEF CanFollow, StopsAt, Tightest, P
<1> QED
  BY <1>3, <1>4

LEMMA UnaryOperands ==
  ASSUME NEW t \in UnaryOp, NEW n
  PROVE  /\ UnaryPrecedence[t] \in 1 .. Tightest
         /\ CanFollow(n, UnaryPrecedence[t]) <=> StopsAt(n, UnaryPrecedence[t])
BY Numbers, Roles DEF CanFollow, StopsAt, RightAssociative, Tightest

LEMMA WholeOperands ==
  ASSUME NEW n
  PROVE  CanFollow(n, 0) <=> StopsAt(n, 0)
BY Numbers, Roles DEF CanFollow, StopsAt, RightAssociative, Tightest

LEMMA LeastOfTwo ==
  ASSUME NEW a \in 0 .. Tightest, NEW b \in 0 .. Tightest
  PROVE  /\ Least(a, b) \in 0 .. Tightest
         /\ \/ Least(a, b) = a /\ a <= b
            \/ Least(a, b) = b /\ b <= a
         /\ \A p \in 0 .. Tightest : p <= Least(a, b) <=> p <= a /\ p <= b
<1>1. \/ Least(a, b) = a /\ a <= b
      \/ Least(a, b) = b /\ b <= a
  BY DEF Least, Tightest
<1> QED
  BY <1>1 DEF Tightest

LEMMA FollowLeast ==
  ASSUME NEW n, NEW a \in 0 .. Tightest, NEW b \in 0 .. Tightest
  PROVE  CanFollow(n, Least(a, b)) <=> CanFollow(n, a) /\ CanFollow(n, b)
<1>1. ASSUME NEW c \in 0 .. Tightest, NEW d \in 0 .. Tightest, c <= d, CanFollow(n, c)
      PROVE  CanFollow(n, d)
  <2>1. n \in BinaryOp => BinaryPrecedence[n] \in 1 .. 100
    BY Numbers
  <2> QED
    BY <1>1, <2>1 DEF CanFollow, Tightest
<1> QED
  BY <1>1, LeastOfTwo

LEMMA FollowAll ==
  ASSUME NEW n
  PROVE  CanFollow(n, Tightest)
BY Numbers DEF CanFollow, Tightest, RightAssociative

----------------------------------------------------------------------------
(* Expressions.                                                            *)
Expr == [repr : Text, meant : Text, left : 0 .. Tightest, right : 0 .. Tightest,
         nested : BOOLEAN]

(* S holds the operands of T and whatever the builder makes of its members.*)
Closed(S, T) ==
  /\ \A t \in T : Operand(t) \in S
  /\ \A t \in BinaryOp, a, b \in S : Binary(t, a, b) \in S
  /\ \A t \in UnaryOp, a \in S : Unary(t, a) \in S
  /\ \A a \in S : Postfix(a) \in S
  /\ \A a, b \in S : Map(a, b) \in S
  /\ \A a, b, c \in S : Check(a, b, c) \in S

(* The expressions that are composed of operands of T: the smallest set    *)
(* that is closed under the calls of the builder.                          *)
Composed(T) == {e \in Expr : \A S \in SUBSET Expr : Closed(S, T) => e \in S}

(* The texts of what the builder makes.                                    *)
LEMMA Written ==
  /\ \A t : Operand(t).repr = <<t>> /\ Operand(t).meant = <<t>>
  /\ \A t, a, b : /\ Binary(t, a, b).repr = a.repr ++ <<t>> ++ b.repr
                  /\ Binary(t, a, b).meant = Meant(a.meant ++ <<t>> ++ b.meant)
  /\ \A t, a : /\ Unary(t, a).repr = <<t>> ++ a.repr
               /\ Unary(t, a).meant = Meant(<<t>> ++ a.meant)
  /\ \A a : /\ Postfix(a).repr = a.repr ++ <<Method>>
            /\ Postfix(a).meant = Meant(a.meant ++ <<Method>>)
  /\ \A a, b : /\ Map(a, b).repr = a.repr ++ <<WithLambda>> ++ b.repr ++ <<")">>
               /\ Map(a, b).meant = Meant(a.meant ++ <<WithLambda>> ++ b.meant ++ <<")">>)
  /\ \A a, b, c :
       /\ Check(a, b, c).repr = a.repr ++ <<"?">> ++ b.repr ++ <<":">> ++ c.repr
       /\ Check(a, b, c).meant
            = Meant(a.meant ++ <<"?">> ++ b.meant ++ <<":">> ++ c.meant)
<1>1. \A t : Operand(t).repr = <<t>> /\ Operand(t).meant = <<t>>
  BY DEF Operand
<1>2. \A t, a, b : /\ Binary(t, a, b).repr = a.repr ++ <<t>> ++ b.repr
                   /\ Binary(t, a, b).meant = Meant(a.meant ++ <<t>> ++ b.meant)
  BY DEF Binary, ++
<1>3. \A t, a : /\ Unary(t, a).repr = <<t>> ++ a.repr
                /\ Unary(t, a).meant = Meant(<<t>> ++ a.meant)
  BY DEF Unary, ++
<1>4. \A a : /\ Postfix(a).repr = a.repr ++ <<Method>>
             /\ Postfix(a).meant = Meant(a.meant ++ <<Method>>)
  BY DEF Postfix, ++
<1>5. \A a, b :
        /\ Map(a, b).repr = a.repr ++ <<WithLambda>> ++ b.repr ++ <<")">>
        /\ Map(a, b).meant = Meant(a.meant ++ <<WithLambda>> ++ b.meant ++ <<")">>)
  BY DEF Map, ++
<1>6. \A a, b, c :
        /\ Check(a, b, c).repr = a.repr ++ <<"?">> ++ b.repr ++ <<":">> ++ c.repr
        /\ Check(a, b, c).meant = Meant(a.meant ++ <<"?">> ++ b.meant ++ <<":">> ++ c.meant)
  BY DEF Check, ++
<1> QED
  BY <1>1, <1>2, <1>3, <1>4, <1>5, <1>6

LEMMA OperandType ==
  ASSUME NEW t \in Token
  PROVE  Operand(t) \in Expr
BY OneToken DEF Operand, Expr, Tightest

LEMMA BinaryType ==
  ASSUME NEW t \in BinaryOp, NEW a \in Expr, NEW b \in Expr
  PROVE  Binary(t, a, b) \in Expr
<1> DEFINE e == Binary(t, a, b)
<1>1. /\ a.repr \in Text /\ b.repr \in Text /\ a.meant \in Text /\ b.meant \in Text
      /\ a.left \in 0 .. Tightest /\ b.right \in 0 .. Tightest
      /\ a.nested \in BOOLEAN
  BY DEF Expr
<1>2. <<t>> \in Text
  BY OneToken, Tokens
<1>3. a.repr ++ <<t>> ++ b.repr \in Text /\ a.meant ++ <<t>> ++ b.meant \in Text
  BY <1>1, <1>2, Joined
<1>4. Meant(a.meant ++ <<t>> ++ b.meant) \in Text
  BY <1>3, MeantIsText
<1>5. /\ Least(BinaryPrecedence[t], a.left) \in 0 .. Tightest
      /\ Least(BinaryPrecedence[t], b.right) \in 0 .. Tightest
  BY <1>1, Numbers DEF Least, Tightest
<1> QED
  BY <1>3, <1>4, <1>5 DEF Binary, Expr, ++

LEMMA UnaryType ==
  ASSUME NEW t \in UnaryOp, NEW a \in Expr
  PROVE  Unary(t, a) \in Expr
<1>1. /\ a.repr \in Text /\ a.meant \in Text /\ a.right \in 0 .. Tightest
      /\ <<t>> \in Text
  BY OneToken, Tokens DEF Expr
<1>2. <<t>> ++ a.repr \in Text /\ Meant(<<t>> ++ a.meant) \in Text
  BY <1>1, Joined, MeantIsText
<1>3. Least(UnaryPrecedence[t], a.right) \in 0 .. Tightest
  BY <1>1, Numbers DEF Least, Tightest
<1> QED
  BY <1>2, <1>3 DEF Unary, Expr, Tightest, ++

LEMMA PostfixType ==
  ASSUME NEW a \in Expr
  PROVE  Postfix(a) \in Expr
<1>1. /\ a.repr \in Text /\ a.meant \in Text /\ a.left \in 0 .. Tightest
      /\ <<Method>> \in Text
  BY OneToken, Tokens DEF Expr
<1>2. a.repr ++ <<Method>> \in Text /\ Meant(a.meant ++ <<Method>>) \in Text
  BY <1>1, Joined, MeantIsText
<1> QED
  BY <1>1, <1>2 DEF Postfix, Expr, Tightest, ++

LEMMA MapType ==
  ASSUME NEW a \in Expr, NEW b \in Expr
  PROVE  Map(a, b) \in Expr
<1>1. /\ a.repr \in Text /\ a.meant \in Text /\ a.left \in 0 .. Tightest
      /\ b.repr \in Text /\ b.meant \in Text
      /\ <<WithLambda>> \in Text /\ <<")">> \in Text
  BY OneToken, Tokens DEF Expr
<1>2. /\ a.repr ++ <<WithLambda>> ++ b.repr ++ <<")">> \in Text
      /\ Meant(a.meant ++ <<WithLambda>> ++ b.meant ++ <<")">>) \in Text
  BY <1>1, Joined, MeantIsText
<1> QED
  BY <1>1, <1>2 DEF Map, Expr, Tightest, ++

LEMMA CheckType ==
  ASSUME NEW a \in Expr, NEW b \in Expr, NEW c \in Expr
  PROVE  Check(a, b, c) \in Expr
<1>1. /\ a.repr \in Text /\ a.meant \in Text /\ b.repr \in Text /\ b.meant \in Text
      /\ c.repr \in Text /\ c.meant \in Text
      /\ <<"?">> \in Text /\ <<":">> \in Text
  BY OneToken, Tokens DEF Expr
<1>2. /\ a.repr ++ <<"?">> ++ b.repr ++ <<":">> ++ c.repr \in Text
      /\ Meant(a.meant ++ <<"?">> ++ b.meant ++ <<":">> ++ c.meant) \in Text
  BY <1>1, Joined, MeantIsText
<1> QED
  BY <1>2 DEF Check, Expr, Tightest, ++

(* What the builder makes of composed expressions is composed.             *)
LEMMA ComposedClosed ==
  ASSUME NEW T \in SUBSET Token
  PROVE  Closed(Composed(T), T)
<1> DEFINE C == Composed(T)
<1>0. C \subseteq Expr /\ \A S \in SUBSET Expr : Closed(S, T) => C \subseteq S
  BY DEF Composed
<1>a. \A e \in Expr : (\A S \in SUBSET Expr : Closed(S, T) => e \in S) => e \in C
  BY DEF Composed
<1> HIDE DEF C
<1>1. ASSUME NEW t \in T PROVE Operand(t) \in C
  BY <1>a, OperandType DEF Closed
<1>2. ASSUME NEW t \in BinaryOp, NEW a \in C, NEW b \in C PROVE Binary(t, a, b) \in C
  <2>1. Binary(t, a, b) \in Expr
    BY <1>0, BinaryType
  <2>2. ASSUME NEW S \in SUBSET Expr, Closed(S, T) PROVE Binary(t, a, b) \in S
    BY <1>0, <2>2 DEF Closed
  <2> QED
    BY <1>a, <2>1, <2>2
<1>3. ASSUME NEW t \in UnaryOp, NEW a \in C PROVE Unary(t, a) \in C
  <2>1. Unary(t, a) \in Expr
    BY <1>0, UnaryType
  <2>2. ASSUME NEW S \in SUBSET Expr, Closed(S, T) PROVE Unary(t, a) \in S
    BY <1>0, <2>2 DEF Closed
  <2> QED
    BY <1>a, <2>1, <2>2
<1>4. ASSUME NEW a \in C PROVE Postfix(a) \in C
  <2>1. Postfix(a) \in Expr
    BY <1>0, PostfixType
  <2>2. ASSUME NEW S \in SUBSET Expr, Closed(S, T) PROVE Postfix(a) \in S
    BY <1>0, <2>2 DEF Closed
  <2> QED
    BY <1>a, <2>1, <2>2
<1>5. ASSUME NEW a \in C, NEW b \in C PROVE Map(a, b) \in C
  <2>1. Map(a, b) \in Expr
    BY <1>0, MapType
  <2>2. ASSUME NEW S \in SUBSET Expr, Closed(S, T) PROVE Map(a, b) \in S
    BY <1>0, <2>2 DEF Closed
  <2> QED
    BY <1>a, <2>1, <2>2
<1>6. ASSUME NEW a \in C, NEW b \in C, NEW c \in C PROVE Check(a, b, c) \in C
  <2>1. Check(a, b, c) \in Expr
    BY <1>0, CheckType
  <2>2. ASSUME NEW S \in SUBSET Expr, Closed(S, T) PROVE Check(a, b, c) \in S
    BY <1>0, <2>2 DEF Closed
  <2> QED
    BY <1>a, <2>1, <2>2
<1> QED
  BY <1>1, <1>2, <1>3, <1>4, <1>5, <1>6 DEF Closed, C

(* To show something of all composed expressions, show that it is closed.  *)
LEMMA ComposedInduction ==
  ASSUME NEW T, NEW S \in SUBSET Expr, Closed(S, T)
  PROVE  Composed(T) \subseteq S
BY DEF Composed

(* Every composed expression is an operand or the result of one call.      *)
Formed(e, T) ==
  \/ \E t \in T : e = Operand(t)
  \/ \E t \in BinaryOp, a, b \in Composed(T) : e = Binary(t, a, b)
  \/ \E t \in UnaryOp, a \in Composed(T) : e = Unary(t, a)
  \/ \E a \in Composed(T) : e = Postfix(a)
  \/ \E a, b \in Composed(T) : e = Map(a, b)
  \/ \E a, b, c \in Composed(T) : e = Check(a, b, c)

LEMMA ComposedFormed ==
  ASSUME NEW T \in SUBSET Token, NEW e \in Composed(T)
  PROVE  Formed(e, T)
<1> DEFINE C == Composed(T)
           S == {x \in C : Formed(x, T)}
<1>1. Closed(C, T) /\ C \subseteq Expr
  BY ComposedClosed DEF Composed
<1>2. Closed(S, T)
  <2> HIDE DEF C
  <2>1. ASSUME NEW x \in C, Formed(x, T) PROVE x \in S
    BY <2>1
  <2>2. \A t \in T : Operand(t) \in S
    BY <1>1 DEF Closed, Formed
  <2>3. \A t \in BinaryOp, a, b \in C : Binary(t, a, b) \in S
    BY <1>1, Zenon DEF Closed, Formed, C
  <2>4. \A t \in UnaryOp, a \in C : Unary(t, a) \in S
    BY <1>1, Zenon DEF Closed, Formed, C
  <2>5. \A a \in C : Postfix(a) \in S
    BY <1>1, Zenon DEF Closed, Formed, C
  <2>6. \A a, b \in C : Map(a, b) \in S
    BY <1>1, Zenon DEF Closed, Formed, C
  <2>7. \A a, b, c \in C : Check(a, b, c) \in S
    BY <1>1, Zenon DEF Closed, Formed, C
  <2>8. S \subseteq C
    OBVIOUS
  <2> HIDE DEF S
  <2> QED
    BY <2>2, <2>3, <2>4, <2>5, <2>6, <2>7, <2>8, Zenon DEF Closed
<1>3. S \in SUBSET Expr
  BY <1>1
<1>4. C \subseteq S
  BY <1>2, <1>3, ComposedInduction
<1> QED
  BY <1>4

----------------------------------------------------------------------------
(* What is meant can be told from the text: no text that is meant by one   *)
(* expression begins like the text meant by another.                       *)

(* What the reader takes for an operand in a text that the builder wrote.  *)
Junk == Token \ (UnaryOp \union {"("})

(* Texts taken apart from the left.                                        *)
LEMMA MeantFollowed ==
  ASSUME NEW u \in Text, NEW v \in Text
  PROVE  Meant(u) ++ v = <<"(">> ++ (u ++ (<<")">> ++ v))
<1>1. <<"(">> \in Text /\ <<")">> \in Text
  BY OneToken, Tokens
<1>2. <<"(">> ++ u \in Text /\ <<")">> ++ v \in Text
  BY <1>1, Joined
<1>3. Meant(u) ++ v = (<<"(">> ++ u) ++ (<<")">> ++ v)
  BY <1>1, <1>2, Assoc, MeantIs
<1> QED
  BY <1>1, <1>2, <1>3, Assoc

Regroups(u, v, w, x) == (u ++ v ++ w) ++ x = u ++ (v ++ (w ++ x))

LEMMA ThreeFollowed ==
  ASSUME NEW u \in Text, NEW v \in Text, NEW w \in Text, NEW x \in Text
  PROVE  Regroups(u, v, w, x)
<1>1. PICK p \in Text : p = u ++ v
  BY Joined
<1>2. PICK q \in Text : q = w ++ x
  BY Joined
<1>3. (p ++ w) ++ x = p ++ q
  BY <1>2, Assoc
<1>4. (u ++ v) ++ q = u ++ (v ++ q)
  BY Assoc
<1> QED
  BY <1>1, <1>2, <1>3, <1>4, Zenon DEF Regroups

LEMMA BinaryMeant ==
  ASSUME NEW t \in BinaryOp, NEW a \in Expr, NEW b \in Expr, NEW v \in Text
  PROVE  Binary(t, a, b).meant ++ v
           = <<"(">> ++ (a.meant ++ (<<t>> ++ (b.meant ++ (<<")">> ++ v))))
<1>1. /\ a.meant \in Text /\ b.meant \in Text /\ <<t>> \in Text /\ <<")">> \in Text
  BY OneToken, Tokens DEF Expr
<1>2. PICK x \in Text : x = <<")">> ++ v
  BY <1>1, Joined
<1>3. a.meant ++ <<t>> ++ b.meant \in Text
  BY <1>1, Joined
<1>4. Binary(t, a, b).meant = Meant(a.meant ++ <<t>> ++ b.meant)
  BY Written
<1>5. Binary(t, a, b).meant ++ v = <<"(">> ++ ((a.meant ++ <<t>> ++ b.meant) ++ x)
  BY <1>2, <1>3, <1>4, MeantFollowed
<1>6. Regroups(a.meant, <<t>>, b.meant, x)
  BY <1>1, ThreeFollowed
<1> QED
  BY <1>2, <1>5, <1>6, Zenon DEF Regroups

LEMMA UnaryMeant ==
  ASSUME NEW t \in UnaryOp, NEW a \in Expr, NEW v \in Text
  PROVE  Unary(t, a).meant ++ v = <<"(">> ++ (<<t>> ++ (a.meant ++ (<<")">> ++ v)))
<1>1. /\ a.meant \in Text /\ <<t>> \in Text /\ <<")">> \in Text
  BY OneToken, Tokens DEF Expr
<1>2. <<t>> ++ a.meant \in Text /\ <<")">> ++ v \in Text
  BY <1>1, Joined
<1>3. Unary(t, a).meant ++ v = <<"(">> ++ ((<<t>> ++ a.meant) ++ (<<")">> ++ v))
  BY <1>2, MeantFollowed, Written
<1> QED
  BY <1>1, <1>2, <1>3, Assoc

LEMMA PostfixMeant ==
  ASSUME NEW a \in Expr, NEW v \in Text
  PROVE  Postfix(a).meant ++ v = <<"(">> ++ (a.meant ++ (<<Method>> ++ (<<")">> ++ v)))
<1>1. /\ a.meant \in Text /\ <<Method>> \in Text /\ <<")">> \in Text
  BY OneToken, Tokens DEF Expr
<1>2. a.meant ++ <<Method>> \in Text /\ <<")">> ++ v \in Text
  BY <1>1, Joined
<1>3. Postfix(a).meant ++ v = <<"(">> ++ ((a.meant ++ <<Method>>) ++ (<<")">> ++ v))
  BY <1>2, MeantFollowed, Written
<1> QED
  BY <1>1, <1>2, <1>3, Assoc

LEMMA MapMeant ==
  ASSUME NEW a \in Expr, NEW b \in Expr, NEW v \in Text
  PROVE  Map(a, b).meant ++ v
           = <<"(">> ++ (a.meant ++ (<<WithLambda>> ++ (b.meant ++ (<<")">> ++ (<<")">> ++ v)))))
<1>1. /\ a.meant \in Text /\ b.meant \in Text /\ <<WithLambda>> \in Text /\ <<")">> \in Text
  BY OneToken, Tokens DEF Expr
<1>2. PICK x \in Text : x = <<")">> ++ v
  BY <1>1, Joined
<1>3. PICK y \in Text : y = <<")">> ++ x
  BY <1>1, Joined
<1>4. PICK p \in Text : p = a.meant ++ <<WithLambda>> ++ b.meant
  BY <1>1, Joined
<1>5. p ++ <<")">> \in Text
  BY <1>1, Joined
<1>6. Map(a, b).meant = Meant(p ++ <<")">>)
  BY <1>4, Written
<1>7. Map(a, b).meant ++ v = <<"(">> ++ ((p ++ <<")">>) ++ x)
  BY <1>2, <1>5, <1>6, MeantFollowed
<1>8. (p ++ <<")">>) ++ x = p ++ y
  BY <1>1, <1>3, Assoc
<1>9. Regroups(a.meant, <<WithLambda>>, b.meant, y)
  BY <1>1, ThreeFollowed
<1> QED
  BY <1>2, <1>3, <1>4, <1>7, <1>8, <1>9, Zenon DEF Regroups

LEMMA CheckMeant ==
  ASSUME NEW a \in Expr, NEW b \in Expr, NEW c \in Expr, NEW v \in Text
  PROVE  Check(a, b, c).meant ++ v
           = <<"(">> ++ (a.meant ++ (<<"?">> ++
               (b.meant ++ (<<":">> ++ (c.meant ++ (<<")">> ++ v))))))
<1>1. /\ a.meant \in Text /\ b.meant \in Text /\ c.meant \in Text
      /\ <<"?">> \in Text /\ <<":">> \in Text /\ <<")">> \in Text
  BY OneToken, Tokens DEF Expr
<1>2. PICK x \in Text : x = <<")">> ++ v
  BY <1>1, Joined
<1>3. PICK y \in Text : y = <<":">> ++ (c.meant ++ x)
  BY <1>1, Joined
<1>4. PICK p \in Text : p = a.meant ++ <<"?">> ++ b.meant
  BY <1>1, Joined
<1>5. p ++ <<":">> ++ c.meant \in Text
  BY <1>1, Joined
<1>6. Check(a, b, c).meant = Meant(p ++ <<":">> ++ c.meant)
  BY <1>4, Written
<1>7. Check(a, b, c).meant ++ v = <<"(">> ++ ((p ++ <<":">> ++ c.meant) ++ x)
  BY <1>2, <1>5, <1>6, MeantFollowed
<1>8. Regroups(p, <<":">>, c.meant, x)
  BY <1>1, ThreeFollowed
<1>9. Regroups(a.meant, <<"?">>, b.meant, y)
  BY <1>1, ThreeFollowed
<1> QED
  BY <1>2, <1>3, <1>4, <1>7, <1>8, <1>9, Zenon DEF Regroups

(* What is meant by a call is in parentheses.                              *)
LEMMA MeantShape ==
  ASSUME NEW T \in SUBSET Token, NEW e \in Composed(T)
  PROVE  \/ \E t \in T : e = Operand(t)
         \/ \E u \in Text : e.meant = Meant(u)
<1>4. \A a \in Composed(T) : a.meant \in Text
  BY DEF Composed, Expr
<1>5. ASSUME NEW t \in BinaryOp, NEW a \in Composed(T), NEW b \in Composed(T),
             e = Binary(t, a, b)
      PROVE  \E u \in Text : e.meant = Meant(u)
  <2>1. a.meant ++ <<t>> ++ b.meant \in Text
    BY <1>4, OneToken, Tokens, Joined
  <2> QED
    BY <1>5, <2>1, Written
<1>6. ASSUME NEW t \in UnaryOp, NEW a \in Composed(T), e = Unary(t, a)
      PROVE  \E u \in Text : e.meant = Meant(u)
  <2>1. <<t>> ++ a.meant \in Text
    BY <1>4, OneToken, Tokens, Joined
  <2> QED
    BY <1>6, <2>1, Written
<1>7. ASSUME NEW a \in Composed(T), e = Postfix(a)
      PROVE  \E u \in Text : e.meant = Meant(u)
  <2>1. a.meant ++ <<Method>> \in Text
    BY <1>4, OneToken, Tokens, Joined
  <2> QED
    BY <1>7, <2>1, Written
<1>8. ASSUME NEW a \in Composed(T), NEW b \in Composed(T), e = Map(a, b)
      PROVE  \E u \in Text : e.meant = Meant(u)
  <2>1. a.meant ++ <<WithLambda>> ++ b.meant ++ <<")">> \in Text
    BY <1>4, OneToken, Tokens, Joined
  <2> QED
    BY <1>8, <2>1, Written
<1>9. ASSUME NEW a \in Composed(T), NEW b \in Composed(T), NEW c \in Composed(T),
             e = Check(a, b, c)
      PROVE  \E u \in Text : e.meant = Meant(u)
  <2>1. a.meant ++ <<"?">> ++ b.meant ++ <<":">> ++ c.meant \in Text
    BY <1>4, OneToken, Tokens, Joined
  <2> QED
    BY <1>9, <2>1, Written
<1>10. Formed(e, T)
  BY ComposedFormed
<1> QED
  BY <1>5, <1>6, <1>7, <1>8, <1>9, <1>10, Zenon DEF Formed

(* No text that is meant begins with a unary operator.                     *)
LEMMA MeantBegins ==
  ASSUME NEW T \in SUBSET Junk, NEW e \in Composed(T)
  PROVE  \E t \in Token \ UnaryOp, w \in Text : e.meant = <<t>> ++ w
<1>1. T \in SUBSET Token
  BY DEF Junk
<1>2. ASSUME NEW u \in Text, e.meant = Meant(u)
      PROVE  \E t \in Token \ UnaryOp, w \in Text : e.meant = <<t>> ++ w
  <2>1. <<")">> \in Text /\ <<"(">> \in Text /\ "(" \in Token \ UnaryOp
    BY OneToken, Tokens, Roles
  <2>2. u ++ <<")">> \in Text /\ Meant(u) = <<"(">> ++ (u ++ <<")">>)
    BY <2>1, Joined, Assoc, MeantIs
  <2> QED
    BY <1>2, <2>1, <2>2
<1>3. ASSUME NEW t \in T, e = Operand(t)
      PROVE  \E x \in Token \ UnaryOp, w \in Text : e.meant = <<x>> ++ w
  <2>1. t \in Token \ UnaryOp /\ e.meant = <<t>>
    BY <1>1, <1>3 DEF Junk, Operand
  <2>2. << >> \in Text /\ <<t>> ++ << >> = <<t>>
    BY <2>1, OneToken, NothingMore
  <2> QED
    BY <2>1, <2>2
<1> QED
  BY <1>1, <1>2, <1>3, MeantShape

LEMMA WordIsJunk == Word \subseteq Junk
BY WordAssumption, Tokens DEF Junk, Symbol

(* Nothing that is composed of junk is meant by a text that begins like    *)
(* what is meant by e, unless it is like e.                                *)
Same(e, g) ==
  /\ e.meant = g.meant /\ e.left = g.left /\ e.right = g.right
  /\ e.nested <=> g.nested

Distinct(e) ==
  \A g \in Composed(Junk), u, v \in Text : e.meant ++ u = g.meant ++ v => Same(e, g)

LEMMA SameTail ==
  ASSUME NEW e \in Expr, Distinct(e), NEW g \in Composed(Junk),
         NEW u \in Text, NEW v \in Text, e.meant ++ u = g.meant ++ v
  PROVE  Same(e, g) /\ u = v
<1>1. Same(e, g)
  BY DEF Distinct
<1>2. e.meant \in Text /\ e.meant = g.meant
  BY <1>1 DEF Expr, Same
<1> QED
  BY <1>1, <1>2, Cancel

(* An expression g that is meant by a text that begins with e, after the   *)
(* parenthesis, and the token t, is made from what is like e by the call   *)
(* that writes t.                                                          *)
MadeFrom(e, t, x, g, v) ==
  \E a \in Composed(Junk) :
    /\ Same(e, a)
    /\ \/ /\ t \in BinaryOp
          /\ \E b \in Composed(Junk) : g = Binary(t, a, b) /\ x = b.meant ++ (<<")">> ++ v)
       \/ t = Method /\ g = Postfix(a)
       \/ /\ t = WithLambda
          /\ \E b \in Composed(Junk) :
               g = Map(a, b) /\ x = b.meant ++ (<<")">> ++ (<<")">> ++ v))
       \/ /\ t = "?"
          /\ \E b, c \in Composed(Junk) :
               /\ g = Check(a, b, c)
               /\ x = b.meant ++ (<<":">> ++ (c.meant ++ (<<")">> ++ v)))

LEMMA LeftOperand ==
  ASSUME NEW e \in Composed(Word), Distinct(e), NEW t \in Token, NEW x \in Text,
         NEW g \in Composed(Junk), NEW v \in Text,
         <<"(">> ++ (e.meant ++ (<<t>> ++ x)) = g.meant ++ v
  PROVE  MadeFrom(e, t, x, g, v)
<1> DEFINE J == Composed(Junk)
           y == e.meant ++ (<<t>> ++ x)
<1>1. /\ J \subseteq Expr /\ e \in Expr /\ Junk \in SUBSET Token
      /\ \A a \in J : a.meant \in Text
  BY DEF Composed, Expr, Junk
<1>2. /\ "(" \in Token /\ "(" \notin Junk /\ <<")">> \in Text
      /\ \A z \in Token : <<z>> \in Text
  BY OneToken, Tokens DEF Junk
<1>3. y \in Text /\ <<t>> ++ x \in Text /\ <<")">> ++ v \in Text
  BY <1>1, <1>2, Joined DEF Expr
<1>4. <<"(">> ++ y = g.meant ++ v
  OBVIOUS
<1>5. Formed(g, Junk)
  BY <1>1, ComposedFormed
<1> HIDE DEF y
<1>6. ASSUME NEW z \in Junk, g = Operand(z) PROVE FALSE
  <2>1. g.meant = <<z>> /\ z \in Token
    BY <1>6, Written DEF Junk
  <2>2. "(" = z
    BY <1>2, <1>3, <1>4, <2>1, FirstTokens
  <2> QED
    BY <1>2, <2>2
<1>7. ASSUME NEW z \in UnaryOp, NEW a \in J, g = Unary(z, a) PROVE FALSE
  <2>1. PICK w \in Text : w = a.meant ++ (<<")">> ++ v)
    BY <1>1, <1>2, <1>3, Joined
  <2>2. z \in Token /\ <<z>> ++ w \in Text
    BY <1>2, <2>1, Tokens, Joined
  <2>3. <<"(">> ++ y = <<"(">> ++ (<<z>> ++ w)
    BY <1>1, <1>4, <1>7, <2>1, UnaryMeant
  <2>4. y = <<z>> ++ w
    BY <1>2, <1>3, <2>2, <2>3, FirstTokens
  <2>5. PICK f \in Token \ UnaryOp, q \in Text : e.meant = <<f>> ++ q
    BY WordIsJunk, MeantBegins
  <2>6. PICK r \in Text : r = <<t>> ++ x
    BY <1>3
  <2>7. <<f>> \in Text
    BY <1>2
  <2>8. PICK p \in Text : p = q ++ r
    BY Joined
  <2>9. (<<f>> ++ q) ++ r = <<f>> ++ p
    BY <2>7, <2>8, Assoc
  <2>10. <<f>> ++ p = <<z>> ++ w
    BY <2>4, <2>5, <2>6, <2>9, Zenon DEF y
  <2>11. f = z
    BY <2>2, <2>10, FirstTokens
  <2> QED
    BY <2>11
(* The calls that write their operand first.                               *)
<1>8. ASSUME NEW a \in J, NEW z \in Token, NEW w \in Text,
             g.meant ++ v = <<"(">> ++ (a.meant ++ (<<z>> ++ w))
      PROVE  Same(e, a) /\ t = z /\ x = w
  <2>1. <<z>> ++ w \in Text
    BY <1>2, Joined
  <2>2. a.meant ++ (<<z>> ++ w) \in Text
    BY <1>1, <2>1, Joined
  <2>3. y = a.meant ++ (<<z>> ++ w)
    BY <1>2, <1>3, <1>4, <1>8, <2>2, FirstTokens
  <2>4. Same(e, a) /\ <<t>> ++ x = <<z>> ++ w
    BY <1>1, <1>3, <2>1, <2>3, SameTail DEF y
  <2> QED
    BY <2>4, FirstTokens
<1>9. ASSUME NEW z \in BinaryOp, NEW a \in J, NEW b \in J, g = Binary(z, a, b)
      PROVE  MadeFrom(e, t, x, g, v)
  <2>1. PICK w \in Text : w = b.meant ++ (<<")">> ++ v)
    BY <1>1, <1>3, Joined
  <2>2. g.meant ++ v = <<"(">> ++ (a.meant ++ (<<z>> ++ w)) /\ z \in Token
    BY <1>1, <1>9, <2>1, BinaryMeant, Tokens
  <2>3. Same(e, a) /\ t = z /\ x = w
    BY <1>8, <2>2
  <2> QED
    BY <1>9, <2>1, <2>3, Zenon DEF MadeFrom
<1>10. ASSUME NEW a \in J, g = Postfix(a)
       PROVE  MadeFrom(e, t, x, g, v)
  <2>1. g.meant ++ v = <<"(">> ++ (a.meant ++ (<<Method>> ++ (<<")">> ++ v)))
        /\ Method \in Token
    BY <1>1, <1>10, PostfixMeant, Tokens
  <2>2. Same(e, a) /\ t = Method
    BY <1>3, <1>8, <2>1
  <2> QED
    BY <1>10, <2>2, Zenon DEF MadeFrom
<1>11. ASSUME NEW a \in J, NEW b \in J, g = Map(a, b)
       PROVE  MadeFrom(e, t, x, g, v)
  <2>1. PICK w \in Text : w = b.meant ++ (<<")">> ++ (<<")">> ++ v))
    BY <1>1, <1>2, <1>3, Joined
  <2>2. g.meant ++ v = <<"(">> ++ (a.meant ++ (<<WithLambda>> ++ w)) /\ WithLambda \in Token
    BY <1>1, <1>11, <2>1, MapMeant, Tokens
  <2>3. Same(e, a) /\ t = WithLambda /\ x = w
    BY <1>8, <2>2
  <2> QED
    BY <1>11, <2>1, <2>3, Zenon DEF MadeFrom
<1>12. ASSUME NEW a \in J, NEW b \in J, NEW c \in J, g = Check(a, b, c)
       PROVE  MadeFrom(e, t, x, g, v)
  <2>1. PICK w \in Text : w = b.meant ++ (<<":">> ++ (c.meant ++ (<<")">> ++ v)))
    BY <1>1, <1>2, <1>3, Joined, Tokens
  <2>2. g.meant ++ v = <<"(">> ++ (a.meant ++ (<<"?">> ++ w)) /\ "?" \in Token
    BY <1>1, <1>12, <2>1, CheckMeant, Tokens
  <2>3. Same(e, a) /\ t = "?" /\ x = w
    BY <1>8, <2>2
  <2> QED
    BY <1>12, <2>1, <2>3, Zenon DEF MadeFrom
<1> QED
  BY <1>5, <1>6, <1>7, <1>9, <1>10, <1>11, <1>12, Zenon DEF Formed

LEMMA SameCalls ==
  /\ \A t, a, b, c, d : Same(a, c) /\ Same(b, d) => Same(Binary(t, a, b), Binary(t, c, d))
  /\ \A t, a, b : Same(a, b) => Same(Unary(t, a), Unary(t, b))
  /\ \A a, b : Same(a, b) => Same(Postfix(a), Postfix(b))
  /\ \A a, b, c, d : Same(a, c) /\ Same(b, d) => Same(Map(a, b), Map(c, d))
  /\ \A a, b, c, d, e, f :
       Same(a, d) /\ Same(b, e) /\ Same(c, f) => Same(Check(a, b, c), Check(d, e, f))
<1>1. \A t, a, b, c, d : Same(a, c) /\ Same(b, d) => Same(Binary(t, a, b), Binary(t, c, d))
  <2>1. ASSUME NEW t, NEW a, NEW b, NEW c, NEW d, Same(a, c), Same(b, d)
        PROVE  Same(Binary(t, a, b), Binary(t, c, d))
    <3>1. /\ a.meant = c.meant /\ a.left = c.left /\ a.right = c.right
          /\ b.meant = d.meant /\ b.left = d.left /\ b.right = d.right
          /\ a.nested <=> c.nested
          /\ b.nested <=> d.nested
      BY <2>1 DEF Same
    <3>2. Binary(t, a, b).meant = Binary(t, c, d).meant
      BY <3>1 DEF Binary
    <3>3. /\ Binary(t, a, b).left = Binary(t, c, d).left
          /\ Binary(t, a, b).right = Binary(t, c, d).right
      BY <3>1 DEF Binary
    <3>4. Binary(t, a, b).nested <=> Binary(t, c, d).nested
      BY <3>1 DEF Binary
    <3> QED
      BY <3>2, <3>3, <3>4 DEF Same
  <2> QED
    BY <2>1
<1>2. \A t, a, b : Same(a, b) => Same(Unary(t, a), Unary(t, b))
  BY DEF Same, Unary
<1>3. \A a, b : Same(a, b) => Same(Postfix(a), Postfix(b))
  BY DEF Same, Postfix
<1>4. \A a, b, c, d : Same(a, c) /\ Same(b, d) => Same(Map(a, b), Map(c, d))
  BY DEF Same, Map
<1>5. \A a, b, c, d, e, f :
        Same(a, d) /\ Same(b, e) /\ Same(c, f) => Same(Check(a, b, c), Check(d, e, f))
  BY DEF Same, Check
<1> QED
  BY <1>1, <1>2, <1>3, <1>4, <1>5

LEMMA OperandDistinct ==
  ASSUME NEW t \in Word
  PROVE  Distinct(Operand(t))
<1> SUFFICES ASSUME NEW g \in Composed(Junk), NEW u \in Text, NEW v \in Text,
                    Operand(t).meant ++ u = g.meant ++ v
             PROVE  Same(Operand(t), g)
  BY DEF Distinct
<1>1. t \in Junk /\ t \in Token /\ t # "(" /\ "(" \in Token /\ Junk \in SUBSET Token
      /\ \A z \in Junk : z \in Token
  BY WordIsJunk, Tokens DEF Junk
<1>2. <<t>> ++ u = g.meant ++ v
  BY Written
<1>3. ASSUME NEW z \in Junk, g = Operand(z) PROVE Same(Operand(t), g)
  <2>1. <<t>> ++ u = <<z>> ++ v
    BY <1>2, <1>3, Written
  <2>2. t = z
    BY <1>1, <2>1, FirstTokens
  <2> QED
    BY <1>3, <2>2 DEF Same
<1>4. ASSUME NEW w \in Text, g.meant = Meant(w) PROVE FALSE
  <2>1. <<")">> \in Text
    BY OneToken, Tokens
  <2>2. PICK q \in Text : q = w ++ (<<")">> ++ v)
    BY <2>1, Joined
  <2>3. <<t>> ++ u = <<"(">> ++ q
    BY <1>2, <1>4, <2>2, MeantFollowed
  <2> QED
    BY <1>1, <2>3, FirstTokens
<1> QED
  BY <1>1, <1>3, <1>4, MeantShape

LEMMA BinaryDistinct ==
  ASSUME NEW t \in BinaryOp, NEW a \in Composed(Word), Distinct(a),
         NEW b \in Composed(Word), Distinct(b)
  PROVE  Distinct(Binary(t, a, b))
<1> SUFFICES ASSUME NEW g \in Composed(Junk), NEW u \in Text, NEW v \in Text,
                    Binary(t, a, b).meant ++ u = g.meant ++ v
             PROVE  Same(Binary(t, a, b), g)
  BY DEF Distinct
<1>1. a \in Expr /\ b \in Expr /\ b.meant \in Text
  BY DEF Composed, Expr
<1>2. <<")">> \in Text /\ t \in Token
  BY OneToken, Tokens
<1>3. PICK x \in Text : x = b.meant ++ (<<")">> ++ u)
  BY <1>1, <1>2, Joined
<1>4. <<"(">> ++ (a.meant ++ (<<t>> ++ x)) = g.meant ++ v
  BY <1>1, <1>3, BinaryMeant
<1>5. MadeFrom(a, t, x, g, v)
  BY <1>2, <1>4, LeftOperand
<1>6. PICK c, d \in Composed(Junk) :
        Same(a, c) /\ g = Binary(t, c, d) /\ x = d.meant ++ (<<")">> ++ v)
  BY <1>5, Roles, Zenon DEF MadeFrom
<1>7. <<")">> ++ u \in Text /\ <<")">> ++ v \in Text
  BY <1>2, Joined
<1>8. Same(b, d)
  BY <1>1, <1>3, <1>6, <1>7, SameTail
<1> QED
  BY <1>6, <1>8, SameCalls, Zenon

LEMMA UnaryDistinct ==
  ASSUME NEW t \in UnaryOp, NEW a \in Composed(Word), Distinct(a)
  PROVE  Distinct(Unary(t, a))
<1> SUFFICES ASSUME NEW g \in Composed(Junk), NEW u \in Text, NEW v \in Text,
                    Unary(t, a).meant ++ u = g.meant ++ v
             PROVE  Same(Unary(t, a), g)
  BY DEF Distinct
<1> DEFINE J == Composed(Junk)
<1>1. /\ a \in Expr /\ J \subseteq Expr /\ Junk \in SUBSET Token
      /\ \A e \in J : e.meant \in Text
      /\ a.meant \in Text
  BY DEF Composed, Expr, Junk
<1>2. /\ <<")">> \in Text /\ t \in Token /\ "(" \in Token /\ "(" \notin Junk
      /\ \A z \in Token : <<z>> \in Text
      /\ \A z \in Junk : z \in Token
  BY OneToken, Tokens DEF Junk
<1>3. PICK x \in Text : x = a.meant ++ (<<")">> ++ u)
  BY <1>1, <1>2, Joined
<1>4. <<"(">> ++ (<<t>> ++ x) = g.meant ++ v
  BY <1>1, <1>3, UnaryMeant
<1>5. <<t>> ++ x \in Text
  BY <1>2, Joined
<1>6. ASSUME NEW z \in Junk, g = Operand(z) PROVE FALSE
  <2>1. <<"(">> ++ (<<t>> ++ x) = <<z>> ++ v
    BY <1>4, <1>6, Written
  <2> QED
    BY <1>2, <1>5, <2>1, FirstTokens
<1>7. ASSUME NEW z \in UnaryOp, NEW b \in J, g = Unary(z, b)
      PROVE  Same(Unary(t, a), g)
  <2>1. PICK w \in Text : w = b.meant ++ (<<")">> ++ v)
    BY <1>1, <1>2, Joined
  <2>2. z \in Token /\ <<z>> ++ w \in Text
    BY <1>2, <2>1, Tokens, Joined
  <2>3. <<"(">> ++ (<<t>> ++ x) = <<"(">> ++ (<<z>> ++ w)
    BY <1>1, <1>4, <1>7, <2>1, UnaryMeant
  <2>4. <<t>> ++ x = <<z>> ++ w
    BY <1>2, <1>5, <2>2, <2>3, FirstTokens
  <2>5. t = z /\ x = w
    BY <1>2, <2>2, <2>4, FirstTokens
  <2>6. <<")">> ++ u \in Text /\ <<")">> ++ v \in Text
    BY <1>2, Joined
  <2>7. Same(a, b)
    BY <1>1, <1>3, <2>1, <2>5, <2>6, SameTail
  <2> QED
    BY <1>7, <2>5, <2>7, SameCalls, Zenon
(* The other calls write an operand first, and no operand begins with t.   *)
<1>8. ASSUME NEW b \in J, NEW w \in Text, g.meant ++ v = <<"(">> ++ (b.meant ++ w)
      PROVE  FALSE
  <2>1. PICK f \in Token \ UnaryOp, q \in Text : b.meant = <<f>> ++ q
    BY MeantBegins
  <2>2. <<f>> \in Text
    BY <1>2
  <2>3. PICK p \in Text : p = q ++ w
    BY Joined
  <2>4. (<<f>> ++ q) ++ w = <<f>> ++ p
    BY <2>2, <2>3, Assoc
  <2>5. <<f>> ++ p \in Text
    BY <2>2, Joined
  <2>6. <<"(">> ++ (<<t>> ++ x) = <<"(">> ++ (<<f>> ++ p)
    BY <1>4, <1>8, <2>1, <2>4, Zenon
  <2>7. <<t>> ++ x = <<f>> ++ p
    BY <1>2, <1>5, <2>5, <2>6, FirstTokens
  <2>8. t = f
    BY <1>2, <2>7, FirstTokens
  <2> QED
    BY <2>8
<1>9. ASSUME NEW z \in BinaryOp, NEW b \in J, NEW c \in J, g = Binary(z, b, c) PROVE FALSE
  <2>1. PICK w \in Text : w = <<z>> ++ (c.meant ++ (<<")">> ++ v))
    BY <1>1, <1>2, Joined, Tokens
  <2> QED
    BY <1>1, <1>8, <1>9, <2>1, BinaryMeant
<1>10. ASSUME NEW b \in J, g = Postfix(b) PROVE FALSE
  <2>1. PICK w \in Text : w = <<Method>> ++ (<<")">> ++ v)
    BY <1>1, <1>2, Joined, Tokens
  <2> QED
    BY <1>1, <1>8, <1>10, <2>1, PostfixMeant
<1>11. ASSUME NEW b \in J, NEW c \in J, g = Map(b, c) PROVE FALSE
  <2>1. PICK w \in Text : w = <<WithLambda>> ++ (c.meant ++ (<<")">> ++ (<<")">> ++ v)))
    BY <1>1, <1>2, Joined, Tokens
  <2> QED
    BY <1>1, <1>8, <1>11, <2>1, MapMeant
<1>12. ASSUME NEW b \in J, NEW c \in J, NEW d \in J, g = Check(b, c, d) PROVE FALSE
  <2>1. PICK w \in Text :
          w = <<"?">> ++ (c.meant ++ (<<":">> ++ (d.meant ++ (<<")">> ++ v))))
    BY <1>1, <1>2, Joined, Tokens
  <2> QED
    BY <1>1, <1>8, <1>12, <2>1, CheckMeant
<1>13. Formed(g, Junk)
  BY <1>1, ComposedFormed
<1> QED
  BY <1>6, <1>7, <1>9, <1>10, <1>11, <1>12, <1>13, Zenon DEF Formed

LEMMA PostfixDistinct ==
  ASSUME NEW a \in Composed(Word), Distinct(a)
  PROVE  Distinct(Postfix(a))
<1> SUFFICES ASSUME NEW g \in Composed(Junk), NEW u \in Text, NEW v \in Text,
                    Postfix(a).meant ++ u = g.meant ++ v
             PROVE  Same(Postfix(a), g)
  BY DEF Distinct
<1>1. a \in Expr
  BY DEF Composed
<1>2. <<")">> \in Text /\ Method \in Token
  BY OneToken, Tokens
<1>3. PICK x \in Text : x = <<")">> ++ u
  BY <1>2, Joined
<1>4. <<"(">> ++ (a.meant ++ (<<Method>> ++ x)) = g.meant ++ v
  BY <1>1, <1>3, PostfixMeant
<1>5. MadeFrom(a, Method, x, g, v)
  BY <1>2, <1>4, LeftOperand
<1>6. PICK c \in Composed(Junk) : Same(a, c) /\ g = Postfix(c)
  BY <1>5, Roles, Zenon DEF MadeFrom
<1> QED
  BY <1>6, SameCalls, Zenon

LEMMA MapDistinct ==
  ASSUME NEW a \in Composed(Word), Distinct(a), NEW b \in Composed(Word), Distinct(b)
  PROVE  Distinct(Map(a, b))
<1> SUFFICES ASSUME NEW g \in Composed(Junk), NEW u \in Text, NEW v \in Text,
                    Map(a, b).meant ++ u = g.meant ++ v
             PROVE  Same(Map(a, b), g)
  BY DEF Distinct
<1>1. a \in Expr /\ b \in Expr /\ b.meant \in Text
  BY DEF Composed, Expr
<1>2. <<")">> \in Text /\ WithLambda \in Token
  BY OneToken, Tokens
<1>3. PICK x \in Text : x = b.meant ++ (<<")">> ++ (<<")">> ++ u))
  BY <1>1, <1>2, Joined
<1>4. <<"(">> ++ (a.meant ++ (<<WithLambda>> ++ x)) = g.meant ++ v
  BY <1>1, <1>3, MapMeant
<1>5. MadeFrom(a, WithLambda, x, g, v)
  BY <1>2, <1>4, LeftOperand
<1>6. PICK c, d \in Composed(Junk) :
        Same(a, c) /\ g = Map(c, d) /\ x = d.meant ++ (<<")">> ++ (<<")">> ++ v))
  BY <1>5, Roles, Zenon DEF MadeFrom
<1>7. <<")">> ++ (<<")">> ++ u) \in Text /\ <<")">> ++ (<<")">> ++ v) \in Text
  BY <1>2, Joined
<1>8. Same(b, d)
  BY <1>1, <1>3, <1>6, <1>7, SameTail
<1> QED
  BY <1>6, <1>8, SameCalls, Zenon

LEMMA CheckDistinct ==
  ASSUME NEW a \in Composed(Word), Distinct(a), NEW b \in Composed(Word), Distinct(b),
         NEW c \in Composed(Word), Distinct(c)
  PROVE  Distinct(Check(a, b, c))
<1> SUFFICES ASSUME NEW g \in Composed(Junk), NEW u \in Text, NEW v \in Text,
                    Check(a, b, c).meant ++ u = g.meant ++ v
             PROVE  Same(Check(a, b, c), g)
  BY DEF Distinct
<1>1. /\ a \in Expr /\ b \in Expr /\ c \in Expr /\ c.meant \in Text /\ b.meant \in Text
      /\ \A e \in Composed(Junk) : e.meant \in Text
  BY DEF Composed, Expr
<1>2. <<")">> \in Text /\ "?" \in Token /\ ":" \in Token /\ <<":">> \in Text
  BY OneToken, Tokens
<1>3. PICK y \in Text : y = c.meant ++ (<<")">> ++ u)
  BY <1>1, <1>2, Joined
<1>4. PICK x \in Text : x = b.meant ++ (<<":">> ++ y)
  BY <1>1, <1>2, Joined
<1>5. <<"(">> ++ (a.meant ++ (<<"?">> ++ x)) = g.meant ++ v
  BY <1>1, <1>3, <1>4, CheckMeant
<1>6. MadeFrom(a, "?", x, g, v)
  BY <1>2, <1>5, LeftOperand
<1>7. PICK d, e, f \in Composed(Junk) :
        /\ Same(a, d) /\ g = Check(d, e, f)
        /\ x = e.meant ++ (<<":">> ++ (f.meant ++ (<<")">> ++ v)))
  BY <1>6, Roles, Zenon DEF MadeFrom
<1>8. PICK z \in Text : z = f.meant ++ (<<")">> ++ v)
  BY <1>1, <1>2, Joined
<1>9. <<":">> ++ y \in Text /\ <<":">> ++ z \in Text
  BY <1>2, Joined
<1>10. Same(b, e) /\ <<":">> ++ y = <<":">> ++ z
  BY <1>1, <1>4, <1>7, <1>8, <1>9, SameTail
<1>11. y = z
  BY <1>2, <1>10, Cancel
<1>12. <<")">> ++ u \in Text /\ <<")">> ++ v \in Text
  BY <1>2, Joined
<1>13. Same(c, f)
  BY <1>1, <1>3, <1>8, <1>11, <1>12, SameTail
<1> QED
  BY <1>7, <1>10, <1>13, SameCalls, Zenon

(* What is meant by an expression is meant by no other kind of expression. *)
LEMMA AllDistinct ==
  ASSUME NEW e \in Composed(Word)
  PROVE  Distinct(e)
<1> DEFINE C == Composed(Word)
           S == {x \in C : Distinct(x)}
<1>1. Word \in SUBSET Token /\ C \subseteq Expr
  BY Tokens DEF Composed
<1>2. Closed(C, Word)
  BY <1>1, ComposedClosed
<1> HIDE DEF C
<1>3. \A x \in S : x \in C /\ Distinct(x)
  OBVIOUS
<1>4. \A x \in C : Distinct(x) => x \in S
  OBVIOUS
<1> HIDE DEF S
<1>5. \A t \in Word : Operand(t) \in S
  BY <1>2, <1>4, OperandDistinct DEF Closed
<1>6. \A t \in BinaryOp, a, b \in S : Binary(t, a, b) \in S
  BY <1>2, <1>3, <1>4, BinaryDistinct DEF Closed, C
<1>7. \A t \in UnaryOp, a \in S : Unary(t, a) \in S
  BY <1>2, <1>3, <1>4, UnaryDistinct DEF Closed, C
<1>8. \A a \in S : Postfix(a) \in S
  BY <1>2, <1>3, <1>4, PostfixDistinct DEF Closed, C
<1>9. \A a, b \in S : Map(a, b) \in S
  BY <1>2, <1>3, <1>4, MapDistinct DEF Closed, C
<1>10. \A a, b, c \in S : Check(a, b, c) \in S
  BY <1>2, <1>3, <1>4, CheckDistinct DEF Closed, C
<1>11. Closed(S, Word)
  BY <1>5, <1>6, <1>7, <1>8, <1>9, <1>10, Zenon DEF Closed
<1>12. S \in SUBSET Expr
  BY <1>1, <1>3
<1>13. C \subseteq S
  BY <1>11, <1>12, ComposedInduction DEF C
<1> QED
  BY <1>3, <1>13 DEF C

----------------------------------------------------------------------------
(* Induction over numbers.                                                 *)

(* A set of numbers that is not empty has a least one.                     *)
LEMMA LeastNumber ==
  ASSUME NEW T \in SUBSET Nat, T # {}
  PROVE  \E m \in T : \A n \in T : m <= n
<1> DEFINE R == OpToRel(<, Nat)
<1>1. IsWellFoundedOn(R, Nat)
  BY NatLessThanWellFounded
<1>2. \A x, y \in Nat : x < y => <<x, y>> \in R
  BY DEF OpToRel
<1> HIDE DEF R
<1>3. PICK x \in T : \A y \in T : ~(<<y, x>> \in R)
  BY <1>1, WFMin
<1>4. ASSUME NEW y \in T, y < x PROVE FALSE
  BY <1>2, <1>3, <1>4, Zenon
<1> QED
  BY <1>4

LEMMA SetInduction ==
  ASSUME NEW S, 0 \in S, \A n \in Nat : n \in S => n + 1 \in S
  PROVE  Nat \subseteq S
<1> DEFINE T == Nat \ S
<1> SUFFICES ASSUME T # {} PROVE FALSE
  OBVIOUS
<1>1. PICK m \in T : \A n \in T : m <= n
  BY LeastNumber
<1>2. m # 0 /\ m - 1 \in Nat
  BY <1>1
<1>3. m - 1 \in S
  BY <1>1, <1>2
<1> QED
  BY <1>1, <1>2, <1>3

----------------------------------------------------------------------------
(* The reader is a function on all places of every text.                   *)

LEMMA Places ==
  /\ \A d \in Text, i \in Nat, p \in 0 .. Tightest : At(d, i, p) \in Place
  /\ \A r \in Place : /\ r = At(r.done, r.next, r.least)
                      /\ r.done \in Text /\ r.next \in Nat /\ r.least \in 0 .. Tightest
  /\ \A d, i, p : At(d, i, p).done = d /\ At(d, i, p).next = i /\ At(d, i, p).least = p
BY DEF At, Place, Text

LEMMA OperatorsReach ==
  /\ \A t \in BinaryOp : RightPrecedence(t) \in 0 .. Tightest
  /\ \A t \in UnaryOp : UnaryPrecedence[t] \in 0 .. Tightest
<1>1. ASSUME NEW t \in BinaryOp PROVE RightPrecedence(t) \in 0 .. Tightest
  <2>1. RightPrecedence(t) \in 1 .. Tightest
    BY RightOperands
  <2> QED
    BY <2>1 DEF Tightest
<1>2. ASSUME NEW t \in UnaryOp PROVE UnaryPrecedence[t] \in 0 .. Tightest
  <2>1. UnaryPrecedence[t] \in 1 .. Tightest
    BY UnaryOperands
  <2> QED
    BY <2>1 DEF Tightest
<1> QED
  BY <1>1, <1>2

(* What is read at r is what is read at q.                                 *)
GoesOn(f, s, r, q) == Reading(f, s, r) = f[q]

(* What is read where an operand comes next.                               *)
LEMMA ReadsUnary ==
  ASSUME NEW f, NEW s, NEW i, NEW p, NEW t, t = TokenAt(s, i), t \in UnaryOp
  PROVE  \A e, x : /\ e = f[At(<< >>, i + 1, UnaryPrecedence[t])]
                   /\ x = Meant(<<t>> ++ e.text)
                   => GoesOn(f, s, At(<< >>, i, p), At(x, e.next, p))
<1>1. /\ At(<< >>, i, p).done = << >> /\ At(<< >>, i, p).next = i
      /\ At(<< >>, i, p).least = p
  BY Places
<1>2. Reading(f, s, At(<< >>, i, p)) =
        LET e == f[At(<< >>, i + 1, UnaryPrecedence[t])]
        IN  f[At(Meant(<<t>> ++ e.text), e.next, p)]
  BY <1>1, Zenon DEF Reading, ++
<1> QED
  BY <1>2, Zenon DEF GoesOn

LEMMA ReadsWord ==
  ASSUME NEW f, NEW s, NEW i, NEW p, NEW t, t = TokenAt(s, i), t \notin UnaryOp
  PROVE  GoesOn(f, s, At(<< >>, i, p), At(<<t>>, i + 1, p))
<1>1. /\ At(<< >>, i, p).done = << >> /\ At(<< >>, i, p).next = i
      /\ At(<< >>, i, p).least = p
  BY Places
<1> QED
  BY <1>1, Zenon DEF Reading, GoesOn

(* What is read where an operator can come next.                           *)
LEMMA ReadsMethod ==
  ASSUME NEW f, NEW s, NEW d, d # << >>, NEW i, NEW p, NEW t, t = TokenAt(s, i),
         t = Method
  PROVE  \A x : x = Meant(d ++ <<t>>) => GoesOn(f, s, At(d, i, p), At(x, i + 1, p))
<1>1. At(d, i, p).done = d /\ At(d, i, p).next = i /\ At(d, i, p).least = p
  BY Places
<1>2. t \notin BinaryOp /\ t # WithLambda /\ t # "?"
  BY Roles
<1>3. Reading(f, s, At(d, i, p)) = f[At(Meant(d ++ <<t>>), i + 1, p)]
  BY <1>1, <1>2, Zenon DEF Reading, ++
<1> QED
  BY <1>3, Zenon DEF GoesOn

LEMMA ReadsLambda ==
  ASSUME NEW f, NEW s, NEW d, d # << >>, NEW i, NEW p, NEW t, t = TokenAt(s, i),
         t = WithLambda
  PROVE  \A e, x : /\ e = f[At(<< >>, i + 1, 0)]
                   /\ x = Meant(d ++ <<t>> ++ e.text ++ <<")">>)
                   => GoesOn(f, s, At(d, i, p), At(x, e.next + 1, p))
<1>1. At(d, i, p).done = d /\ At(d, i, p).next = i /\ At(d, i, p).least = p
  BY Places
<1>2. t \notin BinaryOp /\ t # Method /\ t # "?"
  BY Roles
<1>3. Reading(f, s, At(d, i, p)) =
        LET e == f[At(<< >>, i + 1, 0)]
        IN  f[At(Meant(d ++ <<t>> ++ e.text ++ <<")">>), e.next + 1, p)]
  BY <1>1, <1>2, Zenon DEF Reading, ++
<1> QED
  BY <1>3, Zenon DEF GoesOn

LEMMA ReadsBinary ==
  ASSUME NEW f, NEW s, NEW d, d # << >>, NEW i, NEW p, NEW t, t = TokenAt(s, i),
         t \in BinaryOp, BinaryPrecedence[t] >= p
  PROVE  \A e, x : /\ e = f[At(<< >>, i + 1, RightPrecedence(t))]
                   /\ x = Meant(d ++ <<t>> ++ e.text)
                   => GoesOn(f, s, At(d, i, p), At(x, e.next, p))
<1>1. At(d, i, p).done = d /\ At(d, i, p).next = i /\ At(d, i, p).least = p
  BY Places
<1>2. t # Method /\ t # WithLambda /\ t # "?"
  BY Roles
<1>3. Reading(f, s, At(d, i, p)) =
        LET e == f[At(<< >>, i + 1, RightPrecedence(t))]
        IN  f[At(Meant(d ++ <<t>> ++ e.text), e.next, p)]
  BY <1>1, <1>2, Zenon DEF Reading, ++
<1> QED
  BY <1>3, Zenon DEF GoesOn

LEMMA ReadsChoice ==
  ASSUME NEW f, NEW s, NEW d, d # << >>, NEW i, NEW t, t = TokenAt(s, i), t = "?"
  PROVE  \A y, n, x : /\ y = f[At(<< >>, i + 1, 0)]
                      /\ n = f[At(<< >>, y.next + 1, 0)]
                      /\ x = Meant(d ++ <<t>> ++ y.text ++ <<":">> ++ n.text)
                      => GoesOn(f, s, At(d, i, 0), At(x, n.next, 0))
<1>1. At(d, i, 0).done = d /\ At(d, i, 0).next = i /\ At(d, i, 0).least = 0
  BY Places
<1>2. t \notin BinaryOp /\ t # Method /\ t # WithLambda
  BY Roles
<1>3. Reading(f, s, At(d, i, 0)) =
        LET y == f[At(<< >>, i + 1, 0)]
            n == f[At(<< >>, y.next + 1, 0)]
        IN  f[At(Meant(d ++ <<t>> ++ y.text ++ <<":">> ++ n.text), n.next, 0)]
  BY <1>1, <1>2, Zenon DEF Reading, ++
<1> QED
  BY <1>3, Zenon DEF GoesOn

(* What is read ends with d.                                               *)
Ends(f, s, d, i, p) == Reading(f, s, At(d, i, p)) = [text |-> d, next |-> i]

LEMMA ReadsNoMore ==
  ASSUME NEW f, NEW s, NEW d, d # << >>, NEW i, NEW p, NEW t, t = TokenAt(s, i),
         t \notin {Method, WithLambda}, ~(t \in BinaryOp /\ BinaryPrecedence[t] >= p),
         ~(t = "?" /\ p = 0)
  PROVE  Ends(f, s, d, i, p)
<1>1. At(d, i, p).done = d /\ At(d, i, p).next = i /\ At(d, i, p).least = p
  BY Places
<1> QED
  BY <1>1, Zenon DEF Reading, Ends

(* A reader that reads on: what is left begins no earlier than the place.  *)
Result == [text : Text, next : Nat]
Onward(f) == f \in [Place -> Result] /\ \A r \in Place : f[r].next >= r.next

LEMMA TokenAtType ==
  ASSUME NEW s \in Text, NEW i \in Nat
  PROVE  TokenAt(s, i) \in Token
BY Tokens DEF TokenAt, Text

(* A reading depends on what is read at later places alone.                *)
LEMMA ReadingIsLocal ==
  ASSUME NEW s \in Text, NEW f, Onward(f), NEW g, NEW r \in Place,
         \A q \in Place : q.next > r.next => f[q] = g[q]
  PROVE  /\ Reading(f, s, r) = Reading(g, s, r)
         /\ Reading(f, s, r) \in Result
         /\ Reading(f, s, r).next >= r.next
<1>1. PICK d \in Text, i \in Nat, p \in 0 .. Tightest :
        r = At(d, i, p) /\ d = r.done /\ i = r.next
  BY Places
<1>2. PICK t \in Token : t = TokenAt(s, i)
  BY TokenAtType
<1>3. ASSUME NEW x \in Text, NEW j \in Nat, NEW m \in 0 .. Tightest, j > i
      PROVE  /\ f[At(x, j, m)] = g[At(x, j, m)] /\ f[At(x, j, m)] \in Result
             /\ f[At(x, j, m)].text \in Text
             /\ f[At(x, j, m)].next \in Nat /\ f[At(x, j, m)].next >= j
  <2>1. At(x, j, m) \in Place /\ At(x, j, m).next = j
    BY Places
  <2>2. f[At(x, j, m)] = g[At(x, j, m)]
    BY <1>1, <1>3, <2>1
  <2>3. f[At(x, j, m)] \in Result /\ f[At(x, j, m)].next >= j
    BY <2>1 DEF Onward
  <2> QED
    BY <2>2, <2>3 DEF Result
<1>4. ASSUME NEW x \in Text, NEW j \in Nat, j > i,
             GoesOn(f, s, r, At(x, j, p)), GoesOn(g, s, r, At(x, j, p))
      PROVE  /\ Reading(f, s, r) = Reading(g, s, r)
             /\ Reading(f, s, r) \in Result
             /\ Reading(f, s, r).next >= r.next
  <2>1. Reading(f, s, r) = f[At(x, j, p)] /\ Reading(g, s, r) = g[At(x, j, p)]
    BY <1>4 DEF GoesOn
  <2> QED
    BY <1>1, <1>3, <1>4, <2>1
<1>5. /\ << >> \in Text /\ <<t>> \in Text /\ <<")">> \in Text /\ <<":">> \in Text
      /\ 0 \in 0 .. Tightest /\ i + 1 \in Nat /\ i + 1 > i
  BY OneToken, Tokens, NothingMore DEF Tightest
<1>6. CASE d = << >> /\ t \in UnaryOp
  <2>1. UnaryPrecedence[t] \in 0 .. Tightest
    BY <1>6, OperatorsReach
  <2>2. PICK e : e = f[At(<< >>, i + 1, UnaryPrecedence[t])]
    OBVIOUS
  <2>3. e = g[At(<< >>, i + 1, UnaryPrecedence[t])] /\ e.text \in Text
        /\ e.next \in Nat /\ e.next >= i + 1
    BY <1>3, <1>5, <2>1, <2>2
  <2>4. PICK x \in Text : x = Meant(<<t>> ++ e.text)
    BY <1>5, <2>3, Joined, MeantIsText
  <2>5. r = At(<< >>, i, p)
    BY <1>1, <1>6, Zenon
  <2>6. GoesOn(f, s, r, At(x, e.next, p)) /\ GoesOn(g, s, r, At(x, e.next, p))
    BY <1>2, <1>6, <2>2, <2>3, <2>4, <2>5, ReadsUnary
  <2>7. e.next > i
    BY <2>3
  <2> QED
    BY <1>4, <2>3, <2>6, <2>7
<1>7. CASE d = << >> /\ t \notin UnaryOp
  <2>1. r = At(<< >>, i, p)
    BY <1>1, <1>7, Zenon
  <2>2. GoesOn(f, s, r, At(<<t>>, i + 1, p)) /\ GoesOn(g, s, r, At(<<t>>, i + 1, p))
    BY <1>2, <1>7, <2>1, ReadsWord
  <2> QED
    BY <1>4, <1>5, <2>2
<1>8. CASE d # << >> /\ t = Method
  <2>1. PICK x \in Text : x = Meant(d ++ <<t>>)
    BY <1>5, Joined, MeantIsText
  <2>2. GoesOn(f, s, r, At(x, i + 1, p)) /\ GoesOn(g, s, r, At(x, i + 1, p))
    BY <1>1, <1>2, <1>8, <2>1, ReadsMethod
  <2> QED
    BY <1>4, <1>5, <2>2
<1>9. CASE d # << >> /\ t = WithLambda
  <2>1. PICK e : e = f[At(<< >>, i + 1, 0)]
    OBVIOUS
  <2>2. e = g[At(<< >>, i + 1, 0)] /\ e.text \in Text /\ e.next \in Nat /\ e.next >= i + 1
    BY <1>3, <1>5, <2>1
  <2>3. PICK x \in Text : x = Meant(d ++ <<t>> ++ e.text ++ <<")">>)
    BY <1>5, <2>2, Joined, MeantIsText
  <2>4. /\ GoesOn(f, s, r, At(x, e.next + 1, p))
        /\ GoesOn(g, s, r, At(x, e.next + 1, p))
    BY <1>1, <1>2, <1>9, <2>1, <2>2, <2>3, ReadsLambda
  <2>5. e.next + 1 \in Nat /\ e.next + 1 > i
    BY <2>2
  <2> QED
    BY <1>4, <2>4, <2>5
<1>10. CASE d # << >> /\ t \in BinaryOp /\ BinaryPrecedence[t] >= p
  <2>1. RightPrecedence(t) \in 0 .. Tightest
    BY <1>10, OperatorsReach
  <2>2. PICK e : e = f[At(<< >>, i + 1, RightPrecedence(t))]
    OBVIOUS
  <2>3. e = g[At(<< >>, i + 1, RightPrecedence(t))] /\ e.text \in Text
        /\ e.next \in Nat /\ e.next >= i + 1
    BY <1>3, <1>5, <2>1, <2>2
  <2>4. PICK x \in Text : x = Meant(d ++ <<t>> ++ e.text)
    BY <1>5, <2>3, Joined, MeantIsText
  <2>5. GoesOn(f, s, r, At(x, e.next, p)) /\ GoesOn(g, s, r, At(x, e.next, p))
    BY <1>1, <1>2, <1>10, <2>2, <2>3, <2>4, ReadsBinary
  <2>6. e.next > i
    BY <2>3
  <2> QED
    BY <1>4, <2>3, <2>5, <2>6
<1>11. CASE d # << >> /\ t = "?" /\ p = 0
  <2>1. PICK y : y = f[At(<< >>, i + 1, 0)]
    OBVIOUS
  <2>2. y = g[At(<< >>, i + 1, 0)] /\ y.text \in Text /\ y.next \in Nat /\ y.next >= i + 1
    BY <1>3, <1>5, <2>1
  <2>3. PICK n : n = f[At(<< >>, y.next + 1, 0)]
    OBVIOUS
  <2>4. y.next + 1 \in Nat /\ y.next + 1 > i
    BY <2>2
  <2>5. /\ n = g[At(<< >>, y.next + 1, 0)] /\ n.text \in Text
        /\ n.next \in Nat /\ n.next >= y.next + 1
    BY <1>3, <1>5, <2>3, <2>4
  <2>6. PICK x \in Text : x = Meant(d ++ <<t>> ++ y.text ++ <<":">> ++ n.text)
    BY <1>5, <2>2, <2>5, Joined, MeantIsText
  <2>7. r = At(d, i, 0)
    BY <1>1, <1>11
  <2>8. /\ GoesOn(f, s, r, At(x, n.next, 0))
        /\ GoesOn(g, s, r, At(x, n.next, 0))
    BY <1>2, <1>11, <2>1, <2>2, <2>3, <2>5, <2>6, <2>7, ReadsChoice
  <2>9. n.next > i
    BY <2>4, <2>5
  <2> QED
    BY <1>4, <1>11, <2>5, <2>8, <2>9
<1>12. CASE /\ d # << >> /\ t \notin {Method, WithLambda}
            /\ ~(t \in BinaryOp /\ BinaryPrecedence[t] >= p)
            /\ ~(t = "?" /\ p = 0)
  <2>1. Ends(f, s, d, i, p) /\ Ends(g, s, d, i, p)
    BY <1>2, <1>12, ReadsNoMore
  <2>2. Reading(f, s, r) = Reading(g, s, r) /\ Reading(f, s, r) = [text |-> d, next |-> i]
    BY <1>1, <2>1, Zenon DEF Ends
  <2> QED
    BY <1>1, <2>2 DEF Result
<1> QED
  BY <1>6, <1>7, <1>8, <1>9, <1>10, <1>11, <1>12


(* Past the end of the text there is one more operand, the end.            *)
LEMMA ReadingPastTheEnd ==
  ASSUME NEW s \in Text, NEW f, NEW i \in Nat, i > Len(s), NEW p \in 0 .. Tightest
  PROVE  /\ GoesOn(f, s, At(<< >>, i, p), At(<<EndOfText>>, i + 1, p))
         /\ \A d \in Text : d # << >> => Ends(f, s, d, i, p)
<1>1. TokenAt(s, i) = EndOfText
  BY DEF TokenAt, Text
<1>2. /\ EndOfText \notin UnaryOp /\ EndOfText \notin BinaryOp /\ EndOfText # "?"
      /\ EndOfText \notin {Method, WithLambda}
  BY Roles
<1>3. GoesOn(f, s, At(<< >>, i, p), At(<<EndOfText>>, i + 1, p))
  BY <1>1, <1>2, ReadsWord
<1>4. ASSUME NEW d \in Text, d # << >> PROVE Ends(f, s, d, i, p)
  BY <1>1, <1>2, <1>4, ReadsNoMore
<1> QED
  BY <1>3, <1>4

(* f is what is read at the last places, those less than n tokens before   *)
(* the end.                                                                *)
Solves(f, s, n) ==
  Onward(f) /\ \A r \in Place : r.next + n > Len(s) => f[r] = Reading(f, s, r)

LEMMA SolvedAtTheEnd ==
  ASSUME NEW s \in Text
  PROVE  \E f : Solves(f, s, 0)
<1> DEFINE f == [r \in Place |-> IF r.done = << >>
                                 THEN [text |-> <<EndOfText>>, next |-> r.next + 1]
                                 ELSE [text |-> r.done, next |-> r.next]]
<1>1. <<EndOfText>> \in Text /\ <<EndOfText>> # << >>
  BY OneToken, Tokens
<1>2. \A d \in Text, i \in Nat, p \in 0 .. Tightest :
        f[At(d, i, p)] = IF d = << >> THEN [text |-> <<EndOfText>>, next |-> i + 1]
                                      ELSE [text |-> d, next |-> i]
  BY Places
<1>3. Onward(f)
  <2>1. ASSUME NEW r \in Place PROVE f[r] \in Result /\ f[r].next >= r.next
    BY <1>1, Places DEF Result
  <2> QED
    BY <2>1 DEF Onward
<1> HIDE DEF f
<1>4. ASSUME NEW r \in Place, r.next + 0 > Len(s)
      PROVE  f[r] = Reading(f, s, r)
  <2>1. PICK d \in Text, i \in Nat, p \in 0 .. Tightest : r = At(d, i, p) /\ i = r.next
    BY Places
  <2>2. i > Len(s)
    BY <1>4, <2>1 DEF Text
  <2>3. CASE d = << >>
    <3>1. GoesOn(f, s, At(<< >>, i, p), At(<<EndOfText>>, i + 1, p))
      BY <2>2, ReadingPastTheEnd
    <3>2. Reading(f, s, r) = f[At(<<EndOfText>>, i + 1, p)]
      BY <2>1, <2>3, <3>1, Zenon DEF GoesOn
    <3>3. f[At(<<EndOfText>>, i + 1, p)] = [text |-> <<EndOfText>>, next |-> i + 1]
      <4>1. PICK x \in Text : x = <<EndOfText>> /\ x # << >>
        BY <1>1
      <4>2. i + 1 \in Nat
        OBVIOUS
      <4>3. f[At(x, i + 1, p)] = [text |-> x, next |-> i + 1]
        BY <1>2, <4>1, <4>2, Zenon
      <4> QED
        BY <4>1, <4>3
    <3>4. f[r] = [text |-> <<EndOfText>>, next |-> i + 1]
      BY <1>2, <2>1, <2>3
    <3> QED
      BY <3>2, <3>3, <3>4
  <2>4. CASE d # << >>
    <3>1. Ends(f, s, d, i, p)
      BY <2>2, <2>4, ReadingPastTheEnd
    <3>2. f[r] = [text |-> d, next |-> i]
      BY <1>2, <2>1, <2>4
    <3> QED
      BY <2>1, <3>1, <3>2, Zenon DEF Ends
  <2> QED
    BY <2>3, <2>4
<1> QED
  BY <1>3, <1>4, Zenon DEF Solves

LEMMA SolvedEarlier ==
  ASSUME NEW s \in Text, NEW n \in Nat, NEW f, Solves(f, s, n)
  PROVE  \E g : Solves(g, s, n + 1)
<1> DEFINE g == [r \in Place |-> Reading(f, s, r)]
<1>1. \A r \in Place : g[r] = Reading(f, s, r)
  OBVIOUS
<1>2. ASSUME NEW r \in Place
      PROVE  Reading(f, s, r) \in Result /\ Reading(f, s, r).next >= r.next
  BY ReadingIsLocal DEF Solves
<1>3. Onward(g)
  BY <1>1, <1>2 DEF Onward
<1> HIDE DEF g
<1>4. ASSUME NEW r \in Place, r.next + (n + 1) > Len(s)
      PROVE  g[r] = Reading(g, s, r)
  <2>1. ASSUME NEW q \in Place, q.next > r.next PROVE f[q] = g[q]
    <3>1. q.next + n > Len(s)
      BY <1>4, <2>1, Places DEF Text
    <3> QED
      BY <1>1, <3>1 DEF Solves
  <2>2. Reading(f, s, r) = Reading(g, s, r)
    BY <2>1, ReadingIsLocal DEF Solves
  <2> QED
    BY <1>1, <2>2
<1> QED
  BY <1>3, <1>4, Zenon DEF Solves

LEMMA ReaderExists ==
  ASSUME NEW s \in Text
  PROVE  \E f : Onward(f) /\ f = [r \in Place |-> Reading(f, s, r)]
<1> DEFINE S == {n \in Nat : \E f : Solves(f, s, n)}
<1>1. 0 \in S
  BY SolvedAtTheEnd
<1>2. ASSUME NEW n \in Nat, n \in S PROVE n + 1 \in S
  <2>1. PICK f : Solves(f, s, n)
    BY <1>2
  <2>2. \E g : Solves(g, s, n + 1)
    BY <2>1, SolvedEarlier
  <2> QED
    BY <2>2
<1>3. Len(s) + 1 \in Nat
  BY DEF Text
<1>4. Len(s) + 1 \in S
  <2> HIDE DEF S
  <2> QED
    BY <1>1, <1>2, <1>3, SetInduction
<1>5. PICK f : Solves(f, s, Len(s) + 1)
  BY <1>4
<1>6. ASSUME NEW r \in Place PROVE f[r] = Reading(f, s, r)
  <2>1. r.next + (Len(s) + 1) > Len(s)
    BY Places DEF Text
  <2> QED
    BY <1>5, <2>1 DEF Solves
<1>7. Onward(f) /\ f \in [Place -> Result]
  BY <1>5 DEF Solves, Onward
<1>8. f = [r \in Place |-> Reading(f, s, r)]
  BY <1>6, <1>7
<1> QED
  BY <1>7, <1>8

(* To show something of all places of a text, show it of those past its    *)
(* end, and of a place when it is so of all later ones.                    *)
LEMMA FromTheEnd ==
  ASSUME NEW n \in Nat, NEW S,
         \A r \in Place : r.next > n => r \in S,
         \A r \in Place : (\A q \in Place : q.next > r.next => q \in S) => r \in S
  PROVE  Place \subseteq S
<1> DEFINE D == {k \in Nat : \A r \in Place : r.next + k > n => r \in S}
<1>1. 0 \in D
  <2>1. \A r \in Place : r.next + 0 > n => r.next > n
    BY Places
  <2> QED
    BY <2>1
<1>2. ASSUME NEW k \in Nat, k \in D PROVE k + 1 \in D
  <2>1. ASSUME NEW r \in Place, r.next + (k + 1) > n PROVE r \in S
    <3>1. \A q \in Place : q.next > r.next => q.next + k > n
      BY <2>1, Places
    <3> QED
      BY <1>2, <3>1
  <2> QED
    BY <2>1
<1>3. n + 1 \in D
  <2> HIDE DEF D
  <2> QED
    BY <1>1, <1>2, SetInduction
<1>4. \A r \in Place : r.next + (n + 1) > n
  BY Places
<1> QED
  BY <1>3, <1>4

(* Whatever reads every place is what reads on.                            *)
LEMMA ReaderReads ==
  ASSUME NEW s \in Text
  PROVE  /\ Onward(Reader(s))
         /\ \A r \in Place : Reader(s)[r] = Reading(Reader(s), s, r)
<1>1. PICK f : Onward(f) /\ f = [r \in Place |-> Reading(f, s, r)]
  BY ReaderExists
<1> DEFINE h == Reader(s)
<1>2. h = [r \in Place |-> Reading(h, s, r)]
  BY <1>1 DEF Reader
<1> HIDE DEF h
<1>3. /\ \A r \in Place : h[r] = Reading(h, s, r)
      /\ \A r \in Place : f[r] = Reading(f, s, r)
  BY <1>1, <1>2
<1>4. \A d \in Text, i \in Nat, p \in 0 .. Tightest :
        d # << >> /\ i > Len(s) => f[At(d, i, p)] = h[At(d, i, p)]
  <2> SUFFICES ASSUME NEW d \in Text, NEW i \in Nat, NEW p \in 0 .. Tightest,
                      d # << >>, i > Len(s)
               PROVE  f[At(d, i, p)] = h[At(d, i, p)]
    OBVIOUS
  <2>1. Ends(f, s, d, i, p) /\ Ends(h, s, d, i, p)
    BY ReadingPastTheEnd
  <2>2. At(d, i, p) \in Place
    BY Places
  <2> QED
    BY <1>3, <2>1, <2>2 DEF Ends
<1>5. ASSUME NEW r \in Place, r.next > Len(s)
      PROVE  f[r] = h[r]
  <2>1. PICK d \in Text, i \in Nat, p \in 0 .. Tightest : r = At(d, i, p) /\ i = r.next
    BY Places
  <2>2. i > Len(s) /\ i + 1 > Len(s) /\ i + 1 \in Nat
    BY <1>5, <2>1 DEF Text
  <2>3. CASE d = << >>
    <3>1. /\ GoesOn(f, s, At(<< >>, i, p), At(<<EndOfText>>, i + 1, p))
          /\ GoesOn(h, s, At(<< >>, i, p), At(<<EndOfText>>, i + 1, p))
      BY <2>2, ReadingPastTheEnd
    <3>2. f[At(<<EndOfText>>, i + 1, p)] = h[At(<<EndOfText>>, i + 1, p)]
      BY <1>4, <2>2, OneToken, Tokens
    <3>3. r = At(<< >>, i, p)
      BY <2>1, <2>3, Zenon
    <3> QED
      BY <1>3, <3>1, <3>2, <3>3 DEF GoesOn
  <2>4. CASE d # << >>
    BY <1>4, <2>1, <2>2, <2>4
  <2> QED
    BY <2>3, <2>4
<1>6. ASSUME NEW r \in Place, \A q \in Place : q.next > r.next => f[q] = h[q]
      PROVE  f[r] = h[r]
  <2>1. Reading(f, s, r) = Reading(h, s, r)
    BY <1>1, <1>6, ReadingIsLocal
  <2> QED
    BY <1>3, <2>1
<1> DEFINE S == {r \in Place : f[r] = h[r]}
<1>7. Place \subseteq S
  <2>1. /\ \A r \in Place : r.next > Len(s) => r \in S
        /\ \A r \in Place : (\A q \in Place : q.next > r.next => q \in S) => r \in S
    BY <1>5, <1>6
  <2>2. Len(s) \in Nat
    BY DEF Text
  <2> HIDE DEF S
  <2> QED
    BY <2>1, <2>2, FromTheEnd
<1>8. \A r \in Place : f[r] = h[r]
  BY <1>7
<1>9. f = h
  BY <1>1, <1>2, <1>8
<1> QED
  BY <1>1, <1>3, <1>9 DEF h


----------------------------------------------------------------------------
(* Whatever is read binds its operands tighter than the operators that it  *)
(* gives them to.                                                          *)

(* g has been read up to the token i, over precedences from p on.          *)
Holds(s, g, i, p) == g.nested /\ g.left >= p /\ CanFollow(TokenAt(s, i), g.right)

(* What has been read before r is well read; what is read at r is, and no  *)
(* more can be read there.                                                 *)
Prepared(s, r) ==
  \/ r.done = << >>
  \/ \E g \in Composed(Junk) : r.done = g.meant /\ Holds(s, g, r.next, r.least)

WellRead(s, r) ==
  \E g \in Composed(Junk) :
    /\ Reader(s)[r].text = g.meant
    /\ Holds(s, g, Reader(s)[r].next, r.least)
    /\ StopsAt(TokenAt(s, Reader(s)[r].next), r.least)

LEMMA ReadPlace ==
  ASSUME NEW s \in Text, NEW d \in Text, NEW i \in Nat, NEW p \in 0 .. Tightest
  PROVE  /\ At(d, i, p) \in Place
         /\ Reader(s)[At(d, i, p)] = Reading(Reader(s), s, At(d, i, p))
         /\ Reader(s)[At(d, i, p)].text \in Text
         /\ Reader(s)[At(d, i, p)].next \in Nat
         /\ Reader(s)[At(d, i, p)].next >= i
<1>1. At(d, i, p) \in Place /\ At(d, i, p).next = i
  BY Places
<1>2. Reader(s)[At(d, i, p)] \in Result
  BY <1>1, ReaderReads DEF Onward
<1>3. Reader(s)[At(d, i, p)].next >= i
  BY <1>1, ReaderReads DEF Onward
<1> QED
  BY <1>1, <1>2, <1>3, ReaderReads DEF Result

LEMMA MeantNotEmpty ==
  ASSUME NEW g \in Composed(Junk)
  PROVE  g \in Expr /\ g.meant \in Text /\ g.meant # << >>
<1>1. g \in Expr /\ Junk \in SUBSET Token
  BY DEF Composed, Junk
<1>2. g.meant \in Text
  BY <1>1 DEF Expr
<1>3. g.meant # << >>
  BY <1>1, MeantShape, MeantIsText, OneToken, Written
<1> QED
  BY <1>1, <1>2, <1>3

(* Where more is read, what is read at the next place counts.              *)
LEMMA WellReadOn ==
  ASSUME NEW s \in Text, NEW d \in Text, NEW i \in Nat, NEW p \in 0 .. Tightest,
         NEW g \in Composed(Junk), NEW j \in Nat, j > i,
         GoesOn(Reader(s), s, At(d, i, p), At(g.meant, j, p)),
         Holds(s, g, j, p),
         \A q \in Place : q.next > i /\ Prepared(s, q) => WellRead(s, q)
  PROVE  WellRead(s, At(d, i, p))
<1>1. g.meant \in Text
  BY MeantNotEmpty
<1>2. PICK q \in Place : q = At(g.meant, j, p)
  BY <1>1, Places
<1>3. q.next = j /\ q.done = g.meant /\ q.least = p /\ At(d, i, p).least = p
  BY <1>2, Places
<1>4. WellRead(s, q)
  BY <1>3 DEF Prepared
<1>5. Reader(s)[At(d, i, p)] = Reader(s)[q]
  BY <1>2, ReadPlace, Zenon DEF GoesOn
<1> QED
  BY <1>3, <1>4, <1>5, Zenon DEF WellRead


(* What is read from i on, over precedences from p on.                     *)
LEMMA WellReadFrom ==
  ASSUME NEW s \in Text, NEW i \in Nat, NEW p \in 0 .. Tightest, NEW j \in Nat, j > i,
         \A q \in Place : q.next > i /\ Prepared(s, q) => WellRead(s, q)
  PROVE  \E g \in Composed(Junk), k \in Nat :
           /\ Reader(s)[At(<< >>, j, p)].text = g.meant
           /\ Reader(s)[At(<< >>, j, p)].next = k /\ k >= j
           /\ Holds(s, g, k, p) /\ StopsAt(TokenAt(s, k), p)
<1>1. << >> \in Text
  BY NothingMore
<1>2. PICK q \in Place : q = At(<< >>, j, p)
  BY <1>1, Places
<1>3. q.next = j /\ q.done = << >> /\ q.least = p
  BY <1>2, Places
<1>4. WellRead(s, q)
  BY <1>3 DEF Prepared
<1>5. PICK g \in Composed(Junk) :
        /\ Reader(s)[q].text = g.meant /\ Holds(s, g, Reader(s)[q].next, p)
        /\ StopsAt(TokenAt(s, Reader(s)[q].next), p)
  BY <1>3, <1>4 DEF WellRead
<1>6. PICK k \in Nat : k = Reader(s)[q].next /\ k >= j
  BY <1>1, <1>2, ReadPlace
<1> QED
  BY <1>2, <1>5, <1>6

(* An operand is read well.                                                *)
LEMMA OperandWellRead ==
  ASSUME NEW s \in Text, NEW i \in Nat, NEW p \in 0 .. Tightest, TokenAt(s, i) # "(",
         \A q \in Place : q.next > i /\ Prepared(s, q) => WellRead(s, q)
  PROVE  WellRead(s, At(<< >>, i, p))
<1>1. PICK t \in Token : t = TokenAt(s, i)
  BY TokenAtType
<1>2. << >> \in Text /\ i + 1 \in Nat /\ i + 1 > i
  BY NothingMore
<1>3. Closed(Composed(Junk), Junk)
  BY ComposedClosed DEF Junk
<1>4. CASE t \in UnaryOp
  <2>1. PICK u \in 0 .. Tightest : u = UnaryPrecedence[t]
    BY <1>4, OperatorsReach
  <2>2. PICK h \in Composed(Junk), k \in Nat :
          /\ Reader(s)[At(<< >>, i + 1, u)].text = h.meant
          /\ Reader(s)[At(<< >>, i + 1, u)].next = k /\ k >= i + 1
          /\ Holds(s, h, k, u) /\ StopsAt(TokenAt(s, k), u)
    BY <1>2, WellReadFrom
  <2>3. PICK g \in Composed(Junk) : g = Unary(t, h)
    BY <1>3, <1>4 DEF Closed
  <2>4. g.meant = Meant(<<t>> ++ h.meant)
    BY <2>3, Written
  <2>5. GoesOn(Reader(s), s, At(<< >>, i, p), At(g.meant, k, p))
    BY <1>1, <1>4, <2>1, <2>2, <2>4, ReadsUnary
  <2>6. h.right \in 0 .. Tightest /\ h.left \in 0 .. Tightest
    BY MeantNotEmpty DEF Expr
  <2>7. /\ g.nested <=> h.nested /\ h.left >= u
        /\ g.left = Tightest /\ g.right = Least(u, h.right)
    BY <2>1, <2>3 DEF Unary
  <2>8. CanFollow(TokenAt(s, k), u)
    BY <1>4, <2>1, <2>2, UnaryOperands
  <2>9. /\ h.nested /\ h.left >= u /\ CanFollow(TokenAt(s, k), h.right)
        /\ CanFollow(TokenAt(s, k), Least(u, h.right))
    <3>1. h.nested /\ h.left >= u /\ CanFollow(TokenAt(s, k), h.right)
      BY <2>2, Zenon DEF Holds
    <3> QED
      BY <2>6, <2>8, <3>1, FollowLeast, Zenon
  <2>10. Tightest >= p /\ k > i
    <3>1. k >= i + 1
      BY <2>2, Zenon
    <3> QED
      BY <3>1 DEF Tightest
  <2>11. Holds(s, g, k, p)
    BY <2>7, <2>9, <2>10 DEF Holds
  <2> QED
    BY <1>2, <2>5, <2>10, <2>11, WellReadOn
<1>5. CASE t \notin UnaryOp
  <2>1. t \in Junk
    BY <1>1, <1>5 DEF Junk
  <2>2. PICK g \in Composed(Junk) : g = Operand(t)
    BY <1>3, <2>1 DEF Closed
  <2>3. g.meant = <<t>> /\ g.nested /\ g.left = Tightest /\ g.right = Tightest
    BY <2>2 DEF Operand
  <2>4. GoesOn(Reader(s), s, At(<< >>, i, p), At(g.meant, i + 1, p))
    BY <1>1, <1>5, <2>3, ReadsWord
  <2>5. Holds(s, g, i + 1, p)
    BY <2>3, FollowAll DEF Holds, Tightest
  <2> QED
    BY <1>2, <2>4, <2>5, WellReadOn
<1> QED
  BY <1>4, <1>5

(* An operator is read well after an operand that holds.                   *)
LEMMA OperatorWellRead ==
  ASSUME NEW s \in Text, NEW i \in Nat, NEW p \in 0 .. Tightest,
         NEW a \in Composed(Junk), Holds(s, a, i, p),
         \A q \in Place : q.next > i /\ Prepared(s, q) => WellRead(s, q)
  PROVE  WellRead(s, At(a.meant, i, p))
<1>1. PICK t \in Token : t = TokenAt(s, i)
  BY TokenAtType
<1>2. i + 1 \in Nat /\ i + 1 > i /\ 0 \in 0 .. Tightest
  BY DEF Tightest
<1>3. Closed(Composed(Junk), Junk)
  BY ComposedClosed DEF Junk
<1>4. a.meant \in Text /\ a.meant # << >>
  BY MeantNotEmpty
<1>5. \A h \in Composed(Junk) : h.left \in 0 .. Tightest /\ h.right \in 0 .. Tightest
  BY MeantNotEmpty DEF Expr
<1>6. a.nested /\ a.left >= p /\ CanFollow(t, a.right)
  BY <1>1 DEF Holds
<1>7. CASE t = Method
  <2>1. PICK g \in Composed(Junk) : g = Postfix(a)
    BY <1>3 DEF Closed
  <2>2. g.meant = Meant(a.meant ++ <<t>>)
    BY <1>7, <2>1, Written
  <2>3. GoesOn(Reader(s), s, At(a.meant, i, p), At(g.meant, i + 1, p))
    BY <1>1, <1>4, <1>7, <2>2, ReadsMethod
  <2>4. a.right = Tightest
    BY <1>6, <1>7 DEF CanFollow
  <2>5. g.nested /\ g.left >= p /\ g.right = Tightest
    BY <1>6, <2>1, <2>4 DEF Postfix
  <2>6. Holds(s, g, i + 1, p)
    BY <2>5, FollowAll DEF Holds
  <2> QED
    BY <1>2, <1>4, <2>3, <2>6, WellReadOn
<1>8. CASE t = WithLambda
  <2>1. PICK h \in Composed(Junk), k \in Nat :
          /\ Reader(s)[At(<< >>, i + 1, 0)].text = h.meant
          /\ Reader(s)[At(<< >>, i + 1, 0)].next = k /\ k >= i + 1
          /\ Holds(s, h, k, 0) /\ StopsAt(TokenAt(s, k), 0)
    BY <1>2, WellReadFrom
  <2>2. PICK g \in Composed(Junk) : g = Map(a, h)
    BY <1>3 DEF Closed
  <2>3. g.meant = Meant(a.meant ++ <<t>> ++ h.meant ++ <<")">>)
    BY <1>8, <2>2, Written
  <2>4. GoesOn(Reader(s), s, At(a.meant, i, p), At(g.meant, k + 1, p))
    BY <1>1, <1>4, <1>8, <2>1, <2>3, ReadsLambda
  <2>5. a.right = Tightest
    BY <1>6, <1>8 DEF CanFollow
  <2>6. g.nested /\ g.left >= p /\ g.right = Tightest
    BY <1>6, <2>1, <2>2, <2>5 DEF Map, Holds
  <2>7. Holds(s, g, k + 1, p)
    BY <2>6, FollowAll DEF Holds
  <2>8. k + 1 \in Nat /\ k + 1 > i
    BY <2>1
  <2> QED
    BY <1>4, <2>4, <2>7, <2>8, WellReadOn
<1>9. CASE t \in BinaryOp /\ BinaryPrecedence[t] >= p
  <2>1. PICK u \in 0 .. Tightest : u = RightPrecedence(t)
    BY <1>9, OperatorsReach
  <2>2. PICK h \in Composed(Junk), k \in Nat :
          /\ Reader(s)[At(<< >>, i + 1, u)].text = h.meant
          /\ Reader(s)[At(<< >>, i + 1, u)].next = k /\ k >= i + 1
          /\ Holds(s, h, k, u) /\ StopsAt(TokenAt(s, k), u)
    BY <1>2, WellReadFrom
  <2>3. PICK g \in Composed(Junk) : g = Binary(t, a, h)
    BY <1>3, <1>9 DEF Closed
  <2>4. g.meant = Meant(a.meant ++ <<t>> ++ h.meant)
    BY <2>3, Written
  <2>5. GoesOn(Reader(s), s, At(a.meant, i, p), At(g.meant, k, p))
    BY <1>1, <1>4, <1>9, <2>1, <2>2, <2>4, ReadsBinary
  <2>6. PICK P \in 0 .. Tightest : P = BinaryPrecedence[t] /\ P >= p
    BY <1>9, Numbers DEF Tightest
  <2>7. CanFollow(TokenAt(s, k), P)
    BY <1>9, <2>1, <2>2, <2>6, RightOperands
  <2>8. g.left = Least(P, a.left) /\ g.right = Least(P, h.right)
    BY <2>3, <2>6 DEF Binary
  <2>9. CanFollow(TokenAt(s, k), g.right)
    <3>1. CanFollow(TokenAt(s, k), h.right)
      BY <2>2 DEF Holds
    <3>2. CanFollow(TokenAt(s, k), Least(P, h.right))
      BY <1>5, <2>6, <2>7, <3>1, FollowLeast, Zenon
    <3> QED
      BY <2>8, <3>2
  <2>10. g.left >= p
    <3>1. p <= P /\ p <= a.left
      BY <1>5, <1>6, <2>6
    <3>2. p <= Least(P, a.left) /\ Least(P, a.left) \in 0 .. Tightest
      BY <1>5, <2>6, <3>1, LeastOfTwo, Zenon
    <3> QED
      BY <2>8, <3>2 DEF Tightest
  <2>11. t \notin {Method, WithLambda, "?"}
    BY <1>9, Roles
  <2>12. IF t \in RightAssociative THEN a.right > P /\ h.left >= P
                                   ELSE a.right >= P /\ h.left > P
    <3>1. IF t \in RightAssociative THEN a.right > P ELSE a.right >= P
      BY <1>6, <1>9, <2>6 DEF CanFollow
    <3>2. IF t \in RightAssociative THEN h.left >= P ELSE h.left >= P + 1
      BY <2>1, <2>2, <2>6 DEF Holds, RightPrecedence
    <3>3. h.left \in Nat /\ P \in Nat
      BY <1>5 DEF Tightest
    <3> QED
      BY <3>1, <3>2, <3>3
  <2>13. g.nested
    BY <1>6, <2>2, <2>3, <2>6, <2>12 DEF Binary, Holds
  <2>14. Holds(s, g, k, p)
    BY <2>9, <2>10, <2>13 DEF Holds
  <2>15. k > i
    BY <2>2
  <2> QED
    BY <1>4, <2>5, <2>14, <2>15, WellReadOn
<1>10. CASE t = "?" /\ p = 0
  <2>1. PICK b \in Composed(Junk), j \in Nat :
          /\ Reader(s)[At(<< >>, i + 1, 0)].text = b.meant
          /\ Reader(s)[At(<< >>, i + 1, 0)].next = j /\ j >= i + 1
          /\ Holds(s, b, j, 0) /\ StopsAt(TokenAt(s, j), 0)
    BY <1>2, WellReadFrom
  <2>2. j + 1 \in Nat /\ j + 1 > i
    BY <2>1
  <2>3. PICK c \in Composed(Junk), k \in Nat :
          /\ Reader(s)[At(<< >>, j + 1, 0)].text = c.meant
          /\ Reader(s)[At(<< >>, j + 1, 0)].next = k /\ k >= j + 1
          /\ Holds(s, c, k, 0) /\ StopsAt(TokenAt(s, k), 0)
    BY <1>2, <2>2, WellReadFrom
  <2>4. PICK g \in Composed(Junk) : g = Check(a, b, c)
    BY <1>3 DEF Closed
  <2>5. g.meant = Meant(a.meant ++ <<t>> ++ b.meant ++ <<":">> ++ c.meant)
    BY <1>10, <2>4, Written
  <2>6. GoesOn(Reader(s), s, At(a.meant, i, 0), At(g.meant, k, 0))
    BY <1>1, <1>4, <1>10, <2>1, <2>3, <2>5, ReadsChoice
  <2>7. a.right > 0
    BY <1>6, <1>10 DEF CanFollow
  <2>8. g.nested /\ g.left = 0 /\ g.right = 0
    BY <1>6, <2>1, <2>3, <2>4, <2>7 DEF Check, Holds
  <2>9. CanFollow(TokenAt(s, k), 0)
    BY <2>3, WholeOperands
  <2>10. Holds(s, g, k, 0)
    BY <2>8, <2>9 DEF Holds
  <2>11. k > i
    BY <2>2, <2>3
  <2> QED
    BY <1>4, <1>10, <2>6, <2>10, <2>11, WellReadOn
<1>11. CASE /\ t \notin {Method, WithLambda} /\ ~(t = "?" /\ p = 0)
            /\ ~(t \in BinaryOp /\ BinaryPrecedence[t] >= p)
  <2>1. Ends(Reader(s), s, a.meant, i, p)
    BY <1>1, <1>4, <1>11, ReadsNoMore
  <2>2. PICK r : r = At(a.meant, i, p) /\ r.least = p
    BY Places
  <2>3. Reader(s)[r] = [text |-> a.meant, next |-> i]
    BY <1>4, <2>1, <2>2, ReadPlace, Zenon DEF Ends
  <2>4. StopsAt(t, p)
    BY <1>11, Numbers DEF StopsAt
  <2>5. Reader(s)[r].text = a.meant /\ Reader(s)[r].next = i
    BY <2>3
  <2>6. WellRead(s, r)
    BY <1>1, <2>2, <2>4, <2>5 DEF WellRead
  <2> QED
    BY <2>2, <2>6
<1> QED
  BY <1>7, <1>8, <1>9, <1>10, <1>11


(* So is what is left of a text when there is nothing left.                *)
LEMMA EndWellRead ==
  ASSUME NEW s \in Text, NEW r \in Place, r.next > Len(s), Prepared(s, r)
  PROVE  WellRead(s, r)
<1>1. PICK d \in Text, i \in Nat, p \in 0 .. Tightest :
        r = At(d, i, p) /\ i = r.next /\ d = r.done /\ p = r.least
  BY Places
<1>2. i > Len(s) /\ i + 1 > Len(s) /\ i + 1 \in Nat
  BY <1>1 DEF Text
<1>3. \A j \in Nat : j > Len(s) => TokenAt(s, j) = EndOfText
  BY DEF TokenAt, Text
<1>4. StopsAt(EndOfText, p) /\ \A c : CanFollow(EndOfText, c)
  BY Roles DEF StopsAt, CanFollow
<1>5. ASSUME NEW g \in Composed(Junk), NEW j \in Nat, j > Len(s),
             g.nested, g.left >= p, Reader(s)[r] = [text |-> g.meant, next |-> j]
      PROVE  WellRead(s, r)
  <2>1. Reader(s)[r].text = g.meant /\ Reader(s)[r].next = j
    BY <1>5
  <2>2. Holds(s, g, j, p) /\ StopsAt(TokenAt(s, j), p)
    BY <1>3, <1>4, <1>5 DEF Holds
  <2> QED
    BY <1>1, <2>1, <2>2 DEF WellRead
<1>6. CASE d = << >>
  <2>1. PICK g \in Composed(Junk) : g = Operand(EndOfText)
    BY ComposedClosed, Tokens, Roles DEF Closed, Junk
  <2>2. g.meant = <<EndOfText>> /\ g.nested /\ g.left >= p
    BY <2>1 DEF Operand, Tightest
  <2>3. g.meant \in Text /\ g.meant # << >>
    BY MeantNotEmpty
  <2>4. GoesOn(Reader(s), s, At(<< >>, i, p), At(g.meant, i + 1, p))
    BY <1>2, <2>2, ReadingPastTheEnd
  <2>5. Ends(Reader(s), s, g.meant, i + 1, p)
    BY <1>2, <2>3, ReadingPastTheEnd
  <2>6. Reader(s)[r] = Reader(s)[At(g.meant, i + 1, p)]
    BY <1>1, <1>6, <2>4, ReadPlace, Zenon DEF GoesOn
  <2>7. Reader(s)[r] = [text |-> g.meant, next |-> i + 1]
    BY <1>2, <2>3, <2>5, <2>6, ReadPlace, Zenon DEF Ends
  <2> QED
    BY <1>2, <1>5, <2>2, <2>7
<1>7. CASE d # << >>
  <2>1. PICK g \in Composed(Junk) : d = g.meant /\ Holds(s, g, i, p)
    BY <1>1, <1>7 DEF Prepared
  <2>2. Ends(Reader(s), s, d, i, p)
    BY <1>2, <1>7, ReadingPastTheEnd
  <2>3. Reader(s)[r] = [text |-> g.meant, next |-> i]
    BY <1>1, <2>1, <2>2, ReadPlace, Zenon DEF Ends
  <2> QED
    BY <1>2, <1>5, <2>1, <2>3 DEF Holds
<1> QED
  BY <1>6, <1>7

(* A text without parentheses before an operand is read well.              *)
LEMMA AllWellRead ==
  ASSUME NEW s \in Text, \A i \in Nat : TokenAt(s, i) # "(",
         NEW r \in Place, Prepared(s, r)
  PROVE  WellRead(s, r)
<1> DEFINE S == {q \in Place : Prepared(s, q) => WellRead(s, q)}
<1>1. \A q \in Place : q.next > Len(s) => q \in S
  BY EndWellRead
<1>2. ASSUME NEW q \in Place, \A z \in Place : z.next > q.next => z \in S
      PROVE  q \in S
  <2>1. PICK d \in Text, i \in Nat, p \in 0 .. Tightest :
          q = At(d, i, p) /\ i = q.next /\ d = q.done /\ p = q.least
    BY Places
  <2>2. \A z \in Place : z.next > i /\ Prepared(s, z) => WellRead(s, z)
    BY <1>2, <2>1
  <2>3. CASE d = << >>
    <3>1. WellRead(s, At(<< >>, i, p))
      BY <2>2, OperandWellRead
    <3> QED
      BY <2>1, <2>3, <3>1
  <2>4. ASSUME NEW g \in Composed(Junk), d = g.meant, Holds(s, g, i, p)
        PROVE  WellRead(s, q)
    <3>1. WellRead(s, At(g.meant, i, p))
      BY <2>2, <2>4, OperatorWellRead
    <3> QED
      BY <2>1, <2>4, <3>1
  <2>5. Prepared(s, q) => WellRead(s, q)
    BY <2>1, <2>3, <2>4 DEF Prepared
  <2> QED
    BY <2>5
<1>3. Len(s) \in Nat
  BY DEF Text
<1>4. Place \subseteq S
  <2> HIDE DEF S
  <2> QED
    BY <1>1, <1>2, <1>3, FromTheEnd
<1> QED
  BY <1>4

----------------------------------------------------------------------------
(* Where every operand binds tighter than its operator, what is read is    *)
(* what was meant.                                                         *)

(* The length of a text; the provers are kept from taking it apart.        *)
Size(u) == Len(u)

LEMMA Sizes ==
  /\ Size(<< >>) = 0
  /\ \A t \in Token : Size(<<t>>) = 1
  /\ \A u \in Text : Size(u) \in Nat
  /\ \A u, v \in Text : Size(u ++ v) = Size(u) + Size(v)
BY DEF Text, ++, Size

(* The text u is what s goes on with at i.                                 *)
Stands(u, s, i) == \A k \in 1 .. Len(u) : TokenAt(s, i + (k - 1)) = u[k]

LEMMA StandsJoined ==
  ASSUME NEW u \in Text, NEW v \in Text, NEW s, NEW i \in Nat, Stands(u ++ v, s, i)
  PROVE  Stands(u, s, i) /\ Stands(v, s, i + Size(u))
<1>1. /\ Len(u) \in Nat /\ Len(v) \in Nat /\ Len(u ++ v) = Len(u) + Len(v)
      /\ \A k \in 1 .. Len(u) : (u ++ v)[k] = u[k]
      /\ \A k \in 1 .. Len(v) : (u ++ v)[Len(u) + k] = v[k]
  BY DEF Text, ++
<1>2. ASSUME NEW k \in 1 .. Len(u) PROVE TokenAt(s, i + (k - 1)) = u[k]
  BY <1>1 DEF Stands
<1>3. ASSUME NEW k \in 1 .. Len(v) PROVE TokenAt(s, (i + Len(u)) + (k - 1)) = v[k]
  <2>1. Len(u) + k \in 1 .. Len(u ++ v)
    BY <1>1
  <2>2. TokenAt(s, i + ((Len(u) + k) - 1)) = (u ++ v)[Len(u) + k]
    BY <2>1 DEF Stands
  <2>3. i + ((Len(u) + k) - 1) = (i + Len(u)) + (k - 1)
    BY <1>1
  <2> QED
    BY <1>1, <2>2, <2>3
<1> QED
  BY <1>1, <1>2, <1>3 DEF Stands, Size

LEMMA StandsToken ==
  ASSUME NEW t \in Token, NEW s, NEW i \in Nat, Stands(<<t>>, s, i)
  PROVE  TokenAt(s, i) = t
<1>1. Len(<<t>>) = 1 /\ <<t>>[1] = t
  BY OneToken
<1>2. TokenAt(s, i + (1 - 1)) = t
  BY <1>1 DEF Stands
<1>3. i + (1 - 1) = i
  OBVIOUS
<1> QED
  BY <1>2, <1>3

LEMMA WrittenByWords ==
  ASSUME NEW e \in Composed(Word)
  PROVE  /\ e \in Expr /\ e.repr \in Text /\ e.meant \in Text /\ e.meant # << >>
         /\ e.left \in 0 .. Tightest /\ e.right \in 0 .. Tightest
         /\ Size(e.repr) \in Nat
<1>1. e \in Expr /\ Word \in SUBSET Token
  BY Tokens DEF Composed
<1>2. /\ e.repr \in Text /\ e.meant \in Text
      /\ e.left \in 0 .. Tightest /\ e.right \in 0 .. Tightest
  BY <1>1 DEF Expr
<1>3. e.meant # << >>
  BY <1>1, MeantShape, MeantIsText, OneToken, Written
<1> QED
  BY <1>1, <1>2, <1>3, Sizes

(* e can be read from i on, over precedences from p on, up to k.           *)
Stretches(e, s, i, p, k) ==
  /\ Stands(e.repr, s, i) /\ k = i + Size(e.repr)
  /\ p <= e.left /\ CanFollow(TokenAt(s, k), e.right)

(* What is read at one place is what is read at the other.                 *)
Continues(s, r, q) == Reader(s)[r] = Reader(s)[q]

LEMMA ReadingContinues ==
  ASSUME NEW s \in Text, NEW d \in Text, NEW i \in Nat, NEW p \in 0 .. Tightest,
         NEW q, GoesOn(Reader(s), s, At(d, i, p), q)
  PROVE  /\ Continues(s, At(d, i, p), q)
         /\ \A r : Continues(s, r, At(d, i, p)) => Continues(s, r, q)
BY ReadPlace, Zenon DEF GoesOn, Continues

(* What is read from i on is what is read at k when e is done.             *)
ReadAs(e, s, i, p, k) == Continues(s, At(<< >>, i, p), At(e.meant, k, p))

(* e is read as it was meant, wherever it stands.                          *)
ReadAsMeant(e) ==
  e.nested =>
    \A s \in Text, i, k \in Nat, p \in 0 .. Tightest :
      Stretches(e, s, i, p, k) => ReadAs(e, s, i, p, k)

(* e is all that is read.                                                  *)
ReadUpTo(e, s, i, p, k) ==
  Reader(s)[At(<< >>, i, p)] = [text |-> e.meant, next |-> k]

LEMMA OperandReadAsMeant ==
  ASSUME NEW e \in Composed(Word), ReadAsMeant(e), e.nested,
         NEW s \in Text, NEW i \in Nat, NEW p \in 0 .. Tightest, NEW k \in Nat,
         Stretches(e, s, i, p, k), StopsAt(TokenAt(s, k), p)
  PROVE  ReadUpTo(e, s, i, p, k)
<1>1. e.meant \in Text /\ e.meant # << >>
  BY WrittenByWords
<1>2. ReadAs(e, s, i, p, k)
  BY DEF ReadAsMeant
<1>3. PICK t : t = TokenAt(s, k)
  OBVIOUS
<1>4. t \notin {Method, WithLambda} /\ ~(t = "?" /\ p = 0)
  BY <1>3 DEF StopsAt
<1>5. ~(t \in BinaryOp /\ BinaryPrecedence[t] >= p)
  <2>1. ASSUME t \in BinaryOp PROVE ~(BinaryPrecedence[t] >= p)
    <3>1. BinaryPrecedence[t] \in 1 .. 100 /\ BinaryPrecedence[t] < p
      BY <1>3, <2>1, Numbers DEF StopsAt
    <3> QED
      BY <3>1 DEF Tightest
  <2> QED
    BY <2>1
<1>6. Ends(Reader(s), s, e.meant, k, p)
  BY <1>1, <1>3, <1>4, <1>5, ReadsNoMore
<1>7. Reader(s)[At(e.meant, k, p)] = [text |-> e.meant, next |-> k]
  BY <1>1, <1>6, ReadPlace, Zenon DEF Ends
<1> QED
  BY <1>2, <1>7, Zenon DEF ReadAs, ReadUpTo, Continues

LEMMA WordReadAsMeant ==
  ASSUME NEW t \in Word
  PROVE  ReadAsMeant(Operand(t))
<1>1. PICK e : e = Operand(t)
  OBVIOUS
<1>2. SUFFICES ASSUME NEW s \in Text, NEW i \in Nat, NEW k \in Nat,
                      NEW p \in 0 .. Tightest, Stretches(e, s, i, p, k)
               PROVE  ReadAs(e, s, i, p, k)
  BY <1>1 DEF ReadAsMeant
<1>3. t \in Token /\ t \notin UnaryOp
  BY WordIsJunk DEF Junk
<1>4. e.repr = <<t>> /\ e.meant = <<t>> /\ Size(e.repr) = 1 /\ << >> \in Text
  BY <1>1, <1>3, Sizes, NothingMore, Written
<1>5. TokenAt(s, i) = t /\ k = i + 1
  BY <1>2, <1>3, <1>4, StandsToken DEF Stretches
<1>6. GoesOn(Reader(s), s, At(<< >>, i, p), At(e.meant, k, p))
  BY <1>3, <1>4, <1>5, ReadsWord
<1> QED
  BY <1>4, <1>6, ReadingContinues DEF ReadAs

LEMMA UnaryReadAsMeant ==
  ASSUME NEW t \in UnaryOp, NEW a \in Composed(Word), ReadAsMeant(a)
  PROVE  ReadAsMeant(Unary(t, a))
<1>1. PICK e : e = Unary(t, a)
  OBVIOUS
<1>2. SUFFICES ASSUME e.nested, NEW s \in Text, NEW i \in Nat, NEW k \in Nat,
                      NEW p \in 0 .. Tightest, Stretches(e, s, i, p, k)
               PROVE  ReadAs(e, s, i, p, k)
  BY <1>1 DEF ReadAsMeant
<1>3. PICK u \in 0 .. Tightest : u = UnaryPrecedence[t]
  BY OperatorsReach
<1>4. /\ a.repr \in Text /\ a.right \in 0 .. Tightest /\ Size(a.repr) \in Nat
      /\ <<t>> \in Text /\ t \in Token /\ Size(<<t>>) = 1 /\ << >> \in Text
  BY WrittenByWords, OneToken, Tokens, NothingMore, Sizes
<1>5. e.repr = <<t>> ++ a.repr /\ e.meant = Meant(<<t>> ++ a.meant)
  BY <1>1, Written
<1>6. a.nested /\ u <= a.left /\ e.right = Least(u, a.right)
  <2>1. a.nested /\ a.left >= u
    BY <1>1, <1>2, <1>3 DEF Unary
  <2> QED
    BY <1>1, <1>3, <2>1 DEF Unary
<1>7. Stands(<<t>>, s, i) /\ Stands(a.repr, s, i + 1) /\ Size(e.repr) = 1 + Size(a.repr)
  <2>1. Stands(<<t>> ++ a.repr, s, i)
    BY <1>2, <1>5 DEF Stretches
  <2>2. Stands(<<t>>, s, i) /\ Stands(a.repr, s, i + 1)
    BY <1>4, <2>1, StandsJoined
  <2> QED
    BY <1>4, <1>5, <2>2, Sizes
<1>8. TokenAt(s, i) = t
  BY <1>4, <1>7, StandsToken
<1>9. k = (i + 1) + Size(a.repr)
  BY <1>2, <1>4, <1>7 DEF Stretches
<1>10. CanFollow(TokenAt(s, k), u) /\ CanFollow(TokenAt(s, k), a.right)
  BY <1>2, <1>4, <1>6, FollowLeast DEF Stretches
<1>11. StopsAt(TokenAt(s, k), u)
  BY <1>3, <1>10, UnaryOperands
<1>12. Stretches(a, s, i + 1, u, k)
  BY <1>6, <1>7, <1>9, <1>10 DEF Stretches
<1>13. i + 1 \in Nat
  OBVIOUS
<1>14. ReadUpTo(a, s, i + 1, u, k)
  BY <1>6, <1>11, <1>12, <1>13, OperandReadAsMeant
<1>15. PICK r : r = Reader(s)[At(<< >>, i + 1, u)] /\ r.text = a.meant /\ r.next = k
  BY <1>14 DEF ReadUpTo
<1>16. GoesOn(Reader(s), s, At(<< >>, i, p), At(e.meant, k, p))
  BY <1>3, <1>5, <1>8, <1>15, ReadsUnary
<1> QED
  BY <1>4, <1>16, ReadingContinues DEF ReadAs

(* The text w begins with the operand a and the token t; u is the rest.    *)
Begins(w, a, t, u) == w = a.repr ++ (<<t>> ++ u)

(* The operand is read up to the token, at j.                              *)
FirstRead(a, t, u, w, s, i, p, j) ==
  /\ ReadAs(a, s, i, p, j) /\ TokenAt(s, j) = t /\ Stands(u, s, j + 1)
  /\ i + Size(w) = (j + 1) + Size(u)

LEMMA FirstReadAsMeant ==
  ASSUME NEW a \in Composed(Word), ReadAsMeant(a), a.nested, NEW t \in Token,
         NEW u \in Text, NEW w, Begins(w, a, t, u),
         NEW s \in Text, NEW i \in Nat, NEW p \in 0 .. Tightest,
         Stands(w, s, i), p <= a.left, CanFollow(t, a.right)
  PROVE  \E j \in Nat : FirstRead(a, t, u, w, s, i, p, j)
<1>1. /\ a.repr \in Text /\ <<t>> \in Text
  BY WrittenByWords, OneToken
<1>2. PICK v \in Text : v = <<t>> ++ u
  BY <1>1, Joined
<1>3. w = a.repr ++ v
  BY <1>2 DEF Begins
<1>4. /\ Size(a.repr) \in Nat /\ Size(u) \in Nat
      /\ Size(v) = 1 + Size(u) /\ Size(w) = Size(a.repr) + Size(v)
  BY <1>1, <1>2, <1>3, Sizes
<1>5. PICK j \in Nat : j = i + Size(a.repr)
  BY <1>4
<1>6. Stands(a.repr, s, i) /\ Stands(v, s, j)
  BY <1>1, <1>3, <1>5, StandsJoined
<1>7. Stands(<<t>>, s, j) /\ Stands(u, s, j + Size(<<t>>))
  BY <1>1, <1>2, <1>6, StandsJoined
<1>8. Stands(u, s, j + 1)
  BY <1>7, Sizes
<1>9. TokenAt(s, j) = t
  BY <1>7, StandsToken
<1>10. Stretches(a, s, i, p, j)
  BY <1>5, <1>6, <1>9 DEF Stretches
<1>11. ReadAs(a, s, i, p, j)
  BY <1>10 DEF ReadAsMeant
<1>12. i + Size(w) = (j + 1) + Size(u)
  BY <1>4, <1>5
<1> QED
  BY <1>8, <1>9, <1>11, <1>12 DEF FirstRead

LEMMA PostfixReadAsMeant ==
  ASSUME NEW a \in Composed(Word), ReadAsMeant(a)
  PROVE  ReadAsMeant(Postfix(a))
<1>1. PICK e : e = Postfix(a)
  OBVIOUS
<1>2. SUFFICES ASSUME e.nested, NEW s \in Text, NEW i \in Nat, NEW k \in Nat,
                      NEW p \in 0 .. Tightest, Stretches(e, s, i, p, k)
               PROVE  ReadAs(e, s, i, p, k)
  BY <1>1 DEF ReadAsMeant
<1>3. a.repr \in Text /\ a.meant \in Text /\ a.meant # << >> /\ << >> \in Text
  BY WrittenByWords, NothingMore
<1>4. Method \in Token /\ <<Method>> \in Text /\ <<Method>> ++ << >> = <<Method>>
  BY OneToken, Tokens, NothingMore
<1>5. Begins(e.repr, a, Method, << >>)
  BY <1>1, <1>4, Written DEF Begins
<1>6. e.meant = Meant(a.meant ++ <<Method>>)
  BY <1>1, Written
<1>7. a.nested /\ a.right = Tightest /\ e.left = a.left
  BY <1>1, <1>2 DEF Postfix
<1>8. CanFollow(Method, a.right)
  BY <1>7, FollowAll
<1>9. Stands(e.repr, s, i) /\ p <= a.left
  BY <1>2, <1>7 DEF Stretches
<1>10. PICK j \in Nat : FirstRead(a, Method, << >>, e.repr, s, i, p, j)
  BY <1>3, <1>4, <1>5, <1>7, <1>8, <1>9, FirstReadAsMeant
<1>11. ReadAs(a, s, i, p, j) /\ TokenAt(s, j) = Method
  BY <1>10 DEF FirstRead
<1>12. k = j + 1
  BY <1>2, <1>10, Sizes DEF Stretches, FirstRead
<1>13. GoesOn(Reader(s), s, At(a.meant, j, p), At(e.meant, k, p))
  BY <1>3, <1>6, <1>11, <1>12, ReadsMethod
<1> QED
  BY <1>3, <1>11, <1>13, ReadingContinues DEF ReadAs

LEMMA BinaryReadAsMeant ==
  ASSUME NEW t \in BinaryOp, NEW a \in Composed(Word), ReadAsMeant(a),
         NEW b \in Composed(Word), ReadAsMeant(b)
  PROVE  ReadAsMeant(Binary(t, a, b))
<1>1. PICK e : e = Binary(t, a, b)
  OBVIOUS
<1>2. SUFFICES ASSUME e.nested, NEW s \in Text, NEW i \in Nat, NEW k \in Nat,
                      NEW p \in 0 .. Tightest, Stretches(e, s, i, p, k)
               PROVE  ReadAs(e, s, i, p, k)
  BY <1>1 DEF ReadAsMeant
<1>3. PICK u \in 0 .. Tightest : u = RightPrecedence(t)
  BY OperatorsReach
<1>4. PICK P \in 0 .. Tightest : P = BinaryPrecedence[t]
  <2>1. BinaryPrecedence[t] \in 1 .. 100
    BY Numbers
  <2> QED
    BY <2>1 DEF Tightest
<1>5. a.repr \in Text /\ a.meant \in Text /\ a.meant # << >> /\ b.repr \in Text
  BY WrittenByWords
<1>6. t \in Token /\ <<t>> \in Text
  BY OneToken, Tokens
<1>7. /\ a.left \in 0 .. Tightest /\ b.left \in 0 .. Tightest
      /\ a.right \in 0 .. Tightest /\ b.right \in 0 .. Tightest
  BY WrittenByWords
<1>8. Begins(e.repr, a, t, b.repr)
  BY <1>1, <1>5, <1>6, Written, Assoc DEF Begins
<1>9. e.meant = Meant(a.meant ++ <<t>> ++ b.meant)
  BY <1>1, Written
<1>10. e.left = Least(P, a.left) /\ e.right = Least(P, b.right)
  BY <1>1, <1>4 DEF Binary
<1>11. /\ a.nested /\ b.nested
       /\ IF t \in RightAssociative THEN a.right > P /\ b.left >= P
                                    ELSE a.right >= P /\ b.left > P
  BY <1>1, <1>2, <1>4 DEF Binary
<1>12. p <= Least(P, a.left) /\ Stands(e.repr, s, i) /\ k = i + Size(e.repr)
       /\ CanFollow(TokenAt(s, k), Least(P, b.right))
  BY <1>2, <1>10 DEF Stretches
<1>13. p <= P /\ p <= a.left
  BY <1>7, <1>12, LeastOfTwo
<1>14. CanFollow(t, a.right)
  <2>1. t \notin {Method, WithLambda, "?"}
    BY Roles
  <2> QED
    BY <1>4, <1>11, <2>1 DEF CanFollow
<1>15. u <= b.left
  <2>1. u = IF t \in RightAssociative THEN P ELSE P + 1
    BY <1>3, <1>4 DEF RightPrecedence
  <2> QED
    BY <1>7, <1>11, <2>1 DEF Tightest
<1>16. PICK j \in Nat : FirstRead(a, t, b.repr, e.repr, s, i, p, j)
  BY <1>5, <1>6, <1>8, <1>11, <1>12, <1>13, <1>14, FirstReadAsMeant
<1>17. ReadAs(a, s, i, p, j) /\ TokenAt(s, j) = t /\ Stands(b.repr, s, j + 1)
  BY <1>16 DEF FirstRead
<1>18. k = (j + 1) + Size(b.repr)
  BY <1>12, <1>16 DEF FirstRead
<1>19. CanFollow(TokenAt(s, k), P) /\ CanFollow(TokenAt(s, k), b.right)
  BY <1>7, <1>12, FollowLeast
<1>20. StopsAt(TokenAt(s, k), u)
  BY <1>3, <1>4, <1>19, RightOperands
<1>21. Stretches(b, s, j + 1, u, k)
  BY <1>15, <1>17, <1>18, <1>19 DEF Stretches
<1>22. j + 1 \in Nat
  OBVIOUS
<1>23. ReadUpTo(b, s, j + 1, u, k)
  BY <1>11, <1>20, <1>21, <1>22, OperandReadAsMeant
<1>24. PICK r : r = Reader(s)[At(<< >>, j + 1, u)] /\ r.text = b.meant /\ r.next = k
  BY <1>23 DEF ReadUpTo
<1>25. BinaryPrecedence[t] >= p
  BY <1>4, <1>13 DEF Tightest
<1>26. GoesOn(Reader(s), s, At(a.meant, j, p), At(e.meant, k, p))
  BY <1>3, <1>5, <1>9, <1>17, <1>24, <1>25, ReadsBinary
<1> QED
  BY <1>5, <1>17, <1>26, ReadingContinues DEF ReadAs

LEMMA MapReadAsMeant ==
  ASSUME NEW a \in Composed(Word), ReadAsMeant(a), NEW b \in Composed(Word), ReadAsMeant(b)
  PROVE  ReadAsMeant(Map(a, b))
<1>1. PICK e : e = Map(a, b)
  OBVIOUS
<1>2. SUFFICES ASSUME e.nested, NEW s \in Text, NEW i \in Nat, NEW k \in Nat,
                      NEW p \in 0 .. Tightest, Stretches(e, s, i, p, k)
               PROVE  ReadAs(e, s, i, p, k)
  BY <1>1 DEF ReadAsMeant
<1>3. a.repr \in Text /\ a.meant \in Text /\ a.meant # << >> /\ b.repr \in Text
  BY WrittenByWords
<1>4. /\ WithLambda \in Token /\ <<WithLambda>> \in Text
      /\ ")" \in Token /\ <<")">> \in Text
  BY OneToken, Tokens
<1>5. b.left \in 0 .. Tightest /\ Size(b.repr) \in Nat
  BY WrittenByWords
<1>6. PICK u \in Text : u = b.repr ++ <<")">>
  BY <1>3, <1>4, Joined
<1>7. e.meant = Meant(a.meant ++ <<WithLambda>> ++ b.meant ++ <<")">>)
  BY <1>1, Written
<1>8. Begins(e.repr, a, WithLambda, u)
  <2>1. PICK v \in Text : v = a.repr ++ <<WithLambda>>
    BY <1>3, <1>4, Joined
  <2>2. e.repr = (v ++ b.repr) ++ <<")">>
    BY <1>1, <2>1, Written
  <2>3. e.repr = v ++ u
    BY <1>3, <1>4, <1>6, <2>2, Assoc
  <2> QED
    BY <1>3, <1>4, <2>1, <2>3, Assoc DEF Begins
<1>9. a.nested /\ b.nested /\ a.right = Tightest /\ e.left = a.left
  BY <1>1, <1>2 DEF Map
<1>10. CanFollow(WithLambda, a.right)
  BY <1>9, FollowAll
<1>11. p <= a.left /\ Stands(e.repr, s, i) /\ k = i + Size(e.repr)
  BY <1>2, <1>9 DEF Stretches
<1>12. PICK j \in Nat : FirstRead(a, WithLambda, u, e.repr, s, i, p, j)
  BY <1>3, <1>4, <1>8, <1>9, <1>10, <1>11, FirstReadAsMeant
<1>13. ReadAs(a, s, i, p, j) /\ TokenAt(s, j) = WithLambda /\ Stands(u, s, j + 1)
  BY <1>12 DEF FirstRead
<1>14. PICK l \in Nat : l = (j + 1) + Size(b.repr)
  BY <1>5
<1>15. j + 1 \in Nat
  OBVIOUS
<1>16. Stands(b.repr, s, j + 1) /\ Stands(<<")">>, s, l)
  BY <1>3, <1>4, <1>6, <1>13, <1>14, <1>15, StandsJoined
<1>17. TokenAt(s, l) = ")"
  BY <1>4, <1>16, StandsToken
<1>18. Size(u) = Size(b.repr) + 1
  BY <1>3, <1>4, <1>6, Sizes
<1>19. k = l + 1
  BY <1>5, <1>11, <1>12, <1>14, <1>18 DEF FirstRead
<1>20. CanFollow(")", b.right) /\ StopsAt(")", 0)
  BY Roles DEF CanFollow, StopsAt
<1>21. 0 \in 0 .. Tightest /\ 0 <= b.left
  BY <1>5 DEF Tightest
<1>22. Stretches(b, s, j + 1, 0, l)
  BY <1>14, <1>16, <1>17, <1>20, <1>21 DEF Stretches
<1>23. ReadUpTo(b, s, j + 1, 0, l)
  BY <1>9, <1>15, <1>17, <1>20, <1>21, <1>22, OperandReadAsMeant
<1>24. PICK r : r = Reader(s)[At(<< >>, j + 1, 0)] /\ r.text = b.meant /\ r.next = l
  BY <1>23 DEF ReadUpTo
<1>25. GoesOn(Reader(s), s, At(a.meant, j, p), At(e.meant, k, p))
  BY <1>3, <1>7, <1>13, <1>19, <1>24, ReadsLambda
<1> QED
  BY <1>3, <1>13, <1>25, ReadingContinues DEF ReadAs

LEMMA CheckReadAsMeant ==
  ASSUME NEW a \in Composed(Word), ReadAsMeant(a), NEW b \in Composed(Word), ReadAsMeant(b),
         NEW c \in Composed(Word), ReadAsMeant(c)
  PROVE  ReadAsMeant(Check(a, b, c))
<1>1. PICK e : e = Check(a, b, c)
  OBVIOUS
<1>2. SUFFICES ASSUME e.nested, NEW s \in Text, NEW i \in Nat, NEW k \in Nat,
                      NEW p \in 0 .. Tightest, Stretches(e, s, i, p, k)
               PROVE  ReadAs(e, s, i, p, k)
  BY <1>1 DEF ReadAsMeant
<1>3. /\ a.repr \in Text /\ a.meant \in Text /\ a.meant # << >>
      /\ b.repr \in Text /\ c.repr \in Text
  BY WrittenByWords
<1>4. "?" \in Token /\ <<"?">> \in Text /\ ":" \in Token /\ <<":">> \in Text
  BY OneToken, Tokens
<1>5. /\ a.left \in 0 .. Tightest /\ b.left \in 0 .. Tightest /\ c.left \in 0 .. Tightest
      /\ c.right \in 0 .. Tightest
      /\ Size(b.repr) \in Nat /\ Size(c.repr) \in Nat
  BY WrittenByWords
<1>6. PICK v \in Text : v = <<":">> ++ c.repr
  BY <1>3, <1>4, Joined
<1>7. PICK u \in Text : u = b.repr ++ v
  BY <1>3, Joined
<1>8. e.meant = Meant(a.meant ++ <<"?">> ++ b.meant ++ <<":">> ++ c.meant)
  BY <1>1, Written
<1>9. Begins(e.repr, a, "?", u)
  <2>1. PICK w \in Text : w = a.repr ++ <<"?">>
    BY <1>3, <1>4, Joined
  <2>2. PICK z \in Text : z = w ++ b.repr
    BY <1>3, Joined
  <2>3. e.repr = (z ++ <<":">>) ++ c.repr
    BY <1>1, <2>1, <2>2, Written
  <2>4. e.repr = z ++ v
    BY <1>3, <1>4, <1>6, <2>3, Assoc
  <2>5. e.repr = w ++ u
    BY <1>3, <1>7, <2>2, <2>4, Assoc
  <2> QED
    BY <1>3, <1>4, <2>1, <2>5, Assoc DEF Begins
<1>10. a.nested /\ b.nested /\ c.nested /\ a.right > 0 /\ e.left = 0 /\ e.right = 0
  BY <1>1, <1>2 DEF Check
<1>11. /\ p <= 0 /\ Stands(e.repr, s, i) /\ k = i + Size(e.repr)
       /\ CanFollow(TokenAt(s, k), 0)
  BY <1>2, <1>10 DEF Stretches
<1>12. p = 0 /\ p <= a.left /\ 0 <= b.left /\ 0 <= c.left /\ 0 \in 0 .. Tightest
  BY <1>5, <1>11 DEF Tightest
<1>13. CanFollow("?", a.right) /\ CanFollow(":", b.right) /\ StopsAt(":", 0)
  BY <1>10, Roles DEF CanFollow, StopsAt
<1>14. PICK j \in Nat : FirstRead(a, "?", u, e.repr, s, i, p, j)
  BY <1>3, <1>4, <1>9, <1>10, <1>11, <1>12, <1>13, FirstReadAsMeant
<1>15. ReadAs(a, s, i, p, j) /\ TokenAt(s, j) = "?" /\ Stands(u, s, j + 1)
  BY <1>14 DEF FirstRead
<1>16. PICK l \in Nat : l = (j + 1) + Size(b.repr)
  BY <1>5
<1>17. j + 1 \in Nat /\ l + 1 \in Nat
  OBVIOUS
<1>18. Stands(b.repr, s, j + 1) /\ Stands(v, s, l)
  BY <1>3, <1>7, <1>15, <1>16, <1>17, StandsJoined
<1>19. Stands(<<":">>, s, l) /\ Stands(c.repr, s, l + Size(<<":">>))
  BY <1>3, <1>4, <1>6, <1>18, StandsJoined
<1>20. Stands(c.repr, s, l + 1)
  BY <1>4, <1>19, Sizes
<1>21. TokenAt(s, l) = ":"
  BY <1>4, <1>19, StandsToken
<1>22. Size(v) = 1 + Size(c.repr) /\ Size(u) = Size(b.repr) + Size(v)
  BY <1>3, <1>4, <1>6, <1>7, Sizes
<1>23. k = (l + 1) + Size(c.repr)
  BY <1>5, <1>11, <1>14, <1>16, <1>22 DEF FirstRead
<1>24. CanFollow(TokenAt(s, k), c.right)
  <2>1. Least(0, c.right) = 0
    BY <1>5 DEF Least, Tightest
  <2> QED
    BY <1>5, <1>11, <1>12, <2>1, FollowLeast
<1>25. StopsAt(TokenAt(s, k), 0)
  BY <1>11, WholeOperands
<1>26. Stretches(b, s, j + 1, 0, l)
  BY <1>12, <1>13, <1>16, <1>18, <1>21 DEF Stretches
<1>27. Stretches(c, s, l + 1, 0, k)
  BY <1>12, <1>20, <1>23, <1>24 DEF Stretches
<1>28. ReadUpTo(b, s, j + 1, 0, l)
  BY <1>10, <1>12, <1>13, <1>17, <1>21, <1>26, OperandReadAsMeant
<1>29. ReadUpTo(c, s, l + 1, 0, k)
  BY <1>10, <1>12, <1>17, <1>25, <1>27, OperandReadAsMeant
<1>30. PICK y : y = Reader(s)[At(<< >>, j + 1, 0)] /\ y.text = b.meant /\ y.next = l
  BY <1>28 DEF ReadUpTo
<1>31. PICK n : n = Reader(s)[At(<< >>, l + 1, 0)] /\ n.text = c.meant /\ n.next = k
  BY <1>29 DEF ReadUpTo
<1>32. GoesOn(Reader(s), s, At(a.meant, j, 0), At(e.meant, k, 0))
  BY <1>3, <1>8, <1>15, <1>30, <1>31, ReadsChoice
<1> QED
  BY <1>3, <1>12, <1>15, <1>32, ReadingContinues DEF ReadAs


(* An expression that binds its operands tighter than its operators is     *)
(* read as it was meant.                                                   *)
LEMMA AllReadAsMeant ==
  ASSUME NEW e \in Composed(Word)
  PROVE  ReadAsMeant(e)
<1> DEFINE C == Composed(Word)
           S == {x \in C : ReadAsMeant(x)}
<1>1. Word \in SUBSET Token /\ C \subseteq Expr
  BY Tokens DEF Composed
<1>2. Closed(C, Word)
  BY <1>1, ComposedClosed
<1> HIDE DEF C
<1>3. \A x \in S : x \in C /\ ReadAsMeant(x)
  OBVIOUS
<1>4. \A x \in C : ReadAsMeant(x) => x \in S
  OBVIOUS
<1> HIDE DEF S
<1>5. \A t \in Word : Operand(t) \in S
  BY <1>2, <1>4, WordReadAsMeant DEF Closed
<1>6. \A t \in BinaryOp, a, b \in S : Binary(t, a, b) \in S
  BY <1>2, <1>3, <1>4, BinaryReadAsMeant DEF Closed, C
<1>7. \A t \in UnaryOp, a \in S : Unary(t, a) \in S
  BY <1>2, <1>3, <1>4, UnaryReadAsMeant DEF Closed, C
<1>8. \A a \in S : Postfix(a) \in S
  BY <1>2, <1>3, <1>4, PostfixReadAsMeant DEF Closed, C
<1>9. \A a, b \in S : Map(a, b) \in S
  BY <1>2, <1>3, <1>4, MapReadAsMeant DEF Closed, C
<1>10. \A a, b, c \in S : Check(a, b, c) \in S
  BY <1>2, <1>3, <1>4, CheckReadAsMeant DEF Closed, C
<1>11. Closed(S, Word)
  BY <1>5, <1>6, <1>7, <1>8, <1>9, <1>10, Zenon DEF Closed
<1>12. S \in SUBSET Expr
  BY <1>1, <1>3
<1>13. C \subseteq S
  BY <1>11, <1>12, ComposedInduction DEF C
<1> QED
  BY <1>3, <1>13 DEF C

----------------------------------------------------------------------------
(* The builder writes no parentheses before an operand.                    *)
Plain(u) == u \in Text /\ \A k \in 1 .. Len(u) : u[k] # "("

LEMMA PlainJoined ==
  ASSUME NEW u, Plain(u), NEW v, Plain(v)
  PROVE  Plain(u ++ v)
<1>1. /\ u \in Text /\ v \in Text /\ Len(u) \in Nat /\ Len(v) \in Nat
      /\ \A k \in 1 .. Len(u) : u[k] # "("
      /\ \A k \in 1 .. Len(v) : v[k] # "("
  BY DEF Plain, Text
<1>2. u ++ v \in Text
  BY <1>1, Joined
<1>3. Len(u ++ v) = Len(u) + Len(v)
  BY <1>1 DEF Text, ++
<1>4. ASSUME NEW k \in 1 .. Len(u) + Len(v) PROVE (u ++ v)[k] # "("
  <2>1. CASE k <= Len(u)
    <3>1. (u ++ v)[k] = u[k]
      BY <1>1, <2>1 DEF Text, ++
    <3> QED
      BY <1>1, <2>1, <3>1
  <2>2. CASE k > Len(u)
    <3>1. (u ++ v)[k] = v[k - Len(u)]
      BY <1>1, <2>2 DEF Text, ++
    <3>2. k - Len(u) \in 1 .. Len(v)
      BY <1>1, <2>2
    <3> QED
      BY <1>1, <3>1, <3>2
  <2> QED
    BY <1>1, <2>1, <2>2
<1> QED
  BY <1>2, <1>3, <1>4 DEF Plain

LEMMA PlainToken ==
  ASSUME NEW t \in Token, t # "("
  PROVE  Plain(<<t>>)
BY OneToken DEF Plain

LEMMA PlainTokens ==
  /\ \A t \in Word : Plain(<<t>>)
  /\ \A t \in BinaryOp : Plain(<<t>>)
  /\ \A t \in UnaryOp : Plain(<<t>>)
  /\ \A t \in {")", "?", ":", Method, WithLambda} : Plain(<<t>>)
<1>1. \A t \in Word : t \in Token /\ t # "("
  BY Tokens, WordIsJunk DEF Junk
<1>2. \A t \in BinaryOp : t \in Token /\ t # "("
  BY Tokens, Roles
<1>3. \A t \in UnaryOp : t \in Token /\ t # "("
  BY Tokens, Roles
<1>4. \A t \in {")", "?", ":", Method, WithLambda} : t \in Token /\ t # "("
  BY Tokens, Roles
<1> QED
  BY <1>1, <1>2, <1>3, <1>4, PlainToken

LEMMA AllPlain ==
  ASSUME NEW e \in Composed(Word)
  PROVE  /\ e.repr \in Text
         /\ \A i \in Nat : TokenAt(e.repr, i) # "("
<1> DEFINE C == Composed(Word)
           S == {x \in C : Plain(x.repr)}
<1>1. Word \in SUBSET Token /\ C \subseteq Expr
  BY Tokens DEF Composed
<1>2. Closed(C, Word)
  BY <1>1, ComposedClosed
<1> HIDE DEF C
<1>3. \A x \in S : x \in C /\ Plain(x.repr)
  OBVIOUS
<1>4. \A x \in C : Plain(x.repr) => x \in S
  OBVIOUS
<1> HIDE DEF S
<1>5. \A t \in Word : Operand(t) \in S
  BY <1>2, <1>4, PlainTokens, Written DEF Closed
<1>6. ASSUME NEW t \in BinaryOp, NEW a \in S, NEW b \in S PROVE Binary(t, a, b) \in S
  <2>1. Plain(a.repr ++ <<t>> ++ b.repr)
    BY <1>3, PlainTokens, PlainJoined
  <2> QED
    BY <1>2, <1>3, <1>4, <2>1, Written DEF Closed
<1>7. ASSUME NEW t \in UnaryOp, NEW a \in S PROVE Unary(t, a) \in S
  <2>1. Plain(<<t>> ++ a.repr)
    BY <1>3, PlainTokens, PlainJoined
  <2> QED
    BY <1>2, <1>3, <1>4, <2>1, Written DEF Closed
<1>8. ASSUME NEW a \in S PROVE Postfix(a) \in S
  <2>1. Plain(a.repr ++ <<Method>>)
    BY <1>3, PlainTokens, PlainJoined
  <2> QED
    BY <1>2, <1>3, <1>4, <2>1, Written DEF Closed
<1>9. ASSUME NEW a \in S, NEW b \in S PROVE Map(a, b) \in S
  <2>1. Plain(a.repr ++ <<WithLambda>> ++ b.repr ++ <<")">>)
    BY <1>3, PlainTokens, PlainJoined
  <2> QED
    BY <1>2, <1>3, <1>4, <2>1, Written DEF Closed
<1>10. ASSUME NEW a \in S, NEW b \in S, NEW c \in S PROVE Check(a, b, c) \in S
  <2>1. Plain(a.repr ++ <<"?">> ++ b.repr ++ <<":">> ++ c.repr)
    BY <1>3, PlainTokens, PlainJoined
  <2> QED
    BY <1>2, <1>3, <1>4, <2>1, Written DEF Closed
<1>11. Closed(S, Word)
  BY <1>5, <1>6, <1>7, <1>8, <1>9, <1>10, Zenon DEF Closed
<1>12. S \in SUBSET Expr
  BY <1>1, <1>3
<1>13. C \subseteq S
  BY <1>11, <1>12, ComposedInduction DEF C
<1>14. Plain(e.repr)
  BY <1>3, <1>13 DEF C
<1>15. \A i \in DOMAIN e.repr : e.repr[i] # "("
  BY <1>14 DEF Plain, Text
<1> QED
  BY <1>14, <1>15, Roles DEF Plain, TokenAt

----------------------------------------------------------------------------
(* What is read out of an expression is what was meant exactly when every  *)
(* operand binds tighter than the operator it was given to.                *)
LEMMA NestedReadAsMeant ==
  ASSUME NEW e \in Composed(Word), e.nested
  PROVE  Reads(e.repr) = e.meant
<1>1. PICK s \in Text : s = e.repr
  BY WrittenByWords
<1>2. Size(s) \in Nat /\ Size(s) = Len(s)
  BY <1>1, WrittenByWords DEF Size
<1>3. PICK k \in Nat : k = 1 + Size(s)
  BY <1>2
<1>4. TokenAt(s, k) = EndOfText
  <2>1. DOMAIN s = 1 .. Len(s)
    BY DEF Text
  <2>2. k \notin DOMAIN s
    BY <1>2, <1>3, <2>1
  <2> QED
    BY <2>2 DEF TokenAt
<1>5. CanFollow(EndOfText, e.right) /\ StopsAt(EndOfText, 0)
  BY Roles DEF CanFollow, StopsAt
<1>6. Stands(s, s, 1)
  <2>1. DOMAIN s = 1 .. Len(s) /\ Len(s) \in Nat
    BY DEF Text
  <2>2. \A j \in 1 .. Len(s) : 1 + (j - 1) = j /\ j \in DOMAIN s
    BY <2>1
  <2> QED
    BY <2>2 DEF Stands, TokenAt
<1>7. 0 \in 0 .. Tightest /\ 0 <= e.left
  <2>1. e.left \in 0 .. Tightest
    BY WrittenByWords
  <2> QED
    BY <2>1 DEF Tightest
<1>8. Stretches(e, s, 1, 0, k)
  BY <1>1, <1>3, <1>4, <1>5, <1>6, <1>7 DEF Stretches
<1>9. ReadUpTo(e, s, 1, 0, k)
  BY <1>4, <1>5, <1>7, <1>8, AllReadAsMeant, OperandReadAsMeant
<1> QED
  BY <1>1, <1>9 DEF ReadUpTo, Reads

LEMMA ReadAsMeantNested ==
  ASSUME NEW e \in Composed(Word), Reads(e.repr) = e.meant
  PROVE  e.nested
<1>1. PICK r \in Place : r = At(<< >>, 1, 0) /\ r.done = << >>
  <2>1. << >> \in Text
    BY WrittenByWords, NothingMore
  <2>2. 1 \in Nat /\ 0 \in 0 .. Tightest
    BY DEF Tightest
  <2> QED
    BY <2>1, <2>2, Places
<1>2. e.repr \in Text /\ Prepared(e.repr, r)
  BY <1>1, AllPlain DEF Prepared
<1>3. WellRead(e.repr, r)
  BY <1>2, AllPlain, AllWellRead
<1>4. PICK g \in Composed(Junk) : Reader(e.repr)[r].text = g.meant /\ g.nested
  BY <1>3 DEF WellRead, Holds
<1>5. e.meant = g.meant
  BY <1>1, <1>4 DEF Reads
<1>6. /\ e.meant \in Text /\ g.meant \in Text /\ << >> \in Text
  BY WrittenByWords, MeantNotEmpty, NothingMore
<1>7. Same(e, g)
  BY <1>5, <1>6, AllDistinct DEF Distinct
<1> QED
  BY <1>4, <1>7 DEF Same

(* Of an expression that the builder composes of operands, Argo reads what *)
(* was meant exactly when every operand binds tighter than the operator it *)
(* was given to.                                                           *)
THEOREM ReadAsMeantExactlyWhenNested ==
  ASSUME NEW e \in Composed(Word)
  PROVE  Reads(e.repr) = e.meant <=> e.nested
<1>1. e.nested \in BOOLEAN
  BY WrittenByWords DEF Expr
<1> QED
  BY <1>1, NestedReadAsMeant, ReadAsMeantNested
============================================================================
