------------------------- MODULE DagTemplateProofs -------------------------
(***************************************************************************)
(* The names that the DAG remembers are those of its tasks, for any tasks, *)
(* any names and any bounds: nothing is added twice, and nothing is refused*)
(* but for a task that is there.                                           *)
(*                                                                         *)
(* And each task waits for what it was wired to.  The reader of a depends  *)
(* expression is a function on all texts (ReaderReads), by induction over  *)
(* their length; a text without an or means the same wherever it is split  *)
(* at an and (AndSplits), and a text in parentheses of its own means what  *)
(* it meant without them (Enclosed), as long as its parentheses match:     *)
(* what is assigned has them match, and Then keeps it (AndedMeans).        *)
(***************************************************************************)
EXTENDS DagTemplate, SequenceTheorems, WellFoundedInduction, TLAPS

(* What a list of tasks is called when it grows by one task.               *)
LEMMA NamesOfAppend ==
  ASSUME NEW list \in Seq(Task), NEW t \in Task
  PROVE  NamesOf(Append(list, t)) = NamesOf(list) \union {NameOf[t]}
<1> DEFINE more == Append(list, t)
<1>1. /\ DOMAIN more = 1 .. Len(list) + 1
      /\ DOMAIN list = 1 .. Len(list)
      /\ Len(list) \in Nat
      /\ \A i \in 1 .. Len(list) : more[i] = list[i]
      /\ more[Len(list) + 1] = t
  OBVIOUS
<1>2. NamesOf(more) \subseteq NamesOf(list) \union {NameOf[t]}
  BY <1>1 DEF NamesOf
<1>3. NamesOf(list) \subseteq NamesOf(more)
  BY <1>1 DEF NamesOf
<1>4. NameOf[t] \in NamesOf(more)
  BY <1>1 DEF NamesOf
<1> QED
  BY <1>2, <1>3, <1>4

(* A task of a new name keeps names unique.                                *)
LEMMA UniqueAppend ==
  ASSUME NEW list \in Seq(Task), NEW t \in Task, NameOf[t] \notin NamesOf(list),
         \A i, j \in DOMAIN list : NameOf[list[i]] = NameOf[list[j]] => i = j
  PROVE  \A i, j \in DOMAIN Append(list, t) :
           NameOf[Append(list, t)[i]] = NameOf[Append(list, t)[j]] => i = j
<1> DEFINE more == Append(list, t)
<1>1. /\ DOMAIN more = 1 .. Len(list) + 1
      /\ DOMAIN list = 1 .. Len(list)
      /\ Len(list) \in Nat
      /\ \A i \in 1 .. Len(list) : more[i] = list[i]
      /\ more[Len(list) + 1] = t
  OBVIOUS
<1>2. \A k \in DOMAIN list : NameOf[list[k]] # NameOf[t]
  BY DEF NamesOf
<1> HIDE DEF more
<1>3. \A i, j \in DOMAIN more : NameOf[more[i]] = NameOf[more[j]] => i = j
  BY <1>1, <1>2
<1> QED
  BY <1>3 DEF more

(* AddTask, called alone or by AddTasks, keeps the invariant.              *)
LEMMA AcceptKeeps ==
  ASSUME Inv, NEW t \in Task, Accept(t), direct' = direct
  PROVE  /\ tasks' \in Seq(Task) /\ nodeNames' \subseteq Name
         /\ ~direct => nodeNames' = NamesOf(tasks')
         /\ UniqueTasks' /\ RefusalsAreReal'
<1>1. /\ tasks \in Seq(Task) /\ nodeNames \subseteq Name
      /\ ~direct => nodeNames = NamesOf(tasks)
      /\ NameOf[t] \in Name
  BY NameAssumption DEF Inv, TypeOK
<1>2. CASE NameOf[t] \in nodeNames
  <2>1. UNCHANGED <<tasks, nodeNames, direct>> /\ result' = Conflict(NameOf[t])
    BY <1>2 DEF Accept
  <2>2. UniqueTasks'
    BY <2>1 DEF Inv, UniqueTasks
  <2>3. RefusalsAreReal'
    BY <1>1, <1>2, <2>1 DEF RefusalsAreReal, Conflict, NamesOf
  <2> QED
    BY <1>1, <2>1, <2>2, <2>3 DEF NamesOf
<1>3. CASE NameOf[t] \notin nodeNames
  <2>1. /\ tasks' = Append(tasks, t)
        /\ nodeNames' = nodeNames \union {NameOf[t]}
        /\ result' = Ok
    BY <1>3 DEF Accept
  <2>2. NamesOf(tasks') = NamesOf(tasks) \union {NameOf[t]} /\ tasks' \in Seq(Task)
    BY <1>1, <2>1, NamesOfAppend, AppendProperties
  <2>3. ASSUME ~direct
        PROVE  \A i, j \in DOMAIN tasks' :
                 NameOf[tasks'[i]] = NameOf[tasks'[j]] => i = j
    <3>1. \A i, j \in DOMAIN tasks : NameOf[tasks[i]] = NameOf[tasks[j]] => i = j
      BY <2>3 DEF Inv, UniqueTasks
    <3> QED
      BY <1>1, <1>3, <2>1, <2>3, <3>1, UniqueAppend
  <2>4. UniqueTasks'
    BY <2>3 DEF UniqueTasks
  <2>5. RefusalsAreReal'
    BY <2>1 DEF RefusalsAreReal, Ok
  <2> QED
    BY <1>1, <2>1, <2>2, <2>4, <2>5
<1> QED
  BY <1>2, <1>3

----------------------------------------------------------------------------
LEMMA Initially == Init => Inv
<1> SUFFICES ASSUME Init PROVE Inv
  OBVIOUS
<1>1. tasks = << >> /\ nodeNames = {} /\ rest = << >> /\ direct = FALSE
      /\ result = Ok /\ since = [t \in Task |-> {}]
  BY DEF Init
<1>2. TypeOK
  BY <1>1, EmptySeq DEF TypeOK
<1>3. NamesOf(tasks) = {}
  BY <1>1 DEF NamesOf
<1>4. UniqueTasks /\ RefusalsAreReal
  BY <1>1 DEF UniqueTasks, RefusalsAreReal, Ok
<1> QED
  BY <1>1, <1>2, <1>3, <1>4 DEF Inv

(* The wiring of tasks leaves the DAG alone.                               *)
LEMMA WiringKeeps ==
  ASSUME Inv, UNCHANGED dagVars, result'.is # "conflict",
         since' \in [Task -> SUBSET Name]
  PROVE  Inv'
<1>1. UNCHANGED <<tasks, nodeNames, rest, direct>>
  BY DEF dagVars
<1>2. TypeOK'
  BY <1>1 DEF Inv, TypeOK
<1>3. UniqueTasks' /\ RefusalsAreReal'
  BY <1>1 DEF Inv, UniqueTasks, RefusalsAreReal
<1> QED
  BY <1>1, <1>2, <1>3 DEF Inv, NamesOf

LEMMA AssignKeeps ==
  ASSUME Inv, NEW t \in Wired, NEW e, Assign(t, e)
  PROVE  Inv'
<1>1. UNCHANGED dagVars /\ result' = Ok /\ since' = [since EXCEPT ![t] = {}]
  BY DEF Assign
<1>2. since' \in [Task -> SUBSET Name]
  BY <1>1 DEF Inv, TypeOK
<1> QED
  BY <1>1, <1>2, WiringKeeps DEF Ok

LEMMA Inductive == Inv /\ [Next]_vars => Inv'
<1> SUFFICES ASSUME Inv, [Next]_vars PROVE Inv'
  OBVIOUS
<1>1. TypeOK
  BY DEF Inv
<1>2. ASSUME NEW t \in Task, AddTask(t) PROVE Inv'
  <2>1. Accept(t) /\ UNCHANGED <<rest, direct, since>>
    BY <1>2 DEF AddTask, taskVars
  <2>2. /\ tasks' \in Seq(Task) /\ nodeNames' \subseteq Name
        /\ ~direct => nodeNames' = NamesOf(tasks')
        /\ UniqueTasks' /\ RefusalsAreReal'
    BY <2>1, AcceptKeeps
  <2> QED
    BY <1>1, <2>1, <2>2 DEF Inv, TypeOK, NamesOf
<1>3. ASSUME NEW list \in Lists, CallAddTasks(list) PROVE Inv'
  <2>1. /\ rest' = list /\ result' = Ok
        /\ UNCHANGED <<tasks, nodeNames, direct, since>>
    BY <1>3 DEF CallAddTasks, taskVars
  <2>2. list \in Seq(Task)
    BY DEF Lists
  <2>3. TypeOK'
    BY <1>1, <2>1, <2>2 DEF TypeOK
  <2>4. UniqueTasks' /\ RefusalsAreReal'
    BY <2>1 DEF Inv, UniqueTasks, RefusalsAreReal, Ok
  <2> QED
    BY <2>1, <2>3, <2>4 DEF Inv, NamesOf
<1>4. CASE AddNext
  <2>1. Head(rest) \in Task /\ Tail(rest) \in Seq(Task)
    BY <1>1, <1>4 DEF AddNext, TypeOK
  <2>2. Accept(Head(rest)) /\ UNCHANGED <<direct, since>> /\ rest' \in Seq(Task)
    BY <1>4, <2>1, EmptySeq DEF AddNext, taskVars
  <2>3. /\ tasks' \in Seq(Task) /\ nodeNames' \subseteq Name
        /\ ~direct => nodeNames' = NamesOf(tasks')
        /\ UniqueTasks' /\ RefusalsAreReal'
    BY <2>1, <2>2, AcceptKeeps
  <2> QED
    BY <1>1, <2>2, <2>3 DEF Inv, TypeOK, NamesOf
<1>5. ASSUME NEW t \in Task, WriteTask(t) PROVE Inv'
  <2>1. /\ direct' = TRUE /\ tasks' = Append(tasks, t)
        /\ UNCHANGED <<nodeNames, rest, since>>
    BY <1>5 DEF WriteTask, taskVars
  <2>2. TypeOK'
    BY <1>1, <2>1, AppendProperties DEF TypeOK
  <2> QED
    BY <2>1, <2>2 DEF Inv, UniqueTasks, RefusalsAreReal
<1>6. CASE \E own \in BOOLEAN : BuildTemplate(own)
  <2>1. UNCHANGED dagVars /\ since' = since
    BY <1>6 DEF BuildTemplate, taskVars
  <2>2. result'.is # "conflict"
    BY <1>6 DEF BuildTemplate, Template, Failure
  <2> QED
    BY <1>1, <2>1, <2>2, WiringKeeps DEF TypeOK
<1>7. ASSUME NEW t \in Wired, NEW u \in Named, Then(u, t) PROVE Inv'
  <2>1. /\ UNCHANGED dagVars /\ result' = Ok
        /\ since' = [since EXCEPT ![t] = since[t] \union {NameOf[u]}]
    BY <1>7 DEF Then
  <2>2. since' \in [Task -> SUBSET Name]
    BY <1>1, <2>1, NameAssumption DEF TypeOK, Named
  <2> QED
    BY <2>1, <2>2, WiringKeeps DEF Ok
<1>8. ASSUME NEW t \in Wired, NEW u \in Named,
             OnSuccess(t, u) \/ OnFailure(t, u) \/ OnError(t, u)
      PROVE  Inv'
  BY <1>8, AssignKeeps DEF OnSuccess, OnFailure, OnError
<1>9. ASSUME NEW t \in Wired, NEW u \in Named, NEW v \in Named, AssignOr(t, u, v)
      PROVE  Inv'
  BY <1>9, AssignKeeps DEF AssignOr
<1>10. ASSUME NEW t \in Wired, NEW e \in Written, Write(t, e) PROVE Inv'
  BY <1>10, AssignKeeps DEF Write
<1>11. CASE UNCHANGED vars
  <2>1. UNCHANGED <<tasks, nodeNames, rest, direct, since, result>>
    BY <1>11 DEF vars, dagVars, taskVars
  <2>2. TypeOK' /\ UniqueTasks' /\ RefusalsAreReal'
    BY <1>1, <2>1 DEF Inv, TypeOK, UniqueTasks, RefusalsAreReal, NamesOf
  <2> QED
    BY <2>1, <2>2 DEF Inv, NamesOf
<1> QED
  BY <1>2, <1>3, <1>4, <1>5, <1>6, <1>7, <1>8, <1>9, <1>10, <1>11 DEF Next

LEMMA Invariance == Spec => []Inv
<1>1. Init => Inv
  BY Initially
<1>2. Inv /\ [Next]_vars => Inv'
  BY Inductive
<1> QED
  BY <1>1, <1>2, PTL DEF Spec

(* No two tasks of one name in a DAG that is filled by AddTask and         *)
(* AddTasks (dag.go:35, 240-260).                                          *)
THEOREM TasksAreUnique == Spec => []UniqueTasks
<1>1. Inv => UniqueTasks
  BY DEF Inv
<1> QED
  BY <1>1, Invariance, PTL

(* A conflict is only reported for a name that is in the DAG, although     *)
(* AddTasks may stop half way (dag.go:244-245, 253-259).                   *)
THEOREM ConflictsAreReal == Spec => []RefusalsAreReal
<1>1. Inv => RefusalsAreReal
  BY DEF Inv
<1> QED
  BY <1>1, Invariance, PTL

----------------------------------------------------------------------------
(* Induction over numbers.                                                 *)

(* A set of numbers that is not empty has a least one.                     *)
LEMMA Least ==
  ASSUME NEW T \in SUBSET Nat, T # {}
  PROVE  \E m \in T : \A n \in T : m <= n
<1> DEFINE R == OpToRel(<, Nat)
<1>1. IsWellFoundedOn(R, Nat)
  BY NatLessThanWellFounded
<1>2. \A x, y \in Nat : x < y => <<x, y>> \in R
  BY DEF OpToRel
<1> HIDE DEF R
<1>3. PICK x \in T : \A y \in T : ~(<<y, x>> \in R)
  BY <1>1, WFMin
<1>4. ASSUME NEW y \in T, y < x PROVE FALSE
  BY <1>2, <1>3, <1>4, Zenon
<1>5. \A y \in T : x <= y
  BY <1>4
<1> QED
  BY <1>5

(* Induction over the numbers, for a set that is named.                    *)
LEMMA SetInduction ==
  ASSUME NEW S, 0 \in S, \A n \in Nat : n \in S => n + 1 \in S
  PROVE  Nat \subseteq S
<1> DEFINE T == Nat \ S
<1> SUFFICES ASSUME T # {} PROVE FALSE
  OBVIOUS
<1>1. PICK m \in T : \A n \in T : m <= n
  BY Least
<1>2. m # 0 /\ m - 1 \in Nat
  BY <1>1
<1>3. m - 1 \in S
  BY <1>1, <1>2
<1> QED
  BY <1>1, <1>2, <1>3

----------------------------------------------------------------------------
(* Parentheses.                                                            *)

(* d says how deep the first k tokens of e are.                            *)
Measures(d, e, k) ==
  /\ d \in [0 .. k -> Nat]
  /\ d[0] = 0
  /\ \A i \in 1 .. k : d[i] = Deeper(e[i], d[i - 1])

(* A token leaves the depth a number.                                      *)
LEMMA DeeperType ==
  ASSUME NEW x, NEW k \in Nat
  PROVE  Deeper(x, k) \in Nat
BY DEF Deeper

(* Depth is defined for every text.                                        *)
LEMMA DepthIs ==
  ASSUME NEW e \in Seq(Token)
  PROVE  Measures(Depth(e), e, Len(e))
<1> DEFINE S == {k \in Nat : \E d : Measures(d, e, k)}
           G(d) == [i \in 0 .. Len(e) |-> IF i = 0 THEN 0 ELSE Deeper(e[i], d[i - 1])]
<1>1. 0 \in S
  <2> DEFINE d == [i \in 0 .. 0 |-> 0]
  <2>1. Measures(d, e, 0)
    BY DEF Measures
  <2> QED
    BY <2>1
<1>2. ASSUME NEW k \in Nat, k \in S PROVE k + 1 \in S
  <2>1. PICK d : Measures(d, e, k)
    BY <1>2
  <2> DEFINE g == [i \in 0 .. k + 1 |-> IF i = k + 1 THEN Deeper(e[k + 1], d[k]) ELSE d[i]]
  <2>2. d \in [0 .. k -> Nat] /\ d[0] = 0 /\ \A i \in 1 .. k : d[i] = Deeper(e[i], d[i - 1])
    BY <2>1 DEF Measures
  <2>3. Deeper(e[k + 1], d[k]) \in Nat
    BY <2>2, DeeperType
  <2>4. g \in [0 .. k + 1 -> Nat] /\ g[0] = 0
    BY <2>2, <2>3
  <2>5. ASSUME NEW i \in 1 .. k + 1 PROVE g[i] = Deeper(e[i], g[i - 1])
    <3>1. CASE i = k + 1
      BY <3>1
    <3>2. CASE i # k + 1
      <4>1. i \in 1 .. k /\ i \in 0 .. k + 1 /\ i - 1 \in 0 .. k + 1 /\ i - 1 # k + 1
        BY <3>2
      <4>2. g[i] = d[i] /\ g[i - 1] = d[i - 1]
        BY <3>2, <4>1
      <4> QED
        BY <4>1, <4>2, <2>2
    <3> QED
      BY <3>1, <3>2
  <2>6. Measures(g, e, k + 1)
    BY <2>4, <2>5 DEF Measures
  <2> QED
    BY <2>6
<1>3. Len(e) \in Nat
  OBVIOUS
<1>4. PICK d : Measures(d, e, Len(e))
  BY <1>1, <1>2, <1>3, SetInduction
<1>5. d = G(d)
  <2>1. /\ d \in [0 .. Len(e) -> Nat] /\ d[0] = 0
        /\ \A i \in 1 .. Len(e) : d[i] = Deeper(e[i], d[i - 1])
    BY <1>4 DEF Measures
  <2>2. \A i \in 0 .. Len(e) : i # 0 => i \in 1 .. Len(e)
    BY <1>3
  <2>3. \A i \in 0 .. Len(e) : d[i] = IF i = 0 THEN 0 ELSE Deeper(e[i], d[i - 1])
    BY <2>1, <2>2
  <2> QED
    BY <2>1, <2>3
<1>6. Depth(e) = G(Depth(e))
  BY <1>5 DEF Depth
<1> DEFINE D == Depth(e)
<1> HIDE DEF D
<1>7. D = G(D)
  BY <1>6 DEF D
<1>8. /\ D[0] = 0 /\ DOMAIN D = 0 .. Len(e)
      /\ \A i \in 1 .. Len(e) : D[i] = Deeper(e[i], D[i - 1])
  BY <1>3, <1>7
<1> DEFINE U == {k \in Nat : k <= Len(e) => D[k] \in Nat}
<1>9. 0 \in U
  BY <1>8
<1>10. ASSUME NEW k \in Nat, k \in U PROVE k + 1 \in U
  <2>1. SUFFICES ASSUME k + 1 <= Len(e) PROVE D[k + 1] \in Nat
    OBVIOUS
  <2>2. k + 1 \in 1 .. Len(e) /\ (k + 1) - 1 = k /\ D[k] \in Nat
    BY <1>3, <1>10, <2>1
  <2>3. D[k + 1] = Deeper(e[k + 1], D[k])
    BY <1>8, <2>2
  <2> QED
    BY <2>2, <2>3, DeeperType
<1>11. \A i \in 0 .. Len(e) : D[i] \in Nat
  <2>1. Nat \subseteq U
    BY <1>9, <1>10, SetInduction
  <2> QED
    BY <2>1, <1>3
<1>12. D \in [0 .. Len(e) -> Nat]
  BY <1>7, <1>11
<1> QED
  BY <1>8, <1>12 DEF Measures, D

(* Where a text is part of another one, its parentheses are as deep, c     *)
(* deeper when it is between c parentheses and closes only what it opened. *)
(* The first k tokens of a are those of b after the p-th.                  *)
PartOf(a, b, p, k) ==
  k <= Len(a) /\ p + k <= Len(b) /\ \A j \in 1 .. k : b[p + j] = a[j]

ClosesItsOwn(a, k) == \A j \in 1 .. k : a[j] = Close => Depth(a)[j - 1] > 0

LEMMA DepthOfPart ==
  ASSUME NEW a \in Seq(Token), NEW b \in Seq(Token), NEW p \in Nat, NEW k \in Nat,
         NEW c \in Nat, PartOf(a, b, p, k), Depth(b)[p] = c,
         c = 0 \/ ClosesItsOwn(a, k)
  PROVE  \A j \in 0 .. k : Depth(b)[p + j] = Depth(a)[j] + c
<1> DEFINE A == Depth(a)
           B == Depth(b)
           S == {j \in Nat : j <= k => B[p + j] = A[j] + c}
<1>1. /\ A \in [0 .. Len(a) -> Nat] /\ A[0] = 0
      /\ \A i \in 1 .. Len(a) : A[i] = Deeper(a[i], A[i - 1])
      /\ B \in [0 .. Len(b) -> Nat]
      /\ \A i \in 1 .. Len(b) : B[i] = Deeper(b[i], B[i - 1])
  BY DepthIs DEF Measures
<1>2. Len(a) \in Nat /\ Len(b) \in Nat
  OBVIOUS
<1>3. /\ B[p] = c /\ (c = 0 \/ \A j \in 1 .. k : a[j] = Close => A[j - 1] > 0)
      /\ k <= Len(a) /\ p + k <= Len(b) /\ \A j \in 1 .. k : b[p + j] = a[j]
  BY DEF PartOf, ClosesItsOwn
<1> HIDE DEF A, B
<1>4. 0 \in S
  BY <1>1, <1>3
<1>5. ASSUME NEW j \in Nat, j \in S PROVE j + 1 \in S
  <2>1. SUFFICES ASSUME j + 1 <= k PROVE B[p + (j + 1)] = A[j + 1] + c
    OBVIOUS
  <2>2. /\ j + 1 \in 1 .. Len(a) /\ (j + 1) - 1 = j /\ j + 1 \in 1 .. k
        /\ p + (j + 1) \in 1 .. Len(b) /\ (p + (j + 1)) - 1 = p + j
        /\ j \in 0 .. Len(a)
    <3>1. k <= Len(a) /\ p + k <= Len(b)
      BY <1>3
    <3> QED
      BY <1>2, <2>1, <3>1
  <2>3. A[j + 1] = Deeper(a[j + 1], A[j]) /\ A[j] \in Nat
    BY <1>1, <2>2
  <2>4. B[p + (j + 1)] = Deeper(a[j + 1], A[j] + c)
    <3>1. B[p + (j + 1)] = Deeper(b[p + (j + 1)], B[p + j])
      BY <1>1, <2>2
    <3> QED
      BY <1>3, <1>5, <2>1, <2>2, <3>1
  <2>5. c = 0 \/ (a[j + 1] = Close => A[j] > 0)
    BY <1>3, <2>2
  <2>6. Deeper(a[j + 1], A[j] + c) = Deeper(a[j + 1], A[j]) + c
    <3>1. Open # Close
      BY DEF Open, Close
    <3> QED
      BY <2>3, <2>5, <3>1, SMTT(30) DEF Deeper
  <2> QED
    BY <2>3, <2>4, <2>6
<1>6. Nat \subseteq S
  BY <1>4, <1>5, SetInduction
<1>7. \A j \in 0 .. k : B[p + j] = A[j] + c
  BY <1>6
<1> QED
  BY <1>7 DEF A, B

(* And just as deep when it begins outside all parentheses.                *)
LEMMA DepthInside ==
  ASSUME NEW a \in Seq(Token), NEW b \in Seq(Token), NEW p \in Nat, NEW k \in Nat,
         PartOf(a, b, p, k), Depth(b)[p] = 0
  PROVE  \A j \in 0 .. k : Depth(b)[p + j] = Depth(a)[j]
<1>1. PICK c \in Nat : c = 0
  OBVIOUS
<1>2. \A j \in 0 .. k : Depth(b)[p + j] = Depth(a)[j] + c
  BY <1>1, DepthOfPart
<1>3. \A j \in 0 .. k : Depth(a)[j] \in Nat
  <2>1. Depth(a) \in [0 .. Len(a) -> Nat] /\ k <= Len(a) /\ Len(a) \in Nat
    BY DepthIs DEF Measures, PartOf
  <2> QED
    BY <2>1
<1> QED
  BY <1>1, <1>2, <1>3

(* What is to the left of a token of a text and to the right of it.        *)
LEMMA SplitText ==
  ASSUME NEW x \in Seq(Token), NEW i \in 1 .. Len(x)
  PROVE  /\ SubSeq(x, 1, i - 1) \in Seq(Token)
         /\ Len(SubSeq(x, 1, i - 1)) = i - 1
         /\ \A j \in 1 .. i - 1 : SubSeq(x, 1, i - 1)[j] = x[j]
         /\ SubSeq(x, i + 1, Len(x)) \in Seq(Token)
         /\ Len(SubSeq(x, i + 1, Len(x))) = Len(x) - i
         /\ \A j \in 1 .. Len(x) - i : SubSeq(x, i + 1, Len(x))[j] = x[i + j]
<1>1. Len(x) \in Nat /\ i \in Nat /\ i >= 1 /\ i <= Len(x) /\ \A j \in 1 .. Len(x) : x[j] \in Token
  OBVIOUS
<1> DEFINE a == SubSeq(x, 1, i - 1)
           b == SubSeq(x, i + 1, Len(x))
<1>2. a \in Seq(Token) /\ Len(a) = i - 1 /\ \A j \in 1 .. i - 1 : a[j] = x[j]
  BY <1>1
<1>3. b \in Seq(Token) /\ Len(b) = Len(x) - i /\ \A j \in 1 .. Len(x) - i : b[j] = x[i + j]
  BY <1>1
<1> QED
  BY <1>2, <1>3

(* An operator that is not inside parentheses leaves those to its left and *)
(* to its right at the depth they had.                                     *)
LEMMA TopLevelOfSplit ==
  ASSUME NEW x \in Seq(Token), NEW o \in {OrOp, AndOp}, NEW i \in TopLevel(x, o),
         NEW q
  PROVE  /\ i \in 1 .. Len(x)
         /\ \A j \in 1 .. i - 1 :
              j \in TopLevel(SubSeq(x, 1, i - 1), q) <=> j \in TopLevel(x, q)
         /\ \A j \in 1 .. Len(x) - i :
              j \in TopLevel(SubSeq(x, i + 1, Len(x)), q) <=> i + j \in TopLevel(x, q)
<1> DEFINE a == SubSeq(x, 1, i - 1)
           b == SubSeq(x, i + 1, Len(x))
<1>1. i \in 1 .. Len(x) /\ x[i] = o /\ Depth(x)[i] = 0
  BY DEF TopLevel
<1>2. Len(x) \in Nat /\ i \in Nat /\ i >= 1 /\ i <= Len(x)
  BY <1>1
<1>3. /\ a \in Seq(Token) /\ Len(a) = i - 1
      /\ \A j \in 1 .. i - 1 : a[j] = x[j]
      /\ b \in Seq(Token) /\ Len(b) = Len(x) - i
      /\ \A j \in 1 .. Len(x) - i : b[j] = x[i + j]
  BY <1>1, SplitText
<1> HIDE DEF a, b
<1>4. Depth(x) \in [0 .. Len(x) -> Nat] /\ Depth(x)[0] = 0
  BY DepthIs DEF Measures
<1>5. \A j \in 0 .. i - 1 : Depth(x)[j] = Depth(a)[j]
  <2>1. PICK p, k \in Nat : p = 0 /\ k = i - 1
    BY <1>2
  <2>2. PartOf(a, x, p, k)
    BY <1>2, <1>3, <2>1 DEF PartOf
  <2>3. \A j \in 0 .. k : Depth(x)[p + j] = Depth(a)[j]
    BY <1>3, <1>4, <2>1, <2>2, DepthInside
  <2> QED
    BY <1>2, <2>1, <2>3
<1>6. \A j \in 0 .. Len(x) - i : Depth(x)[i + j] = Depth(b)[j]
  <2>1. PICK k \in Nat : k = Len(x) - i
    BY <1>2
  <2>2. PartOf(b, x, i, k)
    BY <1>2, <1>3, <2>1 DEF PartOf
  <2>3. \A j \in 0 .. k : Depth(x)[i + j] = Depth(b)[j]
    BY <1>1, <1>2, <1>3, <2>1, <2>2, DepthInside
  <2> QED
    BY <2>1, <2>3
<1>7. /\ Depth(a) \in [0 .. Len(a) -> Nat] /\ Depth(b) \in [0 .. Len(b) -> Nat]
  BY <1>3, DepthIs DEF Measures
<1>8. DOMAIN a = 1 .. Len(a) /\ DOMAIN b = 1 .. Len(b) /\ DOMAIN x = 1 .. Len(x)
  BY <1>3
<1>9. ASSUME NEW j \in 1 .. i - 1
      PROVE  j \in TopLevel(a, q) <=> j \in TopLevel(x, q)
  <2>1. /\ j \in 0 .. i - 1 /\ j \in DOMAIN a /\ j \in DOMAIN x /\ a[j] = x[j]
        /\ j \in 0 .. Len(a) /\ Depth(a)[j] \in Nat
    BY <1>2, <1>3, <1>7, <1>8
  <2>2. Depth(x)[j] = Depth(a)[j]
    BY <1>5, <2>1
  <2> QED
    BY <2>1, <2>2 DEF TopLevel
<1>10. ASSUME NEW j \in 1 .. Len(x) - i
       PROVE  j \in TopLevel(b, q) <=> i + j \in TopLevel(x, q)
  <2>1. /\ j \in Nat /\ j >= 1 /\ j <= Len(x) - i
        /\ j \in 0 .. Len(x) - i /\ j \in DOMAIN b /\ i + j \in DOMAIN x
        /\ j \in 0 .. Len(b)
    BY <1>2, <1>3, <1>8
  <2>3. b[j] = x[i + j]
    BY <1>3
  <2>2. Depth(x)[i + j] = Depth(b)[j]
    BY <1>6, <2>1
  <2> QED
    BY <2>1, <2>2, <2>3 DEF TopLevel
<1> QED
  BY <1>1, <1>9, <1>10 DEF a, b

----------------------------------------------------------------------------
(* The reader.                                                             *)

Upto(n) == {x \in Seq(Token) : Len(x) <= n}

(* h is what the reader makes of the texts in T.                           *)
ReadsAll(h, T, yes) == h = [x \in T |-> Reading(h, x, yes)]

(* What becomes of a text depends on shorter texts alone.                  *)
LEMMA ReadingIsLocal ==
  ASSUME NEW x \in Seq(Token), NEW g, NEW h, NEW yes,
         \A y \in Seq(Token) : Len(y) < Len(x) => g[y] = h[y]
  PROVE  Reading(g, x, yes) = Reading(h, x, yes)
<1>1. ASSUME NEW i \in DOMAIN x
      PROVE  /\ g[SubSeq(x, 1, i - 1)] = h[SubSeq(x, 1, i - 1)]
             /\ g[SubSeq(x, i + 1, Len(x))] = h[SubSeq(x, i + 1, Len(x))]
  <2>1. i \in 1 .. Len(x) /\ Len(x) \in Nat
    OBVIOUS
  <2>2. /\ SubSeq(x, 1, i - 1) \in Seq(Token) /\ Len(SubSeq(x, 1, i - 1)) < Len(x)
        /\ SubSeq(x, i + 1, Len(x)) \in Seq(Token)
        /\ Len(SubSeq(x, i + 1, Len(x))) < Len(x)
    BY <2>1, SplitText
  <2> QED
    BY <2>2
<1>2. ASSUME x # << >>
      PROVE  /\ g[Tail(x)] = h[Tail(x)]
             /\ g[SubSeq(x, 2, Len(x) - 1)] = h[SubSeq(x, 2, Len(x) - 1)]
  <2>1. Tail(x) \in Seq(Token) /\ Len(Tail(x)) < Len(x) /\ Len(x) \in Nat /\ Len(x) # 0
    BY <1>2
  <2>2. \A j \in 2 .. Len(x) - 1 : x[j] \in Token
    BY <2>1
  <2>3. /\ SubSeq(x, 2, Len(x) - 1) \in Seq(Token)
        /\ Len(SubSeq(x, 2, Len(x) - 1)) < Len(x)
    BY <2>1, <2>2
  <2> QED
    BY <2>1, <2>3
<1>3. CASE TopLevel(x, OrOp) # {}
  <2> DEFINE i == CHOOSE i \in TopLevel(x, OrOp) : TRUE
  <2>1. i \in DOMAIN x
    BY <1>3 DEF TopLevel
  <2> QED
    BY <1>1, <1>3, <2>1 DEF Reading
<1>4. CASE TopLevel(x, OrOp) = {} /\ TopLevel(x, AndOp) # {}
  <2> DEFINE i == CHOOSE i \in TopLevel(x, AndOp) : TRUE
  <2>1. i \in DOMAIN x
    BY <1>4 DEF TopLevel
  <2> QED
    BY <1>1, <1>4, <2>1 DEF Reading
<1>5. CASE TopLevel(x, OrOp) = {} /\ TopLevel(x, AndOp) = {}
  BY <1>2, <1>5 DEF Reading
<1> QED
  BY <1>3, <1>4, <1>5

(* Two readings agree on what both read.                                   *)
LEMMA ReadingsAgree ==
  ASSUME NEW m \in Nat, NEW n \in Nat, NEW g, NEW h, NEW yes,
         ReadsAll(g, Upto(m), yes), ReadsAll(h, Upto(n), yes),
         NEW x \in Seq(Token), Len(x) <= m, Len(x) <= n
  PROVE  g[x] = h[x]
<1> DEFINE S == {k \in Nat : \A y \in Seq(Token) :
                   Len(y) <= k /\ Len(y) <= m /\ Len(y) <= n => g[y] = h[y]}
<1>1. \A y \in Seq(Token) : Len(y) <= m => g[y] = Reading(g, y, yes)
  BY DEF ReadsAll, Upto
<1>2. \A y \in Seq(Token) : Len(y) <= n => h[y] = Reading(h, y, yes)
  BY DEF ReadsAll, Upto
<1>3. ASSUME NEW y \in Seq(Token), Len(y) <= m, Len(y) <= n,
             \A z \in Seq(Token) : Len(z) < Len(y) => g[z] = h[z]
      PROVE  g[y] = h[y]
  BY <1>1, <1>2, <1>3, ReadingIsLocal
<1>4. 0 \in S
  <2>1. ASSUME NEW y \in Seq(Token), Len(y) <= 0, Len(y) <= m, Len(y) <= n
        PROVE  g[y] = h[y]
    <3>1. \A z \in Seq(Token) : ~(Len(z) < Len(y))
      BY <2>1
    <3> QED
      BY <1>3, <2>1, <3>1
  <2> QED
    BY <2>1
<1>5. ASSUME NEW k \in Nat, k \in S PROVE k + 1 \in S
  <2>1. ASSUME NEW y \in Seq(Token), Len(y) <= k + 1, Len(y) <= m, Len(y) <= n
        PROVE  g[y] = h[y]
    <3>1. ASSUME NEW z \in Seq(Token), Len(z) < Len(y) PROVE g[z] = h[z]
      <4>1. Len(z) \in Nat /\ Len(y) \in Nat
        OBVIOUS
      <4>2. Len(z) <= k /\ Len(z) <= m /\ Len(z) <= n
        BY <2>1, <3>1, <4>1
      <4> QED
        BY <1>5, <4>2
    <3> QED
      BY <1>3, <2>1, <3>1
  <2> QED
    BY <2>1
<1>6. Nat \subseteq S
  BY <1>4, <1>5, SetInduction
<1>7. Len(x) \in S
  BY <1>6
<1> QED
  BY <1>7

(* Texts up to any length can be read.                                     *)
LEMMA ReadingsExist ==
  ASSUME NEW yes, NEW n \in Nat
  PROVE  \E h : ReadsAll(h, Upto(n), yes)
<1> DEFINE S == {k \in Nat : \E h : ReadsAll(h, Upto(k), yes)}
           Grown(h, k) == [x \in Upto(k) |-> IF Len(x) = k THEN Reading(h, x, yes) ELSE h[x]]
<1>1. 0 \in S
  <2> DEFINE h == [x \in Upto(0) |-> Reading([y \in {} |-> TRUE], x, yes)]
  <2>1. ASSUME NEW x \in Upto(0) PROVE h[x] = Reading(h, x, yes)
    <3>1. x \in Seq(Token) /\ \A y \in Seq(Token) : ~(Len(y) < Len(x))
      BY DEF Upto
    <3>2. h[x] = Reading([y \in {} |-> TRUE], x, yes)
      OBVIOUS
    <3> HIDE DEF h
    <3>3. Reading([y \in {} |-> TRUE], x, yes) = Reading(h, x, yes)
      BY <3>1, ReadingIsLocal
    <3> QED
      BY <3>2, <3>3
  <2>2. h = [x \in Upto(0) |-> Reading(h, x, yes)]
    <3>1. h = [x \in Upto(0) |-> h[x]]
      OBVIOUS
    <3> HIDE DEF h
    <3> QED
      BY <2>1, <3>1
  <2> QED
    BY <2>2 DEF ReadsAll
<1>2. ASSUME NEW k \in Nat, k \in S PROVE k + 1 \in S
  <2>1. PICK f : ReadsAll(f, Upto(k), yes)
    BY <1>2
  <2> DEFINE h == Grown(f, k + 1)
  <2>2. \A x \in Upto(k) : f[x] = Reading(f, x, yes)
    BY <2>1 DEF ReadsAll
  <2>3. \A x \in Seq(Token) : Len(x) < k + 1 => h[x] = f[x]
    BY DEF Upto
  <2>4. \A x \in Upto(k + 1) : Len(x) = k + 1 => h[x] = Reading(f, x, yes)
    OBVIOUS
  <2>5. h = [x \in Upto(k + 1) |-> h[x]]
    OBVIOUS
  <2> HIDE DEF h
  <2>6. ASSUME NEW x \in Upto(k + 1) PROVE h[x] = Reading(h, x, yes)
    <3>1. x \in Seq(Token) /\ Len(x) <= k + 1 /\ Len(x) \in Nat
      BY DEF Upto
    <3>2. \A y \in Seq(Token) : Len(y) < Len(x) => f[y] = h[y]
      <4> SUFFICES ASSUME NEW y \in Seq(Token), Len(y) < Len(x) PROVE f[y] = h[y]
        OBVIOUS
      <4>1. Len(y) \in Nat /\ Len(y) < k + 1
        BY <3>1
      <4> QED
        BY <2>3, <4>1
    <3>3. Reading(f, x, yes) = Reading(h, x, yes)
      BY <3>1, <3>2, ReadingIsLocal
    <3>4. h[x] = Reading(f, x, yes)
      <4>1. CASE Len(x) = k + 1
        BY <2>4, <4>1
      <4>2. CASE Len(x) # k + 1
        <5>1. Len(x) < k + 1 /\ x \in Upto(k)
          BY <3>1, <4>2 DEF Upto
        <5> QED
          BY <2>2, <2>3, <3>1, <5>1
      <4> QED
        BY <4>1, <4>2
    <3> QED
      BY <3>3, <3>4
  <2>7. h = [x \in Upto(k + 1) |-> Reading(h, x, yes)]
    BY <2>5, <2>6
  <2> QED
    BY <2>7 DEF ReadsAll
<1>3. Nat \subseteq S
  BY <1>1, <1>2, SetInduction
<1> QED
  BY <1>3

(* What the reader makes of any text.                                      *)
Reader(yes) == CHOOSE h : ReadsAll(h, Seq(Token), yes)

(* So all texts can, and Holds is what this reader says.                   *)
LEMMA ReaderReads ==
  ASSUME NEW yes
  PROVE  /\ \A x \in Seq(Token) : Reader(yes)[x] = Reading(Reader(yes), x, yes)
         /\ \A e \in Seq(Token) : Holds(e, yes) <=> e = << >> \/ Reader(yes)[e]
<1> DEFINE F(n) == CHOOSE h : ReadsAll(h, Upto(n), yes)
           h == [x \in Seq(Token) |-> F(Len(x))[x]]
<1>1. \A n \in Nat : ReadsAll(F(n), Upto(n), yes)
  BY ReadingsExist
<1>2. ASSUME NEW x \in Seq(Token) PROVE h[x] = Reading(h, x, yes)
  <2>1. Len(x) \in Nat /\ x \in Upto(Len(x))
    BY DEF Upto
  <2> DEFINE g == F(Len(x))
  <2>2. h[x] = g[x]
    OBVIOUS
  <2>3. ReadsAll(g, Upto(Len(x)), yes)
    BY <1>1, <2>1
  <2>4. ASSUME NEW y \in Seq(Token), Len(y) < Len(x) PROVE h[y] = g[y]
    <3>1. Len(y) \in Nat /\ Len(y) <= Len(y) /\ Len(y) <= Len(x)
      BY <2>1, <2>4
    <3>2. ReadsAll(F(Len(y)), Upto(Len(y)), yes)
      BY <1>1, <3>1
    <3>3. h[y] = F(Len(y))[y]
      OBVIOUS
    <3> HIDE DEF g, F, h
    <3> QED
      BY <2>1, <2>3, <3>1, <3>2, <3>3, ReadingsAgree
  <2> HIDE DEF g, F, h
  <2>5. g[x] = Reading(g, x, yes)
    BY <2>1, <2>3 DEF ReadsAll
  <2>6. Reading(h, x, yes) = Reading(g, x, yes)
    BY <2>4, ReadingIsLocal
  <2> QED
    BY <2>2, <2>5, <2>6
<1>3. ReadsAll(h, Seq(Token), yes)
  <2>1. h = [x \in Seq(Token) |-> h[x]]
    OBVIOUS
  <2> HIDE DEF h
  <2>2. h = [x \in Seq(Token) |-> Reading(h, x, yes)]
    BY <1>2, <2>1
  <2> QED
    BY <2>2 DEF ReadsAll
<1> HIDE DEF h
<1>4. ReadsAll(Reader(yes), Seq(Token), yes)
  BY <1>3 DEF Reader
<1>5. \A x \in Seq(Token) : Reader(yes)[x] = Reading(Reader(yes), x, yes)
  BY <1>4 DEF ReadsAll
<1>6. \A e \in Seq(Token) : Holds(e, yes) <=> e = << >> \/ Reader(yes)[e]
  BY DEF Holds, Reader, ReadsAll
<1> QED
  BY <1>5, <1>6

----------------------------------------------------------------------------
(* What Then writes.                                                       *)

(* Wherever a text without an or is split at an and, both sides must hold. *)
SplitsAt(h, x, i) ==
  h[x] <=> h[SubSeq(x, 1, i - 1)] /\ h[SubSeq(x, i + 1, Len(x))]

(* Splitting a text at one token and a side of it at another.              *)
LEMMA Between ==
  ASSUME NEW x \in Seq(Token), NEW c \in 1 .. Len(x), NEW i \in 1 .. Len(x), c < i
  PROVE  /\ SubSeq(SubSeq(x, 1, i - 1), 1, c - 1) = SubSeq(x, 1, c - 1)
         /\ SubSeq(SubSeq(x, 1, i - 1), c + 1, i - 1) = SubSeq(x, c + 1, i - 1)
         /\ SubSeq(SubSeq(x, c + 1, Len(x)), 1, (i - c) - 1) = SubSeq(x, c + 1, i - 1)
         /\ SubSeq(SubSeq(x, c + 1, Len(x)), (i - c) + 1, Len(x) - c)
              = SubSeq(x, i + 1, Len(x))
<1>1. Len(x) \in Nat /\ c \in Nat /\ i \in Nat /\ 1 <= c /\ i <= Len(x)
  OBVIOUS
<1>2. SubSeq(SubSeq(x, 1, i - 1), 1, c - 1) = SubSeq(x, 1, c - 1)
  BY <1>1
<1>3. SubSeq(SubSeq(x, 1, i - 1), c + 1, i - 1) = SubSeq(x, c + 1, i - 1)
  BY <1>1
<1>4. SubSeq(SubSeq(x, c + 1, Len(x)), 1, (i - c) - 1) = SubSeq(x, c + 1, i - 1)
  BY <1>1
<1>5. SubSeq(SubSeq(x, c + 1, Len(x)), (i - c) + 1, Len(x) - c) = SubSeq(x, i + 1, Len(x))
  BY <1>1
<1> QED
  BY <1>2, <1>3, <1>4, <1>5

(* And so the choice of the and at which a text is split does not matter.  *)
LEMMA AndSplits ==
  ASSUME NEW yes, NEW x \in Seq(Token), TopLevel(x, OrOp) = {},
         NEW i \in TopLevel(x, AndOp)
  PROVE  SplitsAt(Reader(yes), x, i)
<1> DEFINE R == Reader(yes)
           Splits(y) == TopLevel(y, OrOp) = {} =>
                          \A j \in TopLevel(y, AndOp) : SplitsAt(R, y, j)
           S == {k \in Nat : \A y \in Seq(Token) : Len(y) <= k => Splits(y)}
<1>1. \A y \in Seq(Token) : R[y] = Reading(R, y, yes)
  BY ReaderReads
<1> HIDE DEF R
<1>2. ASSUME NEW y \in Seq(Token), TopLevel(y, OrOp) = {},
             \A z \in Seq(Token) : Len(z) < Len(y) => Splits(z),
             NEW c \in TopLevel(y, AndOp), NEW j \in TopLevel(y, AndOp), c < j
      PROVE  (R[SubSeq(y, 1, c - 1)] /\ R[SubSeq(y, c + 1, Len(y))])
               <=> (R[SubSeq(y, 1, j - 1)] /\ R[SubSeq(y, j + 1, Len(y))])
  <2> DEFINE left == SubSeq(y, 1, j - 1)
             right == SubSeq(y, c + 1, Len(y))
             middle == SubSeq(y, c + 1, j - 1)
  <2>1. /\ c \in 1 .. Len(y) /\ j \in 1 .. Len(y) /\ Len(y) \in Nat
        /\ c \in Nat /\ j \in Nat
    BY DEF TopLevel
  <2>2. /\ left \in Seq(Token) /\ Len(left) = j - 1
        /\ right \in Seq(Token) /\ Len(right) = Len(y) - c
    BY <2>1, SplitText
  <2>3. /\ SubSeq(left, 1, c - 1) = SubSeq(y, 1, c - 1)
        /\ SubSeq(left, c + 1, Len(left)) = middle
        /\ SubSeq(right, 1, (j - c) - 1) = middle
        /\ SubSeq(right, (j - c) + 1, Len(right)) = SubSeq(y, j + 1, Len(y))
    BY <1>2, <2>1, <2>2, Between
  <2> HIDE DEF middle
  <2>4. c \in TopLevel(left, AndOp) /\ TopLevel(left, OrOp) = {}
    <3>1. \A k \in 1 .. j - 1 : k \in TopLevel(left, AndOp) <=> k \in TopLevel(y, AndOp)
      BY TopLevelOfSplit
    <3>2. \A k \in 1 .. j - 1 : k \in TopLevel(left, OrOp) <=> k \in TopLevel(y, OrOp)
      BY TopLevelOfSplit
    <3>3. TopLevel(left, OrOp) \subseteq 1 .. j - 1
      <4>1. DOMAIN left = 1 .. j - 1
        BY <2>2
      <4> QED
        BY <4>1 DEF TopLevel
    <3>4. c \in 1 .. j - 1
      BY <1>2, <2>1
    <3> QED
      BY <1>2, <3>1, <3>2, <3>3, <3>4
  <2>5. j - c \in TopLevel(right, AndOp) /\ TopLevel(right, OrOp) = {}
    <3>1. \A k \in 1 .. Len(y) - c :
             k \in TopLevel(right, AndOp) <=> c + k \in TopLevel(y, AndOp)
      BY TopLevelOfSplit
    <3>2. \A k \in 1 .. Len(y) - c :
             k \in TopLevel(right, OrOp) <=> c + k \in TopLevel(y, OrOp)
      BY TopLevelOfSplit
    <3>3. TopLevel(right, OrOp) \subseteq 1 .. Len(y) - c
      <4>1. DOMAIN right = 1 .. Len(y) - c
        BY <2>2
      <4> QED
        BY <4>1 DEF TopLevel
    <3>4. j - c \in 1 .. Len(y) - c /\ c + (j - c) = j
      BY <1>2, <2>1
    <3> QED
      BY <1>2, <3>1, <3>2, <3>3, <3>4
  <2> HIDE DEF left, right
  <2>6. Len(left) < Len(y) /\ Len(right) < Len(y)
    BY <2>1, <2>2
  <2>7. SplitsAt(R, left, c) /\ SplitsAt(R, right, j - c)
    BY <1>2, <2>2, <2>4, <2>5, <2>6
  <2>8. /\ R[left] <=> R[SubSeq(y, 1, c - 1)] /\ R[middle]
        /\ R[right] <=> R[middle] /\ R[SubSeq(y, j + 1, Len(y))]
    BY <2>3, <2>7 DEF SplitsAt
  <2> QED
    BY <2>8 DEF left, right
<1>3. ASSUME NEW y \in Seq(Token),
             \A z \in Seq(Token) : Len(z) < Len(y) => Splits(z)
      PROVE  Splits(y)
  <2> SUFFICES ASSUME TopLevel(y, OrOp) = {}, NEW j \in TopLevel(y, AndOp)
               PROVE  SplitsAt(R, y, j)
    OBVIOUS
  <2> DEFINE c == CHOOSE k \in TopLevel(y, AndOp) : TRUE
             Sides(k) == R[SubSeq(y, 1, k - 1)] /\ R[SubSeq(y, k + 1, Len(y))]
  <2>1. c \in TopLevel(y, AndOp)
    OBVIOUS
  <2>2. R[y] <=> Sides(c)
    <3>1. R[y] = Reading(R, y, yes)
      BY <1>1
    <3>2. Reading(R, y, yes) <=> Sides(c)
      BY <2>1 DEF Reading
    <3> QED
      BY <3>1, <3>2
  <2> HIDE DEF c
  <2>3. c \in Nat /\ j \in Nat
    BY <2>1 DEF TopLevel
  <2>4. Sides(c) <=> Sides(j)
    <3>1. CASE c = j
      BY <3>1
    <3>2. CASE c < j
      BY <1>2, <1>3, <2>1, <3>2
    <3>3. CASE j < c
      BY <1>2, <1>3, <2>1, <3>3
    <3> QED
      BY <2>3, <3>1, <3>2, <3>3
  <2> QED
    BY <2>2, <2>4 DEF SplitsAt
<1> HIDE DEF Splits
<1>4. 0 \in S
  <2>1. ASSUME NEW y \in Seq(Token), Len(y) <= 0 PROVE Splits(y)
    <3>1. \A z \in Seq(Token) : ~(Len(z) < Len(y))
      BY <2>1
    <3> QED
      BY <1>3, <3>1
  <2> QED
    BY <2>1
<1>5. ASSUME NEW k \in Nat, k \in S PROVE k + 1 \in S
  <2>1. ASSUME NEW y \in Seq(Token), Len(y) <= k + 1 PROVE Splits(y)
    <3>1. ASSUME NEW z \in Seq(Token), Len(z) < Len(y) PROVE Splits(z)
      <4>1. Len(z) \in Nat /\ Len(y) \in Nat /\ Len(z) <= k
        BY <2>1, <3>1
      <4> QED
        BY <1>5, <4>1
    <3> QED
      BY <1>3, <3>1
  <2> QED
    BY <2>1
<1>6. Nat \subseteq S
  BY <1>4, <1>5, SetInduction
<1>7. Len(x) \in S
  BY <1>6
<1>8. Splits(x)
  BY <1>7
<1> QED
  BY <1>8 DEF Splits, R

(* The symbols are different from each other and from every task.          *)
LEMMA Tokens ==
  /\ {Open, Close, OrOp, AndOp, NotOp} \subseteq Token
  /\ Open # Close /\ Open # OrOp /\ Open # AndOp /\ Open # NotOp
  /\ Close # OrOp /\ Close # AndOp /\ OrOp # AndOp
  /\ \A n \in Word : /\ Done(n) \in Token
                     /\ Done(n) \notin {Open, Close, OrOp, AndOp, NotOp}
<1>1. {Open, Close, OrOp, AndOp, NotOp} \subseteq Token
  BY DEF Token, Symbol
<1>2. /\ Open # Close /\ Open # OrOp /\ Open # AndOp /\ Open # NotOp
      /\ Close # OrOp /\ Close # AndOp /\ OrOp # AndOp
  BY DEF Open, Close, OrOp, AndOp, NotOp
<1>3. \A n \in Word : /\ Done(n) \in Token
                     /\ Done(n) \notin {Open, Close, OrOp, AndOp, NotOp}
  <2> TAKE n \in Word
  <2>1. Done(n) \in Token
    BY DEF Token
  <2>2. Done(n) \notin Symbol
    BY WordAssumption
  <2> QED
    BY <2>1, <2>2 DEF Symbol
<1> QED
  BY <1>1, <1>2, <1>3

(* A task that is named alone.                                             *)
LEMMA OneTask ==
  ASSUME NEW yes, NEW n \in Word
  PROVE  Reader(yes)[<<Done(n)>>] <=> Done(n) \in yes
<1> DEFINE x == <<Done(n)>>
           R == Reader(yes)
<1>1. x \in Seq(Token) /\ x # << >> /\ DOMAIN x = {1} /\ x[1] = Done(n) /\ Head(x) = Done(n)
  BY Tokens
<1>2. R[x] = Reading(R, x, yes)
  BY <1>1, ReaderReads
<1> HIDE DEF x, R
<1>3. TopLevel(x, OrOp) = {} /\ TopLevel(x, AndOp) = {}
  BY <1>1, Tokens DEF TopLevel
<1>4. Reading(R, x, yes) <=> Done(n) \in yes
  BY <1>1, <1>3, Tokens DEF Reading
<1> QED
  BY <1>2, <1>4 DEF x, R

(* How deep a text is after its i-th token.                                *)
LEMMA DepthStep ==
  ASSUME NEW e \in Seq(Token), NEW i \in 1 .. Len(e)
  PROVE  /\ Depth(e)[i] = Deeper(e[i], Depth(e)[i - 1])
         /\ Depth(e)[0] = 0 /\ Depth(e)[i] \in Nat /\ Depth(e)[i - 1] \in Nat
<1>1. Measures(Depth(e), e, Len(e)) /\ Len(e) \in Nat
  BY DepthIs
<1>2. Depth(e) \in [0 .. Len(e) -> Nat] /\ i \in 0 .. Len(e) /\ i - 1 \in 0 .. Len(e)
  BY <1>1 DEF Measures
<1> QED
  BY <1>1, <1>2 DEF Measures

(* A text without an or outside parentheses, and one more task.            *)
LEMMA AndedWithout ==
  ASSUME NEW y \in Seq(Token), Balanced(y), NEW n \in Word
  PROVE  LET z == y \o <<AndOp, Done(n)>>
         IN  /\ z \in Seq(Token) /\ z # << >> /\ Balanced(z)
             /\ TopLevel(y, OrOp) = {} =>
                  \A yes : Reader(yes)[z] <=> Reader(yes)[y] /\ Done(n) \in yes
<1> DEFINE z == y \o <<AndOp, Done(n)>>
<1>1. AndOp \in Token /\ Done(n) \in Token
  BY Tokens
<1>2. /\ z \in Seq(Token) /\ Len(z) = Len(y) + 2 /\ Len(y) \in Nat /\ z # << >>
      /\ \A j \in 1 .. Len(y) : z[j] = y[j]
      /\ z[Len(y) + 1] = AndOp /\ z[Len(y) + 2] = Done(n)
  BY <1>1
<1> HIDE DEF z
<1>3. SubSeq(z, 1, Len(y)) = y /\ SubSeq(z, Len(y) + 2, Len(z)) = <<Done(n)>>
  <2> DEFINE a == SubSeq(z, 1, Len(y))
             b == SubSeq(z, Len(y) + 2, Len(z))
  <2>1. \A j \in 1 .. Len(z) : z[j] \in Token
    BY <1>2
  <2>2. a \in Seq(Token) /\ Len(a) = Len(y) /\ \A j \in 1 .. Len(y) : a[j] = z[j]
    BY <1>2, <2>1
  <2>3. b \in Seq(Token) /\ Len(b) = 1 /\ b[1] = Done(n)
    BY <1>2, <2>1
  <2> HIDE DEF a, b
  <2>4. a = y
    BY <1>2, <2>2, SeqEqual
  <2>5. b = <<Done(n)>>
    BY <2>3
  <2> QED
    BY <2>4, <2>5 DEF a, b
<1>4. \A j \in 0 .. Len(y) : Depth(z)[j] = Depth(y)[j]
  <2>1. PICK p \in Nat : p = 0
    OBVIOUS
  <2>2. PartOf(y, z, p, Len(y))
    BY <1>2, <2>1 DEF PartOf
  <2>3. Depth(z)[p] = 0
    BY <1>2, <2>1, DepthStep
  <2>4. \A j \in 0 .. Len(y) : Depth(z)[p + j] = Depth(y)[j]
    BY <1>2, <2>2, <2>3, DepthInside
  <2>5. \A j \in 0 .. Len(y) : p + j = j
    BY <2>1
  <2> QED
    BY <2>4, <2>5
<1>5. Depth(z)[Len(y)] = 0
  BY <1>2, <1>4 DEF Balanced
<1>6. Depth(z)[Len(y) + 1] = 0
  <2>1. Len(y) + 1 \in 1 .. Len(z) /\ (Len(y) + 1) - 1 = Len(y)
    BY <1>2
  <2>2. Depth(z)[Len(y) + 1] = Deeper(AndOp, 0)
    BY <1>2, <1>5, <2>1, DepthStep
  <2> QED
    BY <2>2, Tokens DEF Deeper
<1>7. Depth(z)[Len(y) + 2] = 0
  <2>1. Len(y) + 2 \in 1 .. Len(z) /\ (Len(y) + 2) - 1 = Len(y) + 1
    BY <1>2
  <2>2. Depth(z)[Len(y) + 2] = Deeper(Done(n), 0)
    BY <1>2, <1>6, <2>1, DepthStep
  <2> QED
    BY <2>2, Tokens DEF Deeper
<1>8. DOMAIN z = 1 .. Len(z) /\ DOMAIN y = 1 .. Len(y)
  BY <1>2
<1>9. Balanced(z)
  <2>1. ASSUME NEW i \in DOMAIN z, z[i] = Close PROVE Depth(z)[i - 1] > 0
    <3>1. i \in 1 .. Len(y)
      BY <1>2, <1>8, <2>1, Tokens
    <3>2. y[i] = Close /\ i - 1 \in 0 .. Len(y)
      BY <1>2, <2>1, <3>1
    <3> QED
      BY <1>4, <1>8, <3>1, <3>2 DEF Balanced
  <2> QED
    BY <1>2, <1>7, <2>1 DEF Balanced
<1>10. ASSUME TopLevel(y, OrOp) = {}, NEW yes
       PROVE  Reader(yes)[z] <=> Reader(yes)[y] /\ Done(n) \in yes
  <2>1. PICK i \in Nat : i = Len(y) + 1
    BY <1>2
  <2>2. i \in TopLevel(z, AndOp)
    BY <1>2, <1>6, <1>8, <2>1 DEF TopLevel
  <2>3. i - 1 = Len(y) /\ i + 1 = Len(y) + 2
    BY <1>2, <2>1
  <2>4. TopLevel(z, OrOp) = {}
    <3>1. \A j \in 1 .. i - 1 :
             j \in TopLevel(SubSeq(z, 1, i - 1), OrOp) <=> j \in TopLevel(z, OrOp)
      BY <1>2, <2>2, TopLevelOfSplit
    <3>2. \A j \in 1 .. Len(y) : j \notin TopLevel(z, OrOp)
      BY <1>3, <1>10, <2>3, <3>1
    <3>3. \A j \in TopLevel(z, OrOp) : j \in 1 .. Len(z) /\ z[j] = OrOp
      BY <1>8 DEF TopLevel
    <3> QED
      BY <1>2, <3>2, <3>3, Tokens
  <2>5. SplitsAt(Reader(yes), z, i)
    BY <1>2, <2>2, <2>4, AndSplits
  <2>6. Reader(yes)[z] <=> Reader(yes)[y] /\ Reader(yes)[<<Done(n)>>]
    BY <1>3, <2>3, <2>5 DEF SplitsAt
  <2> QED
    BY <2>6, OneTask
<1> QED
  BY <1>2, <1>9, <1>10 DEF z

(* A text in parentheses.                                                  *)
LEMMA Enclosed ==
  ASSUME NEW e \in Seq(Token), Balanced(e)
  PROVE  LET z == <<Open>> \o e \o <<Close>>
         IN  /\ z \in Seq(Token) /\ Balanced(z) /\ TopLevel(z, OrOp) = {}
             /\ \A yes : Reader(yes)[z] <=> Reader(yes)[e]
<1> DEFINE z == <<Open>> \o e \o <<Close>>
<1>1. Open \in Token /\ Close \in Token
  BY Tokens
<1>2. /\ z \in Seq(Token) /\ Len(z) = Len(e) + 2 /\ Len(e) \in Nat /\ z # << >>
      /\ \A j \in 1 .. Len(e) : z[1 + j] = e[j]
      /\ z[1] = Open /\ z[Len(e) + 2] = Close /\ Head(z) = Open
  BY <1>1
<1>3. SubSeq(z, 2, Len(z) - 1) = e
  BY <1>1
<1> HIDE DEF z
<1>4. Depth(z)[1] = 1
  <2>1. 1 \in 1 .. Len(z) /\ 1 - 1 = 0
    BY <1>2
  <2>2. Depth(z)[1] = Deeper(Open, 0)
    BY <1>2, <2>1, DepthStep
  <2> QED
    BY <2>2 DEF Deeper
<1>5. \A j \in 0 .. Len(e) : Depth(z)[1 + j] = Depth(e)[j] + 1
  <2>1. PICK p, k \in Nat : p = 1 /\ k = Len(e)
    BY <1>2
  <2>2. PartOf(e, z, p, k)
    BY <1>2, <2>1 DEF PartOf
  <2>3. ClosesItsOwn(e, k)
    BY <2>1 DEF ClosesItsOwn, Balanced
  <2>4. \A j \in 0 .. k : Depth(z)[p + j] = Depth(e)[j] + p
    BY <1>2, <1>4, <2>1, <2>2, <2>3, DepthOfPart
  <2> QED
    BY <2>1, <2>4
<1>6. \A j \in 0 .. Len(e) : Depth(e)[j] \in Nat
  BY DepthIs DEF Measures
<1>7. Depth(z)[Len(e) + 1] = 1
  <2>1. Depth(z)[1 + Len(e)] = Depth(e)[Len(e)] + 1
    BY <1>2, <1>5
  <2>2. Depth(e)[Len(e)] = 0 /\ 1 + Len(e) = Len(e) + 1
    BY <1>2 DEF Balanced
  <2> QED
    BY <2>1, <2>2
<1>8. Depth(z)[Len(e) + 2] = 0
  <2>1. Len(e) + 2 \in 1 .. Len(z) /\ (Len(e) + 2) - 1 = Len(e) + 1
    BY <1>2
  <2>2. Depth(z)[Len(e) + 2] = Deeper(Close, 1)
    BY <1>2, <1>7, <2>1, DepthStep
  <2> QED
    BY <2>2, Tokens DEF Deeper
<1>9. DOMAIN z = 1 .. Len(z) /\ DOMAIN e = 1 .. Len(e)
  BY <1>2
<1>10. \A i \in 1 .. Len(e) + 1 : Depth(z)[i] > 0
  <2> TAKE i \in 1 .. Len(e) + 1
  <2>1. i - 1 \in 0 .. Len(e) /\ 1 + (i - 1) = i
    BY <1>2
  <2>2. Depth(z)[i] = Depth(e)[i - 1] + 1 /\ Depth(e)[i - 1] \in Nat
    BY <1>5, <1>6, <2>1
  <2> QED
    BY <2>2
<1>11. Balanced(z)
  <2>1. ASSUME NEW i \in DOMAIN z, z[i] = Close PROVE Depth(z)[i - 1] > 0
    <3>1. i # 1 /\ i \in 1 .. Len(e) + 2
      BY <1>2, <1>9, <2>1, Tokens
    <3>2. i - 1 \in 1 .. Len(e) + 1
      BY <1>2, <3>1
    <3> QED
      BY <1>10, <3>2
  <2> QED
    BY <1>2, <1>8, <2>1 DEF Balanced
<1>12. ASSUME NEW q \in {OrOp, AndOp} PROVE TopLevel(z, q) = {}
  <2> SUFFICES ASSUME NEW i \in TopLevel(z, q) PROVE FALSE
    OBVIOUS
  <2>1. i \in 1 .. Len(e) + 2 /\ z[i] = q /\ Depth(z)[i] = 0
    BY <1>2, <1>9 DEF TopLevel
  <2>2. i # Len(e) + 2
    BY <1>2, <2>1, Tokens
  <2>3. i \in 1 .. Len(e) + 1
    BY <1>2, <2>1, <2>2
  <2> QED
    BY <1>10, <2>1, <2>3
<1>13. ASSUME NEW yes PROVE Reader(yes)[z] <=> Reader(yes)[e]
  <2>1. Reader(yes)[z] = Reading(Reader(yes), z, yes)
    BY <1>2, ReaderReads
  <2>2. TopLevel(z, OrOp) = {} /\ TopLevel(z, AndOp) = {} /\ Head(z) # NotOp
    BY <1>2, <1>12, Tokens
  <2>3. Reading(Reader(yes), z, yes) <=> Reader(yes)[e]
    BY <1>2, <1>3, <2>2 DEF Reading
  <2> QED
    BY <2>1, <2>3
<1> QED
  BY <1>2, <1>11, <1>12, <1>13 DEF z

(* Then adds one condition to what an expression means, and no other.      *)
LEMMA AndedMeans ==
  ASSUME NEW e \in Seq(Token), Balanced(e), NEW n \in Word
  PROVE  /\ Anded(e, n) \in Seq(Token) /\ Balanced(Anded(e, n))
         /\ \A yes : Holds(Anded(e, n), yes) <=> Holds(e, yes) /\ Done(n) \in yes
<1> DEFINE z == Anded(e, n)
<1>1. CASE e = << >>
  <2>1. z = <<Done(n)>> /\ z \in Seq(Token) /\ z # << >> /\ Len(z) = 1
        /\ DOMAIN z = {1} /\ z[1] = Done(n)
    BY <1>1, Tokens DEF Anded
  <2>2. \A yes : Holds(z, yes) <=> Done(n) \in yes
    BY <2>1, ReaderReads, OneTask
  <2>3. \A yes : Holds(e, yes)
    BY <1>1, ReaderReads
  <2>4. Depth(z)[1] = 0
    <3>1. 1 \in 1 .. Len(z) /\ 1 - 1 = 0
      BY <2>1
    <3>2. Depth(z)[1] = Deeper(Done(n), 0)
      BY <2>1, <3>1, DepthStep
    <3> QED
      BY <3>2, Tokens DEF Deeper
  <2>5. Balanced(z)
    BY <2>1, <2>4, Tokens DEF Balanced
  <2> QED
    BY <2>1, <2>2, <2>3, <2>5
<1>2. CASE e # << >>
  <2>1. \A yes : Holds(e, yes) <=> Reader(yes)[e]
    BY <1>2, ReaderReads
  <2>2. CASE TopLevel(e, OrOp) = {}
    <3>1. z = e \o <<AndOp, Done(n)>>
      BY <1>2, <2>2 DEF Anded, ContainsTopLevelOr
    <3>2. /\ z \in Seq(Token) /\ z # << >> /\ Balanced(z)
          /\ \A yes : Reader(yes)[z] <=> Reader(yes)[e] /\ Done(n) \in yes
      BY <2>2, <3>1, AndedWithout
    <3>3. \A yes : Holds(z, yes) <=> Reader(yes)[z]
      BY <3>2, ReaderReads
    <3> QED
      BY <2>1, <3>2, <3>3
  <2>3. CASE TopLevel(e, OrOp) # {}
    <3> DEFINE y == <<Open>> \o e \o <<Close>>
    <3>1. z = y \o <<AndOp, Done(n)>>
      BY <1>2, <2>3 DEF Anded, ContainsTopLevelOr
    <3>2. /\ y \in Seq(Token) /\ Balanced(y) /\ TopLevel(y, OrOp) = {}
          /\ \A yes : Reader(yes)[y] <=> Reader(yes)[e]
      BY Enclosed
    <3> HIDE DEF y
    <3>3. /\ z \in Seq(Token) /\ z # << >> /\ Balanced(z)
          /\ \A yes : Reader(yes)[z] <=> Reader(yes)[y] /\ Done(n) \in yes
      BY <3>1, <3>2, AndedWithout
    <3>4. \A yes : Holds(z, yes) <=> Reader(yes)[z]
      BY <3>3, ReaderReads
    <3> QED
      BY <2>1, <3>2, <3>3, <3>4
  <2> QED
    BY <2>2, <2>3
<1> QED
  BY <1>1, <1>2

(* A text without parentheses.                                             *)
LEMMA FlatBalances ==
  ASSUME NEW e \in Seq(Token), \A i \in 1 .. Len(e) : e[i] \notin {Open, Close}
  PROVE  Balanced(e)
<1> DEFINE S == {k \in Nat : k <= Len(e) => Depth(e)[k] = 0}
<1>1. Len(e) \in Nat /\ DOMAIN e = 1 .. Len(e)
  OBVIOUS
<1>2. 0 \in S
  BY DepthIs DEF Measures
<1>3. ASSUME NEW k \in Nat, k \in S PROVE k + 1 \in S
  <2>1. SUFFICES ASSUME k + 1 <= Len(e) PROVE Depth(e)[k + 1] = 0
    OBVIOUS
  <2>2. k + 1 \in 1 .. Len(e) /\ (k + 1) - 1 = k /\ Depth(e)[k] = 0
    BY <1>1, <1>3, <2>1
  <2>3. Depth(e)[k + 1] = Deeper(e[k + 1], 0)
    BY <2>2, DepthStep
  <2> QED
    BY <2>2, <2>3 DEF Deeper
<1>4. Nat \subseteq S
  BY <1>2, <1>3, SetInduction
<1> QED
  BY <1>1, <1>4 DEF Balanced

(* What the methods of a task assign is what Argo parses.                  *)
LEMMA AssignedBalances ==
  ASSUME NEW m \in Word, NEW n \in Word, NEW r \in TaskResult
  PROVE  /\ <<Outcome(n, r)>> \in Seq(Token) /\ Balanced(<<Outcome(n, r)>>)
         /\ OrOf(m, n) \in Seq(Token) /\ Balanced(OrOf(m, n))
<1>1. Outcome(n, r) \in Token
  BY DEF Token
<1>2. Outcome(n, r) \notin {Open, Close}
  BY DEF Outcome, Open, Close
<1>3. <<Outcome(n, r)>> \in Seq(Token) /\ Balanced(<<Outcome(n, r)>>)
  <2> DEFINE x == <<Outcome(n, r)>>
  <2>1. x \in Seq(Token) /\ \A i \in 1 .. Len(x) : x[i] = Outcome(n, r)
    BY <1>1
  <2> HIDE DEF x
  <2>2. Balanced(x)
    BY <1>2, <2>1, FlatBalances
  <2> QED
    BY <2>1, <2>2 DEF x
<1>4. OrOf(m, n) \in Seq(Token) /\ Balanced(OrOf(m, n))
  <2> DEFINE x == <<Done(m), OrOp, Done(n)>>
  <2>1. /\ x \in Seq(Token)
        /\ \A i \in 1 .. Len(x) : x[i] \in {Done(m), OrOp, Done(n)}
    BY Tokens
  <2>2. Balanced(x)
    <3> HIDE DEF x
    <3>1. {Done(m), OrOp, Done(n)} \cap {Open, Close} = {}
      BY Tokens
    <3> QED
      BY <2>1, <3>1, FlatBalances
  <2>3. OrOf(m, n) = <<Open>> \o x \o <<Close>>
    <3> DEFINE a == OrOf(m, n)
               b == <<Open>> \o x \o <<Close>>
    <3>1. /\ a \in Seq(Token) /\ Len(a) = 5 /\ a[1] = Open /\ a[2] = Done(m)
          /\ a[3] = OrOp /\ a[4] = Done(n) /\ a[5] = Close
      BY Tokens DEF OrOf
    <3>2. /\ b \in Seq(Token) /\ Len(b) = 5 /\ b[1] = Open /\ b[2] = Done(m)
          /\ b[3] = OrOp /\ b[4] = Done(n) /\ b[5] = Close
      BY Tokens
    <3> HIDE DEF a, b
    <3>3. \A i \in 1 .. Len(a) : a[i] = b[i]
      <4>1. \A i \in 1 .. Len(a) : i = 1 \/ i = 2 \/ i = 3 \/ i = 4 \/ i = 5
        BY <3>1
      <4> QED
        BY <4>1, <3>1, <3>2
    <3>4. a = b
      BY <3>1, <3>2, <3>3, SeqEqual
    <3> QED
      BY <3>4 DEF a, b
  <2> HIDE DEF x
  <2> QED
    BY <2>1, <2>2, <2>3, Enclosed
<1> QED
  BY <1>3, <1>4

----------------------------------------------------------------------------
(* What each task waits for.                                               *)

(* e means what g meant, and that the tasks in names are done.             *)
WaitsAsWired(e, g, names) ==
  /\ e \in Seq(Token) /\ Balanced(e)
  /\ \A yes : Holds(e, yes) <=> Holds(g, yes) /\ \A n \in names : Done(n) \in yes

Wiring ==
  /\ DOMAIN depends = Task /\ DOMAIN given = Task /\ DOMAIN since = Task
  /\ \A t \in Task : WaitsAsWired(depends[t], given[t], since[t])

(* A task to which an expression is assigned waits for that alone.         *)
LEMMA AssignWires ==
  ASSUME Wiring, NEW t \in Task, NEW e \in Seq(Token), Balanced(e), Assign(t, e)
  PROVE  Wiring'
<1>1. /\ depends' = [depends EXCEPT ![t] = e]
      /\ given' = [given EXCEPT ![t] = e]
      /\ since' = [since EXCEPT ![t] = {}]
  BY DEF Assign
<1>2. WaitsAsWired(e, e, {})
  BY DEF WaitsAsWired
<1>3. ASSUME NEW u \in Task PROVE WaitsAsWired(depends'[u], given'[u], since'[u])
  <2>1. CASE u = t
    BY <1>1, <1>2, <2>1 DEF Wiring
  <2>2. CASE u # t
    BY <1>1, <2>2 DEF Wiring
  <2> QED
    BY <2>1, <2>2
<1> QED
  BY <1>1, <1>3 DEF Wiring

(* A task that is chained waits for one more.                              *)
LEMMA ThenWires ==
  ASSUME Wiring, NEW t \in Named, NEW other \in Task, Then(t, other)
  PROVE  Wiring'
<1> DEFINE n == NameOf[t]
<1>1. /\ depends' = [depends EXCEPT ![other] = Anded(depends[other], n)]
      /\ since' = [since EXCEPT ![other] = since[other] \union {n}]
      /\ given' = given
  BY DEF Then
<1>2. n \in Word
  BY DEF Named
<1> HIDE DEF n
<1>3. WaitsAsWired(depends[other], given[other], since[other])
  BY DEF Wiring
<1>4. WaitsAsWired(Anded(depends[other], n), given[other], since[other] \union {n})
  <2> DEFINE e == depends[other]
             z == Anded(e, n)
  <2>1. e \in Seq(Token) /\ Balanced(e)
    BY <1>3 DEF WaitsAsWired
  <2>2. z \in Seq(Token) /\ Balanced(z)
    BY <1>2, <2>1, AndedMeans
  <2>3. ASSUME NEW yes
        PROVE  Holds(z, yes) <=>
                 Holds(given[other], yes) /\ \A k \in since[other] \union {n} : Done(k) \in yes
    <3>1. Holds(z, yes) <=> Holds(e, yes) /\ Done(n) \in yes
      BY <1>2, <2>1, AndedMeans
    <3>2. Holds(e, yes) <=> Holds(given[other], yes) /\ \A k \in since[other] : Done(k) \in yes
      BY <1>3 DEF WaitsAsWired
    <3> QED
      BY <3>1, <3>2
  <2> QED
    BY <2>2, <2>3 DEF WaitsAsWired
<1>5. ASSUME NEW u \in Task PROVE WaitsAsWired(depends'[u], given'[u], since'[u])
  <2>1. CASE u = other
    BY <1>1, <1>4, <2>1 DEF Wiring
  <2>2. CASE u # other
    BY <1>1, <2>2 DEF Wiring
  <2> QED
    BY <2>1, <2>2
<1> QED
  BY <1>1, <1>5 DEF Wiring

(* Every call keeps what the tasks wait for.                               *)
LEMMA WiringInductive == Wiring /\ [Next]_vars => Wiring'
<1> SUFFICES ASSUME Wiring, [Next]_vars PROVE Wiring'
  OBVIOUS
<1>1. Wired \subseteq Task /\ Named \subseteq Task
  BY NameAssumption DEF Named
<1>2. \A t \in Named : NameOf[t] \in Word
  BY DEF Named
<1>3. ASSUME UNCHANGED taskVars PROVE Wiring'
  BY <1>3 DEF taskVars, Wiring
<1>4. ASSUME NEW t \in Task, AddTask(t) \/ WriteTask(t) PROVE Wiring'
  BY <1>3, <1>4 DEF AddTask, WriteTask
<1>5. ASSUME NEW list \in Lists, CallAddTasks(list) PROVE Wiring'
  BY <1>3, <1>5 DEF CallAddTasks
<1>6. CASE AddNext \/ \E own \in BOOLEAN : BuildTemplate(own)
  BY <1>3, <1>6 DEF AddNext, BuildTemplate
<1>7. ASSUME NEW t \in Wired, NEW u \in Named, Then(u, t) PROVE Wiring'
  BY <1>1, <1>7, ThenWires
<1>8. ASSUME NEW t \in Wired, NEW u \in Named,
             OnSuccess(t, u) \/ OnFailure(t, u) \/ OnError(t, u)
      PROVE  Wiring'
  <2>1. PICK r \in TaskResult : Assign(t, <<Outcome(NameOf[u], r)>>)
    BY <1>8 DEF OnSuccess, OnFailure, OnError, TaskResult
  <2>2. <<Outcome(NameOf[u], r)>> \in Seq(Token) /\ Balanced(<<Outcome(NameOf[u], r)>>)
    BY <1>2, AssignedBalances
  <2> QED
    BY <1>1, <2>1, <2>2, AssignWires
<1>9. ASSUME NEW t \in Wired, NEW u \in Named, NEW v \in Named, AssignOr(t, u, v)
      PROVE  Wiring'
  <2>1. Assign(t, OrOf(NameOf[u], NameOf[v]))
    BY <1>9 DEF AssignOr
  <2>2. OrOf(NameOf[u], NameOf[v]) \in Seq(Token) /\ Balanced(OrOf(NameOf[u], NameOf[v]))
    BY <1>2, AssignedBalances DEF TaskResult
  <2> QED
    BY <1>1, <2>1, <2>2, AssignWires
<1>10. ASSUME NEW t \in Wired, NEW e \in Written, Write(t, e) PROVE Wiring'
  BY <1>1, <1>10, WrittenAssumption, AssignWires DEF Write
<1>11. CASE UNCHANGED vars
  BY <1>3, <1>11 DEF vars
<1> QED
  BY <1>4, <1>5, <1>6, <1>7, <1>8, <1>9, <1>10, <1>11 DEF Next

(* At first they wait for nothing.                                         *)
LEMMA WiredAtFirst == Init => Wiring
<1> SUFFICES ASSUME Init PROVE Wiring
  OBVIOUS
<1>1. /\ depends = [t \in Task |-> << >>] /\ given = depends
      /\ since = [t \in Task |-> {}]
  BY DEF Init
<1>2. Balanced(<< >>)
  <2> DEFINE e == << >>
  <2>1. e \in Seq(Token) /\ Len(e) = 0
    BY EmptySeq
  <2> HIDE DEF e
  <2>2. \A i \in 1 .. Len(e) : e[i] \notin {Open, Close}
    BY <2>1
  <2>3. Balanced(e)
    BY <2>1, <2>2, FlatBalances
  <2> QED
    BY <2>3 DEF e
<1>3. WaitsAsWired(<< >>, << >>, {})
  BY <1>2, EmptySeq DEF WaitsAsWired
<1> QED
  BY <1>1, <1>3 DEF Wiring

(* However a program wires its tasks, by Then, by Or, by OnSuccess and its *)
(* relatives or by hand, a task runs when the expression that was last     *)
(* assigned to it holds and every task chained before it since is done:    *)
(* the parentheses that Then writes are the ones that are needed           *)
(* (dag.go:97-135).                                                        *)
THEOREM TasksWait == Spec => []TasksRunAsWired
<1>1. Wiring => TasksRunAsWired
  BY DEF Wiring, WaitsAsWired, TasksRunAsWired
<1> QED
  BY <1>1, WiredAtFirst, WiringInductive, PTL DEF Spec
=============================================================================
