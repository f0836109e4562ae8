---------------------------- MODULE DagTemplate ----------------------------
(***************************************************************************)
(* The DAG builder (dag.go): a program wires tasks to each other and adds  *)
(* them to a DAG, one by one or several at a time, in any order, and       *)
(* builds the template.  Tasks and Depends are exported fields, which the  *)
(* program may write itself.                                               *)
(***************************************************************************)
EXTENDS Depends, FiniteSets

CONSTANTS Task,      \* the task objects
          Name,      \* the names of tasks, the empty one among them
          EmptyName, \* ""
          NameOf,    \* the name of each task; two tasks may share one
          Sound,     \* the tasks that set exactly one template, and whose
                     \* arguments, artifacts and inline template build
          Wired,     \* BOUND: the tasks whose Depends the program changes
          Written,   \* the depends expressions a program writes itself
          MaxTasks,  \* BOUND: the tasks that are added
          MaxTokens  \* BOUND: the length of an expression that Then extends

ASSUME NameAssumption ==
  NameOf \in [Task -> Name] /\ Sound \subseteq Task /\ Wired \subseteq Task

(* What Argo parses.                                                       *)
ASSUME WrittenAssumption ==
  \A e \in Written : e \in Seq(Token) /\ Balanced(e)

(* The tasks that others are wired to: they have a name, and it is a word  *)
(* of an expression.                                                       *)
Named == {t \in Task : NameOf[t] \in Word}

VARIABLES tasks,     \* d.Tasks
          nodeNames, \* the names that the DAG remembers
          rest,      \* the tasks that AddTasks has still to add
          depends,   \* the Depends of each task
          result,    \* what the last call returned
          direct,    \* history: whether the program wrote d.Tasks itself
          given,     \* history: the expression last assigned to each task
          since      \* history: the tasks chained before it since then

dagVars == <<tasks, nodeNames, rest, direct>>
taskVars == <<depends, given, since>>
vars == <<dagVars, taskVars, result>>

NamesOf(list) == {NameOf[list[i]] : i \in DOMAIN list}

Ok == [is |-> "ok"]
Conflict(n) == [is |-> "conflict", name |-> n]
Failure == [is |-> "failure"]
Template(nodes) == [is |-> "template", nodes |-> nodes]

Init ==
  /\ tasks = << >>
  /\ nodeNames = {}
  /\ rest = << >>
  /\ depends = [t \in Task |-> << >>]
  /\ result = Ok
  /\ direct = FALSE
  /\ given = depends
  /\ since = [t \in Task |-> {}]

Idle == rest = << >>

----------------------------------------------------------------------------
(* The DAG.                                                                *)

(* Deviation for UniqueTasks: AddTask does not remember the name.          *)
AcceptForgetfully(t) ==
  IF NameOf[t] \in nodeNames
  THEN result' = Conflict(NameOf[t]) /\ UNCHANGED <<tasks, nodeNames>>
  ELSE /\ result' = Ok
       /\ UNCHANGED nodeNames
       /\ tasks' = Append(tasks, t)

(* The body of AddTask.                                                    *)
Accept(t) ==
  IF NameOf[t] \in nodeNames
  THEN result' = Conflict(NameOf[t]) /\ UNCHANGED <<tasks, nodeNames>>
  ELSE /\ result' = Ok
       /\ nodeNames' = nodeNames \union {NameOf[t]}
       /\ tasks' = Append(tasks, t)

AddTask(t) ==
  /\ Idle
  /\ Len(tasks) < MaxTasks
  /\ Accept(t)
  /\ UNCHANGED <<rest, direct, taskVars>>

(* Deviation for RefusalsAreReal: all the names are remembered first.      *)
CallAddTasksRemembering(list) ==
  /\ Idle
  /\ Len(tasks) + Len(list) <= MaxTasks
  /\ rest' = SelectSeq(list, LAMBDA t : NameOf[t] \notin nodeNames)
  /\ nodeNames' = nodeNames \union NamesOf(list)
  /\ result' = Ok
  /\ UNCHANGED <<tasks, direct, taskVars>>

CallAddTasks(list) ==
  /\ Idle
  /\ Len(tasks) + Len(list) <= MaxTasks
  /\ rest' = list
  /\ result' = Ok
  /\ UNCHANGED <<tasks, nodeNames, direct, taskVars>>

(* AddTasks adds one more task, and stops at the first error.              *)
AddNext ==
  /\ rest # << >>
  /\ Accept(Head(rest))
  /\ rest' = IF NameOf[Head(rest)] \in nodeNames THEN << >> ELSE Tail(rest)
  /\ UNCHANGED <<direct, taskVars>>

(* d.Tasks = append(d.Tasks, t), or a literal.                             *)
WriteTask(t) ==
  /\ Idle
  /\ Len(tasks) < MaxTasks
  /\ tasks' = Append(tasks, t)
  /\ direct' = TRUE
  /\ result' = Ok
  /\ UNCHANGED <<nodeNames, rest, taskVars>>

(* BuildTemplate: the models of all tasks, or the error of one of them.    *)
(* own: whether the template has a name, and its inputs and outputs build. *)
BuildTemplate(own) ==
  /\ Idle
  /\ result' = IF own /\ \A i \in DOMAIN tasks :
                    NameOf[tasks[i]] # EmptyName /\ tasks[i] \in Sound
               THEN Template([i \in DOMAIN tasks |->
                      [name |-> NameOf[tasks[i]], depends |-> depends[tasks[i]]]])
               ELSE Failure
  /\ UNCHANGED <<dagVars, taskVars>>

----------------------------------------------------------------------------
(* The tasks.                                                              *)

(* t.Then(other).                                                          *)
Then(t, other) ==
  /\ Idle
  /\ Len(depends[other]) <= MaxTokens
  /\ depends' = [depends EXCEPT ![other] = Anded(@, NameOf[t])]
  /\ since' = [since EXCEPT ![other] = @ \union {NameOf[t]}]
  /\ result' = Ok
  /\ UNCHANGED <<dagVars, given>>

Assign(t, e) ==
  /\ Idle
  /\ depends' = [depends EXCEPT ![t] = e]
  /\ given' = [given EXCEPT ![t] = e]
  /\ since' = [since EXCEPT ![t] = {}]
  /\ result' = Ok
  /\ UNCHANGED dagVars

(* t.OnSuccess(other), t.OnFailure(other) and t.OnError(other): they       *)
(* assign, whatever t depended on before.                                  *)
OnSuccess(t, other) == Assign(t, <<Outcome(NameOf[other], "Succeeded")>>)
OnFailure(t, other) == Assign(t, <<Outcome(NameOf[other], "Failed")>>)
OnError(t, other)   == Assign(t, <<Outcome(NameOf[other], "Errored")>>)

(* t.Depends = u.Or(v), and t.Depends = "...".                             *)
AssignOr(t, u, v) == Assign(t, OrOf(NameOf[u], NameOf[v]))
Write(t, e) == Assign(t, e)

Lists == UNION {[1 .. n -> Task] : n \in 1 .. MaxTasks}

Next ==
  \/ \E t \in Task : AddTask(t) \/ WriteTask(t)
  \/ \E list \in Lists : CallAddTasks(list)
  \/ AddNext
  \/ \E own \in BOOLEAN : BuildTemplate(own)
  \/ \E t \in Wired, u \in Named :
       \/ Then(u, t)
       \/ OnSuccess(t, u)
       \/ OnFailure(t, u)
       \/ OnError(t, u)
  \/ \E t \in Wired, u, v \in Named : AssignOr(t, u, v)
  \/ \E t \in Wired, e \in Written : Write(t, e)

Spec == Init /\ [][Next]_vars

----------------------------------------------------------------------------
(* Properties.                                                             *)

TypeOK ==
  /\ tasks \in Seq(Task)
  /\ nodeNames \subseteq Name
  /\ rest \in Seq(Task)
  /\ direct \in BOOLEAN
  /\ since \in [Task -> SUBSET Name]

(* A program that leaves d.Tasks to AddTask and AddTasks gets no two tasks *)
(* of one name into the DAG, whatever was refused on the way (dag.go:35).  *)
UniqueTasks ==
  ~direct => \A i, j \in DOMAIN tasks :
               NameOf[tasks[i]] = NameOf[tasks[j]] => i = j

(* A task is refused only for a task of its name that is in the DAG: what  *)
(* AddTasks left out when it stopped can be added later.                   *)
RefusalsAreReal ==
  ~direct /\ result.is = "conflict" => result.name \in NamesOf(tasks)

(* However often a task is wired, it waits for what its last assigned      *)
(* expression says and for every task chained before it since: Then never  *)
(* changes what an expression meant, with an or in it or without.          *)
Atoms(e) == {e[i] : i \in DOMAIN e} \ {Open, Close, OrOp, AndOp, NotOp}

TasksRunAsWired ==
  \A t \in Task : \A yes \in SUBSET Atoms(depends[t]) :
    Holds(depends[t], yes) <=>
      /\ Holds(given[t], yes)
      /\ \A n \in since[t] : Done(n) \in yes

----------------------------------------------------------------------------
(* The inductive invariant behind UniqueTasks and RefusalsAreReal.         *)
Inv ==
  /\ TypeOK
  /\ ~direct => nodeNames = NamesOf(tasks)
  /\ UniqueTasks
  /\ RefusalsAreReal
============================================================================
