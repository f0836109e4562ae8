---------------------------- MODULE TemplateTree ----------------------------
(***************************************************************************)
(* Building a tree of templates.  A step of a Steps template and a task of *)
(* a DAG may hold another template, Inline, which BuildTemplate builds on  *)
(* the way; the pipeline of Build then completes and checks the templates  *)
(* at the top, and those only.  A program puts the tree together with      *)
(* pointers, so a template may occur several times, and inside itself.     *)
(***************************************************************************)
EXTENDS Templates, Integers, Sequences

CONSTANTS Node,         \* the template objects
          Shape,        \* what each of them is
          ByName,       \* a step that names its template
          Broken,       \* a step that BuildStep refuses for its own fields
          MaxTemplates, \* BOUND: the templates of the workflow
          MaxSteps,     \* BOUND: the number of steps of each composite
          MaxDepth      \* BOUND: the calls that a goroutine's stack holds

ASSUME DepthAssumption == MaxDepth \in Nat \ {0}
ASSUME NodeAssumption == Shape \in [Node -> Templatable]
ASSUME StepsAssumption ==
  ByName \notin Node /\ Broken \notin Node /\ ByName # Broken

VARIABLES templates,    \* w.Templates
          steps,        \* the steps, or tasks, of each template
          defaultImage, \* whether the configuration has an image
          pc,           \* what the goroutine that builds is doing
          at,           \* the template of the workflow it is at
          stack,        \* its calls of BuildTemplate
          result,       \* the models so far, each at its path
          culprit       \* the path that the error names

program == <<templates, steps>>
vars == <<program, defaultImage, pc, at, stack, result, culprit>>

Frame == [node : Node, next : Nat]
Item == Node \union {ByName, Broken}
Holds == {n \in Node : Shape[n].kind \in {"steps", "dag"}}

Init ==
  /\ templates = << >>
  /\ steps = [n \in Node |-> << >>]
  /\ defaultImage \in BOOLEAN
  /\ pc = "idle"
  /\ at = 0
  /\ stack = << >>
  /\ result = {}
  /\ culprit = << >>

----------------------------------------------------------------------------
(* The program.  Writing a template forgets the last build's outcome.      *)

Forget ==
  /\ pc \in {"idle", "built", "failed"}
  /\ pc' = "idle"
  /\ result' = {}
  /\ culprit' = << >>
  /\ at' = 0
  /\ stack' = << >>
  /\ UNCHANGED defaultImage

AddTemplate(n) ==
  /\ Len(templates) < MaxTemplates
  /\ templates' = Append(templates, n)
  /\ UNCHANGED steps
  /\ Forget

(* A step whose Inline, if any, is the given template.                     *)
AddStep(n, item) ==
  /\ Len(steps[n]) < MaxSteps[n]
  /\ steps' = [steps EXCEPT ![n] = Append(@, item)]
  /\ UNCHANGED templates
  /\ Forget

SetImage(set) ==
  /\ pc # "overflow"
  /\ defaultImage' = set
  /\ UNCHANGED <<program, pc, at, stack, result, culprit>>

----------------------------------------------------------------------------
(* Build.                                                                  *)

Start ==
  /\ pc = "idle"
  /\ pc' = "building"
  /\ at' = 1
  /\ UNCHANGED <<program, defaultImage, stack, result, culprit>>

Top == stack[Len(stack)]
Popped == SubSeq(stack, 1, Len(stack) - 1)
Advanced(calls) ==
  IF calls = << >> THEN calls ELSE [calls EXCEPT ![Len(calls)].next = @ + 1]

(* The template or step that the innermost call is at, and the template    *)
(* that the innermost call is about.                                       *)
Here == <<at>> \o [i \in DOMAIN stack |-> stack[i].next]
Caller == SubSeq(Here, 1, Len(stack))

Fail(path) ==
  /\ pc' = "failed"
  /\ culprit' = path
  /\ stack' = << >>
  /\ UNCHANGED <<at, result>>

(* Deviation for CyclesNeverReturn: too deep a tree is an error.           *)
CallToDepth(n) ==
  IF Len(stack) = MaxDepth \/ (n \in Holds /\ ~Shape[n].name)
  THEN Fail(Here)
  ELSE /\ stack' = Append(stack, [node |-> n, next |-> 1])
       /\ UNCHANGED <<pc, at, result, culprit>>

(* BuildTemplate is called.  A composite, Steps or DAG (dag.go:268), looks  *)
(* at its name before its steps or tasks.                                  *)
Call(n) ==
  IF Len(stack) = MaxDepth
  THEN pc' = "overflow" /\ UNCHANGED <<at, stack, result, culprit>>
  ELSE IF n \in Holds /\ ~Shape[n].name
  THEN Fail(Here)
  ELSE /\ stack' = Append(stack, [node |-> n, next |-> 1])
       /\ UNCHANGED <<pc, at, result, culprit>>

BuildTemplate ==
  /\ pc = "building"
  /\ stack = << >>
  /\ at \in DOMAIN templates
  /\ Call(templates[at])
  /\ UNCHANGED <<program, defaultImage>>

(* Deviation for BuiltIsTheTree: Inline is not built.                      *)
BuildStepShallow ==
  /\ pc = "building"
  /\ stack # << >>
  /\ Top.next \in DOMAIN steps[Top.node]
  /\ IF steps[Top.node][Top.next] = Broken
     THEN Fail(Here)
     ELSE stack' = Advanced(stack) /\ UNCHANGED <<pc, at, result, culprit>>
  /\ UNCHANGED <<program, defaultImage>>

(* Deviation for BuildsReturn: the template that has the step is built     *)
(* again, instead of the step's Inline.                                    *)
BuildStepOfCaller ==
  /\ pc = "building"
  /\ stack # << >>
  /\ Top.next \in DOMAIN steps[Top.node]
  /\ LET item == steps[Top.node][Top.next] IN
       \/ item = Broken /\ Fail(Here)
       \/ /\ item = ByName
          /\ stack' = Advanced(stack)
          /\ UNCHANGED <<pc, at, result, culprit>>
       \/ item \in Node /\ Call(Top.node)
  /\ UNCHANGED <<program, defaultImage>>

(* BuildStep and BuildDAGTask: the step's own fields, then its Inline.     *)
BuildStep ==
  /\ pc = "building"
  /\ stack # << >>
  /\ Top.next \in DOMAIN steps[Top.node]
  /\ LET item == steps[Top.node][Top.next] IN
       \/ item = Broken /\ Fail(Here)
       \/ /\ item = ByName
          /\ stack' = Advanced(stack)
          /\ UNCHANGED <<pc, at, result, culprit>>
       \/ item \in Node /\ Call(item)
  /\ UNCHANGED <<program, defaultImage>>

Entry(path, n) == [path |-> path, node |-> n, model |-> Model(Shape[n])]

(* Deviation for ErrorIsTheFirst: an inline template that does not build   *)
(* is left out.                                                            *)
ReturnQuietly ==
  /\ pc = "building"
  /\ stack # << >>
  /\ Top.next \notin DOMAIN steps[Top.node]
  /\ result' = IF Builds(Shape[Top.node])
               THEN result \union {Entry(Caller, Top.node)} ELSE result
  /\ stack' = Advanced(Popped)
  /\ pc' = IF Len(stack) > 1 THEN pc
           ELSE IF Builds(Shape[Top.node]) THEN "checking" ELSE "failed"
  /\ culprit' = IF pc' = "failed" THEN <<at>> ELSE culprit
  /\ UNCHANGED <<program, defaultImage, at>>

(* BuildTemplate returns: inputs and outputs come after the steps.         *)
Return ==
  /\ pc = "building"
  /\ stack # << >>
  /\ Top.next \notin DOMAIN steps[Top.node]
  /\ IF Builds(Shape[Top.node])
     THEN /\ result' = result \union {Entry(Caller, Top.node)}
          /\ stack' = Advanced(Popped)
          /\ pc' = IF Len(stack) = 1 THEN "checking" ELSE pc
          /\ UNCHANGED <<at, culprit>>
     ELSE Fail(Caller)
  /\ UNCHANGED <<program, defaultImage>>

(* ApplyTemplateDefaults on the model of a template at the top.            *)
Completed(m) ==
  IF m.kind \in Pod THEN [m EXCEPT !.bare = @ /\ ~defaultImage] ELSE m

(* Deviation for DefaultsStopAtTheTop: the image is not looked at.         *)
ValidUnits(m) == m.kind \in Pod => m.units

(* validateBuiltTemplate.                                                  *)
Valid(m) == m.kind \in Pod => ~m.bare /\ m.units

Check ==
  /\ pc = "checking"
  /\ \E e \in result :
       /\ e.path = <<at>>
       /\ IF Valid(Completed(e.model))
          THEN /\ result' = (result \ {e})
                              \union {[e EXCEPT !.model = Completed(@)]}
               /\ pc' = "building"
               /\ at' = at + 1
               /\ UNCHANGED <<stack, culprit>>
          ELSE Fail(<<at>>)
  /\ UNCHANGED <<program, defaultImage>>

Finish ==
  /\ pc = "building"
  /\ stack = << >>
  /\ at \notin DOMAIN templates
  /\ pc' = "built"
  /\ UNCHANGED <<program, defaultImage, at, stack, result, culprit>>

Build == Start \/ BuildTemplate \/ BuildStep \/ Return \/ Check \/ Finish

Next ==
  \/ \E n \in Node : AddTemplate(n)
  \/ \E n \in Holds, item \in Item : AddStep(n, item)
  \/ \E set \in BOOLEAN : SetImage(set)
  \/ Build

(* A goroutine that builds goes on; nobody has to start one.               *)
Spec == Init /\ [][Next]_vars /\ WF_vars(pc # "idle" /\ Build)

----------------------------------------------------------------------------
(* Properties.                                                             *)

TypeOK ==
  /\ templates \in Seq(Node)
  /\ steps \in [Node -> Seq(Item)]
  /\ defaultImage \in BOOLEAN
  /\ pc \in {"idle", "building", "checking", "built", "failed", "overflow"}
  /\ at \in Nat
  /\ stack \in Seq(Frame)
  /\ culprit \in Seq(Nat)

(* What Build comes across, level by level, without any recursion over the *)
(* tree: nothing below a composite without a name.                         *)
Reached(n) == {i \in DOMAIN steps[n] : Shape[n].name}
Inlined(n) == {i \in Reached(n) : steps[n][i] \in Node}
Level[d \in 1 .. MaxDepth] ==
  IF d = 1 THEN {[path |-> <<i>>, node |-> templates[i]] : i \in DOMAIN templates}
  ELSE UNION {{[path |-> Append(o.path, i), node |-> steps[o.node][i]] :
                 i \in Inlined(o.node)} : o \in Level[d - 1]}
Occurrences == UNION {Level[d] : d \in 1 .. MaxDepth}

(* Where something in the tree is wrong: a template or a step.             *)
Faults ==
  {o.path : o \in {o \in Occurrences : ~Builds(Shape[o.node])}} \union
  UNION {{Append(o.path, i) : i \in {i \in Reached(o.node) :
                                       steps[o.node][i] = Broken}} :
           o \in Occurrences}

(* A Build that succeeds made a model of every template that occurs in the *)
(* tree, at its place, and nothing in the tree was wrong.                  *)
BuiltIsTheTree ==
  pc = "built" =>
    /\ {[path |-> e.path, node |-> e.node] : e \in result} = Occurrences
    /\ Faults = {}

(* p is done before q: it is to the left of q, or inside q.                *)
Before(p, q) ==
  \/ \E i \in DOMAIN p \intersect DOMAIN q :
       p[i] < q[i] /\ \A j \in 1 .. i - 1 : p[j] = q[j]
  \/ Len(p) > Len(q) /\ SubSeq(p, 1, Len(q)) = q

(* The error of a Build that fails is about something that is wrong, in    *)
(* the tree or with the image or quantities of a template at the top, and  *)
(* everything that comes before it is in order.                            *)
ErrorIsTheFirst ==
  pc = "failed" =>
    /\ culprit \in Faults \union
         {<<i>> : i \in {i \in DOMAIN templates :
                           ~Valid(Model(Shape[templates[i]]))}}
    /\ \A p \in Faults : ~Before(p, culprit)

(* The default image, and the check that there is one, stop at the top:    *)
(* there no container or script is without, below nothing is changed.      *)
DefaultsStopAtTheTop ==
  pc = "built" =>
    \A e \in result :
      IF Len(e.path) = 1
      THEN e.model.bare => e.model.kind = "containerSet"
      ELSE e.model = Model(Shape[e.node])

(* A Build that meets a template inside itself neither succeeds nor fails: *)
(* it calls on, until the stack is exhausted and the process dies.         *)
Nested == \E i, j \in DOMAIN stack : i # j /\ stack[i].node = stack[j].node
CyclesNeverReturn == [][Nested => pc' \in {"building", "overflow"}]_vars

(* Any other Build returns.                                                *)
Reaches(n) == LET R[d \in 0 .. MaxDepth] ==
                    IF d = 0 THEN {steps[n][i] : i \in Inlined(n)}
                    ELSE R[d - 1] \union
                         UNION {{steps[m][i] : i \in Inlined(m)} : m \in R[d - 1]}
              IN R[MaxDepth]
Acyclic == \A n \in Node : n \notin Reaches(n)
BuildsReturn == (pc = "building" /\ Acyclic) ~> pc \in {"built", "failed"}

(* The inductive invariant behind DefaultsStopAtTheTop.  The models that   *)
(* are through Check are those at paths of one element before at; there is *)
(* one model at <<at>>, and only while it waits for Check.                 *)
Entries ==
  result \subseteq
    [path : Seq(Nat) \ {<< >>}, node : Node, model : TemplateModel]

AsBuilt(e) == e.model = Model(Shape[e.node])
Passed(e) == e.model.bare => e.model.kind = "containerSet"

EntriesOK ==
  \A e \in result :
    /\ e.path[1] <= at
    /\ IF Len(e.path) = 1 /\ e.path[1] < at THEN Passed(e) ELSE AsBuilt(e)
    /\ e.path = <<at>> => pc \in {"checking", "failed"}

OneToCheck ==
  \A e, f \in result : e.path = <<at>> /\ f.path = <<at>> => e = f

NothingYet == pc = "idle" => result = {}

Inv == TypeOK /\ Entries /\ EntriesOK /\ OneToCheck /\ NothingYet

(* The inductive invariant behind BuiltIsTheTree, ErrorIsTheFirst and      *)
(* CyclesNeverReturn.  Chain: what the templates on the way to a place     *)
(* are; the stack is one, and every model is at the end of one.  What is   *)
(* below a finished template, or left of where a call is, is finished and  *)
(* in order.                                                               *)
Chain(path, ns) ==
  /\ path[1] \in DOMAIN templates /\ ns[1] = templates[path[1]]
  /\ \A k \in 2 .. Len(path) : /\ path[k] \in Inlined(ns[k - 1])
                             /\ ns[k] = steps[ns[k - 1]][path[k]]

Occurs(o) ==
  \E ns \in [1 .. Len(o.path) -> Node] :
    Chain(o.path, ns) /\ ns[Len(o.path)] = o.node

Place == [path : Seq(Nat) \ {<< >>}, node : Node]
Done == {[path |-> e.path, node |-> e.node] : e \in result}
InCall(k) == [path |-> SubSeq(Here, 1, k), node |-> stack[k].node]
Nodes == [k \in DOMAIN stack |-> stack[k].node]

StepDone(o, i) ==
  /\ steps[o.node][i] # Broken
  /\ steps[o.node][i] \in Node =>
       [path |-> Append(o.path, i), node |-> steps[o.node][i]] \in Done

DoneOK ==
  \A o \in Done : /\ Len(o.path) <= MaxDepth
                 /\ Occurs(o)
                 /\ Builds(Shape[o.node])
                 /\ \A i \in DOMAIN steps[o.node] : StepDone(o, i)

StackOK ==
  /\ stack # << >> => /\ pc \in {"building", "overflow"}
                      /\ Chain(SubSeq(Here, 1, Len(stack)), Nodes)
  /\ Len(stack) <= MaxDepth
  /\ \A k \in DOMAIN stack :
       /\ stack[k].node \in Holds => Shape[stack[k].node].name
       /\ stack[k].next >= 1
       /\ \A i \in DOMAIN steps[stack[k].node] :
            i < stack[k].next => StepDone(InCall(k), i)

RootDone(i) == [path |-> <<i>>, node |-> templates[i]] \in Done

RootsOK ==
  /\ \A i \in DOMAIN templates : i < at => RootDone(i)
  /\ pc \in {"building", "checking", "built"} => at >= 1
  /\ pc = "checking" => at \in DOMAIN templates /\ RootDone(at)
  /\ pc = "built" => at \notin DOMAIN templates
  /\ pc = "idle" => at = 0

LeavesOK == \A n \in Node \ Holds : steps[n] = << >>

TreeOK == LeavesOK /\ StackOK /\ DoneOK /\ RootsOK

(* "Dependencies are container names that must complete first"             *)
(* (templates.go:31): the containers of a set that were to wait still do.  *)
ContainersWait ==
  pc = "built" =>
    \A e \in result : e.model.kind = "containerSet" /\ Shape[e.node].waits
                        => e.model.waits
============================================================================
