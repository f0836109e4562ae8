------------------------- MODULE TemplateTreeProofs -------------------------
(***************************************************************************)
(* Proofs about TemplateTree.  Inv, of the models, gives                   *)
(* DefaultsStopAtTheTop.  TreeOK, of the calls and the models, gives the   *)
(* other three: the templates that are built are closed downwards and      *)
(* contain everything left of a call, so a Build that succeeds has built   *)
(* all that occurs (BuiltIsTheTree), one that fails has left nothing wrong *)
(* behind it (ErrorIsTheFirst), and one inside a cycle only meets what is  *)
(* built or on the cycle, which it does not refuse (CyclesNeverReturn).    *)
(***************************************************************************)
EXTENDS TemplateTree, SequenceTheorems, WellFoundedInduction, TLAPS

(* What BuildTemplate makes of a template is a model, which lacks an image *)
(* only if it is of a kind that has one.                                   *)
LEMMA ModelType ==
  ASSUME NEW n \in Node
  PROVE  /\ Model(Shape[n]) \in TemplateModel
         /\ Model(Shape[n]).bare =>
              Model(Shape[n]).kind \in Pod \union {"containerSet"}
<1>1. Shape[n] \in Templatable BY NodeAssumption
<1>2. Shape[n].kind \in Kind
  <2>1. CASE Shape[n] \in Container BY <2>1 DEF Container, Kind
  <2>2. CASE Shape[n] \in Script BY <2>2 DEF Script, Kind
  <2>3. CASE Shape[n] \in ContainerSet BY <2>3 DEF ContainerSet, Kind
  <2>4. CASE Shape[n] \in ResourceTemplate BY <2>4 DEF ResourceTemplate, Kind
  <2>5. CASE Shape[n] \in Suspend BY <2>5 DEF Suspend, Kind
  <2>6. CASE Shape[n] \in HTTPTemplate BY <2>6 DEF HTTPTemplate, Kind
  <2>7. CASE Shape[n] \in Composite BY <2>7 DEF Composite, Kind
  <2> QED BY <1>1, <2>1, <2>2, <2>3, <2>4, <2>5, <2>6, <2>7 DEF Templatable
<1>3. CASE Shape[n].kind \in Pod
  <2>1. Shape[n] \in Container \union Script
    BY <1>1, <1>3 DEF Templatable, Pod, Container, Script, ContainerSet,
              ResourceTemplate, Suspend, HTTPTemplate, Composite
  <2>2. Shape[n].image \in BOOLEAN /\ Shape[n].units \in BOOLEAN
    BY <2>1 DEF Container, Script
  <2> QED BY <1>2, <1>3, <2>2 DEF Model, TemplateModel, Pod, NodesWait
<1>4. CASE Shape[n].kind \notin Pod
  BY <1>2, <1>4 DEF Model, TemplateModel, NodesWait
<1> QED BY <1>3, <1>4

(* Where Build is: one number for the workflow, one for each call.         *)
LEMMA HereType ==
  ASSUME stack \in Seq(Frame), at \in Nat
  PROVE  /\ Here \in Seq(Nat)
         /\ Len(Here) = Len(stack) + 1
         /\ Here[1] = at
<1> DEFINE nexts == [i \in DOMAIN stack |-> stack[i].next]
<1>1. nexts \in Seq(Nat) /\ Len(nexts) = Len(stack)
  <2>1. DOMAIN stack = 1 .. Len(stack) /\ Len(stack) \in Nat OBVIOUS
  <2>2. \A i \in 1 .. Len(stack) : stack[i].next \in Nat
    <3>1. \A i \in 1 .. Len(stack) : stack[i] \in Frame OBVIOUS
    <3> QED BY <3>1 DEF Frame
  <2>3. nexts = [i \in 1 .. Len(stack) |-> stack[i].next] BY <2>1
  <2> QED BY <2>1, <2>2, <2>3
<1>2. Here = <<at>> \o nexts BY DEF Here
<1> HIDE DEF nexts
<1> QED BY <1>1, <1>2

(* The path of the template that the innermost call is about.              *)
LEMMA CallerType ==
  ASSUME stack \in Seq(Frame), stack # << >>, at \in Nat
  PROVE  /\ Caller \in Seq(Nat) \ {<< >>}
         /\ Len(Caller) = Len(stack)
         /\ Caller[1] = at
         /\ Len(stack) = 1 => Caller = <<at>>
         /\ Len(stack) # 1 => Caller # <<at>>
<1>1. /\ Here \in Seq(Nat)
      /\ Len(Here) = Len(stack) + 1
      /\ Here[1] = at
  BY HereType
<1>2. Len(stack) \in Nat /\ Len(stack) >= 1 OBVIOUS
<1>3. Caller = SubSeq(Here, 1, Len(stack)) BY DEF Caller
<1> HIDE DEF Here, Caller
<1>4. Caller \in Seq(Nat) /\ Len(Caller) = Len(stack) /\ Caller[1] = at
  BY <1>1, <1>2, <1>3
<1>5. Caller # << >> BY <1>2, <1>4
<1>6. ASSUME Len(stack) = 1 PROVE Caller = <<at>>
  <2>1. Len(Caller) = 1 /\ Caller[1] = at BY <1>4, <1>6
  <2> QED BY <1>4, <2>1
<1>7. ASSUME Len(stack) # 1 PROVE Caller # <<at>>
  BY <1>4, <1>7
<1> QED BY <1>4, <1>5, <1>6, <1>7

LEMMA TopType ==
  ASSUME stack \in Seq(Frame), stack # << >>
  PROVE  Top.node \in Node /\ Top.next \in Nat
<1>1. Len(stack) \in 1 .. Len(stack)
  <2>1. Len(stack) \in Nat /\ Len(stack) # 0 OBVIOUS
  <2> QED BY <2>1
<1>2. Top \in Frame BY <1>1 DEF Top
<1> QED BY <1>2 DEF Frame

(* Advancing the innermost call leaves a stack a stack.                    *)
LEMMA AdvancedType ==
  ASSUME NEW calls \in Seq(Frame)
  PROVE  Advanced(calls) \in Seq(Frame)
<1>1. CASE calls = << >> BY <1>1 DEF Advanced
<1>2. CASE calls # << >>
  <2>1. Len(calls) \in 1 .. Len(calls)
    <3>1. Len(calls) \in Nat /\ Len(calls) # 0 BY <1>2
    <3> QED BY <3>1
  <2>2. calls[Len(calls)] \in Frame BY <2>1
  <2>3. [calls[Len(calls)] EXCEPT !.next = @ + 1] \in Frame BY <2>2 DEF Frame
  <2> DEFINE advanced == [calls[Len(calls)] EXCEPT !.next = @ + 1]
  <2>4. Advanced(calls) = [calls EXCEPT ![Len(calls)] = advanced]
    BY <1>2 DEF Advanced
  <2> HIDE DEF advanced
  <2>5. advanced \in Frame BY <2>3 DEF advanced
  <2> QED BY <2>1, <2>4, <2>5
<1> QED BY <1>1, <1>2

(* The invariant speaks of the result, of at and of pc only, once the      *)
(* types are known: a step that leaves the result alone, and at, and does  *)
(* not leave Check without a verdict, keeps it.                            *)
LEMMA SameResult ==
  ASSUME Inv, TypeOK', result' = result, at' = at,
         pc = "checking" => pc' \in {"checking", "failed"},
         pc = "failed" => pc' = "failed",
         pc' = "idle" => pc = "idle"
  PROVE  Inv'
<1>1. Entries' BY DEF Inv, Entries
<1>2. EntriesOK' BY DEF Inv, EntriesOK, AsBuilt, Passed
<1>3. OneToCheck' BY DEF Inv, OneToCheck
<1>4. NothingYet' BY DEF Inv, NothingYet
<1> QED BY <1>1, <1>2, <1>3, <1>4 DEF Inv

(* Forgetting the outcome of a Build.                                      *)
LEMMA ForgetOK ==
  ASSUME TypeOK', result' = {}
  PROVE  Inv'
BY DEF Inv, Entries, EntriesOK, OneToCheck, NothingYet

LEMMA FailOK ==
  ASSUME Inv, NEW path \in Seq(Nat), Fail(path),
         UNCHANGED <<program, defaultImage>>
  PROVE  Inv'
<1>1. TypeOK' BY DEF Inv, TypeOK, Fail, program
<1> QED BY <1>1, SameResult DEF Fail

(* Advancing past a step of the innermost call.                            *)
LEMMA AdvanceOK ==
  ASSUME Inv, stack' = Advanced(stack), UNCHANGED <<pc, at, result, culprit>>,
         UNCHANGED <<program, defaultImage>>
  PROVE  Inv'
<1>1. stack' \in Seq(Frame) BY AdvancedType DEF Inv, TypeOK
<1>2. TypeOK' BY <1>1 DEF Inv, TypeOK, program
<1> QED BY <1>2, SameResult

LEMMA CallOK ==
  ASSUME Inv, pc = "building", NEW n \in Node, Call(n),
         UNCHANGED <<program, defaultImage>>
  PROVE  Inv'
<1>1. CASE Len(stack) = MaxDepth
  <2>1. pc' = "overflow" /\ UNCHANGED <<at, stack, result, culprit>>
    BY <1>1 DEF Call
  <2>2. TypeOK' BY <2>1 DEF Inv, TypeOK, program
  <2> QED BY <2>1, <2>2, SameResult
<1>2. CASE Len(stack) # MaxDepth /\ n \in Holds /\ ~Shape[n].name
  <2>1. Fail(Here) BY <1>2 DEF Call
  <2>2. Here \in Seq(Nat) BY HereType DEF Inv, TypeOK
  <2> QED BY <2>1, <2>2, FailOK
<1>3. CASE Len(stack) # MaxDepth /\ ~(n \in Holds /\ ~Shape[n].name)
  <2>1. /\ stack' = Append(stack, [node |-> n, next |-> 1])
        /\ UNCHANGED <<pc, at, result, culprit>>
    BY <1>3 DEF Call
  <2>2. [node |-> n, next |-> 1] \in Frame BY DEF Frame
  <2>3. stack' \in Seq(Frame) BY <2>1, <2>2 DEF Inv, TypeOK
  <2>4. TypeOK' BY <2>1, <2>3 DEF Inv, TypeOK, program
  <2> QED BY <2>1, <2>4, SameResult
<1> QED BY <1>1, <1>2, <1>3

(* The models of a template that is built, and of one that passed Check.   *)
LEMMA ReturnOK ==
  ASSUME Inv, Return
  PROVE  Inv'
<1> USE DEF Inv
<1>1. pc = "building" /\ stack # << >> BY DEF Return
<1>2. stack \in Seq(Frame) /\ at \in Nat BY DEF TypeOK
<1>3. /\ Caller \in Seq(Nat) \ {<< >>}
      /\ Len(Caller) = Len(stack)
      /\ Caller[1] = at
      /\ Len(stack) = 1 => Caller = <<at>>
      /\ Len(stack) # 1 => Caller # <<at>>
  BY <1>1, <1>2, CallerType
<1> HIDE DEF Inv
<1>4. CASE ~Builds(Shape[Top.node])
  <2>1. Fail(Caller) /\ UNCHANGED <<program, defaultImage>>
    BY <1>4 DEF Return
  <2> QED BY <2>1, <1>3, FailOK
<1>5. CASE Builds(Shape[Top.node])
  <2> DEFINE new == Entry(Caller, Top.node)
  <2>1. /\ result' = result \union {new}
        /\ stack' = Advanced(Popped)
        /\ pc' = IF Len(stack) = 1 THEN "checking" ELSE pc
        /\ UNCHANGED <<at, culprit, program, defaultImage>>
    BY <1>5 DEF Return
  <2>2. TypeOK'
    <3>1. Popped \in Seq(Frame) BY <1>1, <1>2 DEF Popped
    <3>2. stack' \in Seq(Frame) BY <2>1, <3>1, AdvancedType
    <3> QED BY <2>1, <3>2 DEF Inv, TypeOK, program
  <2>3. Top.node \in Node BY <1>1, <1>2, TopType
  <2>4. /\ new.path = Caller
        /\ new.node = Top.node
        /\ new.model = Model(Shape[Top.node])
        /\ new \in [path : Seq(Nat) \ {<< >>}, node : Node, model : TemplateModel]
    BY <1>3, <2>3, ModelType DEF Entry
  <2> HIDE DEF new
  <2>5. Entries' BY <2>1, <2>4 DEF Inv, Entries, TemplateModel
  <2>6. \A e \in result : e.path # <<at>> BY <1>1 DEF Inv, EntriesOK
  <2>7. EntriesOK'
    <3> SUFFICES ASSUME NEW e \in result'
                 PROVE  /\ e.path[1] <= at
                        /\ IF Len(e.path) = 1 /\ e.path[1] < at
                           THEN Passed(e) ELSE AsBuilt(e)
                        /\ e.path = <<at>> => pc' \in {"checking", "failed"}
      BY <2>1 DEF EntriesOK, Passed, AsBuilt
    <3>1. CASE e = new
      <4>1. e.path[1] <= at /\ ~(e.path[1] < at)
        BY <3>1, <2>4, <1>2, <1>3
      <4>2. AsBuilt(e) BY <3>1, <2>4 DEF AsBuilt
      <4>3. e.path = <<at>> => pc' \in {"checking", "failed"}
        BY <3>1, <2>4, <1>3, <2>1
      <4> QED BY <4>1, <4>2, <4>3
    <3>2. CASE e # new
      <4>1. e \in result BY <3>2, <2>1
      <4> QED BY <4>1, <2>6 DEF Inv, EntriesOK
    <3> QED BY <3>1, <3>2
  <2>8. OneToCheck' BY <2>1, <2>6 DEF OneToCheck
  <2>9. NothingYet' BY <1>1, <2>1 DEF NothingYet
  <2> QED BY <2>2, <2>5, <2>7, <2>8, <2>9 DEF Inv
<1> QED BY <1>4, <1>5

(* What the defaults and the check of a built template leave.              *)
LEMMA CompletedOK ==
  ASSUME NEW m \in TemplateModel, Valid(Completed(m)),
         m.bare => m.kind \in Pod \union {"containerSet"},
         defaultImage \in BOOLEAN
  PROVE  /\ Completed(m) \in TemplateModel
         /\ Completed(m).bare => Completed(m).kind = "containerSet"
<1>1. CASE m.kind \in Pod
  <2>1. Completed(m) = [m EXCEPT !.bare = @ /\ ~defaultImage]
    BY <1>1 DEF Completed
  <2>2. (m.bare /\ ~defaultImage) \in BOOLEAN OBVIOUS
  <2>3. Completed(m) \in TemplateModel /\ Completed(m).kind = m.kind
    BY <2>1, <2>2 DEF TemplateModel
  <2>4. ~Completed(m).bare BY <1>1, <2>3 DEF Valid
  <2> QED BY <2>3, <2>4
<1>2. CASE m.kind \notin Pod
  BY <1>2 DEF Completed
<1> QED BY <1>1, <1>2

LEMMA CheckOK ==
  ASSUME Inv, Check
  PROVE  Inv'
<1>1. PICK e \in result :
        /\ e.path = <<at>>
        /\ IF Valid(Completed(e.model))
           THEN /\ result' = (result \ {e})
                               \union {[e EXCEPT !.model = Completed(@)]}
                /\ pc' = "building"
                /\ at' = at + 1
                /\ UNCHANGED <<stack, culprit>>
           ELSE Fail(<<at>>)
  BY DEF Check
<1>2. pc = "checking" /\ UNCHANGED <<program, defaultImage>> BY DEF Check
<1>3. at \in Nat /\ defaultImage \in BOOLEAN BY DEF Inv, TypeOK
<1>4. CASE ~Valid(Completed(e.model))
  <2>1. Fail(<<at>>) BY <1>1, <1>4
  <2>2. <<at>> \in Seq(Nat) BY <1>3
  <2> QED BY <2>1, <2>2, <1>2, FailOK
<1>5. CASE Valid(Completed(e.model))
  <2> DEFINE done == [e EXCEPT !.model = Completed(@)]
  <2>1. /\ result' = (result \ {e}) \union {done}
        /\ pc' = "building"
        /\ at' = at + 1
        /\ UNCHANGED <<stack, culprit, program, defaultImage>>
    BY <1>1, <1>2, <1>5
  <2>2. TypeOK' BY <2>1, <1>3 DEF Inv, TypeOK, program
  <2>3. e \in [path : Seq(Nat) \ {<< >>}, node : Node, model : TemplateModel]
    BY DEF Inv, Entries, TemplateModel
  <2>4. e.model = Model(Shape[e.node])
    <3>1. e.path[1] = at /\ ~(e.path[1] < at) BY <1>1, <1>3
    <3> QED BY <3>1 DEF Inv, EntriesOK, AsBuilt
  <2>5. e.model.bare => e.model.kind \in Pod \union {"containerSet"}
    BY <2>3, <2>4, ModelType
  <2>6. /\ Completed(e.model) \in TemplateModel
        /\ Completed(e.model).bare => Completed(e.model).kind = "containerSet"
    BY <1>3, <1>5, <2>3, <2>5, CompletedOK
  <2>7. /\ done.path = <<at>>
        /\ done.model = Completed(e.model)
        /\ done \in [path : Seq(Nat) \ {<< >>}, node : Node, model : TemplateModel]
    BY <1>1, <2>3, <2>6
  <2> HIDE DEF done
  <2>8. Entries' BY <2>1, <2>7 DEF Inv, Entries, TemplateModel
  <2>9. \A f \in result \ {e} : f.path # <<at>> BY <1>1 DEF Inv, OneToCheck
  <2>10. EntriesOK'
    <3> SUFFICES ASSUME NEW f \in result'
                 PROVE  /\ f.path[1] <= at + 1
                        /\ IF Len(f.path) = 1 /\ f.path[1] < at + 1
                           THEN Passed(f) ELSE AsBuilt(f)
                        /\ f.path # <<at + 1>>
      BY <2>1 DEF EntriesOK, Passed, AsBuilt
    <3>1. CASE f = done
      <4>1. Len(f.path) = 1 /\ f.path[1] = at BY <3>1, <2>7, <1>3
      <4>2. Passed(f) BY <3>1, <2>6, <2>7 DEF Passed
      <4>3. f.path # <<at + 1>> BY <4>1, <1>3
      <4> QED BY <4>1, <4>2, <4>3, <1>3
    <3>2. CASE f # done
      <4>1. f \in result \ {e} BY <3>2, <2>1
      <4>2. /\ f.path \in Seq(Nat) \ {<< >>}
            /\ f.path[1] <= at
            /\ IF Len(f.path) = 1 /\ f.path[1] < at THEN Passed(f) ELSE AsBuilt(f)
        BY <4>1 DEF Inv, Entries, EntriesOK
      <4>3. f.path[1] \in Nat
        <5>1. Len(f.path) \in Nat /\ Len(f.path) # 0 BY <4>2
        <5> QED BY <4>2, <5>1
      <4>4. Len(f.path) = 1 => f.path[1] # at
        <5>1. Len(f.path) = 1 /\ f.path[1] = at => f.path = <<at>> BY <4>2
        <5> QED BY <5>1, <4>1, <2>9
      <4>5. f.path # <<at + 1>>
        <5>1. f.path[1] # at + 1 BY <4>2, <4>3, <1>3
        <5> QED BY <5>1, <1>3
      <4> QED BY <4>2, <4>3, <4>4, <4>5, <1>3
    <3> QED BY <3>1, <3>2
  <2>11. OneToCheck'
    <3>1. \A f \in result' : f.path # <<at'>>
      BY <2>1, <2>10 DEF EntriesOK
    <3> QED BY <3>1 DEF OneToCheck
  <2>12. NothingYet' BY <2>1 DEF NothingYet
  <2> QED BY <2>2, <2>8, <2>10, <2>11, <2>12 DEF Inv
<1> QED BY <1>4, <1>5

(* Inv holds in every behaviour: what the pipeline did to a template, and  *)
(* what it did not do to the templates inside it, stays so while the       *)
(* others are built.                                                       *)
THEOREM Invariance == Spec => []Inv
<1>1. Init => Inv
  <2> SUFFICES ASSUME Init PROVE Inv OBVIOUS
  <2>1. TypeOK BY DEF Init, TypeOK
  <2> QED BY <2>1 DEF Init, Inv, Entries, EntriesOK, OneToCheck,
                       NothingYet
<1>2. Inv /\ [Next]_vars => Inv'
  <2> SUFFICES ASSUME Inv, [Next]_vars PROVE Inv' OBVIOUS
  <2>1. ASSUME NEW n \in Node, AddTemplate(n) PROVE Inv'
    <3>1. TypeOK' BY <2>1 DEF AddTemplate, Forget, Inv, TypeOK
    <3> QED BY <3>1, <2>1, ForgetOK DEF AddTemplate, Forget
  <2>2. ASSUME NEW n \in Holds, NEW item \in Item, AddStep(n, item) PROVE Inv'
    <3>1. n \in Node BY DEF Holds
    <3>2. Append(steps[n], item) \in Seq(Item) BY <3>1 DEF Inv, TypeOK
    <3>3. steps' \in [Node -> Seq(Item)]
      BY <2>2, <3>1, <3>2 DEF AddStep, Inv, TypeOK
    <3>4. TypeOK' BY <2>2, <3>3 DEF AddStep, Forget, Inv, TypeOK
    <3> QED BY <3>4, <2>2, ForgetOK DEF AddStep, Forget
  <2>3. ASSUME NEW set \in BOOLEAN, SetImage(set) PROVE Inv'
    <3>1. TypeOK' BY <2>3 DEF SetImage, program, Inv, TypeOK
    <3> QED BY <3>1, <2>3, SameResult DEF SetImage
  <2>4. CASE Start
    <3>1. TypeOK' BY <2>4 DEF Start, program, Inv, TypeOK
    <3>2. result' = {} BY <2>4 DEF Start, Inv, NothingYet
    <3> QED BY <3>1, <3>2, ForgetOK
  <2>5. CASE BuildTemplate
    <3>1. templates[at] \in Node BY <2>5 DEF BuildTemplate, Inv, TypeOK
    <3> QED BY <2>5, <3>1, CallOK DEF BuildTemplate
  <2>6. CASE BuildStep
    <3> DEFINE item == steps[Top.node][Top.next]
    <3>1. /\ pc = "building"
          /\ stack # << >>
          /\ Top.next \in DOMAIN steps[Top.node]
          /\ \/ item = Broken /\ Fail(Here)
             \/ /\ item = ByName
                /\ stack' = Advanced(stack)
                /\ UNCHANGED <<pc, at, result, culprit>>
             \/ item \in Node /\ Call(item)
          /\ UNCHANGED <<program, defaultImage>>
      BY <2>6 DEF BuildStep
    <3>2. Here \in Seq(Nat) BY HereType DEF Inv, TypeOK
    <3> HIDE DEF item
    <3>3. CASE item = Broken /\ Fail(Here) BY <3>1, <3>2, <3>3, FailOK
    <3>4. CASE /\ item = ByName
               /\ stack' = Advanced(stack)
               /\ UNCHANGED <<pc, at, result, culprit>>
      BY <3>1, <3>4, AdvanceOK
    <3>5. CASE item \in Node /\ Call(item) BY <3>1, <3>5, CallOK
    <3> QED BY <3>1, <3>3, <3>4, <3>5
  <2>7. CASE Return BY <2>7, ReturnOK
  <2>8. CASE Check BY <2>8, CheckOK
  <2>9. CASE Finish
    <3>1. TypeOK' BY <2>9 DEF Finish, program, Inv, TypeOK
    <3> QED BY <3>1, <2>9, SameResult DEF Finish
  <2>10. CASE UNCHANGED vars
    <3>1. TypeOK' BY <2>10 DEF vars, program, Inv, TypeOK
    <3> QED BY <3>1, <2>10, SameResult DEF vars
  <2> QED BY <2>1, <2>2, <2>3, <2>4, <2>5, <2>6, <2>7, <2>8, <2>9, <2>10
          DEF Next, Build
<1> QED BY <1>1, <1>2, PTL DEF Spec

(* At the top no container or script is built without an image, and        *)
(* nothing below is completed, whatever the tree: no container inside      *)
(* another template ever gets the default image, or is refused for want of *)
(* one.                                                                    *)
THEOREM ImagesOnlyAtTheTop == Spec => []DefaultsStopAtTheTop
<1>1. Inv => DefaultsStopAtTheTop
  <2> SUFFICES ASSUME Inv, pc = "built", NEW e \in result
               PROVE  IF Len(e.path) = 1
                      THEN e.model.bare => e.model.kind = "containerSet"
                      ELSE e.model = Model(Shape[e.node])
    BY DEF DefaultsStopAtTheTop
  <2>1. /\ e.path \in Seq(Nat) \ {<< >>}
        /\ e.path[1] <= at
        /\ IF Len(e.path) = 1 /\ e.path[1] < at THEN Passed(e) ELSE AsBuilt(e)
        /\ e.path # <<at>>
        /\ at \in Nat
    BY DEF Inv, TypeOK, Entries, EntriesOK
  <2>2. CASE Len(e.path) = 1
    <3>1. e.path[1] \in Nat BY <2>1, <2>2
    <3>2. e.path[1] # at BY <2>1, <2>2
    <3>3. e.path[1] < at BY <2>1, <3>1, <3>2
    <3> QED BY <2>1, <2>2, <3>3 DEF Passed
  <2>3. CASE Len(e.path) # 1 BY <2>1, <2>3 DEF AsBuilt
  <2> QED BY <2>2, <2>3
<1> QED BY <1>1, Invariance, PTL

----------------------------------------------------------------------------
(* Sets of numbers: the least, the greatest, and all of them.              *)
LEMMA Least ==
  ASSUME NEW T \in SUBSET Nat, T # {}
  PROVE  \E m \in T : \A n \in T : m <= n
<1> DEFINE R == OpToRel(<, Nat)
<1>1. IsWellFoundedOn(R, Nat)
  BY NatLessThanWellFounded
<1>2. \A x, y \in Nat : x < y => <<x, y>> \in R
  BY DEF OpToRel
<1> HIDE DEF R
<1>3. PICK x \in T : \A y \in T : ~(<<y, x>> \in R)
  BY <1>1, WFMin
<1>4. ASSUME NEW y \in T, y < x PROVE FALSE
  BY <1>2, <1>3, <1>4, Zenon
<1>5. \A y \in T : x <= y
  BY <1>4
<1> QED
  BY <1>5

(* A bounded set of numbers has a greatest one.                            *)
LEMMA Greatest ==
  ASSUME NEW T \in SUBSET Nat, T # {}, NEW b \in Nat, \A n \in T : n <= b
  PROVE  \E m \in T : \A n \in T : n <= m
<1> DEFINE U == {n \in Nat : b - n \in T}
<1>1. PICK t \in T : TRUE
  OBVIOUS
<1>2. b - t \in U
  <2>1. t \in Nat /\ t <= b
    OBVIOUS
  <2>2. b - t \in Nat /\ b - (b - t) = t
    BY <2>1
  <2> QED
    BY <2>2
<1>3. PICK u \in U : \A n \in U : u <= n
  BY <1>2, Least
<1>4. ASSUME NEW n \in T PROVE n <= b - u
  <2>1. n \in Nat /\ n <= b /\ b - n \in Nat /\ b - (b - n) = n
    OBVIOUS
  <2>2. b - n \in U
    BY <2>1
  <2>3. u <= b - n
    BY <1>3, <2>2
  <2> QED
    BY <2>1, <2>3
<1> QED
  BY <1>4

(* Induction, over a set that is named first: the theorems of the library  *)
(* that take a predicate cannot be instantiated.                           *)
LEMMA SetInduction ==
  ASSUME NEW S, 0 \in S, \A n \in Nat : n \in S => n + 1 \in S
  PROVE  Nat \subseteq S
<1> DEFINE T == Nat \ S
<1> SUFFICES ASSUME T # {} PROVE FALSE
  OBVIOUS
<1>1. PICK m \in T : \A n \in T : m <= n
  BY Least
<1>2. m # 0 /\ m - 1 \in Nat
  BY <1>1
<1>3. m - 1 \in S
  BY <1>1, <1>2
<1> QED
  BY <1>1, <1>2, <1>3

----------------------------------------------------------------------------
(* Where the calls of a stack are.                                         *)

PathTo(a, st, k) == [i \in 1 .. k |-> IF i = 1 THEN a ELSE st[i - 1].next]

(* A path to the k-th call of a stack has k numbers: the place of its      *)
(* template in the workflow, then the step that each call is at.           *)
IsPath(p, a, st, k) ==
  /\ p \in Seq(Nat) /\ p # << >>
  /\ Len(p) = k /\ DOMAIN p = 1 .. k
  /\ p[1] = a
  /\ \A i \in 2 .. k : p[i] = st[i - 1].next

LEMMA PathToType ==
  ASSUME NEW a \in Nat, NEW st \in Seq(Frame), NEW k \in 1 .. Len(st) + 1
  PROVE  IsPath(PathTo(a, st, k), a, st, k)
<1> DEFINE p == PathTo(a, st, k)
<1>1. k \in Nat /\ k >= 1 /\ DOMAIN st = 1 .. Len(st) /\ Len(st) \in Nat
  OBVIOUS
<1>2. \A i \in 1 .. k : p[i] \in Nat
  <2> SUFFICES ASSUME NEW i \in 1 .. k, i # 1 PROVE st[i - 1].next \in Nat
    BY DEF PathTo
  <2>1. i - 1 \in 1 .. Len(st)
    BY <1>1
  <2>2. st[i - 1] \in Frame
    BY <2>1
  <2> QED
    BY <2>2 DEF Frame
<1>3. p \in [1 .. k -> Nat]
  BY <1>2 DEF PathTo
<1>4. p \in Seq(Nat) /\ Len(p) = k
  BY <1>1, <1>3
<1>5. p # << >>
  BY <1>1, <1>4
<1>6. p[1] = a /\ \A i \in 2 .. k : p[i] = st[i - 1].next
  BY <1>1 DEF PathTo
<1>7. DOMAIN p = 1 .. k
  BY <1>3
<1> HIDE DEF p
<1>8. IsPath(p, a, st, k)
  BY <1>4, <1>5, <1>6, <1>7 DEF IsPath
<1> QED
  BY <1>8 DEF p

LEMMA PathToCaller ==
  \A a \in Nat, st \in Seq(Frame) : st # << >> =>
    /\ Len(PathTo(a, st, Len(st))) = Len(st)
    /\ PathTo(a, st, Len(st))[1] = a
    /\ \A i \in 2 .. Len(st) : PathTo(a, st, Len(st))[i] = st[i - 1].next
<1> SUFFICES ASSUME NEW a \in Nat, NEW st \in Seq(Frame), st # << >>
             PROVE  /\ Len(PathTo(a, st, Len(st))) = Len(st)
                    /\ PathTo(a, st, Len(st))[1] = a
                    /\ \A i \in 2 .. Len(st) : PathTo(a, st, Len(st))[i] = st[i - 1].next
  OBVIOUS
<1>1. Len(st) \in 1 .. Len(st) + 1
  <2>1. Len(st) \in Nat /\ Len(st) # 0
    OBVIOUS
  <2> QED
    BY <2>1
<1>2. IsPath(PathTo(a, st, Len(st)), a, st, Len(st))
  BY <1>1, PathToType
<1> QED
  BY <1>2 DEF IsPath

LEMMA PathToEnd ==
  \A a \in Nat, st \in Seq(Frame) :
    /\ PathTo(a, st, Len(st) + 1) \in Seq(Nat)
    /\ Len(PathTo(a, st, Len(st) + 1)) = Len(st) + 1
    /\ PathTo(a, st, Len(st) + 1)[1] = a
    /\ \A i \in 2 .. Len(st) + 1 : PathTo(a, st, Len(st) + 1)[i] = st[i - 1].next
<1> SUFFICES ASSUME NEW a \in Nat, NEW st \in Seq(Frame)
             PROVE  /\ PathTo(a, st, Len(st) + 1) \in Seq(Nat)
                    /\ Len(PathTo(a, st, Len(st) + 1)) = Len(st) + 1
                    /\ PathTo(a, st, Len(st) + 1)[1] = a
                    /\ \A i \in 2 .. Len(st) + 1 :
                         PathTo(a, st, Len(st) + 1)[i] = st[i - 1].next
  OBVIOUS
<1>1. PICK k \in 1 .. Len(st) + 1 : k = Len(st) + 1
  OBVIOUS
<1>2. IsPath(PathTo(a, st, k), a, st, k)
  BY PathToType
<1> QED
  BY <1>1, <1>2 DEF IsPath

(* Here is the path beyond the innermost call, and the paths to the other  *)
(* calls are its beginnings.                                               *)
LEMMA PathToHere ==
  ASSUME NEW a \in Nat, NEW st \in Seq(Frame)
  PROVE  /\ <<a>> \o [i \in DOMAIN st |-> st[i].next] = PathTo(a, st, Len(st) + 1)
         /\ \A k \in 1 .. Len(st) + 1 :
              SubSeq(PathTo(a, st, Len(st) + 1), 1, k) = PathTo(a, st, k)
<1> DEFINE nexts == [i \in DOMAIN st |-> st[i].next]
           here == <<a>> \o nexts
           p == PathTo(a, st, Len(st) + 1)
<1>1. Len(st) \in Nat /\ DOMAIN st = 1 .. Len(st) /\ Len(st) + 1 \in 1 .. Len(st) + 1
  OBVIOUS
<1>2. nexts \in Seq(Nat) /\ Len(nexts) = Len(st)
  <2>1. \A i \in 1 .. Len(st) : st[i].next \in Nat
    <3>1. \A i \in 1 .. Len(st) : st[i] \in Frame
      OBVIOUS
    <3> QED
      BY <3>1 DEF Frame
  <2>2. nexts = [i \in 1 .. Len(st) |-> st[i].next]
    BY <1>1
  <2> QED
    BY <1>1, <2>1, <2>2
<1>3. <<a>> \in Seq(Nat) /\ Len(<<a>>) = 1
  OBVIOUS
<1>4. /\ p \in Seq(Nat) /\ Len(p) = Len(st) + 1 /\ p[1] = a
      /\ \A i \in 2 .. Len(st) + 1 : p[i] = st[i - 1].next
  <2>1. IsPath(p, a, st, Len(st) + 1)
    BY <1>1, PathToType
  <2> HIDE DEF p
  <2> QED
    BY <2>1 DEF IsPath
<1>5. \A i \in 1 .. Len(st) : nexts[i] = st[i].next
  BY <1>1
<1> HIDE DEF nexts
<1>6. here \in Seq(Nat) /\ Len(here) = Len(st) + 1
  BY <1>1, <1>2, <1>3
<1>7. ASSUME NEW i \in 1 .. Len(st) + 1 PROVE here[i] = p[i]
  <2>1. CASE i = 1
    BY <1>1, <1>2, <1>3, <1>4, <2>1
  <2>2. CASE i # 1
    <3>1. i - 1 \in 1 .. Len(st) /\ i \in 2 .. Len(st) + 1
      BY <1>1, <2>2
    <3>2. here[i] = nexts[i - 1]
      BY <1>1, <1>2, <1>3, <3>1
    <3> QED
      BY <1>4, <1>5, <3>1, <3>2
  <2> QED
    BY <2>1, <2>2
<1>8. here = p
  <2> HIDE DEF here, p
  <2> QED
    BY <1>4, <1>6, <1>7, SeqEqual
<1>9. ASSUME NEW k \in 1 .. Len(st) + 1
      PROVE  SubSeq(p, 1, k) = PathTo(a, st, k)
  <2> DEFINE q == PathTo(a, st, k)
             s == SubSeq(p, 1, k)
  <2>1. /\ q \in Seq(Nat) /\ Len(q) = k /\ q[1] = a
        /\ \A i \in 2 .. k : q[i] = st[i - 1].next
    <3>1. IsPath(q, a, st, k)
      BY PathToType
    <3> HIDE DEF p, q
    <3> QED
      BY <3>1 DEF IsPath
  <2>2. k \in Nat /\ k >= 1 /\ k <= Len(st) + 1
    BY <1>1
  <2> HIDE DEF p, q
  <2>3. s \in Seq(Nat) /\ Len(s) = k /\ \A i \in 1 .. k : s[i] = p[i]
    BY <1>4, <2>2
  <2> HIDE DEF s
  <2>4. ASSUME NEW i \in 1 .. k PROVE s[i] = q[i]
    <3>1. i \in 1 .. Len(st) + 1 /\ s[i] = p[i]
      BY <1>1, <2>2, <2>3
    <3>2. CASE i = 1
      BY <1>4, <2>1, <3>1, <3>2
    <3>3. CASE i # 1
      <4>1. i \in 2 .. k /\ i \in 2 .. Len(st) + 1
        BY <1>1, <2>2, <3>3
      <4> QED
        BY <1>4, <2>1, <3>1, <4>1
    <3> QED
      BY <3>2, <3>3
  <2>5. s = q
    BY <2>1, <2>3, <2>4, SeqEqual
  <2> QED
    BY <2>5 DEF s, q
<1> QED
  BY <1>8, <1>9 DEF nexts

(* Paths to the same places in two stacks.                                 *)
LEMMA SamePath ==
  ASSUME NEW a, NEW st, NEW su, NEW k \in Nat,
         \A i \in 1 .. k - 1 : st[i].next = su[i].next
  PROVE  PathTo(a, st, k) = PathTo(a, su, k)
<1>1. ASSUME NEW i \in 1 .. k, i # 1 PROVE st[i - 1].next = su[i - 1].next
  <2>1. i - 1 \in 1 .. k - 1
    BY <1>1
  <2> QED
    BY <2>1
<1> QED
  BY <1>1 DEF PathTo

(* Here, Caller and the places of the calls, now and after a step.         *)
LEMMA HereIs ==
  ASSUME stack \in Seq(Frame), at \in Nat
  PROVE  /\ Here = PathTo(at, stack, Len(stack) + 1)
         /\ \A k \in 1 .. Len(stack) + 1 : SubSeq(Here, 1, k) = PathTo(at, stack, k)
         /\ \A k \in DOMAIN stack :
              InCall(k) = [path |-> PathTo(at, stack, k), node |-> stack[k].node]
<1>1. Here = PathTo(at, stack, Len(stack) + 1)
  BY PathToHere DEF Here
<1>2. \A k \in 1 .. Len(stack) + 1 : SubSeq(Here, 1, k) = PathTo(at, stack, k)
  BY <1>1, PathToHere
<1>3. DOMAIN stack \subseteq 1 .. Len(stack) + 1
  OBVIOUS
<1> HIDE DEF Here
<1> QED
  BY <1>1, <1>2, <1>3 DEF InCall

LEMMA HereWillBe ==
  ASSUME stack' \in Seq(Frame), at' \in Nat
  PROVE  /\ Here' = PathTo(at', stack', Len(stack') + 1)
         /\ \A k \in 1 .. Len(stack') + 1 :
              SubSeq(Here, 1, k)' = PathTo(at', stack', k)
         /\ \A k \in DOMAIN stack' :
              InCall(k)' = [path |-> PathTo(at', stack', k), node |-> stack'[k].node]
<1>1. Here' = PathTo(at', stack', Len(stack') + 1)
  BY PathToHere DEF Here
<1>2. \A k \in 1 .. Len(stack') + 1 : SubSeq(Here, 1, k)' = PathTo(at', stack', k)
  BY <1>1, PathToHere
<1>3. DOMAIN stack' \subseteq 1 .. Len(stack') + 1
  OBVIOUS
<1> QED
  BY <1>1, <1>2, <1>3 DEF InCall

----------------------------------------------------------------------------
(* Finished templates stay finished, and in order, while the program does  *)
(* not change.                                                             *)
LEMMA StaysDone ==
  ASSUME UNCHANGED program, Done \subseteq Done'
  PROVE  /\ \A n : Inlined(n)' = Inlined(n)
         /\ \A path, ns : Chain(path, ns)' = Chain(path, ns)
         /\ \A o : Occurs(o)' = Occurs(o)
         /\ \A o, i : StepDone(o, i) => StepDone(o, i)'
         /\ \A i : RootDone(i) => RootDone(i)'
<1>1. \A n : Inlined(n)' = Inlined(n)
  BY DEF program, Inlined, Reached
<1>2. \A path, ns : Chain(path, ns)' = Chain(path, ns)
  BY <1>1 DEF program, Chain
<1>3. \A o : Occurs(o)' = Occurs(o)
  BY <1>2 DEF Occurs
<1>4. \A o, i : StepDone(o, i) => StepDone(o, i)'
  BY DEF StepDone, program
<1>5. \A i : RootDone(i) => RootDone(i)'
  BY DEF RootDone, program
<1> QED
  BY <1>1, <1>2, <1>3, <1>4, <1>5

LEMMA SameDone ==
  ASSUME result' = result PROVE Done' = Done
BY DEF Done

(* A step that adds no model keeps DoneOK.                                 *)
LEMMA DoneStaysOK ==
  ASSUME DoneOK, UNCHANGED program, Done' = Done
  PROVE  DoneOK'
<1> USE DEF program
<1>1. ASSUME NEW o \in Done
      PROVE  /\ Len(o.path) <= MaxDepth
             /\ Occurs(o)'
             /\ Builds(Shape[o.node])
             /\ \A i \in DOMAIN steps'[o.node] : StepDone(o, i)'
  BY StaysDone DEF DoneOK
<1> QED
  BY <1>1 DEF DoneOK

(* A step that leaves the calls and the models alone.                      *)
LEMMA TreeStays ==
  ASSUME Inv, TreeOK, TypeOK', UNCHANGED <<program, stack, result, at>>,
         stack # << >> => pc' \in {"building", "overflow"},
         pc' \in {"building", "checking", "built"} => at >= 1,
         pc' = "checking" => pc = "checking",
         pc' = "built" => at \notin DOMAIN templates,
         pc' = "idle" => pc = "idle"
  PROVE  TreeOK'
<1>1. Done' = Done
  BY SameDone
<1>2. LeavesOK' /\ DoneOK'
  BY <1>1, DoneStaysOK DEF TreeOK, LeavesOK, program
<1>3. RootsOK'
  BY <1>1, StaysDone DEF TreeOK, RootsOK, program
<1>4. Here' = Here /\ Nodes' = Nodes /\ \A k : InCall(k)' = InCall(k)
  BY DEF Here, Nodes, InCall
<1>5. StackOK'
  <2>1. /\ \A path, ns : Chain(path, ns)' = Chain(path, ns)
        /\ \A o, i : StepDone(o, i) => StepDone(o, i)'
    BY <1>1, StaysDone
  <2> QED
    BY <1>4, <2>1 DEF TreeOK, StackOK, program
<1> QED
  BY <1>2, <1>3, <1>5 DEF TreeOK

(* Writing the program.                                                    *)
LEMMA TreeForgets ==
  ASSUME Forget, LeavesOK'
  PROVE  TreeOK'
<1>1. Done' = {} /\ stack' = << >> /\ at' = 0 /\ pc' = "idle"
  BY DEF Forget, Done
<1> QED
  <2>1. StackOK'
    BY <1>1, DepthAssumption DEF StackOK
  <2>2. RootsOK'
    <3>1. ASSUME NEW i \in DOMAIN templates', i < 0 PROVE FALSE
      BY <3>1 DEF Forget
    <3> QED
      BY <1>1, <3>1 DEF RootsOK
  <2>3. DoneOK'
    BY <1>1 DEF DoneOK
  <2> QED
    BY <2>1, <2>2, <2>3 DEF TreeOK

(* An error ends the Build: the calls are gone, the models are not.        *)
LEMMA TreeFails ==
  ASSUME Inv, TreeOK, NEW path, Fail(path), UNCHANGED program
  PROVE  TreeOK'
<1>1. Done' = Done /\ stack' = << >> /\ at' = at /\ pc' = "failed"
  BY SameDone DEF Fail
<1>2. LeavesOK' /\ DoneOK'
  BY <1>1, DoneStaysOK DEF TreeOK, LeavesOK, program
<1>3. RootsOK'
  BY <1>1, StaysDone DEF TreeOK, RootsOK, program
<1>4. StackOK'
  BY <1>1, DepthAssumption DEF StackOK
<1> QED
  BY <1>2, <1>3, <1>4 DEF TreeOK

(* A Build starts with nothing left of it.                                 *)
LEMMA TreeStarts ==
  ASSUME Inv, TreeOK, Start, TypeOK'
  PROVE  TreeOK'
<1>1. /\ pc = "idle" /\ pc' = "building" /\ at' = 1 /\ stack' = stack
      /\ UNCHANGED program /\ result' = result
  BY DEF Start
<1>2. Done' = Done
  BY <1>1, SameDone
<1>3. LeavesOK' /\ DoneOK'
  BY <1>1, <1>2, DoneStaysOK DEF TreeOK, LeavesOK, program
<1>4. stack = << >>
  BY <1>1 DEF TreeOK, StackOK
<1>5. StackOK'
  BY <1>1, <1>4, DepthAssumption DEF StackOK
<1>6. RootsOK'
  <2>1. \A i \in DOMAIN templates' : ~(i < 1)
    BY DEF TypeOK
  <2> QED
    BY <1>1, <2>1 DEF RootsOK
<1> QED
  BY <1>3, <1>5, <1>6 DEF TreeOK

----------------------------------------------------------------------------
(* The calls, and the templates that they are about.                       *)
LEMMA CallsAre ==
  ASSUME Inv, TreeOK, stack # << >>
  PROVE  /\ stack \in Seq(Frame) /\ at \in Nat
         /\ Len(stack) \in Nat /\ Len(stack) >= 1 /\ DOMAIN stack = 1 .. Len(stack)
         /\ \A k \in DOMAIN stack : stack[k].node \in Node /\ stack[k].next \in Nat
         /\ at \in DOMAIN templates /\ stack[1].node = templates[at]
         /\ \A k \in 2 .. Len(stack) :
              /\ stack[k - 1].next \in Inlined(stack[k - 1].node)
              /\ stack[k].node = steps[stack[k - 1].node][stack[k - 1].next]
<1>1. stack \in Seq(Frame) /\ at \in Nat
  BY DEF Inv, TypeOK
<1>2. Len(stack) \in Nat /\ Len(stack) >= 1 /\ DOMAIN stack = 1 .. Len(stack)
  BY <1>1
<1>3. \A k \in DOMAIN stack : stack[k].node \in Node /\ stack[k].next \in Nat
  <2>1. \A k \in DOMAIN stack : stack[k] \in Frame
    BY <1>1
  <2> QED
    BY <2>1 DEF Frame
<1> DEFINE p == PathTo(at, stack, Len(stack))
<1>4. Chain(p, Nodes)
  <2>1. Len(stack) \in 1 .. Len(stack) + 1
    BY <1>2
  <2>2. SubSeq(Here, 1, Len(stack)) = p
    BY <1>1, <2>1, HereIs
  <2> QED
    BY <2>2 DEF TreeOK, StackOK
<1>5. /\ Len(p) = Len(stack) /\ p[1] = at
      /\ \A i \in 2 .. Len(stack) : p[i] = stack[i - 1].next
  <2>1. Len(stack) \in 1 .. Len(stack) + 1
    BY <1>2
  <2>2. IsPath(p, at, stack, Len(stack))
    BY <1>1, <2>1, PathToType
  <2> HIDE DEF p
  <2> QED
    BY <2>2 DEF IsPath
<1>6. \A k \in 1 .. Len(stack) : Nodes[k] = stack[k].node
  BY <1>2 DEF Nodes
<1> HIDE DEF p
<1>7. at \in DOMAIN templates /\ stack[1].node = templates[at]
  BY <1>2, <1>4, <1>5, <1>6 DEF Chain
<1>8. ASSUME NEW k \in 2 .. Len(stack)
      PROVE  /\ stack[k - 1].next \in Inlined(stack[k - 1].node)
             /\ stack[k].node = steps[stack[k - 1].node][stack[k - 1].next]
  <2>1. k \in 1 .. Len(stack) /\ k - 1 \in 1 .. Len(stack)
    BY <1>2
  <2>2. Nodes[k] = stack[k].node /\ Nodes[k - 1] = stack[k - 1].node
    BY <1>6, <2>1
  <2> QED
    BY <1>4, <1>5, <2>2 DEF Chain
<1> QED
  BY <1>1, <1>2, <1>3, <1>7, <1>8

(* A stack of calls that hold one another.                                 *)
LEMMA CallsChain ==
  ASSUME stack' \in Seq(Frame), at' \in Nat, stack' # << >>, UNCHANGED program,
         at' \in DOMAIN templates, stack'[1].node = templates[at'],
         \A k \in 2 .. Len(stack') :
           /\ stack'[k - 1].next \in Inlined(stack'[k - 1].node)
           /\ stack'[k].node = steps[stack'[k - 1].node][stack'[k - 1].next]
  PROVE  Chain(SubSeq(Here, 1, Len(stack)), Nodes)'
<1> DEFINE p == PathTo(at', stack', Len(stack'))
<1>1. Len(stack') \in Nat /\ Len(stack') >= 1 /\ DOMAIN stack' = 1 .. Len(stack')
      /\ Len(stack') \in 1 .. Len(stack') + 1 /\ stack' \in Seq(Frame)
  OBVIOUS
<1>2. SubSeq(Here, 1, Len(stack))' = p
  BY <1>1, HereWillBe
<1>3. /\ Len(p) = Len(stack') /\ p[1] = at'
      /\ \A i \in 2 .. Len(stack') : p[i] = stack'[i - 1].next
  BY PathToCaller, Zenon
<1>4. \A k \in 1 .. Len(stack') : Nodes'[k] = stack'[k].node
  BY <1>1 DEF Nodes
<1> HIDE DEF p
<1>5. p[1] \in DOMAIN templates' /\ Nodes'[1] = templates'[p[1]]
  BY <1>1, <1>3, <1>4 DEF program
<1>6. ASSUME NEW k \in 2 .. Len(p)
      PROVE  /\ p[k] \in Inlined(Nodes[k - 1])'
             /\ Nodes'[k] = steps'[Nodes'[k - 1]][p[k]]
  <2>1. k \in 1 .. Len(stack') /\ k - 1 \in 1 .. Len(stack')
        /\ k \in 2 .. Len(stack')
    BY <1>1, <1>3
  <2>2. /\ Nodes'[k] = stack'[k].node /\ Nodes'[k - 1] = stack'[k - 1].node
        /\ p[k] = stack'[k - 1].next
    BY <1>3, <1>4, <2>1
  <2>3. Inlined(Nodes[k - 1])' = Inlined(stack'[k - 1].node)
    BY <2>2 DEF Inlined, Reached, program
  <2> QED
    BY <2>1, <2>2, <2>3 DEF program
<1> QED
  BY <1>2, <1>5, <1>6 DEF Chain

(* Advanced changes the number of the innermost call, and only that.       *)
LEMMA AdvancedIs ==
  ASSUME NEW calls \in Seq(Frame), calls # << >>
  PROVE  /\ Advanced(calls) \in Seq(Frame)
         /\ Len(Advanced(calls)) = Len(calls)
         /\ \A k \in 1 .. Len(calls) :
              /\ Advanced(calls)[k].node = calls[k].node
              /\ k # Len(calls) => Advanced(calls)[k].next = calls[k].next
              /\ k = Len(calls) => Advanced(calls)[k].next = calls[k].next + 1
<1>1. Len(calls) \in 1 .. Len(calls) /\ DOMAIN calls = 1 .. Len(calls)
  <2>1. Len(calls) \in Nat /\ Len(calls) # 0
    OBVIOUS
  <2> QED
    BY <2>1
<1>2. Advanced(calls) = [calls EXCEPT ![Len(calls)].next = @ + 1]
  BY DEF Advanced
<1>3. \A k \in 1 .. Len(calls) : calls[k] \in Frame
  BY <1>1
<1>4. Advanced(calls) \in Seq(Frame)
  BY AdvancedType
<1>5. DOMAIN Advanced(calls) = 1 .. Len(calls)
  BY <1>1, <1>2
<1>6. Len(Advanced(calls)) = Len(calls)
  BY <1>1, <1>4, <1>5
<1>7. ASSUME NEW k \in 1 .. Len(calls)
      PROVE  /\ Advanced(calls)[k].node = calls[k].node
             /\ k # Len(calls) => Advanced(calls)[k].next = calls[k].next
             /\ k = Len(calls) => Advanced(calls)[k].next = calls[k].next + 1
  BY <1>1, <1>2, <1>3 DEF Frame
<1> QED
  BY <1>4, <1>6, <1>7

(* The call at k, the innermost or its caller, goes on to its next step.   *)
LEMMA TreeAdvances ==
  ASSUME Inv, TreeOK, TypeOK', UNCHANGED <<program, at>>,
         pc = "building", pc' = "building", NEW l \in DOMAIN stack,
         stack' = Advanced(SubSeq(stack, 1, l)),
         Done \subseteq Done', DoneOK',
         NEW j, j = stack[l].next, StepDone(InCall(l), j)'
  PROVE  TreeOK'
<1>1. stack # << >>
  OBVIOUS
<1>2. /\ stack \in Seq(Frame) /\ at \in Nat
      /\ Len(stack) \in Nat /\ Len(stack) >= 1 /\ DOMAIN stack = 1 .. Len(stack)
      /\ \A k \in DOMAIN stack : stack[k].node \in Node /\ stack[k].next \in Nat
      /\ at \in DOMAIN templates /\ stack[1].node = templates[at]
      /\ \A k \in 2 .. Len(stack) :
           /\ stack[k - 1].next \in Inlined(stack[k - 1].node)
           /\ stack[k].node = steps[stack[k - 1].node][stack[k - 1].next]
  BY <1>1, CallsAre
<1>3. /\ l \in Nat /\ l >= 1 /\ l <= Len(stack)
      /\ stack' \in Seq(Frame) /\ Len(stack') = l /\ DOMAIN stack' = 1 .. l
      /\ \A k \in 1 .. l :
           /\ stack'[k].node = stack[k].node
           /\ k # l => stack'[k].next = stack[k].next
           /\ k = l => stack'[k].next = stack[k].next + 1
  <2> DEFINE calls == SubSeq(stack, 1, l)
  <2>1. calls \in Seq(Frame) /\ Len(calls) = l /\ \A k \in 1 .. l : calls[k] = stack[k]
    BY <1>2
  <2> HIDE DEF calls
  <2>2. calls # << >> /\ l \in Nat /\ l >= 1 /\ l <= Len(stack)
    BY <1>2, <2>1
  <2>3. stack' = Advanced(calls)
    BY DEF calls
  <2>4. /\ stack' \in Seq(Frame) /\ Len(stack') = l
        /\ \A k \in 1 .. l :
             /\ stack'[k].node = calls[k].node
             /\ k # l => stack'[k].next = calls[k].next
             /\ k = l => stack'[k].next = calls[k].next + 1
    BY <2>1, <2>2, <2>3, AdvancedIs
  <2>5. DOMAIN stack' = 1 .. l
    BY <2>4
  <2> QED
    BY <2>1, <2>2, <2>4, <2>5
<1>4. Chain(SubSeq(Here, 1, Len(stack)), Nodes)'
  <2>1. stack' # << >> /\ at' \in Nat /\ at' \in DOMAIN templates
        /\ stack'[1].node = templates[at']
    BY <1>2, <1>3
  <2>2. ASSUME NEW k \in 2 .. Len(stack')
        PROVE  /\ stack'[k - 1].next \in Inlined(stack'[k - 1].node)
               /\ stack'[k].node = steps[stack'[k - 1].node][stack'[k - 1].next]
    <3>1. k \in 1 .. l /\ k - 1 \in 1 .. l /\ k - 1 # l /\ k \in 2 .. Len(stack)
      BY <1>2, <1>3
    <3>2. /\ stack'[k].node = stack[k].node /\ stack'[k - 1].node = stack[k - 1].node
          /\ stack'[k - 1].next = stack[k - 1].next
      BY <1>3, <3>1
    <3> QED
      BY <1>2, <3>1, <3>2
  <2> QED
    BY <1>3, <2>1, <2>2, CallsChain
<1>5. ASSUME NEW k \in 1 .. l PROVE InCall(k)' = InCall(k)
  <2>1. k \in Nat /\ k \in DOMAIN stack
    BY <1>2, <1>3
  <2>2. \A i \in 1 .. k - 1 : stack'[i].next = stack[i].next
    BY <1>3, <2>1
  <2>3. PathTo(at, stack', k) = PathTo(at, stack, k)
    BY <2>1, <2>2, SamePath
  <2>4. InCall(k) = [path |-> PathTo(at, stack, k), node |-> stack[k].node]
    BY <1>2, <2>1, HereIs
  <2>5. InCall(k)' = [path |-> PathTo(at', stack', k), node |-> stack'[k].node]
    BY <1>2, <1>3, HereWillBe
  <2> QED
    BY <1>3, <2>3, <2>4, <2>5
<1>6. StackOK'
  <2>1. Len(stack') <= MaxDepth
    BY <1>2, <1>3, DepthAssumption DEF TreeOK, StackOK
  <2>2. ASSUME NEW k \in DOMAIN stack'
        PROVE  /\ stack'[k].node \in Holds => Shape[stack'[k].node].name
               /\ stack'[k].next >= 1
               /\ \A i \in DOMAIN steps'[stack'[k].node] :
                    i < stack'[k].next => StepDone(InCall(k), i)'
    <3>1. k \in 1 .. l /\ k \in DOMAIN stack
      BY <1>2, <1>3
    <3>2. /\ stack[k].node \in Holds => Shape[stack[k].node].name
          /\ stack[k].next >= 1 /\ stack[k].next \in Nat
          /\ \A i \in DOMAIN steps[stack[k].node] :
               i < stack[k].next => StepDone(InCall(k), i)
      BY <1>2, <3>1 DEF TreeOK, StackOK
    <3>3. \A i \in DOMAIN steps[stack[k].node] :
            i < stack[k].next => StepDone(InCall(k), i)'
      <4>1. ASSUME NEW i, StepDone(InCall(k), i) PROVE StepDone(InCall(k), i)'
        <5>1. \A o, m : StepDone(o, m) => StepDone(o, m)'
          BY StaysDone
        <5>2. InCall(k)' = InCall(k)
          BY <1>5, <3>1
        <5> QED
          BY <4>1, <5>1, <5>2 DEF StepDone
      <4> QED
        BY <3>2, <4>1
    <3>4. stack'[k].node = stack[k].node /\ steps' = steps
      BY <1>3, <3>1 DEF program
    <3>5. CASE k # l
      BY <1>3, <3>1, <3>2, <3>3, <3>4, <3>5
    <3>6. CASE k = l
      <4>1. stack'[k].next = stack[k].next + 1
        BY <1>3, <3>1, <3>6
      <4>2. ASSUME NEW i \in DOMAIN steps[stack[k].node], i < stack[k].next + 1
            PROVE  StepDone(InCall(k), i)'
        <5>1. CASE i = stack[k].next
          BY <3>6, <5>1, Zenon
        <5>2. CASE i # stack[k].next
          <6>1. i \in Nat
            <7>1. steps[stack[k].node] \in Seq(Item)
              BY <1>2, <3>1 DEF Inv, TypeOK
            <7> QED
              BY <7>1
          <6>2. i < stack[k].next
            BY <3>2, <4>2, <5>2, <6>1
          <6> QED
            BY <3>3, <6>2
        <5> QED
          BY <5>1, <5>2
      <4> QED
        BY <3>2, <3>4, <4>1, <4>2
    <3> QED
      BY <3>5, <3>6
  <2> QED
    BY <1>4, <2>1, <2>2 DEF StackOK
<1>7. RootsOK'
  <2>1. \A i : RootDone(i) => RootDone(i)'
    BY StaysDone
  <2> QED
    BY <2>1 DEF TreeOK, RootsOK, program
<1>8. LeavesOK'
  BY DEF TreeOK, LeavesOK, program
<1> QED
  BY <1>6, <1>7, <1>8 DEF TreeOK

(* BuildTemplate is called, at the top or for the template that a step of  *)
(* the innermost call holds.                                               *)
LEMMA TreeCalls ==
  ASSUME Inv, TreeOK, TypeOK', UNCHANGED program, pc = "building",
         NEW n \in Node, Call(n),
         stack = << >> => at \in DOMAIN templates /\ n = templates[at],
         stack # << >> => /\ Top.next \in Inlined(Top.node)
                          /\ n = steps[Top.node][Top.next]
  PROVE  TreeOK'
<1>1. CASE Len(stack) = MaxDepth
  <2>1. pc' = "overflow" /\ UNCHANGED <<at, stack, result, culprit>>
    BY <1>1 DEF Call
  <2> QED
    BY <2>1, TreeStays
<1>2. CASE Len(stack) # MaxDepth /\ n \in Holds /\ ~Shape[n].name
  BY <1>2, TreeFails DEF Call
<1>3. CASE Len(stack) # MaxDepth /\ ~(n \in Holds /\ ~Shape[n].name)
  <2> DEFINE call == [node |-> n, next |-> 1]
  <2>1. stack' = Append(stack, call) /\ UNCHANGED <<pc, at, result, culprit>>
    BY <1>3 DEF Call
  <2>2. call \in Frame /\ call.node = n /\ call.next = 1
    BY DEF Frame
  <2> HIDE DEF call
  <2>3. stack \in Seq(Frame) /\ at \in Nat /\ Len(stack) \in Nat
        /\ DOMAIN stack = 1 .. Len(stack)
    BY DEF Inv, TypeOK
  <2>4. /\ stack' \in Seq(Frame) /\ Len(stack') = Len(stack) + 1
        /\ DOMAIN stack' = 1 .. Len(stack) + 1 /\ stack' # << >>
        /\ \A k \in 1 .. Len(stack) : stack'[k] = stack[k]
        /\ stack'[Len(stack) + 1] = call
    BY <2>1, <2>2, <2>3
  <2>5. Done' = Done
    BY <2>1, SameDone
  <2>6. \A k \in DOMAIN stack : InCall(k)' = InCall(k)
    <3> SUFFICES ASSUME NEW k \in DOMAIN stack PROVE InCall(k)' = InCall(k)
      OBVIOUS
    <3>1. k \in Nat /\ k \in DOMAIN stack'
      BY <2>3, <2>4
    <3>2. \A i \in 1 .. k - 1 : stack'[i].next = stack[i].next
      BY <2>3, <2>4
    <3>3. PathTo(at, stack', k) = PathTo(at, stack, k)
      BY <3>1, <3>2, SamePath
    <3>4. InCall(k) = [path |-> PathTo(at, stack, k), node |-> stack[k].node]
      BY <2>3, HereIs
    <3>5. InCall(k)' = [path |-> PathTo(at', stack', k), node |-> stack'[k].node]
      BY <2>1, <2>3, <2>4, <3>1, HereWillBe
    <3>6. stack'[k] = stack[k]
      BY <2>3, <2>4
    <3> QED
      BY <2>1, <3>3, <3>4, <3>5, <3>6
  <2>7. Chain(SubSeq(Here, 1, Len(stack)), Nodes)'
    <3>1. at' \in DOMAIN templates /\ at' \in Nat
      <4>1. CASE stack = << >>
        BY <2>1, <2>3, <4>1
      <4>2. CASE stack # << >>
        BY <2>1, <2>3, <4>2, CallsAre
      <4> QED
        BY <4>1, <4>2
    <3>2. stack'[1].node = templates[at']
      <4>1. CASE stack = << >>
        BY <2>1, <2>2, <2>4, <4>1
      <4>2. CASE stack # << >>
        <5>1. 1 \in 1 .. Len(stack) /\ stack[1].node = templates[at]
          BY <4>2, CallsAre
        <5> QED
          BY <2>1, <2>4, <5>1
      <4> QED
        BY <4>1, <4>2
    <3>3. ASSUME NEW k \in 2 .. Len(stack')
          PROVE  /\ stack'[k - 1].next \in Inlined(stack'[k - 1].node)
                 /\ stack'[k].node = steps[stack'[k - 1].node][stack'[k - 1].next]
      <4>1. stack # << >>
        BY <2>3, <2>4
      <4>2. k - 1 \in 1 .. Len(stack) /\ stack'[k - 1] = stack[k - 1]
        BY <2>3, <2>4
      <4>3. CASE k = Len(stack')
        <5>1. k - 1 = Len(stack) /\ stack'[k] = call
          BY <2>3, <2>4, <4>3
        <5>2. stack[k - 1] = Top
          BY <5>1 DEF Top
        <5> QED
          BY <2>2, <4>1, <4>2, <5>1, <5>2
      <4>4. CASE k # Len(stack')
        <5>1. k \in 2 .. Len(stack) /\ k \in 1 .. Len(stack)
          BY <2>3, <2>4, <4>4
        <5>2. /\ stack[k - 1].next \in Inlined(stack[k - 1].node)
              /\ stack[k].node = steps[stack[k - 1].node][stack[k - 1].next]
          BY <4>1, <5>1, CallsAre
        <5> QED
          BY <2>4, <4>2, <5>1, <5>2
      <4> QED
        BY <4>3, <4>4
    <3> QED
      BY <2>4, <3>1, <3>2, <3>3, CallsChain
  <2>8. StackOK'
    <3>1. Len(stack') <= MaxDepth
      <4>1. Len(stack) <= MaxDepth
        BY DEF TreeOK, StackOK
      <4>2. Len(stack) # MaxDepth /\ Len(stack') = Len(stack) + 1 /\ Len(stack) \in Nat
        BY <1>3, <2>3, <2>4
      <4>3. MaxDepth \in Nat
        BY DepthAssumption
      <4> HIDE DEF call
      <4> QED
        BY <4>1, <4>2, <4>3
    <3>2. ASSUME NEW k \in DOMAIN stack'
          PROVE  /\ stack'[k].node \in Holds => Shape[stack'[k].node].name
                 /\ stack'[k].next >= 1
                 /\ \A i \in DOMAIN steps'[stack'[k].node] :
                      i < stack'[k].next => StepDone(InCall(k), i)'
      <4>1. CASE k \in DOMAIN stack
        <5>1. /\ stack[k].node \in Holds => Shape[stack[k].node].name
              /\ stack[k].next >= 1
              /\ \A i \in DOMAIN steps[stack[k].node] :
                   i < stack[k].next => StepDone(InCall(k), i)
          BY <4>1 DEF TreeOK, StackOK
        <5>2. ASSUME NEW i, StepDone(InCall(k), i) PROVE StepDone(InCall(k), i)'
          <6>1. \A o, j : StepDone(o, j) => StepDone(o, j)'
            BY <2>5, StaysDone
          <6>2. InCall(k)' = InCall(k)
            BY <2>6, <4>1
          <6> QED
            BY <5>2, <6>1, <6>2 DEF StepDone
        <5>3. stack'[k] = stack[k] /\ steps' = steps
          BY <2>3, <2>4, <4>1 DEF program
        <5> QED
          BY <5>1, <5>2, <5>3
      <4>2. CASE k \notin DOMAIN stack
        <5>1. stack'[k] = call
          BY <2>3, <2>4, <4>2
        <5>2. ASSUME NEW i \in DOMAIN steps'[stack'[k].node] PROVE ~(i < 1)
          <6>1. steps'[stack'[k].node] \in Seq(Item)
            BY <2>2, <5>1 DEF TypeOK
          <6> QED
            BY <6>1
        <5> QED
          BY <1>3, <2>2, <5>1, <5>2
      <4> QED
        BY <4>1, <4>2
    <3> QED
      BY <2>1, <2>7, <3>1, <3>2 DEF StackOK
  <2>9. LeavesOK' /\ DoneOK'
    BY <2>5, DoneStaysOK DEF TreeOK, LeavesOK, program
  <2>10. RootsOK'
    BY <2>1, <2>5, StaysDone DEF TreeOK, RootsOK, program
  <2> QED
    BY <2>8, <2>9, <2>10 DEF TreeOK
<1> QED
  BY <1>1, <1>2, <1>3

(* A call returns with a model, to the step that holds the template or, at *)
(* the top, to the check.                                                  *)
LEMMA CallDone ==
  ASSUME Inv, TreeOK, TypeOK', Return, Builds(Shape[Top.node])
  PROVE  /\ Done' = Done \union {InCall(Len(stack))}
         /\ DoneOK'
<1> DEFINE l == Len(stack)
           o == InCall(l)
<1>1. /\ pc = "building" /\ stack # << >>
      /\ Top.next \notin DOMAIN steps[Top.node]
      /\ result' = result \union {Entry(Caller, Top.node)}
      /\ UNCHANGED program
  BY DEF Return
<1>2. /\ stack \in Seq(Frame) /\ at \in Nat
      /\ l \in Nat /\ l >= 1 /\ DOMAIN stack = 1 .. l /\ l \in DOMAIN stack
      /\ Top.node \in Node /\ Top.next \in Nat
  <2>1. /\ stack \in Seq(Frame) /\ at \in Nat
        /\ l \in Nat /\ l >= 1 /\ DOMAIN stack = 1 .. l
        /\ \A k \in DOMAIN stack : stack[k].node \in Node /\ stack[k].next \in Nat
    BY <1>1, CallsAre
  <2> QED
    BY <2>1 DEF Top
<1>3. /\ Entry(Caller, Top.node).path = o.path
      /\ Entry(Caller, Top.node).node = o.node
      /\ o = [path |-> o.path, node |-> o.node]
      /\ o.node = Top.node /\ o.path = SubSeq(Here, 1, l)
  BY DEF Entry, Caller, Top, InCall
<1>4. Done' = Done \union {o}
  <2> HIDE DEF o, l
  <2>1. Done' = {[path |-> e.path, node |-> e.node] : e \in result'}
    BY DEF Done
  <2>2. Done = {[path |-> e.path, node |-> e.node] : e \in result}
    BY DEF Done
  <2>3. [path |-> Entry(Caller, Top.node).path, node |-> Entry(Caller, Top.node).node] = o
    BY <1>3
  <2> HIDE DEF Done
  <2> QED
    BY <1>1, <2>1, <2>2, <2>3
<1>5. Done \subseteq Done'
  BY <1>4
<1>6. Len(o.path) = l /\ l <= MaxDepth
  <2>1. Here \in Seq(Nat) /\ Len(Here) = l + 1
    BY <1>2, HereType
  <2> HIDE DEF o
  <2>2. Len(o.path) = l
    BY <1>2, <1>3, <2>1
  <2> QED
    BY <2>2 DEF TreeOK, StackOK
<1>7. Occurs(o)
  <2>1. Chain(o.path, Nodes)
    BY <1>1, <1>3 DEF TreeOK, StackOK
  <2>2. /\ Nodes \in [1 .. l -> Node]
        /\ Nodes[l] = o.node
    <3>1. \A k \in 1 .. l : stack[k].node \in Node
      BY <1>1, <1>2, CallsAre
    <3> QED
      BY <1>2, <3>1 DEF Nodes, InCall
  <2> HIDE DEF o, l
  <2> QED
    BY <1>6, <2>1, <2>2 DEF Occurs
<1>8. \A i \in DOMAIN steps[o.node] : StepDone(o, i)
  <2> SUFFICES ASSUME NEW i \in DOMAIN steps[Top.node] PROVE StepDone(o, i)
    BY <1>3
  <2>1. steps[Top.node] \in Seq(Item)
    BY <1>2 DEF Inv, TypeOK
  <2>2. Top.next >= 1
    BY <1>2 DEF TreeOK, StackOK, Top
  <2>3. i < Top.next
    BY <1>1, <1>2, <2>1, <2>2
  <2> QED
    BY <1>2, <2>3 DEF TreeOK, StackOK, Top
<1> HIDE DEF o, l
<1>9. DoneOK'
  <2>1. ASSUME NEW q \in Done'
        PROVE  /\ Len(q.path) <= MaxDepth
               /\ Occurs(q)
               /\ Builds(Shape[q.node])
               /\ \A i \in DOMAIN steps[q.node] : StepDone(q, i)
    <3>1. CASE q \in Done
      BY <3>1 DEF TreeOK, DoneOK
    <3>2. CASE q = o
      BY <1>3, <1>6, <1>7, <1>8, <3>2
    <3> QED
      BY <1>4, <2>1, <3>1, <3>2
  <2>2. /\ \A q : Occurs(q)' = Occurs(q)
        /\ \A q, i : StepDone(q, i) => StepDone(q, i)'
    BY <1>1, <1>5, StaysDone
  <2>3. steps' = steps
    BY <1>1 DEF program
  <2>4. ASSUME NEW q \in Done'
        PROVE  /\ Len(q.path) <= MaxDepth
               /\ Occurs(q)'
               /\ Builds(Shape[q.node])
               /\ \A i \in DOMAIN steps'[q.node] : StepDone(q, i)'
    BY <2>1, <2>2, <2>3
  <2> QED
    BY <2>4 DEF DoneOK
<1> QED
  BY <1>4, <1>9 DEF o, l

(* The path to the next call is longer by the step that holds it.          *)
LEMMA PathGrows ==
  ASSUME NEW a \in Nat, NEW st \in Seq(Frame), NEW k \in 1 .. Len(st)
  PROVE  PathTo(a, st, k + 1) = Append(PathTo(a, st, k), st[k].next)
<1> DEFINE p == PathTo(a, st, k)
           q == PathTo(a, st, k + 1)
           r == Append(p, st[k].next)
<1>1. k \in Nat /\ k >= 1 /\ k \in 1 .. Len(st) + 1 /\ k + 1 \in 1 .. Len(st) + 1
  OBVIOUS
<1>2. st[k].next \in Nat
  <2>1. st[k] \in Frame
    OBVIOUS
  <2> QED
    BY <2>1 DEF Frame
<1>3. /\ p \in Seq(Nat) /\ Len(p) = k /\ p[1] = a
      /\ \A i \in 2 .. k : p[i] = st[i - 1].next
  <2>1. IsPath(p, a, st, k)
    BY <1>1, PathToType
  <2> HIDE DEF p
  <2> QED
    BY <2>1 DEF IsPath
<1>4. /\ q \in Seq(Nat) /\ Len(q) = k + 1 /\ q[1] = a
      /\ \A i \in 2 .. k + 1 : q[i] = st[i - 1].next
  <2>1. IsPath(q, a, st, k + 1)
    BY <1>1, PathToType
  <2> HIDE DEF q
  <2> QED
    BY <2>1 DEF IsPath
<1> HIDE DEF p, q
<1>5. /\ r \in Seq(Nat) /\ Len(r) = k + 1
      /\ \A i \in 1 .. k : r[i] = p[i]
      /\ r[k + 1] = st[k].next
  BY <1>1, <1>2, <1>3
<1> HIDE DEF r
<1>6. ASSUME NEW i \in 1 .. k + 1 PROVE q[i] = r[i]
  <2>1. CASE i = 1
    BY <1>1, <1>3, <1>4, <1>5, <2>1
  <2>2. CASE i = k + 1
    BY <1>1, <1>4, <1>5, <2>2
  <2>3. CASE i # 1 /\ i # k + 1
    <3>1. i \in 2 .. k /\ i \in 2 .. k + 1 /\ i \in 1 .. k
      BY <1>1, <2>3
    <3> QED
      BY <1>3, <1>4, <1>5, <3>1
  <2> QED
    BY <2>1, <2>2, <2>3
<1>7. q = r
  BY <1>4, <1>5, <1>6, SeqEqual
<1> QED
  BY <1>7 DEF p, q, r

(* The step that holds the template is done when its model is there; at    *)
(* the top, the template is.                                               *)
LEMMA TreeReturns ==
  ASSUME Inv, TreeOK, TypeOK', Return
  PROVE  TreeOK'
<1>1. /\ pc = "building" /\ stack # << >>
      /\ Top.next \notin DOMAIN steps[Top.node]
      /\ UNCHANGED program
  BY DEF Return
<1>2. CASE ~Builds(Shape[Top.node])
  BY <1>1, <1>2, TreeFails DEF Return
<1>3. CASE Builds(Shape[Top.node])
  <2>1. /\ Done' = Done \union {InCall(Len(stack))}
        /\ DoneOK'
    BY <1>3, CallDone
  <2>2. /\ stack' = Advanced(Popped)
        /\ pc' = IF Len(stack) = 1 THEN "checking" ELSE pc
        /\ at' = at
    BY <1>3 DEF Return
  <2>3. /\ stack \in Seq(Frame) /\ at \in Nat
        /\ Len(stack) \in Nat /\ Len(stack) >= 1 /\ DOMAIN stack = 1 .. Len(stack)
        /\ at \in DOMAIN templates /\ stack[1].node = templates[at]
        /\ \A k \in 2 .. Len(stack) :
             /\ stack[k - 1].next \in Inlined(stack[k - 1].node)
             /\ stack[k].node = steps[stack[k - 1].node][stack[k - 1].next]
    BY <1>1, CallsAre
  <2>4. \A k \in DOMAIN stack :
          InCall(k) = [path |-> PathTo(at, stack, k), node |-> stack[k].node]
    BY <2>3, HereIs
  <2>5. CASE Len(stack) = 1
    <3>1. stack' = << >> /\ pc' = "checking"
      <4>1. Popped = << >>
        BY <2>3, <2>5 DEF Popped
      <4> QED
        BY <2>2, <2>5, <4>1 DEF Advanced
    <3>2. InCall(1) = [path |-> <<at>>, node |-> templates[at]]
      <4>1. PathTo(at, stack, 1) = <<at>>
        BY DEF PathTo
      <4> QED
        BY <2>3, <2>4, <2>5, <4>1
    <3>3. StackOK'
      BY <3>1, DepthAssumption DEF StackOK
    <3>4. RootsOK'
      <4>1. \A i : RootDone(i) => RootDone(i)'
        BY <1>1, <2>1, StaysDone
      <4>2. RootDone(at)'
        BY <1>1, <2>1, <2>2, <2>5, <3>2 DEF RootDone, program
      <4> QED
        BY <1>1, <2>2, <2>3, <3>1, <4>1, <4>2 DEF TreeOK, RootsOK, program
    <3>5. LeavesOK'
      BY <1>1 DEF TreeOK, LeavesOK, program
    <3> QED
      BY <2>1, <3>3, <3>4, <3>5 DEF TreeOK
  <2>6. CASE Len(stack) # 1
    <3>l. PICK l : l = Len(stack) - 1
      OBVIOUS
    <3>j. PICK j : j = stack[l].next
      OBVIOUS
    <3>1. l \in DOMAIN stack /\ l \in Nat /\ l >= 1 /\ Len(stack) \in 2 .. Len(stack)
          /\ Len(stack) \in DOMAIN stack /\ l + 1 = Len(stack)
      BY <2>3, <2>6, <3>l
    <3>2. stack' = Advanced(SubSeq(stack, 1, l))
      BY <2>2, <3>l DEF Popped
    <3>3. InCall(Len(stack)).path = Append(InCall(l).path, j)
      <4> DEFINE p == PathTo(at, stack, l)
                 q == PathTo(at, stack, Len(stack))
      <4>1. InCall(Len(stack)).path = q /\ InCall(l).path = p
        BY <2>4, <3>1
      <4>2. q = Append(p, stack[l].next)
        <5>1. at \in Nat /\ stack \in Seq(Frame) /\ l \in 1 .. Len(stack)
          BY <2>3, <3>1
        <5>2. PathTo(at, stack, l + 1) = Append(p, stack[l].next)
          BY <5>1, PathGrows
        <5> QED
          BY <3>1, <5>2
      <4> QED
        BY <3>j, <4>1, <4>2
    <3>4. InCall(Len(stack)).node = steps[InCall(l).node][j]
      <4>1. stack[Len(stack)].node = steps[stack[Len(stack) - 1].node][stack[Len(stack) - 1].next]
        BY <2>3, <3>1
      <4> QED
        BY <2>4, <3>1, <3>j, <3>l, <4>1
    <3>5. InCall(Len(stack)) = [path |-> Append(InCall(l).path, j),
                                node |-> steps[InCall(l).node][j]]
      <4>1. InCall(Len(stack)) = [path |-> InCall(Len(stack)).path,
                                  node |-> InCall(Len(stack)).node]
        BY DEF InCall
      <4> QED
        BY <3>3, <3>4, <4>1
    <3>6. steps[InCall(l).node][j] # Broken
      <4>1. stack[Len(stack)].node \in Node
        BY <1>1, <3>1, CallsAre
      <4> QED
        BY <2>4, <3>1, <3>4, <4>1, StepsAssumption
    <3>7. StepDone(InCall(l), j)'
      <4>1. InCall(l)' = InCall(l)
        <5>1. /\ Advanced(SubSeq(stack, 1, l)) \in Seq(Frame)
              /\ Len(Advanced(SubSeq(stack, 1, l))) = l
              /\ \A k \in 1 .. l :
                   /\ Advanced(SubSeq(stack, 1, l))[k].node = stack[k].node
                   /\ k # l => Advanced(SubSeq(stack, 1, l))[k].next = stack[k].next
          <6> DEFINE calls == SubSeq(stack, 1, l)
          <6>1. calls \in Seq(Frame) /\ Len(calls) = l
                /\ \A k \in 1 .. l : calls[k] = stack[k]
            BY <2>3, <3>1
          <6> HIDE DEF calls
          <6>2. calls # << >>
            BY <3>1, <6>1
          <6>3. /\ Advanced(calls) \in Seq(Frame)
                /\ Len(Advanced(calls)) = l
                /\ \A k \in 1 .. l :
                     /\ Advanced(calls)[k].node = calls[k].node
                     /\ k # l => Advanced(calls)[k].next = calls[k].next
            BY <6>1, <6>2, AdvancedIs
          <6> QED
            BY <6>1, <6>3 DEF calls
        <5>2. \A i \in 1 .. l - 1 : stack'[i].next = stack[i].next
          BY <3>1, <3>2, <5>1
        <5>3. PathTo(at, stack', l) = PathTo(at, stack, l)
          BY <3>1, <5>2, SamePath
        <5>4. DOMAIN stack' = 1 .. l /\ l \in DOMAIN stack'
              /\ stack'[l].node = stack[l].node
          BY <3>1, <3>2, <5>1
        <5>5. InCall(l)' = [path |-> PathTo(at', stack', l), node |-> stack'[l].node]
          <6>1. stack' \in Seq(Frame) /\ at' \in Nat
            BY DEF TypeOK
          <6> QED
            BY <5>4, <6>1, HereWillBe
        <5> QED
          BY <2>2, <2>4, <3>1, <5>3, <5>4, <5>5
      <4> QED
        BY <1>1, <2>1, <3>5, <3>6, <4>1 DEF StepDone, program
    <3>8. Done \subseteq Done' /\ pc' = "building"
      BY <1>1, <2>1, <2>2, <2>6
    <3> QED
      BY <1>1, <2>1, <2>2, <3>1, <3>2, <3>7, <3>8, <3>j, TreeAdvances
  <2> QED
    BY <2>5, <2>6
<1> QED
  BY <1>2, <1>3

(* Check changes a model, never whose model it is or where.                *)
LEMMA TreeChecks ==
  ASSUME Inv, TreeOK, TypeOK', Check
  PROVE  TreeOK'
<1>1. PICK e \in result :
        /\ e.path = <<at>>
        /\ IF Valid(Completed(e.model))
           THEN /\ result' = (result \ {e})
                               \union {[e EXCEPT !.model = Completed(@)]}
                /\ pc' = "building"
                /\ at' = at + 1
                /\ UNCHANGED <<stack, culprit>>
           ELSE Fail(<<at>>)
  BY DEF Check
<1>2. pc = "checking" /\ UNCHANGED program
  BY DEF Check
<1>3. CASE ~Valid(Completed(e.model))
  BY <1>1, <1>2, <1>3, TreeFails
<1>4. CASE Valid(Completed(e.model))
  <2> DEFINE f == [e EXCEPT !.model = Completed(@)]
  <2>1. /\ result' = (result \ {e}) \union {f}
        /\ pc' = "building" /\ at' = at + 1 /\ stack' = stack
    BY <1>1, <1>4
  <2>2. e \in [path : Seq(Nat) \ {<< >>}, node : Node, model : TemplateModel]
    BY DEF Inv, Entries, TemplateModel
  <2>3. f.path = e.path /\ f.node = e.node
    BY <2>2
  <2> HIDE DEF f
  <2>4. Done' = Done
    <3> DEFINE Of(q) == [path |-> q.path, node |-> q.node]
    <3>1. Of(f) = Of(e)
      BY <2>3
    <3>2. Done = {Of(q) : q \in result} /\ Done' = {Of(q) : q \in result'}
      BY DEF Done
    <3> HIDE DEF Of
    <3> QED
      BY <2>1, <3>1, <3>2
  <2>5. stack = << >>
    BY <1>2 DEF TreeOK, StackOK
  <2>6. StackOK'
    BY <2>1, <2>5, DepthAssumption DEF StackOK
  <2>7. LeavesOK' /\ DoneOK'
    BY <1>2, <2>4, DoneStaysOK DEF TreeOK, LeavesOK, program
  <2>8. RootsOK'
    <3>1. at \in Nat /\ templates' = templates /\ templates \in Seq(Node)
      BY <1>2 DEF Inv, TypeOK, program
    <3>2. \A i : RootDone(i) => RootDone(i)'
      BY <1>2, <2>4, StaysDone
    <3>3. \A i \in DOMAIN templates : i < at => RootDone(i)
      BY DEF TreeOK, RootsOK
    <3>4. RootDone(at)
      BY <1>2 DEF TreeOK, RootsOK
    <3>5. ASSUME NEW i \in DOMAIN templates, i < at + 1 PROVE RootDone(i)'
      <4>1. i < at \/ i = at
        BY <3>1, <3>5
      <4> QED
        BY <3>2, <3>3, <3>4, <4>1
    <3>6. at' >= 1
      BY <2>1, <3>1
    <3> QED
      BY <2>1, <3>1, <3>5, <3>6 DEF RootsOK
  <2> QED
    BY <2>6, <2>7, <2>8 DEF TreeOK
<1> QED
  BY <1>3, <1>4

(* The steps of what has steps are looked at only once it has a name.      *)
LEMMA HeldItem ==
  ASSUME Inv, TreeOK, stack # << >>, Top.next \in DOMAIN steps[Top.node],
         steps[Top.node][Top.next] \in Node
  PROVE  Top.next \in Inlined(Top.node)
<1>1. Top.node \in Node /\ Len(stack) \in DOMAIN stack
  BY CallsAre DEF Top
<1>2. Top.node \in Holds
  BY <1>1 DEF TreeOK, LeavesOK
<1>3. Shape[Top.node].name
  BY <1>1, <1>2 DEF TreeOK, StackOK, Top
<1> QED
  BY <1>3 DEF Inlined, Reached

(* Every step keeps the invariant of the tree.                             *)
LEMMA TreeStep ==
  ASSUME Inv, TreeOK, Inv', [Next]_vars
  PROVE  TreeOK'
<1>1. TypeOK' /\ TypeOK
  BY DEF Inv
<1>2. ASSUME NEW n \in Node, AddTemplate(n) PROVE TreeOK'
  BY <1>2, TreeForgets DEF AddTemplate, TreeOK, LeavesOK
<1>3. ASSUME NEW n \in Holds, NEW item \in Item, AddStep(n, item) PROVE TreeOK'
  <2>1. Forget /\ steps' = [steps EXCEPT ![n] = Append(@, item)]
    BY <1>3 DEF AddStep
  <2>2. LeavesOK'
    BY <1>1, <2>1 DEF TypeOK, TreeOK, LeavesOK
  <2> QED
    BY <2>1, <2>2, TreeForgets
<1>4. ASSUME NEW set \in BOOLEAN, SetImage(set) PROVE TreeOK'
  <2>1. UNCHANGED <<program, stack, result, at, pc>>
    BY <1>4 DEF SetImage
  <2>2. /\ stack # << >> => pc \in {"building", "overflow"}
        /\ pc \in {"building", "checking", "built"} => at >= 1
        /\ pc = "built" => at \notin DOMAIN templates
    BY DEF TreeOK, StackOK, RootsOK
  <2> QED
    BY <1>1, <2>1, <2>2, TreeStays
<1>5. CASE Start
  BY <1>1, <1>5, TreeStarts
<1>6. CASE BuildTemplate
  <2>1. /\ pc = "building" /\ stack = << >> /\ at \in DOMAIN templates
        /\ Call(templates[at]) /\ UNCHANGED program
    BY <1>6 DEF BuildTemplate
  <2>2. templates[at] \in Node
    BY <1>1, <2>1 DEF TypeOK
  <2> QED
    BY <1>1, <2>1, <2>2, TreeCalls
<1>7. CASE BuildStep
  <2> DEFINE item == steps[Top.node][Top.next]
  <2>1. /\ pc = "building"
        /\ stack # << >>
        /\ Top.next \in DOMAIN steps[Top.node]
        /\ \/ item = Broken /\ Fail(Here)
           \/ /\ item = ByName
              /\ stack' = Advanced(stack)
              /\ UNCHANGED <<pc, at, result, culprit>>
           \/ item \in Node /\ Call(item)
        /\ UNCHANGED program
    BY <1>7 DEF BuildStep
  <2>2. CASE item = Broken /\ Fail(Here)
    BY <2>1, <2>2, TreeFails
  <2>3. CASE /\ item = ByName
             /\ stack' = Advanced(stack)
             /\ UNCHANGED <<pc, at, result, culprit>>
    <3>1. Done' = Done
      BY <2>3, SameDone
    <3>2. DoneOK'
      BY <2>1, <3>1, DoneStaysOK DEF TreeOK
    <3>l. PICK l : l = Len(stack)
      OBVIOUS
    <3>j. PICK j : j = stack[l].next
      OBVIOUS
    <3>3. l \in DOMAIN stack /\ stack \in Seq(Frame)
      BY <2>1, <3>l, CallsAre
    <3>4. SubSeq(stack, 1, l) = stack
      BY <3>3, <3>l
    <3>5. InCall(l).node = Top.node /\ InCall(l)'.node = Top.node
      <4>1. InCall(l)' = [path |-> SubSeq(Here', 1, l), node |-> stack'[l].node]
        BY DEF InCall
      <4>2. stack'[l].node = stack[l].node
        <5>1. l \in 1 .. Len(stack) /\ stack # << >>
          BY <2>1, <3>3
        <5> QED
          BY <2>3, <3>3, <5>1, AdvancedIs
      <4> QED
        BY <3>l, <4>1, <4>2 DEF InCall, Top
    <3>6. StepDone(InCall(l), j)'
      BY <2>1, <2>3, <3>5, <3>l, <3>j, StepsAssumption DEF StepDone, program, Top
    <3> QED
      BY <1>1, <2>1, <2>3, <3>1, <3>2, <3>3, <3>4, <3>6, <3>j, TreeAdvances
  <2>4. CASE item \in Node /\ Call(item)
    BY <1>1, <2>1, <2>4, HeldItem, TreeCalls
  <2> QED
    BY <2>1, <2>2, <2>3, <2>4
<1>8. CASE Return
  BY <1>1, <1>8, TreeReturns
<1>9. CASE Check
  BY <1>1, <1>9, TreeChecks
<1>10. CASE Finish
  <2>1. /\ pc = "building" /\ stack = << >> /\ at \notin DOMAIN templates
        /\ pc' = "built" /\ UNCHANGED <<program, stack, result, at>>
    BY <1>10 DEF Finish
  <2>2. at >= 1
    BY <2>1 DEF TreeOK, RootsOK
  <2> QED
    BY <1>1, <2>1, <2>2, TreeStays
<1>11. CASE UNCHANGED vars
  <2>1. UNCHANGED <<program, stack, result, at, pc>>
    BY <1>11 DEF vars
  <2>2. /\ stack # << >> => pc \in {"building", "overflow"}
        /\ pc \in {"building", "checking", "built"} => at >= 1
        /\ pc = "built" => at \notin DOMAIN templates
    BY DEF TreeOK, StackOK, RootsOK
  <2> QED
    BY <1>1, <2>1, <2>2, TreeStays
<1> QED
  BY <1>2, <1>3, <1>4, <1>5, <1>6, <1>7, <1>8, <1>9, <1>10, <1>11 DEF Next, Build

(* What is left of each call of a Build, or inside a template that has     *)
(* been built, is built and in order, whatever the tree; the calls are at  *)
(* the places they are at because their templates hold one another.        *)
THEOREM TreeInvariance == Spec => []TreeOK
<1>1. Init => TreeOK
  <2> SUFFICES ASSUME Init PROVE TreeOK
    OBVIOUS
  <2>1. StackOK
    BY DepthAssumption DEF Init, StackOK
  <2>2. DoneOK
    BY DEF Init, DoneOK, Done
  <2>3. RootsOK
    BY DEF Init, RootsOK
  <2>4. LeavesOK
    BY DEF Init, LeavesOK
  <2> QED
    BY <2>1, <2>2, <2>3, <2>4 DEF TreeOK
<1>2. Inv /\ Inv' /\ TreeOK /\ [Next]_vars => TreeOK'
  BY TreeStep
<1> QED
  BY <1>1, <1>2, Invariance, PTL DEF Spec

----------------------------------------------------------------------------
(* A template that has been built somewhere.                               *)
Known(n) == \E o \in Done : o.node = n

(* The inline templates of a template that is built are built.             *)
LEMMA KnownInside ==
  ASSUME Inv, TreeOK, NEW n, Known(n)
  PROVE  /\ Builds(Shape[n])
         /\ \A i \in DOMAIN steps[n] :
              /\ steps[n][i] # Broken
              /\ steps[n][i] \in Node => Known(steps[n][i])
<1>1. PICK o \in Done : o.node = n
  BY DEF Known
<1>2. Builds(Shape[n]) /\ \A i \in DOMAIN steps[n] : StepDone(o, i)
  BY <1>1 DEF TreeOK, DoneOK
<1>3. ASSUME NEW i \in DOMAIN steps[n], steps[n][i] \in Node
      PROVE  Known(steps[n][i])
  <2>1. [path |-> Append(o.path, i), node |-> steps[n][i]] \in Done
    BY <1>1, <1>2, <1>3 DEF StepDone
  <2> QED
    BY <2>1 DEF Known
<1>4. \A i \in DOMAIN steps[n] : steps[n][i] # Broken
  BY <1>1, <1>2 DEF StepDone
<1> QED
  BY <1>2, <1>3, <1>4

(* The templates on a cycle are never built: the paths of those that are   *)
(* built would have no end.                                                *)
LEMMA CyclesNeverKnown ==
  ASSUME Inv, TreeOK,
         NEW i \in DOMAIN stack, NEW j \in DOMAIN stack, i < j,
         stack[i].node = stack[j].node,
         NEW m \in i .. j
  PROVE  ~Known(stack[m].node)
<1> SUFFICES ASSUME Known(stack[m].node) PROVE FALSE
  OBVIOUS
<1>1. stack # << >>
  OBVIOUS
<1>2. /\ Len(stack) \in Nat /\ DOMAIN stack = 1 .. Len(stack)
      /\ \A k \in DOMAIN stack : stack[k].node \in Node
      /\ \A k \in 2 .. Len(stack) :
           /\ stack[k - 1].next \in Inlined(stack[k - 1].node)
           /\ stack[k].node = steps[stack[k - 1].node][stack[k - 1].next]
  BY <1>1, CallsAre
<1>3. i \in Nat /\ j \in Nat /\ i >= 1 /\ j <= Len(stack)
  BY <1>2
<1> DEFINE C == {stack[k].node : k \in i .. j}
           T == {n \in Nat : \E o \in Done : o.node \in C /\ Len(o.path) = n}
<1>4. \A o \in Done : /\ o.path \in Seq(Nat) /\ Len(o.path) \in Nat
                      /\ Len(o.path) <= MaxDepth
  <2>1. \A o \in Done : o.path \in Seq(Nat)
    BY DEF Inv, Entries, Done
  <2> QED
    BY <2>1 DEF TreeOK, DoneOK
<1>5. T # {} /\ T \in SUBSET Nat
  <2>1. PICK o \in Done : o.node = stack[m].node
    BY DEF Known
  <2>2. Len(o.path) \in T
    BY <1>4, <2>1
  <2> QED
    BY <2>2
<1>6. \A n \in T : n <= MaxDepth
  BY <1>4
<1>7. PICK n \in T : \A t \in T : t <= n
  <2> HIDE DEF T
  <2> QED
    BY <1>5, <1>6, DepthAssumption, Greatest
<1>8. PICK o \in Done, k \in i .. j : o.node = stack[k].node /\ Len(o.path) = n
  BY <1>7
<1>9. PICK q \in i .. j - 1 : o.node = stack[q].node
  <2>1. CASE k = j
    BY <1>3, <1>8, <2>1
  <2>2. CASE k # j
    BY <1>3, <1>8, <2>2
  <2> QED
    BY <2>1, <2>2
<1>10. /\ q \in Nat /\ q + 1 \in 2 .. Len(stack) /\ q \in DOMAIN stack
       /\ q + 1 \in i .. j /\ q + 1 \in DOMAIN stack
  <2>1. q \in Nat /\ i <= q /\ q + 1 <= j
    BY <1>3, <1>9
  <2>2. q >= 1 /\ q + 1 <= Len(stack) /\ Len(stack) \in Nat /\ DOMAIN stack = 1 .. Len(stack)
    BY <1>2, <1>3, <2>1
  <2> QED
    BY <1>3, <2>1, <2>2
<1>11. /\ stack[q].next \in Inlined(stack[q].node)
       /\ stack[q + 1].node = steps[stack[q].node][stack[q].next]
  <2>1. (q + 1) - 1 = q
    BY <1>10
  <2> QED
    BY <1>2, <1>10, <2>1
<1> DEFINE p == [path |-> Append(o.path, stack[q].next), node |-> stack[q + 1].node]
<1>12. p \in Done
  <2>1. StepDone(o, stack[q].next)
    BY <1>9, <1>11 DEF TreeOK, DoneOK, Inlined, Reached
  <2>2. stack[q + 1].node \in Node
    BY <1>2, <1>10
  <2> QED
    BY <1>9, <1>11, <2>1, <2>2 DEF StepDone
<1>13. p.node \in C /\ Len(p.path) = n + 1
  <2>1. Len(p.path) = Len(o.path) + 1
    BY <1>4
  <2> QED
    BY <1>8, <1>10, <2>1
<1>14. n + 1 \in T
  BY <1>12, <1>13
<1> QED
  BY <1>7, <1>14

(* Below a template that is built before, the Build comes across nothing   *)
(* that is not.                                                            *)
LEMMA KnownBelow ==
  ASSUME Inv, TreeOK, NEW j \in DOMAIN stack, Known(stack[j].node)
  PROVE  Known(Top.node)
<1>1. /\ Len(stack) \in Nat /\ DOMAIN stack = 1 .. Len(stack)
      /\ \A k \in DOMAIN stack : stack[k].node \in Node
      /\ \A k \in 2 .. Len(stack) :
           /\ stack[k - 1].next \in Inlined(stack[k - 1].node)
           /\ stack[k].node = steps[stack[k - 1].node][stack[k - 1].next]
  BY CallsAre
<1> DEFINE S == {n \in Nat : j + n \in DOMAIN stack => Known(stack[j + n].node)}
<1>2. 0 \in S
  BY <1>1
<1>3. ASSUME NEW n \in Nat, n \in S PROVE n + 1 \in S
  <2> SUFFICES ASSUME j + (n + 1) \in DOMAIN stack
               PROVE  Known(stack[j + (n + 1)].node)
    OBVIOUS
  <2> DEFINE k == j + (n + 1)
  <2>1. k \in 2 .. Len(stack) /\ k - 1 = j + n /\ k - 1 \in DOMAIN stack
    BY <1>1
  <2>2. Known(stack[k - 1].node)
    BY <1>3, <2>1
  <2>3. /\ stack[k - 1].next \in Inlined(stack[k - 1].node)
        /\ stack[k].node = steps[stack[k - 1].node][stack[k - 1].next]
        /\ stack[k].node \in Node
    BY <1>1, <2>1
  <2> QED
    BY <2>2, <2>3, KnownInside DEF Inlined, Reached
<1>4. Nat \subseteq S
  <2> HIDE DEF S
  <2> QED
    BY <1>2, <1>3, SetInduction
<1>5. Len(stack) - j \in Nat /\ j + (Len(stack) - j) = Len(stack)
      /\ Len(stack) \in DOMAIN stack
  BY <1>1
<1>6. Len(stack) - j \in S
  BY <1>4, <1>5
<1> QED
  BY <1>5, <1>6 DEF Top

(* A Build inside a cycle is at a step, and neither that step nor the      *)
(* template that it holds is refused: it is on the cycle, or built before. *)
LEMMA InsideCycle ==
  ASSUME Inv, TreeOK, Nested
  PROVE  /\ Top.next \in DOMAIN steps[Top.node] \/ Builds(Shape[Top.node])
         /\ Top.next \in DOMAIN steps[Top.node] =>
              /\ steps[Top.node][Top.next] # Broken
              /\ steps[Top.node][Top.next] \in Holds =>
                   Shape[steps[Top.node][Top.next]].name
<1>1. stack # << >>
  BY DEF Nested
<1>2. /\ Len(stack) \in Nat /\ Len(stack) >= 1 /\ DOMAIN stack = 1 .. Len(stack)
      /\ \A k \in DOMAIN stack : stack[k].node \in Node /\ stack[k].next \in Nat
      /\ \A k \in 2 .. Len(stack) :
           /\ stack[k - 1].next \in Inlined(stack[k - 1].node)
           /\ stack[k].node = steps[stack[k - 1].node][stack[k - 1].next]
  BY <1>1, CallsAre
<1>3. /\ \A k \in DOMAIN stack : stack[k].node \in Holds => Shape[stack[k].node].name
      /\ \A k \in DOMAIN stack : stack[k].next >= 1
      /\ \A k \in DOMAIN stack : \A s \in DOMAIN steps[stack[k].node] :
           s < stack[k].next => StepDone(InCall(k), s)
  BY DEF TreeOK, StackOK
<1>4. ASSUME NEW n \in Holds, Builds(Shape[n]) PROVE Shape[n].name
  BY <1>4 DEF Holds, Builds
<1>5. ASSUME NEW n, Known(n), NEW s \in DOMAIN steps[n]
      PROVE  steps[n][s] # Broken /\ (steps[n][s] \in Holds => Shape[steps[n][s]].name)
  <2>1. Holds \subseteq Node
    BY DEF Holds
  <2>2. steps[n][s] # Broken /\ (steps[n][s] \in Node => Known(steps[n][s]))
    BY <1>5, KnownInside
  <2>3. steps[n][s] \in Holds => Builds(Shape[steps[n][s]])
    BY <2>1, <2>2, KnownInside
  <2> QED
    BY <1>4, <2>2, <2>3
<1> DEFINE Twice(i, j) == i < j /\ stack[i].node = stack[j].node
           T == {j \in DOMAIN stack : \E i \in DOMAIN stack : Twice(i, j)}
<1>6. T # {}
  <2>1. PICK i \in DOMAIN stack, j \in DOMAIN stack :
          i # j /\ stack[i].node = stack[j].node
    BY DEF Nested
  <2>2. i < j \/ j < i
    BY <1>2, <2>1
  <2> QED
    BY <2>1, <2>2
<1>7. PICK j \in T : \A m \in T : m <= j
  <2>1. T \in SUBSET Nat /\ \A m \in T : m <= Len(stack)
    BY <1>2
  <2> HIDE DEF T
  <2> QED
    BY <1>2, <1>6, <2>1, Greatest
<1>8. PICK i \in DOMAIN stack : i < j /\ stack[i].node = stack[j].node
  BY <1>7
<1>9. /\ j \in DOMAIN stack /\ i \in 1 .. Len(stack) /\ j \in 1 .. Len(stack)
      /\ i \in Nat /\ j \in Nat /\ i + 1 \in 2 .. Len(stack) /\ i + 1 \in i .. j
      /\ (i + 1) - 1 = i /\ i + 1 \in DOMAIN stack
  BY <1>2, <1>7, <1>8
<1> DEFINE x == stack[i].node
           s == stack[i].next
           t == stack[j].next
<1>10. /\ x \in Node /\ s \in Nat /\ t \in Nat /\ t >= 1
       /\ s \in DOMAIN steps[x] /\ steps[x][s] = stack[i + 1].node
  BY <1>2, <1>3, <1>9 DEF Inlined, Reached
<1>11. ~Known(stack[i + 1].node)
  BY <1>8, <1>9, CyclesNeverKnown
<1>12. t <= s
  <2> SUFFICES ASSUME s < t PROVE FALSE
    BY <1>10
  <2>1. StepDone(InCall(j), s)
    BY <1>3, <1>8, <1>9, <1>10
  <2>2. Known(stack[i + 1].node)
    <3>1. InCall(j).node = x
      BY <1>8 DEF InCall
    <3>2. stack[i + 1].node \in Node
      BY <1>2, <1>9
    <3> QED
      BY <1>10, <2>1, <3>1, <3>2 DEF StepDone, Known
  <2> QED
    BY <1>11, <2>2
<1>13. t \in DOMAIN steps[x]
  <2>1. steps[x] \in Seq(Item)
    BY <1>10 DEF Inv, TypeOK
  <2> QED
    BY <1>10, <1>12, <2>1
<1>14. ASSUME t < s
       PROVE  steps[x][t] # Broken /\ (steps[x][t] \in Node => Known(steps[x][t]))
  <2>1. StepDone(InCall(i), t) /\ InCall(i).node = x
    BY <1>3, <1>9, <1>13, <1>14 DEF InCall
  <2> QED
    BY <2>1 DEF StepDone, Known
<1>15. CASE j = Len(stack)
  <2>1. Top.node = x /\ Top.next = t
    BY <1>8, <1>15 DEF Top
  <2>2. CASE t = s
    <3>1. steps[x][t] = stack[i + 1].node /\ stack[i + 1].node \in Node
      BY <1>2, <1>9, <1>10, <2>2
    <3> QED
      BY <1>3, <1>9, <1>13, <2>1, <3>1, StepsAssumption
  <2>3. CASE t < s
    <3>1. Holds \subseteq Node
      BY DEF Holds
    <3>2. steps[x][t] \in Holds => Builds(Shape[steps[x][t]])
      BY <1>14, <2>3, <3>1, KnownInside
    <3> QED
      BY <1>4, <1>13, <1>14, <2>1, <2>3, <3>2
  <2> QED
    BY <1>10, <1>12, <2>2, <2>3
<1>16. CASE j # Len(stack)
  <2>1. j + 1 \in 2 .. Len(stack) /\ j + 1 \in DOMAIN stack /\ (j + 1) - 1 = j
    BY <1>2, <1>9, <1>16
  <2>2. stack[j + 1].node = steps[x][t] /\ stack[j + 1].node \in Node
    BY <1>2, <1>8, <2>1
  <2>3. t # s
    <3> SUFFICES ASSUME t = s PROVE FALSE
      OBVIOUS
    <3>1. stack[i + 1].node = stack[j + 1].node /\ i + 1 < j + 1
      BY <1>8, <1>9, <1>10, <2>2
    <3>2. j + 1 \in T
      BY <1>9, <2>1, <3>1
    <3> QED
      BY <1>7, <1>9, <3>2
  <2>4. Known(stack[j + 1].node)
    BY <1>10, <1>12, <1>14, <2>2, <2>3
  <2>5. Known(Top.node)
    BY <2>1, <2>4, KnownBelow
  <2> QED
    BY <1>5, <2>5, KnownInside
<1> QED
  BY <1>15, <1>16

(* A Build that met a template inside itself never comes to an end by      *)
(* itself: neither an error nor a result of that Build is ever returned.   *)
THEOREM CyclesHaveNoOutcome == Spec => CyclesNeverReturn
<1>1. Inv /\ TreeOK /\ [Next]_vars => [Nested => pc' \in {"building", "overflow"}]_vars
  <2> SUFFICES ASSUME Inv, TreeOK, Next, Nested
               PROVE  pc' \in {"building", "overflow"}
    BY DEF vars
  <2>1. /\ Len(stack) # 1 /\ stack # << >>
        /\ pc \in {"building", "overflow"}
    <3>1. stack # << >>
      BY DEF Nested
    <3>2. Len(stack) \in Nat /\ DOMAIN stack = 1 .. Len(stack)
      BY <3>1, CallsAre
    <3>3. Len(stack) # 1
      BY <3>2 DEF Nested
    <3> QED
      BY <3>1, <3>2, <3>3 DEF TreeOK, StackOK
  <2>2. ASSUME NEW n \in Node, AddTemplate(n) PROVE FALSE
    BY <2>1, <2>2 DEF AddTemplate, Forget
  <2>3. ASSUME NEW n \in Holds, NEW item \in Item, AddStep(n, item) PROVE FALSE
    BY <2>1, <2>3 DEF AddStep, Forget
  <2>4. ASSUME NEW set \in BOOLEAN, SetImage(set) PROVE pc' = pc
    BY <2>4 DEF SetImage
  <2>5. CASE Start
    BY <2>1, <2>5 DEF Start
  <2>6. CASE BuildTemplate
    BY <2>1, <2>6 DEF BuildTemplate
  <2>7. CASE BuildStep
    <3> DEFINE item == steps[Top.node][Top.next]
    <3>1. /\ pc = "building"
          /\ Top.next \in DOMAIN steps[Top.node]
          /\ \/ item = Broken /\ Fail(Here)
             \/ /\ item = ByName
                /\ stack' = Advanced(stack)
                /\ UNCHANGED <<pc, at, result, culprit>>
             \/ item \in Node /\ Call(item)
      BY <2>7 DEF BuildStep
    <3>2. item # Broken /\ (item \in Holds => Shape[item].name)
      BY <3>1, InsideCycle
    <3> HIDE DEF item
    <3> QED
      BY <3>1, <3>2 DEF Call
  <2>8. CASE Return
    <3>1. Builds(Shape[Top.node])
      BY <2>8, InsideCycle DEF Return
    <3>2. pc = "building" /\ pc' = IF Len(stack) = 1 THEN "checking" ELSE pc
      BY <2>8, <3>1 DEF Return
    <3> QED
      BY <2>1, <3>2
  <2>9. CASE Check
    BY <2>1, <2>9 DEF Check
  <2>10. CASE Finish
    BY <2>1, <2>10 DEF Finish
  <2> QED
    BY <2>1, <2>2, <2>3, <2>4, <2>5, <2>6, <2>7, <2>8, <2>9, <2>10 DEF Next, Build
<1> QED
  BY <1>1, Invariance, TreeInvariance, PTL DEF Spec, CyclesNeverReturn

----------------------------------------------------------------------------
(* The levels of the tree: the top, and what is inside a set of places.    *)
Tops == {[path |-> <<i>>, node |-> templates[i]] : i \in DOMAIN templates}
Inside(s) == UNION {{[path |-> Append(o.path, i), node |-> steps[o.node][i]] :
                       i \in Inlined(o.node)} : o \in s}
Levels(f, m) ==
  f = [d \in 1 .. m |-> IF d = 1 THEN Tops ELSE Inside(f[d - 1])]

(* The recursion that defines Level has a solution.                        *)
LEMMA LevelsExist ==
  ASSUME NEW m \in Nat
  PROVE  \E f : Levels(f, m)
<1> DEFINE S == {n \in Nat : \E f : Levels(f, n)}
<1>1. 0 \in S
  <2> DEFINE f == [d \in 1 .. 0 |-> {}]
  <2>1. f = [d \in 1 .. 0 |-> IF d = 1 THEN Tops ELSE Inside(f[d - 1])]
    <3>1. \A d \in 1 .. 0 : FALSE
      OBVIOUS
    <3> QED
      BY <3>1
  <2>2. Levels(f, 0)
    BY <2>1 DEF Levels
  <2> QED
    BY <2>2
<1>2. ASSUME NEW n \in Nat, n \in S PROVE n + 1 \in S
  <2>1. PICK f : Levels(f, n)
    BY <1>2
  <2> DEFINE g == [d \in 1 .. n + 1 |->
                     IF d = 1 THEN Tops ELSE Inside(f[d - 1])]
  <2>2. ASSUME NEW d \in 1 .. n PROVE g[d] = f[d]
    <3>1. d \in 1 .. n + 1
      OBVIOUS
    <3> QED
      BY <2>1, <3>1 DEF Levels
  <2>3. ASSUME NEW d \in 1 .. n + 1, d # 1 PROVE g[d - 1] = f[d - 1]
    <3>1. d - 1 \in 1 .. n
      BY <2>3
    <3> QED
      BY <2>2, <3>1
  <2>4. g = [d \in 1 .. n + 1 |-> IF d = 1 THEN Tops ELSE Inside(g[d - 1])]
    <3>1. \A d \in 1 .. n + 1 :
            (IF d = 1 THEN Tops ELSE Inside(f[d - 1]))
              = IF d = 1 THEN Tops ELSE Inside(g[d - 1])
      <4> HIDE DEF g
      <4> QED
        BY <2>3
    <3> QED
      BY <3>1, Zenon
  <2>5. Levels(g, n + 1)
    <3> HIDE DEF g
    <3> QED
      BY <2>4 DEF Levels
  <2> QED
    BY <2>5
<1>3. Nat \subseteq S
  <2> HIDE DEF S
  <2> QED
    BY <1>1, <1>2, SetInduction
<1> QED
  BY <1>3

(* What the levels of the tree are.                                        *)
LEMMA LevelIs ==
  /\ Level[1] = Tops
  /\ \A d \in 1 .. MaxDepth : d # 1 => Level[d] = Inside(Level[d - 1])
<1>1. \E f : Levels(f, MaxDepth)
  BY LevelsExist, DepthAssumption
<1>2. Level = CHOOSE f : Levels(f, MaxDepth)
  BY DEF Level, Levels, Tops, Inside
<1>3. Levels(Level, MaxDepth)
  BY <1>1, <1>2
<1>4. 1 \in 1 .. MaxDepth
  BY DepthAssumption
<1>5. \A d \in 1 .. MaxDepth : Level[d] = IF d = 1 THEN Tops ELSE Inside(Level[d - 1])
  BY <1>3 DEF Levels
<1> QED
  BY <1>4, <1>5

(* What occurs depends on the program alone.                               *)
LEMMA SameLevel ==
  ASSUME UNCHANGED program
  PROVE  Level' = Level
BY DEF Level, Inlined, Reached, program

(* The place k steps down on the way to o.                                 *)
Up(o, ns, k) == [path |-> SubSeq(o.path, 1, k), node |-> ns[k]]

LEMMA PlaceIs ==
  ASSUME NEW o \in Place
  PROVE  /\ o.path \in Seq(Nat) /\ Len(o.path) \in Nat /\ Len(o.path) >= 1
         /\ o.node \in Node /\ o = [path |-> o.path, node |-> o.node]
<1>1. o.path \in Seq(Nat) /\ o.path # << >> /\ o.node \in Node
      /\ o = [path |-> o.path, node |-> o.node]
  BY DEF Place
<1> QED
  BY <1>1

(* The beginnings of a path.                                               *)
LEMMA Prefixes ==
  ASSUME NEW p \in Seq(Nat)
  PROVE  /\ \A k \in 1 .. Len(p) :
              /\ SubSeq(p, 1, k) \in Seq(Nat) \ {<< >>}
              /\ Len(SubSeq(p, 1, k)) = k
              /\ \A i \in 1 .. k : SubSeq(p, 1, k)[i] = p[i]
              /\ k + 1 \in 1 .. Len(p) =>
                   SubSeq(p, 1, k + 1) = Append(SubSeq(p, 1, k), p[k + 1])
         /\ Len(p) # 0 => SubSeq(p, 1, 1) = <<p[1]>> /\ SubSeq(p, 1, Len(p)) = p
<1>1. Len(p) \in Nat /\ \A i \in 1 .. Len(p) : p[i] \in Nat
  OBVIOUS
<1>2. ASSUME NEW k \in 1 .. Len(p)
      PROVE  /\ SubSeq(p, 1, k) \in Seq(Nat) \ {<< >>}
             /\ Len(SubSeq(p, 1, k)) = k
             /\ \A i \in 1 .. k : SubSeq(p, 1, k)[i] = p[i]
  <2>1. k \in Nat /\ k >= 1 /\ k <= Len(p)
    BY <1>1
  <2> QED
    BY <1>1, <2>1
<1>3. ASSUME NEW k \in 1 .. Len(p), k + 1 \in 1 .. Len(p)
      PROVE  SubSeq(p, 1, k + 1) = Append(SubSeq(p, 1, k), p[k + 1])
  <2> DEFINE s == SubSeq(p, 1, k)
             q == SubSeq(p, 1, k + 1)
             r == Append(s, p[k + 1])
  <2>1. s \in Seq(Nat) /\ Len(s) = k /\ \A i \in 1 .. k : s[i] = p[i]
    BY <1>2
  <2>2. q \in Seq(Nat) /\ Len(q) = k + 1 /\ \A i \in 1 .. k + 1 : q[i] = p[i]
    BY <1>2, <1>3
  <2>3. k \in Nat /\ k >= 1 /\ p[k + 1] \in Nat
    BY <1>1, <1>3
  <2> HIDE DEF s, q
  <2>4. /\ r \in Seq(Nat) /\ Len(r) = k + 1
        /\ \A i \in 1 .. k : r[i] = s[i]
        /\ r[k + 1] = p[k + 1]
    BY <2>1, <2>3
  <2> HIDE DEF r
  <2>5. ASSUME NEW i \in 1 .. k + 1 PROVE q[i] = r[i]
    <3>1. CASE i = k + 1
      BY <2>2, <2>4, <3>1
    <3>2. CASE i # k + 1
      <4>1. i \in 1 .. k
        BY <2>3, <3>2
      <4> QED
        BY <2>1, <2>2, <2>4, <4>1
    <3> QED
      BY <3>1, <3>2
  <2>6. q = r
    BY <2>2, <2>4, <2>5, SeqEqual
  <2> QED
    BY <2>6 DEF q, r, s
<1>4. ASSUME Len(p) # 0
      PROVE  SubSeq(p, 1, 1) = <<p[1]>> /\ SubSeq(p, 1, Len(p)) = p
  <2>1. 1 \in 1 .. Len(p) /\ Len(p) \in 1 .. Len(p)
    BY <1>1, <1>4
  <2> DEFINE s == SubSeq(p, 1, 1)
             t == SubSeq(p, 1, Len(p))
  <2>2. s \in Seq(Nat) /\ Len(s) = 1 /\ s[1] = p[1]
    BY <1>2, <2>1
  <2>3. t \in Seq(Nat) /\ Len(t) = Len(p) /\ \A i \in 1 .. Len(p) : t[i] = p[i]
    BY <1>2, <2>1
  <2> HIDE DEF s, t
  <2>4. s = <<p[1]>>
    BY <2>2
  <2>5. t = p
    BY <2>3, SeqEqual
  <2> QED
    BY <2>4, <2>5 DEF s, t
<1> QED
  BY <1>2, <1>3, <1>4

(* An inline template of a template that occurs occurs, and whatever       *)
(* occurs is at the top or an inline template of one that does.            *)
LEMMA OccursInside ==
  ASSUME TypeOK, NEW o \in Place, Occurs(o), NEW i \in Inlined(o.node)
  PROVE  /\ [path |-> Append(o.path, i), node |-> steps[o.node][i]] \in Place
         /\ Len(Append(o.path, i)) = Len(o.path) + 1
         /\ Occurs([path |-> Append(o.path, i), node |-> steps[o.node][i]])
<1> DEFINE q == [path |-> Append(o.path, i), node |-> steps[o.node][i]]
           l == Len(o.path)
           n == steps[o.node][i]
           p == Append(o.path, i)
<1>1. /\ o.path \in Seq(Nat) /\ l \in Nat /\ l >= 1
      /\ o.node \in Node /\ o = [path |-> o.path, node |-> o.node]
  BY PlaceIs
<1>2. i \in Nat /\ n \in Node
  <2>1. steps[o.node] \in Seq(Item)
    BY <1>1 DEF TypeOK
  <2> QED
    BY <2>1 DEF Inlined, Reached
<1>3. PICK ns \in [1 .. l -> Node] : Chain(o.path, ns) /\ ns[l] = o.node
  BY DEF Occurs
<1>4. /\ o.path[1] \in DOMAIN templates /\ ns[1] = templates[o.path[1]]
      /\ \A k \in 2 .. l : o.path[k] \in Inlined(ns[k - 1])
                           /\ ns[k] = steps[ns[k - 1]][o.path[k]]
  BY <1>3 DEF Chain
<1>5. /\ p \in Seq(Nat) /\ Len(p) = l + 1 /\ p # << >>
      /\ \A k \in 1 .. l : p[k] = o.path[k]
      /\ p[l + 1] = i
  BY <1>1, <1>2
<1> DEFINE ms == [k \in 1 .. l + 1 |-> IF k = l + 1 THEN n ELSE ns[k]]
<1>6. /\ ms \in [1 .. l + 1 -> Node] /\ ms[l + 1] = n
      /\ \A k \in 1 .. l : ms[k] = ns[k]
  BY <1>1, <1>2, <1>3
<1> HIDE DEF ms, p, n
<1>7. Chain(p, ms)
  <2>1. p[1] \in DOMAIN templates /\ ms[1] = templates[p[1]]
    BY <1>1, <1>4, <1>5, <1>6
  <2>2. ASSUME NEW k \in 2 .. Len(p)
        PROVE  p[k] \in Inlined(ms[k - 1]) /\ ms[k] = steps[ms[k - 1]][p[k]]
    <3>1. CASE k = l + 1
      <4>1. k - 1 = l /\ l \in 1 .. l
        BY <1>1, <3>1
      <4>2. ms[k - 1] = o.node /\ ms[k] = n /\ p[k] = i
        BY <1>3, <1>5, <1>6, <3>1, <4>1
      <4> QED
        BY <4>2 DEF n
    <3>2. CASE k # l + 1
      <4>1. k \in 2 .. l /\ k \in 1 .. l /\ k - 1 \in 1 .. l
        <5>1. Len(p) = l + 1 /\ l \in Nat
          BY <1>1, <1>5
        <5> HIDE DEF l
        <5>2. k \in Nat /\ 2 <= k /\ k <= l
          BY <3>2, <5>1
        <5> QED
          BY <5>1, <5>2
      <4> QED
        BY <1>4, <1>5, <1>6, <4>1
    <3> QED
      BY <3>1, <3>2
  <2> QED
    BY <2>1, <2>2 DEF Chain
<1>8. q \in Place /\ q.path = p /\ q.node = n
  BY <1>2, <1>5 DEF p, n, Place
<1>9. Occurs(q)
  <2> HIDE DEF q
  <2> QED
    BY <1>5, <1>6, <1>7, <1>8 DEF Occurs
<1> QED
  BY <1>5, <1>8, <1>9 DEF p, n

(* On the way to what occurs, everything occurs.                           *)
LEMMA OccursUp ==
  ASSUME NEW o \in Place, NEW ns \in [1 .. Len(o.path) -> Node],
         Chain(o.path, ns), NEW k \in 1 .. Len(o.path)
  PROVE  /\ Up(o, ns, k) \in Place
         /\ Occurs(Up(o, ns, k))
         /\ Len(Up(o, ns, k).path) = k
<1> DEFINE s == SubSeq(o.path, 1, k)
           l == Len(o.path)
           u == Up(o, ns, k)
<1>1. /\ o.path \in Seq(Nat) /\ l \in Nat /\ k \in Nat /\ k >= 1 /\ k <= l
  BY PlaceIs
<1>2. /\ s \in Seq(Nat) \ {<< >>} /\ Len(s) = k
      /\ \A i \in 1 .. k : s[i] = o.path[i]
  BY <1>1, Prefixes
<1>3. u.path = s /\ u.node = ns[k] /\ u \in Place
  <2>1. ns[k] \in Node
    OBVIOUS
  <2> QED
    BY <1>2, <2>1 DEF Up, Place
<1> DEFINE ms == [i \in 1 .. k |-> ns[i]]
<1>4. /\ ms \in [1 .. k -> Node] /\ \A i \in 1 .. k : ms[i] = ns[i]
  BY <1>1
<1>5. /\ o.path[1] \in DOMAIN templates /\ ns[1] = templates[o.path[1]]
      /\ \A i \in 2 .. l : o.path[i] \in Inlined(ns[i - 1])
                           /\ ns[i] = steps[ns[i - 1]][o.path[i]]
  BY DEF Chain
<1> HIDE DEF s, ms, u
<1>6. Chain(s, ms)
  <2>1. s[1] \in DOMAIN templates /\ ms[1] = templates[s[1]]
    BY <1>1, <1>2, <1>4, <1>5
  <2>2. ASSUME NEW i \in 2 .. Len(s)
        PROVE  s[i] \in Inlined(ms[i - 1]) /\ ms[i] = steps[ms[i - 1]][s[i]]
    <3>1. i \in 2 .. l /\ i \in 1 .. k /\ i - 1 \in 1 .. k
      BY <1>1, <1>2
    <3> QED
      BY <1>2, <1>4, <1>5, <3>1
  <2> QED
    BY <2>1, <2>2 DEF Chain
<1>7. ms[k] = ns[k]
  BY <1>1, <1>4
<1>8. Occurs(u)
  BY <1>2, <1>3, <1>4, <1>6, <1>7 DEF Occurs
<1> QED
  BY <1>2, <1>3, <1>8 DEF u

(* The levels of the tree are what occurs, by the length of the path.      *)
LEMMA LevelOccurs ==
  ASSUME TypeOK, NEW d \in 1 .. MaxDepth
  PROVE  \A o : o \in Level[d] <=> o \in Place /\ Len(o.path) = d /\ Occurs(o)
<1> DEFINE Q(n) == \A o : o \in Level[n] <=>
                           o \in Place /\ Len(o.path) = n /\ Occurs(o)
           S == {n \in Nat : n + 1 \in 1 .. MaxDepth => Q(n + 1)}
<1>1. 0 \in S
  <2>1. ASSUME NEW o \in Tops PROVE o \in Place /\ Len(o.path) = 1 /\ Occurs(o)
    <3>1. PICK i \in DOMAIN templates : o = [path |-> <<i>>, node |-> templates[i]]
      BY DEF Tops
    <3>2. i \in Nat /\ templates[i] \in Node
      BY DEF TypeOK
    <3>3. o.path = <<i>> /\ o.node = templates[i] /\ <<i>> \in Seq(Nat)
          /\ Len(<<i>>) = 1 /\ <<i>> # << >>
      BY <3>1, <3>2
    <3>4. o \in Place
      BY <3>1, <3>2, <3>3 DEF Place
    <3> DEFINE ns == [k \in 1 .. 1 |-> templates[i]]
    <3>5. ns \in [1 .. Len(o.path) -> Node] /\ ns[1] = templates[i]
      BY <3>2, <3>3
    <3> HIDE DEF ns
    <3>6. Chain(o.path, ns)
      BY <3>3, <3>5 DEF Chain
    <3> QED
      BY <3>3, <3>4, <3>5, <3>6 DEF Occurs
  <2>2. ASSUME NEW o \in Place, Len(o.path) = 1, Occurs(o) PROVE o \in Tops
    <3>1. PICK ns \in [1 .. Len(o.path) -> Node] :
            Chain(o.path, ns) /\ ns[Len(o.path)] = o.node
      BY <2>2 DEF Occurs
    <3>2. o.path[1] \in DOMAIN templates /\ o.node = templates[o.path[1]]
      BY <2>2, <3>1 DEF Chain
    <3>3. o.path = <<o.path[1]>> /\ o = [path |-> o.path, node |-> o.node]
      <4>1. o.path \in Seq(Nat) /\ o = [path |-> o.path, node |-> o.node]
        BY PlaceIs
      <4> QED
        BY <2>2, <4>1
    <3> QED
      BY <3>2, <3>3 DEF Tops
  <2>3. Q(1)
    BY <2>1, <2>2, LevelIs
  <2> QED
    BY <2>3
<1>2. ASSUME NEW n \in Nat, n \in S PROVE n + 1 \in S
  <2> SUFFICES ASSUME (n + 1) + 1 \in 1 .. MaxDepth PROVE Q((n + 1) + 1)
    OBVIOUS
  <2> DEFINE m == n + 1
  <2>1. /\ m \in 1 .. MaxDepth /\ m \in Nat /\ m >= 1
        /\ m + 1 \in 1 .. MaxDepth /\ m + 1 # 1 /\ (m + 1) - 1 = m
    BY DepthAssumption
  <2>2. \A o : o \in Level[m] <=> o \in Place /\ Len(o.path) = m /\ Occurs(o)
    BY <1>2, <2>1
  <2> HIDE DEF m
  <2>3. Level[m + 1] = Inside(Level[m])
    BY <2>1, LevelIs
  <2>4. ASSUME NEW q \in Level[m + 1]
        PROVE  q \in Place /\ Len(q.path) = m + 1 /\ Occurs(q)
    <3>1. PICK o \in Level[m] : \E i \in Inlined(o.node) :
            q = [path |-> Append(o.path, i), node |-> steps[o.node][i]]
      BY <2>3, <2>4 DEF Inside
    <3>2. o \in Place /\ Len(o.path) = m /\ Occurs(o)
      BY <2>2
    <3> QED
      BY <3>1, <3>2, OccursInside
  <2>5. ASSUME NEW q \in Place, Len(q.path) = m + 1, Occurs(q)
        PROVE  q \in Level[m + 1]
    <3>1. PICK ns \in [1 .. Len(q.path) -> Node] :
            Chain(q.path, ns) /\ ns[Len(q.path)] = q.node
      BY <2>5 DEF Occurs
    <3>2. m \in 1 .. Len(q.path) /\ m + 1 \in 1 .. Len(q.path) /\ m + 1 \in 2 .. Len(q.path)
      BY <2>1, <2>5
    <3> DEFINE o == Up(q, ns, m)
               i == q.path[m + 1]
    <3>3. o \in Level[m]
      <4>1. o \in Place /\ Len(o.path) = m /\ Occurs(o)
        BY <3>1, <3>2, OccursUp
      <4> QED
        BY <2>2, <4>1
    <3>4. i \in Inlined(o.node) /\ q.node = steps[o.node][i]
      <4>1. i \in Inlined(ns[(m + 1) - 1]) /\ ns[m + 1] = steps[ns[(m + 1) - 1]][i]
        BY <3>1, <3>2 DEF Chain
      <4>2. o.node = ns[m]
        BY DEF Up
      <4> QED
        BY <2>1, <2>5, <3>1, <4>1, <4>2
    <3>5. q.path = Append(o.path, i)
      <4>a. q.path \in Seq(Nat) /\ Len(q.path) \in Nat /\ Len(q.path) >= 1
        BY PlaceIs
      <4>b. o.path = SubSeq(q.path, 1, m)
        BY DEF Up
      <4>1. q.path \in Seq(Nat) /\ Len(q.path) # 0 /\ o.path = SubSeq(q.path, 1, m)
        BY <4>a, <4>b
      <4>2. SubSeq(q.path, 1, m + 1) = Append(SubSeq(q.path, 1, m), q.path[m + 1])
        BY <3>2, <4>1, Prefixes
      <4>3. SubSeq(q.path, 1, Len(q.path)) = q.path
        BY <4>1, Prefixes
      <4> QED
        BY <2>5, <4>1, <4>2, <4>3
    <3>6. q = [path |-> Append(o.path, i), node |-> steps[o.node][i]]
      BY <3>4, <3>5, PlaceIs
    <3> HIDE DEF o, i
    <3>7. q \in {[path |-> Append(o.path, k), node |-> steps[o.node][k]] :
                   k \in Inlined(o.node)}
      BY <3>4, <3>6
    <3> QED
      BY <2>3, <3>3, <3>7 DEF Inside
  <2> QED
    BY <2>4, <2>5 DEF m
<1>3. Nat \subseteq S
  <2> HIDE DEF S
  <2> QED
    BY <1>1, <1>2, SetInduction
<1>4. d - 1 \in Nat /\ (d - 1) + 1 = d
  BY DepthAssumption
<1>5. d - 1 \in S
  BY <1>3, <1>4
<1>6. Q(d)
  BY <1>4, <1>5
<1> QED
  BY <1>6

(* Occurrences, and Faults, without the levels.                            *)
LEMMA OccurrencesAre ==
  ASSUME TypeOK
  PROVE  \A o : o \in Occurrences <=>
                  o \in Place /\ Len(o.path) <= MaxDepth /\ Occurs(o)
<1>1. ASSUME NEW o \in Occurrences
      PROVE  o \in Place /\ Len(o.path) <= MaxDepth /\ Occurs(o)
  <2>1. PICK d \in 1 .. MaxDepth : o \in Level[d]
    BY DEF Occurrences
  <2>2. o \in Place /\ Len(o.path) = d /\ Occurs(o)
    BY <2>1, LevelOccurs
  <2> QED
    BY <2>2, DepthAssumption
<1>2. ASSUME NEW o \in Place, Len(o.path) <= MaxDepth, Occurs(o)
      PROVE  o \in Occurrences
  <2>1. Len(o.path) \in 1 .. MaxDepth
    BY <1>2, PlaceIs, DepthAssumption
  <2>2. o \in Level[Len(o.path)]
    BY <1>2, <2>1, LevelOccurs
  <2> QED
    BY <2>1, <2>2 DEF Occurrences
<1> QED
  BY <1>1, <1>2

----------------------------------------------------------------------------
LEMMA FaultsAre ==
  ASSUME TypeOK
  PROVE  \A p : p \in Faults <=>
           \E o \in Place :
             /\ Occurs(o) /\ Len(o.path) <= MaxDepth
             /\ \/ p = o.path /\ ~Builds(Shape[o.node])
                \/ \E i \in Reached(o.node) :
                     steps[o.node][i] = Broken /\ p = Append(o.path, i)
<1>1. \A o : o \in Occurrences <=>
               o \in Place /\ Len(o.path) <= MaxDepth /\ Occurs(o)
  BY OccurrencesAre
<1>2. ASSUME NEW p \in Faults
      PROVE  \E o \in Occurrences :
               \/ p = o.path /\ ~Builds(Shape[o.node])
               \/ \E i \in Reached(o.node) :
                    steps[o.node][i] = Broken /\ p = Append(o.path, i)
  BY DEF Faults
<1>3. ASSUME NEW o \in Occurrences, NEW p,
             \/ p = o.path /\ ~Builds(Shape[o.node])
             \/ \E i \in Reached(o.node) :
                  steps[o.node][i] = Broken /\ p = Append(o.path, i)
      PROVE  p \in Faults
  <2>1. CASE p = o.path /\ ~Builds(Shape[o.node])
    BY <2>1 DEF Faults
  <2>2. CASE \E i \in Reached(o.node) :
               steps[o.node][i] = Broken /\ p = Append(o.path, i)
    <3>1. p \in {Append(o.path, i) : i \in {i \in Reached(o.node) :
                                              steps[o.node][i] = Broken}}
      BY <2>2
    <3> QED
      BY <3>1 DEF Faults
  <2> QED
    BY <1>3, <2>1, <2>2
<1> QED
  BY <1>1, <1>2, <1>3

(* Whatever is inside a template that is built is built.                   *)
LEMMA DoneBelow ==
  ASSUME Inv, TreeOK, NEW o \in Place, NEW ns \in [1 .. Len(o.path) -> Node],
         Chain(o.path, ns), ns[Len(o.path)] = o.node,
         NEW k \in 1 .. Len(o.path), Up(o, ns, k) \in Done
  PROVE  o \in Done
<1> DEFINE l == Len(o.path)
           S == {n \in Nat : k + n \in 1 .. l => Up(o, ns, k + n) \in Done}
<1>1. /\ o.path \in Seq(Nat) /\ l \in Nat /\ l >= 1
      /\ o = [path |-> o.path, node |-> o.node]
      /\ k \in Nat /\ k >= 1 /\ k <= l
  BY PlaceIs
<1>2. 0 \in S
  BY <1>1
<1>3. ASSUME NEW n \in Nat, n \in S PROVE n + 1 \in S
  <2> SUFFICES ASSUME k + (n + 1) \in 1 .. l
               PROVE  Up(o, ns, k + (n + 1)) \in Done
    OBVIOUS
  <2>1. PICK m : m = k + n
    OBVIOUS
  <2>2. /\ m \in 1 .. l /\ m + 1 \in 1 .. l /\ m + 1 \in 2 .. l
        /\ (m + 1) - 1 = m /\ k + (n + 1) = m + 1
    <3>1. l \in Nat /\ k \in Nat /\ k >= 1 /\ k + (n + 1) <= l
      BY <1>1
    <3> HIDE DEF l
    <3>2. m \in Nat /\ m >= 1 /\ m + 1 <= l /\ k + (n + 1) = m + 1
      BY <2>1, <3>1
    <3> QED
      BY <3>1, <3>2
  <2> DEFINE u == Up(o, ns, m)
             i == o.path[m + 1]
  <2>3. u \in Done
    BY <1>3, <2>1, <2>2
  <2>4. u.path = SubSeq(o.path, 1, m) /\ u.node = ns[m]
    BY DEF Up
  <2>5. i \in Inlined(ns[m]) /\ ns[m + 1] = steps[ns[m]][i] /\ ns[m + 1] \in Node
    BY <2>2 DEF Chain
  <2>6. StepDone(u, i)
    BY <2>3, <2>4, <2>5 DEF TreeOK, DoneOK, Inlined, Reached
  <2>7. [path |-> Append(u.path, i), node |-> steps[u.node][i]] \in Done
    BY <2>4, <2>5, <2>6 DEF StepDone
  <2>8. SubSeq(o.path, 1, m + 1) = Append(SubSeq(o.path, 1, m), i)
    BY <1>1, <2>2, Prefixes
  <2>9. Up(o, ns, m + 1) = [path |-> Append(u.path, i), node |-> steps[u.node][i]]
    BY <2>4, <2>5, <2>8 DEF Up
  <2> QED
    BY <2>2, <2>7, <2>9
<1>4. Nat \subseteq S
  <2> HIDE DEF S
  <2> QED
    BY <1>2, <1>3, SetInduction
<1>5. l - k \in Nat /\ k + (l - k) = l /\ l \in 1 .. l
  BY <1>1
<1>6. Up(o, ns, l) \in Done
  <2>1. l - k \in S
    BY <1>4, <1>5
  <2> QED
    BY <1>5, <2>1
<1>7. Up(o, ns, l) = o
  <2>1. SubSeq(o.path, 1, l) = o.path
    BY <1>1, Prefixes
  <2> QED
    BY <1>1, <2>1 DEF Up
<1> QED
  BY <1>6, <1>7

(* ... and in order.                                                       *)
LEMMA DoneInOrder ==
  ASSUME Inv, TreeOK, NEW o \in Done
  PROVE  /\ Builds(Shape[o.node])
         /\ \A i \in Reached(o.node) : steps[o.node][i] # Broken
BY DEF TreeOK, DoneOK, StepDone, Reached

(* The template of the workflow that something is in.                      *)
LEMMA RootUp ==
  ASSUME NEW o \in Place, NEW ns \in [1 .. Len(o.path) -> Node],
         Chain(o.path, ns)
  PROVE  /\ o.path[1] \in DOMAIN templates
         /\ Up(o, ns, 1) = [path |-> <<o.path[1]>>, node |-> templates[o.path[1]]]
<1>1. o.path \in Seq(Nat) /\ Len(o.path) \in Nat /\ Len(o.path) >= 1
  BY PlaceIs
<1>2. SubSeq(o.path, 1, 1) = <<o.path[1]>>
  BY <1>1, Prefixes
<1> QED
  BY <1>2 DEF Up, Chain

(* A Build that succeeds is past the last template of the workflow.        *)
LEMMA RootsBuilt ==
  ASSUME Inv, TreeOK, pc = "built"
  PROVE  \A i \in DOMAIN templates : RootDone(i)
<1>1. at \in Nat /\ at >= 1 /\ at \notin DOMAIN templates /\ templates \in Seq(Node)
  BY DEF Inv, TypeOK, TreeOK, RootsOK
<1>2. \A i \in DOMAIN templates : i < at
  BY <1>1
<1> QED
  BY <1>2 DEF TreeOK, RootsOK

(* The built templates are closed downwards and hold the top, so they are  *)
(* all that occur; and what is built is in order.                          *)
LEMMA BuiltIsWhole ==
  ASSUME Inv, TreeOK
  PROVE  BuiltIsTheTree
<1> SUFFICES ASSUME pc = "built" PROVE Done = Occurrences /\ Faults = {}
  BY DEF BuiltIsTheTree, Done
<1>1. TypeOK
  BY DEF Inv
<1>2. ASSUME NEW o \in Place, Occurs(o) PROVE o \in Done
  <2>1. PICK ns \in [1 .. Len(o.path) -> Node] :
          Chain(o.path, ns) /\ ns[Len(o.path)] = o.node
    BY <1>2 DEF Occurs
  <2>2. Up(o, ns, 1) \in Done
    BY <2>1, RootUp, RootsBuilt DEF RootDone
  <2>3. 1 \in 1 .. Len(o.path)
    BY PlaceIs
  <2> QED
    BY <2>1, <2>2, <2>3, DoneBelow
<1>3. ASSUME NEW o \in Done PROVE o \in Place /\ Len(o.path) <= MaxDepth /\ Occurs(o)
  <2>1. o \in Place
    BY DEF Inv, Entries, Done, Place
  <2> QED
    BY <2>1 DEF TreeOK, DoneOK
<1>4. Done = Occurrences
  BY <1>1, <1>2, <1>3, OccurrencesAre
<1>5. ASSUME NEW p \in Faults PROVE FALSE
  <2>1. PICK o \in Place :
             /\ Occurs(o) /\ Len(o.path) <= MaxDepth
             /\ \/ p = o.path /\ ~Builds(Shape[o.node])
                \/ \E i \in Reached(o.node) :
                     steps[o.node][i] = Broken /\ p = Append(o.path, i)
    BY <1>1, <1>5, FaultsAre
  <2> QED
    BY <1>2, <2>1, DoneInOrder
<1> QED
  BY <1>4, <1>5

(* A Build that succeeds has built the whole tree, whatever its shape and  *)
(* however often a template occurs in it.                                  *)
THEOREM BuildsAreWhole == Spec => []BuiltIsTheTree
BY BuiltIsWhole, Invariance, TreeInvariance, PTL

----------------------------------------------------------------------------
(* Where the Build is, number by number.                                   *)
LEMMA HereAre ==
  ASSUME Inv
  PROVE  /\ Here \in Seq(Nat) /\ Len(stack) \in Nat /\ DOMAIN stack = 1 .. Len(stack)
         /\ Len(Here) = Len(stack) + 1 /\ DOMAIN Here = 1 .. Len(stack) + 1
         /\ Here[1] = at /\ at \in Nat
         /\ \A k \in 2 .. Len(stack) + 1 : Here[k] = stack[k - 1].next
         /\ \A k \in DOMAIN stack : InCall(k).path = SubSeq(Here, 1, k)
<1>1. stack \in Seq(Frame) /\ at \in Nat /\ Len(stack) \in Nat
      /\ DOMAIN stack = 1 .. Len(stack) /\ Len(stack) + 1 \in 1 .. Len(stack) + 1
  BY DEF Inv, TypeOK
<1>2. Here = PathTo(at, stack, Len(stack) + 1)
  BY <1>1, HereIs
<1>4. /\ PathTo(at, stack, Len(stack) + 1) \in Seq(Nat)
      /\ Len(PathTo(at, stack, Len(stack) + 1)) = Len(stack) + 1
      /\ PathTo(at, stack, Len(stack) + 1)[1] = at
      /\ \A i \in 2 .. Len(stack) + 1 :
           PathTo(at, stack, Len(stack) + 1)[i] = stack[i - 1].next
  BY <1>1, PathToEnd, Zenon
<1>5. \A i \in DOMAIN stack : InCall(i).path = SubSeq(Here, 1, i)
  BY DEF InCall
<1> HIDE DEF Here
<1> QED
  BY <1>1, <1>2, <1>4, <1>5

(* What occurs on the way to where the Build is.                           *)
LEMMA SamePlace ==
  ASSUME Inv, TreeOK, NEW o \in Place, NEW ns \in [1 .. Len(o.path) -> Node],
         Chain(o.path, ns), NEW k \in DOMAIN stack, k <= Len(o.path),
         \A j \in 1 .. k : o.path[j] = Here[j]
  PROVE  /\ ns[k] = stack[k].node
         /\ Up(o, ns, k) = InCall(k)
<1>1. /\ Here \in Seq(Nat) /\ Len(Here) = Len(stack) + 1 /\ Here[1] = at
      /\ \A j \in 2 .. Len(stack) + 1 : Here[j] = stack[j - 1].next
      /\ \A j \in DOMAIN stack : InCall(j).path = SubSeq(Here, 1, j)
  BY HereAre
<1>2. /\ Len(stack) \in Nat /\ DOMAIN stack = 1 .. Len(stack)
      /\ stack[1].node = templates[at]
      /\ \A j \in 2 .. Len(stack) :
           /\ stack[j - 1].next \in Inlined(stack[j - 1].node)
           /\ stack[j].node = steps[stack[j - 1].node][stack[j - 1].next]
  BY CallsAre
<1>3. o.path \in Seq(Nat) /\ Len(o.path) \in Nat /\ k \in Nat /\ k >= 1
      /\ k <= Len(stack)
  BY <1>2, PlaceIs
<1>4. /\ ns[1] = templates[o.path[1]]
      /\ \A j \in 2 .. Len(o.path) : ns[j] = steps[ns[j - 1]][o.path[j]]
  BY DEF Chain
<1> DEFINE S == {n \in Nat : n + 1 \in 1 .. k => ns[n + 1] = stack[n + 1].node}
<1>5. 0 \in S
  <2>1. 1 \in 1 .. k
    BY <1>3
  <2>2. ns[1] = stack[1].node
    BY <1>1, <1>2, <1>4, <2>1
  <2> QED
    BY <2>2
<1>6. ASSUME NEW n \in Nat, n \in S PROVE n + 1 \in S
  <2> SUFFICES ASSUME (n + 1) + 1 \in 1 .. k
               PROVE  ns[(n + 1) + 1] = stack[(n + 1) + 1].node
    OBVIOUS
  <2>1. PICK m : m = (n + 1) + 1
    OBVIOUS
  <2>2. /\ m \in 2 .. Len(o.path) /\ m \in 2 .. Len(stack) /\ m \in 1 .. k
        /\ m \in 2 .. Len(stack) + 1 /\ m - 1 = n + 1 /\ m - 1 \in 1 .. k
    BY <1>3, <2>1
  <2>3. ns[m - 1] = stack[m - 1].node
    BY <1>6, <2>2
  <2>4. o.path[m] = stack[m - 1].next
    BY <1>1, <2>2
  <2>5. ns[m] = steps[ns[m - 1]][o.path[m]]
    BY <1>4, <2>2
  <2>6. stack[m].node = steps[stack[m - 1].node][stack[m - 1].next]
    BY <1>2, <2>2
  <2> QED
    BY <2>1, <2>3, <2>4, <2>5, <2>6
<1>7. Nat \subseteq S
  <2> HIDE DEF S
  <2> QED
    BY <1>5, <1>6, SetInduction
<1>8. ns[k] = stack[k].node
  <2>1. k - 1 \in Nat /\ (k - 1) + 1 = k /\ k \in 1 .. k
    BY <1>3
  <2>2. k - 1 \in S
    BY <1>7, <2>1
  <2> QED
    BY <2>1, <2>2
<1>9. SubSeq(o.path, 1, k) = SubSeq(Here, 1, k)
  <2> DEFINE s == SubSeq(o.path, 1, k)
             t == SubSeq(Here, 1, k)
  <2>1. k \in 1 .. Len(o.path) /\ k \in 1 .. Len(Here)
    BY <1>1, <1>2, <1>3
  <2>2. s \in Seq(Nat) /\ Len(s) = k /\ \A i \in 1 .. k : s[i] = o.path[i]
    BY <1>3, <2>1, Prefixes
  <2>3. t \in Seq(Nat) /\ Len(t) = k /\ \A i \in 1 .. k : t[i] = Here[i]
    BY <1>1, <2>1, Prefixes
  <2> HIDE DEF s, t
  <2>4. s = t
    BY <2>2, <2>3, SeqEqual
  <2> QED
    BY <2>4 DEF s, t
<1> QED
  BY <1>8, <1>9 DEF Up, InCall

(* Left of where the Build is everything is built.                         *)
LEMMA LeftIsDone ==
  ASSUME Inv, TreeOK, pc \in {"building", "checking"},
         NEW o \in Place, NEW ns \in [1 .. Len(o.path) -> Node],
         Chain(o.path, ns), ns[Len(o.path)] = o.node,
         NEW k \in 1 .. Len(o.path), k \in DOMAIN Here, o.path[k] < Here[k],
         \A j \in 1 .. k - 1 : o.path[j] = Here[j]
  PROVE  o \in Done
<1>1. /\ Here \in Seq(Nat) /\ Len(stack) \in Nat /\ DOMAIN stack = 1 .. Len(stack)
      /\ Len(Here) = Len(stack) + 1 /\ DOMAIN Here = 1 .. Len(stack) + 1
      /\ Here[1] = at
      /\ \A j \in 2 .. Len(stack) + 1 : Here[j] = stack[j - 1].next
  BY HereAre
<1>2. /\ o.path \in Seq(Nat) /\ Len(o.path) \in Nat /\ k \in Nat /\ k >= 1
      /\ k <= Len(o.path) /\ k <= Len(stack) + 1
  BY <1>1, PlaceIs
<1>3. CASE k = 1
  <2>1. o.path[1] < at
    BY <1>1, <1>3
  <2>2. /\ o.path[1] \in DOMAIN templates
        /\ Up(o, ns, 1) = [path |-> <<o.path[1]>>, node |-> templates[o.path[1]]]
    BY RootUp
  <2>3. RootDone(o.path[1])
    BY <2>1, <2>2 DEF TreeOK, RootsOK
  <2>4. Up(o, ns, 1) \in Done
    BY <2>2, <2>3 DEF RootDone
  <2> QED
    BY <1>3, <2>4, DoneBelow
<1>4. CASE k # 1
  <2>1. PICK m : m = k - 1
    OBVIOUS
  <2>2. /\ m \in DOMAIN stack /\ m <= Len(o.path) /\ m \in 1 .. Len(o.path)
        /\ m + 1 = k /\ k \in 2 .. Len(o.path) /\ k \in 2 .. Len(stack) + 1
        /\ m \in Nat /\ k - 1 = m
    <3>1. m \in Nat /\ m >= 1 /\ m + 1 = k /\ k - 1 = m
      BY <1>2, <1>4, <2>1
    <3>0. Len(stack) \in Nat
      BY <1>1
    <3>2. m \in 1 .. Len(stack) /\ k \in 2 .. Len(stack) + 1
      BY <1>2, <3>0, <3>1
    <3>3. m <= Len(o.path) /\ m \in 1 .. Len(o.path) /\ k \in 2 .. Len(o.path)
      BY <1>2, <3>1
    <3> QED
      BY <1>1, <3>1, <3>2, <3>3
  <2> DEFINE i == o.path[k]
  <2>3. ns[m] = stack[m].node /\ Up(o, ns, m) = InCall(m)
    BY <2>2, SamePlace
  <2>4. i \in Inlined(ns[m]) /\ ns[k] = steps[ns[m]][i] /\ ns[k] \in Node
    BY <2>2 DEF Chain
  <2>5. i < stack[m].next
    BY <1>1, <2>2
  <2>6. StepDone(InCall(m), i)
    BY <2>2, <2>3, <2>4, <2>5 DEF TreeOK, StackOK, Inlined, Reached
  <2>7. InCall(m).path = SubSeq(o.path, 1, m) /\ InCall(m).node = ns[m]
    <3>1. Up(o, ns, m).path = SubSeq(o.path, 1, m) /\ Up(o, ns, m).node = ns[m]
      BY DEF Up
    <3> QED
      BY <2>3, <3>1
  <2>8. [path |-> Append(SubSeq(o.path, 1, m), i), node |-> ns[k]] \in Done
    BY <2>4, <2>6, <2>7 DEF StepDone
  <2>9. SubSeq(o.path, 1, k) = Append(SubSeq(o.path, 1, m), i)
    BY <1>2, <2>2, Prefixes
  <2>10. Up(o, ns, k) \in Done
    BY <2>8, <2>9 DEF Up
  <2> QED
    BY <2>10, DoneBelow
<1> QED
  BY <1>3, <1>4

(* ... and in order.                                                       *)
LEMMA LeftInOrder ==
  ASSUME Inv, TreeOK, pc \in {"building", "checking"}, NEW p \in Faults,
         NEW k \in DOMAIN p \intersect DOMAIN Here, p[k] < Here[k],
         \A j \in 1 .. k - 1 : p[j] = Here[j]
  PROVE  FALSE
<1>1. /\ Here \in Seq(Nat) /\ Len(stack) \in Nat /\ DOMAIN stack = 1 .. Len(stack)
      /\ Len(Here) = Len(stack) + 1 /\ DOMAIN Here = 1 .. Len(stack) + 1
      /\ Here[1] = at
      /\ \A j \in 2 .. Len(stack) + 1 : Here[j] = stack[j - 1].next
  BY HereAre
<1>2. PICK o \in Place :
        /\ Occurs(o) /\ Len(o.path) <= MaxDepth
        /\ \/ p = o.path /\ ~Builds(Shape[o.node])
           \/ \E i \in Reached(o.node) :
                steps[o.node][i] = Broken /\ p = Append(o.path, i)
  BY FaultsAre DEF Inv
<1>3. PICK ns \in [1 .. Len(o.path) -> Node] :
        Chain(o.path, ns) /\ ns[Len(o.path)] = o.node
  BY <1>2 DEF Occurs
<1>4. o.path \in Seq(Nat) /\ Len(o.path) \in Nat /\ Len(o.path) >= 1 /\ o.node \in Node
      /\ DOMAIN o.path = 1 .. Len(o.path) /\ k \in Nat /\ k >= 1
  <2>1. o.path \in Seq(Nat) /\ Len(o.path) \in Nat /\ Len(o.path) >= 1 /\ o.node \in Node
    BY PlaceIs
  <2> QED
    BY <1>1, <2>1
<1>5. CASE p = o.path /\ ~Builds(Shape[o.node])
  <2>1. o \in Done
    BY <1>3, <1>4, <1>5, LeftIsDone
  <2> QED
    BY <1>5, <2>1, DoneInOrder
<1>6. ASSUME NEW i \in Reached(o.node), steps[o.node][i] = Broken,
             p = Append(o.path, i)
      PROVE  FALSE
  <2>1. i \in Nat
    <3>1. steps[o.node] \in Seq(Item)
      BY <1>4 DEF Inv, TypeOK
    <3> QED
      BY <3>1 DEF Reached
  <2>2. /\ DOMAIN p = 1 .. Len(o.path) + 1
        /\ \A j \in 1 .. Len(o.path) : p[j] = o.path[j]
        /\ p[Len(o.path) + 1] = i
    BY <1>4, <1>6, <2>1
  <2>3. CASE k <= Len(o.path)
    <3>1. /\ k \in 1 .. Len(o.path) /\ o.path[k] < Here[k]
          /\ \A j \in 1 .. k - 1 : o.path[j] = Here[j]
      <4>1. k \in 1 .. Len(o.path) /\ \A j \in 1 .. k - 1 : j \in 1 .. Len(o.path)
        BY <1>4, <2>3
      <4>2. o.path[k] = p[k] /\ \A j \in 1 .. k - 1 : o.path[j] = p[j]
        BY <2>2, <4>1
      <4> QED
        BY <4>1, <4>2
    <3>2. o \in Done
      BY <1>3, <3>1, LeftIsDone
    <3> QED
      BY <1>6, <3>2, DoneInOrder
  <2>4. CASE ~(k <= Len(o.path))
    <3>1. PICK m : m = Len(o.path)
      OBVIOUS
    <3>2. k = m + 1 /\ m \in DOMAIN stack /\ m \in Nat /\ m \in 1 .. Len(o.path)
          /\ k \in 2 .. Len(stack) + 1 /\ k - 1 = m
      <4>1. m \in Nat /\ m >= 1 /\ k > m /\ k <= m + 1 /\ k \in Nat
        BY <1>4, <2>2, <2>4, <3>1
      <4>2. k <= Len(stack) + 1 /\ Len(stack) \in Nat /\ DOMAIN stack = 1 .. Len(stack)
        BY <1>1
      <4> QED
        BY <3>1, <4>1, <4>2
    <3>3. \A j \in 1 .. m : o.path[j] = Here[j]
      BY <2>2, <3>1, <3>2
    <3>4. ns[m] = stack[m].node
      <4>1. m \in 1 .. Len(o.path) /\ m \in DOMAIN stack
        BY <3>2
      <4> QED
        BY <1>3, <3>3, <4>1, SamePlace
    <3>5. i < stack[m].next
      BY <1>1, <2>2, <3>1, <3>2
    <3>6. stack[m].node = o.node /\ InCall(m).node = o.node
      BY <1>3, <3>1, <3>4 DEF InCall
    <3>7. StepDone(InCall(m), i)
      BY <3>2, <3>5, <3>6 DEF TreeOK, StackOK, Reached
    <3> QED
      BY <1>6, <3>6, <3>7 DEF StepDone
  <2> QED
    BY <2>3, <2>4
<1> QED
  BY <1>2, <1>5, <1>6

(* Something that is wrong inside the place at q.                          *)
LEMMA FaultInside ==
  ASSUME Inv, NEW p \in Faults, NEW q \in Seq(Nat),
         Len(p) > Len(q), SubSeq(p, 1, Len(q)) = q
  PROVE  \E o \in Place : \E ns \in [1 .. Len(o.path) -> Node] :
           /\ Chain(o.path, ns) /\ ns[Len(o.path)] = o.node
           /\ Len(q) <= Len(o.path) /\ \A j \in 1 .. Len(q) : o.path[j] = q[j]
           /\ \/ p = o.path /\ ~Builds(Shape[o.node])
              \/ \E i \in Reached(o.node) :
                   steps[o.node][i] = Broken /\ p = Append(o.path, i)
<1>1. PICK o \in Place :
        /\ Occurs(o)
        /\ \/ p = o.path /\ ~Builds(Shape[o.node])
           \/ \E i \in Reached(o.node) :
                steps[o.node][i] = Broken /\ p = Append(o.path, i)
  BY FaultsAre DEF Inv
<1>2. PICK ns \in [1 .. Len(o.path) -> Node] :
        Chain(o.path, ns) /\ ns[Len(o.path)] = o.node
  BY <1>1 DEF Occurs
<1>3. o.path \in Seq(Nat) /\ Len(o.path) \in Nat /\ o.node \in Node /\ Len(q) \in Nat
  BY PlaceIs
<1>4. /\ p \in Seq(Nat) /\ Len(p) \in Nat /\ Len(p) <= Len(o.path) + 1
      /\ \A j \in 1 .. Len(o.path) : p[j] = o.path[j]
  <2>1. CASE p = o.path
    BY <1>3, <2>1
  <2>2. ASSUME NEW i \in Reached(o.node), p = Append(o.path, i)
        PROVE  /\ p \in Seq(Nat) /\ Len(p) \in Nat /\ Len(p) <= Len(o.path) + 1
               /\ \A j \in 1 .. Len(o.path) : p[j] = o.path[j]
    <3>1. i \in Nat
      <4>1. steps[o.node] \in Seq(Item)
        BY <1>3 DEF Inv, TypeOK
      <4> QED
        BY <4>1 DEF Reached
    <3> QED
      BY <1>3, <2>2, <3>1
  <2> QED
    BY <1>1, <2>1, <2>2
<1>5. Len(q) <= Len(o.path)
  BY <1>3, <1>4
<1>6. ASSUME NEW j \in 1 .. Len(q) PROVE o.path[j] = q[j]
  <2>1. j \in 1 .. Len(o.path) /\ j \in 1 .. Len(p) /\ Len(q) <= Len(p)
    <3>1. j \in Nat /\ j >= 1 /\ j <= Len(q)
      BY <1>3
    <3>2. Len(q) <= Len(p) /\ Len(p) \in Nat /\ Len(q) \in Nat
      BY <1>3, <1>4
    <3> QED
      BY <1>3, <1>5, <3>1, <3>2
  <2>2. SubSeq(p, 1, Len(q))[j] = p[j]
    <3>1. Len(q) \in 1 .. Len(p)
      BY <1>3, <1>4, <2>1
    <3> QED
      BY <1>4, <3>1, Prefixes
  <2> QED
    BY <1>4, <2>1, <2>2
<1> QED
  BY <1>1, <1>2, <1>5, <1>6

(* The template that the innermost call is about.                          *)
LEMMA CallOccurs ==
  ASSUME Inv, TreeOK, stack # << >>
  PROVE  /\ InCall(Len(stack)) \in Place /\ Occurs(InCall(Len(stack)))
         /\ InCall(Len(stack)).path = Caller /\ InCall(Len(stack)).node = Top.node
         /\ Caller \in Seq(Nat) /\ Len(Caller) = Len(stack)
         /\ Len(stack) \in DOMAIN stack
         /\ Here = Append(Caller, Top.next)
<1> DEFINE l == Len(stack)
           o == InCall(l)
<1>1. /\ stack \in Seq(Frame) /\ at \in Nat /\ l \in Nat /\ l >= 1
      /\ DOMAIN stack = 1 .. l /\ l \in DOMAIN stack
      /\ \A k \in DOMAIN stack : stack[k].node \in Node
  BY CallsAre
<1>2. /\ Here \in Seq(Nat) /\ Len(Here) = l + 1
      /\ \A k \in 2 .. l + 1 : Here[k] = stack[k - 1].next
  BY HereAre
<1>3. o.path = Caller /\ o.node = Top.node /\ Caller = SubSeq(Here, 1, l)
  BY DEF InCall, Caller, Top
<1>4. Caller \in Seq(Nat) \ {<< >>} /\ Len(Caller) = l
  BY <1>1, CallerType
<1>5. o \in Place
  BY <1>1, <1>3, <1>4 DEF InCall, Top, Place
<1>6. Chain(Caller, Nodes)
  BY <1>3 DEF TreeOK, StackOK
<1>7. Nodes \in [1 .. l -> Node] /\ Nodes[l] = o.node
  BY <1>1 DEF Nodes, InCall
<1>8. Occurs(o)
  <2> HIDE DEF o, l
  <2> QED
    BY <1>3, <1>4, <1>6, <1>7 DEF Occurs
<1>9. Here = Append(Caller, Top.next)
  <2>1. l \in 1 .. Len(Here) /\ l + 1 \in 1 .. Len(Here) /\ l + 1 \in 2 .. l + 1
        /\ (l + 1) - 1 = l /\ Len(Here) # 0
    BY <1>1, <1>2
  <2>2. SubSeq(Here, 1, l + 1) = Append(SubSeq(Here, 1, l), Here[l + 1])
    BY <1>2, <2>1, Prefixes
  <2>3. SubSeq(Here, 1, Len(Here)) = Here
    BY <1>2, <2>1, Prefixes
  <2>4. Here[l + 1] = Top.next
    <3>1. Here[l + 1] = stack[(l + 1) - 1].next
      BY <1>2, <2>1
    <3> QED
      BY <2>1, <3>1 DEF Top
  <2> QED
    BY <1>2, <1>3, <2>2, <2>3, <2>4
<1> QED
  BY <1>1, <1>3, <1>4, <1>5, <1>8, <1>9

(* What occurs where the Build is.                                         *)
LEMMA AtHere ==
  ASSUME Inv, TreeOK, NEW o \in Place, NEW ns \in [1 .. Len(o.path) -> Node],
         Chain(o.path, ns), Len(stack) + 1 <= Len(o.path),
         \A j \in 1 .. Len(stack) + 1 : o.path[j] = Here[j]
  PROVE  /\ stack = << >> => ns[1] = templates[at]
         /\ stack # << >> =>
              /\ Top.next \in Inlined(Top.node)
              /\ ns[Len(stack) + 1] = steps[Top.node][Top.next]
<1>1. /\ Len(stack) \in Nat /\ DOMAIN stack = 1 .. Len(stack) /\ Here[1] = at
      /\ \A k \in 2 .. Len(stack) + 1 : Here[k] = stack[k - 1].next
  BY HereAre
<1>2. o.path \in Seq(Nat) /\ Len(o.path) \in Nat
  BY PlaceIs
<1>3. ASSUME stack = << >> PROVE ns[1] = templates[at]
  <2>1. 1 \in 1 .. Len(stack) + 1
    BY <1>1
  <2> QED
    BY <1>1, <2>1 DEF Chain
<1>4. ASSUME stack # << >>
      PROVE  /\ Top.next \in Inlined(Top.node)
             /\ ns[Len(stack) + 1] = steps[Top.node][Top.next]
  <2>1. PICK l : l = Len(stack)
    OBVIOUS
  <2>2. l \in DOMAIN stack
    BY <1>4, <2>1, CallOccurs
  <2>3. /\ l \in Nat /\ l <= Len(o.path) /\ l + 1 \in 2 .. Len(o.path)
        /\ l + 1 \in 2 .. Len(stack) + 1 /\ (l + 1) - 1 = l
        /\ l + 1 \in 1 .. Len(stack) + 1
    BY <1>1, <1>2, <2>1, <2>2
  <2>4. \A j \in 1 .. l : o.path[j] = Here[j]
    BY <1>1, <2>1
  <2>5. ns[l] = stack[l].node
    BY <2>2, <2>3, <2>4, SamePlace
  <2>6. o.path[l + 1] = stack[l].next
    <3>1. Here[l + 1] = stack[(l + 1) - 1].next
      BY <1>1, <2>3
    <3> QED
      BY <2>3, <3>1
  <2>7. o.path[l + 1] \in Inlined(ns[(l + 1) - 1])
        /\ ns[l + 1] = steps[ns[(l + 1) - 1]][o.path[l + 1]]
    BY <2>3 DEF Chain
  <2> QED
    BY <2>1, <2>3, <2>5, <2>6, <2>7 DEF Top
<1> QED
  BY <1>3, <1>4
----------------------------------------------------------------------------
(* The error, if the Build ended now with an error about q, were right.    *)
BadTops == {<<i>> : i \in {i \in DOMAIN templates :
                             ~Valid(Model(Shape[templates[i]]))}}
Blame(q) == q \in Faults \union BadTops /\ \A p \in Faults : ~Before(p, q)

(* A verdict about a path stays right while the program is the same.       *)
LEMMA SameBlame ==
  ASSUME UNCHANGED program
  PROVE  /\ Faults' = Faults /\ BadTops' = BadTops
         /\ \A q : Blame(q) => Blame(q)'
<1>1. Level' = Level
  BY SameLevel
<1>2. Occurrences' = Occurrences
  BY <1>1 DEF Occurrences
<1>3. \A n : Reached(n)' = Reached(n)
  BY DEF Reached, program
<1>4. Faults' = Faults
  BY <1>2, <1>3 DEF Faults, program
<1>5. BadTops' = BadTops
  BY DEF BadTops, program
<1> QED
  BY <1>4, <1>5 DEF Blame

LEMMA BlameFails ==
  ASSUME NEW q, Blame(q), Fail(q), UNCHANGED program
  PROVE  ErrorIsTheFirst'
<1>1. culprit' = q
  BY DEF Fail
<1>2. Blame(q)'
  BY SameBlame
<1> QED
  BY <1>1, <1>2 DEF ErrorIsTheFirst, Blame, BadTops

(* Nothing that comes before the place k elements down from the top is     *)
(* wrong, unless it is inside that place.                                  *)
LEMMA OnlyInside ==
  ASSUME Inv, TreeOK, pc \in {"building", "checking"}, NEW p \in Faults,
         NEW l \in 1 .. Len(stack) + 1, NEW q, q = SubSeq(Here, 1, l), Before(p, q)
  PROVE  Len(p) > Len(q) /\ SubSeq(p, 1, Len(q)) = q
<1>1. /\ Here \in Seq(Nat) /\ Len(stack) \in Nat
      /\ Len(Here) = Len(stack) + 1 /\ DOMAIN Here = 1 .. Len(stack) + 1
  BY HereAre
<1>2. q \in Seq(Nat) /\ Len(q) = l /\ \A j \in 1 .. l : q[j] = Here[j]
  BY <1>1, Prefixes
<1>3. ASSUME NEW k \in DOMAIN p \intersect DOMAIN q, p[k] < q[k],
             \A j \in 1 .. k - 1 : p[j] = q[j]
      PROVE  FALSE
  <2>1. DOMAIN q = 1 .. l
    BY <1>2
  <2>2. k \in 1 .. l /\ k \in DOMAIN Here /\ \A j \in 1 .. k - 1 : j \in 1 .. l
    BY <1>1, <2>1
  <2>3. p[k] < Here[k] /\ \A j \in 1 .. k - 1 : p[j] = Here[j]
    BY <1>2, <1>3, <2>2
  <2> QED
    BY <2>2, <2>3, LeftInOrder
<1> QED
  BY <1>3 DEF Before

LEMMA HereIsAll ==
  ASSUME Inv
  PROVE  /\ Len(stack) + 1 \in 1 .. Len(stack) + 1
         /\ Here = SubSeq(Here, 1, Len(stack) + 1)
<1>1. Here \in Seq(Nat) /\ Len(stack) \in Nat /\ Len(Here) = Len(stack) + 1
  BY HereAre
<1>2. Len(Here) # 0
  BY <1>1
<1> QED
  BY <1>1, <1>2, Prefixes

(* The step that is refused.                                               *)
LEMMA BrokenIsFirst ==
  ASSUME Inv, TreeOK, pc = "building", stack # << >>,
         Top.next \in DOMAIN steps[Top.node], steps[Top.node][Top.next] = Broken
  PROVE  Blame(Here)
<1>1. /\ InCall(Len(stack)) \in Place /\ Occurs(InCall(Len(stack)))
      /\ InCall(Len(stack)).path = Caller /\ InCall(Len(stack)).node = Top.node
      /\ Len(Caller) = Len(stack) /\ Len(stack) \in DOMAIN stack
      /\ Here = Append(Caller, Top.next)
  BY CallOccurs
<1>2. Here \in Faults
  <2>1. Top.next \in Reached(Top.node)
    <3>1. Top.node \in Node
      BY <1>1, PlaceIs
    <3>2. Top.node \in Holds
      BY <3>1 DEF TreeOK, LeavesOK
    <3> QED
      BY <1>1, <3>2 DEF Reached, TreeOK, StackOK, Top
  <2>2. Len(Caller) <= MaxDepth
    BY <1>1 DEF TreeOK, StackOK
  <2>3. TypeOK
    BY DEF Inv
  <2> HIDE DEF Caller, Here
  <2> QED
    BY <1>1, <2>1, <2>2, <2>3, FaultsAre
<1>3. ASSUME NEW p \in Faults, Before(p, Here) PROVE FALSE
  <2>1. Len(p) > Len(Here) /\ SubSeq(p, 1, Len(Here)) = Here
    BY <1>3, HereIsAll, OnlyInside
  <2>2. Here \in Seq(Nat) /\ Len(Here) = Len(stack) + 1 /\ Len(stack) \in Nat
    BY HereAre
  <2>3. PICK o \in Place : \E ns \in [1 .. Len(o.path) -> Node] :
          /\ Chain(o.path, ns)
          /\ Len(Here) <= Len(o.path) /\ \A j \in 1 .. Len(Here) : o.path[j] = Here[j]
    BY <2>1, <2>2, FaultInside
  <2>4. PICK ns \in [1 .. Len(o.path) -> Node] :
          /\ Chain(o.path, ns)
          /\ Len(Here) <= Len(o.path) /\ \A j \in 1 .. Len(Here) : o.path[j] = Here[j]
    BY <2>3
  <2>5. ns[Len(stack) + 1] = Broken
    BY <2>2, <2>4, AtHere
  <2>6. ns[Len(stack) + 1] \in Node
    <3>1. Len(stack) + 1 \in 1 .. Len(o.path)
      BY <2>2, <2>4, PlaceIs
    <3> QED
      BY <3>1
  <2> QED
    BY <2>5, <2>6, StepsAssumption
<1> QED
  BY <1>2, <1>3 DEF Blame

(* The composite without a name.                                           *)
LEMMA UnnamedIsFirst ==
  ASSUME Inv, TreeOK, pc = "building", NEW n \in Holds, ~Shape[n].name,
         Len(stack) # MaxDepth,
         stack = << >> => at \in DOMAIN templates /\ n = templates[at],
         stack # << >> => /\ Top.next \in Inlined(Top.node)
                          /\ n = steps[Top.node][Top.next]
  PROVE  Blame(Here)
<1>1. /\ Here \in Seq(Nat) /\ Len(Here) = Len(stack) + 1 /\ Len(stack) \in Nat
      /\ Here[1] = at /\ at \in Nat /\ DOMAIN stack = 1 .. Len(stack)
  BY HereAre
<1>2. n \in Node /\ ~Builds(Shape[n]) /\ Inlined(n) = {} /\ Reached(n) = {}
  BY DEF Holds, Builds, Inlined, Reached
<1> DEFINE o == [path |-> Here, node |-> n]
<1>3. o \in Place /\ Occurs(o)
  <2>1. CASE stack = << >>
    <3>1. Len(Here) = 1 /\ Here # << >>
      BY <1>1, <2>1
    <3> DEFINE ns == [k \in 1 .. 1 |-> n]
    <3>2. ns \in [1 .. Len(Here) -> Node] /\ ns[1] = n
      BY <1>2, <3>1
    <3> HIDE DEF ns, Here
    <3>3. Chain(Here, ns)
      BY <1>1, <2>1, <3>1, <3>2 DEF Chain
    <3>4. o.path = Here /\ o.node = n /\ o \in Place
      BY <1>1, <1>2, <3>1 DEF Place
    <3> HIDE DEF o
    <3> QED
      BY <3>1, <3>2, <3>3, <3>4 DEF Occurs
  <2>2. CASE stack # << >>
    <3>1. /\ InCall(Len(stack)) \in Place /\ Occurs(InCall(Len(stack)))
          /\ InCall(Len(stack)).path = Caller /\ InCall(Len(stack)).node = Top.node
          /\ Here = Append(Caller, Top.next)
      BY <2>2, CallOccurs
    <3>2. TypeOK
      BY DEF Inv
    <3>3. \A c \in Place : Occurs(c) => \A i \in Inlined(c.node) :
            LET r == [path |-> Append(c.path, i), node |-> steps[c.node][i]] IN
              r \in Place /\ Occurs(r)
      BY <3>2, OccursInside
    <3>4. Top.next \in Inlined(InCall(Len(stack)).node)
      BY <2>2, <3>1
    <3>5. o = [path |-> Append(InCall(Len(stack)).path, Top.next),
               node |-> steps[InCall(Len(stack)).node][Top.next]]
      BY <2>2, <3>1
    <3> HIDE DEF o
    <3> QED
      BY <3>1, <3>3, <3>4, <3>5
  <2> QED
    BY <2>1, <2>2
<1>4. Here \in Faults
  <2>1. Len(stack) <= MaxDepth
    BY DEF TreeOK, StackOK
  <2>2. Len(Here) <= MaxDepth
    <3>1. MaxDepth \in Nat /\ Len(stack) \in Nat /\ Len(Here) = Len(stack) + 1
      BY <1>1, DepthAssumption
    <3>2. Len(stack) # MaxDepth
      OBVIOUS
    <3> HIDE DEF o, Here
    <3> QED
      BY <2>1, <3>1, <3>2
  <2>3. TypeOK
    BY DEF Inv
  <2>4. o.path = Here /\ o.node = n
    OBVIOUS
  <2> HIDE DEF Here, o
  <2> QED
    BY <1>2, <1>3, <2>2, <2>3, <2>4, FaultsAre
<1>5. ASSUME NEW p \in Faults, Before(p, Here) PROVE FALSE
  <2>1. Len(p) > Len(Here) /\ SubSeq(p, 1, Len(Here)) = Here
    BY <1>5, HereIsAll, OnlyInside
  <2>2. PICK c \in Place : \E ns \in [1 .. Len(c.path) -> Node] :
          /\ Chain(c.path, ns) /\ ns[Len(c.path)] = c.node
          /\ Len(Here) <= Len(c.path) /\ \A j \in 1 .. Len(Here) : c.path[j] = Here[j]
          /\ \/ p = c.path
             \/ \E i \in Reached(c.node) : p = Append(c.path, i)
    BY <1>1, <2>1, FaultInside
  <2>3. PICK ns \in [1 .. Len(c.path) -> Node] :
          /\ Chain(c.path, ns) /\ ns[Len(c.path)] = c.node
          /\ Len(Here) <= Len(c.path) /\ \A j \in 1 .. Len(Here) : c.path[j] = Here[j]
          /\ \/ p = c.path
             \/ \E i \in Reached(c.node) : p = Append(c.path, i)
    BY <2>2
  <2>4. PICK l : l = Len(Here)
    OBVIOUS
  <2>5. ns[l] = n
    <3>1. ns[Len(stack) + 1] = n
      <4>1. CASE stack = << >>
        <5>1. Len(stack) + 1 = 1
          BY <1>1, <4>1
        <5> QED
          BY <1>1, <2>3, <4>1, <5>1, AtHere
      <4>2. CASE stack # << >>
        BY <1>1, <2>3, <4>2, AtHere
      <4> QED
        BY <4>1, <4>2
    <3> QED
      BY <1>1, <2>4, <3>1
  <2>6. /\ l \in Nat /\ l >= 1 /\ Len(c.path) \in Nat /\ l <= Len(c.path)
        /\ c.path \in Seq(Nat)
    BY <1>1, <2>3, <2>4, PlaceIs
  <2>7. CASE l = Len(c.path)
    <3>1. c.node = n
      BY <2>3, <2>5, <2>7
    <3>2. p = c.path
      BY <1>2, <2>3, <3>1
    <3>3. Len(p) > Len(Here)
      BY <2>1
    <3> QED
      BY <2>4, <2>6, <2>7, <3>2, <3>3
  <2>8. CASE l # Len(c.path)
    <3>1. l + 1 \in 2 .. Len(c.path) /\ (l + 1) - 1 = l
      BY <2>6, <2>8
    <3>2. c.path[l + 1] \in Inlined(ns[l])
      BY <2>3, <3>1 DEF Chain
    <3> QED
      BY <1>2, <2>5, <3>2
  <2> QED
    BY <2>7, <2>8
<1> QED
  BY <1>4, <1>5 DEF Blame

(* The template whose other fields are refused, after its steps.           *)
LEMMA RefusedIsFirst ==
  ASSUME Inv, TreeOK, pc = "building", stack # << >>,
         Top.next \notin DOMAIN steps[Top.node], ~Builds(Shape[Top.node])
  PROVE  Blame(Caller)
<1>1. /\ InCall(Len(stack)) \in Place /\ Occurs(InCall(Len(stack)))
      /\ InCall(Len(stack)).path = Caller /\ InCall(Len(stack)).node = Top.node
      /\ Caller \in Seq(Nat) /\ Len(Caller) = Len(stack) /\ Len(stack) \in DOMAIN stack
  BY CallOccurs
<1>2. /\ Here \in Seq(Nat) /\ Len(Here) = Len(stack) + 1 /\ Len(stack) \in Nat
      /\ DOMAIN Here = 1 .. Len(stack) + 1 /\ DOMAIN stack = 1 .. Len(stack)
      /\ \A k \in 2 .. Len(stack) + 1 : Here[k] = stack[k - 1].next
      /\ Caller = SubSeq(Here, 1, Len(stack))
  BY HereAre DEF Caller
<1>3. Caller \in Faults
  <2>1. Len(Caller) <= MaxDepth
    BY <1>1 DEF TreeOK, StackOK
  <2>2. TypeOK
    BY DEF Inv
  <2> HIDE DEF Caller
  <2> QED
    BY <1>1, <2>1, <2>2, FaultsAre
<1>4. ASSUME NEW i \in DOMAIN steps[Top.node] PROVE i < Top.next
  <2>1. Top.node \in Node
    BY <1>1, PlaceIs
  <2>2. steps[Top.node] \in Seq(Item)
    BY <2>1 DEF Inv, TypeOK
  <2>3. Top.next >= 1 /\ Top.next \in Nat
    <3>1. Top.next >= 1
      BY <1>1 DEF TreeOK, StackOK, Top
    <3>2. Top.next \in Nat
      BY TopType DEF Inv, TypeOK
    <3> QED
      BY <3>1, <3>2
  <2> QED
    BY <2>2, <2>3
<1>5. ASSUME NEW p \in Faults, Before(p, Caller) PROVE FALSE
  <2>l. PICK l : l = Len(stack)
    OBVIOUS
  <2>0. l \in 1 .. Len(stack) + 1 /\ l \in Nat /\ l >= 1 /\ l + 1 \in DOMAIN Here
        /\ l + 1 \in 2 .. Len(stack) + 1 /\ (l + 1) - 1 = l /\ l \in DOMAIN stack
    BY <1>1, <1>2, <2>l
  <2>1. Len(p) > Len(Caller) /\ SubSeq(p, 1, Len(Caller)) = Caller
    BY <1>2, <1>5, <2>l, <2>0, OnlyInside
  <2>2. PICK c \in Place : \E ns \in [1 .. Len(c.path) -> Node] :
          /\ Chain(c.path, ns) /\ ns[Len(c.path)] = c.node
          /\ l <= Len(c.path) /\ \A j \in 1 .. l : c.path[j] = Caller[j]
          /\ \/ p = c.path
             \/ \E i \in Reached(c.node) : p = Append(c.path, i)
    <3>1. \E c \in Place : \E ns \in [1 .. Len(c.path) -> Node] :
          /\ Chain(c.path, ns) /\ ns[Len(c.path)] = c.node
          /\ Len(Caller) <= Len(c.path)
          /\ \A j \in 1 .. Len(Caller) : c.path[j] = Caller[j]
          /\ \/ p = c.path /\ ~Builds(Shape[c.node])
             \/ \E i \in Reached(c.node) :
                  steps[c.node][i] = Broken /\ p = Append(c.path, i)
      BY <1>1, <2>1, FaultInside
    <3>2. Len(Caller) = l
      BY <1>1, <2>l
    <3> QED
      BY <3>1, <3>2
  <2>3. PICK ns \in [1 .. Len(c.path) -> Node] :
          /\ Chain(c.path, ns) /\ ns[Len(c.path)] = c.node
          /\ l <= Len(c.path) /\ \A j \in 1 .. l : c.path[j] = Caller[j]
          /\ \/ p = c.path
             \/ \E i \in Reached(c.node) : p = Append(c.path, i)
    BY <2>2
  <2>4. \A j \in 1 .. l : c.path[j] = Here[j] /\ Caller[j] = Here[j]
    <3>1. l \in 1 .. Len(Here)
      BY <1>2, <2>0
    <3>2. \A j \in 1 .. l : Caller[j] = Here[j]
      BY <1>2, <2>l, <3>1, Prefixes
    <3> QED
      BY <2>3, <3>2
  <2>5. c.path \in Seq(Nat) /\ Len(c.path) \in Nat /\ c.node \in Node
    BY PlaceIs
  <2>6. ns[l] = Top.node
    <3>1. ns[l] = stack[l].node
      BY <2>0, <2>3, <2>4, SamePlace
    <3> QED
      BY <2>l, <3>1 DEF Top
  <2>7. Here[l + 1] = Top.next
    <3>1. Here[l + 1] = stack[(l + 1) - 1].next
      BY <1>2, <2>0
    <3> QED
      BY <2>l, <2>0, <3>1 DEF Top
  <2>8. /\ l + 1 \in DOMAIN p /\ p[l + 1] \in DOMAIN steps[Top.node]
        /\ \A j \in 1 .. l : p[j] = c.path[j]
    <3>1. CASE p = c.path
      <4>1. l + 1 \in 2 .. Len(c.path) /\ l + 1 \in 1 .. Len(c.path)
        BY <1>1, <2>0, <2>1, <2>5, <2>l, <3>1
      <4>2. c.path[l + 1] \in Inlined(ns[(l + 1) - 1])
        BY <2>3, <4>1 DEF Chain
      <4> QED
        BY <2>0, <2>5, <2>6, <3>1, <4>1, <4>2 DEF Inlined, Reached
    <3>2. ASSUME NEW i \in Reached(c.node), p = Append(c.path, i)
          PROVE  /\ l + 1 \in DOMAIN p /\ p[l + 1] \in DOMAIN steps[Top.node]
                 /\ \A j \in 1 .. l : p[j] = c.path[j]
      <4>1. i \in Nat /\ i \in DOMAIN steps[c.node]
        <5>1. steps[c.node] \in Seq(Item)
          BY <2>5 DEF Inv, TypeOK
        <5> QED
          BY <5>1 DEF Reached
      <4>2. /\ DOMAIN p = 1 .. Len(c.path) + 1
            /\ \A j \in 1 .. Len(c.path) : p[j] = c.path[j]
            /\ p[Len(c.path) + 1] = i
        BY <2>5, <3>2, <4>1
      <4>3. l \in Nat /\ l >= 1 /\ l <= Len(c.path) /\ Len(c.path) \in Nat
        BY <2>0, <2>3, <2>5
      <4>4. l + 1 \in DOMAIN p /\ \A j \in 1 .. l : p[j] = c.path[j]
        BY <4>2, <4>3
      <4>5. CASE l = Len(c.path)
        BY <2>3, <2>6, <4>1, <4>2, <4>4, <4>5
      <4>6. CASE l # Len(c.path)
        <5>1. l + 1 \in 2 .. Len(c.path) /\ l + 1 \in 1 .. Len(c.path)
          BY <4>3, <4>6
        <5>2. c.path[l + 1] \in Inlined(ns[(l + 1) - 1])
          BY <2>3, <5>1 DEF Chain
        <5> QED
          BY <2>0, <2>6, <4>2, <4>4, <5>1, <5>2 DEF Inlined, Reached
      <4> QED
        BY <4>5, <4>6
    <3> QED
      BY <2>3, <3>1, <3>2
  <2>9. p[l + 1] < Here[l + 1]
    BY <1>4, <2>7, <2>8
  <2>10. \A j \in 1 .. (l + 1) - 1 : p[j] = Here[j]
    BY <2>0, <2>4, <2>8
  <2> QED
    BY <2>0, <2>8, <2>9, <2>10, LeftInOrder
<1> QED
  BY <1>3, <1>5 DEF Blame

(* The built template that does not pass the check.                        *)
LEMMA InvalidIsFirst ==
  ASSUME Inv, TreeOK, pc = "checking", NEW e \in result, e.path = <<at>>,
         ~Valid(Completed(e.model))
  PROVE  Blame(<<at>>)
<1>1. at \in DOMAIN templates /\ RootDone(at) /\ at \in Nat
      /\ templates[at] \in Node
  BY DEF Inv, TypeOK, TreeOK, RootsOK
<1>2. /\ stack = << >> /\ Here \in Seq(Nat) /\ Len(Here) = 1 /\ Here[1] = at
  <2>1. stack = << >>
    BY DEF TreeOK, StackOK
  <2>2. Len(stack) = 0
    BY <2>1
  <2> QED
    BY <2>1, <2>2, HereAre
<1>3. e.node = templates[at]
  <2> DEFINE o == [path |-> e.path, node |-> e.node]
  <2>1. o \in Done /\ o.path = <<at>> /\ o.node = e.node
    BY DEF Done
  <2> HIDE DEF o
  <2>2. Occurs(o)
    BY <2>1 DEF TreeOK, DoneOK
  <2>3. PICK ns \in [1 .. Len(o.path) -> Node] :
          Chain(o.path, ns) /\ ns[Len(o.path)] = o.node
    BY <2>2 DEF Occurs
  <2>4. Len(o.path) = 1 /\ o.path[1] = at
    BY <2>1
  <2> QED
    BY <2>1, <2>3, <2>4 DEF Chain
<1>4. ~Valid(Model(Shape[templates[at]]))
  <2>1. AsBuilt(e)
    <3>1. Len(e.path) = 1 /\ e.path[1] = at /\ ~(at < at)
      BY <1>1
    <3> QED
      BY <3>1 DEF Inv, EntriesOK
  <2>2. e.model = Model(Shape[templates[at]])
    BY <1>3, <2>1 DEF AsBuilt
  <2>3. e.model \in TemplateModel
    BY <1>1, <2>2, ModelType
  <2>4. ~Valid(e.model)
    <3>1. CASE e.model.kind \in Pod
      <4>1. Completed(e.model) = [e.model EXCEPT !.bare = @ /\ ~defaultImage]
        BY <3>1 DEF Completed
      <4>2. /\ Completed(e.model).kind = e.model.kind
            /\ Completed(e.model).units = e.model.units
            /\ ~e.model.bare => ~Completed(e.model).bare
        BY <2>3, <4>1 DEF TemplateModel
      <4> QED
        BY <4>2 DEF Valid
    <3>2. CASE e.model.kind \notin Pod
      BY <3>2 DEF Completed
    <3> QED
      BY <3>1, <3>2
  <2> QED
    BY <2>2, <2>4
<1>5. <<at>> \in BadTops
  BY <1>1, <1>4 DEF BadTops
<1>6. ASSUME NEW p \in Faults, Before(p, <<at>>) PROVE FALSE
  <2>1. Len(p) > 1 /\ SubSeq(p, 1, 1) = <<at>>
    <3>1. <<at>> = SubSeq(Here, 1, 1)
      BY <1>2, Prefixes
    <3>2. 1 \in 1 .. Len(stack) + 1
      BY <1>2
    <3>3. Len(p) > Len(<<at>>) /\ SubSeq(p, 1, Len(<<at>>)) = <<at>>
      BY <1>6, <3>1, <3>2, OnlyInside
    <3>4. Len(<<at>>) = 1
      OBVIOUS
    <3> QED
      BY <3>3, <3>4
  <2>2. <<at>> \in Seq(Nat) /\ Len(<<at>>) = 1 /\ <<at>>[1] = at
    BY <1>1
  <2>3. \E o \in Place : \E ns \in [1 .. Len(o.path) -> Node] :
          /\ Chain(o.path, ns) /\ ns[Len(o.path)] = o.node
          /\ Len(<<at>>) <= Len(o.path)
          /\ \A j \in 1 .. Len(<<at>>) : o.path[j] = <<at>>[j]
          /\ \/ p = o.path /\ ~Builds(Shape[o.node])
             \/ \E i \in Reached(o.node) :
                  steps[o.node][i] = Broken /\ p = Append(o.path, i)
    BY <2>1, <2>2, FaultInside
  <2>4. PICK o \in Place : \E ns \in [1 .. Len(o.path) -> Node] :
          /\ Chain(o.path, ns) /\ ns[Len(o.path)] = o.node
          /\ o.path[1] = at
          /\ \/ p = o.path /\ ~Builds(Shape[o.node])
             \/ \E i \in Reached(o.node) :
                  steps[o.node][i] = Broken /\ p = Append(o.path, i)
    BY <2>2, <2>3
  <2>5. PICK ns \in [1 .. Len(o.path) -> Node] :
          Chain(o.path, ns) /\ ns[Len(o.path)] = o.node
    BY <2>4
  <2>6. Up(o, ns, 1) \in Done /\ 1 \in 1 .. Len(o.path)
    <3>1. Up(o, ns, 1) = [path |-> <<o.path[1]>>, node |-> templates[o.path[1]]]
      BY <2>5, RootUp
    <3>2. 1 \in 1 .. Len(o.path)
      BY PlaceIs
    <3> QED
      BY <1>1, <2>4, <3>1, <3>2 DEF RootDone
  <2>7. o \in Done
    BY <2>5, <2>6, DoneBelow
  <2> QED
    BY <2>4, <2>7, DoneInOrder
<1> QED
  BY <1>5, <1>6 DEF Blame

(* Each of the four places where a Build fails names the first fault.      *)
LEMMA FirstStep ==
  ASSUME Inv, TreeOK, ErrorIsTheFirst, [Next]_vars
  PROVE  ErrorIsTheFirst'
<1>1. ASSUME UNCHANGED program, UNCHANGED culprit, pc' = "failed" => pc = "failed"
      PROVE  ErrorIsTheFirst'
  <2> SUFFICES ASSUME pc' = "failed" PROVE Blame(culprit)'
    BY DEF ErrorIsTheFirst, Blame, BadTops
  <2>1. Blame(culprit)
    BY <1>1 DEF ErrorIsTheFirst, Blame, BadTops
  <2>2. \A q : Blame(q) => Blame(q)'
    BY <1>1, SameBlame
  <2>3. culprit' = culprit
    BY <1>1
  <2> QED
    BY <2>1, <2>2, <2>3 DEF Blame
<1>2. ASSUME pc' # "failed" PROVE ErrorIsTheFirst'
  BY <1>2 DEF ErrorIsTheFirst
<1>3. ASSUME pc = "building", UNCHANGED program, NEW n \in Node, Call(n),
             stack = << >> => at \in DOMAIN templates /\ n = templates[at],
             stack # << >> => /\ Top.next \in Inlined(Top.node)
                              /\ n = steps[Top.node][Top.next]
      PROVE  ErrorIsTheFirst'
  <2>1. CASE Len(stack) # MaxDepth /\ n \in Holds /\ ~Shape[n].name
    <3>1. Fail(Here)
      BY <1>3, <2>1 DEF Call
    <3>2. Blame(Here)
      BY <1>3, <2>1, UnnamedIsFirst
    <3> QED
      BY <1>3, <3>1, <3>2, BlameFails
  <2>2. CASE ~(Len(stack) # MaxDepth /\ n \in Holds /\ ~Shape[n].name)
    <3>1. pc' # "failed"
      BY <1>3, <2>2 DEF Call
    <3> QED
      BY <1>2, <3>1
  <2> QED
    BY <2>1, <2>2
<1>4. ASSUME NEW n \in Node, AddTemplate(n) PROVE ErrorIsTheFirst'
  BY <1>2, <1>4 DEF AddTemplate, Forget
<1>5. ASSUME NEW n \in Holds, NEW item \in Item, AddStep(n, item)
      PROVE  ErrorIsTheFirst'
  BY <1>2, <1>5 DEF AddStep, Forget
<1>6. ASSUME NEW set \in BOOLEAN, SetImage(set) PROVE ErrorIsTheFirst'
  BY <1>1, <1>6 DEF SetImage
<1>7. CASE Start
  BY <1>2, <1>7 DEF Start
<1>8. CASE BuildTemplate
  <2>1. /\ pc = "building" /\ stack = << >> /\ at \in DOMAIN templates
        /\ Call(templates[at]) /\ UNCHANGED program
    BY <1>8 DEF BuildTemplate
  <2>2. templates[at] \in Node
    BY <2>1 DEF Inv, TypeOK
  <2> QED
    BY <1>3, <2>1, <2>2
<1>9. CASE BuildStep
  <2>i. PICK item : item = steps[Top.node][Top.next]
    OBVIOUS
  <2>1. /\ pc = "building"
        /\ stack # << >>
        /\ Top.next \in DOMAIN steps[Top.node]
        /\ \/ item = Broken /\ Fail(Here)
           \/ /\ item = ByName
              /\ stack' = Advanced(stack)
              /\ UNCHANGED <<pc, at, result, culprit>>
           \/ item \in Node /\ Call(item)
        /\ UNCHANGED program
    BY <1>9, <2>i DEF BuildStep
  <2>2. CASE item = Broken /\ Fail(Here)
    <3>1. Blame(Here)
      BY <2>i, <2>1, <2>2, BrokenIsFirst
    <3> QED
      BY <2>1, <2>2, <3>1, BlameFails
  <2>3. CASE /\ item = ByName
             /\ stack' = Advanced(stack)
             /\ UNCHANGED <<pc, at, result, culprit>>
    BY <1>1, <2>1, <2>3
  <2>4. CASE item \in Node /\ Call(item)
    <3>1. Top.next \in Inlined(Top.node)
      BY <2>i, <2>1, <2>4, HeldItem
    <3> QED
      BY <1>3, <2>i, <2>1, <2>4, <3>1
  <2> QED
    BY <2>1, <2>2, <2>3, <2>4
<1>10. CASE Return
  <2>1. /\ pc = "building" /\ stack # << >>
        /\ Top.next \notin DOMAIN steps[Top.node]
        /\ UNCHANGED program
    BY <1>10 DEF Return
  <2>2. CASE Builds(Shape[Top.node])
    <3>1. pc' # "failed"
      BY <1>10, <2>2 DEF Return
    <3> QED
      BY <1>2, <3>1
  <2>3. CASE ~Builds(Shape[Top.node])
    <3>1. Fail(Caller)
      BY <1>10, <2>3 DEF Return
    <3>2. Blame(Caller)
      BY <2>1, <2>3, RefusedIsFirst
    <3> QED
      BY <2>1, <3>1, <3>2, BlameFails
  <2> QED
    BY <2>2, <2>3
<1>11. CASE Check
  <2>1. PICK e \in result :
          /\ e.path = <<at>>
          /\ IF Valid(Completed(e.model))
             THEN pc' = "building"
             ELSE Fail(<<at>>)
    BY <1>11 DEF Check
  <2>2. pc = "checking" /\ UNCHANGED program
    BY <1>11 DEF Check
  <2>3. CASE Valid(Completed(e.model))
    BY <1>2, <2>1, <2>3
  <2>4. CASE ~Valid(Completed(e.model))
    <3>1. Blame(<<at>>)
      BY <2>1, <2>2, <2>4, InvalidIsFirst
    <3>2. Fail(<<at>>)
      BY <2>1, <2>4
    <3> QED
      BY <2>2, <3>1, <3>2, BlameFails
  <2> QED
    BY <2>3, <2>4
<1>12. CASE Finish
  BY <1>2, <1>12 DEF Finish
<1>13. CASE UNCHANGED vars
  BY <1>1, <1>13 DEF vars
<1> QED
  BY <1>4, <1>5, <1>6, <1>7, <1>8, <1>9, <1>10, <1>11, <1>12, <1>13 DEF Next, Build

(* The error of a Build is about the first thing that is wrong, in the     *)
(* order in which a tree is built.                                         *)
THEOREM ErrorsAreFirst == Spec => []ErrorIsTheFirst
<1>1. Init => ErrorIsTheFirst
  BY DEF Init, ErrorIsTheFirst
<1>2. Inv /\ TreeOK /\ ErrorIsTheFirst /\ [Next]_vars => ErrorIsTheFirst'
  BY FirstStep
<1> QED
  BY <1>1, <1>2, Invariance, TreeInvariance, PTL DEF Spec
============================================================================
