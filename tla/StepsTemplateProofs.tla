------------------------ MODULE StepsTemplateProofs ------------------------
(***************************************************************************)
(* No program that leaves StepGroups alone gets two steps of one name into *)
(* a steps template: Inv is inductive, for any set of steps and any bounds.*)
(***************************************************************************)
EXTENDS StepsTemplate, SequenceTheorems, TLAPS

(* The names of a sequence of steps that grows by one step.                *)
LEMMA NamesOfAppend ==
  ASSUME NEW steps \in Seq(Step), NEW s \in Step
  PROVE  NamesOf(Append(steps, s)) = NamesOf(steps) \union {s.name}
<1> DEFINE more == Append(steps, s)
<1>1. /\ DOMAIN more = 1 .. Len(steps) + 1
      /\ DOMAIN steps = 1 .. Len(steps)
      /\ Len(steps) \in Nat
      /\ \A i \in 1 .. Len(steps) : more[i] = steps[i]
      /\ more[Len(steps) + 1] = s
  OBVIOUS
<1>2. NamesOf(more) \subseteq NamesOf(steps) \union {s.name}
  BY <1>1 DEF NamesOf
<1>3. NamesOf(steps) \subseteq NamesOf(more)
  BY <1>1 DEF NamesOf
<1>4. s.name \in NamesOf(more)
  BY <1>1 DEF NamesOf
<1> QED
  BY <1>2, <1>3, <1>4

(* A step of a new name keeps the names of a group's steps unique.         *)
LEMMA OnceEach ==
  ASSUME NEW steps \in Seq(Step), NEW s \in Step, s.name \notin NamesOf(steps),
         \A i, j \in DOMAIN steps : steps[i].name = steps[j].name => i = j
  PROVE  \A i, j \in DOMAIN Append(steps, s) :
           Append(steps, s)[i].name = Append(steps, s)[j].name => i = j
<1> DEFINE more == Append(steps, s)
<1>1. /\ DOMAIN more = 1 .. Len(steps) + 1
      /\ DOMAIN steps = 1 .. Len(steps)
      /\ Len(steps) \in Nat
      /\ \A i \in 1 .. Len(steps) : more[i] = steps[i]
      /\ more[Len(steps) + 1] = s
  OBVIOUS
<1>2. \A k \in DOMAIN steps : steps[k].name # s.name
  BY DEF NamesOf
<1> HIDE DEF more
<1>3. \A i, j \in DOMAIN more : more[i].name = more[j].name => i = j
  BY <1>1, <1>2
<1> QED
  BY <1>3 DEF more

(* The names in the groups when a group is added to them.                  *)
LEMMA GroupNamesAppend ==
  ASSUME groups \in Seq(Parallel), NEW p \in Parallel,
         groups' = Append(groups, p)
  PROVE  GroupNames' = GroupNames \union NamesOf(p.steps)
<1>1. /\ DOMAIN groups' = 1 .. Len(groups) + 1
      /\ DOMAIN groups = 1 .. Len(groups)
      /\ Len(groups) \in Nat
      /\ \A g \in 1 .. Len(groups) : groups'[g] = groups[g]
      /\ groups'[Len(groups) + 1] = p
  OBVIOUS
<1>2. GroupNames' = UNION {NamesOf(groups'[g].steps) : g \in DOMAIN groups'}
  BY DEF GroupNames, NamesOf
<1>3. GroupNames' \subseteq GroupNames \union NamesOf(p.steps)
  BY <1>1, <1>2 DEF GroupNames
<1>4. GroupNames \subseteq GroupNames'
  BY <1>1, <1>2 DEF GroupNames
<1>5. NamesOf(p.steps) \subseteq GroupNames'
  BY <1>1, <1>2
<1> QED
  BY <1>3, <1>4, <1>5

(* A group with names of its own, each once, keeps the names of all groups *)
(* unique.                                                                 *)
LEMMA UniqueAppend ==
  ASSUME groups \in Seq(Parallel), NEW p \in Parallel,
         groups' = Append(groups, p), direct' = direct,
         UniqueNodes,
         ~direct => /\ GroupNames \intersect NamesOf(p.steps) = {}
                    /\ \A i, j \in DOMAIN p.steps :
                         p.steps[i].name = p.steps[j].name => i = j
  PROVE  UniqueNodes'
<1>1. /\ DOMAIN groups' = 1 .. Len(groups) + 1
      /\ DOMAIN groups = 1 .. Len(groups)
      /\ Len(groups) \in Nat
      /\ \A g \in 1 .. Len(groups) : groups'[g] = groups[g]
      /\ groups'[Len(groups) + 1] = p
  OBVIOUS
<1> SUFFICES ASSUME ~direct,
                    NEW g \in DOMAIN groups', NEW h \in DOMAIN groups',
                    NEW i \in DOMAIN groups'[g].steps,
                    NEW j \in DOMAIN groups'[h].steps,
                    groups'[g].steps[i].name = groups'[h].steps[j].name
             PROVE  g = h /\ i = j
  BY DEF UniqueNodes
<1>2. CASE g \in DOMAIN groups /\ h \in DOMAIN groups
  BY <1>1, <1>2 DEF UniqueNodes
<1>3. CASE g \in DOMAIN groups /\ h = Len(groups) + 1
  <2>1. groups'[g].steps[i].name \in GroupNames
    BY <1>1, <1>3 DEF GroupNames, NamesOf
  <2>2. groups'[h].steps[j].name \in NamesOf(p.steps)
    BY <1>1, <1>3 DEF NamesOf
  <2> QED
    BY <2>1, <2>2
<1>4. CASE g = Len(groups) + 1 /\ h \in DOMAIN groups
  <2>1. groups'[h].steps[j].name \in GroupNames
    BY <1>1, <1>4 DEF GroupNames, NamesOf
  <2>2. groups'[g].steps[i].name \in NamesOf(p.steps)
    BY <1>1, <1>4 DEF NamesOf
  <2> QED
    BY <2>1, <2>2
<1>5. CASE g = Len(groups) + 1 /\ h = Len(groups) + 1
  BY <1>1, <1>5
<1> QED
  BY <1>1, <1>2, <1>3, <1>4, <1>5

----------------------------------------------------------------------------
LEMMA Initially == Init => Inv
<1> SUFFICES ASSUME Init PROVE Inv
  OBVIOUS
<1>1. NoGroup \in Parallel /\ NoGroup.steps = << >> /\ NoGroup.nodeNames = {}
  BY DEF NoGroup, Parallel
<1>2. TypeOK
  <2>1. << >> \in Seq(Parallel) /\ << >> \in Seq(Step) /\ << >> \in Seq(Name)
    BY EmptySeq
  <2> QED
    BY <1>1, <2>1, Zenon DEF Init, TypeOK
<1>3. GroupNames = {} /\ NamesOf(group.steps) = {}
  BY <1>1 DEF Init, GroupNames, NamesOf
<1>4. UniqueNodes
  BY DEF Init, UniqueNodes
<1> QED
  BY <1>1, <1>2, <1>3, <1>4 DEF Init, Inv, Remembered, FreshGroup

LEMMA TypePreserved == TypeOK /\ [Next]_vars => TypeOK'
<1> SUFFICES ASSUME TypeOK, [Next]_vars PROVE TypeOK'
  OBVIOUS
<1> USE DEF TypeOK
<1>0. \A s \in Step : s.name \in Name
  BY StepAssumption
<1>1. ASSUME NEW p \in Parallel, NEW s \in Step PROVE Joined(p, s) \in Parallel
  BY <1>0 DEF Joined, Parallel
<1>2. \A steps \in Groups : steps \in Seq(Step)
  BY DEF Groups
<1>3. NoGroup \in Parallel
  BY DEF NoGroup, Parallel
<1>4. ASSUME NEW s \in Step, AddSequentialStep(s) PROVE TypeOK'
  <2> DEFINE p == [steps |-> <<s>>, nodeNames |-> {s.name}]
  <2>1. p \in Parallel
    BY <1>0 DEF Parallel
  <2>2. s.name \in Name /\ <<s.name>> \in Seq(Name)
    BY <1>0
  <2>3. CASE s.name \in nodeNames
    BY <1>4, <2>2, <2>3 DEF AddSequentialStep
  <2>4. CASE s.name \notin nodeNames
    <3>1. groups' \in Seq(Parallel)
      <4>1. groups' = Append(groups, p) /\ groups \in Seq(Parallel)
        BY <1>4, <2>4 DEF AddSequentialStep
      <4> HIDE DEF p, TypeOK
      <4> QED
        BY <2>1, <4>1, AppendProperties
    <3> QED
      BY <1>4, <2>2, <2>4, <3>1 DEF AddSequentialStep
  <2> QED
    BY <2>3, <2>4
<1>5. ASSUME NEW steps \in Groups, AddParallelGroup(steps) PROVE TypeOK'
  <2>1. steps \in Seq(Step)
    BY <1>2
  <2>2. [i \in DOMAIN steps |-> steps[i].name] \in Seq(Name)
    BY <1>0, <2>1
  <2> QED
    BY <1>3, <1>5, <2>1, <2>2 DEF AddParallelGroup
<1>6. CASE TakeStep
  <2>1. Head(rest) \in Step /\ Tail(rest) \in Seq(Step)
    BY <1>6 DEF TakeStep
  <2>2. Joined(group, Head(rest)) \in Parallel /\ Head(rest).name \in Name
    BY <1>0, <1>1, <2>1
  <2>3. CASE Head(rest).name \in nodeNames
    BY <1>6, <2>2, <2>3 DEF TakeStep
  <2>4. CASE Head(rest).name \notin nodeNames
    BY <1>6, <2>1, <2>2, <2>4 DEF TakeStep
  <2> QED
    BY <2>3, <2>4
<1>7. CASE AppendGroup
  <2>1. Append(groups, group) \in Seq(Parallel)
    BY AppendProperties
  <2> QED
    BY <1>7, <2>1 DEF AppendGroup
<1>8. ASSUME NEW g \in DOMAIN groups, NEW s \in Step, AddStep(g, s) PROVE TypeOK'
  <2>1. groups[g] \in Parallel
    OBVIOUS
  <2>2. Joined(groups[g], s) \in Parallel
    BY <1>1, <2>1
  <2>3. groups' = [groups EXCEPT ![g] = Joined(groups[g], s)]
    BY <1>8 DEF AddStep
  <2>4. groups' \in Seq(Parallel)
    BY <2>2, <2>3
  <2>5. s.name \in Name /\ groups[g].nodeNames \subseteq Name
    BY <1>0, <2>1 DEF Parallel
  <2> QED
    BY <1>8, <2>4, <2>5 DEF AddStep
<1>9. ASSUME NEW steps \in Groups, WriteGroup(steps) PROVE TypeOK'
  <2>1. [steps |-> steps, nodeNames |-> {}] \in Parallel
    BY <1>2 DEF Parallel
  <2> QED
    BY <1>9, <2>1 DEF WriteGroup
<1>10. CASE \E own \in BOOLEAN : BuildTemplate(own)
  BY <1>10 DEF BuildTemplate
<1>11. CASE UNCHANGED vars
  BY <1>11 DEF vars
<1> QED
  BY <1>4, <1>5, <1>6, <1>7, <1>8, <1>9, <1>10, <1>11 DEF Next

LEMMA Inductive == Inv /\ [Next]_vars => Inv'
<1> SUFFICES ASSUME Inv, [Next]_vars PROVE Inv'
  OBVIOUS
<1>1. TypeOK /\ TypeOK'
  BY TypePreserved DEF Inv
<1>2. ASSUME NEW s \in Step, AddSequentialStep(s)
      PROVE  Inv'
  <2> DEFINE p == [steps |-> <<s>>, nodeNames |-> {s.name}]
  <2>1. /\ ~adding /\ adding' = adding /\ direct' = direct
        /\ group' = group
    BY <1>2 DEF AddSequentialStep
  <2>2. CASE s.name \in nodeNames
    BY <1>1, <1>2, <2>1, <2>2
       DEF AddSequentialStep, Inv, Remembered, FreshGroup, UniqueNodes,
           GroupNames, NamesOf
  <2>3. CASE s.name \notin nodeNames
    <3>1. groups' = Append(groups, p) /\ nodeNames' = nodeNames \union {s.name}
      BY <1>2, <2>3 DEF AddSequentialStep
    <3>2. p \in Parallel /\ NamesOf(p.steps) = {s.name}
      BY StepAssumption DEF Parallel, NamesOf
    <3>3. GroupNames' = GroupNames \union {s.name}
      BY <1>1, <3>1, <3>2, GroupNamesAppend DEF TypeOK
    <3>4. UniqueNodes'
      <4>1. ~direct => GroupNames \intersect NamesOf(p.steps) = {}
        BY <2>3, <3>2 DEF Inv, Remembered
      <4>2. DOMAIN p.steps = {1}
        OBVIOUS
      <4>3. groups \in Seq(Parallel) /\ UniqueNodes
        BY <1>1 DEF Inv, TypeOK
      <4> HIDE DEF p
      <4> QED
        BY <2>1, <3>1, <3>2, <4>1, <4>2, <4>3, UniqueAppend
    <3>5. NamesOf(group.steps)' = NamesOf(group.steps)
      BY <2>1
    <3> QED
      BY <1>1, <2>1, <3>1, <3>3, <3>4, <3>5 DEF Inv, Remembered, FreshGroup
  <2> QED
    BY <2>2, <2>3
<1>3. ASSUME NEW steps \in Groups, AddParallelGroup(steps)
      PROVE  Inv'
  BY <1>1, <1>3
     DEF AddParallelGroup, NoGroup, Inv, Remembered, FreshGroup, UniqueNodes,
         GroupNames, NamesOf
<1>4. CASE TakeStep
  <2> DEFINE s == Head(rest)
  <2>1. /\ adding /\ rest # << >> /\ s \in Step /\ s.name \in Name
        /\ UNCHANGED <<groups, direct>>
    BY <1>1, <1>4, StepAssumption DEF TakeStep, TypeOK
  <2>2. GroupNames' = GroupNames /\ (UniqueNodes => UniqueNodes')
    BY <2>1 DEF GroupNames, UniqueNodes, NamesOf
  <2>3. CASE s.name \in nodeNames
    BY <1>1, <1>4, <2>1, <2>2, <2>3
       DEF TakeStep, Inv, Remembered, FreshGroup, NamesOf
  <2>4. CASE s.name \notin nodeNames
    <3>1. nodeNames' = nodeNames \union {s.name} /\ group' = Joined(group, s)
          /\ adding' = adding
      BY <1>4, <2>4 DEF TakeStep
    <3> SUFFICES ASSUME ~direct PROVE Remembered' /\ FreshGroup'
      BY <1>1, <2>1, <2>2 DEF Inv
    <3>2. Remembered /\ FreshGroup
      BY DEF Inv
    <3>3. s.name \notin group.nodeNames /\ s.name \notin GroupNames
          /\ s.name \notin NamesOf(group.steps)
      BY <2>4, <3>2 DEF Remembered
    <3>4. /\ group'.steps = Append(group.steps, s)
          /\ group'.nodeNames = group.nodeNames \union {s.name}
      BY <3>1, <3>3 DEF Joined
    <3>5. group.steps \in Seq(Step)
      BY <1>1 DEF TypeOK, Parallel
    <3>6. NamesOf(group'.steps) = NamesOf(group.steps) \union {s.name}
      BY <2>1, <3>4, <3>5, NamesOfAppend
    <3>7. Remembered'
      BY <2>2, <3>1, <3>2, <3>4, <3>6 DEF Remembered
    <3>8. GroupNames \intersect NamesOf(group'.steps) = {}
      BY <2>1, <3>2, <3>3, <3>6 DEF FreshGroup
    <3>9. \A i, j \in DOMAIN group'.steps :
            group'.steps[i].name = group'.steps[j].name => i = j
      <4>1. \A i, j \in DOMAIN group.steps :
              group.steps[i].name = group.steps[j].name => i = j
        BY <2>1, <3>2 DEF FreshGroup
      <4> QED
        BY <2>1, <3>3, <3>4, <3>5, <4>1, OnceEach, ZenonT(40)
    <3> QED
      BY <2>2, <3>7, <3>8, <3>9 DEF FreshGroup
  <2> QED
    BY <2>3, <2>4
<1>5. CASE AppendGroup
  <2>1. /\ adding /\ ~adding' /\ groups' = Append(groups, group)
        /\ UNCHANGED <<nodeNames, group, direct>> /\ group \in Parallel
        /\ groups \in Seq(Parallel)
    BY <1>1, <1>5 DEF AppendGroup, TypeOK
  <2>2. GroupNames' = GroupNames \union NamesOf(group.steps)
    BY <2>1, GroupNamesAppend
  <2>3. UniqueNodes'
    BY <2>1, UniqueAppend DEF Inv, FreshGroup
  <2>4. ~direct => Remembered'
    BY <2>1, <2>2 DEF Inv, Remembered
  <2> QED
    BY <1>1, <2>1, <2>3, <2>4 DEF Inv, FreshGroup
<1>6. ASSUME NEW g \in DOMAIN groups, NEW s \in Step, AddStep(g, s)
      PROVE  Inv'
  BY <1>1, <1>6 DEF AddStep, Inv, UniqueNodes
<1>7. ASSUME NEW steps \in Groups, WriteGroup(steps)
      PROVE  Inv'
  BY <1>1, <1>7 DEF WriteGroup, Inv, UniqueNodes
<1>8. CASE \E own \in BOOLEAN : BuildTemplate(own)
  BY <1>1, <1>8
     DEF BuildTemplate, Inv, Remembered, FreshGroup, UniqueNodes, GroupNames, NamesOf
<1>9. CASE UNCHANGED vars
  <2>1. UNCHANGED <<groups, nodeNames, adding, group, direct>>
    BY <1>9 DEF vars
  <2>2. /\ UniqueNodes' <=> UniqueNodes
        /\ GroupNames' = GroupNames
        /\ NamesOf(group.steps)' = NamesOf(group.steps)
    BY <2>1 DEF UniqueNodes, GroupNames, NamesOf
  <2>3. (Remembered' <=> Remembered) /\ (FreshGroup' <=> FreshGroup)
    BY <2>1, <2>2 DEF Remembered, FreshGroup
  <2> QED
    BY <1>1, <2>1, <2>2, <2>3 DEF Inv
<1> QED
  BY <1>2, <1>3, <1>4, <1>5, <1>6, <1>7, <1>8, <1>9 DEF Next

(* The names Steps remembers cover every step it was given, whichever      *)
(* AddParallelGroup calls gave up half way (Inv, of steps.go:161-193).     *)
THEOREM Remembering == Spec => []Inv
<1>1. Init => Inv
  BY Initially
<1>2. Inv /\ [Next]_vars => Inv'
  BY Inductive
<1> QED
  BY <1>1, <1>2, PTL DEF Spec

(* No two steps of one name in the template of a program that only calls   *)
(* AddSequentialStep and AddParallelGroup.                                 *)
THEOREM NodesAreUnique == Spec => []UniqueNodes
<1>1. Inv => UniqueNodes
  BY DEF Inv
<1> QED
  BY <1>1, Remembering, PTL
=============================================================================
