--------------------------- MODULE StepsTemplate ---------------------------
(***************************************************************************)
(* The Steps builder (steps.go): a program adds steps, one by one or as    *)
(* parallel groups, and builds the template, in any order.  AddParallel-   *)
(* Group takes the steps of its group one at a time and gives up at the    *)
(* first whose name is taken.  A program may also write StepGroups itself, *)
(* as a literal or by AddStep on one of the groups (both are exported).    *)
(***************************************************************************)
EXTENDS Integers, Sequences

CONSTANTS Name,      \* the names of steps, the empty one among them
          EmptyName, \* ""
          Step,      \* the steps at hand
          MaxGroups, \* BOUND: the groups a program adds
          MaxWidth   \* BOUND: the steps of a group

(* A step: how many of Template, TemplateRef and Inline it sets, and       *)
(* whether its arguments, artifacts and inline template build.             *)
ASSUME StepAssumption ==
  Step \subseteq [name : Name, refs : 0 .. 3, sound : BOOLEAN]

VARIABLES groups,    \* StepGroups
          nodeNames, \* the names that Steps remembers
          adding,    \* whether AddParallelGroup is running
          rest,      \* the steps it has still to look at
          group,     \* the group it has put together so far
          direct,    \* history: whether the program wrote StepGroups itself
          asked,     \* history: the names given to the last call
          refused,   \* history: the names it refused
          built      \* the last template built

vars == <<groups, nodeNames, adding, rest, group, direct, asked, refused, built>>

Parallel == [steps : Seq(Step), nodeNames : SUBSET Name]
NoGroup == [steps |-> << >>, nodeNames |-> {}]

NamesOf(steps) == {steps[i].name : i \in DOMAIN steps}
GroupNames == UNION {NamesOf(groups[g].steps) : g \in DOMAIN groups}

Init ==
  /\ groups = << >>
  /\ nodeNames = {}
  /\ adding = FALSE
  /\ rest = << >>
  /\ group = NoGroup
  /\ direct = FALSE
  /\ asked = << >>
  /\ refused = {}
  /\ built = "none"

----------------------------------------------------------------------------
(* Deviation for Inv: the name is not remembered.                          *)
AddSequentialStepForgetfully(s) ==
  /\ ~adding
  /\ Len(groups) < MaxGroups
  /\ asked' = <<s.name>>
  /\ IF s.name \in nodeNames
     THEN refused' = {s.name} /\ UNCHANGED <<groups, nodeNames>>
     ELSE /\ refused' = {}
          /\ nodeNames' = nodeNames
          /\ groups' = Append(groups, [steps |-> <<s>>, nodeNames |-> {s.name}])
  /\ UNCHANGED <<adding, rest, group, direct, built>>

AddSequentialStep(s) ==
  /\ ~adding
  /\ Len(groups) < MaxGroups
  /\ asked' = <<s.name>>
  /\ IF s.name \in nodeNames
     THEN refused' = {s.name} /\ UNCHANGED <<groups, nodeNames>>
     ELSE /\ refused' = {}
          /\ nodeNames' = nodeNames \union {s.name}
          /\ groups' = Append(groups, [steps |-> <<s>>, nodeNames |-> {s.name}])
  /\ UNCHANGED <<adding, rest, group, direct, built>>

AddParallelGroup(steps) ==
  /\ ~adding
  /\ Len(groups) < MaxGroups
  /\ adding' = TRUE
  /\ rest' = steps
  /\ group' = NoGroup
  /\ asked' = [i \in DOMAIN steps |-> steps[i].name]
  /\ refused' = {}
  /\ UNCHANGED <<groups, nodeNames, direct, built>>

(* Parallel.AddStep: only the names of this group are looked at.           *)
Joined(p, s) ==
  IF s.name \in p.nodeNames THEN p
  ELSE [steps |-> Append(p.steps, s), nodeNames |-> p.nodeNames \union {s.name}]

(* Deviation for UniqueNodes: only the group's own names are looked at.    *)
TakeStepLocally ==
  /\ adding
  /\ rest # << >>
  /\ IF Head(rest).name \in group.nodeNames
     THEN /\ refused' = {Head(rest).name}
          /\ adding' = FALSE
          /\ UNCHANGED <<nodeNames, rest, group>>
     ELSE /\ nodeNames' = nodeNames \union {Head(rest).name}
          /\ group' = Joined(group, Head(rest))
          /\ rest' = Tail(rest)
          /\ UNCHANGED <<adding, refused>>
  /\ UNCHANGED <<groups, direct, asked, built>>

(* One turn of the loop.  The group's own check cannot fail: the names of  *)
(* the group are among those that Steps remembers.                         *)
TakeStep ==
  /\ adding
  /\ rest # << >>
  /\ IF Head(rest).name \in nodeNames
     THEN /\ refused' = {Head(rest).name}
          /\ adding' = FALSE
          /\ UNCHANGED <<nodeNames, rest, group>>
     ELSE /\ nodeNames' = nodeNames \union {Head(rest).name}
          /\ group' = Joined(group, Head(rest))
          /\ rest' = Tail(rest)
          /\ UNCHANGED <<adding, refused>>
  /\ UNCHANGED <<groups, direct, asked, built>>

AppendGroup ==
  /\ adding
  /\ rest = << >>
  /\ groups' = Append(groups, group)
  /\ adding' = FALSE
  /\ UNCHANGED <<nodeNames, rest, group, direct, asked, refused, built>>

(* StepGroups[g].AddStep(s).                                               *)
AddStep(g, s) ==
  /\ ~adding
  /\ direct' = TRUE
  /\ Len(groups[g].steps) < MaxWidth
  /\ asked' = <<s.name>>
  /\ refused' = {s.name} \intersect groups[g].nodeNames
  /\ groups' = [groups EXCEPT ![g] = Joined(@, s)]
  /\ UNCHANGED <<nodeNames, adding, rest, group, built>>

(* StepGroups = append(StepGroups, Parallel{Steps: ...}).                  *)
WriteGroup(steps) ==
  /\ ~adding
  /\ direct' = TRUE
  /\ Len(groups) < MaxGroups
  /\ groups' = Append(groups, [steps |-> steps, nodeNames |-> {}])
  /\ UNCHANGED <<nodeNames, adding, rest, group, asked, refused, built>>

----------------------------------------------------------------------------
(* BuildStep: a name, and exactly one template; then arguments, artifacts  *)
(* and the inline template, which is built by its own BuildTemplate.       *)
Builds(s) == s.name # EmptyName /\ s.refs = 1 /\ s.sound

(* BuildTemplate: the models of all the steps, group by group, or an error.*)
(* own: whether the template has a name, and its inputs and outputs build. *)
BuildTemplate(own) ==
  /\ ~adding
  /\ built' = IF own /\ \A g \in DOMAIN groups :
                   \A i \in DOMAIN groups[g].steps : Builds(groups[g].steps[i])
              THEN [g \in DOMAIN groups |->
                      [i \in DOMAIN groups[g].steps |-> groups[g].steps[i].name]]
              ELSE "error"
  /\ UNCHANGED <<groups, nodeNames, adding, rest, group, direct, asked, refused>>

Groups == UNION {[1 .. n -> Step] : n \in 0 .. MaxWidth}

Next ==
  \/ \E s \in Step : AddSequentialStep(s)
  \/ \E steps \in Groups : AddParallelGroup(steps)
  \/ TakeStep
  \/ AppendGroup
  \/ \E g \in DOMAIN groups, s \in Step : AddStep(g, s)
  \/ \E steps \in Groups : WriteGroup(steps)
  \/ \E own \in BOOLEAN : BuildTemplate(own)

Spec == Init /\ [][Next]_vars

----------------------------------------------------------------------------
(* Properties.                                                             *)

TypeOK ==
  /\ groups \in Seq(Parallel)
  /\ nodeNames \subseteq Name
  /\ adding \in BOOLEAN
  /\ rest \in Seq(Step)
  /\ group \in Parallel
  /\ direct \in BOOLEAN
  /\ asked \in Seq(Name)
  /\ refused \subseteq Name

(* A program that only calls AddSequentialStep and AddParallelGroup never  *)
(* gets two steps of one name into a template, in one group or in two,     *)
(* whichever of its calls were refused, and half done, on the way.         *)
UniqueNodes ==
  ~direct =>
    \A g, h \in DOMAIN groups :
      \A i \in DOMAIN groups[g].steps, j \in DOMAIN groups[h].steps :
        groups[g].steps[i].name = groups[h].steps[j].name => g = h /\ i = j

(* A name is refused only if a step of that name is there, or if the call  *)
(* itself gave it twice (nodeNames "tracks step names across all groups"). *)
RefusalsAreReal ==
  \A n \in refused :
    \/ n \in GroupNames
    \/ \E i, j \in DOMAIN asked : i # j /\ asked[i] = n /\ asked[j] = n

----------------------------------------------------------------------------
(* The inductive invariant behind UniqueNodes: Steps remembers every name  *)
(* in a group, finished or not, and the group being put together shares    *)
(* none with the finished ones.                                            *)
Remembered ==
  /\ GroupNames \subseteq nodeNames
  /\ NamesOf(group.steps) \subseteq nodeNames
  /\ group.nodeNames = NamesOf(group.steps)

FreshGroup ==
  adding =>
    /\ GroupNames \intersect NamesOf(group.steps) = {}
    /\ \A i, j \in DOMAIN group.steps :
         group.steps[i].name = group.steps[j].name => i = j

(* Until the program writes StepGroups itself, no step escapes the names   *)
(* that Steps remembers: what keeps a refused, half-done AddParallelGroup  *)
(* from opening the way to a duplicate.                                    *)
Inv == TypeOK /\ (~direct => Remembered /\ FreshGroup) /\ UniqueNodes
============================================================================
