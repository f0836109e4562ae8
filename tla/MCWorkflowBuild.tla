-------------------------- MODULE MCWorkflowBuild --------------------------
(***************************************************************************)
(* Instances of WorkflowBuild for TLC: races of two Builds of a small      *)
(* object, and the pipeline of one Build of every kind of object, with     *)
(* liveness.                                                               *)
(***************************************************************************)
EXTENDS WorkflowBuild

CONSTANTS b1, b2, c1, c2  \* goroutines: two build, two configure

MCValue == {"python", "img", "sa"}
MCHookName == {"n1", "n2"}
MCAnonHook == {"a1", "a2"}
MCNamedHook == {"f1", "f2"}

Builders == Permutations({b1, b2})

Bare == [f \in Field |-> "unset"]
ATemplate == [accepted |-> TRUE, container |-> TRUE, fields |-> Bare, units |-> TRUE]
AJob(resource, templates) ==
  [resource |-> resource, templates |-> templates, rest |-> TRUE]

Set(f, v) == [do |-> "Set", field |-> f, value |-> v]
Load(image, account) ==
  [do |-> "UnmarshalJSON",
   scalars |-> [Bare EXCEPT !["image"] = image, !["serviceAccountName"] = account]]
Register(l, h) == [do |-> "RegisterHook", list |-> l, fn |-> h]
RegisterNamed(l, n, h) ==
  [do |-> "RegisterNamedHook", list |-> l, id |-> n, fn |-> h]
RemoveNamed(l, n) == [do |-> "RemoveHook", list |-> l, id |-> n]
Plain(d) == [do |-> d]

----------------------------------------------------------------------------
(* Races: one template without a container; an anonymous hook that reads   *)
(* the configuration, a named hook that removes itself, and one that fails.*)
RaceJobs ==
  {AJob("WorkflowTemplate", <<[ATemplate EXCEPT !.container = FALSE]>>)}
RaceOps ==
  {Register("template", "a2"), RegisterNamed("template", "n1", "f1"),
   RegisterNamed("template", "n2", "f2"), RemoveNamed("template", "n1"),
   Plain("ClearHooks"), Plain("Get")}
RaceHookCall ==
  [h \in MCAnonHook \union MCNamedHook |->
     CASE h = "a2" -> Plain("Get")
       [] h = "f1" -> RemoveNamed("template", "n1")
       [] OTHER    -> NoOp]

----------------------------------------------------------------------------
(* The pipeline: every kind of object, templates with and without an       *)
(* image, rejected ones, defaults that come and go in pairs, and a named   *)
(* hook that removes itself, so that the Build writes the configuration    *)
(* too.  Anonymous hooks leave it alone: BuildReturns needs that.          *)
PipelineJobs ==
  {AJob("Workflow", <<[ATemplate EXCEPT !.fields["image"] = "img"],
                      [ATemplate EXCEPT !.container = FALSE]>>),
   AJob("Workflow", <<ATemplate, [ATemplate EXCEPT !.units = FALSE]>>),
   AJob("Workflow", <<ATemplate, [ATemplate EXCEPT !.accepted = FALSE]>>),
   AJob("WorkflowTemplate", <<ATemplate>>),
   AJob("ClusterWorkflowTemplate", << >>),
   [AJob("CronWorkflow", << >>) EXCEPT !.rest = FALSE],
   AJob("CronWorkflow", << >>)}
PipelineOps ==
  {Load("unset", "sa"), Set("image", "img"), Plain("Reset"),
   Register("cronWorkflow", "a1"), RegisterNamed("template", "n1", "f1"),
   RemoveNamed("template", "n1"), RegisterNamed("workflow", "n1", "f2")}
PipelineHookCall ==
  [h \in MCAnonHook \union MCNamedHook |->
     IF h = "f1" THEN RemoveNamed("template", "n1") ELSE NoOp]
============================================================================
