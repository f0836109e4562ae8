----------------------------- MODULE BuildPlan -----------------------------
(***************************************************************************)
(* What Build() is given (an object with its templates) and the hook       *)
(* dispatches it makes, in order.                                          *)
(***************************************************************************)
EXTENDS Registry

CONSTANTS Builder, \* the goroutines that call Build
          Jobs     \* the objects they build

Resource == {"Workflow", "WorkflowTemplate", "ClusterWorkflowTemplate",
             "CronWorkflow"}

(* What the pipeline sees of a Templatable: whether BuildTemplate accepts  *)
(* it, whether it holds a container or script, the scalars it sets, and    *)
(* whether its resource quantities are well-formed.                        *)
Template == [accepted : BOOLEAN, container : BOOLEAN, fields : Scalars,
             units : BOOLEAN]
Job == [resource : Resource, templates : Seq(Template), rest : BOOLEAN]

ASSUME JobsAssumption == Jobs \subseteq Job /\ Jobs # {}

(* The list of anonymous hooks of the built object: one list serves both   *)
(* kinds of workflow template.                                             *)
ObjectList(resource) ==
  CASE resource = "Workflow" -> "workflow"
    [] resource = "CronWorkflow" -> "cronWorkflow"
    [] OTHER -> "workflowTemplate"

============================================================================
