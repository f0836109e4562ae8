--------------------------- MODULE WorkflowModel ---------------------------
(***************************************************************************)
(* What Build of a Workflow writes into its model: name, arguments,        *)
(* volumes, claims, affinity, selector, retry strategy and condition.  The *)
(* templates are represented by the quantities, the mounts and the         *)
(* affinity of their containers.  BuildPlan and WorkflowBuild have the     *)
(* order of the stages and the hooks' lists and locks.                     *)
(***************************************************************************)
EXTENDS Volumes, Quantities

(* AsArgument: the value or its source is kept, the default is not.        *)
AsArgument(p) ==
  IF p.name = "" THEN Nil ELSE Ptr([name |-> p.name, value |-> p.value])

(* Every kind of artifact builds its base first, and needs its name.       *)
BuildArtifact(a) == IF a.name = "" THEN Nil ELSE Ptr([name |-> a.name])

(* Parameters first, then artifacts: the first error is the answer.        *)
buildArguments(w) ==
  LET parameters == BuildAll(AsArgument, w.arguments)
      artifacts == BuildAll(BuildArtifact, w.artifacts)
  IN  IF Nil \in {parameters, artifacts} THEN Nil
      ELSE Ptr([parameters |-> parameters[1], artifacts |-> artifacts[1]])

(* A retry strategy.  Its expression is none, or "not out of memory"; the  *)
(* model has its limit as a decimal text, which the server reads back.     *)
NotOutOfMemory == "asInt(lastRetry.exitCode) != 137"

(* Deviation for RetriesAreUseful: the expression is forgotten.            *)
RetryOnAnyFailure(limit) ==
  [limit |-> Ptr(limit), policy |-> "OnFailure", expression |-> ""]

NewRetryOnFailure(limit) ==
  [limit |-> Ptr(limit), policy |-> "OnFailure", expression |-> NotOutOfMemory]

(* Workflow.validate: a workflow has a name or a prefix for one.  Names of *)
(* jobs are short, and a workflow with templates has an entrypoint.        *)
HasName(w) == w.name # "" \/ w.generateName # ""

(* Everything is in order with the object itself; unitsOK is the verdict   *)
(* on the quantities of the templates.                                     *)
Accepts(w, unitsOK) ==
  /\ HasName(w)
  /\ unitsOK
  /\ Nil \notin {buildArguments(w), buildVolumes(w), buildVolumeClaimTemplates(w)}

(* The model, up to the hooks.  Labels, selectors and other maps are not   *)
(* copied: the model refers to those of the object.                        *)
Translation(w) ==
  [name         |-> w.name,
   generateName |-> w.generateName,
   arguments    |-> buildArguments(w)[1],
   volumes      |-> buildVolumes(w)[1],
   claims       |-> buildVolumeClaimTemplates(w)[1],
   affinity     |-> resolveAffinity(w),
   selector     |-> w.selector,
   retry        |-> w.retry]
============================================================================
