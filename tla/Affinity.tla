------------------------------ MODULE Affinity ------------------------------
(***************************************************************************)
(* The affinity that Build gives the pods of a workflow.  A pointer to v   *)
(* is <<v>>, nil is the empty sequence.  An affinity is the set of its     *)
(* required terms; all terms of the library have one label key (the        *)
(* workflow label) and one topology (the host), so a term is the label     *)
(* value near which the pod must be.                                       *)
(***************************************************************************)
EXTENDS Sequences

Nil == << >>
Ptr(v) == <<v>>

(* Argo puts the final name of the workflow in its place.                  *)
WorkflowName == "{{workflow.name}}"

ColocateByLabel(labelValue) == {labelValue}

(* Deviation for WorkflowsFinish: the prefix is taken for the name.        *)
AffinityForPrefix(w) ==
  IF w.name # "" THEN Ptr(ColocateByLabel(w.name))
  ELSE IF w.generateName # "" THEN Ptr(ColocateByLabel(w.generateName))
  ELSE Nil

DefaultPodAffinityFor(w) ==
  IF w.name # "" THEN Ptr(ColocateByLabel(w.name))
  ELSE IF w.generateName # "" THEN Ptr(ColocateByLabel(WorkflowName))
  ELSE Nil

(* Deviation for NoMultiAttach: the claims are looked for among the        *)
(* volumes.                                                                *)
AffinityForVolumes(w) ==
  IF w.affinity # Nil THEN w.affinity
  ELSE IF w.disableDefaultAffinity \/ w.volumes = << >> THEN Nil
  ELSE DefaultPodAffinityFor(w)

resolveAffinity(w) ==
  IF w.affinity # Nil THEN w.affinity
  ELSE IF w.disableDefaultAffinity \/ w.claims = << >> THEN Nil
  ELSE DefaultPodAffinityFor(w)
============================================================================
