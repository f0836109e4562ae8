--------------------------- MODULE NodeStatuses ---------------------------
(***************************************************************************)
(* What the library reads from the status of a workflow: a phase, and the  *)
(* nodes, each of a type and, once its main container has ended, with its  *)
(* exit code.  nil is << >>, a pointer to v is <<v>>.                      *)
(***************************************************************************)
EXTENDS Sequences

WorkflowPhase ==
  {"Pending", "Running", "Succeeded", "Failed", "Error", "Terminated"}

(* ParseWorkflowStatus: only these texts are a status.                     *)
ParseWorkflowStatus(s) == IF s \in WorkflowPhase THEN <<s>> ELSE << >>

(* ParseWorkflowStatusFromUnstructured: the status section, nil without.   *)
ParseStatus(obj) == obj.status

Pods(status) == {n \in status.nodes : n.type = "Pod"}

(* Deviation for FalseFailuresAreDetected: nodes without outputs are left  *)
(* out.                                                                    *)
AllPodNodesWithOutputsExitedZero(status) ==
  /\ status # << >>
  /\ Pods(status[1]) # {}
  /\ \A n \in Pods(status[1]) : n.exit \in {<< >>, <<"0">>}

AllPodNodesExitedZero(status) ==
  /\ status # << >>
  /\ Pods(status[1]) # {}
  /\ \A n \in Pods(status[1]) : n.exit = <<"0">>
============================================================================
