---------------------------- MODULE MCArgoClient ----------------------------
(***************************************************************************)
(* Instances of ArgoClient for TLC.                                        *)
(***************************************************************************)
EXTENDS ArgoClient

CONSTANTS c1, c2

Asks(scope, ns, name, decodes) ==
  [scope |-> scope, ns |-> ns, name |-> name, sound |-> TRUE, decodes |-> decodes]

(* An inquiry; a deletion, in the default namespace; a deletion of a       *)
(* workflow that no workflow can be called; a submission of an object that *)
(* does not build.                                                         *)
MCRequest ==
  {Asks("server", "", "", TRUE),
   Asks("workflow", "", "good", FALSE),
   Asks("workflow", "good", "bad", FALSE),
   [Asks("namespace", "good", "", TRUE) EXCEPT !.sound = FALSE]}
============================================================================
