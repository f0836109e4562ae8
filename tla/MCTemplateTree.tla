--------------------------- MODULE MCTemplateTree ---------------------------
(***************************************************************************)
(* Instances of TemplateTree for TLC: Steps and a DAG that hold a          *)
(* container without an image, a set of containers, an HTTP template with  *)
(* a malformed timeout, and each other.                                    *)
(***************************************************************************)
EXTENDS TemplateTree, TLC

CONSTANTS s, d, c, k, h

MCShape ==
  (s :> [kind |-> "steps", name |-> TRUE, interface |-> TRUE]) @@
  (d :> [kind |-> "dag", name |-> TRUE, interface |-> TRUE]) @@
  (c :> [kind |-> "container", name |-> TRUE, image |-> FALSE,
         units |-> TRUE, interface |-> TRUE]) @@
  (k :> [kind |-> "containerSet", name |-> TRUE, containers |-> TRUE,
         image |-> FALSE, waits |-> TRUE, interface |-> TRUE]) @@
  (h :> [kind |-> "http", name |-> TRUE, url |-> TRUE, timeout |-> FALSE,
         interface |-> TRUE])
MCMaxSteps == (s :> 2) @@ (d :> 1)
============================================================================
