----------------------------- MODULE Templates -----------------------------
(***************************************************************************)
(* The template types and what their BuildTemplate methods make of them.   *)
(* A string field that must not be empty is a flag: whether it is set.     *)
(* interface says whether inputs, outputs and artifacts build; units       *)
(* whether resource quantities are well-formed; image whether every        *)
(* container of the template has one.                                      *)
(***************************************************************************)

Kind == {"container", "script", "containerSet", "resource", "suspend", "http",
         "steps", "dag"}

Container == [kind : {"container"}, name : BOOLEAN, image : BOOLEAN,
              units : BOOLEAN, interface : BOOLEAN]

Script == [kind : {"script"}, name : BOOLEAN, source : BOOLEAN,
           image : BOOLEAN, units : BOOLEAN, interface : BOOLEAN]

(* waits: whether a container of the set has Dependencies.                 *)
ContainerSet == [kind : {"containerSet"}, name : BOOLEAN,
                 containers : BOOLEAN, image : BOOLEAN, waits : BOOLEAN,
                 interface : BOOLEAN]

ResourceTemplate == [kind : {"resource"}, name : BOOLEAN, action : BOOLEAN,
                     manifest : BOOLEAN, interface : BOOLEAN]

Suspend == [kind : {"suspend"}, name : BOOLEAN, interface : BOOLEAN]

(* timeout: whether the Timeout is empty or a duration.                    *)
HTTPTemplate == [kind : {"http"}, name : BOOLEAN, url : BOOLEAN,
                 timeout : BOOLEAN, interface : BOOLEAN]

(* Steps and DAG, the templates that may hold others.                      *)
Composite == [kind : {"steps", "dag"}, name : BOOLEAN, interface : BOOLEAN]

Templatable ==
  Container \union Script \union ContainerSet \union ResourceTemplate
    \union Suspend \union HTTPTemplate \union Composite

----------------------------------------------------------------------------
ContainerBuilds(t)    == t.name /\ t.interface
ScriptBuilds(t)       == t.name /\ t.source /\ t.interface
ContainerSetBuilds(t) == t.name /\ t.containers /\ t.interface
ResourceBuilds(t)     == t.name /\ t.action /\ t.manifest /\ t.interface
SuspendBuilds(t)      == t.name /\ t.interface
HTTPBuilds(t)         == t.name /\ t.url /\ t.interface /\ t.timeout

(* Whether BuildTemplate accepts t; for a composite, whether the template  *)
(* itself is in order, whatever its inline templates are.                  *)
Builds(t) ==
  CASE t.kind = "container"    -> ContainerBuilds(t)
    [] t.kind = "script"       -> ScriptBuilds(t)
    [] t.kind = "containerSet" -> ContainerSetBuilds(t)
    [] t.kind = "resource"     -> ResourceBuilds(t)
    [] t.kind = "suspend"      -> SuspendBuilds(t)
    [] t.kind = "http"         -> HTTPBuilds(t)
    [] OTHER                   -> t.name /\ t.interface

(* The kinds whose image and quantities the pipeline looks at.             *)
Pod == {"container", "script"}

(* ContainerNode.buildModel copies every field but Dependencies.           *)
NodesWait(t) == FALSE

TemplateModel ==
  [kind : Kind, bare : BOOLEAN, units : BOOLEAN, waits : BOOLEAN]

(* bare: whether a container of the model has no image; waits: whether one *)
(* waits for another.                                                      *)
Model(t) ==
  [kind  |-> t.kind,
   bare  |-> t.kind \in Pod \union {"containerSet"} /\ ~t.image,
   units |-> t.kind \in Pod => t.units,
   waits |-> t.kind = "containerSet" /\ NodesWait(t)]
============================================================================
