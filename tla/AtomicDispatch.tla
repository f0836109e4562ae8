-------------------------- MODULE AtomicDispatch --------------------------
(***************************************************************************)
(* What the users of a GlobalConfig may rely on, with no mutex, no copy    *)
(* and no interleaving inside a dispatch: a Build is a fixed sequence of   *)
(* dispatches, each of which runs, at one instant, the list of hooks that  *)
(* is registered at that instant, each hook once and in registration       *)
(* order; named hooks stop at the first error, and nothing is dispatched   *)
(* after an error.  The scalar defaults of a template, too, are taken at   *)
(* one instant.  The registry may change between two of these instants in  *)
(* one Build, never inside one.                                            *)
(***************************************************************************)
EXTENDS BuildPlan

VARIABLES status, \* of each builder's Build
          job,    \* what it builds
          next,   \* the number of its next dispatch, 0 if it is not running
          built,  \* the models of its templates so far
          last    \* the last dispatch of this Build

vars == <<registry, status, job, next, built, last>>

NoDispatch == [list |-> "none", fns |-> << >>]

Init ==
  /\ RegistryInit
  /\ status = [b \in Builder |-> "idle"]
  /\ job = [b \in Builder |-> CHOOSE j \in Jobs : TRUE]
  /\ next = [b \in Builder |-> 0]
  /\ built = [b \in Builder |-> << >>]
  /\ last = [b \in Builder |-> NoDispatch]

(* The dispatches of a job: two for each template, anonymous then named,   *)
(* and one or two for the object.                                          *)
Plan(j) ==
  [k \in 1 .. 2 * Len(j.templates) + (IF j.resource = "Workflow" THEN 2 ELSE 1)
     |-> [isNamed |-> k % 2 = 0,
          list |-> IF k <= 2 * Len(j.templates) THEN "template"
                   ELSE IF k % 2 = 0 THEN "workflow"
                   ELSE ObjectList(j.resource)]]

Reconfigure(o) == Update(o) /\ UNCHANGED <<status, job, next, built, last>>

Start(b, j) ==
  /\ status[b] # "running"
  /\ status' = [status EXCEPT ![b] = "running"]
  /\ job' = [job EXCEPT ![b] = j]
  /\ next' = [next EXCEPT ![b] = 1]
  /\ built' = [built EXCEPT ![b] = << >>]
  /\ last' = [last EXCEPT ![b] = NoDispatch]
  /\ UNCHANGED registry

Stop(b, s) ==
  /\ status' = [status EXCEPT ![b] = s]
  /\ next' = [next EXCEPT ![b] = 0]

(* The number of templates that are built when dispatch k takes place.     *)
BuiltBefore(j, k) ==
  IF k <= 2 * Len(j.templates) THEN (k + 1) \div 2 ELSE Len(j.templates)

(* The next template, with all its missing scalars filled in at once; a    *)
(* container needs an image.                                               *)
Fill(b) ==
  LET t == job[b].templates[Len(built[b]) + 1]
      fields == ApplyTemplateDefaults(t.fields, t.container)
  IN  /\ status[b] = "running"
      /\ Len(built[b]) + 1 = BuiltBefore(job[b], next[b])
      /\ t.container => fields["image"] # Unset
      /\ built' = [built EXCEPT ![b] = Append(@, fields)]
      /\ UNCHANGED <<registry, status, job, next, last>>

(* The Build finds an error of its own, before a pair of dispatches.       *)
Abort(b) ==
  /\ status[b] = "running"
  /\ next[b] % 2 = 1
  /\ Stop(b, "failed")
  /\ UNCHANGED <<registry, job, built, last>>

Dispatch(b) ==
  LET plan == Plan(job[b])
      d    == plan[next[b]]
      fns  == IF d.isNamed THEN Fired(Fns(named[d.list])) ELSE anon[d.list]
  IN  /\ status[b] = "running"
      /\ Len(built[b]) = BuiltBefore(job[b], next[b])
      /\ last' = [last EXCEPT ![b] = [list |-> d.list, fns |-> fns]]
      /\ CASE d.isNamed /\ Fails(fns)     -> Stop(b, "failed")
           [] ~(d.isNamed /\ Fails(fns)) /\ next[b] = Len(plan)
                                          -> Stop(b, "done")
           [] OTHER -> /\ next' = [next EXCEPT ![b] = @ + 1]
                       /\ UNCHANGED status
      /\ UNCHANGED <<registry, job, built>>

Next ==
  \/ \E o \in Ops : Reconfigure(o)
  \/ \E b \in Builder :
       \/ \E j \in Jobs : Start(b, j)
       \/ Fill(b)
       \/ Abort(b)
       \/ Dispatch(b)

Spec == Init /\ [][Next]_vars
============================================================================
