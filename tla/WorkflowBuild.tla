--------------------------- MODULE WorkflowBuild ---------------------------
(***************************************************************************)
(* Build() of a Workflow, WorkflowTemplate, ClusterWorkflowTemplate or     *)
(* CronWorkflow, run by several goroutines against one GlobalConfig that   *)
(* other goroutines (and the hooks) change at the same time.               *)
(*                                                                         *)
(* For each template: BuildTemplate, ApplyTemplateDefaults,                *)
(* validateBuiltTemplate, the anonymous template hooks, the named template *)
(* hooks.  Then the anonymous hooks of the object and, for a Workflow, its *)
(* named hooks.  Each of these takes the read lock anew.  Anonymous hooks  *)
(* run under it; named hooks run on a copy of the list, without it.        *)
(***************************************************************************)
EXTENDS GlobalConfig, BuildPlan

ASSUME BuilderAssumption == Builder \subseteq Proc

VARIABLES pc,    \* where each builder is
          job,   \* what it builds
          tpl,   \* the index of its current template
          built, \* the models of its templates so far
          todo,  \* the hooks the current dispatch has still to run
          ran,   \* the hooks it has run
          last   \* history: the last dispatch that ended, and what it ran

vars == <<configVars, pc, job, tpl, built, todo, ran, last>>

(* idle; then, for a template, its build and its defaults; then, for a     *)
(* template or for the whole object, the dispatch of anonymous hooks       *)
(* (anonList: RLock called; anonRun: list read) and of named hooks         *)
(* (namedList: RLock called; namedRun: list copied).                       *)
Location == {"idle", "build", "defaults", "overlay", "anon", "anonList",
             "anonRun", "named", "namedList", "namedRun", "done", "failed"}

InProgress(b) == pc[b] \notin {"idle", "done", "failed"}

Templates(b) == job[b].templates
ForTemplate(b) == tpl[b] <= Len(Templates(b))
CurrentTemplate(b) == Templates(b)[tpl[b]]

AnonListOf(b) ==
  IF ForTemplate(b) THEN "template" ELSE ObjectList(job[b].resource)
NamedListOf(b) == IF ForTemplate(b) THEN "template" ELSE "workflow"

(* Only a Workflow has named hooks of its own.                             *)
HasNamedHooks(b) == ForTemplate(b) \/ job[b].resource = "Workflow"

NoDispatch == [list |-> "none", fns |-> << >>]

Init ==
  /\ ConfigInit
  /\ pc = [b \in Builder |-> "idle"]
  /\ job = [b \in Builder |-> CHOOSE j \in Jobs : TRUE]
  /\ tpl = [b \in Builder |-> 1]
  /\ built = [b \in Builder |-> << >>]
  /\ todo = [b \in Builder |-> << >>]
  /\ ran = [b \in Builder |-> << >>]
  /\ last = [b \in Builder |-> NoDispatch]

Goto(b, l) == pc' = [pc EXCEPT ![b] = l]

----------------------------------------------------------------------------
(* The templates.                                                          *)

(* A goroutine calls Build, again perhaps on the same object, one that     *)
(* validate lets pass: Build of another fails before it touches anything.  *)
Start(b, j) ==
  /\ ~InProgress(b)
  /\ op[b] = NoOp
  /\ Goto(b, "build")
  /\ job' = [job EXCEPT ![b] = j]
  /\ tpl' = [tpl EXCEPT ![b] = 1]
  /\ built' = [built EXCEPT ![b] = << >>]
  /\ ran' = [ran EXCEPT ![b] = << >>]
  /\ last' = [last EXCEPT ![b] = NoDispatch]
  /\ UNCHANGED <<configVars, todo>>

(* t.BuildTemplate(), or, after the last template, the arguments, volumes  *)
(* and claims of the object.                                               *)
BuildTemplate(b) ==
  /\ pc[b] = "build"
  /\ Goto(b, CASE ForTemplate(b) /\ CurrentTemplate(b).accepted -> "defaults"
               [] ~ForTemplate(b) /\ job[b].rest -> "anon"
               [] OTHER -> "failed")
  /\ UNCHANGED <<configVars, job, tpl, built, todo, ran, last>>

CallDefaults(b) ==
  /\ pc[b] = "defaults"
  /\ RLock(b)
  /\ Goto(b, "overlay")
  /\ UNCHANGED <<registry, op, job, tpl, built, todo, ran, last>>

(* Deviation for BuiltContainersHaveImages: the image is not looked at.    *)
ValidateUnitsOnly(t, fields) == t.container => t.units

(* validateBuiltTemplate: once the defaults are in, a container needs an   *)
(* image and well-formed quantities.                                       *)
ValidateBuiltTemplate(t, fields) ==
  t.container => fields["image"] # Unset /\ t.units

(* Deviation for DispatchesAreAtomic: the getter's fallback is applied.    *)
ApplyDefaultsAndFallback(b) ==
  LET t == CurrentTemplate(b)
      fields == ApplyTemplateDefaults(t.fields, t.container)
      filled == IF t.container /\ fields["image"] = Unset
                THEN [fields EXCEPT !["image"] = GetImage] ELSE fields
      ok == ValidateBuiltTemplate(t, filled)
  IN  /\ pc[b] = "overlay"
      /\ RUnlock(b)
      /\ built' = [built EXCEPT ![b] = IF ok THEN Append(@, filled) ELSE @]
      /\ Goto(b, IF ok THEN "anon" ELSE "failed")
      /\ UNCHANGED <<registry, op, job, tpl, todo, ran, last>>

ApplyDefaults(b) ==
  LET t == CurrentTemplate(b)
      fields == ApplyTemplateDefaults(t.fields, t.container)
      ok == ValidateBuiltTemplate(t, fields)
  IN  /\ pc[b] = "overlay"
      /\ RUnlock(b)
      /\ built' = [built EXCEPT ![b] = IF ok THEN Append(@, fields) ELSE @]
      /\ Goto(b, IF ok THEN "anon" ELSE "failed")
      /\ UNCHANGED <<registry, op, job, tpl, todo, ran, last>>

(* What follows the hooks of one template: the next template; or of the    *)
(* object: Build returns.                                                  *)
Finish(b) ==
  IF ForTemplate(b)
  THEN Goto(b, "build") /\ tpl' = [tpl EXCEPT ![b] = @ + 1]
  ELSE Goto(b, "done") /\ UNCHANGED tpl

----------------------------------------------------------------------------
(* DispatchTemplateHooks and its three siblings: the read lock is held     *)
(* while every hook of the list runs.                                      *)

CallAnon(b) ==
  /\ pc[b] = "anon"
  /\ RLock(b)
  /\ Goto(b, "anonList")
  /\ UNCHANGED <<registry, op, job, tpl, built, todo, ran, last>>

RangeAnon(b) ==
  /\ pc[b] = "anonList"
  /\ b \notin waiting
  /\ todo' = [todo EXCEPT ![b] = anon[AnonListOf(b)]]
  /\ ran' = [ran EXCEPT ![b] = << >>]
  /\ Goto(b, "anonRun")
  /\ UNCHANGED <<configVars, job, tpl, built, last>>

(* hook(tpl): it may call the configuration; it returns when op is NoOp.   *)
RunAnonHook(b) ==
  /\ pc[b] = "anonRun"
  /\ op[b] = NoOp
  /\ todo[b] # << >>
  /\ ran' = [ran EXCEPT ![b] = Append(@, Head(todo[b]))]
  /\ todo' = [todo EXCEPT ![b] = Tail(@)]
  /\ op' = [op EXCEPT ![b] = HookCall[Head(todo[b])]]
  /\ UNCHANGED <<lockVars, registry, pc, job, tpl, built, last>>

(* Deviation for BuildReturns: the read lock is not released.              *)
EndAnonLocked(b) ==
  /\ pc[b] = "anonRun"
  /\ op[b] = NoOp
  /\ todo[b] = << >>
  /\ last' = [last EXCEPT ![b] = [list |-> AnonListOf(b), fns |-> ran[b]]]
  /\ IF HasNamedHooks(b) THEN Goto(b, "named") /\ UNCHANGED tpl ELSE Finish(b)
  /\ UNCHANGED <<configVars, job, built, todo, ran>>

EndAnon(b) ==
  /\ pc[b] = "anonRun"
  /\ op[b] = NoOp
  /\ todo[b] = << >>
  /\ RUnlock(b)
  /\ last' = [last EXCEPT ![b] = [list |-> AnonListOf(b), fns |-> ran[b]]]
  /\ IF HasNamedHooks(b) THEN Goto(b, "named") /\ UNCHANGED tpl ELSE Finish(b)
  /\ UNCHANGED <<registry, op, job, built, todo, ran>>

----------------------------------------------------------------------------
(* DispatchNamedTemplateHooks, DispatchNamedWorkflowHooks: the list is     *)
(* copied under the read lock, and the copy is run without it.             *)

CallNamed(b) ==
  /\ pc[b] = "named"
  /\ RLock(b)
  /\ Goto(b, "namedList")
  /\ UNCHANGED <<registry, op, job, tpl, built, todo, ran, last>>

CopyTo(b) ==
  /\ todo' = [todo EXCEPT ![b] = Fns(named[NamedListOf(b)])]
  /\ ran' = [ran EXCEPT ![b] = << >>]
  /\ Goto(b, "namedRun")

(* Deviation for TypeOK: RUnlock is called, and deferred as well.          *)
CopyNamedUnlockTwice(b) ==
  /\ pc[b] = "namedList"
  /\ b \notin waiting
  /\ holding' = [holding EXCEPT ![b] = @ - 2]
  /\ CopyTo(b)
  /\ UNCHANGED <<announced, waiting, registry, op, job, tpl, built, last>>

(* Deviation for OnlyAnonymousHooksDeadlock, OperationsReturn: the lock is *)
(* kept while the named hooks run.                                         *)
CopyNamedLocked(b) ==
  /\ pc[b] = "namedList"
  /\ b \notin waiting
  /\ CopyTo(b)
  /\ UNCHANGED <<configVars, job, tpl, built, last>>

CopyNamed(b) ==
  /\ pc[b] = "namedList"
  /\ RUnlock(b)
  /\ CopyTo(b)
  /\ UNCHANGED <<registry, op, job, tpl, built, last>>

(* Deviation for DispatchesAreAtomic: an error does not end the dispatch.  *)
RunNamedHookToTheEnd(b) ==
  /\ pc[b] = "namedRun"
  /\ op[b] = NoOp
  /\ todo[b] # << >>
  /\ ran' = [ran EXCEPT ![b] = Append(@, Head(todo[b]))]
  /\ todo' = [todo EXCEPT ![b] = Tail(@)]
  /\ op' = [op EXCEPT ![b] = HookCall[Head(todo[b])]]
  /\ UNCHANGED <<lockVars, registry, pc, job, tpl, built, last>>

(* h.Fn(t): the first error ends the dispatch.                             *)
RunNamedHook(b) ==
  /\ pc[b] = "namedRun"
  /\ op[b] = NoOp
  /\ todo[b] # << >>
  /\ ran' = [ran EXCEPT ![b] = Append(@, Head(todo[b]))]
  /\ todo' = [todo EXCEPT ![b] =
                IF Head(@) \in Failing THEN << >> ELSE Tail(@)]
  /\ op' = [op EXCEPT ![b] = HookCall[Head(todo[b])]]
  /\ UNCHANGED <<lockVars, registry, pc, job, tpl, built, last>>

(* An error aborts the Build.                                              *)
EndNamed(b) ==
  /\ pc[b] = "namedRun"
  /\ op[b] = NoOp
  /\ todo[b] = << >>
  /\ last' = [last EXCEPT ![b] = [list |-> NamedListOf(b), fns |-> ran[b]]]
  /\ IF Fails(ran[b]) THEN Goto(b, "failed") /\ UNCHANGED tpl ELSE Finish(b)
  /\ UNCHANGED <<configVars, job, built, todo, ran>>

----------------------------------------------------------------------------
BuildStep(b) ==
  \/ BuildTemplate(b)
  \/ CallDefaults(b)
  \/ ApplyDefaults(b)
  \/ CallAnon(b)
  \/ RangeAnon(b)
  \/ RunAnonHook(b)
  \/ EndAnon(b)
  \/ CallNamed(b)
  \/ CopyNamed(b)
  \/ RunNamedHook(b)
  \/ EndNamed(b)

buildVars == <<pc, job, tpl, built, todo, ran, last>>

ConfigStep(p) == UNCHANGED buildVars /\ (Lock(p) \/ OpStep(p))

(* The goroutines that do not build configure, at any time.                *)
Configure(p, o) == UNCHANGED buildVars /\ Call(p, o)

Next ==
  \/ \E b \in Builder, j \in Jobs : Start(b, j)
  \/ \E b \in Builder : BuildStep(b)
  \/ \E p \in Proc : ConfigStep(p)
  \/ \E p \in Proc \ Builder, o \in Ops : Configure(p, o)

Spec == Init /\ [][Next]_vars

----------------------------------------------------------------------------
(* Properties.                                                             *)

TypeOK ==
  /\ ConfigTypeOK
  /\ pc \in [Builder -> Location]
  /\ job \in [Builder -> Jobs]
  /\ tpl \in [Builder -> Nat \ {0}]
  /\ built \in [Builder -> Seq(Scalars)]
  /\ todo \in [Builder -> Seq(AnonHook \union NamedHook)]
  /\ ran \in [Builder -> Seq(AnonHook \union NamedHook)]
  /\ last \in [Builder -> [list : AnonList \union NamedList \union {"none"},
                           fns : Seq(AnonHook \union NamedHook)]]

InSection(p) ==
  /\ p \in Builder
  /\ \/ pc[p] \in {"overlay", "anonList", "namedList"} /\ p \notin waiting
     \/ pc[p] = "anonRun"
IsReading(p) == op[p] = Reading /\ p \notin waiting

ReadHolds(p) == (IF InSection(p) THEN 1 ELSE 0) + (IF IsReading(p) THEN 1 ELSE 0)

(* Read locks are held exactly by the readers that are past RLock and not  *)
(* past RUnlock, once for a section of Build and once for a getter called  *)
(* from a hook: no path through Build, failing ones included, leaks one.   *)
LocksAreAccountedFor == \A p \in Proc : holding[p] = ReadHolds(p)

StableFor(b) ==
  pc[b] = "anonRun" => ran[b] \o todo[b] = anon[AnonListOf(b)]

(* While anonymous hooks run, the list they were read from does not        *)
(* change: what has run and what will run is the registered list, although *)
(* other goroutines, and the hooks themselves, try to register and clear.  *)
StableWhileDispatched == \A b \in Builder : StableFor(b)

(* A Build that succeeds has put every template through the pipeline, and  *)
(* each container or script has an image, its own or a default, although   *)
(* the default image may be set and unset while the Build runs.            *)
BuiltContainersHaveImages ==
  \A b \in Builder : pc[b] = "done" =>
    /\ Len(built[b]) = Len(Templates(b))
    /\ \A i \in DOMAIN built[b] :
         Templates(b)[i].container => built[b][i]["image"] # Unset

(* A goroutine that has work to do cannot go on exactly when it waits for  *)
(* the lock, and when all of them wait one is in an anonymous hook that    *)
(* called the configuration: with hooks that do not, and named hooks       *)
(* whatever they call, there is no deadlock.                               *)
Working(p) == op[p] # NoOp \/ (p \in Builder /\ InProgress(p))
CanStep(p) ==
  \/ ENABLED ConfigStep(p)
  \/ p \in Builder /\ ENABLED BuildStep(p)
Blocked(p) ==
  \/ p \in waiting
  \/ op[p].do \in Mutator /\ announced # NoProc /\ ~Exclusive(p)

OnlyAnonymousHooksBlock ==
  (\E p \in Proc : Working(p)) /\ (\A p \in Proc : Working(p) => Blocked(p)) =>
    \E b \in Builder : pc[b] = "anonRun" /\ op[b] # NoOp

OnlyAnonymousHooksDeadlock ==
  /\ \A p \in Proc : Working(p) => (Blocked(p) <=> ~CanStep(p))
  /\ OnlyAnonymousHooksBlock

----------------------------------------------------------------------------
(* The inductive invariant behind the safety properties: where a builder   *)
(* can be with respect to its templates, its hooks and the lock, and how   *)
(* many of its templates are built there.                                  *)
InPlace(b) ==
  /\ pc[b] \in {"defaults", "overlay"} => ForTemplate(b)
  /\ pc[b] \in {"named", "namedList", "namedRun"} => HasNamedHooks(b)
  /\ pc[b] = "done" => ~ForTemplate(b)
  /\ op[b] # NoOp => pc[b] \in {"anonRun", "namedRun"}

WaitsInPlace(p) ==
  \/ op[p] = Reading
  \/ p \in Builder /\ pc[p] \in {"overlay", "anonList", "namedList"}

PlaceOK ==
  /\ \A b \in Builder : InPlace(b)
  /\ \A p \in waiting : WaitsInPlace(p)

AfterFill == {"anon", "anonList", "anonRun", "named", "namedList", "namedRun"}

BuiltSoFar(b) ==
  pc[b] \notin {"idle", "failed"} =>
    /\ tpl[b] <= Len(Templates(b)) + 1
    /\ Len(built[b]) = IF ForTemplate(b) /\ pc[b] \in AfterFill
                       THEN tpl[b] ELSE tpl[b] - 1
    /\ \A i \in DOMAIN built[b] :
         Templates(b)[i].container => built[b][i]["image"] # Unset

BuiltOK == \A b \in Builder : BuiltSoFar(b)

(* Readers wait for a writer, and who announced itself is one.             *)
QueueOK ==
  /\ waiting # {} => announced # NoProc
  /\ announced # NoProc => op[announced].do \in Mutator

Inv ==
  /\ TypeOK
  /\ PlaceOK
  /\ LocksAreAccountedFor
  /\ StableWhileDispatched
  /\ BuiltOK
  /\ UniqueHookNames

(* The promise: every dispatch is atomic (AtomicDispatch).  A dispatch of  *)
(* anonymous hooks takes place when it ends, one of named hooks when the   *)
(* list is copied: from then on what it will run, and how it ends, is      *)
(* known.                                                                  *)
Committed(b) == pc[b] = "namedRun"
Firing(b) == ran[b] \o Fired(todo[b])

AbstractStatus(b) ==
  CASE pc[b] \in {"idle", "done", "failed"}      -> pc[b]
    [] Committed(b) /\ Fails(Firing(b))          -> "failed"
    [] Committed(b) /\ ~Fails(Firing(b)) /\ ~ForTemplate(b) -> "done"
    [] OTHER                                     -> "running"

AbstractNext(b) ==
  IF AbstractStatus(b) # "running" THEN 0
  ELSE 2 * tpl[b] - (IF Committed(b) THEN -1
                     ELSE IF pc[b] \in {"named", "namedList"} THEN 0 ELSE 1)

AbstractLast(b) ==
  IF Committed(b) THEN [list |-> NamedListOf(b), fns |-> Firing(b)]
                  ELSE last[b]

Atomic == INSTANCE AtomicDispatch WITH
            status <- [b \in Builder |-> AbstractStatus(b)],
            next   <- [b \in Builder |-> AbstractNext(b)],
            last   <- [b \in Builder |-> AbstractLast(b)]

DispatchesAreAtomic == Atomic!Spec

----------------------------------------------------------------------------
(* Fairness: the Go scheduler runs every goroutine that can run, hooks     *)
(* return, and sync.Mutex (the writers' half of RWMutex) is not won by     *)
(* others for ever (its starvation mode).  Nobody has to call anything.    *)
Fairness ==
  /\ \A b \in Builder : WF_vars(BuildStep(b))
  /\ \A p \in Proc : WF_vars(UNCHANGED buildVars /\ OpStep(p))
  /\ \A p \in Proc : SF_vars(UNCHANGED buildVars /\ Lock(p))

FairSpec == Spec /\ Fairness

(* Every Build returns, however often others write the configuration (a    *)
(* reader is let in when the writer it waited for leaves).                 *)
BuildReturns == \A b \in Builder : InProgress(b) ~> ~InProgress(b)

(* Every operation on the configuration returns, however many Builds keep  *)
(* reading it (a writer that has announced itself keeps new readers out).  *)
OperationsReturn == \A p \in Proc : op[p] # NoOp ~> op[p] = NoOp
============================================================================
