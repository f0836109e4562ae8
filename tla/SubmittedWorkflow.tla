------------------------- MODULE SubmittedWorkflow -------------------------
(***************************************************************************)
(* A workflow from the program that composes and builds it to the cluster  *)
(* that runs it and the program that asks how it ended.                    *)
(*                                                                         *)
(* The program composes a condition for its tasks, builds the object, once *)
(* or several times under different configurations, and submits one of the *)
(* models.  The server checks it; the controller makes a pod for each task *)
(* (again, when the retry strategy says so), the scheduler binds it to a   *)
(* node, the kubelet attaches its volumes, runs it and ends it.  All of    *)
(* them take steps at any time; the cluster is external and modelled as    *)
(* far as what the library writes steers it.                               *)
(***************************************************************************)
EXTENDS WorkflowModel, NodeStatuses, Expressions, FiniteSets

CONSTANTS Job,       \* what programs submit: an object and its surroundings
          Task,      \* the tasks of a workflow; each has one template
          Config,    \* configurations
          HookOf,    \* what the workflow hook of each configuration does
          Node,      \* the nodes of the cluster
          Capacity,  \* how many live pods fit on each node
          FastNode,  \* the nodes that a pinned workflow may use
          NoNode,
          Connective,\* conditions are composed with these expressions,
          MaxTokens, \* BOUND: up to this length,
          MaxBuilds  \* BOUND: and an object is built this often

Hook == {"none", "rename", "pin"}

(* The ends of a pod: its phase, and the exit code of its main container   *)
(* if there is one.  A daemon sidecar that is killed fails a pod whose     *)
(* work is done.                                                           *)
Success == [phase |-> "Succeeded", exit |-> <<"0">>]
SidecarFailure == [phase |-> "Failed", exit |-> <<"0">>]
Failure == [phase |-> "Failed", exit |-> <<"1">>]
OutOfMemory == [phase |-> "Failed", exit |-> <<"137">>]
Evicted == [phase |-> "Failed", exit |-> Nil]
Lost == [phase |-> "Error", exit |-> Nil]
End == {Success, SidecarFailure, Failure, OutOfMemory, Evicted, Lost}

ASSUME HookAssumption == HookOf \in [Config -> Hook]
ASSUME NodeAssumption == NoNode \notin Node
ASSUME BoundAssumption == MaxBuilds \in Nat

(* The program makes its expressions by calls of the builder.              *)
ASSUME ConnectiveAssumption ==
  \A e \in Connective :
    /\ Len(e.repr) \in Nat
    /\ \/ \E x \in Word : e = Operand(x)
       \/ \E a, b, c \in {d \in Connective : Len(d.repr) < Len(e.repr)} :
            e \in Calls(a, b, c)

(* Quantities are numbers, only projected volumes have sources.  An object *)
(* has no selector, or a map of its own; a strategy that is said to be     *)
(* made by NewRetryOnFailure is.                                           *)
ASSUME JobAssumption ==
  \A j \in Job :
    /\ j.tasks \subseteq Task
    /\ \A i \in DOMAIN j.object.volumes :
         j.object.volumes[i].kind # "projected" => j.object.volumes[i].sources = {}
    /\ \A r \in Resource : \A q \in {j.requests[r], j.limits[r]} :
         q # Nil => q[1].thousandths \in Nat
    /\ j.object.selector \in {Nil, Ptr(0)}
    /\ j.retryOnFailure # Nil =>
         /\ j.retryOnFailure[1] \in Nat
         /\ j.object.retry = Ptr(NewRetryOnFailure(j.retryOnFailure[1]))

VARIABLES stage,  \* where the workflow is
          job,    \* what the program submits
          when,   \* the condition composed so far
          built,  \* the builds: configuration and model, or nil for an error
          pinned, \* selector maps that pin: 0 the object's, i the i-th build's
          wf,     \* what the server has
          pod,    \* the live pod of each task
          tried,  \* the ended pods of each task that the controller recorded
          result, \* the outcome of each task
          worked, \* history: tasks of which a main container ended with zero
          cut     \* whether the workflow was cut short

clusterVars == <<pod, tried, result, worked, cut>>
vars == <<stage, job, when, built, pinned, wf, clusterVars>>

Stage == {"composing", "building", "running", "over", "refused"}

object == job.object

NoPod == [at |-> "none", node |-> NoNode]

Init ==
  /\ job \in Job
  /\ stage = IF job.conditional THEN "composing" ELSE "building"
  /\ \E x \in Word : when = Operand(x)
  /\ built = << >>
  /\ pinned = [i \in 0 .. MaxBuilds |-> FALSE]
  /\ wf = Nil
  /\ pod = [t \in Task |-> NoPod]
  /\ tried = [t \in Task |-> << >>]
  /\ result = [t \in Task |-> "todo"]
  /\ worked = {}
  /\ cut = FALSE

----------------------------------------------------------------------------
(* The program.                                                            *)

Compose ==
  /\ stage = "composing"
  /\ \E b, c \in Connective : \E e \in Calls(when, b, c) :
       Len(e.repr) <= MaxTokens /\ when' = e
  /\ UNCHANGED <<stage, job, built, pinned, wf, clusterVars>>

(* The hooks of a configuration get the model by reference.  A hook that   *)
(* pins adds a key to the node selector, and makes the map if there is     *)
(* none.                                                                   *)
Hooked(m, g, i) ==
  [m EXCEPT !.name = IF HookOf[g] = "rename" THEN "renamed" ELSE @,
            !.selector = IF HookOf[g] = "pin" /\ @ = Nil THEN Ptr(i) ELSE @]

(* What the i-th build, under configuration g, makes of the object.        *)
Made(g, i) == Hooked(Translation(object), g, i)

(* Deviation for HooksStayHome: Build makes the map, in the object.        *)
BuildWithMap(g, ok) ==
  LET i == Len(built) + 1
      accepted == Accepts(object, ok)
      m == Hooked(Translation([object EXCEPT !.selector = Ptr(0)]), g, i)
  IN  /\ stage \in {"composing", "building"}
      /\ i <= MaxBuilds
      /\ g \in job.configs
      /\ ok \in ResourceVerdicts(job.requests, job.limits)
      /\ stage' = "building"
      /\ built' = Append(built, [config |-> g,
                                 model |-> IF accepted THEN Ptr(m) ELSE Nil])
      /\ pinned' = IF accepted /\ HookOf[g] = "pin"
                   THEN [pinned EXCEPT ![m.selector[1]] = TRUE] ELSE pinned
      /\ UNCHANGED <<job, when, wf, clusterVars>>

Build(g, ok) ==
  LET i == Len(built) + 1
      accepted == Accepts(object, ok)
      m == Made(g, i)
  IN  /\ stage \in {"composing", "building"}
      /\ i <= MaxBuilds
      /\ g \in job.configs
      /\ ok \in ResourceVerdicts(job.requests, job.limits)
      /\ stage' = "building"
      /\ built' = Append(built, [config |-> g,
                                 model |-> IF accepted THEN Ptr(m) ELSE Nil])
      /\ pinned' = IF accepted /\ HookOf[g] = "pin"
                   THEN [pinned EXCEPT ![m.selector[1]] = TRUE] ELSE pinned
      /\ UNCHANGED <<job, when, wf, clusterVars>>

----------------------------------------------------------------------------
(* The server.                                                             *)

Names(s) == {s[i].name : i \in DOMAIN s}
OneName(s) == \A i, j \in DOMAIN s : s[i].name = s[j].name => i = j
Mounted(t) == {BuildVolumeMount(v) : v \in job.mounts[t]}

MountsResolve(w) ==
  /\ OneName(w.volumes) /\ OneName(w.claims)
  /\ Names(w.volumes) \intersect Names(w.claims) = {}
  /\ \A t \in job.tasks : Mounted(t) \subseteq Names(w.volumes) \union Names(w.claims)

(* What the server refuses: a volume name twice, a mount without a volume, *)
(* an argument without a value, a request above its limit.                 *)
Admitted(m) ==
  /\ MountsResolve(m)
  /\ \A i \in DOMAIN m.arguments.parameters : m.arguments.parameters[i].value
  /\ \A i \in DOMAIN m.volumes : \A s \in m.volumes[i].sources :
       Cardinality(s.set) = 1
  /\ \A r \in Resource : job.requests[r] # Nil /\ job.limits[r] # Nil =>
       Worth(r, job.requests[r][1]) <= Worth(r, job.limits[r][1])

(* Submission writes the model out: what its maps hold now is what counts. *)
(* A workflow without a name gets one from its prefix.                     *)
Submit(i) ==
  LET m == built[i].model[1]
  IN  /\ stage = "building"
      /\ built[i].model # Nil
      /\ IF Admitted(m)
         THEN /\ stage' = "running"
              /\ wf' = Ptr([name     |-> IF m.name # "" THEN m.name ELSE "generated",
                            build    |-> i,
                            affinity |-> m.affinity,
                            pinned   |-> m.selector # Nil /\ pinned[m.selector[1]],
                            claims   |-> m.claims,
                            retry    |-> m.retry])
         ELSE stage' = "refused" /\ UNCHANGED wf
      /\ UNCHANGED <<job, when, built, pinned, clusterVars>>

----------------------------------------------------------------------------
(* The scheduler.  A template's own affinity takes the place of the        *)
(* workflow's.  All pods of the workflow carry its name as their label; a  *)
(* term wants a live pod with its label on the node, or, when there is no  *)
(* such pod at all, is satisfied by a pod that has the label itself.       *)

Live(t) == pod[t].at \in {"bound", "running"}
LiveOn(n) == {t \in Task : Live(t) /\ pod[t].node = n}

AffinityOf(t) ==
  IF job.templateAffinity[t] # Nil THEN job.templateAffinity[t] ELSE wf[1].affinity
Terms(t) == IF AffinityOf(t) = Nil THEN {} ELSE AffinityOf(t)[1]
LabelOf(term) == IF term = WorkflowName THEN wf[1].name ELSE term

Near(term, n) ==
  /\ LabelOf(term) = wf[1].name
  /\ LiveOn(n) # {} \/ \A t \in Task : ~Live(t)

Bind(t, n) ==
  /\ stage = "running"
  /\ pod[t].at = "pending"
  /\ Cardinality(LiveOn(n)) < Capacity[n]
  /\ wf[1].pinned => n \in FastNode
  /\ \A term \in Terms(t) : Near(term, n)
  /\ pod' = [pod EXCEPT ![t] = [at |-> "bound", node |-> n]]
  /\ UNCHANGED <<stage, job, when, built, pinned, wf, tried, result, worked, cut>>

----------------------------------------------------------------------------
(* The kubelet.  A claim that can be attached to one node only keeps a pod *)
(* from starting while pods run with it elsewhere.                         *)

Claims(t) ==
  {c \in {wf[1].claims[i] : i \in DOMAIN wf[1].claims} :
     c.name \in Mounted(t) /\ c.modes = {ReadWriteOnce}}
ShareClaim(t, u) == Claims(t) \intersect Claims(u) # {}

Attachable(t) ==
  \A u \in Task : pod[u].at = "running" /\ ShareClaim(t, u) =>
    pod[u].node = pod[t].node

Start(t) ==
  /\ stage = "running"
  /\ pod[t].at = "bound"
  /\ Attachable(t)
  /\ pod' = [pod EXCEPT ![t].at = "running"]
  /\ UNCHANGED <<stage, job, when, built, pinned, wf, tried, result, worked, cut>>

----------------------------------------------------------------------------
(* The controller.                                                         *)

Before(t) == {u \in job.tasks : <<u, t>> \in job.before}

Ready(t) ==
  /\ stage = "running"
  /\ t \in job.tasks
  /\ result[t] = "todo"
  /\ pod[t].at = "none"
  /\ \A u \in Before(t) : result[u] \in {"Succeeded", "Skipped"}

CreatePod(t) ==
  /\ Ready(t)
  /\ pod' = [pod EXCEPT ![t] = [at |-> "pending", node |-> NoNode]]
  /\ UNCHANGED <<stage, job, when, built, pinned, wf, tried, result, worked, cut>>

(* The condition of a task does not hold.                                  *)
Skip(t) ==
  /\ Ready(t)
  /\ job.conditional
  /\ tried[t] = << >>
  /\ result' = [result EXCEPT ![t] = "Skipped"]
  /\ UNCHANGED <<stage, job, when, built, pinned, wf, pod, tried, worked, cut>>

(* A task before it failed.                                                *)
Omit(t) ==
  /\ stage = "running"
  /\ t \in job.tasks
  /\ result[t] = "todo"
  /\ pod[t].at = "none"
  /\ \E u \in Before(t) : result[u] \in {"Failed", "Error", "Omitted"}
  /\ result' = [result EXCEPT ![t] = "Omitted"]
  /\ UNCHANGED <<stage, job, when, built, pinned, wf, pod, tried, worked, cut>>

(* Whether a task is tried again after its n-th pod ended as e; without a  *)
(* limit, as often as it ends so.                                          *)
Retries(e, n) ==
  /\ wf[1].retry # Nil
  /\ LET r == wf[1].retry[1] IN
       /\ r.limit # Nil => n <= r.limit[1]
       /\ \/ e.phase = "Failed" /\ r.policy # "OnError"
          \/ e.phase = "Error" /\ r.policy \in {"Always", "OnError"}
       /\ r.expression = NotOutOfMemory => e.exit # <<"137">>

(* A pod ends, and the controller records how.                             *)
Finish(t, e) ==
  /\ stage = "running"
  /\ pod[t].at = "running"
  /\ e \in job.ends
  /\ pod' = [pod EXCEPT ![t] = NoPod]
  /\ tried' = [tried EXCEPT ![t] = Append(@, e)]
  /\ result' = [result EXCEPT ![t] =
                  IF Retries(e, Len(tried[t]) + 1) THEN "todo" ELSE e.phase]
  /\ worked' = IF e.exit = <<"0">> THEN worked \union {t} ELSE worked
  /\ UNCHANGED <<stage, job, when, built, pinned, wf, cut>>

(* The deadline of the workflow, or somebody terminates it: live pods are  *)
(* killed, and nothing is known of their containers.                       *)
Cut ==
  /\ stage = "running"
  /\ job.deadline
  /\ stage' = "over"
  /\ cut' = TRUE
  /\ pod' = [t \in Task |-> NoPod]
  /\ tried' = [t \in Task |-> IF Live(t) THEN Append(tried[t], Evicted) ELSE tried[t]]
  /\ UNCHANGED <<job, when, built, pinned, wf, result, worked>>

Conclude ==
  /\ stage = "running"
  /\ \A t \in job.tasks : result[t] # "todo"
  /\ stage' = "over"
  /\ UNCHANGED <<job, when, built, pinned, wf, clusterVars>>

(* The status that the server answers with.                                *)
Phase ==
  IF stage # "over" THEN "Running"
  ELSE IF cut THEN "Failed"
  ELSE IF \E t \in job.tasks : result[t] = "Error" THEN "Error"
  ELSE IF \A t \in job.tasks : result[t] \in {"Succeeded", "Skipped"} THEN "Succeeded"
  ELSE "Failed"

EndedPods ==
  UNION {{[type |-> "Pod", exit |-> tried[t][i].exit] : i \in DOMAIN tried[t]} :
           t \in job.tasks}
OtherPods ==
  {[type |-> "Pod", exit |-> Nil] : t \in {u \in job.tasks : pod[u].at # "none"}}
NoPods ==
  {[type |-> "Skipped", exit |-> Nil] :
     t \in {u \in job.tasks : result[u] \in {"Skipped", "Omitted"}}}
StatusNodes ==
  {[type |-> "DAG", exit |-> Nil]} \union EndedPods \union OtherPods \union NoPods

Answer ==
  [status |-> IF stage \in {"running", "over"}
              THEN Ptr([phase |-> Phase, nodes |-> StatusNodes]) ELSE Nil]

----------------------------------------------------------------------------
Program ==
  \/ Compose
  \/ \E g \in Config, ok \in BOOLEAN : Build(g, ok)
  \/ \E i \in DOMAIN built : Submit(i)

Cluster ==
  \/ \E t \in Task : CreatePod(t) \/ Skip(t) \/ Omit(t) \/ Start(t)
  \/ \E t \in Task, n \in Node : Bind(t, n)
  \/ \E t \in Task, e \in End : Finish(t, e)
  \/ Conclude

Next == Program \/ Cluster \/ Cut

Spec == Init /\ [][Next]_vars

(* Fairness: the controller, the scheduler and the kubelets keep taking    *)
(* steps.  Nobody has to submit anything, and nothing has to be cut short. *)
FairSpec == Spec /\ WF_vars(Cluster)

----------------------------------------------------------------------------
(* Properties.                                                             *)

Submitted == stage \in {"running", "over"}
ModelOf(i) == built[i].model[1]
HookOfRun == HookOf[built[wf[1].build].config]

(* The default affinity is in force: nothing that the program wrote takes  *)
(* its place.                                                              *)
Protected ==
  /\ object.affinity = Nil
  /\ ~object.disableDefaultAffinity
  /\ \A t \in Task : job.templateAffinity[t] = Nil

(* With the default affinity in force, no pod is bound to a node while a   *)
(* claim that it shares is attached to another: the race for an RWO claim  *)
(* that affinity.go:29-37 is there to eliminate.                           *)
NoMultiAttach ==
  Submitted /\ Protected =>
    \A t \in Task : pod[t].at = "bound" => Attachable(t)

(* A workflow that runs comes to an end: its own affinity never keeps its  *)
(* pods from every node, whether it was named by the program or by the     *)
(* server, unless a hook renames what was named, or the program asked to   *)
(* be near something else (affinity.go:39-45).                             *)
Placeable ==
  /\ ~(HookOfRun = "rename" /\ object.name # "")
  /\ \A a \in {object.affinity} \union {job.templateAffinity[t] : t \in Task} :
       a # Nil => a[1] \subseteq {WorkflowName}

WorkflowsFinish == stage = "running" /\ Placeable ~> stage = "over"

(* When a workflow failed although all its pods are said to have exited    *)
(* with zero, the work of every task was done: the failure was a sidecar's *)
(* (status.go:29-30), unless the workflow was cut short or a task was      *)
(* omitted.  And such a failure is recognized if no pod was retried.       *)
FalseFailuresAreDetected ==
  LET verdict == AllPodNodesExitedZero(ParseStatus(Answer))
      ran == {t \in job.tasks : result[t] # "Skipped"}
      omitted == \E t \in job.tasks : result[t] = "Omitted"
  IN  stage = "over" /\ ParseWorkflowStatus(Phase) = Ptr("Failed") /\ ~cut /\ ~omitted =>
        /\ verdict => ran \subseteq worked
        /\ (ran \subseteq worked /\ \A t \in Task : Len(tried[t]) <= 1) => verdict

(* NewRetryOnFailure: at most limit + 1 pods of a task, and none after one *)
(* that ran out of memory or was lost (parameter.go:112-126).              *)
RetriesAreUseful ==
  job.retryOnFailure # Nil => \A t \in Task :
    /\ Len(tried[t]) <= job.retryOnFailure[1] + 1
    /\ \A i \in 1 .. Len(tried[t]) - 1 :
         tried[t][i] \notin {Success, OutOfMemory, Lost}
    /\ pod[t].at # "none" /\ tried[t] # << >> =>
         tried[t][Len(tried[t])] \notin {Success, OutOfMemory, Lost}

(* What the hooks of one configuration do to a model reaches that model    *)
(* only, however often the object was built before under another one, as   *)
(* long as the object had no map that they write to (config_helpers.go:20: *)
(* isolated configuration).                                                *)
HooksStayHome ==
  Submitted /\ object.selector = Nil => (wf[1].pinned <=> HookOfRun = "pin")

(* What Build accepts, the server admits, if the program has wired it up:  *)
(* quantities and projections are Build's to check, unique names, mounts   *)
(* and values are the program's.                                           *)
WiredUp ==
  /\ MountsResolve(object)
  /\ \A i \in DOMAIN object.arguments : object.arguments[i].value

ServerAgrees ==
  \A i \in DOMAIN built :
    built[i].model # Nil => (Admitted(ModelOf(i)) <=> WiredUp)

(* In a workflow that the server took, each mount of a declared volume is  *)
(* backed by that volume, and the volume by the object the program named,  *)
(* or, for a ConfigMap or a Secret of which it named none, by the one that *)
(* has the volume's name.                                                  *)
MountsFindTheirVolumes ==
  Submitted => \A i \in DOMAIN object.volumes :
    LET v == object.volumes[i]
        models == ModelOf(wf[1].build).volumes
    IN  \E j \in DOMAIN models :
          /\ models[j].name = BuildVolumeMount(v)
          /\ models[j].kind = v.kind
          /\ v.of # "" /\ v.kind # "pvc" => models[j].of = v.of
          /\ v.of = "" /\ v.kind \in {"configMap", "secret"} => models[j].of = v.name

(* A condition is read as it was composed exactly when every operand binds *)
(* tighter than the operator it was given to: otherwise the builder, which *)
(* writes no parentheses, has silently changed it.                         *)
ConditionsAsBuilt ==
  stage = "composing" => (Reads(when.repr) = when.meant <=> when.nested)

----------------------------------------------------------------------------
(* The inductive invariant behind the safety properties.                   *)

Models ==
  {Nil} \union UNION {{Ptr(Made(g, i)) : i \in 1 .. MaxBuilds} :
                       g \in {h \in Config : Accepts(object, TRUE)}}
Builds == [config : Config, model : Models]

Outcome == {"todo", "Succeeded", "Failed", "Error", "Skipped", "Omitted"}

TypeOK ==
  /\ stage \in Stage
  /\ job \in Job
  /\ built \in Seq(Builds)
  /\ pinned \in [0 .. MaxBuilds -> BOOLEAN]
  /\ pod \in [Task -> [at : {"none", "pending", "bound", "running"},
                      node : Node \union {NoNode}]]
  /\ tried \in [Task -> Seq(End)]
  /\ result \in [Task -> Outcome]
  /\ worked \subseteq Task
  /\ cut \in BOOLEAN

(* Every model is that of its own configuration and its own build; only    *)
(* the hooks of build i have pinned the map that build i made.             *)
BuildsOK ==
  /\ Len(built) <= MaxBuilds
  /\ \A i \in DOMAIN built : built[i].model # Nil =>
       /\ Accepts(object, TRUE)
       /\ TRUE \in ResourceVerdicts(job.requests, job.limits)
       /\ built[i].model = Ptr(Made(built[i].config, i))
  /\ object.selector = Nil => \A i \in 1 .. MaxBuilds :
       pinned[i] <=> /\ i \in DOMAIN built
                     /\ built[i].model # Nil
                     /\ HookOf[built[i].config] = "pin"

(* What runs is one of the builds.                                         *)
RunOK ==
  Submitted =>
    /\ wf # Nil
    /\ wf[1].build \in DOMAIN built
    /\ built[wf[1].build].model # Nil
    /\ LET m == ModelOf(wf[1].build) IN
         /\ wf[1].affinity = m.affinity
         /\ wf[1].claims = m.claims
         /\ wf[1].retry = m.retry
         /\ wf[1].pinned <=> m.selector # Nil /\ pinned[m.selector[1]]

(* There are pods of unfinished tasks only, and while the workflow runs.   *)
PodsOK ==
  /\ \A t \in Task : pod[t].at # "none" =>
       stage = "running" /\ t \in job.tasks /\ result[t] = "todo"
  /\ \A t \in Task : tried[t] # << >> => Submitted
  /\ stage = "over" /\ ~cut => \A t \in job.tasks : result[t] # "todo"

(* Under the default affinity the live pods are on one node.               *)
TogetherOK ==
  Submitted /\ Protected /\ object.claims # << >> =>
    \A t, u \in Task : Live(t) /\ Live(u) => pod[t].node = pod[u].node

(* A pod was tried again only when the strategy says so, and a task that   *)
(* has been decided is as its last pod.                                    *)
Recorded(t) ==
  /\ \A i \in 1 .. Len(tried[t]) - 1 : Retries(tried[t][i], i)
  /\ stage = "running" /\ result[t] = "todo" /\ tried[t] # << >> =>
       Retries(tried[t][Len(tried[t])], Len(tried[t]))
  /\ result[t] \in {"Succeeded", "Failed", "Error"} => tried[t] # << >>
  /\ result[t] = "Skipped" => tried[t] = << >>
  /\ t \in worked <=> \E i \in DOMAIN tried[t] : tried[t][i].exit = <<"0">>

TriedOK == \A t \in Task : Recorded(t)

Inv == TypeOK /\ BuildsOK /\ RunOK /\ PodsOK /\ TogetherOK /\ TriedOK
============================================================================
