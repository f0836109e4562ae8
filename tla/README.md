# A verification model of theo-forge

theo-forge is a Go library: a program describes Argo workflows as Go values, builds
them into serializable models, and sends them to an Argo server. Nothing in it runs
by itself, so its hard behaviour is what happens *between* calls: several goroutines
that build against one configuration while others change it, hooks that call back,
builders that fail half way, requests that get lost, and a cluster that acts, in its own
time, on what was built. These modules model that.

Read a component's module first, then its properties (at the end of the module), its
`MC*` module and `.cfg` files, and its `*Proofs` module last.

## Inventory

| Part | State it keeps | Operations | What is hard about it |
|---|---|---|---|
| `config/config.go` GlobalConfig | scalar defaults, four lists of anonymous hooks, an RWMutex | setters, getters, Register, Clear, Reset, Dispatch, ApplyTemplateDefaults | dispatch runs the user's hooks under the read lock; a hook may call the configuration; readers and writers wait for each other |
| `config/named_hooks.go` | two lists of hooks with unique names | Register, Remove, List, Dispatch (runs a copy, without the lock) | the list changes while its copy runs; a hook fails in the middle |
| Build pipeline (`build_helpers.go`, `workflow.go`, `workflow_template.go`) | none of its own; reads the configuration | Build of four kinds of object | every stage takes the read lock anew, and the configuration changes between stages |
| Steps builder (`steps.go`) | groups of steps, remembered names | AddSequentialStep, AddParallelGroup, Parallel.AddStep, BuildTemplate | failure half way through a group; two sets of names to agree; exported fields |
| DAG builder (`dag.go`) | tasks, remembered names, a depends expression per task | AddTask, AddTasks, Then, Or, On..., BuildTemplate | partial AddTasks; precedence of an expression that is put together call by call |
| REST client (`client/`) | the memoized HTTP client, token and VerifySSL | some twenty operations, all through doRequest; String, MarshalJSON, UnmarshalJSON | first calls race; answers late, lost, too long; effects behind errors; a redacted token that comes back; a setting that is read late |
| Client logger | none | logSafe | - |
| Container, Script, ContainerSet, Resource, Suspend, HTTP | none | BuildTemplate | translation; images that only a default supplies; dropped fields |
| Trees of inline templates (`steps.go`, `dag.go`) | none of their own; templates hold templates by pointer | BuildTemplate, BuildStep, BuildDAGTask recurse into each other | failures deep in the tree; cycles; defaults and checks that reach the top only |
| Affinity (`affinity.go`, `workflow.go`) | none | resolveAffinity, DefaultPodAffinityFor | pods that share a claim race for it; a term that no pod satisfies stops the workflow for ever |
| Parameters, artifacts (`parameter.go`, `artifact.go`) | none | AsInput, AsArgument, AsOutput, NewRetryOnFailure, Build | limit, policy and expression of a retry decide together |
| Volumes (`volume.go`) | none | BuildVolume of eight kinds, BuildPVC, BuildVolumeMount | mounts, volumes and what stands behind them meet by name only |
| Environment (`env.go`) | none | Build | translation |
| `validate/` quantities | none | BinaryUnit, DecimalUnit, ResourceRequirements | values with different suffixes compared as floats |
| `expr/` | none | operators on strings | precedence: no method writes parentheses |
| `serialize/` | files | ToYAML, FromYAML, ToFile, FromFile | a write is not atomic; names collide, go up, and go through links |
| `status.go`, `model/status.go` | none | AllPodNodesExitedZero, Parse... | asked at any moment of a run; nodes without an exit code |
| `model/` | none | data declarations | - |

How they interact: a Workflow resolves its configuration (`config_helpers.go`: the one
it was given, or the singleton), `buildTemplateModels` calls each template's
BuildTemplate (a DAG and Steps call those of their inline templates), then the
configuration's defaults, the check of the built template, and the hooks; Build ends
with the hooks of the object. The client calls Build and sends the model; hooks are
callbacks from the configuration into the program, and may call the configuration. What
was submitted is run by the Argo controller, the scheduler and the kubelets, which obey
the affinity, claims, selector, conditions and retry strategy that Build wrote; the
program learns the outcome from the status that GetWorkflow returns.

What makes each correct is stated by the properties below; `PROJECT.json` lists under
`hazards` what can go wrong at which line, with the properties that would notice.

## Modules

| Module | Models |
|---|---|
| `RWMutex` | Go's `sync.RWMutex`: read holds counted per goroutine; Lock is an announcement, which blocks later readers, and a wait for the present ones; Unlock admits all that wait. External code, modelled from how the configuration uses it. |
| `HookLists` | look-up, append, removal and first-error dispatch of lists of named hooks, as operators |
| `Registry` | the data of a GlobalConfig and what each mutator does to it (`Update`) |
| `GlobalConfig` | the operations under the mutex: `Call`, `Lock`, `Mutate`; `Get`, `Return`. `op` is what a goroutine is doing |
| `BuildPlan` | what Build is given |
| `WorkflowBuild` | composes the above: `pc` walks each builder through Start, BuildTemplate, CallDefaults, ApplyDefaults, CallAnon, RangeAnon, RunAnonHook*, EndAnon, CallNamed, CopyNamed, RunNamedHook*, EndNamed, per template and then for the object |
| `AtomicDispatch` | abstract specification: no mutex and no program counter; a Build is a fixed plan of dispatches and each is one step on the registry of that instant |
| `StepsTemplate` | the Steps builder; AddParallelGroup is one action per step it looks at (`TakeStep`), so its early return is visible |
| `Depends` | depends expressions as sequences of tokens, what Then makes of them, and how Argo reads them (`Holds`, external) |
| `DagTemplate` | the DAG builder and the wiring of its tasks |
| `RemoteCalls` | abstract specification of remote calls: begun, taken by the server, succeeded or failed |
| `Templates` | the template types as records of what tells them apart, when BuildTemplate accepts one and what of its model a later stage looks at |
| `TemplateTree` | Build over a tree of inline templates: BuildTemplate and BuildStep call each other on an explicit `stack`, then the default image and the check (`Check`) for each template at the top |
| `TemplateFiles` | ToFile and FromFile: names that are given or derived (`Target`), symbolic links (`Physical`), containment (`ContainedJoin`), directories that are made or cannot be, a file that is emptied and then written cell by cell while others read it or write it too; failed writes and crashes |
| `ArgoClient` | a call through validation, the lazy client (two stores of a Go interface, in either order), request, answer, limit, status, unmarshalling; the network and the server are its environment. Between calls the program sets, saves and loads the token and VerifySSL (`Configure`, `Reload`) |
| `Affinity`, `Volumes`, `Quantities` | what Build makes of affinity, volumes and claims, and its verdict on quantities, as operators |
| `WorkflowModel` | composes them to what Build of a Workflow accepts (`Accepts`) and writes (`Translation`), with arguments and retry strategy |
| `Expressions` | the methods of `expr.Expr`, on texts that are sequences of tokens, and how Argo reads a text back (`Reads`, external: precedence climbing) |
| `NodeStatuses` | ParseWorkflowStatus, the status section, AllPodNodesExitedZero |
| `SubmittedWorkflow` | composes the last three into the life of a workflow: composing a condition (`Compose`), building it under several configurations (`Build`), submission (`Submit`), and the cluster: controller (`CreatePod`, `Skip`, `Omit`, `Cut`, `Conclude`), scheduler (`Bind`), kubelets (`Start`, `Finish`) |

`MCWorkflowBuild`, `MCStepsTemplate`, `MCDagTemplate`, `MCArgoClient`, `MCTemplateTree`,
`MCTemplateFiles`, `MCSubmittedWorkflow` give constants for TLC. `WorkflowBuildProofs`,
`StepsTemplateProofs`, `DagTemplateProofs`, `ArgoClientProofs`, `TemplateTreeProofs`,
`TemplateFilesProofs`, `ExpressionsProofs`, `SubmittedWorkflowProofs` hold the proofs.
Operators whose comment begins with *Deviation* are not part of the model: each is a
plausible mistake in one definition, and the named property fails when the mistake
replaces the definition.

### State and code

`defaults`, `anon`, `named` are the fields of the GlobalConfig struct, `announced`,
`holding`, `waiting` its `mu`. `pc`, `tpl`, `built` are where a goroutine is in
`buildTemplateModels` and Build and the `result` slice; `todo` is what is left of the
range loop of a dispatch (for named hooks, of the copied slice); `ran` and `last` are
history. `groups`, `nodeNames`, `group` are StepGroups, Steps.nodeNames and the local
`p` of AddParallelGroup; `direct` notes that the program wrote StepGroups or Tasks, which
are exported, itself. `tasks`, `depends` are DAG.Tasks and Task.Depends; `given` and
`since` note what was assigned to a task and what was chained before it since. `memo` is
`s.HTTPClient` with its two words, `unsaved` the words a goroutine has yet to store,
`wire` and `effect` the network and the server. `stack` is the goroutine's stack of
BuildTemplate calls, each with the index of the step it is at; `result` holds the models
built so far at their paths (the index of a template of the workflow, then of a step of
it, and so on), `culprit` the path of what an error is about. `job` is what a goroutine
has read or written of a file; `known` is history: the document a file must hold.
`service` is the client's Token and VerifySSL, `given` what the program last made of
them, `carried` the Authorization header of a request, `verifies` the TLS setting of a
client that was made. In `SubmittedWorkflow` a job is a Workflow value (`object`) with
its surroundings: the tasks and mounts of its templates, their quantities, how pods may
end. `built` are the results of Build; a map of a model is referred to by a number (0 is
the object's own, i the one that a hook of build i made) and `pinned` is what the maps
hold, as sharing requires. `wf` is what the server has, `pod`, `tried`, `result` what the
cluster has made of it, `worked` and `cut` history.

### Abstractions

- One configuration. Builds against different ones do not meet.
- Host, token, namespace and VerifySSL of the configuration, which no Build reads, are
  left out. Arguments that are rejected before the lock is taken (nil hooks, empty
  names) are left out: such a call does nothing.
- In `WorkflowBuild` a hook is a value; what it does to the configuration is `HookCall`,
  whether it fails `Failing`; it makes at most one call of the configuration. What it
  does to the model it is given is `SubmittedWorkflow`'s.
- A template is what the pipeline can tell apart: accepted by its BuildTemplate, with a
  container or script, three scalars, quantities in order. An object's arguments,
  volumes and claims are one flag, `rest`. What `validate` looks at is not in the model:
  an object that it rejects is not built, and nothing that is shared is touched. So
  lengths of names and the check of the entrypoint (`workflow.go:130-145`) are left out,
  of `WorkflowModel` too (`HasName`).
- In `StepsTemplate` and `DagTemplate` a step builds or not, and so do the name, inputs
  and outputs of the template itself (`own`). In `TemplateTree` it names
  its template, is refused for its own fields, or holds an inline template; the groups of
  Steps are one sequence, in the order they are built. Inputs, outputs and artifacts of a
  template build or not. Hooks, and configurations that change during a Build, are
  `WorkflowBuild`'s; the default image may come and go here too.
- Go's stack is `MaxDepth` calls deep; a Build that needs more kills the process
  (`pc = "overflow"`).
- A document is a sequence of cells, each its own; a text that is not a document
  unmarshals to any of the outcomes its cells allow.
- A file name, given or derived, is absolute or not and any sequence of segments, `..` and
  empty ones among them; a segment is split from its extension, if that is one of a YAML
  file's. A name gets its extension before it is looked at, so its last segment is never
  `..`. A path is followed through the links on its way: `Link` gives each path that ends
  at a link the place that it leads to in the end, links to links included. Links do not
  change while programs save.
- A depends expression is a sequence of tokens: an outcome of a task is one token. This
  is faithful because task names hold no operators or parentheses (Argo refuses them).
  A task without a name, which Build refuses, is wired to nothing here (`Named`), and a
  program writes expressions whose parentheses match (`WrittenAssumption`).
- The size of an answer is a number up to `MaxSize`, the limit is `Limit`. The operations
  of the client have one shape, and a request says where they differ: whether there is
  something to build, what is in the path, whether the answer is unmarshalled.
- The service's fields are written only while no call is under way: they are plain
  fields, and writing them during calls would be a data race of the program.
- Of what Build copies, `SubmittedWorkflow` keeps what the cluster acts on: name,
  arguments, volumes, claims, affinity, node selector, retry strategy. Templates are
  their mounts, their own affinity and their quantities. The order of errors inside a
  Build is `WorkflowBuild`'s.
- An affinity is the set of its required terms, each the label value near which the pod
  must be: the library uses one label key and one topology.
- A volume is its kind, its name and the object it stands for; a source of a projected
  volume is which of its four fields are set, and whether its token has a path.
- A quantity is a number of thousandths and a suffix. It is taken for granted that
  different values of fewer than fifteen digits stay in order as floats; of equal ones
  with different decimal suffixes the request may come out above the limit (9m against
  0.009), which is a choice here. So what is checked of quantities is what becomes of
  suffixes, thousandths and missing values, not the arithmetic of floats.
- The quantities of a job are those that `validateBuiltTemplate` sees: of a container or
  script at the top. Those of sets, sidecars and inline templates, which Build writes
  unchecked, are outside the model, and `ServerAgrees` does not speak of them.
- A retry strategy without a limit retries as long as its policy and expression say
  (`Retries`); no job has one, so that a workflow comes to an end.
- A constant is one token, but a negative number is two when it is read back: `C(-5)` is
  the operator applied to a word, `Unary("-", Operand("5"))`.
- Operators of one precedence behave alike, and methods do; one or two stand for each.
- A hook renames the workflow, pins it to some nodes by writing to its selector, or
  leaves it alone.

## Runs

Every bound is a constant of the `.cfg`. Two goroutines suffice to race for a lock, a
third changes what they read; two hooks per list tell order from membership.

| Run | Question | Bounds | Answer |
|---|---|---|---|
| `races` | do concurrent Builds, configuration and hooks keep the lock, the lists and the dispatches in order? | two builders, one configurer, one template, one anonymous hook per list (it reads the configuration), two names (one hook removes itself, one fails) | holds; a deadlock always has an anonymous hook that called the configuration in it |
| `pipeline` | does a Build of any kind of object follow its plan, end with images while defaults change, and return; do operations of the configuration return? | one builder, one configurer, up to two templates, all kinds of template; only named hooks call the configuration | holds |
| `steps` | are names unique across groups in every sequence of calls? | three steps, two groups of two | holds |
| `phantom` | is a refused name one that is taken? | as `steps` | **violated** |
| `dag` | unique names, real refusals, and tasks that run when they were wired to run? | three tasks, two of one name, one rewired; expressions of up to eight tokens, extended by Then | holds |
| `calls` | does success mean that it happened, is nothing truncated, do calls return; do token and VerifySSL survive saving and loading? | two calls, four kinds of request, answers of up to one byte over the limit, one token, settings changed any number of times | holds |
| `tree` | does a Build make a model of the whole tree or name the first thing wrong; where do defaults stop; does it return? | two templates at the top out of five (Steps of two steps, a DAG of one task, a container without an image, a set, an HTTP template with a malformed timeout), any of them inside any; a stack of four calls | holds |
| `sets` | do the containers of a set still wait for those they depend on? | as `tree` | **violated** |
| `files` | does a save leave its document, and a load return it, when others save, fail and die; is its file in the directory that was asked for, and a name refused only when it is not? | two goroutines, interchangeable, two documents of one and two cells that can share a file; a directory that is a link, one that is to be made and that a link already leads to, one below a link that leads nowhere; names that are absolute, derived ones that go up and stay out or come back, a given one through a link to a file that is a link | holds |
| `links` | do links inside the directory lead no save out of it? | as `files`, one goroutine | **violated** |
| `lifecycle` | does a workflow run as the program meant it: placed without an attach race, never stuck, retried and judged rightly, untouched by hooks of other builds, admitted when accepted? | three tasks, two nodes (one holds one pod, one two), three configurations, two builds, conditions of six tokens; 223 jobs (`MCSubmittedWorkflow` groups them by question) | holds |
| `shared` | do requests of one service go through one client? | as `calls` | **violated** |

In `lifecycle` three pods and nodes for one and two make a claim contested and a node
full; a limit of one or two retries and six ways to end tell the retries apart; two
builds are enough for a hook of one to reach the other; six tokens hold every pair of
operators in both nestings, three of the short ones, and a ternary inside anything.

`races`, `pipeline`, `calls`, `shared`, `tree`, `sets` and `lifecycle` turn the
deadlock check off: nobody has to call Build, calls are made once, a workflow ends, a
process whose stack is exhausted is dead, and anonymous hooks that call the configuration
do deadlock (that is what `OnlyAnonymousHooksDeadlock` is about: it asks
of every state in which somebody has work to do and nobody can go on).

### Properties

- `LocksAreAccountedFor`: the read lock is held by those, and only those, that are
  between RLock and RUnlock; failing Builds included.
- `StableWhileDispatched`: the list of anonymous hooks does not change while it runs.
- `UniqueHookNames`: concurrent registration never leaves two hooks of one name.
- `OnlyAnonymousHooksDeadlock`: without an anonymous hook that calls the configuration
  nothing deadlocks, named hooks may call what they like. It has two parts: a goroutine
  with work to do can take no step exactly when it waits for the lock (`Blocked`), and
  when all of them wait one is in such a hook (`OnlyAnonymousHooksBlock`).
- `DispatchesAreAtomic`: `WorkflowBuild` implements `AtomicDispatch`. A dispatch of
  anonymous hooks takes effect when it ends, one of named hooks when the list is copied:
  from then on what it will run and whether it will fail are fixed, and the mapping
  already shows the outcome (`AbstractStatus`, `AbstractNext`, `AbstractLast`).
- `BuiltContainersHaveImages`: a Build that succeeds gave each container an image.
- `BuildReturns`, `OperationsReturn`: liveness.
- `UniqueNodes`, `Inv` of `StepsTemplate`; `UniqueTasks`, `RefusalsAreReal` of
  `DagTemplate`: names and what is remembered of them agree.
- `TasksRunAsWired`: for every set of outcomes, Argo runs a task exactly when what was
  last assigned to it holds and every task chained before it since is done.
- `CallsAreHonest`: `ArgoClient` implements `RemoteCalls`: a call succeeds only if the
  server did it, and one refused by its arguments has no effect; a failed one may have.
- `NothingIsTruncated`: a call that succeeds read its whole answer, none over the limit,
  and a call that fails because its answer is too large (`tooLarge`) had one over it.
- `OneClientWithoutRaces`: if no two first calls met, all requests share one client.
- `BuiltIsTheTree`: a Build that succeeds made exactly one model of every occurrence of a
  template in the tree, at its place, and nothing in the tree was wrong. The tree is
  defined level by level (`Level`), without the recursion of the code.
- `ErrorIsTheFirst`: a Build that fails names something that is wrong, and nothing that
  is built before it is.
- `DefaultsStopAtTheTop`: after a Build, containers and scripts at the top have images;
  models below the top are as their own BuildTemplate left them, without the default and
  unchecked. So the promise "Image must exist either explicitly OR via cfg default"
  (`build_helpers.go:119-120`) is kept for the templates of the workflow, not for inline
  ones, and neither for the containers of a set.
- `CyclesNeverReturn`, `BuildsReturn`: a Build that meets a template inside itself ends
  in the exhaustion of the stack and in nothing else; any other Build returns.
- `SavedIsWhole`: a save that no other save of the file overlaps leaves its whole
  document, whatever was there, failed there or died there before. `LoadsAreWhole`: an
  undisturbed load of such a file returns the document, or the error that it is no
  cluster template. Overlapping ones may leave, and return, anything.
- `Contained`: the file that a save opens is inside the directory that it was given, or
  where a link below that directory leads; names that are derived from the document are
  no exception. `RefusedOnlyOutside`: a name that is refused as escaping is absolute or
  does end outside, which is said without following it: by counting, for each segment,
  the `..` that could take it back (`Kept`).
- `CallsReturn`: calls return, if the client has a timeout.
- `TokensAreKept`: a request under way carries the token that the program set, however
  often the service was saved (which writes a placeholder) and loaded in between.
- `VerificationIsAsSet`: a client that the service made verifies certificates exactly
  when VerifySSL says so, also when first calls raced. VerifySSL that is changed after
  the first call has no effect (`late`): the comment at `client.go:82` says as much.
- `NoMultiAttach`: under the default affinity no pod is bound to one node while a claim
  that it shares is attached to another. It does not follow that "every pod of the same
  workflow lands on the same node" (`affinity.go:31`): affinity looks at live pods, and
  a pod that starts after all others have ended may be elsewhere, which is harmless.
- `WorkflowsFinish`: a workflow that runs comes to an end: its affinity always lets some
  pod in, named or generated. Excluded (`Placeable`) are affinities to other things and a
  hook that renames a workflow which had a name: its pods then wait for pods of the old
  name, for ever.
- `FalseFailuresAreDetected`: AllPodNodesExitedZero of a failed workflow means that all
  its work was done, and holds when it was and no pod was retried. Excluded are workflows
  cut short or with omitted tasks, whose nodes say nothing of the work not begun; a
  failed attempt that was repaired by a retry makes the answer false.
- `RetriesAreUseful`: a strategy of NewRetryOnFailure never makes more than limit + 1
  pods of a task, and none after a success, a kill for memory, or a lost pod.
- `HooksStayHome`: what hooks write into a model is not in the model of another build,
  when the object brought no map of its own. A map that the object brought is shared by
  all its models (`workflow.go:327`, `build_helpers.go:95`): there it is.
- `ServerAgrees`: an object whose names, mounts and argument values the program has wired
  up is admitted by the server whenever Build accepts it. Build checks neither unique
  volume names, nor that mounts find a volume, nor that an argument has a value
  (AsArgument drops a default).
- `MountsFindTheirVolumes`: the volume behind a mount stands for the object that the
  program named, and is of the kind it declared. A ConfigMap or Secret for which it named
  no object stands for the one of the volume's name (`volume.go:110`, `volume.go:140`).
- `ConditionsAsBuilt`: a condition is read as composed exactly when every operand binds
  tighter than the operator it was given to (`nested`). So `a.Add(b).Mul(c)` is not what
  it says, and callers need `E("(...)")`; joining with `&&` or `||` on the right counts
  as misread although its value is the same.
- `Inv` of `SubmittedWorkflow` and of `ArgoClient` are the inductive invariants behind
  these; in the runs they are checked on everything that the instances reach. Those of
  `TemplateTree` and `TemplateFiles` are only proved.

### Fairness

The Go scheduler runs every goroutine that can run, and hooks return: weak fairness of
every step of a builder, and of a mutator or getter that has begun. Lock needs strong
fairness: several goroutines may announce themselves in turn, and `sync.Mutex`, which
orders the writers of an RWMutex, hands over to the longest waiter after a millisecond
(its starvation mode). Nobody has to begin anything. In `ArgoClient` goroutines run, and
a client that the service made ends every request after its 30 seconds
(`defaultClientTimeout`); the network owes nothing, and neither does an injected client,
so `CallsReturn` excludes calls through one. In `TemplateTree` a goroutine that builds
goes on (weak fairness of Build once it has started). In `SubmittedWorkflow` the
controller, the scheduler and the kubelets take some step as long as one of them can
(weak fairness of `Cluster`): every such step is progress towards the end, so nothing
stronger is needed. Nothing has to be submitted or cut short.

## Proofs

| Theorem | For every value of the constants |
|---|---|
| `WorkflowBuildProofs`: `TypeCorrect`, `LockAccounting`, `StableDispatch`, `HookNamesUnique`, `ImagesBuilt`, `OnlyHooksDeadlock`, `AtomicDispatches` | the corresponding invariants of `WorkflowBuild` (of `OnlyAnonymousHooksDeadlock` the part `OnlyAnonymousHooksBlock`), and the refinement `DispatchesAreAtomic` |
| `StepsTemplateProofs`: `Remembering`, `NodesAreUnique` | `Inv`, `UniqueNodes` |
| `DagTemplateProofs`: `TasksAreUnique`, `ConflictsAreReal`, `TasksWait` | `UniqueTasks`, `RefusalsAreReal`, `TasksRunAsWired` |
| `TemplateTreeProofs`: `Invariance`, `ImagesOnlyAtTheTop`, `TreeInvariance`, `BuildsAreWhole`, `ErrorsAreFirst`, `CyclesHaveNoOutcome` | `Inv`, `DefaultsStopAtTheTop`, `TreeOK`, `BuiltIsTheTree`, `ErrorIsTheFirst`, `CyclesNeverReturn` of `TemplateTree` |
| `TemplateFilesProofs`: `Invariance`, `SavesAreWhole`, `WholeFilesLoad`, `FilesAreContained` | the inductive invariant of `TemplateFiles`, `SavedIsWhole`, `LoadsAreWhole`, `Contained` |
| `ArgoClientProofs`: `Invariance`, `AnswersAreWhole`, `OneClient`, `TokensKept`, `VerificationSet`, `HonestCalls` | `Inv`, `NothingIsTruncated`, `OneClientWithoutRaces`, `TokensAreKept`, `VerificationIsAsSet`, and the refinement `CallsAreHonest` |
| `SubmittedWorkflowProofs`: `InvHolds`, `NoMultiAttachHolds`, `HooksStayHomeHolds`, `RetriesAreUsefulHolds`, `FalseFailuresAreDetectedHolds`, `MountsFindTheirVolumesHolds`, `ServerAgreesHolds`, `ConditionsAsBuiltHolds` | the corresponding invariants of `SubmittedWorkflow` |
| `ExpressionsProofs`: `ReadAsMeantExactlyWhenNested` | of any expression that calls of the builder make of words, what is read is what was meant exactly when `nested` |

They assume what the modules' named ASSUMEs say: hooks, operations and jobs are of their
kinds, the default image is a value and the empty string is none, builders are
goroutines, the limit is a number, no token of a program is the placeholder, the
quantities of a job are numbers and a strategy that is said to be made by
NewRetryOnFailure is, a document has at least one cell,
the last segment of a document's name is all before its extension (`NameAssumption`: one
is put after it), where a link leads there is no other link on the way, and what is a
link by one path is the same link by another (`LinkAssumption`), Go's stack has room for a call,
words of an expression are none of its symbols, what a program combines by the
expression builder is a word or was made by the builder (`ConnectiveAssumption`: a raw
text such as `E("a + b")` is not a word), and what a program writes as a depends
expression has matching parentheses. Nothing is assumed to be finite.

*Build pipeline.* `Inv` is the inductive invariant. That a list is stable while it runs
depends on the read lock being held then; that depends on the exact count of holds
(`LocksAreAccountedFor`), since a mutator proceeds when all counts are zero; and the
count is only preserved if a goroutine waits for the lock where it called RLock and
nowhere else (`PlaceOK`). `BuiltOK` counts the templates that are through. `Inductive`
has one step per action; actions that leave a part alone are handled by lemmas on what
each part depends on. The facts about lists come first: what the sequence operators of
`HookLists` preserve.

*Deadlock.* Who waits for the lock, waits for a writer that has announced itself, and who
has announced itself is in a mutator (`QueueOK`). A writer is never itself waiting as a
reader, so it waits for somebody who holds the read lock; by the accounting of holds that
one is in a section of Build or in a getter, and goes on unless it is an anonymous hook
that called the configuration (`HoldersGoOn`).

*Refinement.* A dispatch of anonymous hooks is mapped to the step of `AtomicDispatch` when
its loop ends, under the read lock that has kept the list what it was when the loop began
(`StableWhileDispatched`); a dispatch of named hooks when its list is copied, after which
nothing the configuration does can reach it. The hooks that are to run from there on are
those of the list that was read, up to the first that fails (`FiredToFirst`,
`FirstFailing`), and every other action is a step of the configuration or a stutter.

*Steps.* Uniqueness across groups follows from what is remembered: every name in a group
is (`Remembered`), and during AddParallelGroup so is every name of the group in the
making, which is disjoint from the groups that are there (`FreshGroup`).

*DAG.* The remembered names are exactly those of the tasks, unless the program wrote
d.Tasks itself. For the wiring, the reader of expressions is shown to be a function on all
texts, by induction over their length (`ReaderReads`); a text without an or outside
parentheses means the same wherever it is split at an and, although the reader picks one
(`AndSplits`); a text in parentheses means what it meant without (`Enclosed`), provided
that its parentheses match. So Then adds exactly one condition (`AndedMeans`), and
`Wiring` says so of every expression together with the match of its parentheses.

*Trees.* `DefaultsStopAtTheTop` is about the end of a Build; `Inv` says it of every state:
a model at a path of one element is through the check when its index is below `at`, and
every other model is as built. For a check to reach the right model there is only one at
`<<at>>`, and only between Return and Check (`OneToCheck`, `EntriesOK`). That a Return
below the top adds no model there follows from the length of its path, which is the
depth of the stack (`CallerType`).

What a Build has done is `TreeOK`: the calls on the stack are inside each other (`Chain`),
everything to the left of each of them has been built and was in order, and what has been
built is closed downwards: with a template, all that is inlined in it. At the end of a
Build the templates at the top are built, so by induction over the levels of the tree all
of it is (`BuildsAreWhole`). An error is raised in one of four places (a step of its own
fault, a template that does not build, the default image, the quantities), and what each
of them blames is the first fault because all to the left of it was in order
(`ErrorsAreFirst`). A template that is on the stack twice can never return, since
what has been built is no deeper than the stack: the deepest of the repeated templates
would have to be past the step at which its earlier call still is (`CyclesHaveNoOutcome`).

*Files.* A save that has been alone with its file since it emptied it has the file to
itself, and the file is a beginning of its document, as long as what has been written; a
file whose document is known has no one writing to it; a load that nobody disturbed
has read a beginning of that document. Each kept by every action of every other program,
crashes and failures included, because an Open of a file ends both claims about it.

`FilesAreContained` says of all names and links what `Contained` says. A path that
`ContainedJoin` accepts begins with the place of the directory (`JoinIsContained`), on
the way to which there are no links; following the links of the rest leads to a place
below the directory or below where a link in it leads (`StaysBelow`). `RefusedOnlyOutside`
is model-checked only: it is about what is left of a name by counting, which would need
an induction over sets of its segments.

*Client.* `Inv` has a part about each call (where its request can be, given where it is)
and a part about the memo, which holds as long as no first calls met: at most one
goroutine constructs, and once both words are stored they stay. `HonestCalls` shows that
initial states map to initial states, and that each action is a step of `RemoteCalls`
or a stutter, under `Inv`. `SettingsOK` is the part about the settings: what is set is what
was given (a document of the service's own is refused or changes nothing,
`OwnDocument`), and every client in use was made by the present setting as long as none
came late; a client can be in use by a torn read before its maker has stored its type,
so the part says that its maker is then still at it.

*Life of a workflow.* `BuildsOK` says what each build is (the translation under its own
hooks) and which maps have been written to; `RunOK` that what runs is one of them;
`PodsOK` where pods can be; `TogetherOK` that under the default affinity live pods share
a node, which Bind keeps because a term wants a live pod of the workflow on the node or
none anywhere; `TriedOK` that a pod was followed by another only if the strategy says so.
The pure facts (what BuildAll answers, what verdicts on quantities imply, when a source
is accepted) are lemmas about the operators, and `ServerAgreesHolds` and
`MountsFindTheirVolumesHolds` follow from `BuildsOK` by them.

*Conditions.* `ConditionsAsBuilt` says that two things are the same: that an expression is
nested, which is computed from precedences as it is composed, and that the reader returns
what was meant. Three facts make it a theorem for expressions of any size. The reader
calls itself on places that an earlier call of its own returned; it is a function because
a reading depends on later places alone (`ReadingIsLocal`, `ReaderReads`). An expression
that is nested is read as it was meant wherever it stands in a text, up to a token that
can follow it (`AllReadAsMeant`, by induction over the calls that made it: `Composed` is
the smallest set closed under the builder). Whatever a reader returns of a text without
parentheses is the meaning of some nested expression (`AllWellRead`, by induction from
the end of the text), and no two expressions of different precedence or nesting have the
same meaning (`AllDistinct`: no meaning begins like another). So an expression that is
read as it was meant is nested. The words of that other expression are whatever stands
where an operand should (`Junk`): the reader takes any token there.

Inductions over data (lengths of texts, levels of a tree, numbers of goroutines) are
written with `Least` and `SetInduction`: every set of numbers that is not empty has a
least one, by the well-foundedness of the numbers, so an induction over a set that is
named in the proof needs no operator for a parameter. The recursive functions they are
about are `LET f[x \in S]`, and each is first shown to exist.

Only model-checked: `RefusedOnlyOutside`; liveness (`BuildReturns`, `OperationsReturn`, `CallsReturn`,
`BuildsReturn`, `WorkflowsFinish`), which needs fairness; and of
`OnlyAnonymousHooksDeadlock` the part that speaks of ENABLED, that waiting for the lock
is all that keeps a goroutine from a step.

## Findings

1. *Names of a refused group* (`phantom`). AddParallelGroup remembers names one by one
   and does not forget them when it is refused (`steps.go:182-190`): a later step of such
   a name is refused although no group has it. A program that mends a group and adds it
   again cannot.
2. *The lazy HTTP client* (`shared`). `httpClient()` is a data race when the first calls
   of a service are concurrent, as they are in the end-to-end test that vouches for
   concurrent use. Mostly each call gets a client; they may be different ones, and a
   torn read of the interface can be nil behind a type.
3. *Dependencies of a set* (`sets`). `ContainerNode.buildModel` copies every field of a
   node but Dependencies (`templates.go:35-44`), for which the model has a field
   (`model/template.go:119`): containers that "must complete first" do not.
4. *Links inside the output directory* (`links`). containedJoin resolves the links of the
   directory and none below it (`serialize.go:196-198`), so a name that goes through a
   link there, or whose file is one, is written where it leads. The comment says that such
   a link "cannot bypass the Rel check" (`serialize.go:177-179`), and a test that it "must
   not allow a write to escape" (`path_traversal_test.go:78-79`); the same test goes on to
   say that writing follows the link.

An observation that needs no run of its own: after `SetImage("")`, or UnmarshalJSON of a
document without an image, GetImage answers `python:3.11` while Build applies nothing
(`config.go:87` against `config.go:276`) and refuses a container without an image. The
`pipeline` run has these changes of the default; `DispatchesAreAtomic` fails there if the
getter's fallback is applied instead.

## Assumptions on external code

The Argo server answers below 400 only if it did what it was asked. Requests and answers
may be lost at any point; they are not duplicated (the HTTP client resends a POST only if
none of it was written). `os.WriteFile` opens the file, which creates or empties it, and
writes at an offset of its own; `os.ReadFile` reads up to the end that it finds; two of
them on one file interleave freely. The server refuses what `Admitted` says and gives a
workflow without a name one from its prefix; the controller labels every pod with the
final name and puts it in place of `{{workflow.name}}`. A required pod affinity wants a
live pod with the label on the node, or none anywhere if the pod has the label itself; a
template's affinity replaces the workflow's; a claim whose modes are ReadWriteOnce only
keeps a pod from starting while another node has it. A pod that is evicted, lost or cut
has no exit code. Argo reads expressions by the precedences in
`Expressions`. The death of a process loses nothing that it wrote; power failures are left out. Go's interface values are two words, stored one at a time.

## Not modelled

Environment variables, and every field that is copied and that nothing later looks at:
there is no state and no decision in such a copy. The mark of a daemon sidecar is one of
them that should not be (`parameter.go:229` drops it; the model of a container has no
place for it). AsInput and AsOutput are an input of `Templates`: a template's inputs
build or not. Backoff, whose times nobody in the library waits for. The quoting of
constants in expressions and the strings that refer to parameters. YAML and JSON, which
are a library's. The logger. The token and host of the configuration, which no Build
reads and which have the same code as those of the client. Hooks that write to a map
that the object brought, beyond the one key of `HookJobs`. Models of cluster templates
and cron workflows as a server sees them: they are not submitted by the operations that
`SubmittedWorkflow` follows, and their Build is in `WorkflowBuild`.

## Plan

Done: the configuration and the pipeline, its refinement and its invariants; the two
template builders; the trees they make and the templates in them; files; the client and
its settings; the life of a workflow, with affinity, volumes, quantities, expressions,
retries and status.

Left: `TemplateTree` together with the hooks and defaults of `WorkflowBuild`: what a
template hook sees of a tree, and Builds of one tree by two goroutines.
