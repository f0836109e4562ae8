----------------------- MODULE SubmittedWorkflowProofs -----------------------
(***************************************************************************)
(* The invariant of SubmittedWorkflow is inductive for any jobs, tasks,    *)
(* nodes, capacities, configurations and bounds, and what follows from it. *)
(***************************************************************************)
EXTENDS SubmittedWorkflow, ExpressionsProofs, FiniteSetTheorems

----------------------------------------------------------------------------
(* What Build and the hooks leave of the object.                           *)

LEMMA MadeFields ==
  ASSUME NEW g \in Config, NEW i
  PROVE  /\ Made(g, i).affinity = resolveAffinity(object)
         /\ Made(g, i).arguments = buildArguments(object)[1]
         /\ Made(g, i).volumes = buildVolumes(object)[1]
         /\ Made(g, i).claims = buildVolumeClaimTemplates(object)[1]
         /\ Made(g, i).retry = object.retry
         /\ Made(g, i).selector = IF HookOf[g] = "pin" /\ object.selector = Nil
                                  THEN Ptr(i) ELSE object.selector
  BY DEF Made, Hooked, Translation

LEMMA NoClaims ==
  ASSUME object.claims = << >>
  PROVE  DOMAIN buildVolumeClaimTemplates(object)[1] = {}
<1>1. DOMAIN object.claims = {}
  BY SMT
<1>2. buildVolumeClaimTemplates(object) = Ptr([i \in {} |-> BuildPVC(object.claims[i])[1]])
  BY <1>1 DEF buildVolumeClaimTemplates, BuildAll
<1> QED BY <1>2 DEF Ptr

----------------------------------------------------------------------------
(* The invariant holds in the beginning.                                   *)
LEMMA InitInv == Init => Inv
<1> SUFFICES ASSUME Init PROVE Inv
  OBVIOUS
<1> USE DEF Init
<1>1. TypeOK
  <2>1. built \in Seq(Builds)
    OBVIOUS
  <2>2. pinned \in [0 .. MaxBuilds -> BOOLEAN]
    OBVIOUS
  <2>3. pod \in [Task -> [at : {"none", "pending", "bound", "running"},
                         node : Node \union {NoNode}]]
    BY DEF NoPod
  <2>4. tried \in [Task -> Seq(End)]
    OBVIOUS
  <2> QED
    BY <2>1, <2>2, <2>3, <2>4 DEF TypeOK, Stage, Outcome
<1>2. BuildsOK
  BY BoundAssumption DEF BuildsOK
<1>3. RunOK
  BY DEF RunOK, Submitted
<1>4. PodsOK
  BY DEF PodsOK, NoPod, Submitted
<1>5. TogetherOK
  BY DEF TogetherOK, Submitted
<1>6. TriedOK
  BY DEF TriedOK, Recorded
<1> QED
  BY <1>1, <1>2, <1>3, <1>4, <1>5, <1>6 DEF Inv

(* Composing a condition touches nothing that the invariant is about.      *)
LEMMA Unseen ==
  ASSUME Inv, UNCHANGED <<stage, job, built, pinned, wf, clusterVars>>
  PROVE  Inv'
<1> USE DEF Inv, clusterVars, Submitted
<1>0. object' = object
  BY DEF object
<1>1. TypeOK' /\ BuildsOK'
  <2>1. Builds' = Builds
    BY <1>0 DEF Builds, Models, Made
  <2>2. TypeOK'
    BY <2>1 DEF TypeOK
  <2> QED
    BY <1>0, <2>2 DEF BuildsOK, Made
<1>2. RunOK' /\ PodsOK'
  BY DEF RunOK, PodsOK, ModelOf
<1>3. TogetherOK' /\ TriedOK'
  BY <1>0, ZenonT(40) DEF TogetherOK, TriedOK, Recorded, Protected, Live, Retries
<1> QED
  BY <1>1, <1>2, <1>3

(* A build is that of its configuration, and pins its own map only.        *)
LEMMA BuildInv ==
  ASSUME Inv, NEW g \in Config, NEW ok \in BOOLEAN, Build(g, ok)
  PROVE  Inv'
<1> USE DEF Inv
<1> DEFINE i == Len(built) + 1
           model == IF Accepts(object, ok) THEN Ptr(Made(g, i)) ELSE Nil
<1>1. /\ built' = Append(built, [config |-> g, model |-> model])
      /\ stage' = "building" /\ stage \in {"composing", "building"}
      /\ UNCHANGED <<job, wf, pod, tried, result, worked, cut>>
      /\ i \in 1 .. MaxBuilds
      /\ object' = object
      /\ ok \in ResourceVerdicts(job.requests, job.limits)
  BY BoundAssumption DEF Build, clusterVars, TypeOK, object
<1>2. /\ built \in Seq(Builds)
      /\ pinned \in [0 .. MaxBuilds -> BOOLEAN]
  BY DEF TypeOK
<1>3. Builds' = Builds
  BY <1>1 DEF Builds, Models, Made
<1>4. Accepts(object, ok) => Accepts(object, TRUE)
  BY DEF Accepts
<1>5. [config |-> g, model |-> model] \in Builds
  <2>1. model \in Models
    <3>1. CASE Accepts(object, ok)
      <4>1. model = Ptr(Made(g, i))
        BY <3>1
      <4>2. Accepts(object, TRUE)
        BY <1>4, <3>1
      <4>3. i \in 1 .. MaxBuilds
        BY <1>1
      <4> HIDE DEF i
      <4>4. Ptr(Made(g, i)) \in Models
        <5> DEFINE S == {Ptr(Made(g, j)) : j \in 1 .. MaxBuilds}
        <5>1. Ptr(Made(g, i)) \in S
          BY <4>3
        <5>2. g \in {h \in Config : Accepts(object, TRUE)}
          BY <4>2
        <5>3. S \subseteq Models
          BY <5>2, Zenon DEF Models
        <5> QED
          BY <5>1, <5>3
      <4> QED
        BY <4>1, <4>4
    <3>2. CASE ~Accepts(object, ok)
      <4>1. model = Nil
        BY <3>2
      <4>2. Nil \in Models
        BY DEF Models
      <4> QED
        BY <4>1, <4>2
    <3> QED
      BY <3>1, <3>2
  <2> HIDE DEF model
  <2> QED
    BY <2>1 DEF Builds
<1>6. TypeOK'
  <2>1. built' \in Seq(Builds')
    BY <1>1, <1>2, <1>3, <1>5
  <2>2. pinned' \in [0 .. MaxBuilds -> BOOLEAN]
    BY <1>2 DEF Build
  <2> QED
    BY <1>1, <2>1, <2>2 DEF TypeOK, Stage
<1>7. BuildsOK'
  <2>1. /\ DOMAIN built' = 1 .. i
        /\ DOMAIN built = 1 .. i - 1
        /\ i \in Nat
        /\ \A j \in 1 .. i - 1 : built'[j] = built[j]
        /\ built'[i] = [config |-> g, model |-> model]
        /\ Len(built') = i
    BY <1>1, <1>2
  <2>2. ASSUME NEW j \in DOMAIN built', built'[j].model # Nil
        PROVE  /\ Accepts(object', TRUE)
               /\ TRUE \in ResourceVerdicts(job'.requests, job'.limits)
               /\ built'[j].model =
                    Ptr(Hooked(Translation(object'), built'[j].config, j))
    <3>1. CASE j = i
      <4>1. built'[j].model = model /\ built'[j].config = g
        BY <2>1, <3>1
      <4>2. Accepts(object, ok)
        BY <2>2, <4>1
      <4>3. model = Ptr(Hooked(Translation(object), g, i))
        BY <4>2 DEF Made
      <4>4. ok = TRUE
        BY <4>2 DEF Accepts
      <4> QED
        BY <1>1, <1>4, <3>1, <4>1, <4>2, <4>3, <4>4
    <3>2. CASE j # i
      <4>1. j \in DOMAIN built /\ built'[j] = built[j]
        BY <2>1, <3>2
      <4>2. /\ Accepts(object, TRUE)
            /\ TRUE \in ResourceVerdicts(job.requests, job.limits)
            /\ built[j].model = Ptr(Hooked(Translation(object), built[j].config, j))
        BY <2>2, <4>1 DEF BuildsOK, Made
      <4> QED
        BY <1>1, <4>1, <4>2
    <3> QED
      BY <3>1, <3>2
  <2>3. ASSUME object'.selector = Nil, NEW j \in 1 .. MaxBuilds
        PROVE  pinned'[j] <=> /\ j \in DOMAIN built'
                              /\ built'[j].model # Nil
                              /\ HookOf[built'[j].config] = "pin"
    <3>1. object.selector = Nil
      BY <1>1, <2>3
    <3>2. HookOf[g] = "pin" => Made(g, i).selector[1] = i
      <4>1. HookOf[g] = "pin" => Made(g, i).selector = Ptr(i)
        BY <3>1, MadeFields
      <4> QED
        BY <4>1 DEF Ptr
    <3>3. pinned[j] <=> /\ j \in DOMAIN built
                        /\ built[j].model # Nil
                        /\ HookOf[built[j].config] = "pin"
      BY <3>1 DEF BuildsOK
    <3>4. pinned' = IF Accepts(object, ok) /\ HookOf[g] = "pin"
                    THEN [pinned EXCEPT ![i] = TRUE] ELSE pinned
      BY <3>2 DEF Build
    <3>5. model # Nil <=> Accepts(object, ok)
      BY DEF Ptr, Nil
    <3>6. CASE j = i
      BY <1>1, <1>2, <2>1, <3>3, <3>4, <3>5, <3>6
    <3>7. CASE j # i
      BY <1>2, <2>1, <3>3, <3>4, <3>7
    <3> QED
      BY <3>6, <3>7
  <2> QED
    <3>1. Len(built') <= MaxBuilds
      BY <1>1, <2>1
    <3> HIDE DEF i, model
    <3> QED
      BY <2>2, <2>3, <3>1 DEF BuildsOK, Made
<1>8. RunOK' /\ PodsOK' /\ TogetherOK'
  BY <1>1 DEF RunOK, PodsOK, TogetherOK, Submitted
<1>9. TriedOK'
  BY <1>1 DEF TriedOK, Recorded, PodsOK, Submitted, Retries
<1> QED
  BY <1>6, <1>7, <1>8, <1>9

(* What is submitted is one of the builds, and nothing has run before.     *)
LEMMA SubmitInv ==
  ASSUME Inv, NEW i \in DOMAIN built, Submit(i)
  PROVE  Inv'
<1> USE DEF Inv
<1>1. /\ stage = "building" /\ stage' \in {"running", "refused"}
      /\ UNCHANGED <<job, built, pinned, pod, tried, result, worked, cut>>
      /\ object' = object
  BY DEF Submit, clusterVars, object
<1>2. /\ \A t \in Task : tried[t] = << >>
      /\ \A t \in Task : pod[t].at = "none"
  BY <1>1 DEF PodsOK, Submitted
<1>3. TypeOK'
  BY <1>1 DEF TypeOK, Builds, Models, Made, Stage
<1>4. BuildsOK'
  BY <1>1 DEF BuildsOK, Made
<1>5. RunOK'
  <2> SUFFICES ASSUME Submitted'
               PROVE  RunOK'
    BY DEF RunOK
  <2> DEFINE m == built[i].model[1]
             w == [name     |-> IF m.name # "" THEN m.name ELSE "generated",
                   build    |-> i,
                   affinity |-> m.affinity,
                   pinned   |-> m.selector # Nil /\ pinned[m.selector[1]],
                   claims   |-> m.claims,
                   retry    |-> m.retry]
  <2>1. wf' = Ptr(w) /\ built[i].model # Nil
    BY DEF Submit, Submitted
  <2>2. wf' # Nil /\ wf'[1] = w
    BY <2>1 DEF Ptr, Nil
  <2>3. /\ w.build = i
        /\ w.affinity = m.affinity
        /\ w.claims = m.claims
        /\ w.retry = m.retry
        /\ w.pinned <=> m.selector # Nil /\ pinned[m.selector[1]]
    OBVIOUS
  <2> QED
    BY <1>1, <2>1, <2>2, <2>3, ZenonT(40) DEF RunOK, ModelOf
<1>6. PodsOK' /\ TogetherOK'
  BY <1>1, <1>2 DEF PodsOK, TogetherOK, Live
<1>7. TriedOK'
  BY <1>1, <1>2 DEF TriedOK, Recorded
<1> QED
  BY <1>3, <1>4, <1>5, <1>6, <1>7

----------------------------------------------------------------------------
(* The cluster works on what was submitted and leaves it as it is.         *)
LEMMA WorkflowKept ==
  ASSUME Inv, stage = "running", stage' \in {"running", "over"},
         UNCHANGED <<job, built, pinned, wf>>
  PROVE  /\ object' = object
         /\ Protected' = Protected
         /\ Submitted /\ Submitted'
         /\ \A e, n : Retries(e, n)' = Retries(e, n)
         /\ job' \in Job /\ stage' \in Stage
         /\ built' \in Seq(Builds')
         /\ pinned' \in [0 .. MaxBuilds -> BOOLEAN]
         /\ BuildsOK' /\ RunOK'
<1>1. object' = object
  BY DEF object
<1>2. Builds' = Builds
  BY <1>1 DEF Builds, Models, Made
<1>3. BuildsOK'
  BY <1>1 DEF Inv, BuildsOK, Made
<1>4. RunOK'
  BY DEF Inv, RunOK, Submitted, ModelOf
<1>5. Protected' = Protected
  BY <1>1 DEF Protected
<1>6. \A e, n : Retries(e, n)' = Retries(e, n)
  BY DEF Retries
<1> QED
  BY <1>1, <1>2, <1>3, <1>4, <1>5, <1>6 DEF Inv, TypeOK, Stage, Submitted

(* The default affinity has a term in every workflow that has a claim.     *)
LEMMA TermOfEveryPod ==
  ASSUME Inv, Submitted, Protected, object.claims # << >>, NEW t \in Task
  PROVE  \E term : term \in Terms(t)
<1> DEFINE b == wf[1].build
<1>1. /\ b \in DOMAIN built
      /\ built[b].model # Nil
      /\ wf[1].affinity = built[b].model[1].affinity
  BY DEF Inv, RunOK, ModelOf
<1>2. /\ HasName(object)
      /\ built[b].model = Ptr(Made(built[b].config, b))
  BY <1>1 DEF Inv, BuildsOK, Accepts
<1>3. built[b].config \in Config
  <2>1. built[b] \in Builds
    BY <1>1 DEF Inv, TypeOK
  <2> QED
    BY <2>1 DEF Builds
<1>4. wf[1].affinity = resolveAffinity(object)
  <2>1. built[b].model[1] = Made(built[b].config, b)
    BY <1>2 DEF Ptr
  <2> HIDE DEF b
  <2> QED
    BY <1>1, <1>3, <2>1, MadeFields
<1>5. resolveAffinity(object) = DefaultPodAffinityFor(object)
  BY DEF resolveAffinity, Protected
<1>6. PICK x : DefaultPodAffinityFor(object) = Ptr({x})
  BY <1>2 DEF DefaultPodAffinityFor, HasName, ColocateByLabel
<1>7. AffinityOf(t) = Ptr({x})
  BY <1>4, <1>5, <1>6 DEF AffinityOf, Protected
<1>8. Terms(t) = {x}
  BY <1>7 DEF Terms, Ptr, Nil
<1> QED
  BY <1>8

(* A pod is bound where the live pods of its workflow are.                 *)
LEMMA BindInv ==
  ASSUME Inv, NEW t \in Task, NEW n \in Node, Bind(t, n)
  PROVE  Inv'
<1> USE DEF Inv
<1>1. /\ stage = "running" /\ stage' = "running"
      /\ pod[t].at = "pending"
      /\ pod' = [pod EXCEPT ![t] = [at |-> "bound", node |-> n]]
      /\ \A term \in Terms(t) : Near(term, n)
      /\ UNCHANGED <<job, built, pinned, wf, tried, result, worked, cut>>
  BY DEF Bind
<1>2. pod \in [Task -> [at : {"none", "pending", "bound", "running"},
                       node : Node \union {NoNode}]]
  BY DEF TypeOK
<1>3. TypeOK' /\ BuildsOK' /\ RunOK'
  BY <1>1, <1>2, WorkflowKept DEF TypeOK
<1>4. PodsOK'
  BY <1>1, <1>2 DEF PodsOK, Submitted
<1>5. TogetherOK'
  <2> SUFFICES ASSUME Protected, object.claims # << >>,
                      NEW u \in Task, NEW v \in Task, Live(u)', Live(v)'
               PROVE  pod'[u].node = pod'[v].node
    BY <1>1, WorkflowKept DEF TogetherOK
  <2>1. PICK term : term \in Terms(t)
    BY <1>1, WorkflowKept, TermOfEveryPod
  <2>2. LiveOn(n) # {} \/ \A w \in Task : ~Live(w)
    BY <1>1, <2>1 DEF Near
  <2>3. \A w \in Task : Live(w) => pod[w].node = n
    BY <1>1, <2>2, WorkflowKept DEF TogetherOK, LiveOn
  <2>4. pod'[t].node = n
    BY <1>1, <1>2
  <2>5. \A w \in Task : Live(w)' => pod'[w].node = n
    BY <1>1, <1>2, <2>3, <2>4 DEF Live
  <2> QED
    BY <2>5
<1>6. TriedOK'
  BY <1>1, WorkflowKept DEF TriedOK, Recorded
<1> QED
  BY <1>3, <1>4, <1>5, <1>6

LEMMA StartInv ==
  ASSUME Inv, NEW t \in Task, Start(t)
  PROVE  Inv'
<1> USE DEF Inv
<1>1. /\ stage = "running" /\ stage' = "running"
      /\ pod[t].at = "bound"
      /\ pod' = [pod EXCEPT ![t].at = "running"]
      /\ UNCHANGED <<job, built, pinned, wf, tried, result, worked, cut>>
  BY DEF Start
<1>2. pod \in [Task -> [at : {"none", "pending", "bound", "running"},
                       node : Node \union {NoNode}]]
  BY DEF TypeOK
<1>3. TypeOK' /\ BuildsOK' /\ RunOK'
  BY <1>1, <1>2, WorkflowKept DEF TypeOK
<1>4. PodsOK'
  BY <1>1, <1>2 DEF PodsOK, Submitted
<1>5. TogetherOK'
  <2>1. \A u \in Task : (Live(u)' => Live(u)) /\ pod'[u].node = pod[u].node
    BY <1>1, <1>2 DEF Live
  <2> QED
    BY <1>1, <2>1, WorkflowKept, ZenonT(40) DEF TogetherOK
<1>6. TriedOK'
  BY <1>1, WorkflowKept DEF TriedOK, Recorded
<1> QED
  BY <1>3, <1>4, <1>5, <1>6

LEMMA CreatePodInv ==
  ASSUME Inv, NEW t \in Task, CreatePod(t)
  PROVE  Inv'
<1> USE DEF Inv
<1>1. /\ stage = "running" /\ stage' = "running"
      /\ t \in job.tasks /\ result[t] = "todo"
      /\ pod' = [pod EXCEPT ![t] = [at |-> "pending", node |-> NoNode]]
      /\ UNCHANGED <<job, built, pinned, wf, tried, result, worked, cut>>
  BY DEF CreatePod, Ready
<1>2. pod \in [Task -> [at : {"none", "pending", "bound", "running"},
                       node : Node \union {NoNode}]]
  BY DEF TypeOK
<1>3. TypeOK' /\ BuildsOK' /\ RunOK'
  BY <1>1, <1>2, WorkflowKept DEF TypeOK
<1>4. PodsOK'
  BY <1>1, <1>2 DEF PodsOK, Submitted
<1>5. TogetherOK'
  <2>1. \A u \in Task : Live(u)' => Live(u) /\ pod'[u].node = pod[u].node
    BY <1>1, <1>2 DEF Live
  <2> QED
    BY <1>1, <2>1, WorkflowKept, ZenonT(40) DEF TogetherOK
<1>6. TriedOK'
  BY <1>1, WorkflowKept DEF TriedOK, Recorded
<1> QED
  BY <1>3, <1>4, <1>5, <1>6

(* A task without a pod is decided without one.                            *)
LEMMA SkipOrOmitInv ==
  ASSUME Inv, NEW t \in Task, Skip(t) \/ Omit(t)
  PROVE  Inv'
<1> USE DEF Inv
<1>1. PICK r \in {"Skipped", "Omitted"} :
        /\ result' = [result EXCEPT ![t] = r]
        /\ r = "Skipped" => tried[t] = << >>
  BY DEF Skip, Omit
<1>2. /\ stage = "running" /\ stage' = "running"
      /\ pod[t].at = "none"
      /\ UNCHANGED <<job, built, pinned, wf, pod, tried, worked, cut>>
  BY DEF Skip, Omit, Ready
<1>3. result \in [Task -> Outcome]
  BY DEF TypeOK
<1>4. TypeOK' /\ BuildsOK' /\ RunOK'
  BY <1>1, <1>2, <1>3, WorkflowKept DEF TypeOK, Outcome
<1>5. PodsOK'
  BY <1>1, <1>2, <1>3 DEF PodsOK, Submitted
<1>6. TogetherOK'
  BY <1>2, WorkflowKept DEF TogetherOK, Live
<1>7. TriedOK'
  BY <1>1, <1>2, <1>3, WorkflowKept DEF TriedOK, Recorded
<1> QED
  BY <1>4, <1>5, <1>6, <1>7

(* A pod that ends is recorded; a task is open again only for a retry.     *)
LEMMA FinishInv ==
  ASSUME Inv, NEW t \in Task, NEW e \in End, Finish(t, e)
  PROVE  Inv'
<1> USE DEF Inv
<1> DEFINE n == Len(tried[t])
           again == Retries(e, n + 1)
<1>1. /\ stage = "running" /\ stage' = "running"
      /\ pod[t].at = "running"
      /\ pod' = [pod EXCEPT ![t] = NoPod]
      /\ tried' = [tried EXCEPT ![t] = Append(@, e)]
      /\ result' = [result EXCEPT ![t] = IF again THEN "todo" ELSE e.phase]
      /\ worked' = IF e.exit = <<"0">> THEN worked \union {t} ELSE worked
      /\ UNCHANGED <<job, built, pinned, wf, cut>>
  BY DEF Finish
<1>2. /\ pod \in [Task -> [at : {"none", "pending", "bound", "running"},
                          node : Node \union {NoNode}]]
      /\ tried \in [Task -> Seq(End)]
      /\ result \in [Task -> Outcome]
      /\ worked \subseteq Task
  BY DEF TypeOK
<1>3. e.phase \in {"Succeeded", "Failed", "Error"}
  BY DEF End, Success, SidecarFailure, Failure, OutOfMemory, Evicted, Lost
<1>4. TypeOK' /\ BuildsOK' /\ RunOK'
  <2>1. tried' \in [Task -> Seq(End)]
    BY <1>1, <1>2
  <2>2. result' \in [Task -> Outcome]
    BY <1>1, <1>2, <1>3 DEF Outcome
  <2>3. pod' \in [Task -> [at : {"none", "pending", "bound", "running"},
                          node : Node \union {NoNode}]]
    BY <1>1, <1>2 DEF NoPod
  <2> QED
    BY <1>1, <1>2, <2>1, <2>2, <2>3, WorkflowKept DEF TypeOK
<1>5. PodsOK'
  BY <1>1, <1>2 DEF PodsOK, Submitted, NoPod
<1>6. TogetherOK'
  <2>1. \A u \in Task : Live(u)' => Live(u) /\ pod'[u].node = pod[u].node
    BY <1>1, <1>2 DEF Live, NoPod
  <2> QED
    BY <1>1, <2>1, WorkflowKept, ZenonT(40) DEF TogetherOK
<1>7. TriedOK'
  <2>1. result[t] = "todo"
    BY <1>1 DEF PodsOK
  <2>2. /\ Len(tried'[t]) = n + 1
        /\ n \in Nat
        /\ \A i \in 1 .. n : tried'[t][i] = tried[t][i]
        /\ tried'[t][n + 1] = e
        /\ DOMAIN tried'[t] = 1 .. n + 1
        /\ DOMAIN tried[t] = 1 .. n
    BY <1>1, <1>2
  <2>3. \A u \in Task : u # t =>
          tried'[u] = tried[u] /\ result'[u] = result[u] /\ (u \in worked' <=> u \in worked)
    BY <1>1, <1>2
  <2>4. result'[t] = IF again THEN "todo" ELSE e.phase
    BY <1>1, <1>2
  <2>5. \A i \in 1 .. n : Retries(tried[t][i], i)
    <3>1. \A i \in 1 .. n - 1 : Retries(tried[t][i], i)
      BY DEF TriedOK, Recorded
    <3>2. n # 0 => Retries(tried[t][n], n)
      BY <1>1, <1>2, <2>1, <2>2 DEF TriedOK, Recorded
    <3> QED
      BY <2>2, <3>1, <3>2
  <2>6. t \in worked' <=> \E i \in DOMAIN tried'[t] : tried'[t][i].exit = <<"0">>
    <3>1. t \in worked <=> \E i \in DOMAIN tried[t] : tried[t][i].exit = <<"0">>
      BY DEF TriedOK, Recorded
    <3> QED
      BY <1>1, <2>2, <3>1, SMTT(30)
  <2>7. \A x, i : Retries(x, i)' = Retries(x, i)
    BY <1>1, WorkflowKept
  <2>8. ASSUME NEW u \in Task
        PROVE  Recorded(u)'
    <3>1. CASE u = t
      <4>1. \A i \in 1 .. Len(tried'[t]) - 1 : Retries(tried'[t][i], i)
        BY <2>2, <2>5
      <4>2. result'[t] = "todo" => Retries(tried'[t][Len(tried'[t])], Len(tried'[t]))
        BY <1>3, <2>2, <2>4
      <4>3. tried'[t] # << >> /\ result'[t] # "Skipped"
        BY <1>3, <2>2, <2>4
      <4> HIDE DEF again, n
      <4> QED
        BY <2>6, <2>7, <3>1, <4>1, <4>2, <4>3 DEF Recorded
    <3>2. CASE u # t
      BY <1>1, <2>3, <2>7, <3>2, ZenonT(40) DEF TriedOK, Recorded
    <3> QED
      BY <3>1, <3>2
  <2> QED
    BY <2>8 DEF TriedOK
<1> QED
  BY <1>4, <1>5, <1>6, <1>7

(* A workflow that is cut short leaves no pod, and counts the live ones.   *)
LEMMA CutInv ==
  ASSUME Inv, Cut
  PROVE  Inv'
<1> USE DEF Inv
<1>1. /\ stage = "running" /\ stage' = "over" /\ cut' = TRUE
      /\ pod' = [t \in Task |-> NoPod]
      /\ tried' = [t \in Task |-> IF Live(t) THEN Append(tried[t], Evicted) ELSE tried[t]]
      /\ UNCHANGED <<job, built, pinned, wf, result, worked>>
  BY DEF Cut
<1>2. /\ tried \in [Task -> Seq(End)]
      /\ Evicted \in End
      /\ Evicted.exit # <<"0">>
  BY DEF TypeOK, End, Evicted, Nil
<1>3. TypeOK' /\ BuildsOK' /\ RunOK'
  <2>1. tried' \in [Task -> Seq(End)]
    BY <1>1, <1>2
  <2>2. pod' \in [Task -> [at : {"none", "pending", "bound", "running"},
                          node : Node \union {NoNode}]]
    BY <1>1 DEF NoPod
  <2> QED
    BY <1>1, <2>1, <2>2, WorkflowKept DEF TypeOK
<1>4. PodsOK' /\ TogetherOK'
  BY <1>1 DEF PodsOK, TogetherOK, Submitted, NoPod, Live
<1>5. TriedOK'
  <2>1. \A x, i : Retries(x, i)' = Retries(x, i)
    BY <1>1, WorkflowKept
  <2>2. ASSUME NEW u \in Task
        PROVE  Recorded(u)'
    <3>1. CASE ~Live(u)
      <4>1. tried'[u] = tried[u]
        BY <1>1, <3>1
      <4> QED
        BY <1>1, <2>1, <4>1 DEF TriedOK, Recorded
    <3>2. CASE Live(u)
      <4> DEFINE n == Len(tried[u])
      <4>1. result[u] = "todo"
        BY <3>2 DEF PodsOK, Live
      <4>2. /\ Len(tried'[u]) = n + 1
            /\ n \in Nat
            /\ \A i \in 1 .. n : tried'[u][i] = tried[u][i]
            /\ tried'[u][n + 1] = Evicted
            /\ DOMAIN tried'[u] = 1 .. n + 1
            /\ DOMAIN tried[u] = 1 .. n
        BY <1>1, <1>2, <3>2
      <4>3. \A i \in 1 .. n : Retries(tried[u][i], i)
        <5>1. \A i \in 1 .. n - 1 : Retries(tried[u][i], i)
          BY DEF TriedOK, Recorded
        <5>2. n # 0 => Retries(tried[u][n], n)
          BY <1>1, <1>2, <4>1, <4>2 DEF TriedOK, Recorded
        <5> QED
          BY <4>2, <5>1, <5>2
      <4>4. u \in worked <=> \E i \in DOMAIN tried[u] : tried[u][i].exit = <<"0">>
        BY DEF TriedOK, Recorded
      <4>5. u \in worked' <=> \E i \in DOMAIN tried'[u] : tried'[u][i].exit = <<"0">>
        <5>1. worked' = worked
          BY <1>1
        <5> HIDE DEF n
        <5> QED
          BY <1>2, <4>2, <4>4, <5>1
      <4>6. \A i \in 1 .. Len(tried'[u]) - 1 : Retries(tried'[u][i], i)
        BY <4>2, <4>3
      <4>7. stage' = "over" /\ result'[u] = "todo"
        BY <1>1, <4>1
      <4> HIDE DEF n
      <4> QED
        BY <2>1, <4>5, <4>6, <4>7 DEF Recorded
    <3> QED
      BY <3>1, <3>2
  <2> QED
    BY <2>2 DEF TriedOK
<1> QED
  BY <1>3, <1>4, <1>5

LEMMA ConcludeInv ==
  ASSUME Inv, Conclude
  PROVE  Inv'
<1> USE DEF Inv
<1>1. /\ stage = "running" /\ stage' = "over"
      /\ \A t \in job.tasks : result[t] # "todo"
      /\ UNCHANGED <<job, built, pinned, wf, pod, tried, result, worked, cut>>
  BY DEF Conclude, clusterVars
<1>2. TypeOK' /\ BuildsOK' /\ RunOK'
  BY <1>1, WorkflowKept DEF TypeOK
<1>3. PodsOK'
  BY <1>1 DEF PodsOK, Submitted
<1>4. TogetherOK'
  BY <1>1, WorkflowKept DEF TogetherOK, Live
<1>5. TriedOK'
  BY <1>1, WorkflowKept DEF TriedOK, Recorded
<1> QED
  BY <1>2, <1>3, <1>4, <1>5

----------------------------------------------------------------------------
(* The inductive invariant of SubmittedWorkflow: types; builds and what    *)
(* was submitted agree; pods, records and outcomes of the tasks agree; and *)
(* under the default affinity the live pods are together.                  *)
THEOREM InvHolds == Spec => []Inv
<1>1. Inv /\ [Next]_vars => Inv'
  <2> SUFFICES ASSUME Inv, [Next]_vars PROVE Inv'
    OBVIOUS
  <2>1. CASE Compose
    BY <2>1, Unseen DEF Compose
  <2>2. ASSUME NEW g \in Config, NEW ok \in BOOLEAN, Build(g, ok) PROVE Inv'
    BY <2>2, BuildInv
  <2>3. ASSUME NEW i \in DOMAIN built, Submit(i) PROVE Inv'
    BY <2>3, SubmitInv
  <2>4. ASSUME NEW t \in Task, CreatePod(t) PROVE Inv'
    BY <2>4, CreatePodInv
  <2>5. ASSUME NEW t \in Task, Skip(t) \/ Omit(t) PROVE Inv'
    BY <2>5, SkipOrOmitInv
  <2>6. ASSUME NEW t \in Task, Start(t) PROVE Inv'
    BY <2>6, StartInv
  <2>7. ASSUME NEW t \in Task, NEW n \in Node, Bind(t, n) PROVE Inv'
    BY <2>7, BindInv
  <2>8. ASSUME NEW t \in Task, NEW e \in End, Finish(t, e) PROVE Inv'
    BY <2>8, FinishInv
  <2>9. CASE Conclude \/ Cut
    BY <2>9, ConcludeInv, CutInv
  <2>10. CASE UNCHANGED vars
    BY <2>10, Unseen DEF vars
  <2> QED
    BY <2>1, <2>2, <2>3, <2>4, <2>5, <2>6, <2>7, <2>8, <2>9, <2>10
    DEF Next, Program, Cluster
<1> QED
  BY <1>1, InitInv, PTL DEF Spec

----------------------------------------------------------------------------
(* What was submitted comes from the object.                               *)
LEMMA RunIsTheObject ==
  ASSUME Inv, Submitted
  PROVE  /\ wf[1].build \in DOMAIN built
         /\ wf[1].build \in 1 .. MaxBuilds
         /\ built[wf[1].build].config \in Config
         /\ built[wf[1].build].model # Nil
         /\ ModelOf(wf[1].build) = Made(built[wf[1].build].config, wf[1].build)
         /\ Accepts(object, TRUE)
         /\ ModelOf(wf[1].build).volumes = buildVolumes(object)[1]
         /\ wf[1].retry = object.retry
         /\ wf[1].claims = buildVolumeClaimTemplates(object)[1]
<1> DEFINE b == wf[1].build
<1>1. /\ b \in DOMAIN built
      /\ built[b].model # Nil
      /\ wf[1].retry = ModelOf(b).retry
      /\ wf[1].claims = ModelOf(b).claims
  BY DEF Inv, RunOK
<1>2. /\ Accepts(object, TRUE)
      /\ built[b].model = Ptr(Made(built[b].config, b))
  BY <1>1 DEF Inv, BuildsOK
<1>3. built[b].config \in Config /\ b \in 1 .. MaxBuilds
  <2>1. built \in Seq(Builds) /\ Len(built) <= MaxBuilds
    BY DEF Inv, TypeOK, BuildsOK
  <2>2. built[b] \in Builds /\ b \in 1 .. MaxBuilds
    BY <1>1, <2>1, BoundAssumption
  <2> QED
    BY <2>2 DEF Builds
<1>4. ModelOf(b) = Made(built[b].config, b)
  BY <1>2 DEF Ptr, ModelOf
<1> HIDE DEF b
<1>5. /\ ModelOf(b).retry = object.retry
      /\ ModelOf(b).volumes = buildVolumes(object)[1]
      /\ ModelOf(b).claims = buildVolumeClaimTemplates(object)[1]
  BY <1>3, <1>4, MadeFields
<1> QED
  BY <1>1, <1>2, <1>3, <1>4, <1>5 DEF b

(* No pod waits on a node for a claim that its siblings have attached to   *)
(* another one.                                                            *)
THEOREM NoMultiAttachHolds == Spec => []NoMultiAttach
<1>1. Inv => NoMultiAttach
  <2> SUFFICES ASSUME Inv, Submitted, Protected,
                      NEW t \in Task, pod[t].at = "bound",
                      NEW u \in Task, pod[u].at = "running", ShareClaim(t, u)
               PROVE  pod[u].node = pod[t].node
    BY DEF NoMultiAttach, Attachable
  <2>1. DOMAIN wf[1].claims # {}
    BY DEF ShareClaim, Claims
  <2>2. object.claims # << >>
    BY <2>1, RunIsTheObject, NoClaims
  <2> QED
    BY <2>2 DEF Inv, TogetherOK, Live
<1> QED
  BY <1>1, InvHolds, PTL

(* Hooks reach the models of their own configuration only.                 *)
THEOREM HooksStayHomeHolds == Spec => []HooksStayHome
<1>1. Inv => HooksStayHome
  <2> SUFFICES ASSUME Inv, Submitted, object.selector = Nil
               PROVE  wf[1].pinned <=> HookOfRun = "pin"
    BY DEF HooksStayHome
  <2> DEFINE b == wf[1].build
  <2>1. wf[1].pinned <=> ModelOf(b).selector # Nil /\ pinned[ModelOf(b).selector[1]]
    BY DEF Inv, RunOK
  <2>2. ModelOf(b).selector = IF HookOfRun = "pin" THEN Ptr(b) ELSE Nil
    <3>1. /\ ModelOf(b) = Made(built[b].config, b)
          /\ built[b].config \in Config
      BY RunIsTheObject
    <3> HIDE DEF b
    <3>2. Made(built[b].config, b).selector =
            IF HookOf[built[b].config] = "pin" THEN Ptr(b) ELSE Nil
      BY <3>1, MadeFields
    <3> QED
      BY <3>1, <3>2 DEF HookOfRun, b
  <2>3. pinned[b] <=> HookOfRun = "pin"
    BY RunIsTheObject DEF Inv, BuildsOK, HookOfRun
  <2> QED
    BY <2>1, <2>2, <2>3 DEF Ptr, Nil
<1> QED
  BY <1>1, InvHolds, PTL

(* A retry made by NewRetryOnFailure is bounded, and never repeats a pod   *)
(* that ran out of memory.                                                 *)
THEOREM RetriesAreUsefulHolds == Spec => []RetriesAreUseful
<1>1. Inv => RetriesAreUseful
  <2> SUFFICES ASSUME Inv, job.retryOnFailure # Nil, NEW t \in Task
               PROVE  /\ Len(tried[t]) <= job.retryOnFailure[1] + 1
                      /\ \A i \in 1 .. Len(tried[t]) - 1 :
                           tried[t][i] \notin {Success, OutOfMemory, Lost}
                      /\ pod[t].at # "none" /\ tried[t] # << >> =>
                           tried[t][Len(tried[t])] \notin {Success, OutOfMemory, Lost}
    BY DEF RetriesAreUseful
  <2> DEFINE limit == job.retryOnFailure[1]
             n == Len(tried[t])
  <2>1. /\ limit \in Nat
        /\ object.retry = Ptr(NewRetryOnFailure(limit))
    BY JobAssumption DEF Inv, TypeOK, object
  <2>2. tried[t] \in Seq(End) /\ n \in Nat
    BY DEF Inv, TypeOK
  <2> HIDE DEF limit
  <2>3. ASSUME Submitted, NEW e, NEW k, Retries(e, k)
        PROVE  k <= limit /\ e \notin {Success, OutOfMemory, Lost}
    <3>1. wf[1].retry = Ptr(NewRetryOnFailure(limit))
      BY <2>1, <2>3, RunIsTheObject
    <3>2. wf[1].retry[1] = NewRetryOnFailure(limit)
      BY <3>1 DEF Ptr
    <3> DEFINE r == NewRetryOnFailure(limit)
    <3>3. r.limit # Nil /\ r.limit[1] = limit
      BY DEF NewRetryOnFailure, Ptr, Nil
    <3>4. k <= limit
      BY <2>3, <3>2, <3>3 DEF Retries
    <3>5. e.phase = "Failed" /\ e.exit # <<"137">>
      BY <2>3, <3>2 DEF Retries, NewRetryOnFailure, Ptr
    <3> QED
      BY <3>4, <3>5 DEF Success, OutOfMemory, Lost
  <2>4. /\ \A i \in 1 .. n - 1 : Retries(tried[t][i], i)
        /\ stage = "running" /\ result[t] = "todo" /\ tried[t] # << >> =>
             Retries(tried[t][n], n)
    BY DEF Inv, TriedOK, Recorded
  <2>5. /\ tried[t] # << >> => Submitted
        /\ pod[t].at # "none" => stage = "running" /\ result[t] = "todo"
    BY DEF Inv, PodsOK
  <2>6. n <= limit + 1
    <3>1. n > 1 => Retries(tried[t][n - 1], n - 1) /\ Submitted
      BY <2>2, <2>4, <2>5
    <3> QED
      BY <2>1, <2>2, <2>3, <3>1
  <2>7. \A i \in 1 .. n - 1 : tried[t][i] \notin {Success, OutOfMemory, Lost}
    BY <2>2, <2>3, <2>4, <2>5
  <2>8. pod[t].at # "none" /\ tried[t] # << >> =>
          tried[t][n] \notin {Success, OutOfMemory, Lost}
    BY <2>3, <2>4, <2>5
  <2> QED
    BY <2>6, <2>7, <2>8 DEF limit
<1> QED
  BY <1>1, InvHolds, PTL

(* A workflow that failed with all its pods done is told from one that did *)
(* not do its work.                                                        *)
THEOREM FalseFailuresAreDetectedHolds == Spec => []FalseFailuresAreDetected
<1>1. Inv => FalseFailuresAreDetected
  <2> DEFINE verdict == AllPodNodesExitedZero(ParseStatus(Answer))
             ran == {t \in job.tasks : result[t] # "Skipped"}
  <2> SUFFICES ASSUME Inv, stage = "over", ParseWorkflowStatus(Phase) = Ptr("Failed"),
                      ~cut, ~ \E t \in job.tasks : result[t] = "Omitted"
               PROVE  /\ verdict => ran \subseteq worked
                      /\ (ran \subseteq worked /\ \A t \in Task : Len(tried[t]) <= 1)
                           => verdict
    BY DEF FalseFailuresAreDetected
  <2> DEFINE pods == Pods([phase |-> Phase, nodes |-> StatusNodes])
  <2>1. verdict <=> pods # {} /\ \A n \in pods : n.exit = <<"0">>
    BY DEF AllPodNodesExitedZero, ParseStatus, Answer, Ptr
  <2>2. \A t \in Task : pod[t].at = "none"
    BY DEF Inv, PodsOK
  <2>3. job.tasks \subseteq Task
    BY JobAssumption DEF Inv, TypeOK
  <2>4. ASSUME NEW n \in pods
        PROVE  \E t \in job.tasks : \E i \in DOMAIN tried[t] : n.exit = tried[t][i].exit
    <3>1. n \in StatusNodes /\ n.type = "Pod"
      BY DEF Pods
    <3>2. n # [type |-> "DAG", exit |-> Nil] /\ n \notin NoPods
      BY <3>1 DEF NoPods
    <3>3. n \notin OtherPods
      BY <2>2, <2>3 DEF OtherPods
    <3>4. n \in EndedPods
      BY <3>1, <3>2, <3>3 DEF StatusNodes
    <3>5. PICK t \in job.tasks :
            n \in {[type |-> "Pod", exit |-> tried[t][i].exit] : i \in DOMAIN tried[t]}
      BY <3>4 DEF EndedPods
    <3>6. PICK i \in DOMAIN tried[t] : n = [type |-> "Pod", exit |-> tried[t][i].exit]
      BY <3>5
    <3> QED
      BY <3>6
  <2>5. ASSUME NEW t \in job.tasks, NEW i \in DOMAIN tried[t]
        PROVE  [type |-> "Pod", exit |-> tried[t][i].exit] \in pods
    <3> DEFINE n == [type |-> "Pod", exit |-> tried[t][i].exit]
               nodesOf(u) == {[type |-> "Pod", exit |-> tried[u][k].exit] : k \in DOMAIN tried[u]}
    <3>1. n \in nodesOf(t)
      OBVIOUS
    <3>2. nodesOf(t) \subseteq StatusNodes
      BY DEF StatusNodes, EndedPods
    <3>3. n.type = "Pod"
      OBVIOUS
    <3> QED
      BY <3>1, <3>2, <3>3 DEF Pods
  <2>6. \A t \in job.tasks : t \in worked <=> \E i \in DOMAIN tried[t] : tried[t][i].exit = <<"0">>
    BY <2>3 DEF Inv, TriedOK, Recorded
  <2>7. \A t \in ran : tried[t] \in Seq(End) /\ tried[t] # << >>
    <3>1. \A t \in ran : result[t] \in {"Succeeded", "Failed", "Error"}
      BY <2>3 DEF Inv, TypeOK, PodsOK, Outcome
    <3> QED
      BY <2>3, <3>1 DEF Inv, TypeOK, TriedOK, Recorded
  <2>8. \A t \in job.tasks : tried[t] # << >> => t \in ran
    BY <2>3 DEF Inv, TriedOK, Recorded
  <2> HIDE DEF pods, verdict
  <2>9. ASSUME verdict, NEW t \in ran PROVE t \in worked
    <3>1. 1 \in DOMAIN tried[t]
      BY <2>7, <2>9
    <3>2. tried[t][1].exit = <<"0">>
      BY <2>1, <2>5, <2>9, <3>1
    <3> QED
      BY <2>6, <2>9, <3>1, <3>2
  <2>10. ASSUME ran \subseteq worked, \A t \in Task : Len(tried[t]) <= 1
         PROVE  verdict
    <3>1. \A n \in pods : n.exit = <<"0">>
      <4> TAKE n \in pods
      <4>1. PICK t \in job.tasks : \E i \in DOMAIN tried[t] : n.exit = tried[t][i].exit
        BY <2>4
      <4>2. t \in ran /\ tried[t] \in Seq(End) /\ Len(tried[t]) <= 1
        BY <2>3, <2>7, <2>8, <2>10, <4>1
      <4>3. DOMAIN tried[t] \subseteq {1}
        BY <4>2
      <4> QED
        BY <2>6, <2>10, <4>1, <4>2, <4>3
    <3>2. pods # {}
      <4>1. Phase = "Failed"
        BY DEF ParseWorkflowStatus, Ptr
      <4>2. PICK t \in job.tasks : result[t] \notin {"Succeeded", "Skipped"}
        BY <4>1 DEF Phase
      <4>3. 1 \in DOMAIN tried[t]
        BY <2>7, <4>2
      <4> QED
        BY <2>5, <4>3
    <3> QED
      BY <2>1, <3>1, <3>2
  <2> QED
    BY <2>9, <2>10
<1> QED
  BY <1>1, InvHolds, PTL

(* What a list builder answers when no builder of the list fails.          *)
LEMMA BuiltVolumes ==
  ASSUME NEW w, buildVolumes(w) # Nil
  PROVE  /\ DOMAIN buildVolumes(w)[1] = DOMAIN w.volumes
         /\ \A i \in DOMAIN w.volumes :
              LET v == w.volumes[i]
                  m == buildVolumes(w)[1][i]
              IN  /\ m.name = v.name
                  /\ m.kind = v.kind
                  /\ m.of = Referent(v)
                  /\ m.sources = v.sources
                  /\ v.kind = "projected" => \A s \in v.sources : SourceAccepted(s)
<1>1. \A i \in DOMAIN w.volumes : BuildVolume(w.volumes[i]) # Nil
  BY DEF buildVolumes, BuildAll
<1>2. buildVolumes(w)[1] = [i \in DOMAIN w.volumes |-> BuildVolume(w.volumes[i])[1]]
  BY <1>1 DEF buildVolumes, BuildAll, Ptr
<1>3. ASSUME NEW v, BuildVolume(v) # Nil
      PROVE  /\ BuildVolume(v)[1] = [name |-> v.name, kind |-> v.kind,
                                     of |-> Referent(v), sources |-> v.sources]
             /\ v.kind = "projected" => \A s \in v.sources : SourceAccepted(s)
  BY <1>3 DEF BuildVolume, Ptr
<1>4. DOMAIN buildVolumes(w)[1] = DOMAIN w.volumes
  BY <1>2
<1>5. ASSUME NEW i \in DOMAIN w.volumes
      PROVE  LET v == w.volumes[i]
                 m == buildVolumes(w)[1][i]
             IN  /\ m.name = v.name
                 /\ m.kind = v.kind
                 /\ m.of = Referent(v)
                 /\ m.sources = v.sources
                 /\ v.kind = "projected" => \A s \in v.sources : SourceAccepted(s)
  <2> DEFINE v == w.volumes[i]
  <2>1. buildVolumes(w)[1][i] = BuildVolume(v)[1]
    BY <1>2
  <2>2. BuildVolume(v) # Nil
    BY <1>1
  <2> HIDE DEF v
  <2>3. /\ BuildVolume(v)[1] = [name |-> v.name, kind |-> v.kind,
                                of |-> Referent(v), sources |-> v.sources]
        /\ v.kind = "projected" => \A s \in v.sources : SourceAccepted(s)
    BY <1>3, <2>2
  <2> QED
    BY <2>1, <2>3 DEF v
<1> QED
  BY <1>4, <1>5

(* A mount of a declared volume finds it, and the volume its object.       *)
THEOREM MountsFindTheirVolumesHolds == Spec => []MountsFindTheirVolumes
<1>1. Inv => MountsFindTheirVolumes
  <2> SUFFICES ASSUME Inv, Submitted, NEW i \in DOMAIN object.volumes
               PROVE  LET v == object.volumes[i]
                          models == ModelOf(wf[1].build).volumes
                      IN  \E j \in DOMAIN models :
                            /\ models[j].name = BuildVolumeMount(v)
                            /\ models[j].kind = v.kind
                            /\ v.of # "" /\ v.kind # "pvc" => models[j].of = v.of
                            /\ v.of = "" /\ v.kind \in {"configMap", "secret"} =>
                                 models[j].of = v.name
    BY DEF MountsFindTheirVolumes
  <2>1. /\ buildVolumes(object) # Nil
        /\ ModelOf(wf[1].build).volumes = buildVolumes(object)[1]
    BY RunIsTheObject DEF Accepts
  <2> DEFINE v == object.volumes[i]
             m == ModelOf(wf[1].build).volumes[i]
  <2>2. /\ i \in DOMAIN ModelOf(wf[1].build).volumes
        /\ m.name = v.name
        /\ m.kind = v.kind
        /\ m.of = Referent(v)
    BY <2>1, BuiltVolumes
  <2>3. /\ v.of # "" /\ v.kind # "pvc" => Referent(v) = v.of
        /\ v.of = "" /\ v.kind \in {"configMap", "secret"} => Referent(v) = v.name
    BY DEF Referent
  <2> QED
    BY <2>2, <2>3 DEF BuildVolumeMount
<1> QED
  BY <1>1, InvHolds, PTL

LEMMA BuiltClaims ==
  ASSUME NEW w, buildVolumeClaimTemplates(w) # Nil
  PROVE  /\ DOMAIN buildVolumeClaimTemplates(w)[1] = DOMAIN w.claims
         /\ \A i \in DOMAIN w.claims :
              buildVolumeClaimTemplates(w)[1][i].name = w.claims[i].name
<1>1. \A i \in DOMAIN w.claims : BuildPVC(w.claims[i]) # Nil
  BY DEF buildVolumeClaimTemplates, BuildAll
<1>2. buildVolumeClaimTemplates(w)[1] = [i \in DOMAIN w.claims |-> BuildPVC(w.claims[i])[1]]
  BY <1>1 DEF buildVolumeClaimTemplates, BuildAll, Ptr
<1>3. ASSUME NEW v, BuildPVC(v) # Nil
      PROVE  BuildPVC(v)[1].name = v.name
  <2> DEFINE modes == IF v.modes = {} THEN {ReadWriteOnce} ELSE v.modes
  <2>1. BuildPVC(v) = Ptr([name |-> v.name, modes |-> modes])
    BY <1>3 DEF BuildPVC
  <2> HIDE DEF modes
  <2> QED
    BY <2>1 DEF Ptr
<1> QED
  BY <1>1, <1>2, <1>3

LEMMA BuiltArguments ==
  ASSUME NEW w, buildArguments(w) # Nil
  PROVE  /\ DOMAIN buildArguments(w)[1].parameters = DOMAIN w.arguments
         /\ \A i \in DOMAIN w.arguments :
              buildArguments(w)[1].parameters[i].value = w.arguments[i].value
<1> DEFINE parameters == BuildAll(AsArgument, w.arguments)
           artifacts == BuildAll(BuildArtifact, w.artifacts)
<1>1. /\ parameters # Nil
      /\ buildArguments(w) = Ptr([parameters |-> parameters[1], artifacts |-> artifacts[1]])
  BY DEF buildArguments
<1>2. buildArguments(w)[1].parameters = parameters[1]
  <2> HIDE DEF parameters, artifacts
  <2> QED
    BY <1>1 DEF Ptr
<1>3. \A i \in DOMAIN w.arguments : AsArgument(w.arguments[i]) # Nil
  BY <1>1 DEF BuildAll
<1>4. parameters[1] = [i \in DOMAIN w.arguments |-> AsArgument(w.arguments[i])[1]]
  BY <1>3 DEF BuildAll, Ptr
<1>5. ASSUME NEW p, AsArgument(p) # Nil
      PROVE  AsArgument(p)[1].value = p.value
  BY <1>5 DEF AsArgument, Ptr
<1> HIDE DEF parameters, artifacts
<1> QED
  BY <1>2, <1>3, <1>4, <1>5

(* Quantities that pass are worth what the check says.                     *)
LEMMA LimitsAreKept ==
  ASSUME NEW j \in Job, TRUE \in ResourceVerdicts(j.requests, j.limits),
         NEW r \in Resource, j.requests[r] # Nil, j.limits[r] # Nil
  PROVE  Worth(r, j.requests[r][1]) <= Worth(r, j.limits[r][1])
<1> DEFINE a == j.requests[r]
           b == j.limits[r]
<1>1. TRUE \in Verdicts(r, a, b)
  BY DEF ResourceVerdicts
<1>2. a[1].thousandths \in Nat /\ b[1].thousandths \in Nat
  BY JobAssumption
<1> HIDE DEF a, b
<1>3. a # << >> /\ b # << >>
  BY DEF a, b, Nil
<1>4. /\ WellFormed(r, a[1]) /\ WellFormed(r, b[1])
      /\ TRUE \in {~x : x \in Exceeds(r, a[1], b[1])}
  BY <1>1, <1>3 DEF Verdicts
<1>5. ASSUME NEW q, WellFormed(r, q), q.thousandths \in Nat
      PROVE  Worth(r, q) \in Nat
  <2>1. Factor(r)[q.suffix] \in Nat
    BY <1>5, SMT DEF Factor, WellFormed, DecimalFactor, BinaryFactor
  <2> QED
    BY <1>5, <2>1 DEF Worth
<1>6. Worth(r, a[1]) \in Nat /\ Worth(r, b[1]) \in Nat
  BY <1>2, <1>4, <1>5
<1>7. PICK x \in Exceeds(r, a[1], b[1]) : x = FALSE
  <2>1. PICK x \in Exceeds(r, a[1], b[1]) : TRUE = ~x
    BY <1>4
  <2>2. CASE Worth(r, a[1]) # Worth(r, b[1])
    <3>1. x = (Worth(r, a[1]) > Worth(r, b[1]))
      BY <2>2 DEF Exceeds
    <3> QED
      BY <1>6, <2>1, <3>1
  <2>3. CASE Worth(r, a[1]) = Worth(r, b[1])
    <3>1. x \in BOOLEAN
      BY <2>3 DEF Exceeds
    <3> QED
      BY <2>1, <3>1
  <2> QED
    BY <2>2, <2>3
<1>8. CASE Worth(r, a[1]) = Worth(r, b[1])
  BY <1>6, <1>8 DEF a, b
<1>9. CASE Worth(r, a[1]) # Worth(r, b[1])
  <2>1. ~(Worth(r, a[1]) > Worth(r, b[1]))
    BY <1>7, <1>9 DEF Exceeds
  <2> QED
    BY <1>6, <2>1 DEF a, b
<1> QED
  BY <1>8, <1>9

(* Copies with the same names resolve the same mounts.                     *)
LEMMA SameNames ==
  ASSUME NEW v, NEW w,
         DOMAIN v.volumes = DOMAIN w.volumes, DOMAIN v.claims = DOMAIN w.claims,
         \A i \in DOMAIN w.volumes : v.volumes[i].name = w.volumes[i].name,
         \A i \in DOMAIN w.claims : v.claims[i].name = w.claims[i].name
  PROVE  MountsResolve(v) <=> MountsResolve(w)
<1>1. Names(v.volumes) = Names(w.volumes) /\ Names(v.claims) = Names(w.claims)
  BY DEF Names
<1>2. (OneName(v.volumes) <=> OneName(w.volumes)) /\ (OneName(v.claims) <=> OneName(w.claims))
  BY DEF OneName
<1> QED
  BY <1>1, <1>2 DEF MountsResolve

(* What Build accepts, the server admits, if names, mounts and arguments   *)
(* are in order.                                                           *)
THEOREM ServerAgreesHolds == Spec => []ServerAgrees
<1>1. Inv => ServerAgrees
  <2> SUFFICES ASSUME Inv, NEW b \in DOMAIN built, built[b].model # Nil
               PROVE  Admitted(ModelOf(b)) <=> WiredUp
    BY DEF ServerAgrees
  <2> DEFINE m == ModelOf(b)
             g == built[b].config
  <2>1. /\ Accepts(object, TRUE)
        /\ TRUE \in ResourceVerdicts(job.requests, job.limits)
        /\ m = Made(g, b)
    <3>1. /\ Accepts(object, TRUE)
          /\ TRUE \in ResourceVerdicts(job.requests, job.limits)
          /\ built[b].model = Ptr(Made(g, b))
      BY DEF Inv, BuildsOK
    <3>2. m = Made(g, b)
      BY <3>1 DEF ModelOf, Ptr
    <3> QED
      BY <3>1, <3>2
  <2>2. g \in Config
    <3>1. built[b] \in Builds
      BY DEF Inv, TypeOK
    <3> QED
      BY <3>1 DEF Builds
  <2> HIDE DEF m, g
  <2>3. /\ m.volumes = buildVolumes(object)[1]
        /\ m.claims = buildVolumeClaimTemplates(object)[1]
        /\ m.arguments = buildArguments(object)[1]
    BY <2>1, <2>2, MadeFields
  <2>4. /\ buildVolumes(object) # Nil
        /\ buildVolumeClaimTemplates(object) # Nil
        /\ buildArguments(object) # Nil
    BY <2>1 DEF Accepts
  <2>5. MountsResolve(m) <=> MountsResolve(object)
    BY <2>3, <2>4, BuiltVolumes, BuiltClaims, SameNames
  <2>6. (\A i \in DOMAIN m.arguments.parameters : m.arguments.parameters[i].value)
          <=> \A i \in DOMAIN object.arguments : object.arguments[i].value
    BY <2>3, <2>4, BuiltArguments
  <2>7. ASSUME NEW i \in DOMAIN m.volumes, NEW s \in m.volumes[i].sources
        PROVE  Cardinality(s.set) = 1
    <3>1. /\ i \in DOMAIN object.volumes
          /\ s \in object.volumes[i].sources
          /\ object.volumes[i].kind = "projected" => SourceAccepted(s)
      BY <2>3, <2>4, <2>7, BuiltVolumes
    <3>2. SourceAccepted(s)
      BY <3>1, JobAssumption DEF Inv, TypeOK, object
    <3> QED
      BY <3>2, FS_Singleton DEF SourceAccepted
  <2>8. \A r \in Resource : job.requests[r] # Nil /\ job.limits[r] # Nil =>
          Worth(r, job.requests[r][1]) <= Worth(r, job.limits[r][1])
    BY <2>1, LimitsAreKept DEF Inv, TypeOK
  <2> QED
    BY <2>5, <2>6, <2>7, <2>8 DEF Admitted, WiredUp, m
<1> QED
  BY <1>1, InvHolds, PTL

----------------------------------------------------------------------------
(* The condition is composed of words by calls of the builder alone.       *)

LEMMA CallsCompose ==
  ASSUME NEW a \in Composed(Word), NEW b \in Composed(Word), NEW c \in Composed(Word)
  PROVE  Calls(a, b, c) \subseteq Composed(Word)
<1>1. Closed(Composed(Word), Word)
  BY Tokens, ComposedClosed
<1> QED
  BY <1>1 DEF Closed, Calls

LEMMA ConnectivesComposed == Connective \subseteq Composed(Word)
<1> DEFINE C == Composed(Word)
           Lengths == {Len(e.repr) : e \in Connective \ C}
<1>1. Closed(C, Word)
  BY Tokens, ComposedClosed
<1> HIDE DEF C
<1>2. SUFFICES ASSUME Lengths # {} PROVE FALSE
  BY DEF C
<1>3. Lengths \in SUBSET Nat
  BY ConnectiveAssumption
<1>4. PICK m \in Lengths : \A n \in Lengths : m <= n
  BY <1>2, <1>3, LeastNumber
<1>5. PICK e \in Connective : e \notin C /\ m = Len(e.repr)
  BY <1>4
<1>6. e \notin {Operand(x) : x \in Word}
  BY <1>1, <1>5 DEF Closed
<1>7. PICK a, b, c \in {d \in Connective : Len(d.repr) < Len(e.repr)} :
        e \in Calls(a, b, c)
  BY <1>6, ConnectiveAssumption
<1>8. ASSUME NEW d \in Connective, Len(d.repr) < Len(e.repr) PROVE d \in C
  <2>1. ASSUME d \notin C PROVE FALSE
    <3>1. Len(d.repr) \in Lengths
      BY <2>1
    <3>2. Len(d.repr) \in Nat /\ m \in Nat /\ m <= Len(d.repr)
      BY <1>3, <1>4, <3>1
    <3> QED
      BY <1>5, <1>8, <3>2
  <2> QED
    BY <2>1
<1>9. a \in C /\ b \in C /\ c \in C
  BY <1>7, <1>8
<1> QED
  BY <1>5, <1>7, <1>9, CallsCompose DEF C

(* The condition is what some calls of the builder made.                   *)
WhenComposed == when \in Composed(Word)

LEMMA WhenComposedHolds == Spec => []WhenComposed
<1>1. Init => WhenComposed
  <2>1. Closed(Composed(Word), Word)
    BY Tokens, ComposedClosed
  <2> QED
    BY <2>1 DEF Init, WhenComposed, Closed
<1>2. WhenComposed /\ [Next]_vars => WhenComposed'
  <2> SUFFICES ASSUME WhenComposed, [Next]_vars PROVE WhenComposed'
    OBVIOUS
  <2>1. CASE Compose
    <3>1. PICK b, c \in Connective : \E e \in Calls(when, b, c) : when' = e
      BY <2>1 DEF Compose
    <3>2. b \in Composed(Word) /\ c \in Composed(Word) /\ when \in Composed(Word)
      BY <3>1, ConnectivesComposed DEF WhenComposed
    <3> QED
      BY <3>1, <3>2, CallsCompose DEF WhenComposed
  <2>2. ASSUME ~Compose PROVE UNCHANGED when
    BY <2>2 DEF Next, Program, Cluster, vars, Build, Submit, CreatePod, Skip, Omit,
                Start, Bind, Finish, Conclude, Cut
  <2> QED
    BY <2>1, <2>2 DEF WhenComposed
<1> QED
  BY <1>1, <1>2, PTL DEF Spec

(* A condition is read by Argo as it was composed exactly when every       *)
(* operand binds tighter than the operator it was given to, however long   *)
(* the program composes it: expr.go writes no parentheses.                 *)
THEOREM ConditionsAsBuiltHolds == Spec => []ConditionsAsBuilt
<1>1. WhenComposed => ConditionsAsBuilt
  BY ReadAsMeantExactlyWhenNested DEF WhenComposed, ConditionsAsBuilt
<1> QED
  BY <1>1, WhenComposedHolds, PTL
============================================================================
