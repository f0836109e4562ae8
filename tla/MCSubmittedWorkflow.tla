------------------------ MODULE MCSubmittedWorkflow ------------------------
(***************************************************************************)
(* Instances of SubmittedWorkflow for TLC.  The jobs are a sum, not a      *)
(* product: each group varies what one question needs and keeps the rest   *)
(* plain.                                                                  *)
(***************************************************************************)
EXTENDS SubmittedWorkflow

MCTask == {"t1", "t2", "t3"}
MCNode == {"n1", "n2"}
MCCapacity == [n \in MCNode |-> IF n = "n1" THEN 1 ELSE 2]
MCHookOf == [g \in {"plain", "renaming", "pinning"} |->
               CASE g = "plain" -> "none"
                 [] g = "renaming" -> "rename"
                 [] g = "pinning" -> "pin"]

Unlimited == [r \in Resource |-> Nil]
Volume(kind, name, of) ==
  [kind |-> kind, name |-> name, of |-> of, sources |-> {}, modes |-> {}]

PlainObject ==
  [name |-> "wf", generateName |-> "", arguments |-> << >>, artifacts |-> << >>,
   volumes |-> << >>, claims |-> << >>, affinity |-> Nil,
   disableDefaultAffinity |-> FALSE, selector |-> Nil, retry |-> Nil]
PlainJob ==
  [object |-> PlainObject, configs |-> {"plain"}, conditional |-> FALSE,
   tasks |-> {"t1"}, before |-> {}, mounts |-> [t \in MCTask |-> {}],
   templateAffinity |-> [t \in MCTask |-> Nil],
   requests |-> Unlimited, limits |-> Unlimited,
   ends |-> {Success}, retryOnFailure |-> Nil, deadline |-> FALSE]

----------------------------------------------------------------------------
(* Placement: three tasks, at the same time or two after the first, with a *)
(* shared claim, under every affinity and every hook.                      *)
Claim == Volume("pvc", "data", "")
Identity == {<<"wf", "">>, <<"", "wf-">>}
Affinities == {<<Nil, FALSE>>, <<Nil, TRUE>>, <<Ptr({}), FALSE>>,
               <<Ptr({WorkflowName}), FALSE>>, <<Ptr({"db"}), FALSE>>}

PlacementJobs ==
  {[PlainJob EXCEPT
      !.object.name = id[1], !.object.generateName = id[2],
      !.object.claims = <<Claim>>, !.object.affinity = a[1],
      !.object.disableDefaultAffinity = a[2],
      !.mounts = [t \in MCTask |-> {Claim}],
      !.tasks = MCTask, !.before = b, !.configs = {"plain", "renaming"}] :
     id \in Identity, a \in Affinities,
     b \in {{}, {<<"t1", "t2">>, <<"t1", "t3">>}}}
  \union {[PlainJob EXCEPT
      !.object.claims = <<[Claim EXCEPT !.modes = m]>>,
      !.mounts = [t \in MCTask |-> {Claim}],
      !.templateAffinity = [t \in MCTask |-> IF t = "t1" THEN Nil ELSE a],
      !.tasks = MCTask] :
     m \in {{}, {"ReadWriteMany"}}, a \in {Nil, Ptr({}), Ptr({"db"})}}

(* Hooks: an object without a selector, and one with a map of its own.     *)
HookJobs ==
  {[PlainJob EXCEPT !.object.selector = s, !.object.claims = c, !.tasks = {"t1", "t2"},
                    !.configs = {"plain", "pinning"}] :
     s \in {Nil, Ptr(0)}, c \in {<< >>, <<Claim>>}}

(* Ends: tasks that fail in every way, tried again or not, cut or not.     *)
WithRetry(j, limit) ==
  [j EXCEPT !.object.retry = Ptr(NewRetryOnFailure(limit)),
            !.retryOnFailure = Ptr(limit)]
Always == [limit |-> Ptr(1), policy |-> "Always", expression |-> ""]

EndJobs ==
  LET failing == [PlainJob EXCEPT !.tasks = {"t1", "t2"}, !.ends = End]
  IN  {[failing EXCEPT !.before = b, !.deadline = d] :
         b \in {{}, {<<"t1", "t2">>}}, d \in BOOLEAN}
      \union {WithRetry([failing EXCEPT !.tasks = ts], 2 - Cardinality(ts) + 1) :
                ts \in {{"t1"}, {"t1", "t2"}}}
      \union {[failing EXCEPT !.object.retry = Ptr(Always), !.tasks = {"t1"}],
              WithRetry([failing EXCEPT !.object.claims = <<Claim>>,
                                        !.mounts = [t \in MCTask |-> {Claim}],
                                        !.ends = {Success, Failure, OutOfMemory}], 1)}

----------------------------------------------------------------------------
(* What Build and the server look at: quantities, volumes, arguments.      *)
Q(n, s) == Ptr([thousandths |-> n, suffix |-> s])
CpuQuantities == {Nil, Q(9000, "m"), Q(9, ""), Q(500000, "m"), Q(1000, ""), Q(1, "k")}
MemoryQuantities == {Nil, Q(500, "m"), Q(2048000, ""), Q(2000, "Ki"), Q(1000, "Mi")}

QuantityJobs ==
  {[PlainJob EXCEPT !.requests["cpu"] = a, !.limits["cpu"] = b] :
     a \in CpuQuantities, b \in CpuQuantities}
  \union {[PlainJob EXCEPT !.requests[r] = a, !.limits[r] = b] :
     r \in {"memory", "ephemeralStorage"}, a \in MemoryQuantities, b \in MemoryQuantities}

TokenSource(path) == [set |-> {"serviceAccountToken"}, path |-> path]
SourceOf(fields) == [set |-> fields, path |-> TRUE]
VolumesToTry ==
  {Volume(k, n, o) : k \in VolumeKind, n \in {"", "v"}, o \in {"", "other"}}
  \union {[Volume("projected", "v", "") EXCEPT !.sources = s] :
            s \in {{TokenSource(TRUE)}, {TokenSource(FALSE)}, {SourceOf({})},
                   {TokenSource(TRUE), SourceOf({"configMap", "secret"})},
                   {SourceOf({"configMap"}), SourceOf({"secret"})}}}

VolumeJobs ==
  {[PlainJob EXCEPT !.object.volumes = <<v>>, !.mounts["t1"] = m] :
     v \in VolumesToTry, m \in {{}, {Volume("emptyDir", "v", "")}}}
  \union {[PlainJob EXCEPT !.object.volumes = <<Volume("secret", n, "")>>,
                           !.object.claims = <<Volume("pvc", "v", "")>>,
                           !.mounts["t1"] = {Volume("pvc", "v", "")}] :
            n \in {"v", "w"}}

Argument(n, v) == [name |-> n, value |-> v]
ArgumentJobs ==
  {[PlainJob EXCEPT !.object.name = id[1], !.object.generateName = id[2],
                    !.object.arguments = <<Argument("a", TRUE), Argument(n, v)>>,
                    !.object.artifacts = <<[name |-> m]>>] :
     id \in Identity \union {<<"", "">>}, n \in {"", "b"}, v \in BOOLEAN, m \in {"", "c"}}

(* A conditional task.                                                     *)
ConditionJobs == {[PlainJob EXCEPT !.conditional = TRUE]}

Connectives ==
  LET x == Operand("x")
  IN  {x, Check(x, x, x)} \union {Unary(t, x) : t \in UnaryOp}
        \union {Binary(t, x, x) : t \in {"||", "+", "*", "**"}}

Jobs == ConditionJobs \union PlacementJobs \union HookJobs \union EndJobs
          \union QuantityJobs \union VolumeJobs \union ArgumentJobs

(* TLC evaluates a definition without parameters once, but what a constant *)
(* is replaced by whenever it is used.                                     *)
MCConnective == Connectives
MCJob == Jobs
============================================================================
