--------------------------- MODULE GlobalConfig ---------------------------
(***************************************************************************)
(* The operations of config.GlobalConfig as goroutines perform them, under *)
(* its sync.RWMutex: a mutator locks, updates and unlocks, a getter        *)
(* read-locks and read-unlocks.  A hook may call the configuration it was  *)
(* registered with: HookCall says which operation, if any, it performs.    *)
(***************************************************************************)
EXTENDS RWMutex, Registry

CONSTANTS HookCall, \* the operation each hook performs, or NoOp
          MaxHooks  \* BOUND: callers stop registering at this length

NoOp == [do |-> "nothing"]
Reading == [do |-> "reading"]  \* a getter past its RLock

ASSUME HookCallAssumption ==
  HookCall \in [AnonHook \union NamedHook -> Ops \union {NoOp}]

VARIABLE op  \* what each goroutine is doing to the configuration

configVars == <<lockVars, registry, op>>

ConfigTypeOK ==
  /\ LockTypeOK
  /\ RegistryTypeOK
  /\ op \in [Proc -> Ops \union {NoOp, Reading}]

ConfigInit ==
  /\ LockInit
  /\ RegistryInit
  /\ op = [p \in Proc |-> NoOp]

(* A goroutine performs an operation.                                      *)

Call(p, o) ==
  /\ op[p] = NoOp
  /\ o.do = "RegisterHook" => Len(anon[o.list]) < MaxHooks
  /\ op' = [op EXCEPT ![p] = o]
  /\ UNCHANGED <<lockVars, registry>>

Lock(p) ==
  /\ op[p].do \in Mutator
  /\ Announce(p)
  /\ UNCHANGED <<registry, op>>

(* Deviation for StableWhileDispatched: a mutator that does not wait for   *)
(* the readers (it takes the read lock).                                   *)
MutateAmongReaders(p) ==
  /\ op[p].do \in Mutator
  /\ Update(op[p])
  /\ Unlock(p)
  /\ op' = [op EXCEPT ![p] = NoOp]

Mutate(p) ==
  /\ op[p].do \in Mutator
  /\ Exclusive(p)
  /\ Update(op[p])
  /\ Unlock(p)
  /\ op' = [op EXCEPT ![p] = NoOp]

Get(p) ==
  /\ op[p].do = "Get"
  /\ RLock(p)
  /\ op' = [op EXCEPT ![p] = Reading]
  /\ UNCHANGED registry

(* Deviation for LocksAreAccountedFor: a getter returns without RUnlock.   *)
ReturnLocked(p) ==
  /\ op[p] = Reading
  /\ p \notin waiting
  /\ op' = [op EXCEPT ![p] = NoOp]
  /\ UNCHANGED <<lockVars, registry>>

Return(p) ==
  /\ op[p] = Reading
  /\ RUnlock(p)
  /\ op' = [op EXCEPT ![p] = NoOp]
  /\ UNCHANGED registry

OpStep(p) == Mutate(p) \/ Get(p) \/ Return(p)
============================================================================
