----------------------------- MODULE Registry -----------------------------
(***************************************************************************)
(* The data of a config.GlobalConfig, without its mutex: three scalar      *)
(* defaults that Build applies, four lists of anonymous hooks and two of   *)
(* named hooks, and what each mutator does to them.  host, token,          *)
(* namespace and verifySSL, which no Build reads, are left out.            *)
(***************************************************************************)
EXTENDS HookLists

CONSTANTS Value,        \* non-empty strings: images, policies, account names
          Unset,        \* the empty string
          DefaultImage, \* python:3.11
          AnonHook,     \* functions registered without a name
          NamedHook,    \* functions registered under a name
          HookName,     \* the names (NamedHookID)
          Ops           \* the operations the program performs

Field == {"image", "imagePullPolicy", "serviceAccountName"}
ContainerField == {"image", "imagePullPolicy"}
Scalars == [Field -> Value \union {Unset}]

AnonList == {"template", "workflow", "workflowTemplate", "cronWorkflow"}
NamedList == {"template", "workflow"}

Mutator == {"Set", "UnmarshalJSON", "RegisterHook", "RegisterNamedHook",
            "RemoveHook", "ClearHooks", "Reset"}

Operation ==
  [do : {"Set"}, field : Field, value : Value \union {Unset}]
    \union [do : {"UnmarshalJSON"}, scalars : Scalars]
    \union [do : {"RegisterHook"}, list : AnonList, fn : AnonHook]
    \union [do : {"RegisterNamedHook"}, list : NamedList,
            id : HookName, fn : NamedHook]
    \union [do : {"RemoveHook"}, list : NamedList, id : HookName]
    \union [do : {"ClearHooks", "Reset", "Get"}]

ASSUME OpsAssumption == Ops \subseteq Operation
ASSUME ValueAssumption == DefaultImage \in Value /\ Unset \notin Value

VARIABLES defaults, \* the scalar fields
          anon,     \* the anonymous hook lists
          named     \* the named hook lists

registry == <<defaults, anon, named>>

NamedEntry == [id : HookName, fn : NamedHook]

RegistryTypeOK ==
  /\ defaults \in Scalars
  /\ anon \in [AnonList -> Seq(AnonHook)]
  /\ named \in [NamedList -> Seq(NamedEntry)]

----------------------------------------------------------------------------
(* New(), and the package singleton.                                       *)
FreshDefaults == [f \in Field |-> IF f = "image" THEN DefaultImage ELSE Unset]
NoAnonHooks == [l \in AnonList |-> << >>]
NoNamedHooks == [l \in NamedList |-> << >>]

RegistryInit ==
  /\ defaults = FreshDefaults
  /\ anon = NoAnonHooks
  /\ named = NoNamedHooks

----------------------------------------------------------------------------
(* What each mutator does once it has the lock.                            *)

(* SetImage, SetImagePullPolicy and SetServiceAccountName.                 *)
SetScalar(o) ==
  /\ o.do = "Set"
  /\ defaults' = [defaults EXCEPT ![o.field] = o.value]
  /\ UNCHANGED <<anon, named>>

UnmarshalJSON(o) ==
  /\ o.do = "UnmarshalJSON"
  /\ defaults' = o.scalars
  /\ UNCHANGED <<anon, named>>

RegisterHook(o) ==
  /\ o.do = "RegisterHook"
  /\ anon' = [anon EXCEPT ![o.list] = Append(@, o.fn)]
  /\ UNCHANGED <<defaults, named>>

RegisterNamedHook(o) ==
  /\ o.do = "RegisterNamedHook"
  /\ named' = [named EXCEPT ![o.list] = WithHook(@, o.id, o.fn)]
  /\ UNCHANGED <<defaults, anon>>

RemoveHook(o) ==
  /\ o.do = "RemoveHook"
  /\ named' = [named EXCEPT ![o.list] = WithoutHook(@, o.id)]
  /\ UNCHANGED <<defaults, anon>>

ClearHooks(o) ==
  /\ o.do = "ClearHooks"
  /\ anon' = NoAnonHooks
  /\ named' = NoNamedHooks
  /\ UNCHANGED defaults

Reset(o) ==
  /\ o.do = "Reset"
  /\ defaults' = FreshDefaults
  /\ anon' = NoAnonHooks
  /\ named' = NoNamedHooks

Update(o) ==
  \/ SetScalar(o)
  \/ UnmarshalJSON(o)
  \/ RegisterHook(o)
  \/ RegisterNamedHook(o)
  \/ RemoveHook(o)
  \/ ClearHooks(o)
  \/ Reset(o)

----------------------------------------------------------------------------
(* What the other operations read.                                         *)

(* GetImage: the getter falls back to python:3.11.                         *)
GetImage == IF defaults["image"] = Unset THEN DefaultImage
                                         ELSE defaults["image"]

(* ApplyTemplateDefaults: the fields of a template model, with those that  *)
(* are empty filled in.  A template without a container or script has no   *)
(* image and no pull policy to fill in.                                    *)
ApplyTemplateDefaults(fields, container) ==
  [f \in Field |->
     IF fields[f] = Unset /\ (container \/ f \notin ContainerField)
     THEN defaults[f] ELSE fields[f]]

(* No two hooks of a list of named hooks have the same name, whatever the  *)
(* goroutines that register and remove them interleave (the uniqueness     *)
(* that RegisterNamedTemplateHook documents and Remove relies on).         *)
UniqueHookNames ==
  \A l \in NamedList : \A i, j \in DOMAIN named[l] :
    named[l][i].id = named[l][j].id => i = j
============================================================================
