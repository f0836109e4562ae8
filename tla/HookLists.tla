----------------------------- MODULE HookLists -----------------------------
(***************************************************************************)
(* The list operations of config/named_hooks.go.  An entry of a list of    *)
(* named hooks is [id, fn], the NamedTemplateHook / NamedWorkflowHook      *)
(* struct; the two hook kinds have the same code.                          *)
(***************************************************************************)
EXTENDS Integers, Sequences, SequencesExt

CONSTANT Failing  \* the hook functions that return a non-nil error

HasHook(list, id) == \E i \in DOMAIN list : list[i].id = id

(* Deviation for UniqueHookNames: no look-up before the append.            *)
WithHookUnchecked(list, id, fn) == Append(list, [id |-> id, fn |-> fn])

(* RegisterNamedTemplateHook, RegisterNamedWorkflowHook: append, unless    *)
(* the name is taken.                                                      *)
WithHook(list, id, fn) ==
  IF HasHook(list, id) THEN list ELSE Append(list, [id |-> id, fn |-> fn])

FirstHook(list, id) ==
  CHOOSE i \in DOMAIN list :
    /\ list[i].id = id
    /\ \A j \in 1 .. i - 1 : list[j].id # id

(* RemoveTemplateHook, RemoveWorkflowHook: cut the first entry of that     *)
(* name out of the list.                                                   *)
WithoutHook(list, id) ==
  IF HasHook(list, id) THEN RemoveAt(list, FirstHook(list, id)) ELSE list

(* What one dispatch of a list of hook functions runs: all of them in      *)
(* order, or up to the first that fails.                                   *)
Fails(fns) == \E i \in DOMAIN fns : fns[i] \in Failing

Fired(fns) ==
  IF Fails(fns)
  THEN SubSeq(fns, 1, CHOOSE i \in DOMAIN fns :
                        /\ fns[i] \in Failing
                        /\ \A j \in 1 .. i - 1 : fns[j] \notin Failing)
  ELSE fns

Fns(list) == [i \in DOMAIN list |-> list[i].fn]
============================================================================
