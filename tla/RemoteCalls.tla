---------------------------- MODULE RemoteCalls ----------------------------
(***************************************************************************)
(* What the Argo client promises of its calls: only a call with acceptable *)
(* arguments touches the server, none does twice, and a call that returns  *)
(* without an error has done what was asked.  A call that returns an error *)
(* may have, or may even do so later.                                      *)
(***************************************************************************)
CONSTANTS Call,      \* calls of the client's operations
          Acceptable \* whether the arguments of a call are acceptable:
                     \* [Request -> BOOLEAN]

VARIABLES phase,  \* where each call is
          asked,  \* the request of each call
          effect  \* whether the server has done what it asks

vars == <<phase, asked, effect>>

Init ==
  /\ phase = [c \in Call |-> "idle"]
  /\ asked \in [Call -> DOMAIN Acceptable]
  /\ effect = [c \in Call |-> FALSE]

Begin(c) ==
  /\ phase[c] = "idle"
  /\ phase' = [phase EXCEPT ![c] = "running"]
  /\ UNCHANGED <<asked, effect>>

Take(c) ==
  /\ phase[c] # "idle"
  /\ Acceptable[asked[c]]
  /\ ~effect[c]
  /\ effect' = [effect EXCEPT ![c] = TRUE]
  /\ UNCHANGED <<phase, asked>>

Succeed(c) ==
  /\ phase[c] = "running"
  /\ effect[c]
  /\ phase' = [phase EXCEPT ![c] = "ok"]
  /\ UNCHANGED <<asked, effect>>

(* At once, or after a while.                                              *)
Fail(c) ==
  /\ phase[c] \in {"idle", "running"}
  /\ phase' = [phase EXCEPT ![c] = "error"]
  /\ UNCHANGED <<asked, effect>>

Next == \E c \in Call : Begin(c) \/ Take(c) \/ Succeed(c) \/ Fail(c)

Spec == Init /\ [][Next]_vars
============================================================================
