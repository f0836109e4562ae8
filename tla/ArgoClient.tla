----------------------------- MODULE ArgoClient -----------------------------
(***************************************************************************)
(* The REST client (client/): calls of its operations, by any number of    *)
(* goroutines, on one WorkflowsService.  A call checks its arguments, gets *)
(* the HTTP client (made by the first call, and kept), sends one request,  *)
(* and reads the answer.  The network and the Argo server are external: a  *)
(* request or its answer may be lost or late, and the server may refuse.   *)
(***************************************************************************)
EXTENDS Integers

CONSTANTS Call,        \* calls of the client's operations
          Request,     \* what they may ask
          DefaultNs,   \* s.Namespace
          Token,       \* the tokens that a program may give it
          Injected,    \* the HTTP client that a program may provide
          NoClient,    \* nil
          Limit,       \* maxResponseBodyBytes
          MaxSize      \* BOUND: the largest answer

NoToken == ""
Redacted == "***"

(* A request: the namespace and, for operations on one workflow, the name, *)
(* each good, bad or empty; whether what it sends can be built, marshalled *)
(* and addressed; and whether its answer is unmarshalled.                  *)
Text == {"good", "bad", ""}
ASSUME RequestAssumption ==
  Request \subseteq [scope : {"server", "namespace", "workflow"},
                     ns : Text, name : Text, sound : BOOLEAN, decodes : BOOLEAN]
ASSUME DefaultNsAssumption == DefaultNs \in Text
ASSUME ClientAssumption ==
  NoClient # Injected /\ NoClient \notin Call /\ Injected \notin Call
ASSUME TokenAssumption == Redacted \notin Token
ASSUME LimitAssumption == Limit \in Nat /\ MaxSize \in Nat

VARIABLES pc,      \* where each call is
          req,     \* its request
          memo,    \* s.HTTPClient: the two words of a Go interface
          unsaved, \* the words of it that a call has still to store
          uses,    \* the client that a call got
          wire,    \* its request and the answer, in the network
          effect,  \* whether the server has done what it asks
          size,    \* the size of the answer
          got,     \* how much of it was read
          raced,   \* history: whether two first calls met
          verifies,\* whether the client that a call makes verifies certificates
          carried, \* the token that a request carries
          service, \* s.Token and s.VerifySSL
          given,   \* history: what the program last made of them
          late     \* history: whether it did after a client was there

callVars == <<pc, req>>
clientVars == <<memo, unsaved, uses, raced, verifies>>
answerVars == <<size, got>>
serviceVars == <<carried, service, given, late>>
vars == <<callVars, clientVars, wire, effect, answerVars, serviceVars>>

(* A client that the service makes is named after the call that makes it.  *)
Client == Call \union {Injected, NoClient}
Words == {"type", "data"}
Location == {"idle", "client", "construct", "load", "do", "waiting", "body",
             "ok", "error", "tooLarge", "panic"}
Returned == {"ok", "error", "tooLarge", "panic"}

Init ==
  /\ pc = [c \in Call |-> "idle"]
  /\ req \in [Call -> Request]
  /\ memo \in {[type |-> FALSE, data |-> NoClient], [type |-> TRUE, data |-> Injected]}
  /\ unsaved = [c \in Call |-> {}]
  /\ uses = [c \in Call |-> NoClient]
  /\ wire = [c \in Call |-> "none"]
  /\ effect = [c \in Call |-> FALSE]
  /\ size = [c \in Call |-> 0]
  /\ got = [c \in Call |-> 0]
  /\ raced = FALSE
  /\ verifies = [c \in Call |-> FALSE]
  /\ carried = [c \in Call |-> NoToken]
  /\ service \in [token : Token, verify : {TRUE}]
  /\ given = service
  /\ late = FALSE

Goto(c, l) == pc' = [pc EXCEPT ![c] = l] /\ UNCHANGED req

----------------------------------------------------------------------------
(* The arguments.                                                          *)

Namespace(r) == IF r.ns = "" THEN DefaultNs ELSE r.ns

(* Deviation for CallsAreHonest: the name goes unchecked.                  *)
PathOKForAnyName(r) ==
  r.scope \in {"namespace", "workflow"} => Namespace(r) = "good"

(* workflowsPath, workflowPath, workflowActionPath, and the checks in the  *)
(* template operations; the operations on the server itself have no check. *)
PathOK(r) ==
  /\ r.scope \in {"namespace", "workflow"} => Namespace(r) = "good"
  /\ r.scope = "workflow" => r.name = "good"

(* An operation begins: Build, where there is something to build, then the *)
(* path, the body and the request.                                         *)
Begin(c) ==
  /\ pc[c] = "idle"
  /\ LET passes == req[c].sound /\ PathOK(req[c]) IN
       /\ Goto(c, IF passes THEN "client" ELSE "error")
       /\ carried' = [carried EXCEPT ![c] = IF passes THEN service.token ELSE @]
  /\ UNCHANGED <<clientVars, wire, effect, answerVars, service, given, late>>

----------------------------------------------------------------------------
(* httpClient(), without any lock.  Storing an interface takes two stores, *)
(* in either order; comparing it to nil looks at its type only.            *)

(* Deviation for VerificationIsAsSet: the setting is not wired in.         *)
CheckClientOnly(c) ==
  /\ pc[c] = "client"
  /\ Goto(c, IF memo.type THEN "load" ELSE "construct")
  /\ unsaved' = [unsaved EXCEPT ![c] = IF memo.type THEN {} ELSE Words]
  /\ verifies' = [verifies EXCEPT ![c] = TRUE]
  /\ raced' = (raced \/ \E d \in Call \ {c} : pc[d] = "construct")
  /\ UNCHANGED <<memo, uses, wire, effect, answerVars, serviceVars>>

CheckClient(c) ==
  /\ pc[c] = "client"
  /\ Goto(c, IF memo.type THEN "load" ELSE "construct")
  /\ unsaved' = [unsaved EXCEPT ![c] = IF memo.type THEN {} ELSE Words]
  /\ verifies' = [verifies EXCEPT ![c] = IF memo.type THEN @ ELSE service.verify]
  /\ raced' = (raced \/ \E d \in Call \ {c} : pc[d] = "construct")
  /\ UNCHANGED <<memo, uses, wire, effect, answerVars, serviceVars>>

(* Deviation for OneClientWithoutRaces: the client is used, and not kept.  *)
StoreNothing(c, word) ==
  /\ pc[c] = "construct"
  /\ word \in unsaved[c]
  /\ unsaved' = [unsaved EXCEPT ![c] = {}]
  /\ uses' = [uses EXCEPT ![c] = c]
  /\ Goto(c, "do")
  /\ UNCHANGED <<memo, raced, verifies, wire, effect, answerVars, serviceVars>>

Store(c, word) ==
  /\ pc[c] = "construct"
  /\ word \in unsaved[c]
  /\ memo' = IF word = "type" THEN [memo EXCEPT !.type = TRUE]
                              ELSE [memo EXCEPT !.data = c]
  /\ unsaved' = [unsaved EXCEPT ![c] = @ \ {word}]
  /\ Goto(c, IF unsaved[c] = {word} THEN "load" ELSE "construct")
  /\ UNCHANGED <<uses, raced, verifies, wire, effect, answerVars, serviceVars>>

(* return s.HTTPClient, in both places.                                    *)
LoadClient(c) ==
  /\ pc[c] = "load"
  /\ uses' = [uses EXCEPT ![c] = memo.data]
  /\ Goto(c, "do")
  /\ UNCHANGED <<memo, unsaved, raced, verifies, wire, effect, answerVars, serviceVars>>

----------------------------------------------------------------------------
(* Do(req): the request is sent; on a nil *http.Client the method panics.  *)
Do(c) ==
  /\ pc[c] = "do"
  /\ IF uses[c] = NoClient
     THEN Goto(c, "panic") /\ UNCHANGED wire
     ELSE Goto(c, "waiting") /\ wire' = [wire EXCEPT ![c] = "sent"]
  /\ UNCHANGED <<clientVars, effect, answerVars, serviceVars>>

(* External.  The server does what it was asked, or not, and answers, with *)
(* a status below 400 only if it did.                                      *)
Serve(c, done, answer, n) ==
  /\ wire[c] = "sent"
  /\ answer = "fine" => done
  /\ effect' = [effect EXCEPT ![c] = done]
  /\ wire' = [wire EXCEPT ![c] = answer]
  /\ size' = [size EXCEPT ![c] = n]
  /\ UNCHANGED <<callVars, clientVars, got, serviceVars>>

(* External.  The request or the answer is lost.                           *)
Lose(c) ==
  /\ wire[c] \in {"sent", "fine", "refused"}
  /\ pc[c] # "body"
  /\ wire' = [wire EXCEPT ![c] = "lost"]
  /\ UNCHANGED <<callVars, clientVars, effect, answerVars, serviceVars>>

(* Deviation for CallsReturn: the client has no timeout of its own.        *)
ExpireNever(c) ==
  /\ pc[c] \in {"waiting", "body"}
  /\ FALSE
  /\ Goto(c, "error")
  /\ UNCHANGED <<clientVars, wire, effect, answerVars, serviceVars>>

(* The client's timeout, the caller's context or a broken connection ends  *)
(* the call, wherever the request is by then.                              *)
Expire(c) ==
  /\ pc[c] \in {"waiting", "body"}
  /\ Goto(c, "error")
  /\ UNCHANGED <<clientVars, wire, effect, answerVars, serviceVars>>

(* The header of the answer arrives.                                       *)
Receive(c) ==
  /\ pc[c] = "waiting"
  /\ wire[c] \in {"fine", "refused"}
  /\ Goto(c, "body")
  /\ UNCHANGED <<clientVars, wire, effect, answerVars, serviceVars>>

(* Deviation for NothingIsTruncated: the extra byte is not asked for.      *)
ReadToLimit(n) == IF n > Limit THEN Limit ELSE n

(* readBoundedBody: as much of an answer of n bytes as is read.            *)
ReadBounded(n) == IF n > Limit + 1 THEN Limit + 1 ELSE n

(* The rest of doRequest, and the unmarshalling of the answer, if there is *)
(* any: the limit first, the status second, the answer last.               *)
Finish(c, wellFormed) ==
  /\ pc[c] = "body"
  /\ got' = [got EXCEPT ![c] = ReadBounded(size[c])]
  /\ Goto(c, IF ReadBounded(size[c]) > Limit THEN "tooLarge"
             ELSE IF /\ wire[c] # "refused"
                     /\ req[c].decodes => wellFormed
             THEN "ok" ELSE "error")
  /\ UNCHANGED <<clientVars, wire, effect, size, serviceVars>>

----------------------------------------------------------------------------
(* The settings, which a program may change while no call is under way.    *)

Quiet == \A c \in Call : pc[c] \in {"idle"} \union Returned

(* It assigns to the fields, or loads what it has written itself.          *)
Configure(settings) ==
  /\ Quiet
  /\ service' = settings
  /\ given' = settings
  /\ late' = (late \/ memo.type)
  /\ UNCHANGED <<callVars, clientVars, wire, effect, answerVars, carried>>

MarshalJSON(settings) ==
  [settings EXCEPT !.token = IF @ = NoToken THEN NoToken ELSE Redacted]

(* Deviation for TokensAreKept: every document is loaded.                  *)
UnmarshalAll(settings, doc) == doc

(* A document with the placeholder is an error, and changes nothing.       *)
UnmarshalJSON(settings, doc) ==
  IF doc.token = Redacted THEN settings ELSE doc

(* It saves the service and loads what was saved.                          *)
Reload ==
  /\ Quiet
  /\ service' = UnmarshalJSON(service, MarshalJSON(service))
  /\ UNCHANGED <<callVars, clientVars, wire, effect, answerVars, carried, given, late>>

----------------------------------------------------------------------------
CallStep(c) ==
  \/ CheckClient(c)
  \/ \E word \in Words : Store(c, word)
  \/ LoadClient(c)
  \/ Do(c)
  \/ Receive(c)
  \/ \E wellFormed \in BOOLEAN : Finish(c, wellFormed)

NetworkStep(c) ==
  \/ \E done \in BOOLEAN, answer \in {"fine", "refused"}, n \in 0 .. MaxSize :
       Serve(c, done, answer, n)
  \/ Lose(c)

Program ==
  \/ \E settings \in [token : Token, verify : BOOLEAN] : Configure(settings)
  \/ Reload

Next ==
  \/ \E c \in Call : Begin(c)
  \/ \E c \in Call : CallStep(c)
  \/ \E c \in Call : Expire(c)
  \/ \E c \in Call : NetworkStep(c)
  \/ Program

Spec == Init /\ [][Next]_vars

(* Goroutines run, and a client that the service made has a timeout; the   *)
(* network owes nothing, and an injected client need not have a timeout.   *)
Fairness ==
  \A c \in Call : /\ WF_vars(CallStep(c))
                  /\ WF_vars(uses[c] # Injected /\ Expire(c))

FairSpec == Spec /\ Fairness

----------------------------------------------------------------------------
(* Properties.                                                             *)

TypeOK ==
  /\ pc \in [Call -> Location]
  /\ req \in [Call -> Request]
  /\ memo \in [type : BOOLEAN, data : Client]
  /\ unsaved \in [Call -> SUBSET Words]
  /\ uses \in [Call -> Client]
  /\ wire \in [Call -> {"none", "sent", "fine", "refused", "lost"}]
  /\ effect \in [Call -> BOOLEAN]
  /\ size \in [Call -> Nat]
  /\ got \in [Call -> Nat]
  /\ raced \in BOOLEAN
  /\ verifies \in [Call -> BOOLEAN]
  /\ carried \in [Call -> Token \union {NoToken}]
  /\ service \in [token : Token, verify : BOOLEAN]
  /\ given \in [token : Token, verify : BOOLEAN]
  /\ late \in BOOLEAN

(* A call that returns no error has read the whole answer: one that was    *)
(* cut off at the limit is an error, even when what is left of it parses.  *)
(* And only an answer beyond the limit is refused for its size.            *)
NothingIsTruncated ==
  \A c \in Call :
    /\ pc[c] = "ok" => got[c] = size[c]
    /\ pc[c] = "tooLarge" => size[c] > Limit

(* Unless first calls meet in httpClient, all requests go through the same *)
(* client, the injected one if there is one, and no call panics.           *)
Sent(c) == pc[c] \in {"waiting", "body"} \/ wire[c] # "none"

OneClientWithoutRaces ==
  ~raced =>
    /\ \A c \in Call : pc[c] # "panic"
    /\ \A c, d \in Call : Sent(c) /\ Sent(d) => uses[c] = uses[d]

(* Concurrent calls on one service share its client (e2e/                  *)
(* theo_dynamic_submit_test.go:81: "the SDK is safe under the concurrency" *)
(* of parallel submits on one WorkflowsService).                           *)
RequestsShareOneClient ==
  \A c, d \in Call : Sent(c) /\ Sent(d) => uses[c] = uses[d]

(* A request carries the token that the program gave the service: saving   *)
(* the service, which writes a placeholder, and loading it again never puts*)
(* the placeholder, or nothing, in its place (redact.go:8-10).             *)
TokensAreKept ==
  \A c \in Call : pc[c] \in {"waiting", "body"} => carried[c] = given.token

(* A client that the service made verifies certificates if and only if     *)
(* VerifySSL says so, whichever of the calls made it; unless the setting   *)
(* was changed when there was a client already, which is kept as it is     *)
(* (client.go:82-83).                                                      *)
VerificationIsAsSet ==
  ~late => \A c \in Call :
    pc[c] \in {"waiting", "body"} /\ uses[c] \in Call =>
      verifies[uses[c]] = given.verify

(* Every call returns, although the network may never answer: the client   *)
(* that the service makes has a timeout.                                   *)
CallsReturn ==
  \A c \in Call :
    pc[c] \notin {"idle"} \union Returned /\ memo.data # Injected
      ~> pc[c] \in Returned

(* The promise: RemoteCalls.                                               *)
Phase(c) ==
  CASE pc[c] = "idle"                           -> "idle"
    [] pc[c] = "ok"                             -> "ok"
    [] pc[c] \in {"error", "tooLarge", "panic"} -> "error"
    [] OTHER                                    -> "running"

Remote == INSTANCE RemoteCalls WITH
            Acceptable <- [r \in Request |->
                             /\ r.scope # "server" => Namespace(r) = "good"
                             /\ r.scope = "workflow" => r.name = "good"],
            phase  <- [c \in Call |-> Phase(c)],
            asked  <- req

CallsAreHonest == Remote!Spec

----------------------------------------------------------------------------
(* The inductive invariant: where a call can be with respect to the network*)
(* and the server ...                                                      *)
CallOK(c) ==
  /\ pc[c] \in {"idle", "client", "construct", "load", "do"} => wire[c] = "none"
  /\ pc[c] \notin {"idle", "error"} \/ wire[c] # "none" => PathOK(req[c])
  /\ wire[c] \in {"none", "sent"} => ~effect[c]
  /\ wire[c] = "fine" => effect[c]
  /\ pc[c] = "body" => wire[c] \in {"fine", "refused"}
  /\ pc[c] = "ok" => effect[c] /\ got[c] = size[c]
  /\ pc[c] = "tooLarge" => size[c] > Limit /\ wire[c] # "sent"

(* ... and, as long as first calls do not meet, to the client: none is     *)
(* made, or one call is making it, or it is there for all.                 *)
Making(c) == pc[c] = "construct"
Settled == memo.type /\ memo.data # NoClient /\ \A c \in Call : ~Making(c)

MakingOK(c) ==
  Making(c) =>
    /\ \A d \in Call : Making(d) => d = c
    /\ unsaved[c] # {}
    /\ memo.type <=> "type" \notin unsaved[c]
    /\ memo.data = IF "data" \in unsaved[c] THEN NoClient ELSE c

UsingOK(c) ==
  /\ pc[c] # "panic"
  /\ pc[c] \in {"load", "do"} \/ Sent(c) => Settled
  /\ pc[c] = "do" \/ Sent(c) => uses[c] = memo.data

MemoOK ==
  /\ \A c \in Call : MakingOK(c) /\ UsingOK(c)
  /\ (\A c \in Call : ~Making(c)) => (memo.type <=> memo.data # NoClient)

(* The settings: they are what the program made of them, and calls that    *)
(* are under way, and clients that they may use, have been made by them.   *)
UnderWay(c) == pc[c] \notin {"idle"} \union Returned
InUse(c) ==
  \/ pc[c] = "construct"
  \/ memo.data = c
  \/ \E d \in Call : pc[d] \in {"do", "waiting", "body"} /\ uses[d] = c

SettingsOK ==
  /\ service = given
  /\ \A c \in Call : UnderWay(c) => carried[c] = service.token
  /\ \A c \in Call : pc[c] = "construct" =>
       unsaved[c] \subseteq Words /\ ("type" \notin unsaved[c] => memo.type)
  /\ \A c \in Call : memo.data = c /\ ~memo.type => pc[c] = "construct"
  /\ ~late => \A c \in Call : InUse(c) => verifies[c] = service.verify

Inv ==
  /\ TypeOK
  /\ \A c \in Call : CallOK(c)
  /\ ~raced => MemoOK
  /\ SettingsOK
============================================================================
