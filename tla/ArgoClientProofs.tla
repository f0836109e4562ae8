-------------------------- MODULE ArgoClientProofs --------------------------
(***************************************************************************)
(* The client keeps the promise of RemoteCalls, accepts no truncated       *)
(* answer, and makes one HTTP client unless first calls meet: for any      *)
(* number of calls, any requests and any limit.                            *)
(***************************************************************************)
EXTENDS ArgoClient, TLAPS

LEMMA Initially == Init => Inv
<1> SUFFICES ASSUME Init PROVE Inv
  OBVIOUS
<1>1. TypeOK
  <2>1. memo \in [type : BOOLEAN, data : Client]
    <3>1. FALSE \in BOOLEAN /\ TRUE \in BOOLEAN
          /\ NoClient \in Client /\ Injected \in Client
      BY DEF Client
    <3>2. memo = [type |-> FALSE, data |-> NoClient]
          \/ memo = [type |-> TRUE, data |-> Injected]
      BY DEF Init
    <3>3. /\ [type |-> FALSE, data |-> NoClient] \in [type : BOOLEAN, data : Client]
          /\ [type |-> TRUE, data |-> Injected] \in [type : BOOLEAN, data : Client]
      BY <3>1, Zenon
    <3> QED
      BY <3>2, <3>3, Zenon
  <2>2. uses \in [Call -> Client]
    BY DEF Init, Client
  <2> QED
    BY <2>1, <2>2 DEF Init, TypeOK, Location
<1>2. ASSUME NEW c \in Call PROVE CallOK(c)
  BY <1>2 DEF Init, CallOK
<1>3. MemoOK
  BY ClientAssumption DEF Init, MemoOK, MakingOK, UsingOK, Making, Settled, Sent
<1>4. SettingsOK
  <2>1. memo.data \in {NoClient, Injected}
    BY DEF Init
  <2>2. \A c \in Call : memo.data # c /\ pc[c] = "idle"
    BY <2>1, ClientAssumption DEF Init
  <2>3. service = given
    BY DEF Init
  <2> QED
    BY <2>2, <2>3 DEF SettingsOK, UnderWay, InUse
<1> QED
  BY <1>1, <1>2, <1>3, <1>4 DEF Inv

----------------------------------------------------------------------------
(* The program touches the settings only, between the calls; and a service *)
(* that it saves and loads is as it was.                                   *)
LEMMA ProgramAlone ==
  ASSUME Program
  PROVE  Quiet /\ UNCHANGED <<callVars, clientVars, wire, effect, answerVars, carried>>
BY DEF Program, Configure, Reload

LEMMA OwnDocument ==
  ASSUME NEW s \in [token : Token, verify : BOOLEAN]
  PROVE  UnmarshalJSON(s, MarshalJSON(s)) = s
<1>1. CASE s.token = NoToken
  <2>1. MarshalJSON(s) = s
    BY <1>1 DEF MarshalJSON
  <2> QED
    BY <2>1 DEF UnmarshalJSON
<1>2. CASE s.token # NoToken
  <2>1. MarshalJSON(s).token = Redacted
    BY <1>2 DEF MarshalJSON
  <2> QED
    BY <2>1 DEF UnmarshalJSON
<1> QED
  BY <1>1, <1>2

----------------------------------------------------------------------------
(* Types.                                                                  *)
LEMMA TypePreserved == TypeOK /\ [Next]_vars => TypeOK'
<1> SUFFICES ASSUME TypeOK, [Next]_vars PROVE TypeOK'
  OBVIOUS
<1> USE DEF TypeOK, Location, Words, callVars, clientVars, answerVars, serviceVars, Goto
<1>1. ASSUME NEW c \in Call, Begin(c) PROVE TypeOK'
  BY <1>1 DEF Begin
<1>2. ASSUME NEW c \in Call, CheckClient(c) PROVE TypeOK'
  BY <1>2 DEF CheckClient
<1>3. ASSUME NEW c \in Call, NEW word \in Words, Store(c, word) PROVE TypeOK'
  <2>1. memo' \in [type : BOOLEAN, data : Client]
    BY <1>3 DEF Store, Client
  <2>2. unsaved' \in [Call -> SUBSET Words] /\ pc' \in [Call -> Location]
    BY <1>3 DEF Store
  <2> QED
    BY <1>3, <2>1, <2>2 DEF Store
<1>4. ASSUME NEW c \in Call, LoadClient(c) PROVE TypeOK'
  BY <1>4 DEF LoadClient
<1>5. ASSUME NEW c \in Call, Do(c) PROVE TypeOK'
  BY <1>5 DEF Do
<1>6. ASSUME NEW c \in Call, Receive(c) PROVE TypeOK'
  BY <1>6 DEF Receive
<1>7. ASSUME NEW c \in Call, NEW wellFormed \in BOOLEAN, Finish(c, wellFormed)
      PROVE  TypeOK'
  <2>1. ReadBounded(size[c]) \in Nat
    BY LimitAssumption DEF ReadBounded
  <2> QED
    BY <1>7, <2>1 DEF Finish
<1>8. ASSUME NEW c \in Call, Expire(c) PROVE TypeOK'
  BY <1>8 DEF Expire
<1>9. ASSUME NEW c \in Call, NEW done \in BOOLEAN, NEW answer \in {"fine", "refused"},
             NEW n \in 0 .. MaxSize, Serve(c, done, answer, n)
      PROVE  TypeOK'
  BY <1>9, LimitAssumption DEF Serve
<1>10. ASSUME NEW c \in Call, Lose(c) PROVE TypeOK'
  BY <1>10 DEF Lose
<1>11. CASE UNCHANGED vars
  BY <1>11 DEF vars
<1>12. CASE Program
  <2>1. service' \in [token : Token, verify : BOOLEAN] /\ given' \in [token : Token, verify : BOOLEAN]
    BY <1>12, OwnDocument DEF Program, Configure, Reload
  <2>2. late' \in BOOLEAN
    BY <1>12 DEF Program, Configure, Reload
  <2> QED
    BY <1>12, <2>1, <2>2, ProgramAlone
<1> QED
  BY <1>1, <1>2, <1>3, <1>4, <1>5, <1>6, <1>7, <1>8, <1>9, <1>10, <1>11, <1>12
     DEF Next, CallStep, NetworkStep

----------------------------------------------------------------------------
(* A step changes pc, wire, effect, size and got of one call only.         *)
Same(c) ==
  /\ pc'[c] = pc[c]
  /\ wire'[c] = wire[c]
  /\ effect'[c] = effect[c]
  /\ size'[c] = size[c]
  /\ got'[c] = got[c]

LEMMA SameCallOK ==
  ASSUME NEW c \in Call, CallOK(c), Same(c), UNCHANGED req
  PROVE  CallOK(c)'
BY DEF CallOK, Same, PathOK, Namespace

LEMMA SamePath ==
  ASSUME NEW c \in Call, UNCHANGED req
  PROVE  PathOK(req[c])' <=> PathOK(req[c])
BY DEF PathOK, Namespace

LEMMA CallsPreserved ==
  ASSUME TypeOK, \A c \in Call : CallOK(c), [Next]_vars
  PROVE  \A c \in Call : CallOK(c)'
<1> USE DEF TypeOK, callVars, clientVars, answerVars, serviceVars, Goto, Same
<1> SUFFICES ASSUME NEW e \in Call PROVE CallOK(e)'
  OBVIOUS
<1>0. CallOK(e)
  OBVIOUS
<1>1. ASSUME NEW c \in Call, Begin(c) PROVE CallOK(e)'
  <2>1. CASE c = e
    BY <1>0, <1>1, <2>1 DEF Begin, CallOK, PathOK, Namespace
  <2>2. CASE c # e
    BY <1>0, <1>1, <2>2, SameCallOK DEF Begin
  <2> QED
    BY <2>1, <2>2
<1>2. ASSUME NEW c \in Call, CheckClient(c) PROVE CallOK(e)'
  <2>1. CASE c = e
    BY <1>0, <1>2, <2>1, SamePath DEF CheckClient, CallOK
  <2>2. CASE c # e
    BY <1>0, <1>2, <2>2, SameCallOK DEF CheckClient
  <2> QED
    BY <2>1, <2>2
<1>3. ASSUME NEW c \in Call, NEW word \in Words, Store(c, word) PROVE CallOK(e)'
  <2>1. CASE c = e
    BY <1>0, <1>3, <2>1, SamePath DEF Store, CallOK
  <2>2. CASE c # e
    BY <1>0, <1>3, <2>2, SameCallOK DEF Store
  <2> QED
    BY <2>1, <2>2
<1>4. ASSUME NEW c \in Call, LoadClient(c) PROVE CallOK(e)'
  <2>1. CASE c = e
    BY <1>0, <1>4, <2>1, SamePath DEF LoadClient, CallOK
  <2>2. CASE c # e
    BY <1>0, <1>4, <2>2, SameCallOK DEF LoadClient
  <2> QED
    BY <2>1, <2>2
<1>5. ASSUME NEW c \in Call, Do(c) PROVE CallOK(e)'
  <2>1. CASE c = e
    BY <1>0, <1>5, <2>1, SamePath DEF Do, CallOK
  <2>2. CASE c # e
    BY <1>0, <1>5, <2>2, SameCallOK DEF Do
  <2> QED
    BY <2>1, <2>2
<1>6. ASSUME NEW c \in Call, Receive(c) PROVE CallOK(e)'
  <2>1. CASE c = e
    BY <1>0, <1>6, <2>1, SamePath DEF Receive, CallOK
  <2>2. CASE c # e
    BY <1>0, <1>6, <2>2, SameCallOK DEF Receive
  <2> QED
    BY <2>1, <2>2
<1>7. ASSUME NEW c \in Call, NEW wellFormed \in BOOLEAN, Finish(c, wellFormed)
      PROVE  CallOK(e)'
  <2>1. CASE c = e
    <3>1. /\ ReadBounded(size[c]) <= Limit => ReadBounded(size[c]) = size[c]
          /\ ReadBounded(size[c]) > Limit => size[c] > Limit
      BY LimitAssumption DEF ReadBounded
    <3>2. /\ pc[c] = "body" /\ got'[c] = ReadBounded(size[c])
          /\ \/ pc'[c] = "error"
             \/ pc'[c] = "tooLarge" /\ ReadBounded(size[c]) > Limit
             \/ /\ pc'[c] = "ok" /\ wire[c] # "refused"
                /\ ReadBounded(size[c]) \in Nat /\ ~(ReadBounded(size[c]) > Limit)
          /\ UNCHANGED <<wire, effect, size, req>>
      <4>1. ReadBounded(size[c]) \in Nat
        BY LimitAssumption DEF ReadBounded
      <4> QED
        BY <1>7, <4>1 DEF Finish
    <3> QED
      BY <1>0, <2>1, <3>1, <3>2, SamePath, LimitAssumption DEF CallOK
  <2>2. CASE c # e
    BY <1>0, <1>7, <2>2, SameCallOK DEF Finish
  <2> QED
    BY <2>1, <2>2
<1>8. ASSUME NEW c \in Call, Expire(c) PROVE CallOK(e)'
  <2>1. CASE c = e
    BY <1>0, <1>8, <2>1, SamePath DEF Expire, CallOK
  <2>2. CASE c # e
    BY <1>0, <1>8, <2>2, SameCallOK DEF Expire
  <2> QED
    BY <2>1, <2>2
<1>9. ASSUME NEW c \in Call, NEW done \in BOOLEAN, NEW answer \in {"fine", "refused"},
             NEW n \in 0 .. MaxSize, Serve(c, done, answer, n)
      PROVE  CallOK(e)'
  <2>1. CASE c = e
    BY <1>0, <1>9, <2>1, SamePath DEF Serve, CallOK
  <2>2. CASE c # e
    BY <1>0, <1>9, <2>2, SameCallOK DEF Serve
  <2> QED
    BY <2>1, <2>2
<1>10. ASSUME NEW c \in Call, Lose(c) PROVE CallOK(e)'
  <2>1. CASE c = e
    BY <1>0, <1>10, <2>1, SamePath DEF Lose, CallOK
  <2>2. CASE c # e
    BY <1>0, <1>10, <2>2, SameCallOK DEF Lose
  <2> QED
    BY <2>1, <2>2
<1>11. CASE UNCHANGED vars
  BY <1>0, <1>11, SameCallOK DEF vars
<1>12. CASE Program
  BY <1>0, <1>12, ProgramAlone, SameCallOK
<1> QED
  BY <1>1, <1>2, <1>3, <1>4, <1>5, <1>6, <1>7, <1>8, <1>9, <1>10, <1>11, <1>12
     DEF Next, CallStep, NetworkStep

----------------------------------------------------------------------------
(* The client.                                                             *)

(* A step that leaves the client alone, and of each call whether it is     *)
(* making it, or has got it.                                               *)
LEMMA SameMemoOK ==
  ASSUME MemoOK, UNCHANGED <<memo, unsaved, uses>>,
         \A c \in Call :
           /\ pc'[c] # "panic" /\ (Making(c)' <=> Making(c))
           /\ pc'[c] \in {"load", "do"} \/ Sent(c)' =>
                pc[c] \in {"load", "do"} \/ Sent(c)
           /\ pc'[c] = "do" \/ Sent(c)' => pc[c] = "do" \/ Sent(c)
  PROVE  MemoOK'
<1>1. Settled => Settled'
  BY DEF Settled
<1>2. ASSUME NEW c \in Call PROVE MakingOK(c)'
  BY DEF MemoOK, MakingOK
<1>3. ASSUME NEW c \in Call PROVE UsingOK(c)'
  BY <1>1 DEF MemoOK, UsingOK
<1> QED
  BY <1>2, <1>3 DEF MemoOK

(* A call that finds a client can use it; one that finds none makes it.    *)
LEMMA CheckClientKeeps ==
  ASSUME TypeOK, MemoOK, NEW c \in Call, CheckClient(c), CallOK(c),
         \A d \in Call \ {c} : ~Making(d)
  PROVE  MemoOK'
<1>1. /\ pc \in [Call -> Location] /\ unsaved \in [Call -> SUBSET Words]
      /\ pc[c] = "client" /\ wire[c] = "none"
      /\ UNCHANGED <<memo, uses, wire>>
      /\ unsaved' = [unsaved EXCEPT ![c] = IF memo.type THEN {} ELSE Words]
      /\ pc' = [pc EXCEPT ![c] = IF memo.type THEN "load" ELSE "construct"]
  BY DEF TypeOK, CheckClient, CallOK, Goto, answerVars
<1>2. \A d \in Call : ~Making(d)
  BY <1>1 DEF Making
<1>3. memo.type <=> memo.data # NoClient
  BY <1>2 DEF MemoOK
<1>4. CASE memo.type
  <2>1. \A d \in Call : ~Making(d)'
    BY <1>1, <1>2, <1>4 DEF Making
  <2>2. Settled'
    BY <1>1, <1>3, <1>4, <2>1 DEF Settled
  <2>3. ASSUME NEW d \in Call PROVE UsingOK(d)'
    BY <1>1, <1>4, <2>2 DEF MemoOK, UsingOK, Sent
  <2> QED
    BY <1>1, <1>3, <2>1, <2>3 DEF MemoOK, MakingOK
<1>5. CASE ~memo.type
  <2>1. \A d \in Call : Making(d)' <=> d = c
    BY <1>1, <1>2, <1>5 DEF Making
  <2>2. MakingOK(c)'
    BY <1>1, <1>3, <1>5, <2>1 DEF MakingOK, Words
  <2>3. ASSUME NEW d \in Call PROVE UsingOK(d)'
    BY <1>1, <1>5 DEF MemoOK, UsingOK, Settled, Sent
  <2> QED
    BY <2>1, <2>2, <2>3 DEF MemoOK, MakingOK
<1> QED
  BY <1>4, <1>5

(* The second word that its maker stores completes the client.             *)
LEMMA StoreKeeps ==
  ASSUME TypeOK, MemoOK, NEW c \in Call, NEW word \in Words, Store(c, word)
  PROVE  MemoOK'
<1>1. /\ pc \in [Call -> Location] /\ unsaved \in [Call -> SUBSET Words]
      /\ memo \in [type : BOOLEAN, data : Client]
      /\ pc[c] = "construct" /\ word \in unsaved[c]
      /\ UNCHANGED <<uses, wire>>
      /\ unsaved' = [unsaved EXCEPT ![c] = unsaved[c] \ {word}]
      /\ pc' = [pc EXCEPT ![c] = IF unsaved[c] = {word} THEN "load" ELSE "construct"]
  BY DEF TypeOK, Store, Goto, answerVars
<1>2. /\ \A d \in Call : Making(d) <=> d = c
      /\ MakingOK(c) /\ ~Settled
  BY <1>1 DEF MemoOK, MakingOK, Making, Settled
<1>3. /\ memo'.type <=> "type" \notin unsaved'[c]
      /\ memo'.data = IF "data" \in unsaved'[c] THEN NoClient ELSE c
  <2>1. /\ memo.type <=> "type" \notin unsaved[c]
        /\ memo.data = IF "data" \in unsaved[c] THEN NoClient ELSE c
    BY <1>2 DEF MakingOK
  <2>2. CASE word = "type"
    BY <1>1, <2>1, <2>2 DEF Store
  <2>3. CASE word = "data"
    BY <1>1, <2>1, <2>3 DEF Store
  <2> QED
    BY <2>2, <2>3 DEF Words
<1>4. \A d \in Call : ~Sent(d) /\ pc[d] \notin {"load", "do", "panic"}
  BY <1>2 DEF MemoOK, UsingOK
<1>5. \A d \in Call : ~Sent(d)' /\ pc'[d] \notin {"do", "panic"}
  BY <1>1, <1>4 DEF Sent
<1>6. CASE unsaved[c] = {word}
  <2>1. pc'[c] = "load" /\ unsaved'[c] = {}
    BY <1>1, <1>6
  <2>2. \A d \in Call : ~Making(d)'
    BY <1>1, <1>2, <2>1 DEF Making
  <2>3. Settled'
    BY <1>3, <2>1, <2>2, ClientAssumption DEF Settled
  <2> QED
    BY <1>5, <2>2, <2>3 DEF MemoOK, MakingOK, UsingOK, Settled
<1>7. CASE unsaved[c] # {word}
  <2>1. unsaved'[c] # {} /\ pc' = pc
    BY <1>1, <1>7
  <2>2. \A d \in Call : Making(d)' <=> d = c
    BY <1>2, <2>1 DEF Making
  <2>3. \A d \in Call : pc'[d] \notin {"load", "do", "panic"}
    BY <1>4, <2>1
  <2> QED
    BY <1>3, <1>5, <2>1, <2>2, <2>3 DEF MemoOK, MakingOK, UsingOK
<1> QED
  BY <1>6, <1>7

LEMMA LoadClientKeeps ==
  ASSUME TypeOK, MemoOK, NEW c \in Call, LoadClient(c)
  PROVE  MemoOK'
<1>1. /\ pc \in [Call -> Location] /\ uses \in [Call -> Client]
      /\ pc[c] = "load" /\ UNCHANGED <<memo, unsaved, wire>>
      /\ pc' = [pc EXCEPT ![c] = "do"]
      /\ uses' = [uses EXCEPT ![c] = memo.data]
  BY DEF TypeOK, LoadClient, Goto, answerVars
<1>2. Settled /\ Settled'
  BY <1>1 DEF MemoOK, UsingOK, Settled, Making
<1>3. ASSUME NEW d \in Call PROVE UsingOK(d)'
  <2>1. CASE d = c
    BY <1>1, <1>2, <2>1 DEF UsingOK, Sent
  <2>2. CASE d # c
    BY <1>1, <1>2, <2>2 DEF MemoOK, UsingOK, Sent
  <2> QED
    BY <2>1, <2>2
<1> QED
  BY <1>2, <1>3 DEF MemoOK, MakingOK, Settled

LEMMA DoKeeps ==
  ASSUME TypeOK, MemoOK, NEW c \in Call, Do(c)
  PROVE  MemoOK'
<1>1. pc[c] = "do" /\ uses[c] # NoClient
  BY DEF Do, MemoOK, UsingOK, Settled
<1>2. /\ pc \in [Call -> Location] /\ UNCHANGED <<memo, unsaved, uses>>
      /\ wire \in [Call -> {"none", "sent", "fine", "refused", "lost"}]
      /\ pc' = [pc EXCEPT ![c] = "waiting"]
      /\ wire' = [wire EXCEPT ![c] = "sent"]
  BY <1>1 DEF TypeOK, Do, Goto, clientVars
<1> QED
  BY <1>1, <1>2, SameMemoOK DEF Making, Sent, MemoOK, UsingOK

LEMMA MemoPreserved ==
  ASSUME Inv, [Next]_vars, ~raced'
  PROVE  MemoOK'
<1> USE DEF callVars, clientVars, answerVars, serviceVars, Goto, Making, Sent
<1>0. /\ TypeOK /\ pc \in [Call -> Location]
      /\ wire \in [Call -> {"none", "sent", "fine", "refused", "lost"}]
      /\ \A c \in Call : CallOK(c)
  BY DEF Inv, TypeOK
<1>1. ~raced
  BY DEF Next, CallStep, NetworkStep, Begin, CheckClient, Store, LoadClient,
         Do, Receive, Finish, Expire, Serve, Lose, Program, Configure, Reload, vars
<1>2. MemoOK /\ \A c \in Call : pc[c] # "panic"
  BY <1>1 DEF Inv, MemoOK, UsingOK
<1>3. ASSUME NEW c \in Call, Begin(c) PROVE MemoOK'
  BY <1>0, <1>2, <1>3, SameMemoOK DEF Begin
<1>4. ASSUME NEW c \in Call, CheckClient(c) PROVE MemoOK'
  <2>1. \A d \in Call \ {c} : ~Making(d)
    BY <1>4 DEF CheckClient
  <2> QED
    BY <1>0, <1>2, <1>4, <2>1, CheckClientKeeps
<1>5. ASSUME NEW c \in Call, NEW word \in Words, Store(c, word) PROVE MemoOK'
  BY <1>0, <1>2, <1>5, StoreKeeps
<1>6. ASSUME NEW c \in Call, LoadClient(c) PROVE MemoOK'
  BY <1>0, <1>2, <1>6, LoadClientKeeps
<1>7. ASSUME NEW c \in Call, Do(c) PROVE MemoOK'
  BY <1>0, <1>2, <1>7, DoKeeps
<1>8. ASSUME NEW c \in Call, Receive(c) PROVE MemoOK'
  BY <1>0, <1>2, <1>8, SameMemoOK DEF Receive
<1>9. ASSUME NEW c \in Call, NEW wellFormed \in BOOLEAN, Finish(c, wellFormed)
      PROVE  MemoOK'
  BY <1>0, <1>2, <1>9, SameMemoOK DEF Finish
<1>10. ASSUME NEW c \in Call, Expire(c) PROVE MemoOK'
  BY <1>0, <1>2, <1>10, SameMemoOK DEF Expire
<1>11. ASSUME NEW c \in Call, NEW done \in BOOLEAN, NEW answer \in {"fine", "refused"},
              NEW n \in 0 .. MaxSize, Serve(c, done, answer, n)
       PROVE  MemoOK'
  BY <1>0, <1>2, <1>11, SameMemoOK DEF Serve
<1>12. ASSUME NEW c \in Call, Lose(c) PROVE MemoOK'
  BY <1>0, <1>2, <1>12, SameMemoOK DEF Lose
<1>13. CASE UNCHANGED vars
  BY <1>2, <1>13, SameMemoOK DEF vars
<1>14. CASE Program
  BY <1>2, <1>14, ProgramAlone, SameMemoOK
<1> QED
  BY <1>3, <1>4, <1>5, <1>6, <1>7, <1>8, <1>9, <1>10, <1>11, <1>12, <1>13, <1>14
     DEF Next, CallStep, NetworkStep

----------------------------------------------------------------------------
(* The settings.                                                           *)

(* A step of the calls or of the network: no call begins to be under way,  *)
(* no client comes into use, and nothing is set.                           *)
LEMMA SameSettingsOK ==
  ASSUME SettingsOK, UNCHANGED <<memo, unsaved, verifies, serviceVars>>,
         \A c \in Call :
           /\ UnderWay(c)' => UnderWay(c)
           /\ pc'[c] = "construct" <=> pc[c] = "construct"
           /\ InUse(c)' => InUse(c)
  PROVE  SettingsOK'
BY DEF SettingsOK, serviceVars

LEMMA SettingsPreserved ==
  ASSUME Inv, [Next]_vars
  PROVE  SettingsOK'
<1> USE DEF callVars, clientVars, answerVars, serviceVars, Goto, UnderWay, InUse, Returned
<1>0. /\ TypeOK /\ pc \in [Call -> Location] /\ SettingsOK
      /\ uses \in [Call -> Client]
      /\ carried \in [Call -> Token \union {NoToken}]
      /\ verifies \in [Call -> BOOLEAN]
      /\ unsaved \in [Call -> SUBSET Words]
      /\ memo \in [type : BOOLEAN, data : Client]
      /\ service \in [token : Token, verify : BOOLEAN]
  BY DEF Inv, TypeOK
<1>1. ASSUME NEW c \in Call, Begin(c) PROVE SettingsOK'
  BY <1>0, <1>1 DEF Begin, SettingsOK
<1>2. ASSUME NEW c \in Call, CheckClient(c) PROVE SettingsOK'
  BY <1>0, <1>2, ClientAssumption DEF CheckClient, SettingsOK, Words
<1>3. ASSUME NEW c \in Call, NEW word \in Words, Store(c, word) PROVE SettingsOK'
  BY <1>0, <1>3, ClientAssumption DEF Store, SettingsOK, Words
<1>4. ASSUME NEW c \in Call, LoadClient(c) PROVE SettingsOK'
  BY <1>0, <1>4 DEF LoadClient, SettingsOK
<1>5. ASSUME NEW c \in Call, Do(c) PROVE SettingsOK'
  BY <1>0, <1>5, SameSettingsOK DEF Do
<1>6. ASSUME NEW c \in Call, Receive(c) PROVE SettingsOK'
  BY <1>0, <1>6, SameSettingsOK DEF Receive
<1>7. ASSUME NEW c \in Call, NEW wellFormed \in BOOLEAN, Finish(c, wellFormed)
      PROVE  SettingsOK'
  BY <1>0, <1>7, SameSettingsOK DEF Finish
<1>8. ASSUME NEW c \in Call, Expire(c) PROVE SettingsOK'
  BY <1>0, <1>8, SameSettingsOK DEF Expire
<1>9. ASSUME NEW c \in Call, NetworkStep(c) PROVE SettingsOK'
  BY <1>0, <1>9, SameSettingsOK DEF NetworkStep, Serve, Lose
<1>10. CASE UNCHANGED vars
  BY <1>0, <1>10, SameSettingsOK DEF vars
<1>11. CASE Program
  <2>1. Quiet /\ UNCHANGED <<callVars, clientVars, wire, effect, answerVars, carried>>
    BY <1>11, ProgramAlone
  <2>2. service' = given'
    BY <1>0, <1>11, OwnDocument DEF Program, Configure, Reload, SettingsOK
  <2>3. CASE Reload
    <3>1. service' = service /\ late' = late /\ given' = given
      BY <1>0, <2>3, OwnDocument DEF Reload
    <3> QED
      BY <1>0, <2>1, <3>1, SameSettingsOK
  <2>4. ASSUME NEW settings \in [token : Token, verify : BOOLEAN], Configure(settings)
        PROVE  SettingsOK'
    <3>1. \A c \in Call : ~UnderWay(c) /\ pc[c] \notin {"construct", "do", "waiting", "body"}
      BY <2>1 DEF Quiet
    <3>2. late' = (late \/ memo.type)
      BY <2>4 DEF Configure
    <3>3. ~late' => \A c \in Call : ~InUse(c)'
      BY <1>0, <2>1, <3>1, <3>2 DEF SettingsOK
    <3> QED
      BY <1>0, <2>1, <2>2, <3>1, <3>3 DEF SettingsOK
  <2> QED
    BY <1>11, <2>3, <2>4 DEF Program
<1> QED
  BY <1>1, <1>2, <1>3, <1>4, <1>5, <1>6, <1>7, <1>8, <1>9, <1>10, <1>11
     DEF Next, CallStep

----------------------------------------------------------------------------
LEMMA Inductive == Inv /\ [Next]_vars => Inv'
<1> SUFFICES ASSUME Inv, [Next]_vars PROVE Inv'
  OBVIOUS
<1>1. TypeOK /\ \A c \in Call : CallOK(c)
  BY DEF Inv
<1>2. TypeOK'
  BY <1>1, TypePreserved
<1>3. \A c \in Call : CallOK(c)'
  BY <1>1, CallsPreserved
<1>4. ~raced' => MemoOK'
  BY MemoPreserved
<1>5. SettingsOK'
  BY SettingsPreserved
<1> QED
  BY <1>2, <1>3, <1>4, <1>5 DEF Inv

(* Where calls can be, and what they have done by then (client.go:112-158).*)
THEOREM Invariance == Spec => []Inv
<1>1. Init => Inv
  BY Initially
<1>2. Inv /\ [Next]_vars => Inv'
  BY Inductive
<1> QED
  BY <1>1, <1>2, PTL DEF Spec

(* No call takes a part of an answer for the whole, and none refuses one   *)
(* that is within the limit for its size (client.go:163-173).              *)
THEOREM AnswersAreWhole == Spec => []NothingIsTruncated
<1>1. Inv => NothingIsTruncated
  BY DEF Inv, CallOK, NothingIsTruncated
<1> QED
  BY <1>1, Invariance, PTL

(* First calls that do not meet leave one client for all, and nobody       *)
(* panics (client.go:87-99).                                               *)
THEOREM OneClient == Spec => []OneClientWithoutRaces
<1>1. Inv => OneClientWithoutRaces
  BY DEF Inv, MemoOK, UsingOK, OneClientWithoutRaces
<1> QED
  BY <1>1, Invariance, PTL

(* Saving and loading the service never costs a request its token          *)
(* (redact.go:43-75).                                                      *)
THEOREM TokensKept == Spec => []TokensAreKept
<1>1. Inv => TokensAreKept
  BY DEF Inv, SettingsOK, UnderWay, Returned, TokensAreKept
<1> QED
  BY <1>1, Invariance, PTL

(* Whichever calls make a client, it verifies as VerifySSL says, until the *)
(* setting is changed (client.go:87-99).                                   *)
THEOREM VerificationSet == Spec => []VerificationIsAsSet
<1>1. Inv => VerificationIsAsSet
  BY DEF Inv, SettingsOK, InUse, VerificationIsAsSet
<1> QED
  BY <1>1, Invariance, PTL

(* The client implements RemoteCalls: every step of a call, of the network *)
(* and of the server is one of its steps, or none.                         *)
LEMMA StepRefines == Inv /\ [Next]_vars => [Remote!Next]_(Remote!vars)
<1> SUFFICES ASSUME Inv, [Next]_vars PROVE [Remote!Next]_(Remote!vars)
  OBVIOUS
<1> DEFINE phases == [c \in Call |-> Phase(c)]
           ok == [r \in Request |-> /\ r.scope # "server" => Namespace(r) = "good"
                                    /\ r.scope = "workflow" => r.name = "good"]
<1>0. /\ pc \in [Call -> Location] /\ req \in [Call -> Request]
      /\ effect \in [Call -> BOOLEAN] /\ \A c \in Call : CallOK(c)
  BY DEF Inv, TypeOK
<1>1. \A c \in Call : PathOK(req[c]) => ok[req[c]]
  BY <1>0, RequestAssumption DEF PathOK
<1> USE DEF callVars, clientVars, answerVars, serviceVars, Goto
<1> HIDE DEF ok
(* A call that goes from one place to another, and nothing else happens.   *)
<1>2. ASSUME NEW c \in Call, NEW l, pc' = [pc EXCEPT ![c] = l],
             UNCHANGED <<req, effect>>,
             \/ Phase(c)' = Phase(c)
             \/ Phase(c) = "idle" /\ Phase(c)' = "running"
             \/ Phase(c) = "running" /\ Phase(c)' = "ok" /\ effect[c]
             \/ Phase(c) \in {"idle", "running"} /\ Phase(c)' = "error"
      PROVE  [Remote!Next]_(Remote!vars)
  <2>1. \A d \in Call : d # c => Phase(d)' = Phase(d)
    BY <1>0, <1>2 DEF Phase
  <2>2. phases' = [phases EXCEPT ![c] = Phase(c)']
    BY <2>1
  <2>3. phases[c] = Phase(c)
    OBVIOUS
  <2>4. CASE Phase(c)' = Phase(c)
    <3>1. phases' = phases
      BY <2>1, <2>4
    <3> QED
      BY <1>2, <3>1 DEF Remote!vars
  <2>5. CASE Phase(c) = "idle" /\ Phase(c)' = "running"
    <3>1. Remote!Begin(c)
      BY <1>2, <2>2, <2>3, <2>5 DEF Remote!Begin
    <3> QED
      BY <3>1 DEF Remote!Next
  <2>6. CASE Phase(c) = "running" /\ Phase(c)' = "ok" /\ effect[c]
    <3>1. Remote!Succeed(c)
      BY <1>2, <2>2, <2>3, <2>6 DEF Remote!Succeed
    <3> QED
      BY <3>1 DEF Remote!Next
  <2>7. CASE Phase(c) \in {"idle", "running"} /\ Phase(c)' = "error"
    <3>1. Remote!Fail(c)
      BY <1>2, <2>2, <2>3, <2>7 DEF Remote!Fail
    <3> QED
      BY <3>1 DEF Remote!Next
  <2> QED
    BY <1>2, <2>4, <2>5, <2>6, <2>7
<1>3. ASSUME NEW c \in Call, Begin(c) PROVE [Remote!Next]_(Remote!vars)
  BY <1>0, <1>2, <1>3 DEF Begin, Phase
<1>4. ASSUME NEW c \in Call, CheckClient(c) PROVE [Remote!Next]_(Remote!vars)
  BY <1>0, <1>2, <1>4 DEF CheckClient, Phase
<1>5. ASSUME NEW c \in Call, NEW word \in Words, Store(c, word)
      PROVE  [Remote!Next]_(Remote!vars)
  BY <1>0, <1>2, <1>5 DEF Store, Phase
<1>6. ASSUME NEW c \in Call, LoadClient(c) PROVE [Remote!Next]_(Remote!vars)
  BY <1>0, <1>2, <1>6 DEF LoadClient, Phase
<1>7. ASSUME NEW c \in Call, Do(c) PROVE [Remote!Next]_(Remote!vars)
  BY <1>0, <1>2, <1>7 DEF Do, Phase
<1>8. ASSUME NEW c \in Call, Receive(c) PROVE [Remote!Next]_(Remote!vars)
  BY <1>0, <1>2, <1>8 DEF Receive, Phase
<1>9. ASSUME NEW c \in Call, NEW wellFormed \in BOOLEAN, Finish(c, wellFormed)
      PROVE  [Remote!Next]_(Remote!vars)
  <2>1. pc[c] = "body" /\ (wire[c] # "refused" => effect[c])
    BY <1>0, <1>9 DEF Finish, CallOK
  <2>2. CASE pc'[c] = "ok"
    <3>1. effect[c]
      BY <1>0, <1>9, <2>1, <2>2 DEF Finish
    <3> QED
      BY <1>0, <1>2, <1>9, <2>1, <2>2, <3>1 DEF Finish, Phase
  <2>3. CASE pc'[c] \in {"error", "tooLarge"}
    BY <1>0, <1>2, <1>9, <2>1, <2>3 DEF Finish, Phase
  <2> QED
    BY <1>0, <1>9, <2>2, <2>3 DEF Finish
<1>10. ASSUME NEW c \in Call, Expire(c) PROVE [Remote!Next]_(Remote!vars)
  BY <1>0, <1>2, <1>10 DEF Expire, Phase
<1>11. ASSUME NEW c \in Call, NEW done \in BOOLEAN, NEW answer \in {"fine", "refused"},
              NEW n \in 0 .. MaxSize, Serve(c, done, answer, n)
       PROVE  [Remote!Next]_(Remote!vars)
  <2>1. /\ wire[c] = "sent" /\ UNCHANGED <<pc, req>>
        /\ effect' = [effect EXCEPT ![c] = done]
    BY <1>11 DEF Serve
  <2>2. ~effect[c] /\ PathOK(req[c]) /\ pc[c] # "idle"
    BY <1>0, <2>1 DEF CallOK
  <2>3. phases' = phases /\ phases[c] # "idle"
    BY <1>0, <2>1, <2>2 DEF Phase
  <2>4. CASE done
    <3>1. Remote!Take(c)
      BY <1>1, <2>1, <2>2, <2>3, <2>4 DEF Remote!Take, ok
    <3> QED
      BY <3>1 DEF Remote!Next
  <2>5. CASE ~done
    <3>1. effect' = effect
      BY <1>0, <2>1, <2>2, <2>5
    <3> QED
      BY <2>1, <2>3, <3>1 DEF Remote!vars
  <2> QED
    BY <2>4, <2>5
<1>12. ASSUME NEW c \in Call, Lose(c) PROVE [Remote!Next]_(Remote!vars)
  <2>1. UNCHANGED <<pc, req, effect>> /\ phases' = phases
    BY <1>12 DEF Lose, Phase
  <2> QED
    BY <2>1 DEF Remote!vars
<1>13. CASE UNCHANGED vars
  <2>1. UNCHANGED <<pc, req, effect>> /\ phases' = phases
    BY <1>13 DEF vars, Phase
  <2> QED
    BY <2>1 DEF Remote!vars
<1>14. CASE Program
  <2>1. UNCHANGED <<pc, req, effect>> /\ phases' = phases
    BY <1>14, ProgramAlone DEF Phase
  <2> QED
    BY <2>1 DEF Remote!vars
<1> QED
  BY <1>3, <1>4, <1>5, <1>6, <1>7, <1>8, <1>9, <1>10, <1>11, <1>12, <1>13, <1>14
     DEF Next, CallStep, NetworkStep

LEMMA InitRefines == Init => Remote!Init
<1> SUFFICES ASSUME Init PROVE Remote!Init
  OBVIOUS
<1>1. [c \in Call |-> Phase(c)] = [c \in Call |-> "idle"]
  BY DEF Init, Phase
<1>2. req \in [Call -> Request] /\ effect = [c \in Call |-> FALSE]
  BY DEF Init
<1> QED
  BY <1>1, <1>2 DEF Remote!Init

(* The client keeps its promise: no effect without acceptable arguments,   *)
(* none twice, and none missing when there is no error.                    *)
THEOREM HonestCalls == Spec => CallsAreHonest
<1>1. Init => Remote!Init
  BY InitRefines
<1>2. Inv /\ [Next]_vars => [Remote!Next]_(Remote!vars)
  BY StepRefines
<1> QED
  BY <1>1, <1>2, Invariance, PTL DEF Spec, CallsAreHonest, Remote!Spec
=============================================================================
