------------------------ MODULE WorkflowBuildProofs ------------------------
(***************************************************************************)
(* The safety of concurrent Builds, for any number of goroutines, hooks,   *)
(* templates and operations, and the refinement of AtomicDispatch.  First, *)
(* what the operations on lists of named hooks return and preserve.        *)
(***************************************************************************)
EXTENDS WorkflowBuild, WellFoundedInduction, SequenceTheorems, TLAPS

Entry(I, F) == [id : I, fn : F]
Unique(list) ==
  \A i, j \in DOMAIN list : list[i].id = list[j].id => i = j

(* A non-empty set of naturals has a least element.                        *)
LEMMA LeastElement ==
  ASSUME NEW T \in SUBSET Nat, T # {}
  PROVE  \E m \in T : \A n \in T : m <= n
<1>1. PICK m \in T : \A n \in T : ~ (<<n, m>> \in OpToRel(<, Nat))
  BY NatLessThanWellFounded, WFMin
<1>2. ASSUME NEW n \in T, n < m PROVE FALSE
  <2>1. <<n, m>> \in {ss \in Nat \X Nat : ss[1] < ss[2]}
    BY <1>2, m \in T, n \in T, T \subseteq Nat
  <2>2. <<n, m>> \in OpToRel(<, Nat)
    BY <2>1, Zenon DEF OpToRel
  <2> QED
    BY <1>1, <2>2, Zenon
<1>3. \A n \in T : ~(n < m)
  BY <1>2
<1> QED
  <2> HIDE <1>1
  <2> QED
    BY <1>3, m \in T

(* Registering keeps a list of entries a list of entries.                  *)
LEMMA WithHookType ==
  ASSUME NEW I, NEW F, NEW list \in Seq(Entry(I, F)), NEW id \in I, NEW fn \in F
  PROVE  WithHook(list, id, fn) \in Seq(Entry(I, F))
<1>1. [id |-> id, fn |-> fn] \in Entry(I, F)
  BY DEF Entry
<1> QED
  BY <1>1 DEF WithHook

(* Registering never gives two entries one name.                           *)
LEMMA WithHookUnique ==
  ASSUME NEW I, NEW F, NEW list \in Seq(Entry(I, F)), NEW id \in I, NEW fn \in F,
         Unique(list)
  PROVE  Unique(WithHook(list, id, fn))
<1> DEFINE new == [id |-> id, fn |-> fn]
           longer == Append(list, new)
<1>1. new \in Entry(I, F) /\ new.id = id
  BY DEF Entry
<1>2. CASE HasHook(list, id)
  BY <1>2 DEF WithHook
<1>3. CASE ~HasHook(list, id)
  <2>1. DOMAIN longer = 1 .. Len(list) + 1 /\ longer[Len(list) + 1] = new
    BY <1>1, AppendProperties
  <2>2. \A i \in 1 .. Len(list) : longer[i] = list[i]
    BY <1>1, AppendProperties
  <2>3. DOMAIN list = 1 .. Len(list) /\ Len(list) \in Nat
    OBVIOUS
  <2>4. \A i \in 1 .. Len(list) : list[i].id # id
    BY <1>3, <2>3 DEF HasHook
  <2>5. Unique(longer)
    <3> HIDE DEF longer, new
    <3> QED
      BY <1>1, <2>1, <2>2, <2>3, <2>4 DEF Unique
  <2> QED
    BY <1>3, <2>5 DEF WithHook
<1> QED
  BY <1>2, <1>3

(* The entry that Remove cuts out exists.                                  *)
LEMMA FirstHookExists ==
  ASSUME NEW I, NEW F, NEW list \in Seq(Entry(I, F)), NEW id, HasHook(list, id)
  PROVE  FirstHook(list, id) \in 1 .. Len(list)
<1> DEFINE T == {i \in 1 .. Len(list) : list[i].id = id}
<1>1. Len(list) \in Nat /\ DOMAIN list = 1 .. Len(list)
  OBVIOUS
<1>2. T \in SUBSET Nat /\ T # {}
  BY <1>1 DEF HasHook
<1>3. PICK m \in T : \A n \in T : m <= n
  BY <1>2, LeastElement
<1>4. \A j \in 1 .. m - 1 : list[j].id # id
  <2> SUFFICES ASSUME NEW j \in 1 .. m - 1, list[j].id = id PROVE FALSE
    OBVIOUS
  <2>1. m \in 1 .. Len(list)
    OBVIOUS
  <2>2. j \in T
    BY <1>1, <2>1
  <2> QED
    BY <1>3, <2>1, <2>2
<1>5. m \in DOMAIN list /\ list[m].id = id
  BY <1>1
<1>6. \E i \in DOMAIN list : /\ list[i].id = id
                             /\ \A j \in 1 .. i - 1 : list[j].id # id
  BY <1>4, <1>5
<1> QED
  BY <1>1, <1>6 DEF FirstHook

(* Cutting element i out of a sequence: the later ones move down by one.   *)
LEMMA RemoveAtProperties ==
  ASSUME NEW S, NEW list \in Seq(S), NEW i \in 1 .. Len(list)
  PROVE  /\ RemoveAt(list, i) \in Seq(S)
         /\ Len(RemoveAt(list, i)) = Len(list) - 1
         /\ \A k \in 1 .. Len(list) - 1 :
              RemoveAt(list, i)[k] = list[IF k < i THEN k ELSE k + 1]
<1> DEFINE front == SubSeq(list, 1, i - 1)
           back  == SubSeq(list, i + 1, Len(list))
<1>1. /\ front \in Seq(S) /\ Len(front) = i - 1
      /\ \A k \in 1 .. i - 1 : front[k] = list[k]
  BY SubSeqProperties
<1>2. /\ back \in Seq(S) /\ Len(back) = Len(list) - i
      /\ \A k \in 1 .. Len(list) - i : back[k] = list[i + k]
  BY SubSeqProperties
<1>3. RemoveAt(list, i) = front \o back
  BY DEF RemoveAt
<1> HIDE DEF front, back
<1>4. /\ front \o back \in Seq(S)
      /\ Len(front \o back) = Len(list) - 1
      /\ \A k \in 1 .. Len(list) - 1 :
           (front \o back)[k] = IF k <= i - 1 THEN front[k] ELSE back[k - (i - 1)]
  BY <1>1, <1>2, ConcatProperties
<1>5. ASSUME NEW k \in 1 .. Len(list) - 1
      PROVE  (front \o back)[k] = list[IF k < i THEN k ELSE k + 1]
  BY <1>1, <1>2, <1>4
<1> QED
  BY <1>3, <1>4, <1>5

(* Removing keeps a list of entries a list of entries, without duplicates. *)
LEMMA WithoutHookType ==
  ASSUME NEW I, NEW F, NEW list \in Seq(Entry(I, F)), NEW id
  PROVE  WithoutHook(list, id) \in Seq(Entry(I, F))
BY FirstHookExists, RemoveAtProperties DEF WithoutHook

LEMMA WithoutHookUnique ==
  ASSUME NEW I, NEW F, NEW list \in Seq(Entry(I, F)), NEW id, Unique(list)
  PROVE  Unique(WithoutHook(list, id))
<1>1. CASE ~HasHook(list, id)
  BY <1>1 DEF WithoutHook
<1>2. CASE HasHook(list, id)
  <2> DEFINE f == FirstHook(list, id)
             shorter == RemoveAt(list, f)
             Old(k) == IF k < f THEN k ELSE k + 1
  <2>1. f \in 1 .. Len(list) /\ Len(list) \in Nat /\ DOMAIN list = 1 .. Len(list)
    BY <1>2, FirstHookExists
  <2>2. /\ shorter \in Seq(Entry(I, F)) /\ Len(shorter) = Len(list) - 1
        /\ \A k \in 1 .. Len(list) - 1 : shorter[k] = list[Old(k)]
    BY <2>1, RemoveAtProperties
  <2>3. DOMAIN shorter = 1 .. Len(list) - 1
    BY <2>2
  <2> HIDE DEF f, shorter
  <2>4. \A k \in 1 .. Len(list) - 1 : Old(k) \in 1 .. Len(list)
    BY <2>1
  <2>5. \A j, k \in 1 .. Len(list) - 1 : Old(j) = Old(k) => j = k
    BY <2>1
  <2>6. ASSUME NEW j \in 1 .. Len(list) - 1, NEW k \in 1 .. Len(list) - 1,
               shorter[j].id = shorter[k].id
        PROVE  j = k
    <3>1. shorter[j] = list[Old(j)] /\ shorter[k] = list[Old(k)]
      BY <2>2
    <3>2. Old(j) \in DOMAIN list /\ Old(k) \in DOMAIN list
      BY <2>1, <2>4
    <3> HIDE DEF Old
    <3>3. Old(j) = Old(k)
      BY <2>6, <3>1, <3>2 DEF Unique
    <3> QED
      BY <2>5, <3>3
  <2>7. Unique(shorter)
    BY <2>3, <2>6 DEF Unique
  <2> QED
    BY <1>2, <2>7 DEF WithoutHook, shorter, f
<1> QED
  BY <1>1, <1>2

(* The functions of a list of entries.                                     *)
LEMMA FnsType ==
  ASSUME NEW I, NEW F, NEW list \in Seq(Entry(I, F))
  PROVE  Fns(list) \in Seq(F)
<1>1. ASSUME NEW i \in 1 .. Len(list) PROVE list[i].fn \in F
  <2>1. list[i] \in Entry(I, F)
    OBVIOUS
  <2> QED
    BY <2>1 DEF Entry
<1> QED
  BY <1>1 DEF Fns

----------------------------------------------------------------------------
(* A dispatch runs a list up to its first failing function, if it has one. *)
LEMMA FiredToFirst ==
  ASSUME NEW S, NEW fns \in Seq(S), NEW k \in DOMAIN fns, fns[k] \in Failing,
         \A j \in 1 .. k - 1 : fns[j] \notin Failing
  PROVE  Fired(fns) = SubSeq(fns, 1, k)
<1> DEFINE First(i) == fns[i] \in Failing /\ \A j \in 1 .. i - 1 : fns[j] \notin Failing
           c == CHOOSE i \in DOMAIN fns : First(i)
<1>1. DOMAIN fns = 1 .. Len(fns) /\ Len(fns) \in Nat
  OBVIOUS
<1>2. First(k)
  OBVIOUS
<1>3. c \in DOMAIN fns /\ First(c)
  <2> HIDE DEF First
  <2> QED
    BY <1>2
<1>4. c \in Nat /\ k \in Nat /\ c >= 1 /\ k >= 1
  BY <1>1, <1>3
<1>5. ~(c < k) /\ ~(k < c)
  BY <1>2, <1>3, <1>4
<1>6. c = k
  BY <1>4, <1>5
<1>7. Fails(fns)
  BY DEF Fails
<1> QED
  BY <1>6, <1>7, Zenon DEF Fired

LEMMA FirstFailing ==
  ASSUME NEW S, NEW fns \in Seq(S), Fails(fns)
  PROVE  \E k \in DOMAIN fns :
           fns[k] \in Failing /\ \A j \in 1 .. k - 1 : fns[j] \notin Failing
<1> DEFINE T == {i \in DOMAIN fns : fns[i] \in Failing}
<1>1. T \in SUBSET Nat /\ T # {}
  BY DEF Fails
<1>2. PICK k \in T : \A n \in T : k <= n
  <2> HIDE DEF T
  <2> QED
    BY <1>1, LeastElement
<1>3. k \in DOMAIN fns /\ fns[k] \in Failing /\ k \in 1 .. Len(fns)
  OBVIOUS
<1>4. ASSUME NEW j \in 1 .. k - 1 PROVE fns[j] \notin Failing
  <2>1. j \in DOMAIN fns /\ j < k
    BY <1>3
  <2> QED
    BY <1>2, <2>1
<1> QED
  BY <1>3, <1>4

(* So a dispatch runs the head of its list and then, if that succeeds,     *)
(* what a dispatch of the tail runs.                                       *)
LEMMA FiredStep ==
  ASSUME NEW S, NEW t \in Seq(S), t # << >>
  PROVE  Fired(t) = << Head(t) >> \o
                    Fired(IF Head(t) \in Failing THEN << >> ELSE Tail(t))
<1>1. /\ Head(t) = t[1] /\ Tail(t) \in Seq(S) /\ Len(t) \in Nat /\ Len(t) >= 1
      /\ DOMAIN t = 1 .. Len(t) /\ t = << Head(t) >> \o Tail(t)
      /\ Head(t) \in S
  OBVIOUS
<1>2. /\ Len(Tail(t)) = Len(t) - 1 /\ DOMAIN Tail(t) = 1 .. Len(t) - 1
      /\ \A i \in 1 .. Len(t) - 1 : Tail(t)[i] = t[i + 1]
  OBVIOUS
<1>3. CASE Head(t) \in Failing
  <2>1. Fired(t) = SubSeq(t, 1, 1)
    <3>1. 1 \in DOMAIN t /\ t[1] \in Failing
      BY <1>1, <1>3
    <3>2. \A j \in 1 .. 1 - 1 : t[j] \notin Failing
      OBVIOUS
    <3> QED
      BY <3>1, <3>2, FiredToFirst
  <2>2. SubSeq(t, 1, 1) = << Head(t) >>
    <3> DEFINE u == SubSeq(t, 1, 1)
               v == << Head(t) >>
    <3>1. u \in Seq(S) /\ Len(u) = 1 /\ u[1] = t[1]
      BY <1>1
    <3>2. v \in Seq(S) /\ Len(v) = 1 /\ v[1] = t[1]
      BY <1>1
    <3> HIDE DEF u, v
    <3>3. \A i \in 1 .. 1 : u[i] = v[i]
      BY <3>1, <3>2
    <3>4. u = v
      BY <3>1, <3>2, <3>3, SeqEqual
    <3> QED
      BY <3>4 DEF u, v
  <2>3. Fired(<< >>) = << >>
    BY DEF Fired, Fails
  <2> QED
    BY <1>1, <1>3, <2>1, <2>2, <2>3
<1>4. CASE Head(t) \notin Failing /\ Fails(Tail(t))
  <2>1. PICK k \in DOMAIN Tail(t) :
          Tail(t)[k] \in Failing /\ \A j \in 1 .. k - 1 : Tail(t)[j] \notin Failing
    BY <1>1, <1>4, FirstFailing
  <2>2. Fired(Tail(t)) = SubSeq(Tail(t), 1, k)
    BY <1>1, <2>1, FiredToFirst
  <2>3. k \in 1 .. Len(t) - 1 /\ k \in Nat /\ k + 1 \in DOMAIN t
        /\ t[k + 1] \in Failing
    BY <1>1, <1>2, <2>1
  <2>4. ASSUME NEW j \in 1 .. (k + 1) - 1 PROVE t[j] \notin Failing
    <3>1. CASE j = 1
      BY <1>1, <1>4, <3>1
    <3>2. CASE j # 1
      <4>1. j - 1 \in 1 .. k - 1 /\ j - 1 \in 1 .. Len(t) - 1 /\ (j - 1) + 1 = j
        BY <2>3, <3>2
      <4>2. Tail(t)[j - 1] = t[j] /\ Tail(t)[j - 1] \notin Failing
        BY <1>2, <2>1, <4>1
      <4> QED
        BY <4>2
    <3> QED
      BY <3>1, <3>2
  <2>5. Fired(t) = SubSeq(t, 1, k + 1)
    BY <2>3, <2>4, FiredToFirst
  <2>6. SubSeq(t, 1, k + 1) = << Head(t) >> \o SubSeq(Tail(t), 1, k)
    <3>1. /\ SubSeq(t, 1, k + 1) \in Seq(S) /\ Len(SubSeq(t, 1, k + 1)) = k + 1
          /\ \A i \in 1 .. k + 1 : SubSeq(t, 1, k + 1)[i] = t[i]
      BY <1>1, <2>3
    <3>2. /\ SubSeq(Tail(t), 1, k) \in Seq(S) /\ Len(SubSeq(Tail(t), 1, k)) = k
          /\ \A i \in 1 .. k : SubSeq(Tail(t), 1, k)[i] = t[i + 1]
      BY <1>1, <1>2, <2>3
    <3> DEFINE s == SubSeq(Tail(t), 1, k)
               u == SubSeq(t, 1, k + 1)
    <3>3. << Head(t) >> \in Seq(S)
      BY <1>1
    <3> HIDE DEF s, u
    <3>4. s \in Seq(S) /\ Len(s) = k /\ \A i \in 1 .. k : s[i] = t[i + 1]
      BY <3>2 DEF s
    <3>5. u \in Seq(S) /\ Len(u) = k + 1 /\ \A i \in 1 .. k + 1 : u[i] = t[i]
      BY <3>1 DEF u
    <3>6. << Head(t) >> \o s \in Seq(S) /\ Len(<< Head(t) >> \o s) = k + 1
      BY <2>3, <3>3, <3>4
    <3>7. ASSUME NEW i \in 1 .. k + 1 PROVE u[i] = (<< Head(t) >> \o s)[i]
      <4>1. CASE i = 1
        BY <1>1, <3>3, <3>4, <3>5, <4>1
      <4>2. CASE i # 1
        <5>1. i - 1 \in 1 .. k /\ i \in Nat /\ (i - 1) + 1 = i
          BY <2>3, <4>2
        <5>2. (<< Head(t) >> \o s)[i] = s[i - 1]
          BY <2>3, <3>3, <3>4, <4>2, <5>1
        <5> QED
          BY <3>4, <3>5, <5>1, <5>2
      <4> QED
        BY <4>1, <4>2
    <3>8. u = << Head(t) >> \o s
      BY <3>5, <3>6, <3>7, SeqEqual
    <3> QED
      BY <3>8 DEF s, u
  <2> QED
    BY <1>4, <2>2, <2>5, <2>6
<1>5. CASE Head(t) \notin Failing /\ ~Fails(Tail(t))
  <2>1. ASSUME NEW i \in DOMAIN t PROVE t[i] \notin Failing
    <3>1. CASE i = 1
      BY <1>1, <1>5, <3>1
    <3>2. CASE i # 1
      <4>1. i - 1 \in DOMAIN Tail(t) /\ (i - 1) + 1 = i /\ i - 1 \in 1 .. Len(t) - 1
        BY <1>1, <1>2, <3>2
      <4>2. Tail(t)[i - 1] = t[i]
        BY <1>2, <4>1
      <4> QED
        BY <1>5, <4>1, <4>2 DEF Fails
    <3> QED
      BY <3>1, <3>2
  <2>2. Fired(t) = t /\ Fired(Tail(t)) = Tail(t)
    BY <1>5, <2>1 DEF Fired, Fails
  <2> QED
    BY <1>1, <1>5, <2>2
<1> QED
  BY <1>3, <1>4, <1>5

(* What a dispatch runs is made of the functions of its list.              *)
LEMMA FiredType ==
  ASSUME NEW S, NEW fns \in Seq(S)
  PROVE  Fired(fns) \in Seq(S)
<1>1. CASE Fails(fns)
  <2>1. PICK k \in DOMAIN fns :
          fns[k] \in Failing /\ \A j \in 1 .. k - 1 : fns[j] \notin Failing
    BY <1>1, FirstFailing
  <2>2. Fired(fns) = SubSeq(fns, 1, k) /\ k \in 1 .. Len(fns)
    BY <2>1, FiredToFirst
  <2> QED
    BY <2>2
<1>2. CASE ~Fails(fns)
  BY <1>2 DEF Fired
<1> QED
  BY <1>1, <1>2

----------------------------------------------------------------------------
(* The registry and the Builds.                                            *)

Hook == AnonHook \union NamedHook

(* The assumptions on the constants that most steps need.                  *)
LEMMA Constants ==
  /\ Builder \subseteq Proc
  /\ NoProc \notin Proc
  /\ \A j \in Jobs : /\ j.templates \in Seq(Template)
                     /\ j.resource \in Resource
  /\ HookCall \in [Hook -> Ops \union {NoOp}]
BY BuilderAssumption, NoProcAssumption, JobsAssumption, HookCallAssumption
   DEF Job, Hook

(* What an operation leaves in the registry has the registry's type.       *)
LEMMA UpdateType ==
  ASSUME RegistryTypeOK, NEW o \in Ops, Update(o)
  PROVE  RegistryTypeOK'
<1> USE DEF RegistryTypeOK
<1>0. FreshDefaults \in Scalars /\ NoAnonHooks \in [AnonList -> Seq(AnonHook)]
        /\ NoNamedHooks \in [NamedList -> Seq(NamedEntry)]
  BY ValueAssumption DEF FreshDefaults, NoAnonHooks, NoNamedHooks, Scalars
<1>1. CASE SetScalar(o)
  <2>1. o.field \in Field /\ o.value \in Value \union {Unset}
    BY <1>1, OpsAssumption DEF SetScalar, Operation
  <2> QED
    BY <1>1, <2>1 DEF SetScalar, Scalars
<1>2. CASE UnmarshalJSON(o)
  <2>1. o.scalars \in Scalars
    BY <1>2, OpsAssumption DEF UnmarshalJSON, Operation
  <2> QED
    BY <1>2, <2>1 DEF UnmarshalJSON
<1>3. CASE RegisterHook(o)
  <2>1. o.list \in AnonList /\ o.fn \in AnonHook
    BY <1>3, OpsAssumption DEF RegisterHook, Operation
  <2> QED
    BY <1>3, <2>1 DEF RegisterHook
<1>4. CASE RegisterNamedHook(o)
  <2>1. o.list \in NamedList /\ o.id \in HookName /\ o.fn \in NamedHook
    BY <1>4, OpsAssumption DEF RegisterNamedHook, Operation
  <2>2. WithHook(named[o.list], o.id, o.fn) \in Seq(NamedEntry)
    BY <2>1, WithHookType DEF NamedEntry, Entry
  <2> QED
    BY <1>4, <2>1, <2>2 DEF RegisterNamedHook
<1>5. CASE RemoveHook(o)
  <2>1. o.list \in NamedList
    BY <1>5, OpsAssumption DEF RemoveHook, Operation
  <2>2. WithoutHook(named[o.list], o.id) \in Seq(NamedEntry)
    BY <2>1, WithoutHookType DEF NamedEntry, Entry
  <2> QED
    BY <1>5, <2>1, <2>2 DEF RemoveHook
<1>6. CASE ClearHooks(o)
  BY <1>0, <1>6 DEF ClearHooks
<1>7. CASE Reset(o)
  BY <1>0, <1>7 DEF Reset
<1> QED
  BY <1>1, <1>2, <1>3, <1>4, <1>5, <1>6, <1>7 DEF Update

(* An operation is neither idleness nor a getter past its RLock.           *)
LEMMA OperationKinds ==
  /\ \A o \in Ops : o # NoOp /\ o # Reading
  /\ NoOp # Reading
  /\ \A o \in Ops \union {NoOp, Reading} : o.do \in Mutator \union {"Get"} => o \in Ops
BY OpsAssumption DEF Operation, NoOp, Reading, Mutator

(* The current template is one of the job's.                               *)
LEMMA CurrentTemplateType ==
  ASSUME TypeOK, NEW b \in Builder
  PROVE  /\ Templates(b) \in Seq(Template)
         /\ job[b].resource \in Resource
         /\ ForTemplate(b) => tpl[b] \in DOMAIN Templates(b)
                              /\ CurrentTemplate(b) \in Template
<1>1. job[b] \in Jobs /\ tpl[b] \in Nat \ {0}
  BY DEF TypeOK
<1>2. Templates(b) \in Seq(Template) /\ job[b].resource \in Resource
  BY <1>1, Constants DEF Templates
<1> QED
  BY <1>1, <1>2 DEF ForTemplate, CurrentTemplate

(* The lists that a Build dispatches exist.                                *)
LEMMA ListsExist ==
  ASSUME TypeOK, NEW b \in Builder
  PROVE  AnonListOf(b) \in AnonList /\ NamedListOf(b) \in NamedList
BY CurrentTemplateType
   DEF AnonListOf, NamedListOf, ObjectList, AnonList, NamedList, Resource

(* The defaults fill a template's scalars, and nothing but them.           *)
LEMMA DefaultsType ==
  ASSUME RegistryTypeOK, NEW t \in Template
  PROVE  ApplyTemplateDefaults(t.fields, t.container) \in Scalars
BY DEF RegistryTypeOK, Template, Scalars, ApplyTemplateDefaults

(* What the lock's operations do to its type.                              *)
LEMMA LockStepTypes ==
  ASSUME LockTypeOK, NEW p \in Proc
  PROVE  RLock(p) \/ RUnlock(p) \/ Announce(p) \/ Unlock(p) => LockTypeOK'
BY DEF LockTypeOK, RLock, RUnlock, Announce, Unlock

----------------------------------------------------------------------------
THEOREM Initially == Init => Inv
<1> SUFFICES ASSUME Init PROVE Inv
  OBVIOUS
<1> USE DEF Init, ConfigInit, LockInit, RegistryInit
<1>1. TypeOK
  <2>1. LockTypeOK /\ op \in [Proc -> Ops \union {NoOp, Reading}]
    BY DEF LockTypeOK
  <2>2. RegistryTypeOK
    BY ValueAssumption
       DEF RegistryTypeOK, FreshDefaults, NoAnonHooks, NoNamedHooks, Scalars
  <2>3. (CHOOSE j \in Jobs : TRUE) \in Jobs
    BY JobsAssumption
  <2> QED
    BY <2>1, <2>2, <2>3 DEF TypeOK, ConfigTypeOK, Location, NoDispatch
<1>2. PlaceOK
  BY BuilderAssumption DEF PlaceOK, InPlace
<1>3. LocksAreAccountedFor
  <2>1. NoOp # Reading
    BY OperationKinds
  <2>2. ASSUME NEW p \in Proc
        PROVE  holding[p] = ReadHolds(p)
    BY <2>1, BuilderAssumption DEF ReadHolds, InSection, IsReading
  <2> QED
    BY <2>2, Zenon DEF LocksAreAccountedFor
<1>4. StableWhileDispatched
  BY DEF StableWhileDispatched, StableFor
<1>5. BuiltOK
  BY DEF BuiltOK, BuiltSoFar
<1>6. UniqueHookNames
  BY DEF UniqueHookNames, NoNamedHooks
<1> QED
  BY <1>1, <1>2, <1>3, <1>4, <1>5, <1>6 DEF Inv

----------------------------------------------------------------------------
(* A step that leaves a goroutine alone leaves its read holds alone.       *)
LEMMA OthersHold ==
  ASSUME NEW p, p \in Builder => pc'[p] = pc[p], op'[p] = op[p],
         p \in waiting' <=> p \in waiting
  PROVE  ReadHolds(p)' = ReadHolds(p)
BY DEF ReadHolds, InSection, IsReading

(* A builder that is not in a hook is not in an operation.                 *)
LEMMA HooksOperate ==
  ASSUME Inv, NEW b \in Builder, pc[b] \notin {"anonRun", "namedRun"}
  PROVE  op[b] = NoOp /\ op[b] # Reading
BY OperationKinds DEF Inv, PlaceOK, InPlace

(* Read locks stay accounted for when a builder calls RLock ...            *)
LEMMA RLockHolds ==
  ASSUME Inv, NEW b \in Builder,
         pc[b] \in {"defaults", "anon", "named"}, RLock(b), op' = op,
         NEW l \in {"overlay", "anonList", "namedList"},
         pc' = [pc EXCEPT ![b] = l]
  PROVE  LocksAreAccountedFor'
<1> SUFFICES ASSUME NEW p \in Proc PROVE holding'[p] = ReadHolds(p)'
  BY Zenon DEF LocksAreAccountedFor
<1> USE Constants DEF Inv, TypeOK, ConfigTypeOK, LockTypeOK
<1>1. CASE p # b
  <2>1. ReadHolds(p)' = ReadHolds(p)
    BY <1>1, OthersHold DEF RLock
  <2> QED
    BY <1>1, <2>1 DEF RLock, LocksAreAccountedFor
<1>2. CASE p = b
  <2>1. holding[b] = 0
    <3>1. op[b] # Reading /\ holding[b] = ReadHolds(b)
      BY HooksOperate DEF LocksAreAccountedFor
    <3> HIDE DEF Inv, TypeOK, ConfigTypeOK, LockTypeOK
    <3> QED
      BY <3>1 DEF ReadHolds, InSection, IsReading
  <2>2. pc'[b] = l /\ op'[b] # Reading /\ b \in Proc
    BY HooksOperate
  <2>3. IF b \in waiting' THEN holding'[b] = 0 ELSE holding'[b] = 1
    BY <2>1 DEF RLock
  <2> HIDE DEF Inv, TypeOK, ConfigTypeOK, LockTypeOK
  <2> QED
    BY <1>2, <2>2, <2>3 DEF ReadHolds, InSection, IsReading
<1> QED
  BY <1>1, <1>2

(* ... when it calls RUnlock ...                                           *)
LEMMA RUnlockHolds ==
  ASSUME Inv, NEW b \in Builder,
         pc[b] \in {"overlay", "namedList", "anonRun"}, op[b] = NoOp,
         RUnlock(b), op' = op,
         NEW l \in Location \ {"overlay", "anonList", "namedList", "anonRun"},
         pc' = [pc EXCEPT ![b] = l]
  PROVE  LocksAreAccountedFor'
<1> SUFFICES ASSUME NEW p \in Proc PROVE holding'[p] = ReadHolds(p)'
  BY Zenon DEF LocksAreAccountedFor
<1> USE Constants DEF Inv, TypeOK, ConfigTypeOK, LockTypeOK
<1>1. CASE p # b
  <2>1. ReadHolds(p)' = ReadHolds(p)
    BY <1>1, OthersHold DEF RUnlock
  <2> QED
    BY <1>1, <2>1 DEF RUnlock, LocksAreAccountedFor
<1>2. CASE p = b
  <2>1. b \notin waiting /\ op[b] # Reading
    BY OperationKinds DEF RUnlock
  <2>2. holding[b] = 1
    BY <2>1 DEF LocksAreAccountedFor, ReadHolds, InSection, IsReading
  <2>3. pc'[b] = l /\ op'[b] # Reading /\ b \in Proc
    BY <2>1
  <2>4. holding'[b] = 0
    BY <2>2 DEF RUnlock
  <2> QED
    BY <1>2, <2>3, <2>4 DEF ReadHolds, InSection, IsReading
<1> QED
  BY <1>1, <1>2

(* ... and when it moves without either.                                   *)
LEMMA MoveHolds ==
  ASSUME Inv, NEW b \in Builder, UNCHANGED lockVars,
         \A p \in Proc \ {b} : op'[p] = op[p], op[b] # Reading, op'[b] # Reading,
         NEW l \in Location, pc' = [pc EXCEPT ![b] = l],
         \/ /\ pc[b] \notin {"overlay", "anonList", "namedList", "anonRun"}
            /\ l \notin {"overlay", "anonList", "namedList", "anonRun"}
         \/ /\ pc[b] \in {"anonList", "anonRun"} /\ b \notin waiting
            /\ l = "anonRun"
  PROVE  LocksAreAccountedFor'
<1> SUFFICES ASSUME NEW p \in Proc PROVE holding'[p] = ReadHolds(p)'
  BY Zenon DEF LocksAreAccountedFor
<1> USE Constants DEF Inv, TypeOK, lockVars
<1>1. ReadHolds(p)' = ReadHolds(p)
  <2>1. CASE p # b
    BY <2>1, OthersHold
  <2>2. CASE p = b
    BY <2>2 DEF ReadHolds, InSection, IsReading
  <2> QED
    BY <2>1, <2>2
<1> QED
  BY <1>1 DEF LocksAreAccountedFor

(* What a step leaves alone in one builder stays true of it.               *)
LEMMA OthersKeep ==
  ASSUME NEW q, pc'[q] = pc[q], job'[q] = job[q], tpl'[q] = tpl[q]
  PROVE  /\ op'[q] = op[q] => InPlace(q)' = InPlace(q)
         /\ op'[q] = op[q] => WaitsInPlace(q)' = WaitsInPlace(q)
         /\ built'[q] = built[q] => BuiltSoFar(q)' = BuiltSoFar(q)
         /\ /\ ran'[q] = ran[q] /\ todo'[q] = todo[q]
            /\ pc[q] = "anonRun" => anon' = anon
            => StableFor(q)' = StableFor(q)
<1>1. Templates(q)' = Templates(q) /\ ForTemplate(q)' = ForTemplate(q)
      /\ HasNamedHooks(q)' = HasNamedHooks(q) /\ AnonListOf(q)' = AnonListOf(q)
  BY DEF Templates, ForTemplate, HasNamedHooks, AnonListOf
<1>2. op'[q] = op[q] => InPlace(q)' = InPlace(q)
  BY <1>1 DEF InPlace
<1>3. op'[q] = op[q] => WaitsInPlace(q)' = WaitsInPlace(q)
  BY DEF WaitsInPlace
<1>4. built'[q] = built[q] => BuiltSoFar(q)' = BuiltSoFar(q)
  BY <1>1 DEF BuiltSoFar
<1>5. /\ ran'[q] = ran[q] /\ todo'[q] = todo[q]
      /\ pc[q] = "anonRun" => anon' = anon
      => StableFor(q)' = StableFor(q)
  BY <1>1 DEF StableFor
<1> QED
  BY <1>2, <1>3, <1>4, <1>5

(* So a step of one builder has to be checked for that builder only.       *)
LEMMA OneBuilder ==
  ASSUME Inv, NEW b \in Builder, InPlace(b)', BuiltSoFar(b)', StableFor(b)',
         TypeOK', LocksAreAccountedFor', UNCHANGED registry,
         \A p \in waiting' : p = b => WaitsInPlace(b)',
         waiting' \subseteq waiting \union {b},
         \A q \in Builder \ {b} :
           /\ pc'[q] = pc[q] /\ job'[q] = job[q] /\ tpl'[q] = tpl[q]
           /\ built'[q] = built[q] /\ todo'[q] = todo[q] /\ ran'[q] = ran[q],
         \A p \in Proc \ {b} : op'[p] = op[p]
  PROVE  Inv'
<1>1. ASSUME NEW q \in Builder \ {b}
      PROVE  InPlace(q)' /\ BuiltSoFar(q)' /\ StableFor(q)'
  <2>1. op'[q] = op[q] /\ anon' = anon
    BY Constants DEF registry
  <2>2. /\ InPlace(q)' = InPlace(q) /\ BuiltSoFar(q)' = BuiltSoFar(q)
        /\ StableFor(q)' = StableFor(q)
    BY <2>1, OthersKeep
  <2>3. InPlace(q) /\ BuiltSoFar(q) /\ StableFor(q)
    BY DEF Inv, PlaceOK, BuiltOK, StableWhileDispatched
  <2> QED
    BY <2>2, <2>3, Zenon
<1>2. ASSUME NEW p \in waiting', p # b PROVE WaitsInPlace(p)'
  <2>1. p \in waiting /\ p \in Proc
    BY <1>2 DEF Inv, TypeOK, ConfigTypeOK, LockTypeOK
  <2>2. WaitsInPlace(p)
    BY <2>1 DEF Inv, PlaceOK
  <2>3. op'[p] = op[p] /\ (p \in Builder => pc'[p] = pc[p])
    BY <1>2, <2>1
  <2> QED
    BY <2>2, <2>3 DEF WaitsInPlace
<1>3. UniqueHookNames'
  BY DEF UniqueHookNames, registry, Inv
<1> QED
  BY <1>1, <1>2, <1>3
     DEF Inv, PlaceOK, BuiltOK, StableWhileDispatched

----------------------------------------------------------------------------
(* Each step of a Build preserves the invariant.                           *)
LEMMA StartStep ==
  ASSUME Inv, NEW b \in Builder, NEW j \in Jobs, Start(b, j)
  PROVE  Inv'
<1> USE Constants DEF Start, Goto, Inv, configVars
<1>1. TypeOK'
  <2>1. ConfigTypeOK'
    BY DEF TypeOK, ConfigTypeOK, LockTypeOK, RegistryTypeOK, lockVars, registry
  <2>2. /\ pc' \in [Builder -> Location]
        /\ job' \in [Builder -> Jobs]
        /\ tpl' \in [Builder -> Nat \ {0}]
    BY DEF TypeOK, Location
  <2>3. /\ built' \in [Builder -> Seq(Scalars)]
        /\ todo' \in [Builder -> Seq(AnonHook \union NamedHook)]
        /\ ran' \in [Builder -> Seq(AnonHook \union NamedHook)]
    BY DEF TypeOK
  <2>4. last' \in [Builder -> [list : AnonList \union NamedList \union {"none"},
                               fns : Seq(AnonHook \union NamedHook)]]
    BY DEF TypeOK, NoDispatch
  <2> QED
    BY <2>1, <2>2, <2>3, <2>4 DEF TypeOK
<1>2. InPlace(b)'
  BY DEF InPlace, TypeOK
<1>3. LocksAreAccountedFor'
  <2>1. "build" \in Location /\ op[b] # Reading /\ UNCHANGED lockVars
    BY OperationKinds DEF Location
  <2> QED
    BY <2>1, MoveHolds DEF InProgress
<1>4. StableFor(b)'
  BY DEF StableFor, TypeOK
<1>5. BuiltSoFar(b)'
  BY DEF BuiltSoFar, TypeOK, ForTemplate, Templates, AfterFill
<1> QED
  <2>1. /\ UNCHANGED registry
        /\ waiting' \subseteq waiting \union {b}
        /\ \A p \in waiting' : p = b => WaitsInPlace(b)'
        /\ \A q \in Builder \ {b} :
             /\ pc'[q] = pc[q] /\ job'[q] = job[q] /\ tpl'[q] = tpl[q]
             /\ built'[q] = built[q] /\ todo'[q] = todo[q] /\ ran'[q] = ran[q]
        /\ \A p \in Proc \ {b} : op'[p] = op[p]
    BY DEF TypeOK, PlaceOK, InPlace, WaitsInPlace, InProgress, lockVars, registry
  <2> QED
    BY <1>1, <1>2, <1>3, <1>4, <1>5, <2>1, OneBuilder

LEMMA BuildTemplateStep ==
  ASSUME Inv, NEW b \in Builder, BuildTemplate(b)
  PROVE  Inv'
<1> USE Constants DEF BuildTemplate, Goto, Inv, configVars
<1>1. TypeOK'
  BY DEF TypeOK, ConfigTypeOK, LockTypeOK, RegistryTypeOK, lockVars, registry,
         Location
<1>2. InPlace(b)'
  BY HooksOperate DEF InPlace, TypeOK, ForTemplate, Templates
<1>3. LocksAreAccountedFor'
  <2>1. PICK l \in {"defaults", "anon", "failed"} : pc' = [pc EXCEPT ![b] = l]
    OBVIOUS
  <2>2. op[b] # Reading /\ UNCHANGED <<lockVars, op>>
    BY HooksOperate
  <2> QED
    BY <2>1, <2>2, MoveHolds DEF Location
<1>4. StableFor(b)'
  BY DEF StableFor, TypeOK
<1>5. BuiltSoFar(b)'
  BY DEF BuiltOK, BuiltSoFar, TypeOK, ForTemplate, Templates, AfterFill
<1> QED
  <2>1. /\ UNCHANGED registry
        /\ waiting' \subseteq waiting \union {b}
        /\ \A p \in waiting' : p = b => WaitsInPlace(b)'
        /\ \A q \in Builder \ {b} :
             /\ pc'[q] = pc[q] /\ job'[q] = job[q] /\ tpl'[q] = tpl[q]
             /\ built'[q] = built[q] /\ todo'[q] = todo[q] /\ ran'[q] = ran[q]
        /\ \A p \in Proc \ {b} : op'[p] = op[p]
    BY DEF TypeOK, PlaceOK, WaitsInPlace, lockVars, registry
  <2> QED
    BY <1>1, <1>2, <1>3, <1>4, <1>5, <2>1, OneBuilder

LEMMA CallDefaultsStep ==
  ASSUME Inv, NEW b \in Builder, CallDefaults(b)
  PROVE  Inv'
<1> USE Constants DEF CallDefaults, Goto, Inv
<1>1. TypeOK'
  <2>1. LockTypeOK'
    BY LockStepTypes DEF TypeOK, ConfigTypeOK
  <2> QED
    BY <2>1 DEF TypeOK, ConfigTypeOK, RegistryTypeOK, registry, Location
<1>2. InPlace(b)'
  BY HooksOperate DEF PlaceOK, InPlace, TypeOK, ForTemplate, Templates, HasNamedHooks
<1>3. LocksAreAccountedFor'
  BY RLockHolds
<1>4. StableFor(b)'
  BY DEF StableFor, TypeOK
<1>5. BuiltSoFar(b)'
  BY DEF BuiltOK, BuiltSoFar, TypeOK, ForTemplate, Templates, AfterFill
<1> QED
  <2>1. /\ UNCHANGED registry
        /\ waiting' \subseteq waiting \union {b}
        /\ \A p \in waiting' : p = b => WaitsInPlace(b)'
        /\ \A q \in Builder \ {b} :
             /\ pc'[q] = pc[q] /\ job'[q] = job[q] /\ tpl'[q] = tpl[q]
             /\ built'[q] = built[q] /\ todo'[q] = todo[q] /\ ran'[q] = ran[q]
        /\ \A p \in Proc \ {b} : op'[p] = op[p]
    BY DEF TypeOK, RLock, WaitsInPlace, registry
  <2> QED
    BY <1>1, <1>2, <1>3, <1>4, <1>5, <2>1, OneBuilder

LEMMA CallAnonStep ==
  ASSUME Inv, NEW b \in Builder, CallAnon(b)
  PROVE  Inv'
<1> USE Constants DEF CallAnon, Goto, Inv
<1>1. TypeOK'
  <2>1. LockTypeOK'
    BY LockStepTypes DEF TypeOK, ConfigTypeOK
  <2> QED
    BY <2>1 DEF TypeOK, ConfigTypeOK, RegistryTypeOK, registry, Location
<1>2. InPlace(b)'
  BY HooksOperate DEF PlaceOK, InPlace, TypeOK, ForTemplate, Templates, HasNamedHooks
<1>3. LocksAreAccountedFor'
  BY RLockHolds
<1>4. StableFor(b)'
  BY DEF StableFor, TypeOK
<1>5. BuiltSoFar(b)'
  BY DEF BuiltOK, BuiltSoFar, TypeOK, ForTemplate, Templates, AfterFill
<1> QED
  <2>1. /\ UNCHANGED registry
        /\ waiting' \subseteq waiting \union {b}
        /\ \A p \in waiting' : p = b => WaitsInPlace(b)'
        /\ \A q \in Builder \ {b} :
             /\ pc'[q] = pc[q] /\ job'[q] = job[q] /\ tpl'[q] = tpl[q]
             /\ built'[q] = built[q] /\ todo'[q] = todo[q] /\ ran'[q] = ran[q]
        /\ \A p \in Proc \ {b} : op'[p] = op[p]
    BY DEF TypeOK, RLock, WaitsInPlace, registry
  <2> QED
    BY <1>1, <1>2, <1>3, <1>4, <1>5, <2>1, OneBuilder

LEMMA CallNamedStep ==
  ASSUME Inv, NEW b \in Builder, CallNamed(b)
  PROVE  Inv'
<1> USE Constants DEF CallNamed, Goto, Inv
<1>1. TypeOK'
  <2>1. LockTypeOK'
    BY LockStepTypes DEF TypeOK, ConfigTypeOK
  <2> QED
    BY <2>1 DEF TypeOK, ConfigTypeOK, RegistryTypeOK, registry, Location
<1>2. InPlace(b)'
  BY HooksOperate DEF PlaceOK, InPlace, TypeOK, ForTemplate, Templates, HasNamedHooks
<1>3. LocksAreAccountedFor'
  BY RLockHolds
<1>4. StableFor(b)'
  BY DEF StableFor, TypeOK
<1>5. BuiltSoFar(b)'
  BY DEF BuiltOK, BuiltSoFar, TypeOK, ForTemplate, Templates, AfterFill
<1> QED
  <2>1. /\ UNCHANGED registry
        /\ waiting' \subseteq waiting \union {b}
        /\ \A p \in waiting' : p = b => WaitsInPlace(b)'
        /\ \A q \in Builder \ {b} :
             /\ pc'[q] = pc[q] /\ job'[q] = job[q] /\ tpl'[q] = tpl[q]
             /\ built'[q] = built[q] /\ todo'[q] = todo[q] /\ ran'[q] = ran[q]
        /\ \A p \in Proc \ {b} : op'[p] = op[p]
    BY DEF TypeOK, RLock, WaitsInPlace, registry
  <2> QED
    BY <1>1, <1>2, <1>3, <1>4, <1>5, <2>1, OneBuilder

LEMMA ApplyDefaultsStep ==
  ASSUME Inv, NEW b \in Builder, ApplyDefaults(b)
  PROVE  Inv'
<1> USE Constants DEF Goto, Inv
<1> DEFINE t == CurrentTemplate(b)
           fields == ApplyTemplateDefaults(t.fields, t.container)
           ok == ValidateBuiltTemplate(t, fields)
<1>a. /\ pc[b] = "overlay" /\ RUnlock(b)
      /\ built' = [built EXCEPT ![b] = IF ok THEN Append(@, fields) ELSE @]
      /\ pc' = [pc EXCEPT ![b] = IF ok THEN "anon" ELSE "failed"]
      /\ UNCHANGED <<registry, op, job, tpl, todo, ran, last>>
  BY DEF ApplyDefaults
<1>b. ForTemplate(b) /\ op[b] = NoOp
  BY <1>a, HooksOperate DEF PlaceOK, InPlace
<1>c. t \in Template /\ tpl[b] \in DOMAIN Templates(b) /\ fields \in Scalars
  BY <1>b, CurrentTemplateType, DefaultsType DEF TypeOK, ConfigTypeOK
<1>d. ok => (t.container => fields["image"] # Unset)
  BY DEF ValidateBuiltTemplate
<1>e. t = Templates(b)[tpl[b]]
  BY DEF CurrentTemplate
<1> HIDE DEF t, fields, ok
<1>1. TypeOK'
  <2>1. LockTypeOK'
    BY <1>a, LockStepTypes DEF TypeOK, ConfigTypeOK
  <2>2. built' \in [Builder -> Seq(Scalars)]
    BY <1>a, <1>c DEF TypeOK
  <2> QED
    BY <1>a, <2>1, <2>2 DEF TypeOK, ConfigTypeOK, RegistryTypeOK, registry, Location
<1>2. InPlace(b)'
  BY <1>a, <1>b DEF InPlace, TypeOK
<1>3. LocksAreAccountedFor'
  <2>1. PICK l \in {"anon", "failed"} : pc' = [pc EXCEPT ![b] = l]
    BY <1>a
  <2> QED
    BY <1>a, <1>b, <2>1, RUnlockHolds DEF Location
<1>4. StableFor(b)'
  BY <1>a DEF StableFor, TypeOK
<1>5. BuiltSoFar(b)'
  <2>1. BuiltSoFar(b) /\ built[b] \in Seq(Scalars)
    BY DEF BuiltOK, TypeOK
  <2>2. CASE ok
    <3>1. Len(built[b]) = tpl[b] - 1 /\ tpl[b] \in Nat
      BY <1>a, <2>1 DEF BuiltSoFar, AfterFill, TypeOK
    <3>2. /\ built'[b] = Append(built[b], fields) /\ pc'[b] = "anon"
          /\ tpl'[b] = tpl[b] /\ job'[b] = job[b]
      BY <1>a, <2>2 DEF TypeOK
    <3>3. Templates(b)' = Templates(b) /\ ForTemplate(b)'
      BY <1>b, <3>2 DEF Templates, ForTemplate
    <3>4. /\ Len(built'[b]) = tpl[b] /\ built'[b][tpl[b]] = fields
          /\ \A i \in 1 .. Len(built[b]) : built'[b][i] = built[b][i]
          /\ DOMAIN built'[b] = 1 .. tpl[b]
      BY <1>c, <2>1, <3>1, <3>2, AppendProperties
    <3>5. ASSUME NEW i \in 1 .. tpl[b]
          PROVE  Templates(b)[i].container => built'[b][i]["image"] # Unset
      <4>1. CASE i = tpl[b]
        BY <1>d, <1>e, <2>2, <3>4, <4>1
      <4>2. CASE i # tpl[b]
        <5>1. i \in 1 .. Len(built[b]) /\ i \in DOMAIN built[b]
          BY <2>1, <3>1, <4>2
        <5>2. Templates(b)[i].container => built[b][i]["image"] # Unset
          BY <1>a, <2>1, <5>1 DEF BuiltSoFar
        <5> QED
          BY <3>4, <5>1, <5>2
      <4> QED
        BY <4>1, <4>2
    <3>6. tpl[b] <= Len(Templates(b))
      BY <1>b DEF ForTemplate
    <3>7. Len(Templates(b)) \in Nat
      BY CurrentTemplateType
    <3> HIDE DEF Inv
    <3> QED
      BY <3>1, <3>2, <3>3, <3>4, <3>5, <3>6, <3>7 DEF BuiltSoFar, AfterFill
  <2>3. CASE ~ok
    BY <1>a, <2>3 DEF BuiltSoFar, TypeOK
  <2> QED
    BY <2>2, <2>3
<1> QED
  <2>1. /\ UNCHANGED registry
        /\ waiting' \subseteq waiting \union {b}
        /\ \A p \in waiting' : p = b => WaitsInPlace(b)'
        /\ \A q \in Builder \ {b} :
             /\ pc'[q] = pc[q] /\ job'[q] = job[q] /\ tpl'[q] = tpl[q]
             /\ built'[q] = built[q] /\ todo'[q] = todo[q] /\ ran'[q] = ran[q]
        /\ \A p \in Proc \ {b} : op'[p] = op[p]
    BY <1>a DEF TypeOK, RUnlock, WaitsInPlace, registry
  <2> QED
    BY <1>1, <1>2, <1>3, <1>4, <1>5, <2>1, OneBuilder

LEMMA RangeAnonStep ==
  ASSUME Inv, NEW b \in Builder, RangeAnon(b)
  PROVE  Inv'
<1> USE Constants DEF RangeAnon, Goto, Inv, configVars
<1>a. anon[AnonListOf(b)] \in Seq(AnonHook) /\ Seq(AnonHook) \subseteq Seq(Hook)
  <2> HIDE Constants DEF RangeAnon, Goto, Inv, configVars
  <2>1. AnonListOf(b) \in AnonList /\ anon \in [AnonList -> Seq(AnonHook)]
    BY ListsExist DEF Inv, TypeOK, ConfigTypeOK, RegistryTypeOK
  <2>2. Seq(AnonHook) \subseteq Seq(Hook)
    BY DEF Hook
  <2> QED
    BY <2>1, <2>2
<1>1. TypeOK'
  <2>1. todo' \in [Builder -> Seq(AnonHook \union NamedHook)]
        /\ ran' \in [Builder -> Seq(AnonHook \union NamedHook)]
    BY <1>a DEF TypeOK, Hook
  <2>2. ConfigTypeOK'
    BY DEF TypeOK, ConfigTypeOK, LockTypeOK, RegistryTypeOK, lockVars, registry
  <2> QED
    BY <2>1, <2>2 DEF TypeOK, Location
<1>2. InPlace(b)'
  BY DEF InPlace, TypeOK
<1>3. LocksAreAccountedFor'
  <2>1. op[b] # Reading /\ UNCHANGED <<lockVars, op>>
    BY HooksOperate
  <2> QED
    BY <2>1, MoveHolds DEF Location
<1>4. StableFor(b)'
  <2>1. AnonListOf(b)' = AnonListOf(b) /\ anon' = anon
    BY DEF AnonListOf, ForTemplate, Templates, registry
  <2>2. ran'[b] = << >> /\ todo'[b] = anon[AnonListOf(b)]
    BY DEF TypeOK
  <2>3. ran'[b] \o todo'[b] = anon[AnonListOf(b)]
    BY <1>a, <2>2, ConcatEmptySeq
  <2> QED
    BY <2>1, <2>3 DEF StableFor
<1>5. BuiltSoFar(b)'
  BY DEF BuiltOK, BuiltSoFar, TypeOK, ForTemplate, Templates, AfterFill
<1> QED
  <2>1. /\ UNCHANGED registry
        /\ waiting' \subseteq waiting \union {b}
        /\ \A p \in waiting' : p = b => WaitsInPlace(b)'
        /\ \A q \in Builder \ {b} :
             /\ pc'[q] = pc[q] /\ job'[q] = job[q] /\ tpl'[q] = tpl[q]
             /\ built'[q] = built[q] /\ todo'[q] = todo[q] /\ ran'[q] = ran[q]
        /\ \A p \in Proc \ {b} : op'[p] = op[p]
    BY DEF TypeOK, WaitsInPlace, lockVars, registry
  <2> QED
    BY <1>1, <1>2, <1>3, <1>4, <1>5, <2>1, OneBuilder

(* The head of what is left moves to the end of what has run.              *)
LEMMA MoveHead ==
  ASSUME NEW S, NEW r \in Seq(S), NEW t \in Seq(S), t # << >>
  PROVE  /\ Head(t) \in S
         /\ Append(r, Head(t)) \in Seq(S)
         /\ Tail(t) \in Seq(S)
         /\ Append(r, Head(t)) \o Tail(t) = r \o t
<1>1. Head(t) \in S /\ Tail(t) \in Seq(S) /\ Append(r, Head(t)) \in Seq(S)
  BY HeadTailProperties
<1>2. t = << Head(t) >> \o Tail(t)
  OBVIOUS
<1>3. Append(r, Head(t)) = r \o << Head(t) >>
  BY <1>1
<1>4. << Head(t) >> \in Seq(S)
  BY <1>1
<1>5. (r \o << Head(t) >>) \o Tail(t) = r \o (<< Head(t) >> \o Tail(t))
  BY <1>1, <1>4, ConcatAssociative
<1> QED
  BY <1>1, <1>2, <1>3, <1>5


LEMMA RunAnonHookStep ==
  ASSUME Inv, NEW b \in Builder, RunAnonHook(b)
  PROVE  Inv'
<1> DEFINE h == Head(todo[b])
<1>a. todo[b] \in Seq(Hook) /\ ran[b] \in Seq(Hook) /\ todo[b] # << >>
  BY DEF RunAnonHook, Inv, TypeOK, Hook
<1>b. h \in Hook /\ Append(ran[b], h) \in Seq(Hook) /\ Tail(todo[b]) \in Seq(Hook)
      /\ Append(ran[b], h) \o Tail(todo[b]) = ran[b] \o todo[b]
  BY <1>a, MoveHead
<1>c. HookCall[h] \in Ops \union {NoOp} /\ HookCall[h] # Reading
  BY <1>b, Constants, OperationKinds
<1> USE Constants DEF RunAnonHook, Inv, configVars
<1>d. b \notin waiting
  BY OperationKinds DEF PlaceOK, WaitsInPlace
<1>1. TypeOK'
  <2>a. todo \in [Builder -> Seq(Hook)] /\ ran \in [Builder -> Seq(Hook)]
    BY DEF TypeOK, Hook
  <2>b. /\ ran' = [ran EXCEPT ![b] = Append(ran[b], h)]
        /\ todo' = [todo EXCEPT ![b] = Tail(todo[b])]
    BY <2>a
  <2>1. /\ todo' \in [Builder -> Seq(AnonHook \union NamedHook)]
        /\ ran' \in [Builder -> Seq(AnonHook \union NamedHook)]
    <3> HIDE DEF Inv, RunAnonHook, h
    <3> QED
      BY <1>b, <2>a, <2>b DEF Hook
  <2>2. op' \in [Proc -> Ops \union {NoOp, Reading}]
    BY <1>c DEF TypeOK, ConfigTypeOK
  <2> QED
    BY <2>1, <2>2 DEF TypeOK, ConfigTypeOK, LockTypeOK, RegistryTypeOK, lockVars, registry
<1>2. InPlace(b)'
  BY DEF InPlace, PlaceOK, TypeOK, HasNamedHooks, ForTemplate, Templates
<1>3. LocksAreAccountedFor'
  <2>1. op[b] # Reading /\ op'[b] # Reading /\ UNCHANGED lockVars
        /\ \A p \in Proc \ {b} : op'[p] = op[p]
    BY <1>c, OperationKinds DEF TypeOK, ConfigTypeOK
  <2>2. "anonRun" \in Location /\ pc' = [pc EXCEPT ![b] = "anonRun"] /\ pc[b] = "anonRun"
    BY DEF Location, TypeOK
  <2> QED
    BY <1>d, <2>1, <2>2, MoveHolds
<1>4. StableFor(b)'
  <2>1. AnonListOf(b)' = AnonListOf(b) /\ anon' = anon
    BY DEF AnonListOf, ForTemplate, Templates, registry
  <2>2. ran'[b] \o todo'[b] = ran[b] \o todo[b]
    BY <1>b DEF TypeOK
  <2> QED
    BY <2>1, <2>2 DEF StableWhileDispatched, StableFor
<1>5. BuiltSoFar(b)'
  BY DEF BuiltOK, BuiltSoFar, TypeOK, ForTemplate, Templates, AfterFill
<1> QED
  <2>1. /\ UNCHANGED registry
        /\ waiting' \subseteq waiting \union {b}
        /\ \A p \in waiting' : p = b => WaitsInPlace(b)'
        /\ \A q \in Builder \ {b} :
             /\ pc'[q] = pc[q] /\ job'[q] = job[q] /\ tpl'[q] = tpl[q]
             /\ built'[q] = built[q] /\ todo'[q] = todo[q] /\ ran'[q] = ran[q]
        /\ \A p \in Proc \ {b} : op'[p] = op[p]
    BY <1>d DEF TypeOK, ConfigTypeOK, lockVars
  <2> QED
    BY <1>1, <1>2, <1>3, <1>4, <1>5, <2>1, OneBuilder

LEMMA RunNamedHookStep ==
  ASSUME Inv, NEW b \in Builder, RunNamedHook(b)
  PROVE  Inv'
<1> DEFINE h == Head(todo[b])
<1>a. todo[b] \in Seq(Hook) /\ ran[b] \in Seq(Hook) /\ todo[b] # << >>
  BY DEF RunNamedHook, Inv, TypeOK, Hook
<1>b. h \in Hook /\ Append(ran[b], h) \in Seq(Hook) /\ Tail(todo[b]) \in Seq(Hook)
      /\ Append(ran[b], h) \o Tail(todo[b]) = ran[b] \o todo[b]
  BY <1>a, MoveHead
<1>c. HookCall[h] \in Ops \union {NoOp} /\ HookCall[h] # Reading
  BY <1>b, Constants, OperationKinds
<1> USE Constants DEF RunNamedHook, Inv, configVars
<1>d. b \notin waiting
  BY OperationKinds DEF PlaceOK, WaitsInPlace
<1>1. TypeOK'
  <2>a. todo \in [Builder -> Seq(Hook)] /\ ran \in [Builder -> Seq(Hook)]
    BY DEF TypeOK, Hook
  <2>b. /\ ran' = [ran EXCEPT ![b] = Append(ran[b], h)]
        /\ todo' = [todo EXCEPT ![b] = IF h \in Failing THEN << >> ELSE Tail(todo[b])]
    BY <2>a
  <2>c. (IF h \in Failing THEN << >> ELSE Tail(todo[b])) \in Seq(Hook)
    BY <1>b
  <2>1. /\ todo' \in [Builder -> Seq(AnonHook \union NamedHook)]
        /\ ran' \in [Builder -> Seq(AnonHook \union NamedHook)]
    <3> HIDE DEF Inv, RunNamedHook, h
    <3> QED
      BY <1>b, <2>a, <2>b, <2>c DEF Hook
  <2>2. op' \in [Proc -> Ops \union {NoOp, Reading}]
    BY <1>c DEF TypeOK, ConfigTypeOK
  <2> QED
    BY <2>1, <2>2 DEF TypeOK, ConfigTypeOK, LockTypeOK, RegistryTypeOK, lockVars, registry
<1>2. InPlace(b)'
  BY DEF InPlace, PlaceOK, TypeOK, HasNamedHooks, ForTemplate, Templates
<1>3. LocksAreAccountedFor'
  <2>1. op[b] # Reading /\ op'[b] # Reading /\ UNCHANGED lockVars
        /\ \A p \in Proc \ {b} : op'[p] = op[p]
    BY <1>c, OperationKinds DEF TypeOK, ConfigTypeOK
  <2>2. "namedRun" \in Location /\ pc' = [pc EXCEPT ![b] = "namedRun"] /\ pc[b] = "namedRun"
    BY DEF Location, TypeOK
  <2> QED
    BY <1>d, <2>1, <2>2, MoveHolds
<1>4. StableFor(b)'
  BY DEF StableFor
<1>5. BuiltSoFar(b)'
  BY DEF BuiltOK, BuiltSoFar, TypeOK, ForTemplate, Templates, AfterFill
<1> QED
  <2>1. /\ UNCHANGED registry
        /\ waiting' \subseteq waiting \union {b}
        /\ \A p \in waiting' : p = b => WaitsInPlace(b)'
        /\ \A q \in Builder \ {b} :
             /\ pc'[q] = pc[q] /\ job'[q] = job[q] /\ tpl'[q] = tpl[q]
             /\ built'[q] = built[q] /\ todo'[q] = todo[q] /\ ran'[q] = ran[q]
        /\ \A p \in Proc \ {b} : op'[p] = op[p]
    BY <1>d DEF TypeOK, ConfigTypeOK, lockVars
  <2> QED
    BY <1>1, <1>2, <1>3, <1>4, <1>5, <2>1, OneBuilder

LEMMA EndAnonStep ==
  ASSUME Inv, NEW b \in Builder, EndAnon(b)
  PROVE  Inv'
<1> USE Constants DEF EndAnon, Goto, Inv, configVars
<1>a. PICK l \in {"named", "build", "done"} :
        /\ pc' = [pc EXCEPT ![b] = l]
        /\ tpl' = [tpl EXCEPT ![b] = IF l = "build" THEN @ + 1 ELSE @]
        /\ l = "build" => ForTemplate(b)
        /\ l = "done" => ~ForTemplate(b)
        /\ l = "named" => HasNamedHooks(b)
  BY DEF Finish, TypeOK
<1>b. /\ last' = [last EXCEPT ![b] = [list |-> AnonListOf(b), fns |-> ran[b]]]
      /\ RUnlock(b)
      /\ pc[b] = "anonRun" /\ op[b] = NoOp
      /\ UNCHANGED <<registry, op, job, built, todo, ran>>
  OBVIOUS
<1> HIDE DEF EndAnon
<1>1. TypeOK'
  <2>1. LockTypeOK'
    BY <1>b, LockStepTypes DEF TypeOK, ConfigTypeOK, LockTypeOK, lockVars
  <2>2. last' \in [Builder -> [list : AnonList \union NamedList \union {"none"},
                               fns : Seq(AnonHook \union NamedHook)]]
    BY <1>b, ListsExist DEF TypeOK
  <2>3. tpl' \in [Builder -> Nat \ {0}]
    BY <1>a DEF TypeOK
  <2> QED
    BY <1>a, <1>b, <2>1, <2>2, <2>3
       DEF TypeOK, ConfigTypeOK, RegistryTypeOK, registry, Location
<1>2. InPlace(b)'
  BY <1>a, <1>b DEF InPlace, TypeOK, HasNamedHooks, ForTemplate, Templates
<1>3. LocksAreAccountedFor'
  BY <1>a, <1>b, RUnlockHolds DEF Location
<1>4. StableFor(b)'
  BY <1>a DEF StableFor, TypeOK
<1>5. BuiltSoFar(b)'
  <2>1. BuiltSoFar(b)
    BY DEF BuiltOK
  <2>2. Len(Templates(b)) \in Nat /\ tpl[b] \in Nat
    BY CurrentTemplateType DEF TypeOK
  <2>3. Templates(b)' = Templates(b) /\ built'[b] = built[b] /\ pc'[b] = l
        /\ tpl'[b] = IF l = "build" THEN tpl[b] + 1 ELSE tpl[b]
    BY <1>a, <1>b DEF Templates, TypeOK
  <2> HIDE DEF Inv
  <2> QED
    BY <1>a, <1>b, <2>1, <2>2, <2>3 DEF BuiltSoFar, ForTemplate, AfterFill
<1> QED
  <2>1. /\ UNCHANGED registry
        /\ waiting' \subseteq waiting \union {b}
        /\ \A p \in waiting' : p = b => WaitsInPlace(b)'
        /\ \A q \in Builder \ {b} :
             /\ pc'[q] = pc[q] /\ job'[q] = job[q] /\ tpl'[q] = tpl[q]
             /\ built'[q] = built[q] /\ todo'[q] = todo[q] /\ ran'[q] = ran[q]
        /\ \A p \in Proc \ {b} : op'[p] = op[p]
    BY <1>a, <1>b DEF TypeOK, RUnlock, PlaceOK, WaitsInPlace
  <2> QED
    BY <1>1, <1>2, <1>3, <1>4, <1>5, <2>1, OneBuilder

LEMMA EndNamedStep ==
  ASSUME Inv, NEW b \in Builder, EndNamed(b)
  PROVE  Inv'
<1> USE Constants DEF EndNamed, Goto, Inv, configVars
<1>a. PICK l \in {"build", "done", "failed"} :
        /\ pc' = [pc EXCEPT ![b] = l]
        /\ tpl' = [tpl EXCEPT ![b] = IF l = "build" THEN @ + 1 ELSE @]
        /\ l = "build" => ForTemplate(b)
        /\ l = "done" => ~ForTemplate(b)
  BY DEF Finish, TypeOK
<1>b. /\ last' = [last EXCEPT ![b] = [list |-> NamedListOf(b), fns |-> ran[b]]]
      /\ UNCHANGED lockVars
      /\ pc[b] = "namedRun" /\ op[b] = NoOp
      /\ UNCHANGED <<registry, op, job, built, todo, ran>>
  OBVIOUS
<1> HIDE DEF EndNamed
<1>1. TypeOK'
  <2>1. LockTypeOK'
    BY <1>b, LockStepTypes DEF TypeOK, ConfigTypeOK, LockTypeOK, lockVars
  <2>2. last' \in [Builder -> [list : AnonList \union NamedList \union {"none"},
                               fns : Seq(AnonHook \union NamedHook)]]
    BY <1>b, ListsExist DEF TypeOK
  <2>3. tpl' \in [Builder -> Nat \ {0}]
    BY <1>a DEF TypeOK
  <2> QED
    BY <1>a, <1>b, <2>1, <2>2, <2>3
       DEF TypeOK, ConfigTypeOK, RegistryTypeOK, registry, Location
<1>2. InPlace(b)'
  BY <1>a, <1>b DEF InPlace, TypeOK, HasNamedHooks, ForTemplate, Templates
<1>3. LocksAreAccountedFor'
  BY <1>a, <1>b, OperationKinds, MoveHolds DEF Location
<1>4. StableFor(b)'
  BY <1>a DEF StableFor, TypeOK
<1>5. BuiltSoFar(b)'
  <2>1. BuiltSoFar(b)
    BY DEF BuiltOK
  <2>2. Len(Templates(b)) \in Nat /\ tpl[b] \in Nat
    BY CurrentTemplateType DEF TypeOK
  <2>3. Templates(b)' = Templates(b) /\ built'[b] = built[b] /\ pc'[b] = l
        /\ tpl'[b] = IF l = "build" THEN tpl[b] + 1 ELSE tpl[b]
    BY <1>a, <1>b DEF Templates, TypeOK
  <2> HIDE DEF Inv
  <2> QED
    BY <1>a, <1>b, <2>1, <2>2, <2>3 DEF BuiltSoFar, ForTemplate, AfterFill
<1> QED
  <2>1. /\ UNCHANGED registry
        /\ waiting' \subseteq waiting \union {b}
        /\ \A p \in waiting' : p = b => WaitsInPlace(b)'
        /\ \A q \in Builder \ {b} :
             /\ pc'[q] = pc[q] /\ job'[q] = job[q] /\ tpl'[q] = tpl[q]
             /\ built'[q] = built[q] /\ todo'[q] = todo[q] /\ ran'[q] = ran[q]
        /\ \A p \in Proc \ {b} : op'[p] = op[p]
    BY <1>a, <1>b, OperationKinds DEF TypeOK, lockVars, PlaceOK, WaitsInPlace
  <2> QED
    BY <1>1, <1>2, <1>3, <1>4, <1>5, <2>1, OneBuilder

LEMMA CopyNamedStep ==
  ASSUME Inv, NEW b \in Builder, CopyNamed(b)
  PROVE  Inv'
<1> USE Constants DEF CopyNamed, CopyTo, Goto, Inv
<1>a. Fns(named[NamedListOf(b)]) \in Seq(AnonHook \union NamedHook)
  <2>1. named[NamedListOf(b)] \in Seq(Entry(HookName, NamedHook))
    BY ListsExist DEF TypeOK, ConfigTypeOK, RegistryTypeOK, NamedEntry, Entry
  <2>2. Fns(named[NamedListOf(b)]) \in Seq(NamedHook)
    BY <2>1, FnsType
  <2> QED
    BY <2>2
<1>1. TypeOK'
  <2>1. LockTypeOK'
    BY LockStepTypes DEF TypeOK, ConfigTypeOK
  <2>a. /\ todo \in [Builder -> Seq(AnonHook \union NamedHook)]
        /\ ran \in [Builder -> Seq(AnonHook \union NamedHook)]
    BY DEF TypeOK
  <2>b. /\ todo' = [todo EXCEPT ![b] = Fns(named[NamedListOf(b)])]
        /\ ran' = [ran EXCEPT ![b] = << >>]
    OBVIOUS
  <2>2. /\ todo' \in [Builder -> Seq(AnonHook \union NamedHook)]
        /\ ran' \in [Builder -> Seq(AnonHook \union NamedHook)]
    <3> HIDE DEF Inv, CopyNamed, CopyTo, Goto
    <3> QED
      BY <1>a, <2>a, <2>b
  <2> QED
    BY <2>1, <2>2 DEF TypeOK, ConfigTypeOK, RegistryTypeOK, registry, Location
<1>2. InPlace(b)'
  BY DEF PlaceOK, InPlace, TypeOK, HasNamedHooks, ForTemplate, Templates
<1>3. LocksAreAccountedFor'
  <2>1. op[b] = NoOp
    BY HooksOperate
  <2> QED
    BY <2>1, RUnlockHolds DEF Location
<1>4. StableFor(b)'
  BY DEF StableFor, TypeOK
<1>5. BuiltSoFar(b)'
  BY DEF BuiltOK, BuiltSoFar, TypeOK, ForTemplate, Templates, AfterFill
<1> QED
  <2>1. /\ UNCHANGED registry
        /\ waiting' \subseteq waiting \union {b}
        /\ \A p \in waiting' : p = b => WaitsInPlace(b)'
        /\ \A q \in Builder \ {b} :
             /\ pc'[q] = pc[q] /\ job'[q] = job[q] /\ tpl'[q] = tpl[q]
             /\ built'[q] = built[q] /\ todo'[q] = todo[q] /\ ran'[q] = ran[q]
        /\ \A p \in Proc \ {b} : op'[p] = op[p]
    BY DEF TypeOK, RUnlock, WaitsInPlace, registry
  <2> QED
    BY <1>1, <1>2, <1>3, <1>4, <1>5, <2>1, OneBuilder

----------------------------------------------------------------------------
(* Each step of an operation on the configuration preserves the invariant. *)

(* Names stay unique when the lists of named hooks do not change.          *)
LEMMA StillUnique ==
  ASSUME UniqueHookNames, UNCHANGED named PROVE UniqueHookNames'
BY DEF UniqueHookNames

(* The parts of the invariant about Builds survive a step that leaves the  *)
(* Builds alone, changes no list that is being dispatched and blocks       *)
(* nobody but a getter.                                                    *)
LEMMA BuildKeeps ==
  ASSUME Inv, UNCHANGED buildVars, NEW p \in Proc,
         \A q \in Proc \ {p} : op'[q] = op[q],
         op[p] # NoOp \/ p \notin Builder,
         waiting' \subseteq waiting \union {p},
         p \in waiting' => op'[p] = Reading,
         (\E b \in Builder : pc[b] = "anonRun") => UNCHANGED anon
  PROVE  PlaceOK' /\ StableWhileDispatched' /\ BuiltOK'
<1> USE Constants DEF buildVars
<1>1. ASSUME NEW b \in Builder PROVE InPlace(b)' /\ StableFor(b)' /\ BuiltSoFar(b)'
  <2>1. InPlace(b) /\ StableFor(b) /\ BuiltSoFar(b)
    BY DEF Inv, PlaceOK, BuiltOK, StableWhileDispatched
  <2>2. StableFor(b)' = StableFor(b) /\ BuiltSoFar(b)' = BuiltSoFar(b)
    BY OthersKeep
  <2>3. InPlace(b)'
    <3>1. CASE b # p
      BY <2>1, <3>1, OthersKeep
    <3>2. CASE b = p
      BY <2>1, <3>2 DEF InPlace, HasNamedHooks, ForTemplate, Templates
    <3> QED
      BY <3>1, <3>2
  <2> QED
    BY <2>1, <2>2, <2>3, Zenon
<1>2. ASSUME NEW q \in waiting' PROVE WaitsInPlace(q)'
  <2>1. CASE q = p
    BY <2>1, <1>2 DEF WaitsInPlace
  <2>2. CASE q # p
    <3>1. q \in waiting /\ q \in Proc /\ WaitsInPlace(q)
      BY <2>2, <1>2 DEF Inv, PlaceOK, TypeOK, ConfigTypeOK, LockTypeOK
    <3> QED
      BY <2>2, <3>1 DEF WaitsInPlace
  <2> QED
    BY <2>1, <2>2
<1> QED
  BY <1>1, <1>2 DEF PlaceOK, StableWhileDispatched, BuiltOK

LEMMA ConfigureStep ==
  ASSUME Inv, NEW p \in Proc \ Builder, NEW o \in Ops, Configure(p, o)
  PROVE  Inv'
<1> USE Constants DEF Configure, Call
<1>1. o # Reading /\ op[p] # Reading
  BY OperationKinds
<1>a. op \in [Proc -> Ops \union {NoOp, Reading}] /\ waiting \subseteq Proc
  BY DEF Inv, TypeOK, ConfigTypeOK, LockTypeOK
<1>b. p \notin waiting
  BY <1>1 DEF Inv, PlaceOK, WaitsInPlace
<1>2. TypeOK'
  BY DEF Inv, TypeOK, ConfigTypeOK, LockTypeOK, RegistryTypeOK, lockVars, registry,
         buildVars
<1>3. LocksAreAccountedFor'
  <2>1. ASSUME NEW q \in Proc PROVE holding'[q] = ReadHolds(q)'
    <3>1. ReadHolds(q)' = ReadHolds(q)
      <4>1. CASE q # p
        BY <1>a, <4>1, OthersHold DEF buildVars, lockVars
      <4>2. CASE q = p
        BY <1>1, <1>a, <4>2 DEF buildVars, lockVars, ReadHolds, InSection, IsReading
      <4> QED
        BY <4>1, <4>2
    <3> QED
      BY <3>1 DEF Inv, LocksAreAccountedFor, lockVars
  <2> QED
    BY <2>1, Zenon DEF LocksAreAccountedFor
<1>4. PlaceOK' /\ StableWhileDispatched' /\ BuiltOK'
  BY <1>a, <1>b, BuildKeeps DEF lockVars, registry
<1>5. UniqueHookNames'
  BY StillUnique DEF Inv, registry
<1> QED
  BY <1>2, <1>3, <1>4, <1>5 DEF Inv

LEMMA LockStep ==
  ASSUME Inv, NEW p \in Proc, Lock(p), UNCHANGED buildVars
  PROVE  Inv'
<1> USE Constants DEF Lock, Announce
<1>1. TypeOK'
  BY DEF Inv, TypeOK, ConfigTypeOK, LockTypeOK, RegistryTypeOK, registry, buildVars
<1>2. LocksAreAccountedFor'
  <2>1. ASSUME NEW q \in Proc PROVE holding'[q] = ReadHolds(q)'
    BY OthersHold DEF Inv, LocksAreAccountedFor, buildVars
  <2> QED
    BY <2>1, Zenon DEF LocksAreAccountedFor
<1>3. op[p] # NoOp
  BY DEF NoOp, Mutator
<1>4. p \notin waiting
  BY <1>3 DEF Inv, PlaceOK, InPlace, WaitsInPlace, Mutator, Reading
<1>5. PlaceOK' /\ StableWhileDispatched' /\ BuiltOK'
  BY <1>3, <1>4, BuildKeeps DEF registry
<1>6. UniqueHookNames'
  BY StillUnique DEF Inv, registry
<1> QED
  BY <1>1, <1>2, <1>5, <1>6 DEF Inv

(* An operation keeps the names of each list unique.                       *)
LEMMA UpdateUnique ==
  ASSUME RegistryTypeOK, UniqueHookNames, NEW o \in Ops, Update(o)
  PROVE  UniqueHookNames'
<1>1. \A l \in NamedList : /\ named[l] \in Seq(Entry(HookName, NamedHook))
                           /\ Unique(named[l])
  BY DEF RegistryTypeOK, NamedEntry, Entry, UniqueHookNames, Unique
<1> SUFFICES \A l \in NamedList : Unique(named'[l])
  BY DEF UniqueHookNames, Unique
<1>2. CASE SetScalar(o) \/ UnmarshalJSON(o) \/ RegisterHook(o)
  BY <1>1, <1>2 DEF SetScalar, UnmarshalJSON, RegisterHook
<1>3. CASE RegisterNamedHook(o)
  <2>1. o.list \in NamedList /\ o.id \in HookName /\ o.fn \in NamedHook
    BY <1>3, OpsAssumption DEF RegisterNamedHook, Operation
  <2>2. Unique(WithHook(named[o.list], o.id, o.fn))
    BY <1>1, <2>1, WithHookUnique
  <2> QED
    BY <1>1, <1>3, <2>1, <2>2 DEF RegisterNamedHook, RegistryTypeOK
<1>4. CASE RemoveHook(o)
  <2>1. o.list \in NamedList
    BY <1>4, OpsAssumption DEF RemoveHook, Operation
  <2>2. Unique(WithoutHook(named[o.list], o.id))
    BY <1>1, <2>1, WithoutHookUnique
  <2> QED
    BY <1>1, <1>4, <2>1, <2>2 DEF RemoveHook, RegistryTypeOK
<1>5. CASE ClearHooks(o) \/ Reset(o)
  BY <1>5 DEF ClearHooks, Reset, NoNamedHooks, Unique
<1> QED
  BY <1>2, <1>3, <1>4, <1>5 DEF Update

LEMMA MutateStep ==
  ASSUME Inv, NEW p \in Proc, Mutate(p), UNCHANGED buildVars
  PROVE  Inv'
<1> USE Constants DEF Mutate
<1>a. op \in [Proc -> Ops \union {NoOp, Reading}] /\ waiting \subseteq Proc
      /\ holding \in [Proc -> Nat]
  BY DEF Inv, TypeOK, ConfigTypeOK, LockTypeOK
<1>1. op[p] \in Ops /\ op[p] # NoOp /\ op[p] # Reading
  BY <1>a, OperationKinds DEF Reading, NoOp, Mutator
<1>2. p \notin waiting
  BY <1>1 DEF Inv, PlaceOK, InPlace, WaitsInPlace
<1>3. TypeOK'
  <2>1. LockTypeOK'
    BY LockStepTypes DEF Inv, TypeOK, ConfigTypeOK
  <2>2. RegistryTypeOK'
    BY <1>1, UpdateType DEF Inv, TypeOK, ConfigTypeOK
  <2>3. op' \in [Proc -> Ops \union {NoOp, Reading}]
    BY <1>a
  <2> QED
    BY <2>1, <2>2, <2>3 DEF Inv, TypeOK, ConfigTypeOK, buildVars
<1>4. LocksAreAccountedFor'
  <2>1. ASSUME NEW q \in Proc PROVE holding'[q] = ReadHolds(q)'
    <3>1. holding[q] = 0 /\ ReadHolds(q) = 0
      BY DEF Exclusive, Inv, LocksAreAccountedFor
    <3>2. ~InSection(q) /\ ~IsReading(q)
      BY <3>1 DEF ReadHolds
    <3>3. waiting' = {} /\ (q \in Builder => pc'[q] = pc[q])
          /\ op'[q] = (IF q = p THEN NoOp ELSE op[q])
      BY <1>a DEF Unlock, buildVars
    <3>4. CASE q \notin waiting
      <4>1. holding'[q] = 0
        BY <1>a, <3>1, <3>4 DEF Unlock
      <4>2. ~InSection(q)' /\ ~IsReading(q)'
        BY <3>2, <3>3, <3>4, OperationKinds DEF InSection, IsReading
      <4> QED
        BY <4>1, <4>2 DEF ReadHolds
    <3>5. CASE q \in waiting
      <4>1. holding'[q] = 1 /\ q # p
        BY <1>a, <1>2, <3>1, <3>5 DEF Unlock
      <4>2. WaitsInPlace(q) /\ (q \in Builder => InPlace(q))
        BY <3>5 DEF Inv, PlaceOK
      <4>3. CASE op[q] = Reading
        <5>1. q \in Builder => pc[q] \notin {"overlay", "anonList", "namedList"}
          BY <4>2, <4>3, OperationKinds DEF InPlace
        <5>2. q \in Builder => pc[q] # "anonRun"
          BY <3>2 DEF InSection
        <5>3. ~InSection(q)' /\ IsReading(q)'
          BY <3>3, <4>1, <4>3, <5>1, <5>2 DEF InSection, IsReading
        <5> QED
          BY <4>1, <5>3 DEF ReadHolds
      <4>4. CASE op[q] # Reading
        <5>1. InSection(q)' /\ ~IsReading(q)'
          BY <3>3, <4>1, <4>2, <4>4 DEF WaitsInPlace, InSection, IsReading
        <5> QED
          BY <4>1, <5>1 DEF ReadHolds
      <4> QED
        BY <4>3, <4>4
    <3> QED
      BY <3>4, <3>5
  <2> QED
    BY <2>1, Zenon DEF LocksAreAccountedFor
<1>5. PlaceOK' /\ StableWhileDispatched' /\ BuiltOK'
  <2>1. ~(\E b \in Builder : pc[b] = "anonRun")
    <3> SUFFICES ASSUME NEW b \in Builder, pc[b] = "anonRun" PROVE FALSE
      OBVIOUS
    <3>1. holding[b] = 0 /\ ReadHolds(b) = 0
      BY DEF Exclusive, Inv, LocksAreAccountedFor
    <3> QED
      BY <3>1 DEF ReadHolds, InSection
  <2> QED
    BY <1>1, <1>a, <2>1, BuildKeeps DEF Unlock
<1>6. UniqueHookNames'
  BY <1>1, UpdateUnique DEF Inv, TypeOK, ConfigTypeOK
<1> QED
  BY <1>3, <1>4, <1>5, <1>6 DEF Inv

LEMMA GetStep ==
  ASSUME Inv, NEW p \in Proc, Get(p), UNCHANGED buildVars
  PROVE  Inv'
<1> USE Constants DEF Get
<1>a. op \in [Proc -> Ops \union {NoOp, Reading}] /\ waiting \subseteq Proc
      /\ holding \in [Proc -> Nat]
  BY DEF Inv, TypeOK, ConfigTypeOK, LockTypeOK
<1>1. op[p] # NoOp /\ op[p] # Reading
  BY DEF NoOp, Reading
<1>2. p \notin waiting
  BY DEF RLock
<1>3. TypeOK'
  <2>1. LockTypeOK'
    BY LockStepTypes DEF Inv, TypeOK, ConfigTypeOK
  <2>2. op' \in [Proc -> Ops \union {NoOp, Reading}]
    BY <1>a
  <2> QED
    BY <2>1, <2>2 DEF Inv, TypeOK, ConfigTypeOK, RegistryTypeOK, registry, buildVars
<1>4. LocksAreAccountedFor'
  <2>1. ASSUME NEW q \in Proc PROVE holding'[q] = ReadHolds(q)'
    <3>1. holding[q] = ReadHolds(q) /\ (q \in Builder => pc'[q] = pc[q])
      BY DEF Inv, LocksAreAccountedFor, buildVars
    <3>2. CASE q # p
      <4>1. ReadHolds(q)' = ReadHolds(q)
        BY <1>a, <3>1, <3>2, OthersHold DEF RLock
      <4> QED
        BY <1>a, <3>1, <3>2, <4>1 DEF RLock
    <3>3. CASE q = p
      <4>1. op'[q] = Reading /\ ~IsReading(q)
        BY <1>1, <1>a, <3>3 DEF IsReading
      <4>2. q \in Builder => pc[q] \notin {"overlay", "anonList", "namedList"}
        BY <1>1, <3>3 DEF Inv, PlaceOK, InPlace
      <4>3. InSection(q)' = InSection(q)
        BY <3>1, <4>2 DEF InSection
      <4>4. IF q \in waiting' THEN holding'[q] = holding[q]
                              ELSE holding'[q] = holding[q] + 1
        BY <1>2, <1>a, <3>3 DEF RLock
      <4>5. IsReading(q)' = (q \notin waiting')
        BY <4>1 DEF IsReading
      <4>6. holding[q] = IF InSection(q) THEN 1 ELSE 0
        BY <3>1, <4>1 DEF ReadHolds
      <4>7. ReadHolds(q)' = (IF InSection(q) THEN 1 ELSE 0)
                           + (IF q \notin waiting' THEN 1 ELSE 0)
        BY <4>3, <4>5 DEF ReadHolds
      <4>8. CASE InSection(q)
        BY <4>4, <4>6, <4>7, <4>8
      <4>9. CASE ~InSection(q)
        BY <4>4, <4>6, <4>7, <4>9
      <4> QED
        BY <4>8, <4>9
    <3> QED
      BY <3>2, <3>3
  <2> QED
    BY <2>1, Zenon DEF LocksAreAccountedFor
<1>5. PlaceOK' /\ StableWhileDispatched' /\ BuiltOK'
  BY <1>1, <1>a, BuildKeeps DEF RLock, registry
<1>6. UniqueHookNames'
  BY StillUnique DEF Inv, registry
<1> QED
  BY <1>3, <1>4, <1>5, <1>6 DEF Inv

LEMMA ReturnStep ==
  ASSUME Inv, NEW p \in Proc, Return(p), UNCHANGED buildVars
  PROVE  Inv'
<1> USE Constants DEF Return
<1>a. op \in [Proc -> Ops \union {NoOp, Reading}] /\ waiting \subseteq Proc
      /\ holding \in [Proc -> Nat]
  BY DEF Inv, TypeOK, ConfigTypeOK, LockTypeOK
<1>1. op[p] # NoOp
  BY OperationKinds
<1>2. p \notin waiting /\ op[p] = Reading /\ op'[p] = NoOp
  BY <1>a DEF RUnlock
<1>3. TypeOK'
  <2>1. LockTypeOK'
    BY LockStepTypes DEF Inv, TypeOK, ConfigTypeOK
  <2>2. op' \in [Proc -> Ops \union {NoOp, Reading}]
    BY <1>a
  <2> QED
    BY <2>1, <2>2 DEF Inv, TypeOK, ConfigTypeOK, RegistryTypeOK, registry, buildVars
<1>4. LocksAreAccountedFor'
  <2>1. ASSUME NEW q \in Proc PROVE holding'[q] = ReadHolds(q)'
    <3>1. holding[q] = ReadHolds(q) /\ (q \in Builder => pc'[q] = pc[q])
          /\ waiting' = waiting
      BY DEF Inv, LocksAreAccountedFor, buildVars, RUnlock
    <3>2. CASE q # p
      <4>1. ReadHolds(q)' = ReadHolds(q)
        BY <1>a, <3>1, <3>2, OthersHold
      <4> QED
        BY <1>a, <3>1, <3>2, <4>1 DEF RUnlock
    <3>3. CASE q = p
      <4>1. IsReading(q) /\ ~IsReading(q)'
        BY <1>2, <3>3, OperationKinds DEF IsReading
      <4>2. InSection(q)' = InSection(q)
        BY <3>1 DEF InSection
      <4>3. holding'[q] = holding[q] - 1
        BY <1>a, <3>3 DEF RUnlock
      <4>4. CASE InSection(q)
        BY <3>1, <4>1, <4>2, <4>3, <4>4 DEF ReadHolds
      <4>5. CASE ~InSection(q)
        BY <3>1, <4>1, <4>2, <4>3, <4>5 DEF ReadHolds
      <4> QED
        BY <4>4, <4>5
    <3> QED
      BY <3>2, <3>3
  <2> QED
    BY <2>1, Zenon DEF LocksAreAccountedFor
<1>5. PlaceOK' /\ StableWhileDispatched' /\ BuiltOK'
  BY <1>1, <1>2, <1>a, BuildKeeps DEF RUnlock, registry
<1>6. UniqueHookNames'
  BY StillUnique DEF Inv, registry
<1> QED
  BY <1>3, <1>4, <1>5, <1>6 DEF Inv

----------------------------------------------------------------------------
(* Every step of every goroutine preserves the invariant.                  *)
THEOREM Inductive == Inv /\ [Next]_vars => Inv'
<1> SUFFICES ASSUME Inv, [Next]_vars PROVE Inv'
  OBVIOUS
<1>1. CASE \E b \in Builder, j \in Jobs : Start(b, j)
  BY <1>1, StartStep
<1>2. CASE \E b \in Builder : BuildStep(b)
  BY <1>2, BuildTemplateStep, CallDefaultsStep, ApplyDefaultsStep, CallAnonStep,
     RangeAnonStep, RunAnonHookStep, EndAnonStep, CallNamedStep, CopyNamedStep,
     RunNamedHookStep, EndNamedStep DEF BuildStep
<1>3. CASE \E p \in Proc : ConfigStep(p)
  BY <1>3, LockStep, MutateStep, GetStep, ReturnStep DEF ConfigStep, OpStep
<1>4. CASE \E p \in Proc \ Builder, o \in Ops : Configure(p, o)
  BY <1>4, ConfigureStep
<1>5. CASE UNCHANGED vars
  <2>1. TypeOK'
    BY <1>5 DEF vars, configVars, lockVars, registry, Inv, TypeOK, ConfigTypeOK,
       LockTypeOK, RegistryTypeOK
  <2>2. PlaceOK'
    BY <1>5 DEF vars, configVars, lockVars, Inv, PlaceOK, InPlace, WaitsInPlace,
       ForTemplate, HasNamedHooks, Templates
  <2>3. LocksAreAccountedFor'
    <3>1. ASSUME NEW q \in Proc PROVE holding'[q] = ReadHolds(q)'
      BY <1>5, OthersHold DEF vars, configVars, lockVars, Inv, LocksAreAccountedFor
    <3> QED
      BY <3>1, Zenon DEF LocksAreAccountedFor
  <2>4. StableWhileDispatched' /\ BuiltOK'
    <3>1. ASSUME NEW b \in Builder PROVE StableFor(b)' /\ BuiltSoFar(b)'
      BY <1>5, OthersKeep DEF vars, configVars, registry, Inv, BuiltOK,
         StableWhileDispatched
    <3> QED
      BY <3>1 DEF BuiltOK, StableWhileDispatched
  <2>5. UniqueHookNames'
    BY <1>5, StillUnique DEF vars, configVars, registry, Inv
  <2> QED
    BY <2>1, <2>2, <2>3, <2>4, <2>5 DEF Inv
<1> QED
  BY <1>1, <1>2, <1>3, <1>4, <1>5 DEF Next

(* Inv holds in every reachable state.                                     *)
THEOREM Invariance == Spec => []Inv
<1>1. Init => Inv
  BY Initially
<1>2. Inv /\ [Next]_vars => Inv'
  BY Inductive
<1> QED
  BY <1>1, <1>2, PTL DEF Spec

(* Every variable keeps its type, whatever is interleaved: in particular   *)
(* no read lock is released that is not held (holding stays a natural).    *)
THEOREM TypeCorrect == Spec => []TypeOK
<1>1. Inv => TypeOK
  BY DEF Inv
<1> QED
  BY <1>1, Invariance, PTL

(* No path through Build, through a hook or through a getter leaks a read  *)
(* lock or releases one twice.                                             *)
THEOREM LockAccounting == Spec => []LocksAreAccountedFor
<1>1. Inv => LocksAreAccountedFor
  BY DEF Inv
<1> QED
  BY <1>1, Invariance, PTL

(* The list that anonymous hooks are run from never changes under them.    *)
THEOREM StableDispatch == Spec => []StableWhileDispatched
<1>1. Inv => StableWhileDispatched
  BY DEF Inv
<1> QED
  BY <1>1, Invariance, PTL

(* Concurrent registrations and removals never give two hooks of a list    *)
(* one name.                                                               *)
THEOREM HookNamesUnique == Spec => []UniqueHookNames
<1>1. Inv => UniqueHookNames
  BY DEF Inv
<1> QED
  BY <1>1, Invariance, PTL

(* A Build that succeeds has built every template, and every container has *)
(* an image, whatever happens to the defaults in the meantime.             *)
THEOREM ImagesBuilt == Spec => []BuiltContainersHaveImages
<1>1. Inv => BuiltContainersHaveImages
  <2> SUFFICES ASSUME Inv, NEW b \in Builder, pc[b] = "done"
               PROVE  /\ Len(built[b]) = Len(Templates(b))
                      /\ \A i \in DOMAIN built[b] :
                           Templates(b)[i].container => built[b][i]["image"] # Unset
    BY DEF BuiltContainersHaveImages
  <2>1. BuiltSoFar(b) /\ ~ForTemplate(b)
    BY DEF Inv, BuiltOK, PlaceOK, InPlace
  <2>2. Len(Templates(b)) \in Nat /\ tpl[b] \in Nat
    BY CurrentTemplateType DEF Inv, TypeOK
  <2> QED
    BY <2>1, <2>2 DEF BuiltSoFar, ForTemplate
<1> QED
  BY <1>1, Invariance, PTL

----------------------------------------------------------------------------
(* The lock: who waits for whom.                                           *)

LEMMA NotMutators ==
  /\ NoOp.do \notin Mutator /\ Reading.do \notin Mutator /\ "Get" \notin Mutator
BY DEF NoOp, Reading, Mutator

(* The writer that announced itself stays a writer when another goroutine  *)
(* begins or ends an operation.                                            *)
LEMMA WriterStays ==
  ASSUME Inv, QueueOK, NEW p \in Proc, op[p].do \notin Mutator, NEW o,
         op' = [op EXCEPT ![p] = o], announced' = announced,
         waiting' # {} => announced # NoProc
  PROVE  QueueOK'
<1>1. op \in [Proc -> Ops \union {NoOp, Reading}] /\ announced \in Proc \union {NoProc}
  BY DEF Inv, TypeOK, ConfigTypeOK, LockTypeOK
<1>2. ASSUME announced # NoProc PROVE op'[announced] = op[announced]
  BY <1>1, <1>2 DEF QueueOK
<1> QED
  BY <1>2 DEF QueueOK

LEMMA ReadersQueue ==
  ASSUME QueueOK, NEW p, RLock(p) \/ RUnlock(p)
  PROVE  announced' = announced /\ (waiting' # {} => announced # NoProc)
BY DEF QueueOK, RLock, RUnlock

LEMMA QueueKept == Inv /\ QueueOK /\ [Next]_vars => QueueOK'
<1> SUFFICES ASSUME Inv, QueueOK, [Next]_vars PROVE QueueOK'
  OBVIOUS
<1>1. ASSUME UNCHANGED configVars PROVE QueueOK'
  BY <1>1 DEF QueueOK, configVars, lockVars
<1>2. ASSUME NEW b \in Builder, BuildStep(b) PROVE QueueOK'
  <2>1. b \in Proc
    BY Constants
  <2>2. CASE BuildTemplate(b) \/ RangeAnon(b) \/ EndNamed(b)
    BY <1>1, <2>2 DEF BuildTemplate, RangeAnon, EndNamed
  <2>3. CASE RunAnonHook(b) \/ RunNamedHook(b)
    <3>1. op[b] = NoOp /\ UNCHANGED lockVars /\ \E o : op' = [op EXCEPT ![b] = o]
      BY <2>3 DEF RunAnonHook, RunNamedHook
    <3>2. announced' = announced /\ (waiting' # {} => announced # NoProc)
      BY <3>1 DEF QueueOK, lockVars
    <3> QED
      BY <2>1, <3>1, <3>2, NotMutators, WriterStays
  <2>4. CASE CallDefaults(b) \/ ApplyDefaults(b) \/ CallAnon(b) \/ EndAnon(b)
               \/ CallNamed(b) \/ CopyNamed(b)
    <3>1. op' = op /\ (RLock(b) \/ RUnlock(b))
      BY <2>4 DEF CallDefaults, ApplyDefaults, CallAnon, EndAnon, CallNamed, CopyNamed
    <3> QED
      BY <3>1, ReadersQueue DEF QueueOK
  <2> QED
    BY <1>2, <2>2, <2>3, <2>4 DEF BuildStep
<1>3. ASSUME NEW p \in Proc, Lock(p) PROVE QueueOK'
  BY <1>3 DEF QueueOK, Lock, Announce
<1>4. ASSUME NEW p \in Proc, Mutate(p) PROVE QueueOK'
  BY <1>4 DEF QueueOK, Mutate, Unlock
<1>5. ASSUME NEW p \in Proc, Get(p) \/ Return(p) PROVE QueueOK'
  <2>1. op[p].do \notin Mutator /\ \E o : op' = [op EXCEPT ![p] = o]
    BY <1>5, NotMutators DEF Get, Return
  <2>2. RLock(p) \/ RUnlock(p)
    BY <1>5 DEF Get, Return
  <2> QED
    BY <2>1, <2>2, ReadersQueue, WriterStays
<1>6. ASSUME NEW p \in Proc, NEW o, Call(p, o) PROVE QueueOK'
  <2>1. op[p].do \notin Mutator /\ op' = [op EXCEPT ![p] = o]
    BY <1>6, NotMutators DEF Call
  <2>2. announced' = announced /\ (waiting' # {} => announced # NoProc)
    BY <1>6 DEF Call, lockVars, QueueOK
  <2> QED
    BY <2>1, <2>2, WriterStays
<1>7. CASE \E b \in Builder, j \in Jobs : Start(b, j)
  BY <1>1, <1>7 DEF Start
<1>8. CASE UNCHANGED vars
  BY <1>1, <1>8 DEF vars
<1> QED
  BY <1>2, <1>3, <1>4, <1>5, <1>6, <1>7, <1>8 DEF Next, ConfigStep, OpStep, Configure

(* Whoever holds the read lock either goes on or is in a hook that called  *)
(* the configuration.                                                      *)
LEMMA HoldersGoOn ==
  ASSUME Inv, NEW q \in Proc, holding[q] # 0, Blocked(q)
  PROVE  q \in Builder /\ pc[q] = "anonRun" /\ op[q] # NoOp
<1>1. InSection(q) \/ IsReading(q)
  BY DEF Inv, LocksAreAccountedFor, ReadHolds
<1>2. CASE ~InSection(q)
  <2>1. op[q] = Reading /\ q \notin waiting
    BY <1>1, <1>2 DEF IsReading
  <2> QED
    BY <2>1, NotMutators DEF Blocked
<1>3. CASE InSection(q)
  <2>1. q \in Builder /\ InPlace(q)
    BY <1>3 DEF InSection, Inv, PlaceOK
  <2>2. q \in waiting => WaitsInPlace(q)
    BY DEF Inv, PlaceOK
  <2>3. op[q] # NoOp
    BY <1>3, <2>2, OperationKinds, NotMutators DEF InSection, Blocked, WaitsInPlace
  <2>4. pc[q] = "anonRun"
    BY <1>3, <2>1, <2>3 DEF InSection, InPlace
  <2> QED
    BY <2>1, <2>3, <2>4
<1> QED
  BY <1>2, <1>3

(* Who waits, waits for a writer, and the writer for whoever holds the     *)
(* read lock.                                                              *)
LEMMA BlockersAreHooks == Inv /\ QueueOK => OnlyAnonymousHooksBlock
<1> SUFFICES ASSUME Inv, QueueOK, NEW p \in Proc, Working(p),
                    \A q \in Proc : Working(q) => Blocked(q)
             PROVE  \E b \in Builder : pc[b] = "anonRun" /\ op[b] # NoOp
  BY DEF OnlyAnonymousHooksBlock
<1>1. announced # NoProc
  BY DEF Blocked, QueueOK
<1>2. announced \in Proc /\ op[announced].do \in Mutator
  BY <1>1 DEF QueueOK, Inv, TypeOK, ConfigTypeOK, LockTypeOK
<1>3. announced \notin waiting
  <2>1. ASSUME announced \in waiting PROVE FALSE
    <3>1. WaitsInPlace(announced) /\ op[announced] # Reading /\ op[announced] # NoOp
      BY <1>2, <2>1, NotMutators DEF Inv, PlaceOK
    <3>2. announced \in Builder /\ pc[announced] \in {"overlay", "anonList", "namedList"}
      BY <3>1 DEF WaitsInPlace
    <3> QED
      BY <3>1, <3>2 DEF Inv, PlaceOK, InPlace
  <2> QED
    BY <2>1
<1>4. PICK q \in Proc : holding[q] # 0
  <2>1. Working(announced)
    BY <1>2, NotMutators DEF Working
  <2>2. ~Exclusive(announced)
    BY <1>2, <1>3, <2>1 DEF Blocked
  <2> QED
    BY <2>2 DEF Exclusive
<1>5. Working(q)
  BY <1>4, OperationKinds DEF Inv, LocksAreAccountedFor, ReadHolds, InSection, IsReading,
     Working, InProgress
<1> QED
  BY <1>4, <1>5, HoldersGoOn

(* For any goroutines, hooks and operations: when every goroutine that has *)
(* work to do waits for the lock, one of them is in an anonymous hook that *)
(* called the configuration it is run under.                               *)
THEOREM OnlyHooksDeadlock == Spec => []OnlyAnonymousHooksBlock
<1>1. Init => QueueOK
  BY DEF Init, ConfigInit, LockInit, QueueOK
<1>2. Inv /\ QueueOK /\ [Next]_vars => QueueOK'
  BY QueueKept
<1>3. Inv /\ QueueOK => OnlyAnonymousHooksBlock
  BY BlockersAreHooks
<1> QED
  BY <1>1, <1>2, <1>3, Invariance, PTL DEF Spec

----------------------------------------------------------------------------
(* The dispatches are atomic: WorkflowBuild implements AtomicDispatch.     *)

(* Where each builder is in the abstract Build.                            *)
Statuses == [b \in Builder |-> AbstractStatus(b)]
Nexts == [b \in Builder |-> AbstractNext(b)]
Lasts == [b \in Builder |-> AbstractLast(b)]

(* A builder whose variables do not change stays where it is.              *)
LEMMA SameView ==
  ASSUME NEW q, pc'[q] = pc[q], job'[q] = job[q], tpl'[q] = tpl[q],
         todo'[q] = todo[q], ran'[q] = ran[q], last'[q] = last[q]
  PROVE  /\ AbstractStatus(q)' = AbstractStatus(q)
         /\ AbstractNext(q)' = AbstractNext(q)
         /\ AbstractLast(q)' = AbstractLast(q)
<1>1. /\ Committed(q)' = Committed(q) /\ Firing(q)' = Firing(q)
      /\ ForTemplate(q)' = ForTemplate(q) /\ NamedListOf(q)' = NamedListOf(q)
  BY DEF Committed, Firing, ForTemplate, Templates, NamedListOf
<1>2. AbstractStatus(q)' = AbstractStatus(q)
  BY <1>1 DEF AbstractStatus
<1> QED
  BY <1>1, <1>2 DEF AbstractNext, AbstractLast

(* So a step of one builder moves that builder only.                       *)
LEMMA OneMoves ==
  ASSUME NEW b \in Builder,
         \A q \in Builder \ {b} :
           /\ pc'[q] = pc[q] /\ job'[q] = job[q] /\ tpl'[q] = tpl[q]
           /\ todo'[q] = todo[q] /\ ran'[q] = ran[q] /\ last'[q] = last[q]
  PROVE  /\ Statuses' = [Statuses EXCEPT ![b] = AbstractStatus(b)']
         /\ Nexts' = [Nexts EXCEPT ![b] = AbstractNext(b)']
         /\ Lasts' = [Lasts EXCEPT ![b] = AbstractLast(b)']
<1>1. ASSUME NEW q \in Builder \ {b}
      PROVE  /\ AbstractStatus(q)' = AbstractStatus(q)
             /\ AbstractNext(q)' = AbstractNext(q)
             /\ AbstractLast(q)' = AbstractLast(q)
  BY SameView
<1> QED
  BY <1>1 DEF Statuses, Nexts, Lasts

LEMMA NoneMoves ==
  ASSUME UNCHANGED buildVars
  PROVE  UNCHANGED <<Statuses, Nexts, Lasts>>
<1>1. ASSUME NEW q \in Builder
      PROVE  /\ AbstractStatus(q)' = AbstractStatus(q)
             /\ AbstractNext(q)' = AbstractNext(q)
             /\ AbstractLast(q)' = AbstractLast(q)
  BY SameView DEF buildVars
<1> QED
  BY <1>1 DEF Statuses, Nexts, Lasts

(* What each place in a Build is, seen from outside.                       *)
View(b) ==
  /\ pc[b] \in {"idle", "done", "failed"} =>
       /\ AbstractStatus(b) = pc[b]
       /\ AbstractNext(b) = 0
       /\ AbstractLast(b) = last[b]
  /\ pc[b] \in {"build", "defaults", "overlay", "anon", "anonList", "anonRun"} =>
       /\ AbstractStatus(b) = "running"
       /\ AbstractNext(b) = 2 * tpl[b] - 1
       /\ AbstractLast(b) = last[b]
  /\ pc[b] \in {"named", "namedList"} =>
       /\ AbstractStatus(b) = "running"
       /\ AbstractNext(b) = 2 * tpl[b] - 0
       /\ AbstractLast(b) = last[b]
  /\ pc[b] = "namedRun" =>
       /\ AbstractStatus(b) = IF Fails(Firing(b)) THEN "failed"
                              ELSE IF ForTemplate(b) THEN "running" ELSE "done"
       /\ AbstractNext(b) = IF ~Fails(Firing(b)) /\ ForTemplate(b)
                            THEN 2 * tpl[b] - (-1) ELSE 0
       /\ AbstractLast(b) = [list |-> NamedListOf(b), fns |-> Firing(b)]

LEMMA ViewAt ==
  ASSUME NEW b \in Builder PROVE View(b)
<1>1. CASE pc[b] = "namedRun"
  BY <1>1 DEF View, AbstractStatus, AbstractNext, AbstractLast, Committed
<1>2. CASE pc[b] # "namedRun"
  BY <1>2 DEF View, AbstractStatus, AbstractNext, AbstractLast, Committed
<1> QED
  BY <1>1, <1>2

LEMMA ViewAfter ==
  ASSUME NEW b \in Builder PROVE View(b)'
<1>1. CASE pc'[b] = "namedRun"
  BY <1>1 DEF View, AbstractStatus, AbstractNext, AbstractLast, Committed
<1>2. CASE pc'[b] # "namedRun"
  BY <1>2 DEF View, AbstractStatus, AbstractNext, AbstractLast, Committed
<1> QED
  BY <1>1, <1>2

LEMMA InitRefines == Init => Atomic!Init
<1> SUFFICES ASSUME Init PROVE Atomic!Init
  OBVIOUS
<1>1. Atomic!RegistryInit
  BY DEF Init, ConfigInit, RegistryInit, Atomic!RegistryInit, FreshDefaults,
     Atomic!FreshDefaults, NoAnonHooks, Atomic!NoAnonHooks, NoNamedHooks,
     Atomic!NoNamedHooks, Field, AnonList, NamedList,
     Atomic!Field, Atomic!AnonList, Atomic!NamedList
<1>2. /\ Statuses = [b \in Builder |-> "idle"]
      /\ Nexts = [b \in Builder |-> 0]
      /\ Lasts = [b \in Builder |-> NoDispatch]
  <2>1. \A b \in Builder : pc[b] = "idle" /\ last[b] = NoDispatch
    BY DEF Init
  <2>2. \A b \in Builder : /\ AbstractStatus(b) = "idle" /\ AbstractNext(b) = 0
                           /\ AbstractLast(b) = NoDispatch
    BY <2>1, ViewAt DEF View
  <2> QED
    BY <2>2 DEF Statuses, Nexts, Lasts
<1> QED
  BY <1>1, <1>2
     DEF Init, Atomic!Init, Statuses, Nexts, Lasts, NoDispatch, Atomic!NoDispatch

(* A step that the abstract Builds do not see.                             *)
LEMMA Unseen ==
  ASSUME UNCHANGED <<registry, job, built, Statuses, Nexts, Lasts>>
  PROVE  UNCHANGED Atomic!vars
BY DEF Atomic!vars, registry, Atomic!registry, Statuses, Nexts, Lasts

LEMMA UnseenStep ==
  ASSUME NEW b \in Builder, UNCHANGED <<registry, job, built>>,
         \A q \in Builder \ {b} :
           /\ pc'[q] = pc[q] /\ tpl'[q] = tpl[q]
           /\ todo'[q] = todo[q] /\ ran'[q] = ran[q] /\ last'[q] = last[q],
         /\ AbstractStatus(b)' = AbstractStatus(b)
         /\ AbstractNext(b)' = AbstractNext(b)
         /\ AbstractLast(b)' = AbstractLast(b)
  PROVE  UNCHANGED Atomic!vars
<1>1. UNCHANGED <<Statuses, Nexts, Lasts>>
  BY OneMoves DEF Statuses, Nexts, Lasts
<1> QED
  BY <1>1, Unseen

(* The steps that only move a Build between two dispatches, towards the    *)
(* next one, or inside one that has already taken place.                   *)
LEMMA TowardsAnon ==
  ASSUME Inv, NEW b \in Builder,
         \/ BuildTemplate(b) /\ pc'[b] # "failed"
         \/ CallDefaults(b) \/ CallAnon(b) \/ RangeAnon(b) \/ RunAnonHook(b)
  PROVE  UNCHANGED Atomic!vars
<1> USE DEF BuildTemplate, CallDefaults, CallAnon, RangeAnon, RunAnonHook, Goto
<1>1. /\ pc[b] \in {"build", "defaults", "anon", "anonList", "anonRun"}
      /\ pc'[b] \in {"defaults", "overlay", "anon", "anonList", "anonRun"}
      /\ UNCHANGED <<tpl, last, job, built, registry>>
  BY DEF Inv, TypeOK, configVars
<1>2. \A q \in Builder \ {b} : /\ pc'[q] = pc[q]
                              /\ todo'[q] = todo[q] /\ ran'[q] = ran[q]
  BY DEF Inv, TypeOK
<1> HIDE DEF BuildTemplate, CallDefaults, CallAnon, RangeAnon, RunAnonHook, Goto
<1>3. View(b) /\ View(b)'
  BY ViewAt, ViewAfter
<1>4. /\ AbstractStatus(b)' = AbstractStatus(b)
      /\ AbstractNext(b)' = AbstractNext(b)
      /\ AbstractLast(b)' = AbstractLast(b)
  BY <1>1, <1>3 DEF View
<1> QED
  BY <1>1, <1>2, <1>4, UnseenStep

LEMMA TowardsNamed ==
  ASSUME Inv, NEW b \in Builder, CallNamed(b)
  PROVE  UNCHANGED Atomic!vars
<1> USE DEF CallNamed, Goto
<1>1. /\ pc[b] = "named" /\ pc'[b] = "namedList"
      /\ UNCHANGED <<tpl, last, job, built, registry>>
  BY DEF Inv, TypeOK
<1>2. \A q \in Builder \ {b} : /\ pc'[q] = pc[q]
                              /\ todo'[q] = todo[q] /\ ran'[q] = ran[q]
  BY DEF Inv, TypeOK
<1>3. View(b) /\ View(b)'
  BY ViewAt, ViewAfter
<1>4. /\ AbstractStatus(b)' = AbstractStatus(b)
      /\ AbstractNext(b)' = AbstractNext(b)
      /\ AbstractLast(b)' = AbstractLast(b)
  BY <1>1, <1>3 DEF View
<1> QED
  BY <1>1, <1>2, <1>4, UnseenStep

LEMMA AppendConcat ==
  ASSUME NEW S, NEW r \in Seq(S), NEW h \in S, NEW u \in Seq(S)
  PROVE  Append(r, h) \o u = r \o (<< h >> \o u)
<1>1. Append(r, h) = r \o << h >> /\ << h >> \in Seq(S)
  OBVIOUS
<1>2. (r \o << h >>) \o u = r \o (<< h >> \o u)
  BY <1>1, ConcatAssociative
<1> QED
  BY <1>1, <1>2

(* From the moment the list of named hooks is copied, each hook that runs  *)
(* is one that was going to.                                               *)
LEMMA HooksAsCommitted ==
  ASSUME Inv, NEW b \in Builder, RunNamedHook(b)
  PROVE  UNCHANGED Atomic!vars
<1>1. /\ pc[b] = "namedRun" /\ todo[b] \in Seq(Hook) /\ ran[b] \in Seq(Hook)
      /\ todo[b] # << >>
      /\ ran'[b] = Append(ran[b], Head(todo[b]))
      /\ todo'[b] = IF Head(todo[b]) \in Failing THEN << >> ELSE Tail(todo[b])
      /\ UNCHANGED <<registry, pc, job, tpl, built, last>>
      /\ \A q \in Builder \ {b} : todo'[q] = todo[q] /\ ran'[q] = ran[q]
  BY DEF RunNamedHook, Inv, TypeOK, Hook
<1> DEFINE h == Head(todo[b])
           rest == Fired(todo'[b])
<1>2. Firing(b)' = Firing(b)
  <2>1. Fired(todo[b]) = << h >> \o rest
    BY <1>1, FiredStep
  <2>2. h \in Hook /\ todo'[b] \in Seq(Hook)
    BY <1>1
  <2>3. rest \in Seq(Hook)
    BY <2>2, FiredType
  <2> HIDE DEF h, rest
  <2>4. Append(ran[b], h) \o rest = ran[b] \o (<< h >> \o rest)
    <3>1. \A r \in Seq(Hook), g \in Hook, u \in Seq(Hook) :
            Append(r, g) \o u = r \o (<< g >> \o u)
      BY AppendConcat
    <3> QED
      BY <1>1, <2>2, <2>3, <3>1, Zenon
  <2>6. ran'[b] \o rest = ran[b] \o Fired(todo[b])
    BY <1>1, <2>1, <2>4 DEF h
  <2> QED
    BY <2>6 DEF Firing, rest
<1>3. ForTemplate(b)' = ForTemplate(b) /\ NamedListOf(b)' = NamedListOf(b)
  BY <1>1 DEF ForTemplate, NamedListOf, Templates
<1>4. View(b) /\ View(b)'
  BY ViewAt, ViewAfter
<1>5. /\ AbstractStatus(b)' = AbstractStatus(b)
      /\ AbstractNext(b)' = AbstractNext(b)
      /\ AbstractLast(b)' = AbstractLast(b)
  BY <1>1, <1>2, <1>3, <1>4 DEF View
<1> QED
  BY <1>1, <1>5, UnseenStep

LEMMA EndsAsCommitted ==
  ASSUME Inv, NEW b \in Builder, EndNamed(b)
  PROVE  UNCHANGED Atomic!vars
<1>1. /\ pc[b] = "namedRun" /\ todo[b] = << >> /\ ran[b] \in Seq(Hook)
      /\ UNCHANGED <<registry, job, built, todo, ran>>
      /\ last'[b] = [list |-> NamedListOf(b), fns |-> ran[b]]
      /\ \A q \in Builder \ {b} : /\ pc'[q] = pc[q] /\ tpl'[q] = tpl[q]
                                 /\ last'[q] = last[q]
  BY DEF EndNamed, Finish, Goto, configVars, Inv, TypeOK, Hook
<1>2. Firing(b) = ran[b]
  BY <1>1 DEF Firing, Fired, Fails
<1>3. /\ Fails(ran[b]) => pc'[b] = "failed"
      /\ ~Fails(ran[b]) /\ ForTemplate(b) =>
           pc'[b] = "build" /\ tpl'[b] = tpl[b] + 1
      /\ ~Fails(ran[b]) /\ ~ForTemplate(b) => pc'[b] = "done"
  BY DEF EndNamed, Finish, Goto, Inv, TypeOK
<1>4. View(b) /\ View(b)' /\ tpl[b] \in Nat
  BY ViewAt, ViewAfter DEF Inv, TypeOK
<1>5. CASE Fails(ran[b])
  BY <1>1, <1>2, <1>3, <1>4, <1>5, UnseenStep DEF View
<1>6. CASE ~Fails(ran[b]) /\ ForTemplate(b)
  <2>1. 2 * tpl[b] - (-1) = 2 * (tpl[b] + 1) - 1
    BY <1>4
  <2> QED
    BY <1>1, <1>2, <1>3, <1>4, <1>6, <2>1, UnseenStep DEF View
<1>7. CASE ~Fails(ran[b]) /\ ~ForTemplate(b)
  BY <1>1, <1>2, <1>3, <1>4, <1>7, UnseenStep DEF View
<1> QED
  BY <1>5, <1>6, <1>7

----------------------------------------------------------------------------
(* The steps that are steps of the abstract Build.                         *)
LEMMA StartsRefine ==
  ASSUME Inv, NEW b \in Builder, NEW j \in Jobs, Start(b, j)
  PROVE  Atomic!Start(b, j)
<1>1. /\ pc[b] \in {"idle", "done", "failed"}
      /\ pc'[b] = "build" /\ tpl'[b] = 1 /\ last'[b] = NoDispatch
      /\ UNCHANGED registry
      /\ job' = [job EXCEPT ![b] = j] /\ built' = [built EXCEPT ![b] = << >>]
      /\ \A q \in Builder \ {b} :
           /\ pc'[q] = pc[q] /\ job'[q] = job[q] /\ tpl'[q] = tpl[q]
           /\ todo'[q] = todo[q] /\ ran'[q] = ran[q] /\ last'[q] = last[q]
  BY DEF Start, Goto, InProgress, configVars, Inv, TypeOK
<1>2. View(b) /\ View(b)'
  BY ViewAt, ViewAfter
<1>3. /\ AbstractStatus(b) # "running"
      /\ AbstractStatus(b)' = "running"
      /\ AbstractNext(b)' = 1
      /\ AbstractLast(b)' = NoDispatch
  BY <1>1, <1>2 DEF View
<1>4. /\ Statuses' = [Statuses EXCEPT ![b] = "running"]
      /\ Nexts' = [Nexts EXCEPT ![b] = 1]
      /\ Lasts' = [Lasts EXCEPT ![b] = NoDispatch]
      /\ Statuses[b] # "running"
  <2>1. Statuses[b] = AbstractStatus(b)
    BY DEF Statuses
  <2> QED
    BY <1>1, <1>3, <2>1, OneMoves
<1> QED
  BY <1>1, <1>4 DEF Atomic!Start, Statuses, Nexts, Lasts, registry, Atomic!registry,
     NoDispatch, Atomic!NoDispatch

(* A Build fails by itself only before a pair of dispatches.               *)
LEMMA AbortsRefine ==
  ASSUME Inv, NEW b \in Builder, pc[b] \in {"build", "overlay"},
         pc' = [pc EXCEPT ![b] = "failed"],
         UNCHANGED <<registry, job, tpl, built, todo, ran, last>>
  PROVE  Atomic!Abort(b)
<1>1. pc'[b] = "failed" /\ tpl[b] \in Nat
      /\ \A q \in Builder \ {b} : pc'[q] = pc[q]
  BY DEF Inv, TypeOK
<1>2. View(b) /\ View(b)'
  BY ViewAt, ViewAfter
<1>3. /\ AbstractStatus(b) = "running" /\ AbstractNext(b) = 2 * tpl[b] - 1
      /\ AbstractStatus(b)' = "failed"
      /\ AbstractNext(b)' = 0
      /\ AbstractLast(b)' = AbstractLast(b)
  BY <1>1, <1>2 DEF View
<1>4. /\ Statuses' = [Statuses EXCEPT ![b] = "failed"]
      /\ Nexts' = [Nexts EXCEPT ![b] = 0]
      /\ Lasts' = Lasts
      /\ Statuses[b] = "running"
      /\ Nexts[b] = 2 * tpl[b] - 1
  <2>1. /\ Statuses[b] = AbstractStatus(b) /\ Nexts[b] = AbstractNext(b)
        /\ Lasts[b] = AbstractLast(b)
    BY DEF Statuses, Nexts, Lasts
  <2>2. Lasts' = [Lasts EXCEPT ![b] = Lasts[b]]
    BY <1>1, <1>3, <2>1, OneMoves
  <2>3. Lasts' = Lasts
    BY <2>2 DEF Lasts
  <2> QED
    BY <1>1, <1>3, <2>1, <2>3, OneMoves
<1>5. Nexts[b] % 2 = 1
  BY <1>1, <1>4
<1> QED
  BY <1>4, <1>5 DEF Atomic!Abort, Atomic!Stop, Statuses, Nexts, Lasts,
     registry, Atomic!registry

(* The dispatches of a Build are numbered as the plan has them.            *)
LEMMA PlanAt ==
  ASSUME Inv, NEW b \in Builder, InProgress(b),
         NEW k, k \in {2 * tpl[b] - 1, 2 * tpl[b] - 0},
         k = 2 * tpl[b] - 0 => HasNamedHooks(b)
  PROVE  /\ k \in Nat
         /\ Len(Atomic!Plan(job[b])) \in Nat
         /\ Atomic!Plan(job[b])[k].isNamed = (k = 2 * tpl[b] - 0)
         /\ Atomic!Plan(job[b])[k].list =
              IF k = 2 * tpl[b] - 0 THEN NamedListOf(b) ELSE AnonListOf(b)
         /\ Atomic!BuiltBefore(job[b], k) =
              IF ForTemplate(b) THEN tpl[b] ELSE tpl[b] - 1
         /\ k = Len(Atomic!Plan(job[b])) <=>
              ~ForTemplate(b) /\ (HasNamedHooks(b) => k = 2 * tpl[b] - 0)
<1> DEFINE n == Len(job[b].templates)
           size == 2 * n + (IF job[b].resource = "Workflow" THEN 2 ELSE 1)
<1>1. n \in Nat /\ tpl[b] \in Nat /\ tpl[b] >= 1
  BY CurrentTemplateType DEF Inv, TypeOK, Templates
<1>2. tpl[b] <= n + 1 /\ (ForTemplate(b) <=> tpl[b] <= n)
  BY DEF Inv, BuiltOK, BuiltSoFar, InProgress, ForTemplate, Templates
<1>3. HasNamedHooks(b) <=> tpl[b] <= n \/ job[b].resource = "Workflow"
  BY <1>2 DEF HasNamedHooks
<1>4. \/ size = 2 * n + 2 /\ job[b].resource = "Workflow"
      \/ size = 2 * n + 1 /\ job[b].resource # "Workflow"
  OBVIOUS
<1> HIDE DEF n
<1>a. size \in Nat
  BY <1>1
<1>b. DOMAIN Atomic!Plan(job[b]) = 1 .. size
  BY DEF Atomic!Plan, n
<1>5. k \in 1 .. size
  <2> HIDE DEF size
  <2> QED
    BY <1>1, <1>2, <1>3, <1>4
<1> USE DEF n
<1>c. Len(Atomic!Plan(job[b])) = size
  <2>1. Atomic!Plan(job[b]) \in Seq([isNamed : BOOLEAN, list : AnonList \union NamedList])
    BY <1>a DEF Atomic!Plan, Atomic!ObjectList, AnonList, NamedList
  <2> HIDE DEF size
  <2> QED
    BY <1>a, <1>b, <2>1
<1>6. /\ Atomic!Plan(job[b])[k].isNamed = (k % 2 = 0)
      /\ Atomic!Plan(job[b])[k].list =
           IF k <= 2 * n THEN "template"
           ELSE IF k % 2 = 0 THEN "workflow" ELSE ObjectList(job[b].resource)
  BY <1>5 DEF Atomic!Plan, ObjectList, Atomic!ObjectList
<1>7. (k % 2 = 0) = (k = 2 * tpl[b] - 0)
  BY <1>1
<1>8. k <= 2 * n <=> ForTemplate(b)
  BY <1>1, <1>2, SMTT(30)
<1>9. /\ ForTemplate(b) => (k + 1) \div 2 = tpl[b]
      /\ ~ForTemplate(b) => n = tpl[b] - 1
  BY <1>1, <1>2, SMTT(30)
<1>10. Atomic!BuiltBefore(job[b], k) = IF ForTemplate(b) THEN tpl[b] ELSE tpl[b] - 1
  BY <1>8, <1>9 DEF Atomic!BuiltBefore
<1>11. k = size <=> ~ForTemplate(b) /\ (HasNamedHooks(b) => k = 2 * tpl[b] - 0)
  <2> HIDE DEF n, size
  <2> QED
    BY <1>1, <1>2, <1>3, <1>4
<1>12. /\ ForTemplate(b) => /\ AnonListOf(b) = "template"
                            /\ NamedListOf(b) = "template"
       /\ ~ForTemplate(b) => /\ AnonListOf(b) = ObjectList(job[b].resource)
                             /\ NamedListOf(b) = "workflow"
  BY DEF AnonListOf, NamedListOf
<1> HIDE DEF n, size
<1> QED
  BY <1>a, <1>c, <1>5, <1>6, <1>7, <1>8, <1>10, <1>11, <1>12

(* The scalar defaults of a template are taken at one instant.             *)
LEMMA FillsRefine ==
  ASSUME Inv, NEW b \in Builder, ApplyDefaults(b), pc'[b] # "failed"
  PROVE  Atomic!Fill(b)
<1> DEFINE t == CurrentTemplate(b)
           fields == ApplyTemplateDefaults(t.fields, t.container)
<1>1. /\ pc[b] = "overlay" /\ pc'[b] = "anon"
      /\ t.container => fields["image"] # Unset
      /\ built' = [built EXCEPT ![b] = Append(@, fields)]
      /\ UNCHANGED <<registry, job, tpl, todo, ran, last>>
      /\ \A q \in Builder \ {b} : pc'[q] = pc[q]
  BY DEF ApplyDefaults, ValidateBuiltTemplate, Goto, Inv, TypeOK
<1>2. View(b) /\ View(b)'
  BY ViewAt, ViewAfter
<1>3. /\ AbstractStatus(b) = "running" /\ AbstractNext(b) = 2 * tpl[b] - 1
      /\ AbstractStatus(b)' = AbstractStatus(b)
      /\ AbstractNext(b)' = AbstractNext(b)
      /\ AbstractLast(b)' = AbstractLast(b)
  BY <1>1, <1>2 DEF View
<1>4. UNCHANGED <<Statuses, Nexts, Lasts>>
  BY <1>1, <1>3, OneMoves DEF Statuses, Nexts, Lasts
<1>5. ForTemplate(b) /\ tpl[b] \in Nat /\ InProgress(b)
  BY <1>1 DEF Inv, TypeOK, PlaceOK, InPlace, InProgress
<1>6. Len(built[b]) = tpl[b] - 1
  BY <1>1, <1>5 DEF Inv, BuiltOK, BuiltSoFar, AfterFill
<1>7. Len(built[b]) + 1 = tpl[b] /\ Atomic!BuiltBefore(job[b], Nexts[b]) = tpl[b]
  <2>1. Atomic!BuiltBefore(job[b], 2 * tpl[b] - 1) = tpl[b]
    BY <1>5, PlanAt
  <2> QED
    BY <1>3, <1>5, <1>6, <2>1 DEF Nexts
<1>8. fields = Atomic!ApplyTemplateDefaults(t.fields, t.container)
  BY DEF ApplyTemplateDefaults, Atomic!ApplyTemplateDefaults, Field, Atomic!Field,
     ContainerField, Atomic!ContainerField
<1>9. t = job[b].templates[Len(built[b]) + 1] /\ Statuses[b] = "running"
  BY <1>3, <1>7 DEF CurrentTemplate, Templates, Statuses
<1> HIDE DEF t, fields
<1> QED
  BY <1>1, <1>4, <1>7, <1>8, <1>9
     DEF Atomic!Fill, Statuses, Nexts, Lasts, registry, Atomic!registry

(* One dispatch of the plan, whatever its list.                            *)
LEMMA DispatchRefines ==
  ASSUME Inv, NEW b \in Builder, InProgress(b),
         NEW isNamed \in BOOLEAN, isNamed => HasNamedHooks(b),
         NEW fns,
         isNamed => fns = Fired(Fns(named[NamedListOf(b)])),
         ~isNamed => fns = anon[AnonListOf(b)],
         Len(built[b]) = IF ForTemplate(b) THEN tpl[b] ELSE tpl[b] - 1,
         AbstractStatus(b) = "running",
         AbstractNext(b) = IF isNamed THEN 2 * tpl[b] - 0 ELSE 2 * tpl[b] - 1,
         AbstractLast(b)' =
           [list |-> IF isNamed THEN NamedListOf(b) ELSE AnonListOf(b),
            fns |-> fns],
         AbstractStatus(b)' = IF isNamed /\ Fails(fns) THEN "failed"
                              ELSE IF ~ForTemplate(b) /\ (HasNamedHooks(b) => isNamed)
                              THEN "done" ELSE "running",
         AbstractNext(b)' = IF AbstractStatus(b)' = "running"
                            THEN AbstractNext(b) + 1 ELSE 0,
         UNCHANGED <<registry, job, built>>,
         \A q \in Builder \ {b} :
           /\ pc'[q] = pc[q] /\ tpl'[q] = tpl[q]
           /\ todo'[q] = todo[q] /\ ran'[q] = ran[q] /\ last'[q] = last[q]
  PROVE  Atomic!Dispatch(b)
<1> DEFINE k == AbstractNext(b)
           plan == Atomic!Plan(job[b])
           d == plan[k]
           l == IF isNamed THEN NamedListOf(b) ELSE AnonListOf(b)
           ends == ~ForTemplate(b) /\ (HasNamedHooks(b) => isNamed)
<1>1. tpl[b] \in Nat
  BY DEF Inv, TypeOK
<1>2. isNamed = (k = 2 * tpl[b] - 0)
  BY <1>1
<1>3. /\ k \in Nat /\ d.isNamed = isNamed /\ d.list = l
      /\ Atomic!BuiltBefore(job[b], k) = Len(built[b])
      /\ k = Len(plan) <=> ends
  <2>1. k \in {2 * tpl[b] - 1, 2 * tpl[b] - 0}
    OBVIOUS
  <2>2. k = 2 * tpl[b] - 0 => HasNamedHooks(b)
    BY <1>2
  <2> QED
    BY <1>2, <2>1, <2>2, PlanAt, ZenonT(40)
<1>4. Statuses[b] = "running" /\ Nexts[b] = k
  BY DEF Statuses, Nexts
<1>5. /\ Statuses' = [Statuses EXCEPT ![b] = AbstractStatus(b)']
      /\ Nexts' = [Nexts EXCEPT ![b] = AbstractNext(b)']
      /\ Lasts' = [Lasts EXCEPT ![b] = [list |-> l, fns |-> fns]]
  BY OneMoves
<1>6. fns = IF d.isNamed THEN Atomic!Fired(Atomic!Fns(named[d.list])) ELSE anon[d.list]
  <2>1. Atomic!Fired(Atomic!Fns(named[d.list])) = Fired(Fns(named[d.list]))
    <3> HIDE DEF d
    <3> QED
      BY Zenon DEF Fired, Atomic!Fired, Fns, Atomic!Fns, Fails, Atomic!Fails
  <2>2. CASE isNamed
    BY <1>3, <2>1, <2>2
  <2>3. CASE ~isNamed
    BY <1>3, <2>3
  <2> QED
    BY <2>2, <2>3
<1>7. Atomic!Fails(fns) <=> Fails(fns)
  BY DEF Fails, Atomic!Fails
<1>8. Statuses = [Statuses EXCEPT ![b] = "running"]
  BY <1>4 DEF Statuses
<1> HIDE DEF k, plan, d, l, ends
<1>9. (CASE d.isNamed /\ Atomic!Fails(fns) -> Atomic!Stop(b, "failed")
         [] ~(d.isNamed /\ Atomic!Fails(fns)) /\ k = Len(plan) -> Atomic!Stop(b, "done")
         [] OTHER -> Nexts' = [Nexts EXCEPT ![b] = @ + 1] /\ UNCHANGED Statuses)
  <2>1. CASE d.isNamed /\ Atomic!Fails(fns)
    BY <1>3, <1>5, <1>7, <2>1 DEF Atomic!Stop, Statuses, Nexts
  <2>2. CASE ~(d.isNamed /\ Atomic!Fails(fns)) /\ k = Len(plan)
    BY <1>3, <1>5, <1>7, <2>2 DEF Atomic!Stop, Statuses, Nexts, ends
  <2>3. CASE ~(d.isNamed /\ Atomic!Fails(fns)) /\ k # Len(plan)
    BY <1>3, <1>4, <1>5, <1>7, <1>8, <2>3 DEF ends, k
  <2> QED
    BY <2>1, <2>2, <2>3
<1> QED
  BY <1>3, <1>4, <1>5, <1>6, <1>9
     DEF Atomic!Dispatch, Statuses, Nexts, Lasts, registry, Atomic!registry, plan, d

(* A dispatch of anonymous hooks takes place when it ends: the list that   *)
(* has been run is still the registered one.                               *)
LEMMA AnonRefines ==
  ASSUME Inv, NEW b \in Builder, EndAnon(b)
  PROVE  Atomic!Dispatch(b)
<1>1. /\ pc[b] = "anonRun" /\ todo[b] = << >>
      /\ last'[b] = [list |-> AnonListOf(b), fns |-> ran[b]]
      /\ UNCHANGED <<registry, job, built, todo, ran>>
      /\ \A q \in Builder \ {b} : /\ pc'[q] = pc[q] /\ tpl'[q] = tpl[q]
                                 /\ last'[q] = last[q]
  BY DEF EndAnon, Finish, Goto, Inv, TypeOK
<1>2. /\ HasNamedHooks(b) => pc'[b] = "named" /\ tpl'[b] = tpl[b]
      /\ ~HasNamedHooks(b) => ~ForTemplate(b) /\ pc'[b] = "done"
  BY DEF EndAnon, Finish, Goto, HasNamedHooks, Inv, TypeOK
<1>3. View(b) /\ View(b)' /\ tpl[b] \in Nat /\ InProgress(b)
  BY <1>1, ViewAt, ViewAfter DEF Inv, TypeOK, InProgress
<1>4. ran[b] = anon[AnonListOf(b)]
  <2>1. ran[b] \o todo[b] = anon[AnonListOf(b)] /\ ran[b] \in Seq(Hook)
    BY <1>1 DEF Inv, StableWhileDispatched, StableFor, TypeOK, Hook
  <2> QED
    BY <1>1, <2>1, ConcatEmptySeq
<1>5. Len(built[b]) = IF ForTemplate(b) THEN tpl[b] ELSE tpl[b] - 1
  BY <1>1, <1>3 DEF Inv, BuiltOK, BuiltSoFar, AfterFill
<1>6. /\ AbstractStatus(b) = "running" /\ AbstractNext(b) = 2 * tpl[b] - 1
      /\ AbstractLast(b)' = [list |-> AnonListOf(b), fns |-> ran[b]]
      /\ HasNamedHooks(b) => /\ AbstractStatus(b)' = "running"
                             /\ AbstractNext(b)' = AbstractNext(b) + 1
      /\ ~HasNamedHooks(b) => /\ AbstractStatus(b)' = "done"
                              /\ AbstractNext(b)' = 0
  <2>1. 2 * tpl[b] - 0 = (2 * tpl[b] - 1) + 1
    BY <1>3
  <2> QED
    BY <1>1, <1>2, <1>3, <2>1 DEF View
<1>7. (HasNamedHooks(b) => FALSE) <=> ~HasNamedHooks(b)
  OBVIOUS
<1>8. AbstractStatus(b)' = IF ~ForTemplate(b) /\ (HasNamedHooks(b) => FALSE)
                           THEN "done" ELSE "running"
  BY <1>2, <1>6
<1>9. AbstractNext(b)' = IF AbstractStatus(b)' = "running"
                         THEN AbstractNext(b) + 1 ELSE 0
  BY <1>6
<1> QED
  <2> DEFINE isNamed == FALSE
  <2>1. isNamed \in BOOLEAN /\ ~isNamed
    OBVIOUS
  <2> QED
    BY <1>1, <1>3, <1>4, <1>5, <1>6, <1>8, <1>9, <2>1, DispatchRefines

(* A dispatch of named hooks takes place when their list is copied.        *)
LEMMA NamedRefines ==
  ASSUME Inv, NEW b \in Builder, CopyNamed(b)
  PROVE  Atomic!Dispatch(b)
<1> DEFINE fns == Fired(Fns(named[NamedListOf(b)]))
<1>1. /\ pc[b] = "namedList" /\ pc'[b] = "namedRun"
      /\ ran'[b] = << >> /\ todo'[b] = Fns(named[NamedListOf(b)])
      /\ UNCHANGED <<registry, job, tpl, built, last>>
      /\ \A q \in Builder \ {b} : /\ pc'[q] = pc[q] /\ ran'[q] = ran[q]
                                 /\ todo'[q] = todo[q]
  BY DEF CopyNamed, CopyTo, Goto, Inv, TypeOK
<1>2. View(b) /\ View(b)' /\ tpl[b] \in Nat /\ InProgress(b) /\ HasNamedHooks(b)
  BY <1>1, ViewAt, ViewAfter DEF Inv, TypeOK, InProgress, PlaceOK, InPlace
<1>3. Firing(b)' = fns
  <2>1. named[NamedListOf(b)] \in Seq(Entry(HookName, NamedHook))
    BY ListsExist DEF Inv, TypeOK, ConfigTypeOK, RegistryTypeOK, NamedEntry, Entry
  <2>2. fns \in Seq(NamedHook)
    BY <2>1, FnsType, FiredType
  <2>3. Firing(b)' = << >> \o fns
    BY <1>1 DEF Firing
  <2> HIDE DEF fns
  <2> QED
    BY <2>2, <2>3, ConcatEmptySeq
<1>4. ForTemplate(b)' = ForTemplate(b) /\ NamedListOf(b)' = NamedListOf(b)
  BY <1>1 DEF ForTemplate, NamedListOf, Templates
<1>5. Len(built[b]) = IF ForTemplate(b) THEN tpl[b] ELSE tpl[b] - 1
  BY <1>1, <1>2 DEF Inv, BuiltOK, BuiltSoFar, AfterFill
<1> HIDE DEF fns
<1>6. /\ AbstractStatus(b) = "running" /\ AbstractNext(b) = 2 * tpl[b] - 0
      /\ AbstractLast(b)' = [list |-> NamedListOf(b), fns |-> fns]
      /\ AbstractStatus(b)' = IF Fails(fns) THEN "failed"
                              ELSE IF ForTemplate(b) THEN "running" ELSE "done"
      /\ AbstractNext(b)' = IF ~Fails(fns) /\ ForTemplate(b)
                            THEN AbstractNext(b) + 1 ELSE 0
  <2>1. 2 * tpl[b] - (-1) = (2 * tpl[b] - 0) + 1
    BY <1>2
  <2> QED
    BY <1>1, <1>2, <1>3, <1>4, <2>1 DEF View
<1>7. AbstractNext(b)' = IF AbstractStatus(b)' = "running"
                         THEN AbstractNext(b) + 1 ELSE 0
  BY <1>6
<1> QED
  <2> DEFINE isNamed == TRUE
  <2>1. isNamed \in BOOLEAN /\ isNamed
    OBVIOUS
  <2>2. AbstractStatus(b)' = IF isNamed /\ Fails(fns) THEN "failed"
                             ELSE IF ~ForTemplate(b) /\ (HasNamedHooks(b) => isNamed)
                             THEN "done" ELSE "running"
    BY <1>6
  <2>3. isNamed => fns = Fired(Fns(named[NamedListOf(b)]))
    BY DEF fns
  <2> QED
    BY <1>1, <1>2, <1>5, <1>6, <1>7, <2>1, <2>2, <2>3, DispatchRefines

(* The operations on the configuration are those of the abstract registry. *)
LEMMA UpdatesRefine ==
  ASSUME NEW o, Update(o) PROVE Atomic!Update(o)
<1>1. \A list, id, fn : WithHook(list, id, fn) = Atomic!WithHook(list, id, fn)
  BY DEF WithHook, Atomic!WithHook, HasHook, Atomic!HasHook
<1>2. \A list, id : WithoutHook(list, id) = Atomic!WithoutHook(list, id)
  BY Zenon DEF WithoutHook, Atomic!WithoutHook, HasHook, Atomic!HasHook, FirstHook,
     Atomic!FirstHook, RemoveAt, Atomic!RemoveAt
<1>3. /\ FreshDefaults = Atomic!FreshDefaults
      /\ NoAnonHooks = Atomic!NoAnonHooks
      /\ NoNamedHooks = Atomic!NoNamedHooks
  BY DEF FreshDefaults, Atomic!FreshDefaults, NoAnonHooks, Atomic!NoAnonHooks,
     NoNamedHooks, Atomic!NoNamedHooks, Field, Atomic!Field, AnonList,
     Atomic!AnonList, NamedList, Atomic!NamedList
<1> QED
  BY <1>1, <1>2, <1>3
     DEF Update, Atomic!Update, SetScalar, Atomic!SetScalar, UnmarshalJSON,
     Atomic!UnmarshalJSON, RegisterHook, Atomic!RegisterHook, RegisterNamedHook,
     Atomic!RegisterNamedHook, RemoveHook, Atomic!RemoveHook, ClearHooks,
     Atomic!ClearHooks, Reset, Atomic!Reset

LEMMA ConfigStepsRefine ==
  ASSUME Inv, NEW p \in Proc, ConfigStep(p)
  PROVE  [Atomic!Next]_(Atomic!vars)
<1>1. UNCHANGED <<Statuses, Nexts, Lasts, job, built>>
  BY NoneMoves DEF ConfigStep, buildVars
<1>2. CASE Lock(p) \/ Get(p) \/ Return(p)
  BY <1>1, <1>2, Unseen DEF Lock, Get, Return
<1>3. CASE Mutate(p)
  <2>1. op[p] \in Ops
    BY <1>3, OperationKinds DEF Mutate, Inv, TypeOK, ConfigTypeOK
  <2>2. Atomic!Reconfigure(op[p])
    BY <1>1, <1>3, UpdatesRefine
       DEF Mutate, Atomic!Reconfigure, Statuses, Nexts, Lasts
  <2> QED
    BY <2>1, <2>2 DEF Atomic!Next
<1> QED
  BY <1>2, <1>3 DEF ConfigStep, OpStep

LEMMA BuildStepsRefine ==
  ASSUME Inv, NEW b \in Builder, BuildStep(b)
  PROVE  [Atomic!Next]_(Atomic!vars)
<1>1. CASE BuildTemplate(b)
  <2>1. pc'[b] = "failed" => Atomic!Abort(b)
    <3> SUFFICES ASSUME pc'[b] = "failed" PROVE Atomic!Abort(b)
      OBVIOUS
    <3>1. /\ pc[b] = "build" /\ pc' = [pc EXCEPT ![b] = "failed"]
          /\ UNCHANGED <<registry, job, tpl, built, todo, ran, last>>
      BY <1>1 DEF BuildTemplate, Goto, configVars, Inv, TypeOK
    <3> QED
      BY <3>1, AbortsRefine
  <2> QED
    BY <1>1, <2>1, TowardsAnon DEF Atomic!Next
<1>2. CASE ApplyDefaults(b)
  <2>1. pc'[b] = "failed" => Atomic!Abort(b)
    <3> SUFFICES ASSUME pc'[b] = "failed" PROVE Atomic!Abort(b)
      OBVIOUS
    <3>1. /\ pc[b] = "overlay" /\ pc' = [pc EXCEPT ![b] = "failed"]
          /\ UNCHANGED <<registry, job, tpl, built, todo, ran, last>>
      BY <1>2 DEF ApplyDefaults, Goto, Inv, TypeOK
    <3> QED
      BY <3>1, AbortsRefine
  <2> QED
    BY <1>2, <2>1, FillsRefine DEF Atomic!Next
<1>3. CASE EndAnon(b) \/ CopyNamed(b)
  BY <1>3, AnonRefines, NamedRefines DEF Atomic!Next
<1>4. CASE \/ CallDefaults(b) \/ CallAnon(b) \/ RangeAnon(b) \/ RunAnonHook(b)
           \/ CallNamed(b) \/ RunNamedHook(b) \/ EndNamed(b)
  BY <1>4, TowardsAnon, TowardsNamed, HooksAsCommitted, EndsAsCommitted
<1> QED
  BY <1>1, <1>2, <1>3, <1>4 DEF BuildStep

LEMMA StepRefines == Inv /\ [Next]_vars => [Atomic!Next]_(Atomic!vars)
<1> SUFFICES ASSUME Inv, [Next]_vars PROVE [Atomic!Next]_(Atomic!vars)
  OBVIOUS
<1>1. CASE \E b \in Builder, j \in Jobs : Start(b, j)
  BY <1>1, StartsRefine DEF Atomic!Next
<1>2. CASE \E b \in Builder : BuildStep(b)
  BY <1>2, BuildStepsRefine
<1>3. CASE \E p \in Proc : ConfigStep(p)
  BY <1>3, ConfigStepsRefine
<1>4. CASE \E p \in Proc \ Builder, o \in Ops : Configure(p, o)
  BY <1>4, NoneMoves, Unseen DEF Configure, Call, buildVars
<1>5. CASE UNCHANGED vars
  BY <1>5, NoneMoves, Unseen DEF vars, configVars, buildVars
<1> QED
  BY <1>1, <1>2, <1>3, <1>4, <1>5 DEF Next

(* Whatever Builds and operations interleave, each Build is the sequence   *)
(* of dispatches of its plan, each of them made at one instant, with the   *)
(* hooks that are registered at that instant.                              *)
THEOREM AtomicDispatches == Spec => DispatchesAreAtomic
<1>1. Init => Atomic!Init
  BY InitRefines
<1>2. Inv /\ [Next]_vars => [Atomic!Next]_(Atomic!vars)
  BY StepRefines
<1> QED
  BY <1>1, <1>2, Invariance, PTL DEF Spec, DispatchesAreAtomic, Atomic!Spec
============================================================================
