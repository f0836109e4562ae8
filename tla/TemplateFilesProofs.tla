------------------------ MODULE TemplateFilesProofs ------------------------
(***************************************************************************)
(* Proofs about TemplateFiles.                                             *)
(***************************************************************************)
EXTENDS TemplateFiles, WellFoundedInduction, TLAPS

(* A set of numbers that is not empty has a least one.                     *)
LEMMA Least ==
  ASSUME NEW T \in SUBSET Nat, T # {}
  PROVE  \E m \in T : \A n \in T : m <= n
<1> DEFINE R == OpToRel(<, Nat)
<1>1. IsWellFoundedOn(R, Nat)
  BY NatLessThanWellFounded
<1>2. \A x, y \in Nat : x < y => <<x, y>> \in R
  BY DEF OpToRel
<1> HIDE DEF R
<1>3. PICK x \in T : \A y \in T : ~(<<y, x>> \in R)
  BY <1>1, WFMin
<1>4. ASSUME NEW y \in T, y < x PROVE FALSE
  BY <1>2, <1>3, <1>4, Zenon
<1>5. \A y \in T : x <= y
  BY <1>4
<1> QED
  BY <1>5

(* If it is bounded, it has a greatest one.                                *)
LEMMA Greatest ==
  ASSUME NEW T \in SUBSET Nat, T # {}, NEW b \in Nat, \A n \in T : n <= b
  PROVE  /\ Max(T) \in T
         /\ \A n \in T : n <= Max(T)
<1> DEFINE U == {n \in Nat : b - n \in T}
<1>1. PICK t \in T : TRUE
  OBVIOUS
<1>2. b - t \in Nat /\ b - (b - t) = t
  OBVIOUS
<1>3. U # {}
  BY <1>1, <1>2
<1>4. PICK u \in U : \A n \in U : u <= n
  BY <1>3, Least
<1>5. ASSUME NEW n \in T PROVE b - u >= n
  <2>1. n \in Nat /\ b - n \in Nat /\ b - (b - n) = n
    OBVIOUS
  <2>2. b - n \in U
    BY <2>1
  <2> QED
    BY <1>4, <2>1, <2>2
<1>6. \E x \in T : \A y \in T : x >= y
  BY <1>4, <1>5
<1>7. Max(T) \in T /\ \A n \in T : Max(T) >= n
  BY <1>6 DEF Max
<1> QED
  BY <1>7

----------------------------------------------------------------------------
(* Paths.                                                                  *)

(* The beginning of a sequence, and two sequences put together.            *)
LEMMA First ==
  ASSUME NEW S, NEW s \in Seq(S), NEW k \in 0 .. Len(s)
  PROVE  /\ SubSeq(s, 1, k) \in Seq(S) /\ Len(SubSeq(s, 1, k)) = k
         /\ \A i \in 1 .. k : SubSeq(s, 1, k)[i] = s[i]
OBVIOUS

LEMMA Together ==
  ASSUME NEW S, NEW s \in Seq(S), NEW t \in Seq(S)
  PROVE  /\ s \o t \in Seq(S) /\ Len(s \o t) = Len(s) + Len(t)
         /\ \A i \in 1 .. Len(s) : (s \o t)[i] = s[i]
         /\ \A i \in 1 .. Len(t) : (s \o t)[Len(s) + i] = t[i]
OBVIOUS

(* at is where the first k segments lead to, each taken on its own.        *)
Walks(at, segments, k) ==
  /\ at \in [0 .. k -> Seq(Segment)]
  /\ at[0] = << >>
  /\ \A i \in 1 .. k : at[i] = Step(at[i - 1], segments[i])

LEMMA StepType ==
  ASSUME NEW path \in Seq(Segment), NEW s \in Segment
  PROVE  Step(path, s) \in Seq(Segment)
<1> HIDE DEF Segment
<1>1. path # << >> => Front(path) \in Seq(Segment)
  BY DEF Front
<1> QED
  BY <1>1 DEF Step

(* Every name leads to somewhere: walking it is defined.                   *)
LEMMA CleanType ==
  ASSUME NEW segments \in Seq(Segment)
  PROVE  Clean(segments) \in Seq(Segment)
<1> HIDE DEF Segment
<1> DEFINE N == Len(segments)
           G(at) == [n \in 0 .. N |-> IF n = 0 THEN << >> ELSE Step(at[n - 1], segments[n])]
           T == {k \in 0 .. N : ~ \E at : Walks(at, segments, k)}
<1>1. N \in Nat
  OBVIOUS
<1>2. T = {}
  <2> SUFFICES ASSUME T # {} PROVE FALSE
    OBVIOUS
  <2>0. T \in SUBSET Nat
    BY <1>1
  <2> HIDE DEF T
  <2>1. PICK k \in T : \A n \in T : k <= n
    BY <2>0, Least
  <2> USE DEF T
  <2>2. k # 0
    <3> DEFINE at == [i \in 0 .. 0 |-> << >>]
    <3>1. Walks(at, segments, 0)
      BY DEF Walks
    <3> QED
      BY <2>1, <3>1
  <2>3. k \in 1 .. N /\ k - 1 \in 0 .. N /\ k - 1 \notin T
    BY <1>1, <2>1, <2>2
  <2>4. PICK at : Walks(at, segments, k - 1)
    BY <2>3
  <2> DEFINE g == [i \in 0 .. k |-> IF i = k THEN Step(at[k - 1], segments[k]) ELSE at[i]]
  <2>5. /\ at \in [0 .. k - 1 -> Seq(Segment)] /\ at[0] = << >>
        /\ \A i \in 1 .. k - 1 : at[i] = Step(at[i - 1], segments[i])
    BY <2>4 DEF Walks
  <2>6. Step(at[k - 1], segments[k]) \in Seq(Segment)
    <3>1. at[k - 1] \in Seq(Segment) /\ segments[k] \in Segment
      BY <1>1, <2>3, <2>5
    <3> QED
      BY <3>1, StepType
  <2>7. g \in [0 .. k -> Seq(Segment)] /\ g[0] = << >>
    BY <1>1, <2>3, <2>5, <2>6
  <2>8. ASSUME NEW i \in 1 .. k PROVE g[i] = Step(g[i - 1], segments[i])
    <3>1. CASE i = k
      BY <3>1, <2>3
    <3>2. CASE i # k
      <4>1. i \in 1 .. k - 1 /\ i \in 0 .. k /\ i - 1 \in 0 .. k /\ i - 1 # k
        BY <1>1, <2>3, <3>2
      <4> QED
        BY <3>2, <4>1, <2>5
    <3> QED
      BY <3>1, <3>2
  <2>9. Walks(g, segments, k)
    BY <2>7, <2>8 DEF Walks
  <2> QED
    BY <2>1, <2>9
<1>3. PICK at : Walks(at, segments, N)
  BY <1>1, <1>2
<1>4. /\ at \in [0 .. N -> Seq(Segment)] /\ at[0] = << >>
      /\ \A i \in 1 .. N : at[i] = Step(at[i - 1], segments[i])
  BY <1>3 DEF Walks
<1>5. at = G(at)
  <2>1. \A n \in 0 .. N : n # 0 => n \in 1 .. N
    BY <1>1
  <2>2. \A n \in 0 .. N : at[n] = IF n = 0 THEN << >> ELSE Step(at[n - 1], segments[n])
    BY <1>4, <2>1
  <2> QED
    BY <1>4, <2>2
<1>6. Walk(segments) = G(Walk(segments))
  BY <1>5 DEF Walk
<1> DEFINE W == Walk(segments)
<1> HIDE DEF W
<1>7. W = G(W)
  BY <1>6 DEF W
<1>8. /\ W[0] = << >>
      /\ \A i \in 1 .. N : W[i] = Step(W[i - 1], segments[i])
  BY <1>1, <1>7
<1> DEFINE U == {k \in 0 .. N : W[k] \notin Seq(Segment)}
<1>9. U = {}
  <2> SUFFICES ASSUME U # {} PROVE FALSE
    OBVIOUS
  <2>0. U \in SUBSET Nat
    BY <1>1
  <2> HIDE DEF U
  <2>1. PICK k \in U : \A n \in U : k <= n
    BY <2>0, Least
  <2> USE DEF U
  <2>2. k # 0
    <3>1. << >> \in Seq(Segment)
      OBVIOUS
    <3> QED
      BY <1>8, <2>1, <3>1
  <2>3. k \in 1 .. N /\ k - 1 \in 0 .. N /\ k - 1 \notin U
    BY <1>1, <2>1, <2>2
  <2>4. Step(W[k - 1], segments[k]) \in Seq(Segment)
    <3>1. W[k - 1] \in Seq(Segment) /\ segments[k] \in Segment
      BY <1>1, <2>3
    <3> QED
      BY <3>1, StepType
  <2> QED
    BY <1>8, <2>1, <2>3, <2>4
<1> QED
  BY <1>1, <1>9 DEF Clean, W

(* A path with links leads to the place of the longest of them, and on.    *)
LEMMA PhysicalIs ==
  ASSUME NEW path \in Seq(Segment), Links(path) # {}
  PROVE  \E n \in Links(path) :
           /\ \A k \in Links(path) : k <= n
           /\ Physical(path) = Link[SubSeq(path, 1, n)] \o SubSeq(path, n + 1, Len(path))
<1> HIDE DEF Segment
<1> DEFINE n == Max(Links(path))
<1>1. Links(path) \in SUBSET Nat /\ Len(path) \in Nat /\ \A k \in Links(path) : k <= Len(path)
  BY DEF Links
<1>2. n \in Links(path) /\ \A k \in Links(path) : k <= n
  BY <1>1, Greatest
<1>3. n \in 0 .. Len(path)
  BY <1>2 DEF Links
<1>4. Len(SubSeq(path, 1, n)) = n
  BY <1>3
<1>5. Physical(path) = Moved(path, SubSeq(path, 1, n), Link[SubSeq(path, 1, n)])
  BY DEF Physical
<1> HIDE DEF n
<1>6. Physical(path) = Link[SubSeq(path, 1, n)] \o SubSeq(path, n + 1, Len(path))
  BY <1>4, <1>5 DEF Moved
<1> QED
  BY <1>2, <1>6

LEMMA PhysicalType ==
  ASSUME NEW path \in Seq(Segment)
  PROVE  Physical(path) \in Seq(Segment)
<1> HIDE DEF Segment
<1>1. CASE Links(path) = {}
  BY <1>1 DEF Physical
<1>2. CASE Links(path) # {}
  <2>1. PICK n \in Links(path) :
          Physical(path) = Link[SubSeq(path, 1, n)] \o SubSeq(path, n + 1, Len(path))
    BY <1>2, PhysicalIs
  <2>2. n \in 0 .. Len(path) /\ SubSeq(path, 1, n) \in DOMAIN Link
    BY DEF Links
  <2>3. Link[SubSeq(path, 1, n)] \in Seq(Segment)
    BY <2>2, LinkAssumption
  <2>4. SubSeq(path, n + 1, Len(path)) \in Seq(Segment)
    BY <2>2
  <2> QED
    BY <2>1, <2>3, <2>4
<1> QED
  BY <1>1, <1>2

(* There is no link on the way to the place that a path leads to.          *)
LEMMA PlacesHaveNoLinks ==
  ASSUME NEW path \in Seq(Segment)
  PROVE  Links(Physical(path)) = {}
<1> HIDE DEF Segment
<1>1. CASE Links(path) = {}
  BY <1>1 DEF Physical
<1>2. CASE Links(path) # {}
  <2>1. PICK n \in Links(path) :
          /\ \A k \in Links(path) : k <= n
          /\ Physical(path) = Link[SubSeq(path, 1, n)] \o SubSeq(path, n + 1, Len(path))
    BY <1>2, PhysicalIs
  <2> DEFINE l == SubSeq(path, 1, n)
             place == Link[l]
             rest == SubSeq(path, n + 1, Len(path))
             q == place \o rest
  <2>2. n \in 0 .. Len(path) /\ l \in DOMAIN Link
    BY DEF Links
  <2>3. place \in Seq(Segment) /\ l \in Seq(Segment) /\ rest \in Seq(Segment)
    BY <2>2, LinkAssumption
  <2>4. Len(l) = n /\ Len(rest) = Len(path) - n
    BY <2>2
  <2> SUFFICES ASSUME NEW k \in Links(q) PROVE FALSE
    BY <2>1
  <2> DEFINE m == SubSeq(q, 1, k)
  <2>5. k \in 0 .. Len(q) /\ m \in DOMAIN Link
    BY DEF Links
  <2>6. q \in Seq(Segment) /\ Len(q) = Len(place) + Len(rest)
    BY <2>3
  <2>7. m \in Seq(Segment) /\ Len(m) = k /\ \A i \in 1 .. k : m[i] = q[i]
    <3> HIDE DEF q
    <3> QED
      BY <2>5, <2>6, First
  <2>8. /\ \A i \in 1 .. Len(place) : q[i] = place[i]
        /\ \A i \in 1 .. Len(rest) : q[Len(place) + i] = rest[i]
    <3> HIDE DEF place, rest
    <3> QED
      BY <2>3, Together
  <2>9. \A i \in 1 .. Len(rest) : rest[i] = path[n + i]
    BY <2>2
  <2>10. \A i \in 1 .. n : l[i] = path[i]
    BY <2>2
  <2> HIDE DEF l, place, rest, q, m
  <2>11. CASE k <= Len(place)
    <3>1. SubSeq(m, 1, k) = SubSeq(place, 1, k)
      <4>1. k \in 0 .. Len(m) /\ k \in 0 .. Len(place)
        BY <2>5, <2>6, <2>7, <2>11
      <4>2. SubSeq(m, 1, k) \in Seq(Segment) /\ Len(SubSeq(m, 1, k)) = k
            /\ \A i \in 1 .. k : SubSeq(m, 1, k)[i] = m[i]
        BY <2>7, <4>1, First
      <4>3. SubSeq(place, 1, k) \in Seq(Segment) /\ Len(SubSeq(place, 1, k)) = k
            /\ \A i \in 1 .. k : SubSeq(place, 1, k)[i] = place[i]
        BY <2>3, <4>1, First
      <4>4. \A i \in 1 .. k : m[i] = place[i]
        BY <2>7, <2>8, <4>1
      <4> QED
        BY <4>2, <4>3, <4>4
    <3>2. IsPrefix(m, place)
      BY <2>7, <2>11, <3>1 DEF IsPrefix
    <3> QED
      BY <2>2, <2>5, <3>2, LinkAssumption DEF place
  <2>12. CASE k > Len(place)
    <3> DEFINE back == SubSeq(m, Len(place) + 1, Len(m))
               j == n + (k - Len(place))
    <3>1. SubSeq(place, 1, Len(place)) = SubSeq(m, 1, Len(place))
      BY <2>3, <2>5, <2>6, <2>7, <2>8, <2>12
    <3>2. IsPrefix(place, m)
      BY <2>3, <2>7, <2>12, <3>1 DEF IsPrefix
    <3>3. l \o back \in DOMAIN Link
      BY <2>2, <2>5, <3>2, LinkAssumption DEF place, Moved
    <3>4. j \in 0 .. Len(path) /\ j > n
      BY <2>2, <2>3, <2>4, <2>5, <2>6, <2>12
    <3>5. back \in Seq(Segment) /\ Len(back) = k - Len(place)
          /\ \A i \in 1 .. k - Len(place) : back[i] = m[Len(place) + i]
      BY <2>3, <2>5, <2>6, <2>7, <2>12
    <3>6. \A i \in 1 .. k - Len(place) : back[i] = path[n + i]
      <4> TAKE i \in 1 .. k - Len(place)
      <4>1. back[i] = q[Len(place) + i]
        BY <2>3, <2>5, <2>6, <2>7, <2>12, <3>5
      <4>2. i \in 1 .. Len(rest)
        BY <2>3, <2>5, <2>6, <2>12
      <4>3. q[Len(place) + i] = rest[i]
        BY <2>8, <4>2
      <4> QED
        BY <4>1, <4>2, <4>3, <2>9
    <3> HIDE DEF back, j
    <3>7. /\ l \o back \in Seq(Segment) /\ Len(l \o back) = Len(l) + Len(back)
          /\ \A i \in 1 .. Len(l) : (l \o back)[i] = l[i]
          /\ \A i \in 1 .. Len(back) : (l \o back)[Len(l) + i] = back[i]
      <4>1. l \in Seq(Segment) /\ back \in Seq(Segment)
        BY <2>3, <3>5
      <4> QED
        BY <4>1, Together
    <3>12. Len(l \o back) = j
      BY <2>4, <3>5, <3>7 DEF j
    <3>8. \A i \in 1 .. j : (l \o back)[i] = path[i]
      <4> TAKE i \in 1 .. j
      <4>1. CASE i <= n
        BY <2>2, <2>4, <2>10, <3>4, <3>7, <4>1
      <4>2. CASE i > n
        <5>1. i - n \in 1 .. k - Len(place) /\ n + (i - n) = i
          BY <2>2, <2>3, <2>5, <2>12, <4>2 DEF j
        <5>2. (l \o back)[i] = back[i - n]
          BY <2>4, <3>5, <3>7, <5>1
        <5> QED
          BY <3>6, <5>1, <5>2
      <4>3. i <= n \/ i > n
        BY <2>2, <3>4
      <4> QED
        BY <4>1, <4>2, <4>3
    <3>9. SubSeq(path, 1, j) \in Seq(Segment) /\ Len(SubSeq(path, 1, j)) = j
          /\ \A i \in 1 .. j : SubSeq(path, 1, j)[i] = path[i]
      BY <3>4, First
    <3>10. l \o back = SubSeq(path, 1, j)
      BY <3>7, <3>8, <3>9, <3>12
    <3>11. j \in Links(path)
      BY <3>3, <3>4, <3>10 DEF Links
    <3> QED
      BY <2>1, <2>2, <3>4, <3>11
  <2> QED
    BY <2>3, <2>5, <2>6, <2>11, <2>12
<1> QED
  BY <1>1, <1>2

(* What is below such a place stays below it, but for the links below it.  *)
LEMMA StaysBelow ==
  ASSUME NEW home \in Seq(Segment), Links(home) = {},
         NEW path \in Seq(Segment), IsPrefix(home, path)
  PROVE  \/ IsPrefix(home, Physical(path))
         \/ \E l \in DOMAIN Link : IsStrictPrefix(home, l) /\ IsPrefix(Link[l], Physical(path))
<1> HIDE DEF Segment
<1>1. CASE Links(path) = {}
  BY <1>1 DEF Physical
<1>2. CASE Links(path) # {}
  <2>1. PICK n \in Links(path) :
          Physical(path) = Link[SubSeq(path, 1, n)] \o SubSeq(path, n + 1, Len(path))
    BY <1>2, PhysicalIs
  <2> DEFINE l == SubSeq(path, 1, n)
             rest == SubSeq(path, n + 1, Len(path))
  <2>2. n \in 0 .. Len(path) /\ l \in DOMAIN Link
    BY DEF Links
  <2>3. /\ l \in Seq(Segment) /\ Len(l) = n /\ rest \in Seq(Segment)
        /\ \A i \in 1 .. n : l[i] = path[i]
    BY <2>2
  <2>4. Link[l] \in Seq(Segment)
    BY <2>2, LinkAssumption
  <2>5. Len(home) <= Len(path) /\ \A i \in 1 .. Len(home) : home[i] = path[i]
    <3>1. Len(home) <= Len(path) /\ SubSeq(home, 1, Len(home)) = SubSeq(path, 1, Len(home))
      BY DEF IsPrefix
    <3>2. \A i \in 1 .. Len(home) :
            SubSeq(home, 1, Len(home))[i] = home[i] /\ SubSeq(path, 1, Len(home))[i] = path[i]
      BY <3>1
    <3> QED
      BY <3>1, <3>2
  <2> HIDE DEF l, rest
  <2>6. Len(home) < n
    <3> SUFFICES ASSUME n <= Len(home) PROVE FALSE
      BY <2>2
    <3>1. SubSeq(home, 1, n) = l
      BY <2>2, <2>3, <2>5
    <3>2. n \in 0 .. Len(home)
      BY <2>2
    <3>3. n \in Links(home)
      BY <2>2, <3>1, <3>2 DEF Links
    <3> QED
      BY <3>3
  <2>7. IsStrictPrefix(home, l)
    <3>1. SubSeq(home, 1, Len(home)) = SubSeq(l, 1, Len(home))
      BY <2>2, <2>3, <2>5, <2>6
    <3> QED
      BY <2>2, <2>3, <2>6, <3>1 DEF IsPrefix, IsStrictPrefix
  <2>8. IsPrefix(Link[l], Link[l] \o rest)
    <3>1. SubSeq(Link[l], 1, Len(Link[l])) = SubSeq(Link[l] \o rest, 1, Len(Link[l]))
      BY <2>3, <2>4
    <3> QED
      BY <2>3, <2>4, <3>1 DEF IsPrefix
  <2> QED
    BY <2>1, <2>2, <2>7, <2>8 DEF l, rest
<1> QED
  BY <1>1, <1>2

(* The path that containedJoin returns, wherever its own links lead to.    *)
LEMMA JoinIsContained ==
  ASSUME NEW dir \in OutputDir, NEW name \in FullName, ContainedJoin(dir, name).ok
  PROVE  LET home == Physical(dir)
             place == Physical(ContainedJoin(dir, name).path)
         IN  \/ IsPrefix(home, place)
             \/ \E l \in DOMAIN Link : IsStrictPrefix(home, l) /\ IsPrefix(Link[l], place)
<1> DEFINE home == Physical(dir)
           joined == Clean(home \o name.segments)
<1>1. home \in Seq(Segment) /\ Links(home) = {}
  BY NameAssumption, PhysicalType, PlacesHaveNoLinks
<1>2. name.segments \in Seq(Segment)
  BY DEF FullName
<1>3. home \o name.segments \in Seq(Segment)
  BY <1>1, <1>2
<1>4. joined \in Seq(Segment)
  BY <1>3, CleanType
<1>5. IsPrefix(home, joined) /\ ContainedJoin(dir, name).path = joined
  BY DEF ContainedJoin
<1> HIDE DEF home, joined
<1>6. \/ IsPrefix(home, Physical(joined))
      \/ \E l \in DOMAIN Link : IsStrictPrefix(home, l) /\ IsPrefix(Link[l], Physical(joined))
  BY <1>1, <1>4, <1>5, StaysBelow
<1> QED
  BY <1>5, <1>6 DEF home

(* What a document is saved as is a name, given or derived.                *)
LEMMA TargetType ==
  ASSUME NEW name \in FileName, NEW d \in Document
  PROVE  Target(name, d) \in FullName
<1> DEFINE chosen == IF name # NoName THEN name
                     ELSE IF Name[d] # NoName THEN Name[d] ELSE Stem[d]
           n == Len(chosen.segments)
<1>1. chosen \in FullName
  BY NameAssumption
<1> HIDE DEF chosen
<1>2. chosen.segments \in Seq(Segment) /\ chosen.segments # << >> /\ n \in DOMAIN chosen.segments
  BY <1>1 DEF FullName
<1>3. chosen.segments[n] \in Segment
  BY <1>2
<1> DEFINE s == chosen.segments[n]
           e == IF s[2] \in Extension THEN s ELSE <<s[1], ".yaml">>
<1>4. e \in Segment
  BY <1>3 DEF Segment, Extension
<1>5. [chosen.segments EXCEPT ![n] = e] \in Seq(Segment) \ {<< >>}
  <2> HIDE DEF e, Segment
  <2> QED
    BY <1>2, <1>4
<1>6. WithExtension(chosen) = [chosen EXCEPT !.segments = [chosen.segments EXCEPT ![n] = e]]
  BY <1>1 DEF WithExtension, FullName
<1> QED
  BY <1>1, <1>5, <1>6 DEF FullName, Target, chosen

----------------------------------------------------------------------------
(* Documents.                                                              *)

(* The beginnings of a document are sequences of cells.                    *)
LEMMA BeginningType ==
  ASSUME NEW d \in Document, NEW n \in Nat
  PROVE  /\ Beginning(d, n) \in Content
         /\ Len(Beginning(d, n)) = n
         /\ \A i \in 1 .. n : Beginning(d, n)[i] = [doc |-> d, at |-> i]
<1>1. \A i \in 1 .. n : [doc |-> d, at |-> i] \in Cell
  BY DEF Cell
<1> HIDE DEF Cell
<1> QED
  BY <1>1 DEF Beginning, Content

(* The last of them is the document.                                       *)
LEMMA CellsAreTheBeginning ==
  ASSUME NEW d \in Document
  PROVE  /\ Cells(d) = Beginning(d, Length[d])
         /\ Length[d] \in Nat \ {0}
BY LengthAssumption DEF Cells, Beginning

(* Writing or reading one more cell makes the next beginning.              *)
LEMMA NextBeginning ==
  ASSUME NEW d \in Document, NEW n \in Nat
  PROVE  /\ Put(Beginning(d, n), n + 1, [doc |-> d, at |-> n + 1]) = Beginning(d, n + 1)
         /\ Append(Beginning(d, n), [doc |-> d, at |-> n + 1]) = Beginning(d, n + 1)
<1>1. /\ Beginning(d, n) \in Content
      /\ Len(Beginning(d, n)) = n
      /\ \A i \in 1 .. n : Beginning(d, n)[i] = [doc |-> d, at |-> i]
  BY BeginningType
<1>2. /\ Beginning(d, n + 1) \in Content
      /\ Len(Beginning(d, n + 1)) = n + 1
      /\ \A i \in 1 .. n + 1 : Beginning(d, n + 1)[i] = [doc |-> d, at |-> i]
  BY BeginningType
<1> DEFINE cell == [doc |-> d, at |-> n + 1]
           put == Put(Beginning(d, n), n + 1, cell)
<1>3. put = [j \in 1 .. n + 1 |-> IF j = n + 1 THEN cell
                                  ELSE IF j <= n THEN Beginning(d, n)[j] ELSE Hole]
  BY <1>1 DEF Put
<1>4. put = [j \in 1 .. n + 1 |-> [doc |-> d, at |-> j]]
  BY <1>1, <1>3
<1>5. put = Beginning(d, n + 1)
  BY <1>4 DEF Beginning
<1>6. Append(Beginning(d, n), cell) = Beginning(d, n + 1)
  <2> DEFINE longer == Append(Beginning(d, n), cell)
             next == Beginning(d, n + 1)
  <2>1. cell \in Cell
    BY DEF Cell
  <2>2. /\ longer \in Seq(Cell) /\ Len(longer) = n + 1
        /\ \A i \in 1 .. n + 1 : longer[i] = [doc |-> d, at |-> i]
    BY <1>1, <2>1 DEF Content
  <2> HIDE DEF longer, next
  <2>3. next \in Seq(Cell) /\ Len(next) = n + 1
        /\ \A i \in 1 .. n + 1 : next[i] = [doc |-> d, at |-> i]
    BY <1>2 DEF next, Content
  <2>4. longer = next
    BY <2>2, <2>3
  <2> QED
    BY <2>4 DEF longer, next
<1> QED
  BY <1>5, <1>6

(* Whatever is written where, a file remains a sequence of cells.          *)
LEMMA PutType ==
  ASSUME NEW content \in Content, NEW i \in Nat \ {0}, NEW cell \in Cell
  PROVE  Put(content, i, cell) \in Content
<1> DEFINE n == IF i > Len(content) THEN i ELSE Len(content)
<1>1. n \in Nat /\ Hole \in Cell
  BY DEF Content, Cell
<1>2. Put(content, i, cell) =
        [j \in 1 .. n |-> IF j = i THEN cell
                          ELSE IF j <= Len(content) THEN content[j] ELSE Hole]
  BY DEF Put
<1> HIDE DEF n
<1>3. \A j \in 1 .. n : (IF j = i THEN cell
                         ELSE IF j <= Len(content) THEN content[j] ELSE Hole) \in Cell
  BY <1>1 DEF Content
<1> HIDE DEF Cell
<1> QED
  BY <1>1, <1>2, <1>3 DEF Content

(* A whole document unmarshals to itself and to nothing else.              *)
LEMMA WholeDocument ==
  ASSUME NEW d \in Document, NEW outcome \in Unmarshal(Cells(d))
  PROVE  outcome = Loaded(d, Kind[d])
<1>1. ASSUME NEW e \in Document
      PROVE  /\ Cells(e) \in Seq(Cell) /\ Len(Cells(e)) >= 1
             /\ Cells(e)[1].doc = e
  <2>1. Length[e] \in Nat /\ 1 \in 1 .. Length[e]
    BY CellsAreTheBeginning
  <2>2. Cells(e) \in Content /\ Len(Cells(e)) = Length[e]
    BY <2>1, BeginningType, CellsAreTheBeginning
  <2>3. Cells(e)[1] = [doc |-> e, at |-> 1]
    BY <2>1 DEF Cells
  <2> QED
    BY <2>1, <2>2, <2>3 DEF Content
<1>3. ASSUME NEW e \in Document, Cells(d) = Cells(e) PROVE d = e
  BY <1>1, <1>3
<1>4. Cells(d) # << >>
  BY <1>1
<1>5. outcome \in {Loaded(e, Kind[e]) : e \in {e \in Document : Cells(d) = Cells(e)}}
  BY <1>4 DEF Unmarshal
<1> QED
  BY <1>3, <1>5

----------------------------------------------------------------------------
(* What a goroutine can be doing.                                          *)
LEMMA JobType ==
  ASSUME TypeOK, NEW c \in Caller
  PROVE  /\ job[c] = Idle \/ job[c] \in Writing \/ job[c] \in Reading
         /\ job[c].do \in {"nothing", "write", "read"}
         /\ job[c].do = "nothing" => job[c] = Idle
         /\ job[c].do = "write" => job[c] \in Writing
         /\ job[c].do = "read" => job[c] \in Reading
<1>1. job[c] = Idle \/ job[c] \in Writing \/ job[c] \in Reading
  BY DEF TypeOK
<1> QED
  BY <1>1 DEF Writing, Reading, Idle

(* The writers of a file are those of before, but for a goroutine that     *)
(* went idle.                                                              *)
LEMMA ReleaseOK ==
  ASSUME Inv, NEW c \in Caller, job' = [job EXCEPT ![c] = Idle],
         UNCHANGED <<files, known>>, LoadsAreWhole', last'.is # "opened"
  PROVE  Inv'
<1>1. TypeOK'
  BY DEF Inv, TypeOK, Writing, Reading
<1>2. /\ job'[c] = Idle
      /\ \A e \in Caller \ {c} : job'[e] = job[e]
  BY DEF Inv, TypeOK
<1>3. \A path : Writers(path)' = Writers(path) \ {c}
  BY <1>2 DEF Writers, Idle
<1>4. AloneOK'
  <2> SUFFICES ASSUME NEW e \in Caller, job'[e].do = "write"
               PROVE  /\ job'[e].written <= Length[job'[e].doc]
                      /\ job'[e].alone =>
                           /\ Writers(job[e].path)' = {e}
                           /\ files'[job'[e].path] = Beginning(job'[e].doc, job'[e].written)
    BY <1>2 DEF AloneOK, Idle
  <2>1. e # c /\ job'[e] = job[e]
    BY <1>2 DEF Idle
  <2> QED
    BY <2>1, <1>3 DEF Inv, AloneOK
<1>5. KnownOK'
  BY <1>3 DEF Inv, KnownOK
<1>6. ExpectsOK'
  <2> SUFFICES ASSUME NEW e \in Caller, job'[e].do = "read", job'[e].expects # Unknown
               PROVE  /\ known'[job'[e].path] = job'[e].expects
                      /\ \E n \in 0 .. Length[job'[e].expects] :
                           job'[e].read = Beginning(job'[e].expects, n)
    BY DEF ExpectsOK
  <2>1. e # c /\ job'[e] = job[e]
    BY <1>2 DEF Idle
  <2> QED
    BY <2>1 DEF Inv, ExpectsOK
<1>7. SavedIsWhole' /\ Contained'
  BY DEF Inv, SavedIsWhole, Contained
<1> QED
  BY <1>1, <1>4, <1>5, <1>6, <1>7 DEF Inv

(* Opening a file to write it: what was known of it is so no longer, its   *)
(* writers are not alone any more, and its readers may get anything.       *)
LEMMA OpenOK ==
  ASSUME Inv, NEW c \in Caller, NEW d \in Document, NEW path, job[c] = Idle,
         Open(c, d, path), last'.is = "opened", Contained'
  PROVE  Inv'
<1> DEFINE writing == [do |-> "write", path |-> path, doc |-> d, written |-> 0,
                       alone |-> Writers(path) = {}]
<1>1. /\ files' = With(files, path, << >>)
      /\ known' = With(known, path, Unknown)
      /\ job' = [Disturbed(path) EXCEPT ![c] = writing]
  BY DEF Open
<1>2. /\ DOMAIN files' = DOMAIN files \union {path}
      /\ files'[path] = << >>
      /\ \A p \in DOMAIN files \ {path} : files'[p] = files[p]
  BY <1>1 DEF With
<1>3. /\ DOMAIN known' = DOMAIN known \union {path}
      /\ known'[path] = Unknown
      /\ \A p \in DOMAIN known \ {path} : known'[p] = known[p]
  BY <1>1 DEF With
<1>4. DOMAIN known = DOMAIN files
  BY DEF Inv, TypeOK
<1>5. /\ job' \in [Caller -> {job'[e] : e \in Caller}]
      /\ job'[c] = writing
      /\ \A e \in Caller \ {c} : job'[e] = Disturbed(path)[e]
  BY <1>1 DEF Disturbed
<1>6. ASSUME NEW e \in Caller \ {c}
      PROVE  /\ e \in Writers(path) => job'[e] = [job[e] EXCEPT !.alone = FALSE]
             /\ e \in Readers(path) => job'[e] = [job[e] EXCEPT !.expects = Unknown]
             /\ e \notin Writers(path) /\ e \notin Readers(path) => job'[e] = job[e]
  BY <1>5 DEF Disturbed, Writers, Readers
<1>7. ASSUME NEW e \in Caller \ {c}
      PROVE  /\ job'[e] = Idle \/ job'[e] \in Writing' \/ job'[e] \in Reading'
             /\ job'[e].do = job[e].do
             /\ job[e].do # "nothing" => job'[e].path = job[e].path
             /\ job[e].do = "write" =>
                  job'[e].doc = job[e].doc /\ job'[e].written = job[e].written
             /\ job[e].do = "read" => job'[e].read = job[e].read
             /\ job[e].do = "write" /\ job'[e].alone =>
                  job[e].alone /\ job[e].path # path
             /\ job[e].do = "read" /\ job'[e].expects # Unknown =>
                  job'[e].expects = job[e].expects /\ job[e].path # path
  <2>1. TypeOK
    BY DEF Inv
  <2>2. CASE job[e] = Idle
    <3>1. job'[e] = Idle
      BY <1>6, <2>2 DEF Writers, Readers, Idle
    <3> QED
      BY <2>2, <3>1 DEF Idle
  <2>3. CASE job[e] \in Writing
    <3>1. job[e].do = "write" /\ e \notin Readers(path)
      BY <2>3 DEF Writing, Readers
    <3>2. CASE job[e].path = path
      <4>1. job'[e] = [job[e] EXCEPT !.alone = FALSE]
        BY <1>6, <3>1, <3>2 DEF Writers
      <4> QED
        BY <2>3, <3>1, <4>1, <1>2 DEF Writing
    <3>3. CASE job[e].path # path
      <4>1. job'[e] = job[e]
        BY <1>6, <3>1, <3>3 DEF Writers
      <4> QED
        BY <2>3, <3>1, <3>3, <4>1, <1>2 DEF Writing
    <3> QED
      BY <3>2, <3>3
  <2>4. CASE job[e] \in Reading
    <3>1. job[e].do = "read" /\ e \notin Writers(path)
      BY <2>4 DEF Reading, Writers
    <3>2. CASE job[e].path = path
      <4>1. job'[e] = [job[e] EXCEPT !.expects = Unknown]
        BY <1>6, <3>1, <3>2 DEF Readers
      <4> QED
        BY <2>4, <3>1, <4>1, <1>2 DEF Reading
    <3>3. CASE job[e].path # path
      <4>1. job'[e] = job[e]
        BY <1>6, <3>1, <3>3 DEF Readers
      <4> QED
        BY <2>4, <3>1, <3>3, <4>1, <1>2 DEF Reading
    <3> QED
      BY <3>2, <3>3
  <2> QED
    BY <2>1, <2>2, <2>3, <2>4, JobType
<1>8. /\ writing \in Writing' /\ writing.path = path
      /\ writing.doc = d /\ writing.written = 0
      /\ writing.alone <=> Writers(path) = {}
  BY <1>2 DEF Writing
<1> HIDE DEF writing
<1>9. TypeOK'
  <2>1. files' \in [DOMAIN files' -> Content]
    BY <1>1, <1>2 DEF Inv, TypeOK, With, Content
  <2>2. known' \in [DOMAIN files' -> Document \union {Unknown}]
    BY <1>1, <1>2, <1>3, <1>4 DEF Inv, TypeOK, With
  <2>3. job' \in [Caller -> {Idle} \union Writing' \union Reading']
    BY <1>5, <1>7, <1>8
  <2> QED
    BY <2>1, <2>2, <2>3 DEF TypeOK
<1>10. \A p : p # path => Writers(p)' = Writers(p)
  BY <1>5, <1>7, <1>8 DEF Writers, Idle
<1>11. Writers(path)' = Writers(path) \union {c}
  <2>1. job'[c].do = "write" /\ job'[c].path = path
    BY <1>5, <1>8 DEF Writing
  <2> QED
    BY <2>1, <1>7 DEF Writers
<1>12. AloneOK'
  <2> SUFFICES ASSUME NEW e \in Caller, job'[e].do = "write"
               PROVE  /\ job'[e].written <= Length[job'[e].doc]
                      /\ job'[e].alone =>
                           /\ Writers(job[e].path)' = {e}
                           /\ files'[job'[e].path] = Beginning(job'[e].doc, job'[e].written)
    BY DEF AloneOK, Writers
  <2>1. CASE e = c
    <3>1. job'[e].written = 0 /\ job'[e].doc = d /\ job'[e].path = path
          /\ (job'[e].alone <=> Writers(path) = {})
      BY <1>5, <1>8, <2>1
    <3>2. Beginning(d, 0) = << >>
      BY DEF Beginning
    <3>3. 0 <= Length[d]
      BY LengthAssumption
    <3>4. files'[job'[e].path] = Beginning(job'[e].doc, job'[e].written)
      BY <3>1, <3>2, <1>2
    <3>5. job'[e].alone => Writers(job[e].path)' = {e}
      BY <2>1, <3>1, <1>11
    <3> QED
      BY <3>1, <3>3, <3>4, <3>5
  <2>2. CASE e # c
    <3>1. job[e].do = "write" /\ job[e].path \in DOMAIN files
      BY <2>2, <1>7, JobType DEF Inv, Writing
    <3>2. /\ job'[e].path = job[e].path /\ job'[e].doc = job[e].doc
          /\ job'[e].written = job[e].written
          /\ job'[e].alone => job[e].alone /\ job[e].path # path
      BY <2>2, <3>1, <1>7
    <3>3. job[e].written <= Length[job[e].doc]
      BY <3>1 DEF Inv, AloneOK
    <3>4. ASSUME job'[e].alone
          PROVE  /\ Writers(job[e].path)' = {e}
                 /\ files'[job[e].path] = Beginning(job[e].doc, job[e].written)
      <4>1. /\ Writers(job[e].path) = {e}
            /\ files[job[e].path] = Beginning(job[e].doc, job[e].written)
        BY <3>1, <3>2, <3>4 DEF Inv, AloneOK
      <4>2. Writers(job[e].path)' = {x \in Caller : job'[x].do = "write" /\ job'[x].path = job[e].path}
        BY <3>2 DEF Writers
      <4>3. {x \in Caller : job'[x].do = "write" /\ job'[x].path = job[e].path} = {e}
        BY <4>1, <3>2, <3>4, <1>5, <1>7, <1>8 DEF Writers, Idle
      <4> QED
        BY <4>1, <4>2, <4>3, <3>1, <3>2, <3>4, <1>2
    <3> QED
      BY <3>2, <3>3, <3>4
  <2> QED
    BY <2>1, <2>2
<1>13. KnownOK'
  BY <1>3, <1>10 DEF Inv, KnownOK
<1>14. ExpectsOK'
  <2> SUFFICES ASSUME NEW e \in Caller, job'[e].do = "read", job'[e].expects # Unknown
               PROVE  /\ known'[job'[e].path] = job'[e].expects
                      /\ \E n \in 0 .. Length[job'[e].expects] :
                           job'[e].read = Beginning(job'[e].expects, n)
    BY DEF ExpectsOK
  <2>1. e # c
    BY <1>5, <1>8 DEF Writing
  <2>2. /\ job[e].do = "read" /\ job[e].path # path /\ job[e].path \in DOMAIN files
        /\ job'[e].expects = job[e].expects /\ job'[e].read = job[e].read
        /\ job'[e].path = job[e].path
    BY <2>1, <1>7, JobType DEF Inv, Reading
  <2> QED
    BY <2>2, <1>3, <1>4 DEF Inv, ExpectsOK
<1>15. SavedIsWhole'
  BY <1>2, <1>3, <1>4 DEF Inv, SavedIsWhole
<1>16. LoadsAreWhole'
  BY <1>1 DEF LoadsAreWhole
<1>17. Contained'
  BY <1>2 DEF Inv, Contained
<1> QED
  BY <1>9, <1>12, <1>13, <1>14, <1>15, <1>16, <1>17 DEF Inv

(* One goroutine goes on with what it does, on the file it does it to.     *)
LEMMA GoesOn ==
  ASSUME Inv, NEW c \in Caller, NEW now, job' = [job EXCEPT ![c] = now],
         now.do = job[c].do, now.path = job[c].path
  PROVE  /\ job'[c] = now
         /\ \A e \in Caller \ {c} : job'[e] = job[e]
         /\ \A path : Writers(path)' = Writers(path)
<1>1. /\ job'[c] = now
      /\ \A e \in Caller \ {c} : job'[e] = job[e]
  BY DEF Inv, TypeOK
<1> QED
  BY <1>1 DEF Writers

(* Writing a cell.                                                         *)
LEMMA WriteOK ==
  ASSUME Inv, NEW c \in Caller, Write(c)
  PROVE  Inv'
<1> DEFINE d == job[c].doc
           path == job[c].path
           n == job[c].written
           now == [job[c] EXCEPT !.written = n + 1]
<1>1. job[c] \in Writing /\ job[c].do = "write"
  BY JobType DEF Write, Inv
<1>2. d \in Document /\ path \in DOMAIN files /\ n \in Nat
  BY <1>1 DEF Writing
<1>3. Length[d] \in Nat /\ n < Length[d]
  BY <1>2, LengthAssumption DEF Write
<1>4. Cells(d)[n + 1] = [doc |-> d, at |-> n + 1]
  BY <1>2, <1>3 DEF Cells
<1>5. /\ files' = [files EXCEPT ![path] = Put(files[path], n + 1, [doc |-> d, at |-> n + 1])]
      /\ job' = [job EXCEPT ![c] = now]
      /\ last' = [is |-> "none"]
      /\ known' = known
  BY <1>4 DEF Write
<1>6. /\ now \in Writing /\ now.do = job[c].do /\ now.path = path
      /\ now.doc = d /\ now.written = n + 1 /\ now.alone = job[c].alone
  BY <1>1, <1>2 DEF Writing
<1>7. c \in Writers(path)
  BY <1>1 DEF Writers
<1> HIDE DEF now
<1>8. /\ job'[c] = now
      /\ \A e \in Caller \ {c} : job'[e] = job[e]
      /\ \A p : Writers(p)' = Writers(p)
  BY <1>5, <1>6, GoesOn
<1> HIDE DEF d, path, n
<1>9. TypeOK'
  <2>1. [doc |-> d, at |-> n + 1] \in Cell
    BY <1>2 DEF Cell
  <2>2. Put(files[path], n + 1, [doc |-> d, at |-> n + 1]) \in Content
    <3>1. files[path] \in Content
      BY <1>2 DEF Inv, TypeOK
    <3>2. n + 1 \in Nat \ {0}
      BY <1>2
    <3> QED
      BY <2>1, <3>1, <3>2, PutType
  <2>3. /\ files' \in [DOMAIN files -> Content]
        /\ DOMAIN files' = DOMAIN files
    BY <1>2, <1>5, <2>2 DEF Inv, TypeOK
  <2>4. Writing' = Writing /\ Reading' = Reading
    BY <2>3 DEF Writing, Reading
  <2>5. job' \in [Caller -> {Idle} \union Writing \union Reading]
    BY <1>5, <1>6 DEF Inv, TypeOK
  <2> QED
    BY <1>5, <2>3, <2>4, <2>5 DEF Inv, TypeOK
<1>10. ASSUME NEW p \in DOMAIN files, p # path PROVE files'[p] = files[p]
  BY <1>5, <1>10 DEF Inv, TypeOK
<1>11. AloneOK'
  <2> SUFFICES ASSUME NEW e \in Caller, job'[e].do = "write"
               PROVE  /\ job'[e].written <= Length[job'[e].doc]
                      /\ job'[e].alone =>
                           /\ Writers(job'[e].path) = {e}
                           /\ files'[job'[e].path] = Beginning(job'[e].doc, job'[e].written)
    BY <1>8 DEF AloneOK
  <2>1. CASE e = c
    <3>1. ASSUME job[c].alone
          PROVE  Writers(path) = {c} /\ files'[path] = Beginning(d, n + 1)
      <4>1. Writers(path) = {c} /\ files[path] = Beginning(d, n)
        BY <1>1, <3>1 DEF Inv, AloneOK, d, path, n
      <4> QED
        BY <4>1, <1>2, <1>5, NextBeginning DEF Inv, TypeOK
    <3> QED
      BY <2>1, <3>1, <1>2, <1>3, <1>6, <1>8
  <2>2. CASE e # c
    <3>1. job'[e] = job[e] /\ job[e] \in Writing
      BY <2>2, <1>8, JobType DEF Inv
    <3>2. /\ job[e].written <= Length[job[e].doc]
          /\ job[e].alone =>
               /\ Writers(job[e].path) = {e}
               /\ files[job[e].path] = Beginning(job[e].doc, job[e].written)
      BY <3>1 DEF Inv, AloneOK
    <3>3. job[e].alone => job[e].path # path
      BY <2>2, <3>2, <1>7
    <3>4. job[e].path \in DOMAIN files
      BY <3>1 DEF Writing
    <3> QED
      BY <3>1, <3>2, <3>3, <3>4, <1>10
  <2> QED
    BY <2>1, <2>2
<1>12. KnownOK'
  BY <1>5, <1>8 DEF Inv, KnownOK
<1>13. ExpectsOK'
  <2> SUFFICES ASSUME NEW e \in Caller, job'[e].do = "read", job'[e].expects # Unknown
               PROVE  /\ known'[job'[e].path] = job'[e].expects
                      /\ \E k \in 0 .. Length[job'[e].expects] :
                           job'[e].read = Beginning(job'[e].expects, k)
    BY DEF ExpectsOK
  <2>1. job'[e] = job[e]
    BY <1>1, <1>6, <1>8
  <2> QED
    BY <2>1, <1>5 DEF Inv, ExpectsOK
<1>14. SavedIsWhole'
  <2> SUFFICES ASSUME NEW p \in DOMAIN known, known[p] # Unknown
               PROVE  files'[p] = Cells(known[p])
    BY <1>5 DEF SavedIsWhole
  <2>1. Writers(p) = {} /\ files[p] = Cells(known[p]) /\ p \in DOMAIN files
    BY DEF Inv, TypeOK, KnownOK, SavedIsWhole
  <2> QED
    BY <2>1, <1>7, <1>10
<1>15. LoadsAreWhole'
  BY <1>5 DEF LoadsAreWhole
<1>16. Contained'
  BY <1>5 DEF Inv, TypeOK, Contained
<1> QED
  BY <1>9, <1>11, <1>12, <1>13, <1>14, <1>15, <1>16 DEF Inv

(* A save that was alone to the end has written the whole document.        *)
LEMMA SavedOK ==
  ASSUME Inv, NEW c \in Caller, Saved(c)
  PROVE  Inv'
<1> DEFINE d == job[c].doc
           path == job[c].path
<1>1. job[c] \in Writing /\ job[c].do = "write" /\ job[c].written = Length[d]
  BY JobType DEF Saved, Inv
<1>2. d \in Document /\ path \in DOMAIN files /\ path \in DOMAIN known
  BY <1>1 DEF Writing, Inv, TypeOK
<1>3. /\ known' = IF job[c].alone THEN [known EXCEPT ![path] = d] ELSE known
      /\ job' = [job EXCEPT ![c] = Idle]
      /\ files' = files
      /\ last' = [is |-> "saved"]
  BY DEF Saved
<1>4. LoadsAreWhole'
  BY <1>3 DEF LoadsAreWhole
<1>5. CASE ~job[c].alone
  BY <1>3, <1>4, <1>5, ReleaseOK
<1>6. CASE job[c].alone
  <2>1. Writers(path) = {c} /\ files[path] = Cells(d)
    BY <1>1, <1>2, <1>6, CellsAreTheBeginning DEF Inv, AloneOK
  <2>2. /\ job'[c] = Idle
        /\ \A e \in Caller \ {c} : job'[e] = job[e]
    BY <1>3 DEF Inv, TypeOK
  <2>3. \A p : Writers(p)' = Writers(p) \ {c}
    BY <2>2 DEF Writers, Idle
  <2>4. /\ known'[path] = d
        /\ \A p \in DOMAIN known \ {path} : known'[p] = known[p]
        /\ DOMAIN known' = DOMAIN known
    BY <1>2, <1>3, <1>6
  <2> HIDE DEF d, path
  <2>5. TypeOK'
    <3>1. known' \in [DOMAIN files -> Document \union {Unknown}]
      BY <1>2, <1>3, <1>6 DEF Inv, TypeOK
    <3>2. job' \in [Caller -> {Idle} \union Writing \union Reading]
      BY <1>3 DEF Inv, TypeOK
    <3> QED
      BY <1>3, <3>1, <3>2 DEF Inv, TypeOK, Writing, Reading
  <2>6. AloneOK'
    <3> SUFFICES ASSUME NEW e \in Caller, job'[e].do = "write"
                 PROVE  /\ job'[e].written <= Length[job'[e].doc]
                        /\ job'[e].alone =>
                             /\ Writers(job'[e].path) \ {c} = {e}
                             /\ files[job'[e].path] = Beginning(job'[e].doc, job'[e].written)
      BY <1>3, <2>3 DEF AloneOK
    <3>1. e # c /\ job'[e] = job[e]
      BY <2>2 DEF Idle
    <3> QED
      BY <3>1 DEF Inv, AloneOK
  <2>7. KnownOK'
    <3> SUFFICES ASSUME NEW p \in DOMAIN known, known'[p] # Unknown
                 PROVE  Writers(p) \ {c} = {}
      BY <2>3, <2>4 DEF KnownOK
    <3> QED
      BY <2>1, <2>4 DEF Inv, KnownOK
  <2>8. ExpectsOK'
    <3> SUFFICES ASSUME NEW e \in Caller, job'[e].do = "read", job'[e].expects # Unknown
                 PROVE  /\ known'[job'[e].path] = job'[e].expects
                        /\ \E n \in 0 .. Length[job'[e].expects] :
                             job'[e].read = Beginning(job'[e].expects, n)
      BY DEF ExpectsOK
    <3>1. job'[e] = job[e]
      BY <2>2 DEF Idle
    <3>2. job[e].path \in DOMAIN known
      BY <3>1, JobType DEF Inv, Reading, TypeOK
    <3>3. known[job[e].path] = job[e].expects
      BY <3>1 DEF Inv, ExpectsOK
    <3>4. job[e].path # path
      BY <3>1, <3>2, <3>3, <2>1 DEF Inv, KnownOK
    <3> QED
      BY <3>1, <3>2, <3>3, <3>4, <2>4 DEF Inv, ExpectsOK
  <2>9. SavedIsWhole'
    BY <1>3, <2>1, <2>4 DEF Inv, SavedIsWhole
  <2>10. Contained'
    BY <1>3 DEF Inv, Contained
  <2> QED
    BY <1>4, <2>5, <2>6, <2>7, <2>8, <2>9, <2>10 DEF Inv
<1> QED
  BY <1>5, <1>6

(* A goroutine that reads nothing of the files it does not have to, and    *)
(* writes nothing.                                                         *)
LEMMA OnlyReads ==
  ASSUME Inv, NEW c \in Caller, NEW now \in Reading, job' = [job EXCEPT ![c] = now],
         job[c].do # "write",
         UNCHANGED <<files, known>>, last' = [is |-> "none"],
         now.expects # Unknown =>
           /\ known[now.path] = now.expects
           /\ \E n \in 0 .. Length[now.expects] : now.read = Beginning(now.expects, n)
  PROVE  Inv'
<1>1. /\ job'[c] = now /\ now.do = "read"
      /\ \A e \in Caller \ {c} : job'[e] = job[e]
  BY DEF Inv, TypeOK, Reading
<1>2. \A p : Writers(p)' = Writers(p)
  BY <1>1 DEF Writers
<1>3. TypeOK'
  BY DEF Inv, TypeOK, Writing, Reading
<1>4. AloneOK'
  <2> SUFFICES ASSUME NEW e \in Caller, job'[e].do = "write"
               PROVE  /\ job'[e].written <= Length[job'[e].doc]
                      /\ job'[e].alone =>
                           /\ Writers(job'[e].path) = {e}
                           /\ files[job'[e].path] = Beginning(job'[e].doc, job'[e].written)
    BY <1>2 DEF AloneOK
  <2>1. job'[e] = job[e]
    BY <1>1
  <2> QED
    BY <2>1 DEF Inv, AloneOK
<1>5. KnownOK'
  BY <1>2 DEF Inv, KnownOK
<1>6. ExpectsOK'
  BY <1>1 DEF Inv, ExpectsOK
<1> QED
  BY <1>3, <1>4, <1>5, <1>6 DEF Inv, SavedIsWhole, LoadsAreWhole, Contained

LEMMA LoadOK ==
  ASSUME Inv, NEW c \in Caller, NEW path \in DOMAIN files, NEW cluster \in BOOLEAN,
         Load(c, path, cluster)
  PROVE  Inv'
<1> DEFINE now == [do |-> "read", path |-> path, cluster |-> cluster, read |-> << >>,
                   expects |-> IF Writers(path) = {} THEN known[path] ELSE Unknown]
<1>1. /\ job[c] = Idle /\ job' = [job EXCEPT ![c] = now]
      /\ last' = [is |-> "none"] /\ UNCHANGED <<files, known>>
  BY DEF Load
<1>2. now \in Reading
  BY DEF Reading, Inv, TypeOK, Content
<1>3. now.expects # Unknown =>
        /\ known[now.path] = now.expects
        /\ now.expects \in Document
        /\ now.read = Beginning(now.expects, 0)
  BY DEF Inv, TypeOK, Beginning
<1>4. \A e \in Document : 0 \in 0 .. Length[e]
  BY LengthAssumption
<1>5. job[c].do # "write"
  BY <1>1 DEF Idle
<1> HIDE DEF now
<1> QED
  BY <1>1, <1>2, <1>3, <1>4, <1>5, OnlyReads

LEMMA ReadOK ==
  ASSUME Inv, NEW c \in Caller, Read(c)
  PROVE  Inv'
<1> DEFINE path == job[c].path
           d == job[c].expects
           cell == files[path][Len(job[c].read) + 1]
           now == [job[c] EXCEPT !.read = Append(job[c].read, cell)]
<1>1. job[c] \in Reading /\ job[c].do = "read"
  BY JobType DEF Read, Inv
<1>2. /\ Len(job[c].read) < Len(files[path])
      /\ job' = [job EXCEPT ![c] = now]
      /\ last' = [is |-> "none"] /\ UNCHANGED <<files, known>>
  BY DEF Read
<1>3. path \in DOMAIN files /\ job[c].read \in Content /\ d \in Document \union {Unknown}
  BY <1>1 DEF Reading
<1>4. files[path] \in Content
  BY <1>3 DEF Inv, TypeOK
<1>5. cell \in Cell
  BY <1>2, <1>3, <1>4 DEF Content
<1>6. Append(job[c].read, cell) \in Content
  BY <1>3, <1>5 DEF Content
<1>7. now \in Reading /\ now.path = path /\ now.expects = d
      /\ now.read = Append(job[c].read, cell)
  BY <1>1, <1>6 DEF Reading
<1>8. ASSUME d # Unknown
      PROVE  /\ known[path] = d
             /\ \E n \in 0 .. Length[d] : now.read = Beginning(d, n)
  <2>1. d \in Document /\ known[path] = d /\ path \in DOMAIN known
    BY <1>1, <1>3, <1>8 DEF Inv, TypeOK, ExpectsOK
  <2>2. PICK n \in 0 .. Length[d] : job[c].read = Beginning(d, n)
    BY <1>1, <1>8 DEF Inv, ExpectsOK
  <2>3. files[path] = Beginning(d, Length[d]) /\ Length[d] \in Nat
    BY <2>1, <1>8, CellsAreTheBeginning DEF Inv, SavedIsWhole
  <2>4. Len(job[c].read) = n /\ Len(files[path]) = Length[d] /\ n \in Nat
    BY <2>1, <2>2, <2>3, BeginningType
  <2>5. n + 1 \in 1 .. Length[d]
    BY <1>2, <2>3, <2>4
  <2>6. cell = [doc |-> d, at |-> n + 1]
    BY <2>1, <2>3, <2>4, <2>5, BeginningType
  <2>7. now.read = Beginning(d, n + 1)
    BY <1>7, <2>1, <2>2, <2>4, <2>6, NextBeginning
  <2>8. n + 1 \in 0 .. Length[d]
    BY <2>3, <2>5
  <2> QED
    BY <2>1, <2>7, <2>8
<1> HIDE DEF now, path, d
<1>9. job[c].do # "write"
  BY <1>1
<1> QED
  BY <1>2, <1>7, <1>8, <1>9, OnlyReads

(* A reader that nobody disturbed, at the end of the file: it has read the *)
(* whole document.                                                         *)
LEMMA EndOfFileOK ==
  ASSUME Inv, NEW c \in Caller, EndOfFile(c)
  PROVE  Inv'
<1> DEFINE path == job[c].path
           d == job[c].expects
<1>1. job[c] \in Reading /\ job[c].do = "read"
  BY JobType DEF EndOfFile, Inv
<1>2. PICK outcome \in Unmarshal(job[c].read) :
        last' = [is |-> "read", cluster |-> job[c].cluster, expects |-> d,
                 outcome |-> Accept(outcome, job[c].cluster)]
  BY DEF EndOfFile
<1>3. /\ Len(job[c].read) >= Len(files[path])
      /\ job' = [job EXCEPT ![c] = Idle]
      /\ UNCHANGED <<files, known>>
  BY DEF EndOfFile
<1>4. path \in DOMAIN files /\ d \in Document \union {Unknown}
  BY <1>1 DEF Reading
<1>5. ASSUME d # Unknown PROVE outcome = Loaded(d, Kind[d])
  <2>1. d \in Document /\ known[path] = d /\ path \in DOMAIN known
    BY <1>1, <1>4, <1>5 DEF Inv, TypeOK, ExpectsOK
  <2>2. PICK n \in 0 .. Length[d] : job[c].read = Beginning(d, n)
    BY <1>1, <1>5 DEF Inv, ExpectsOK
  <2>3. files[path] = Beginning(d, Length[d]) /\ Length[d] \in Nat
    BY <2>1, <1>5, CellsAreTheBeginning DEF Inv, SavedIsWhole
  <2>4. Len(job[c].read) = n /\ Len(files[path]) = Length[d] /\ n \in Nat
    BY <2>1, <2>2, <2>3, BeginningType
  <2>5. n = Length[d]
    BY <1>3, <2>2, <2>3, <2>4
  <2>6. job[c].read = Cells(d)
    BY <2>1, <2>2, <2>5, CellsAreTheBeginning
  <2> QED
    BY <1>2, <2>1, <2>6, WholeDocument
<1> HIDE DEF d, path
<1>6. LoadsAreWhole'
  BY <1>2, <1>5 DEF LoadsAreWhole, Accept, Loaded, Error
<1> QED
  BY <1>2, <1>3, <1>6, ReleaseOK

(* A crash leaves the files, and nobody at work on them.                   *)
LEMMA CrashOK ==
  ASSUME Inv, Crash
  PROVE  Inv'
<1>1. /\ job' = [c \in Caller |-> Idle] /\ last' = [is |-> "none"]
      /\ UNCHANGED <<files, known>>
  BY DEF Crash
<1>2. \A p : Writers(p)' = {}
  BY <1>1 DEF Writers, Idle
<1>3. TypeOK'
  BY <1>1 DEF Inv, TypeOK, Writing, Reading
<1>4. AloneOK' /\ ExpectsOK'
  BY <1>1 DEF AloneOK, ExpectsOK, Idle
<1>5. KnownOK' /\ SavedIsWhole' /\ LoadsAreWhole' /\ Contained'
  BY <1>1, <1>2 DEF Inv, KnownOK, SavedIsWhole, LoadsAreWhole, Contained
<1> QED
  BY <1>3, <1>4, <1>5 DEF Inv

(* A call that only makes directories.                                     *)
LEMMA FilesUntouched ==
  ASSUME Inv, UNCHANGED <<files, job, known>>, last'.is \notin {"read", "opened"}
  PROVE  Inv'
<1>1. LoadsAreWhole' /\ Contained'
  BY DEF LoadsAreWhole, Contained
<1> QED
  BY <1>1 DEF Inv, TypeOK, Writing, Reading, AloneOK, KnownOK, ExpectsOK,
              Writers, SavedIsWhole

(* A save is refused, fails, or opens a file where it may.                 *)
LEMMA SaveOK ==
  ASSUME Inv, NEW c \in Caller, NEW d \in Document, NEW dir \in OutputDir,
         NEW name \in FileName, Save(c, d, dir, name)
  PROVE  Inv'
<1> DEFINE file == File(dir, name, d)
           place == Physical(file.path)
<1>1. CASE /\ file.ok
           /\ Open(c, d, place)
           /\ last' = [is |-> "opened", dir |-> dir, path |-> place]
  <2>1. LET home == Physical(dir)
        IN  \/ IsPrefix(home, place)
            \/ \E l \in DOMAIN Link : IsStrictPrefix(home, l) /\ IsPrefix(Link[l], place)
    BY <1>1, TargetType, JoinIsContained DEF File
  <2> HIDE DEF place
  <2>2. Contained' /\ last'.is = "opened"
    BY <1>1, <2>1 DEF Contained
  <2> QED
    BY <1>1, <2>2, OpenOK DEF Save
<1>2. CASE last'.is \in {"failed", "escapes"} /\ UNCHANGED <<files, job, known>>
  BY <1>2, FilesUntouched
<1> QED
  BY <1>1, <1>2 DEF Save

----------------------------------------------------------------------------
(* Inv holds in every behaviour, whoever saves, loads, fails and dies.     *)
THEOREM Invariance == Spec => []Inv
<1>1. Init => Inv
  BY DEF Init, Inv, TypeOK, AloneOK, KnownOK, ExpectsOK, SavedIsWhole, LoadsAreWhole,
         Contained, Idle
<1>2. Inv /\ [Next]_vars => Inv'
  <2> SUFFICES ASSUME Inv, [Next]_vars PROVE Inv'
    OBVIOUS
  <2>1. ASSUME NEW c \in Caller, NEW d \in Document, NEW dir \in OutputDir,
               NEW name \in FileName, Save(c, d, dir, name)
        PROVE  Inv'
    BY <2>1, SaveOK
  <2>10. ASSUME NEW c \in Caller, NEW dir \in OutputDir, SaveWithoutDir(c, dir)
         PROVE  Inv'
    <3>1. last'.is = "failed" /\ UNCHANGED <<files, job, known>>
      BY <2>10 DEF SaveWithoutDir
    <3> QED
      BY <3>1, FilesUntouched
  <2>2. ASSUME NEW c \in Caller, Write(c) PROVE Inv'
    BY <2>2, WriteOK
  <2>3. ASSUME NEW c \in Caller, Saved(c) PROVE Inv'
    BY <2>3, SavedOK
  <2>4. ASSUME NEW c \in Caller, SaveFails(c) PROVE Inv'
    <3>1. LoadsAreWhole'
      BY <2>4 DEF SaveFails, LoadsAreWhole
    <3> QED
      BY <2>4, <3>1, ReleaseOK DEF SaveFails
  <2>5. ASSUME NEW c \in Caller, NEW path \in DOMAIN files, NEW cluster \in BOOLEAN,
               Load(c, path, cluster)
        PROVE  Inv'
    BY <2>5, LoadOK
  <2>6. ASSUME NEW c \in Caller, Read(c) PROVE Inv'
    BY <2>6, ReadOK
  <2>7. ASSUME NEW c \in Caller, EndOfFile(c) PROVE Inv'
    BY <2>7, EndOfFileOK
  <2>8. CASE Crash
    BY <2>8, CrashOK
  <2>9. CASE UNCHANGED vars
    BY <2>9 DEF vars, Inv, TypeOK, Writing, Reading, AloneOK, KnownOK, ExpectsOK,
                Writers, SavedIsWhole, LoadsAreWhole, Contained
  <2> QED
    BY <2>1, <2>2, <2>3, <2>4, <2>5, <2>6, <2>7, <2>8, <2>9, <2>10 DEF Next
<1> QED
  BY <1>1, <1>2, PTL DEF Spec

(* A save that reports success and was not overlapped left the whole       *)
(* document, however documents and file names are chosen (serialize.go:    *)
(* os.WriteFile empties the file before it writes).                        *)
THEOREM SavesAreWhole == Spec => []SavedIsWhole
<1>1. Inv => SavedIsWhole
  BY DEF Inv
<1> QED
  BY <1>1, Invariance, PTL

(* A load that no save disturbs returns that document, or the refusal of a *)
(* Kind that is no cluster template's (serialize.go:126).                  *)
THEOREM WholeFilesLoad == Spec => []LoadsAreWhole
<1>1. Inv => LoadsAreWhole
  BY DEF Inv
<1> QED
  BY <1>1, Invariance, PTL

(* Whatever names documents have and programs give, with directories in    *)
(* them, ".." and roots, and wherever symbolic links lead to, a save opens *)
(* a file inside the directory it was given (serialize.go:210), or where a *)
(* link inside that directory leads to.                                    *)
THEOREM FilesAreContained == Spec => []Contained
<1>1. Inv => Contained
  BY DEF Inv
<1> QED
  BY <1>1, Invariance, PTL
============================================================================
