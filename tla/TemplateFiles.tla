--------------------------- MODULE TemplateFiles ---------------------------
(***************************************************************************)
(* Files of documents (serialize.go).  Goroutines, of one process or of    *)
(* several, save documents under names that are given or derived, and load *)
(* them.  Opening a file to write it empties it; what is written and what  *)
(* is read then passes cell by cell.  A save may fail at any point, and a  *)
(* process may die.  Directories and files may be symbolic links.          *)
(***************************************************************************)
EXTENDS Integers, Sequences, FiniteSets, SequencesExt

CONSTANTS Caller,    \* the goroutines
          Document,  \* the documents
          Kind,      \* the Kind of each, "" if it has none
          Length,    \* the number of cells of each
          Name,      \* the Name of each
          Stem,      \* the GenerateName of each, without a final hyphen
          OutputDir, \* the output directories in use: absolute, clean paths
          FileName,  \* the file names that are asked for
          Existing,  \* the directories there are before anything is saved
          Link,      \* where each symbolic link leads to
          Unknown,   \* (of a file) no document in particular
          Hole       \* a cell that was never written

Cluster == "ClusterWorkflowTemplate"

NoKind == ""

(* A name is split at its slashes, and a segment into what is before its   *)
(* extension and the extension, if that is one of a YAML file.             *)
Extension == {".yaml", ".yml"}
Segment == STRING \X ({""} \union Extension)
FullName == [absolute : BOOLEAN, segments : Seq(Segment) \ {<< >>}]

Up == <<"..", "">>
Skipped == {<<".", "">>, <<"", "">>}  \* segments that lead nowhere else
NoName == [absolute |-> FALSE, segments |-> << <<"", "">> >>]  \* the empty string

ASSUME LengthAssumption == Length \in [Document -> Nat \ {0}]

(* The last segment of a document's name has all its letters before the    *)
(* extension, as ".yaml" is put after them whatever they are.              *)
ASSUME NameAssumption ==
  /\ FileName \subseteq FullName
  /\ Name \in [Document -> FullName] /\ Stem \in [Document -> FullName]
  /\ \A d \in Document : Last(Name[d].segments)[2] = "" /\ Last(Stem[d].segments)[2] = ""
  /\ OutputDir \subseteq Seq(Segment)

(* The path m, with its beginning l replaced.                              *)
Moved(m, l, place) == place \o SubSeq(m, Len(l) + 1, Len(m))

(* Link gives every path that ends at a link the place that it leads to in *)
(* the end: no link is on the way to that place, and what is a link in it  *)
(* is one by its other path too, and leads to the same.                    *)
ASSUME LinkAssumption ==
  /\ DOMAIN Link \subseteq Seq(Segment) /\ Link \in [DOMAIN Link -> Seq(Segment)]
  /\ \A l, m \in DOMAIN Link :
       /\ ~IsPrefix(m, Link[l])
       /\ IsPrefix(Link[l], m) => /\ Moved(m, Link[l], l) \in DOMAIN Link
                                 /\ Link[Moved(m, Link[l], l)] = Link[m]
       /\ IsStrictPrefix(l, m) => /\ Moved(m, l, Link[l]) \in DOMAIN Link
                                 /\ Link[Moved(m, l, Link[l])] = Link[m]

VARIABLES dirs,  \* the directories there are, by their place
          files, \* the contents of each file there is, by its place
          job,   \* what each goroutine is doing
          known, \* history: the document a file must hold, or Unknown
          last   \* the last call's outcome

vars == <<dirs, files, job, known, last>>

Idle == [do |-> "nothing"]
Cells(d) == [i \in 1 .. Length[d] |-> [doc |-> d, at |-> i]]
Writers(path) == {c \in Caller : job[c].do = "write" /\ job[c].path = path}
Readers(path) == {c \in Caller : job[c].do = "read" /\ job[c].path = path}

Init ==
  /\ dirs = Existing
  /\ files = << >>
  /\ job = [c \in Caller |-> Idle]
  /\ known = << >>
  /\ last = [is |-> "none"]

----------------------------------------------------------------------------
(* Names.                                                                  *)

(* Without one of the extensions, the last segment gets ".yaml".           *)
WithExtension(name) ==
  LET n == Len(name.segments) IN
    [name EXCEPT !.segments[n] = IF @[2] \in Extension THEN @ ELSE <<@[1], ".yaml">>]

(* The name that is given, or derived from the document.                   *)
Target(name, d) ==
  WithExtension(IF name # NoName THEN name
                ELSE IF Name[d] # NoName THEN Name[d] ELSE Stem[d])

(* filepath.Clean of an absolute path.                                     *)
Step(path, s) ==
  IF s \in Skipped THEN path
  ELSE IF s # Up THEN Append(path, s)
  ELSE IF path = << >> THEN path ELSE Front(path)

Walk(segments) ==
  LET at[n \in 0 .. Len(segments)] ==
        IF n = 0 THEN << >> ELSE Step(at[n - 1], segments[n])
  IN  at

Clean(segments) == Walk(segments)[Len(segments)]

(* Where a path leads to when all links are followed.                      *)
Links(path) == {n \in 0 .. Len(path) : SubSeq(path, 1, n) \in DOMAIN Link}
Physical(path) ==
  IF Links(path) = {} THEN path
  ELSE LET link == SubSeq(path, 1, Max(Links(path)))
       IN  Moved(path, link, Link[link])

(* Deviation for RefusedOnlyOutside: no name may go up.                    *)
ContainedJoinStraight(dir, name) ==
  IF name.absolute \/ Up \in Range(name.segments) THEN [ok |-> FALSE]
  ELSE [ok |-> TRUE, path |-> Clean(Physical(dir) \o name.segments)]

(* containedJoin: the links of dir are followed, those of the name are not.*)
ContainedJoin(dir, name) ==
  LET joined == Clean(Physical(dir) \o name.segments) IN
    IF name.absolute \/ ~IsPrefix(Physical(dir), joined) THEN [ok |-> FALSE]
    ELSE [ok |-> TRUE, path |-> joined]

(* Deviation for Contained: a derived name is taken as it is.              *)
FileOfGiven(dir, name, d) ==
  IF name # NoName THEN ContainedJoin(dir, Target(name, d))
  ELSE [ok |-> TRUE, path |-> Clean(Physical(dir) \o Target(name, d).segments)]

(* The path that a document is saved under.                                *)
File(dir, name, d) == ContainedJoin(dir, Target(name, d))

----------------------------------------------------------------------------
(* Saving.                                                                 *)

With(f, x, y) == [z \in DOMAIN f \union {x} |-> IF z = x THEN y ELSE f[z]]

(* A goroutine that opens a file for writing disturbs all that use it.     *)
Disturbed(path) ==
  [c \in Caller |-> IF c \in Writers(path) THEN [job[c] EXCEPT !.alone = FALSE]
                    ELSE IF c \in Readers(path) THEN [job[c] EXCEPT !.expects = Unknown]
                    ELSE job[c]]

(* Deviation for SavedIsWhole: the file is not emptied.                    *)
OpenInPlace(c, d, path) ==
  /\ files' = With(files, path, IF path \in DOMAIN files THEN files[path] ELSE << >>)
  /\ known' = With(known, path, Unknown)
  /\ job' = [Disturbed(path) EXCEPT ![c] =
               [do |-> "write", path |-> path, doc |-> d, written |-> 0,
                alone |-> Writers(path) = {}]]

(* os.WriteFile opens the file, which creates or empties it.               *)
Open(c, d, path) ==
  /\ files' = With(files, path, << >>)
  /\ known' = With(known, path, Unknown)
  /\ job' = [Disturbed(path) EXCEPT ![c] =
               [do |-> "write", path |-> path, doc |-> d, written |-> 0,
                alone |-> Writers(path) = {}]]

(* os.MkdirAll makes what is missing of a directory and its parents, where *)
(* no file and no link that leads nowhere is in the way.                   *)
Parents(dir) == {SubSeq(dir, 1, n) : n \in 0 .. Len(dir)}
CanMake(dir) ==
  \A path \in Parents(dir) :
    /\ Physical(path) \notin DOMAIN files
    /\ path \in DOMAIN Link => Physical(path) \in dirs
MkdirAll(dir) == dirs' = dirs \union {Physical(path) : path \in Parents(dir)}

(* "create output directory": only some of the parents were made.          *)
SaveWithoutDir(c, dir) ==
  /\ job[c] = Idle
  /\ Physical(dir) \notin dirs
  /\ \E parent \in Parents(dir) \ {dir} : CanMake(parent) /\ MkdirAll(parent)
  /\ last' = [is |-> "failed"]
  /\ UNCHANGED <<files, job, known>>

(* WorkflowToFile and ClusterWorkflowTemplateToFile: the output directory  *)
(* is made, and no other.  A file that is opened may still be refused by   *)
(* the operating system.                                                   *)
Save(c, d, dir, name) ==
  /\ job[c] = Idle
  /\ CanMake(dir)
  /\ MkdirAll(dir)
  /\ LET file == File(dir, name, d)
         place == Physical(file.path)
     IN  \/ /\ file.ok
            /\ Front(place) \in dirs' /\ place \notin dirs'
            /\ Open(c, d, place)
            /\ last' = [is |-> "opened", dir |-> dir, path |-> place]
         \/ /\ file.ok
            /\ last' = [is |-> "failed"]
            /\ UNCHANGED <<files, job, known>>
         \/ /\ ~file.ok
            /\ last' = [is |-> "escapes", dir |-> dir, name |-> Target(name, d)]
            /\ UNCHANGED <<files, job, known>>

(* A cell is written at the writer's own offset: what is before it and was *)
(* emptied in the meantime becomes a hole.                                 *)
Put(content, i, cell) ==
  [j \in 1 .. (IF i > Len(content) THEN i ELSE Len(content)) |->
     IF j = i THEN cell ELSE IF j <= Len(content) THEN content[j] ELSE Hole]

Write(c) ==
  /\ job[c].do = "write"
  /\ job[c].written < Length[job[c].doc]
  /\ LET i == job[c].written + 1 IN
       /\ files' = [files EXCEPT ![job[c].path] =
                      Put(@, i, Cells(job[c].doc)[i])]
       /\ job' = [job EXCEPT ![c].written = i]
  /\ last' = [is |-> "none"]
  /\ UNCHANGED <<dirs, known>>

Saved(c) ==
  /\ job[c].do = "write"
  /\ job[c].written = Length[job[c].doc]
  /\ known' = IF job[c].alone THEN [known EXCEPT ![job[c].path] = job[c].doc]
              ELSE known
  /\ job' = [job EXCEPT ![c] = Idle]
  /\ last' = [is |-> "saved"]
  /\ UNCHANGED <<dirs, files>>

(* "write file": the device is full, say.                                  *)
SaveFails(c) ==
  /\ job[c].do = "write"
  /\ job' = [job EXCEPT ![c] = Idle]
  /\ last' = [is |-> "failed"]
  /\ UNCHANGED <<dirs, files, known>>

----------------------------------------------------------------------------
(* Loading.                                                                *)

(* WorkflowFromFile, or ClusterWorkflowTemplateFromFile.                   *)
Load(c, path, cluster) ==
  /\ job[c] = Idle
  /\ path \in DOMAIN files
  /\ job' = [job EXCEPT ![c] =
               [do |-> "read", path |-> path, cluster |-> cluster, read |-> << >>,
                expects |-> IF Writers(path) = {} THEN known[path] ELSE Unknown]]
  /\ last' = [is |-> "none"]
  /\ UNCHANGED <<dirs, files, known>>

Read(c) ==
  /\ job[c].do = "read"
  /\ Len(job[c].read) < Len(files[job[c].path])
  /\ job' = [job EXCEPT ![c].read =
               Append(@, files[job[c].path][Len(@) + 1])]
  /\ last' = [is |-> "none"]
  /\ UNCHANGED <<dirs, files, known>>

(* What unmarshalling may make of cells: the document that they are; of no *)
(* cells at all an empty model, which is no error; of anything else an     *)
(* error, or a model with what could be read, whose Kind is from a         *)
(* document's first cell.                                                  *)
Error == [is |-> "error"]
Loaded(d, kind) == [is |-> "loaded", doc |-> d, kind |-> kind]

Unmarshal(cells) ==
  IF cells = << >> THEN {Loaded(Unknown, NoKind)}
  ELSE IF \E d \in Document : cells = Cells(d)
  THEN {Loaded(d, Kind[d]) : d \in {d \in Document : cells = Cells(d)}}
  ELSE {Error} \union
       {Loaded(Unknown, k) :
          k \in {NoKind} \union {Kind[d] : d \in {d \in Document : cells[1] = Cells(d)[1]}}}

(* Deviation for LoadsAreWhole: only a WorkflowTemplate is refused.        *)
AcceptWorkflows(outcome, cluster) ==
  IF cluster /\ outcome.is = "loaded" /\ outcome.kind = "WorkflowTemplate"
  THEN Error ELSE outcome

(* Only the loading of a cluster template looks at the Kind.               *)
Accept(outcome, cluster) ==
  IF cluster /\ outcome.is = "loaded" /\ outcome.kind \notin {NoKind, Cluster}
  THEN Error ELSE outcome

EndOfFile(c) ==
  /\ job[c].do = "read"
  /\ Len(job[c].read) >= Len(files[job[c].path])
  /\ \E outcome \in Unmarshal(job[c].read) :
       last' = [is |-> "read", cluster |-> job[c].cluster,
                expects |-> job[c].expects,
                outcome |-> Accept(outcome, job[c].cluster)]
  /\ job' = [job EXCEPT ![c] = Idle]
  /\ UNCHANGED <<dirs, files, known>>

----------------------------------------------------------------------------
(* The processes die; the files stay.                                      *)
Crash ==
  /\ job' = [c \in Caller |-> Idle]
  /\ last' = [is |-> "none"]
  /\ UNCHANGED <<dirs, files, known>>

Next ==
  \/ \E c \in Caller :
       \/ \E d \in Document, dir \in OutputDir, name \in FileName : Save(c, d, dir, name)
       \/ \E dir \in OutputDir : SaveWithoutDir(c, dir)
       \/ Write(c) \/ Saved(c) \/ SaveFails(c)
       \/ \E path \in DOMAIN files, cluster \in BOOLEAN : Load(c, path, cluster)
       \/ Read(c) \/ EndOfFile(c)
  \/ Crash

Spec == Init /\ [][Next]_vars

----------------------------------------------------------------------------
(* Properties.                                                             *)

(* A save that succeeds, with no other save of the file at any time during *)
(* it, leaves the whole document and nothing else, whatever was in the     *)
(* file and whatever failed or died there before.                          *)
SavedIsWhole ==
  \A path \in DOMAIN known :
    known[path] # Unknown => files[path] = Cells(known[path])

(* A load of such a file that no save disturbs returns the document, or,   *)
(* as a cluster template (serialize.go:126), the error that it is none.    *)
LoadsAreWhole ==
  last.is = "read" /\ last.expects # Unknown =>
    LET d == last.expects IN
      last.outcome = IF last.cluster /\ Kind[d] \notin {NoKind, Cluster}
                     THEN Error ELSE Loaded(d, Kind[d])

(* A save opens no file outside the directory it was given, whatever the   *)
(* name, given or derived (serialize.go:210), goes through, but where a    *)
(* link that is itself inside the directory leads to.                      *)
Contained ==
  last.is = "opened" =>
    LET home == Physical(last.dir) IN
      \/ IsPrefix(home, last.path)
      \/ \E l \in DOMAIN Link : IsStrictPrefix(home, l) /\ IsPrefix(Link[l], last.path)

(* The symbolic links inside the directory lead no save out of it          *)
(* (serialize.go:177-179, path_traversal_test.go:78-80).                   *)
LinksAreContained ==
  last.is = "opened" => IsPrefix(Physical(last.dir), last.path)

(* The segments that are left of a path: those that no later ".." takes    *)
(* back, as every ".." after them takes back a segment after them.         *)
Kept(path) ==
  LET named == {i \in DOMAIN path : path[i] \notin Skipped \union {Up}}
      ups == {i \in DOMAIN path : path[i] = Up}
  IN  {i \in named : \A j \in i .. Len(path) :
         Cardinality(ups \cap (i .. j)) <= Cardinality(named \cap (i + 1 .. j))}

EndsIn(dir, path) ==
  LET kept == SetToSortSeq(Kept(path), <)
  IN  IsPrefix(dir, [i \in DOMAIN kept |-> path[kept[i]]])

(* A name that is refused because it escapes (ErrPathTraversal) is absolute*)
(* or does end outside the directory: one that goes up and comes back is   *)
(* as good as any other.                                                   *)
RefusedOnlyOutside ==
  last.is = "escapes" =>
    \/ last.name.absolute
    \/ ~EndsIn(Physical(last.dir), Physical(last.dir) \o last.name.segments)

----------------------------------------------------------------------------
(* The inductive invariant behind the properties.                          *)

Cell == [doc : Document, at : Nat] \union {Hole}
Content == Seq(Cell)
Writing ==
  [do : {"write"}, path : DOMAIN files, doc : Document, written : Nat, alone : BOOLEAN]
Reading ==
  [do : {"read"}, path : DOMAIN files, cluster : BOOLEAN, read : Content,
   expects : Document \union {Unknown}]

TypeOK ==
  /\ files \in [DOMAIN files -> Content]
  /\ known \in [DOMAIN files -> Document \union {Unknown}]
  /\ job \in [Caller -> {Idle} \union Writing \union Reading]

(* The first n cells of a document.                                        *)
Beginning(d, n) == [i \in 1 .. n |-> [doc |-> d, at |-> i]]

(* A writer that was alone from the start has the file to itself, and the  *)
(* file holds what it has written.                                         *)
AloneOK ==
  \A c \in Caller : job[c].do = "write" =>
    /\ job[c].written <= Length[job[c].doc]
    /\ job[c].alone =>
         /\ Writers(job[c].path) = {c}
         /\ files[job[c].path] = Beginning(job[c].doc, job[c].written)

(* A file of which the document is known is nobody's to write.             *)
KnownOK ==
  \A path \in DOMAIN known : known[path] # Unknown => Writers(path) = {}

(* A reader that nobody disturbed has read the beginning of that document. *)
ExpectsOK ==
  \A c \in Caller : job[c].do = "read" /\ job[c].expects # Unknown =>
    /\ known[job[c].path] = job[c].expects
    /\ \E n \in 0 .. Length[job[c].expects] :
         job[c].read = Beginning(job[c].expects, n)

Inv ==
  /\ TypeOK
  /\ AloneOK /\ KnownOK /\ ExpectsOK
  /\ SavedIsWhole /\ LoadsAreWhole /\ Contained
============================================================================
