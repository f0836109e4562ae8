--------------------------- MODULE MCTemplateFiles ---------------------------
(***************************************************************************)
(* An instance of TemplateFiles for TLC: a workflow and a cluster template *)
(* that can have one file or two, under names that go up and stay out,     *)
(* given and derived, or come back, that go through a link, and to a file  *)
(* that is a link; in a directory that is a link, in one that is to be     *)
(* made and that a link already leads to, and in one below a link that     *)
(* leads nowhere.                                                          *)
(***************************************************************************)
EXTENDS TemplateFiles

CONSTANTS w, g

Dir(base) == <<base, "">>
Relative(way, e) == [absolute |-> FALSE, segments |-> Append(way, <<"a", e>>)]
Absolute == [absolute |-> TRUE, segments |-> <<Dir("data"), <<"a", "">>>>]

MCKind == (w :> "Workflow") @@ (g :> "ClusterWorkflowTemplate")
MCLength == (w :> 2) @@ (g :> 1)
MCName == (w :> NoName) @@ (g :> Relative(<<Up>>, ""))
MCStem == (w :> Relative(<<Up, Dir("data"), Dir(".")>>, "")) @@ (g :> NoName)

MCExisting == {<< >>, <<Dir("data")>>}
MCLink == <<Dir("out")>> :> <<Dir("data")>>
       @@ <<Dir("lost")>> :> <<Dir("nowhere")>>
       @@ [l \in {<<dir, Dir("link")>> : dir \in {Dir("out"), Dir("data")}} |-> <<Dir("other")>>]
       @@ [l \in {<<dir, Dir("link"), <<"a", ".yml">>>> : dir \in {Dir("out"), Dir("data")}}
                   \union {<<Dir("other"), <<"a", ".yml">>>>} |->
             <<Dir("other"), <<"a", ".yaml">>>>]

MCOutputDir == {<<Dir("out")>>, <<Dir("other")>>, <<Dir("lost"), Dir("new")>>}
MCFileName == {NoName, Absolute, Relative(<<Dir("link")>>, ".yml")}

Callers == Permutations(Caller)
============================================================================
