---------------------------- MODULE MCAliasPreflight ----------------------------
(* Instances of AliasPreflight for TLC.                                       *)
EXTENDS AliasPreflight

SomeNames == {"a", "b", "sort", "raw", "rejected", "rejected-custom", "source", "chunk"}

\* Links to a sibling, to a directory above, to a place that may not exist, to
\* themselves, and into the directories the builder owns.
Links == {Link(FALSE, <<"b">>), Link(TRUE, <<"a">>), Link(FALSE, <<"..", "b">>),
          Link(TRUE, <<"a", "b">>), Link(TRUE, <<"b", "a">>), Link(TRUE, <<"a", "sort">>)}
Leaves == {Dir, File("f1"), File("f2")} \cup Links

\* Two directories, one or two things in or in place of them.
Spots == {<<"a">>, <<"b">>, <<"a", "a">>, <<"a", "b">>, <<"b", "a">>, <<"b", "b">>,
          <<"a", "sort">>, <<"a", "raw">>, <<"a", "rejected">>}
Base == (<<>> :> Dir) @@ (<<"a">> :> Dir) @@ (<<"b">> :> Dir) @@ (<<"b", "a">> :> File("f1"))
Grown(tree, at, e) == With(Without(tree, {c \in DOMAIN tree : IsPrefix(at, c)}), at, e)
OneTrees == {Grown(Base, at, e) : at \in Spots, e \in Leaves}
TwoTrees == {Grown(t, at, e) : t \in OneTrees, at \in Spots \cup {<<"a", "raw", "a">>}, e \in Leaves}

\* Links that lie inside the directories the builder owns.
Owning == Grown(Grown(Base, <<"a", "raw">>, Dir), <<"a", "sort">>, Dir)
LinkTrees ==
  {tree \in {Grown(Grown(Owning, <<"a", d, "a">>, link), at, e) :
                d \in {"raw", "sort"}, link \in Links,
                at \in {<<"a", "source">>, <<"a", "b">>, <<"b", "b">>},
                e \in {Dir, File("f2"), Link(TRUE, <<"a">>)}} : Tree(tree)}

SomeTrees == {tree \in TwoTrees : Tree(tree)} \cup LinkTrees

Parts == {"a", "b", ".."}
SomePaths == UNION {[1..n -> Parts] : n \in 1..4}

Builders(sources, custom, output, buildDir, cacheDir, summary) ==
  {[tool |-> "builder", sources |-> m, custom |-> u, output |-> o, buildDir |-> d,
    cacheDir |-> c, summary |-> s] :
     m \in sources, u \in custom, o \in output, d \in buildDir, c \in cacheDir, s \in summary}

\* Outputs and summaries named through those links.
LinkArguments ==
  Builders({<<"a", "source">>, <<"b", "a">>}, {None}, {<<"a", "raw", "a", "b">>, <<"a", "sort", "a", "b">>},
           {<<"a">>}, {None, <<"b">>},
           {<<"a", "raw", "a", "..", "..", "source">>, <<"a", "raw", "a", "..", "..", "rejected">>,
            <<"a", "sort", "a", "..", "..", "source">>})

\* Both through a link in the sort directory, the summary back to the sources.
SortArguments ==
  Builders({<<"a", "source">>}, {None}, {<<"b", "b">>, <<"a", "sort", "a", "b">>}, {<<"a">>},
           {None, <<"b">>}, {<<"a", "sort", "a", "..", "..", "source">>})

SomeArguments ==
  {[tool |-> "wrapper", input |-> i, output |-> o, converter |-> c, log |-> l] :
     i \in {<<"a", "a">>, <<"b">>}, o \in {<<"b", "b">>, <<"a", "..", "b", "a">>},
     c \in {<<"b", "a">>},
     l \in {None, <<"a", "b">>, <<"b", "..", "a", "a">>, <<"b", "b", "a">>}}
  \cup Builders({<<"a", "a">>, <<"b", "a">>}, {None, <<"a", "raw", "a">>, <<"b", "..", "a", "b">>},
                {<<"b", "b">>, <<"a", "sort", "b">>}, {<<"a">>}, {None, <<"b">>, <<"a", "sort">>}, {None})
  \cup Builders({<<"b", "a">>}, {None, <<"a", "raw", "a">>}, {<<"b", "b">>}, {<<"b", "..", "a">>},
                {None, <<"b">>}, {None, <<"a", "b">>})
  \cup LinkArguments
===============================================================================
