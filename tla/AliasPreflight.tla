----------------------------- MODULE AliasPreflight -----------------------------
(***************************************************************************)
(* The alias checks the two tools make before they touch the disk,         *)
(* rejectAliasedBuilderPaths (cmd/legacy-filter-builder/main.go) and       *)
(* rejectAliasedPaths (internal/ruleset/ruleset.go), followed by what      *)
(* each tool then does to the file tree at those paths, in its order.      *)
(*                                                                         *)
(* A file is known by its inode, and the inode of a file a tool creates    *)
(* is named for its role. text[i] says who has last written inode i.       *)
(***************************************************************************)
EXTENDS FileTree, FiniteSets

CONSTANTS Trees,       \* the file trees to start with
          Arguments,   \* the arguments the tools may be given
          UserFiles,   \* inodes in those trees
          ShortPaths   \* paths ResolveAgrees looks at

ASSUME TreesAssumption == (\A t \in Trees : Tree(t)) /\ ShortPaths \subseteq Paths

\* Empty arguments are <<"">>, as custom, cacheDir, summaryPath and the log may be.
None == <<"">>

ASSUME ArgumentsAssumption ==
  /\ {"sort", "raw", "rejected", "rejected-custom", "source", "chunk"} \subseteq Names
  /\ \A a \in Arguments :
       IF a.tool = "builder"
       THEN /\ {a.sources, a.output, a.buildDir} \subseteq Paths
            /\ {a.custom, a.cacheDir, a.summary} \subseteq Paths \cup {None}
       ELSE {a.input, a.output, a.converter} \subseteq Paths /\ a.log \in Paths \cup {None}

Roles == {"summary", "source", "chunk", "report", "custom report", "output", "log"}

VARIABLES fs,    \* the tree
          text,  \* text[i]: whose data inode i holds
          args,  \* the arguments of the tool that runs
          todo,  \* the effects it has still to make
          pc,
          before \* the tree as it was before the tool ran (history)

vars == <<fs, text, args, todo, pc, before>>

NoArguments == [tool |-> "none"]

Init == /\ fs \in Trees
        /\ text = [i \in UserFiles \cup Roles |-> i]
        /\ args = NoArguments
        /\ todo = <<>>
        /\ pc = "idle"
        /\ before = fs

-------------------------------------------------------------------------------
(* The builder                                                             *)

\* filepath.Join cleans what it joins.
Join(dir, name) == Clean(Append(dir, name))

SortDir(a) == Join(a.buildDir, "sort")
RawDir(a) == Join(a.buildDir, "raw")
Report(a) == Join(a.buildDir, "rejected")
CustomReport(a) == Join(a.buildDir, "rejected-custom")

Input(path) == [path |-> path, generated |-> FALSE, ownsTree |-> FALSE, allowSymlink |-> FALSE]
Generated(path) == [Input(path) EXCEPT !.generated = TRUE]
Owned(path) == [Generated(path) EXCEPT !.ownsTree = TRUE]

Given(path, entries) == IF path = None THEN <<>> ELSE entries

BuilderPaths(a) ==
  <<Input(a.sources)>> \o Given(a.custom, <<Input(a.custom)>>)
    \o <<Generated(a.output), Owned(SortDir(a))>>
    \o (IF a.cacheDir = None THEN <<Owned(RawDir(a))>>
        ELSE <<[Owned(a.cacheDir) EXCEPT !.allowSymlink = TRUE]>>)
    \o Given(a.summary, <<Generated(a.summary)>>)
    \o <<Generated(Report(a))>> \o Given(a.custom, <<Generated(CustomReport(a))>>)

\* A generated leaf that exists is of the right kind and no link, the cache apart.
LeafOk(p) ==
  LET l == Lstat(fs, p.path)
      place == IF l.is = "link" /\ p.allowSymlink THEN Stat(fs, p.path) ELSE l
  IN  /\ l.is # "error"
      /\ Exists(l) => place.is = IF p.ownsTree THEN "dir" ELSE "file"

\* Faulty variant: different names are different files.
SameName(p, q) == p = q

\* os.SameFile: hard links have one inode.
SameFile(p, q) == LET a == Stat(fs, p)
                      b == Stat(fs, q)
                  IN  /\ Exists(a) /\ Exists(b)
                      /\ a.at = b.at \/ (a.is = "file" /\ fs[a.at] = fs[b.at])

\* Faulty variant: a path below an owned directory is not looked for.
CollideAtLeaf(p, q, i, j) == p = q \/ SameFile(p, q)

Collide(p, q, i, j) ==
  \/ p = q
  \/ i.ownsTree /\ IsPrefix(p, q)
  \/ j.ownsTree /\ IsPrefix(q, p)
  \/ SameFile(p, q)

\* rejectAliasedBuilderPaths returns nil.
BuilderPreflight(a) ==
  LET ps == BuilderPaths(a)
      at == [i \in DOMAIN ps |-> Resolve(fs, ps[i].path)]
  IN  /\ \A i \in DOMAIN ps : /\ ps[i].generated => LeafOk(ps[i])
                              /\ at[i] # Failed /\ Stat(fs, at[i]).is # "error"
      /\ Stat(fs, at[1]).is \notin {"dir"}
      /\ \A i, j \in DOMAIN ps :
           i < j /\ (ps[i].generated \/ ps[j].generated) => ~Collide(at[i], at[j], ps[i], ps[j])

\* One effect: what is done at a path, and by which file.
Do(what, path, role) == [what |-> what, path |-> path, role |-> role]

DownloadDir(a) == IF a.cacheDir = None THEN RawDir(a) ELSE a.cacheDir

\* The rules fit one chunk, which Finish writes.
BuilderEffects(a) ==
  Given(a.summary, <<Do("unlink", a.summary, "summary")>>)
    \o <<Do("mkdir", a.buildDir, "")>>
    \o (IF a.cacheDir = None THEN <<Do("clear", RawDir(a), "")>> ELSE <<>>)
    \o <<Do("mkdir", DownloadDir(a), ""),
         Do("rename", Append(DownloadDir(a), "source"), "source"),
         Do("clear", SortDir(a), ""), Do("mkdir", SortDir(a), ""),
         Do("read", Append(DownloadDir(a), "source"), "source"),
         Do("mkdir", Front(Report(a)), ""), Do("write", Report(a), "report")>>
    \o Given(a.custom, <<Do("read", a.custom, ""), Do("write", CustomReport(a), "custom report")>>)
    \o <<Do("write", Append(SortDir(a), "chunk"), "chunk"),
         Do("mkdir", Front(Clean(a.output)), ""), Do("rename", a.output, "output")>>
    \o Given(a.summary, <<Do("write", a.summary, "summary")>>)
    \o <<Do("clear", SortDir(a), "")>>

-------------------------------------------------------------------------------
(* The converter wrapper                                                   *)

WrapperPaths(a) == <<a.input, a.output, a.converter>> \o Given(a.log, <<a.log>>)

LogLeafOk(log) == Lstat(fs, log).is \notin {"link", "error"}

\* rejectAliasedPaths returns nil, and the log's leaf is not a link.
WrapperPreflight(a) ==
  LET ps == WrapperPaths(a)
      at == [i \in DOMAIN ps |-> Resolve(fs, ps[i])]
  IN  /\ \A i \in DOMAIN ps : at[i] # Failed /\ Stat(fs, at[i]).is # "error"
      /\ Stat(fs, at[1]).is = "file"
      /\ \A i, j \in DOMAIN ps : i < j => at[i] # at[j] /\ ~SameFile(at[i], at[j])
      /\ a.log # None => LogLeafOk(a.log)

WrapperEffects(a) ==
  <<Do("mkdir", Front(Clean(a.output)), "")>>
    \o Given(a.log, <<Do("mkdir", Front(Clean(a.log)), ""), Do("write", a.log, "log")>>)
    \o <<Do("read", a.converter, ""), Do("read", a.input, ""), Do("rename", a.output, "output")>>

-------------------------------------------------------------------------------
(* Both                                                                    *)

Inputs(a) == IF a.tool = "builder" THEN {a.sources} \cup ({a.custom} \ {None})
                                   ELSE {a.input, a.converter}

\* URLsFromFile, os.Stat and exec.LookPath open the inputs first, apart from
\* the wrapper's list, which the preflight looks at.
Opened(a) == \A path \in Inputs(a) : Stat(fs, path).is = "file"
Passes(a) == /\ Opened(a)
             /\ IF a.tool = "builder" THEN BuilderPreflight(a) ELSE WrapperPreflight(a)

Refuse(a) == /\ pc = "idle" /\ ~Passes(a)
             /\ pc' = "refused"
             /\ UNCHANGED <<fs, text, args, todo, before>>

Start(a) ==
  /\ pc = "idle" /\ Passes(a)
  /\ args' = a /\ pc' = "running"
  /\ todo' = IF a.tool = "builder" THEN BuilderEffects(a) ELSE WrapperEffects(a)
  /\ UNCHANGED <<fs, text, before>>

Effect(what) == pc = "running" /\ todo # <<>> /\ Head(todo).what = what
There == Stat(fs, Head(todo).path)
Leaf == Lstat(fs, Head(todo).path)
Role == Head(todo).role
Goes == todo' = Tail(todo) /\ UNCHANGED <<args, pc, before>>

\* A file with no name but this one: what the tool creates.
Create(at) == /\ fs' = With(fs, at, File(Role))
              /\ text' = [text EXCEPT ![Role] = Role]

\* os.MkdirAll.
MakeDirs == /\ Effect("mkdir")
            /\ fs' = WithDirs(fs, Head(todo).path) /\ Stat(fs', Head(todo).path).is = "dir"
            /\ Goes /\ UNCHANGED text

\* os.RemoveAll of a directory the tool owns.
ClearTree == /\ Effect("clear") /\ Leaf.is # "error"
             /\ fs' = Without(fs, Below(fs, Leaf.at))
             /\ Goes /\ UNCHANGED text

\* clearStaleSummary.
Unlink == /\ Effect("unlink") /\ Leaf.is \in {"file", "free", "none"}
          /\ fs' = Without(fs, {Leaf.at})
          /\ Goes /\ UNCHANGED text

\* os.Create and os.WriteFile follow links and keep the inode that is there.
Write == /\ Effect("write")
         /\ \/ There.is = "free" /\ Create(There.at)
            \/ /\ There.is = "file" /\ UNCHANGED fs
               /\ text' = [text EXCEPT ![fs[There.at].inode] = Role]
         /\ Goes

\* A temporary file is renamed over the leaf, a link included.
Rename == /\ Effect("rename") /\ Leaf.is \in {"file", "link", "free"}
          /\ Create(Leaf.at)
          /\ Goes

Read == Effect("read") /\ There.is = "file" /\ Goes /\ UNCHANGED <<fs, text>>

Possible == LET e == Head(todo) IN
  CASE e.what = "mkdir"  -> Stat(WithDirs(fs, e.path), e.path).is = "dir"
    [] e.what = "clear"  -> Leaf.is # "error"
    [] e.what = "unlink" -> Leaf.is \in {"file", "free", "none"}
    [] e.what = "write"  -> There.is \in {"file", "free"}
    [] e.what = "rename" -> Leaf.is \in {"file", "link", "free"}
    [] e.what = "read"   -> There.is = "file"

\* The removal of the sort directory is deferred once that has been cleared.
Cleared(a) == Cardinality({i \in DOMAIN todo : todo[i] = Do("clear", SortDir(a), "")}) = 1

\* The first error ends the run.
Fails == /\ pc = "running" /\ todo # <<>> /\ ~Possible
         /\ pc' = "failed"
         /\ fs' = IF args.tool = "builder" /\ Cleared(args)
                  THEN Without(fs, Below(fs, SortDir(args))) ELSE fs
         /\ todo' = <<>>
         /\ UNCHANGED <<text, args, before>>

Ends == /\ pc = "running" /\ todo = <<>>
        /\ pc' = "done"
        /\ UNCHANGED <<fs, text, args, todo, before>>

Finished == pc \in {"refused", "failed", "done"} /\ UNCHANGED vars

Next == \/ \E a \in Arguments : Refuse(a) \/ Start(a)
        \/ MakeDirs \/ ClearTree \/ Unlink \/ Write \/ Rename \/ Read
        \/ Fails \/ Ends \/ Finished

Spec == Init /\ [][Next]_vars

-------------------------------------------------------------------------------
(* Properties                                                              *)

\* The tree stays one, whatever the tools create, clear and rename.
TypeOK ==
  /\ Tree(fs)
  /\ text \in [UserFiles \cup Roles -> UserFiles \cup Roles]
  /\ args \in Arguments \cup {NoArguments}
  /\ pc \in {"idle", "refused", "running", "failed", "done"}
  /\ Tree(before)

\* Where the kernel finds or would create a file, Resolve says it is; what it
\* says needs no resolving again (path.go:14-19).
ResolveAgrees ==
  pc = "idle" =>
    \A path \in ShortPaths :
      LET place == Stat(fs, path)
          r == Resolve(fs, path)
      IN  /\ place.is \in {"file", "dir", "free"} => r = place.at
          /\ r # Failed => Resolve(fs, r) = r

Ran == pc \in {"running", "failed", "done"}

\* The inputs lie where they did, and nobody has written into them.
InputsUnharmed ==
  Ran => \A path \in Inputs(args) :
           LET at == Stat(before, path).at
           IN  /\ at \in DOMAIN fs /\ fs[at] = before[at]
               /\ text[before[at].inode] = before[at].inode

\* What each tool leaves at the paths of its outputs.
Products(a) == IF a.tool = "builder"
               THEN {<<a.output, "output">>, <<a.summary, "summary">>, <<Report(a), "report">>,
                     <<CustomReport(a), "custom report">>,
                     <<Append(DownloadDir(a), "source"), "source">>}
               ELSE {<<a.output, "output">>, <<a.log, "log">>}

\* A run that ends well leaves at each of these paths what it made for it.
ProductsWhole ==
  pc = "done" =>
    \A p \in Products(args) :
      p[1] # None /\ ~(p[2] = "custom report" /\ args.custom = None) =>
        LET place == Stat(fs, p[1])
        IN  place.is = "file" /\ text[fs[place.at].inode] = p[2]

\* The preflight "prevents generated files from overwriting inputs and prevents
\* output, summary, and rejected-report paths from colliding" (main.go:238-240), so
\* a run that ends well has harmed no input and left every product whole, whatever
\* its arguments. This is not so when LinksStay is not.
PreflightPrevents == pc = "done" => InputsUnharmed /\ ProductsWhole

\* The links in the directories that the run clears.
ClearedLinks ==
  {at \in DOMAIN before :
     /\ before[at].kind = "link"
     /\ args.tool = "builder"
     /\ \E dir \in {SortDir(args)} \cup (IF args.cacheDir = None THEN {RawDir(args)} ELSE {}) :
          IsPrefix(Resolve(before, dir), at)}

\* The link that an output replaces; the builder's is none, after its preflight.
ReplacedLinks == {at \in DOMAIN before : Lstat(before, args.output) = [is |-> "link", at |-> at]}

\* The paths that the tool was given, or derives, and uses after those are gone.
UsedPaths == IF args.tool = "builder" THEN {p.path : p \in ToSet(BuilderPaths(args))}
                                      ELSE {args.log} \ {None}

\* No path of the run is named through a link that the run itself removes, or it
\* leads nowhere else without the link. The preflights compare what paths resolve to
\* at the start, and do not look for such links.
LinksStay ==
  \A path \in UsedPaths :
    Resolve(Without(before, ClearedLinks \cup ReplacedLinks), path) = Resolve(before, path)

\* After a preflight that passed, and if no path is named through a link that the
\* run removes, no effect of a tool writes to an input nor takes it from where
\* it lies, whatever other links and hard links lead there (main.go:238-240,
\* ruleset.go:28-77).
InputsSurvive == Ran /\ LinksStay => InputsUnharmed

\* A tree stays a tree, and no tool harms its inputs.
Inv == TypeOK /\ InputsSurvive

\* On the same condition, a run that ends well leaves each product whole: none was
\* written into, renamed over or cleared with another (main.go:324-346).
ProductsKeptApart == Ran /\ LinksStay => ProductsWhole
===============================================================================
