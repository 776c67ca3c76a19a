-------------------------------- MODULE FileTree --------------------------------
(***************************************************************************)
(* pathutil.Resolve (internal/pathutil/path.go) over a small file tree,    *)
(* and what the kernel and the os package do to one.                       *)
(*                                                                         *)
(* A tree is a function from the locations that exist, sequences of names  *)
(* with <<>> the root, to a directory, a file (known by its inode) or a    *)
(* symbolic link. A path is absolute and may have "." and ".." in it.      *)
(***************************************************************************)
EXTENDS Integers, Sequences, SequencesExt

CONSTANTS Names,         \* names of directory entries
          KernelLinks,   \* links the kernel follows in one lookup
          ResolveLinks   \* links Resolve follows

ASSUME LinkAssumption ==
  /\ Names \cap {".", ".."} = {}
  /\ KernelLinks \in Nat /\ ResolveLinks \in Nat /\ KernelLinks <= ResolveLinks

Dir == [kind |-> "dir"]
File(inode) == [kind |-> "file", inode |-> inode]
Link(abs, to) == [kind |-> "link", abs |-> abs, to |-> to]

Locations == Seq(Names)
Paths == Seq(Names \cup {".", ".."})

Parent(at) == IF at = <<>> THEN <<>> ELSE Front(at)

\* Every entry lies in a directory, the root is one, and links have targets.
Tree(t) ==
  /\ DOMAIN t \subseteq Locations
  /\ <<>> \in DOMAIN t /\ t[<<>>].kind = "dir"
  /\ \A at \in DOMAIN t \ {<<>>} : Parent(at) \in DOMAIN t /\ t[Parent(at)].kind = "dir"
  /\ \A at \in DOMAIN t : /\ t[at].kind \in {"dir", "file", "link"}
                          /\ t[at].kind = "link" => t[at].to \in Paths

-------------------------------------------------------------------------------
(* The kernel                                                              *)

\* Where a path leads: "free" is a name not taken in a directory that exists,
\* "none" a name below one that does not, "error" a loop or a file with
\* something below it. The last link is followed on demand.
Walk(fs, path, follow) ==
  LET step[s \in [at : Locations, parts : Paths, links : 0..KernelLinks]] ==
        LET rest == Tail(s.parts)
            name == Head(s.parts)
            c == Append(s.at, name)
        IN  IF s.parts = <<>> THEN [is |-> fs[s.at].kind, at |-> s.at]
            ELSE IF fs[s.at].kind # "dir" THEN [is |-> "error", at |-> s.at]
            ELSE IF name = "." THEN step[[s EXCEPT !.parts = rest]]
            ELSE IF name = ".." THEN step[[s EXCEPT !.parts = rest, !.at = Parent(@)]]
            ELSE IF c \notin DOMAIN fs
                 THEN [is |-> IF rest = <<>> THEN "free" ELSE "none", at |-> c]
            ELSE IF fs[c].kind # "link" THEN step[[s EXCEPT !.parts = rest, !.at = c]]
            ELSE IF rest = <<>> /\ ~follow THEN [is |-> "link", at |-> c]
            ELSE IF s.links = KernelLinks THEN [is |-> "error", at |-> c]
            ELSE step[[at |-> IF fs[c].abs THEN <<>> ELSE s.at,
                       parts |-> fs[c].to \o rest, links |-> s.links + 1]]
  IN  step[[at |-> <<>>, parts |-> path, links |-> 0]]

Stat(fs, path) == Walk(fs, path, TRUE)
Lstat(fs, path) == Walk(fs, path, FALSE)
Exists(place) == place.is \in {"file", "dir", "link"}

\* filepath.Clean, which knows nothing of links.
Clean(path) ==
  LET clean[n \in 0..Len(path)] ==
        IF n = 0 THEN <<>>
        ELSE IF path[n] = "." THEN clean[n - 1]
        ELSE IF path[n] = ".." THEN Parent(clean[n - 1])
        ELSE Append(clean[n - 1], path[n])
  IN  clean[Len(path)]

\* An entry made, or put in place of another.
With(fs, at, entry) == [c \in DOMAIN fs \cup {at} |-> IF c = at THEN entry ELSE fs[c]]

\* os.MkdirAll of a clean path: each missing directory; the same tree on failure.
WithDirs(fs, path) ==
  LET made[n \in 0..Len(path)] ==
        IF n = 0 THEN fs
        ELSE LET p == Stat(made[n - 1], SubSeq(path, 1, n))
             IN  IF p.is = "free" THEN With(made[n - 1], p.at, Dir) ELSE made[n - 1]
  IN  made[Len(path)]

Without(fs, gone) == [at \in DOMAIN fs \ gone |-> fs[at]]

Below(fs, at) == {c \in DOMAIN fs : IsPrefix(at, c)}

-------------------------------------------------------------------------------
(* Resolve                                                                 *)

Failed == <<"error">>

\* Faulty variant: an absolute target is taken from the directory of the link.
RestartHere(s, link) == [s EXCEPT !.parts = link.to \o @, !.links = @ + 1]

\* The target takes the place of the link: from the root, or from its directory.
Restart(s, link) == [s EXCEPT !.parts = link.to \o @, !.links = @ + 1,
                              !.resolved = IF link.abs THEN <<>> ELSE @]

\* ".." cancels a missing component, or goes to the parent of what is resolved.
DotDot(s) == IF s.unresolved # <<>> THEN [s EXCEPT !.unresolved = Front(@)]
                                    ELSE [s EXCEPT !.resolved = Parent(@)]

\* An absolute path without links; components that do not exist are kept.
Resolve(fs, path) ==
  LET step[s \in [resolved : Locations, unresolved : Locations, parts : Paths,
                  links : 0..ResolveLinks]] ==
        LET name == Head(s.parts)
            next == [s EXCEPT !.parts = Tail(@)]
            c == Append(s.resolved, name)
        IN  IF s.parts = <<>> THEN s.resolved \o s.unresolved
            ELSE IF name = "." THEN step[next]
            ELSE IF name = ".." THEN step[DotDot(next)]
            ELSE IF s.unresolved # <<>> THEN step[[next EXCEPT !.unresolved = Append(@, name)]]
            ELSE IF fs[s.resolved].kind # "dir" THEN Failed
            ELSE IF c \notin DOMAIN fs THEN step[[next EXCEPT !.unresolved = <<name>>]]
            ELSE IF fs[c].kind # "link" THEN step[[next EXCEPT !.resolved = c]]
            ELSE IF s.links = ResolveLinks THEN Failed
            ELSE step[Restart(next, fs[c])]
  IN  step[[resolved |-> <<>>, unresolved |-> <<>>, parts |-> path, links |-> 0]]
===============================================================================
