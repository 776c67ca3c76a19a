-------------------------- MODULE AliasPreflightProofs --------------------------
(***************************************************************************)
(* Proofs about pathutil.Resolve and the preflights, for every tree, every *)
(* path and all arguments. Resolve finds what the kernel finds, follows    *)
(* every link there is, and leaves nothing to resolve; so paths that pass  *)
(* a preflight are apart in the tree itself; and a tree stays one,         *)
(* whatever the tools do to it.                                            *)
(*                                                                         *)
(* Both lookups are recursive and may go round a loop of links: that the   *)
(* recursions mean something, and end, is the first thing to show.         *)
(***************************************************************************)
EXTENDS AliasPreflight, FoundationProofs, SequenceTheorems, TLAPS
-------------------------------------------------------------------------------
(* Recursion                                                               *)

\* A set of numbers that is not empty has a least one.
LEMMA LeastNumber ==
  ASSUME NEW S \in SUBSET Nat, S # {}
  PROVE  \E m \in S : \A n \in S : m <= n
<1>1. SUFFICES ASSUME \A m \in S : \E n \in S : n < m PROVE FALSE
  OBVIOUS
<1> DEFINE T == {n \in Nat : \A k \in S : n <= k}
<1>2. 0 \in T
  OBVIOUS
<1>3. ASSUME NEW n \in T PROVE n + 1 \in T
  <2>1. ASSUME NEW k \in S PROVE n + 1 <= k
    <3>1. n <= k /\ n \in Nat /\ k \in Nat
      BY <1>3, <2>1
    <3>2. n # k
      <4>1. SUFFICES ASSUME n = k PROVE FALSE
        OBVIOUS
      <4>2. PICK l \in S : l < k
        BY <1>1, <2>1
      <4>3. n <= l /\ l \in Nat
        BY <1>3, <4>2
      <4>4. QED  BY <3>1, <4>1, <4>2, <4>3
    <3>3. QED  BY <3>1, <3>2
  <2>2. QED  BY <1>3, <2>1
<1>4. T = Nat
  <2> HIDE DEF T
  <2>1. T \in SUBSET Nat
    BY DEF T
  <2>2. QED  BY <1>2, <1>3, <2>1, NatClosure
<1>5. PICK k \in S : TRUE
  BY <1>1
<1>6. k + 1 \in T /\ k \in Nat
  <2> HIDE DEF T
  <2>1. QED  BY <1>4
<1>7. QED  BY <1>6

\* The order by a, or else by b; G holds of s when it holds of all before s.
Earlier(a, b, t, s) == a[t] < a[s] \/ (a[t] = a[s] /\ b[t] < b[s])
Inductive(D, G, a, b) == \A s \in D : (\A t \in D : Earlier(a, b, t, s) => t \in G) => s \in G

\* Such a G holds of everything.
LEMMA LookupInduction ==
  ASSUME NEW D, NEW G, NEW a \in [D -> Nat], NEW b \in [D -> Nat], Inductive(D, G, a, b)
  PROVE  \A s \in D : s \in G
<1> DEFINE B == {s \in D : s \notin G}
<1>1. SUFFICES ASSUME B # {} PROVE FALSE
  OBVIOUS
<1> DEFINE A == {a[s] : s \in B}
<1>2. PICK m \in A : \A n \in A : m <= n
  <2>1. A \in SUBSET Nat /\ A # {}
    BY <1>1
  <2> HIDE DEF A
  <2>2. QED  BY <2>1, LeastNumber
<1> DEFINE C == {b[s] : s \in {u \in B : a[u] = m}}
<1>3. PICK n \in C : \A k \in C : n <= k
  <2>1. C \in SUBSET Nat /\ C # {}
    BY <1>2
  <2> HIDE DEF C
  <2>2. QED  BY <2>1, LeastNumber
<1>4. PICK s \in B : a[s] = m /\ b[s] = n
  BY <1>3
<1>5. ASSUME NEW t \in D, Earlier(a, b, t, s) PROVE t \in G
  <2>1. SUFFICES ASSUME t \in B PROVE FALSE
    OBVIOUS
  <2>2. a[t] \in Nat /\ b[t] \in Nat /\ a[s] \in Nat /\ b[s] \in Nat
    BY <1>4, <1>5
  <2>3. m <= a[t]
    BY <1>2, <2>1
  <2>4. a[t] = m => n <= b[t]
    BY <1>3, <2>1
  <2>5. QED  BY <1>4, <1>5, <2>2, <2>3, <2>4 DEF Earlier
<1>6. QED  BY <1>4, <1>5 DEF Inductive

\* A way from s that stops after n steps.
Way(D, Stop, next, s, n, f) ==
  /\ f \in [0..n -> D] /\ f[0] = s /\ f[n] \in Stop
  /\ \A i \in 0..(n - 1) : f[i] \notin Stop /\ f[i + 1] = next[f[i]]
Stops(D, Stop, next, s) ==
  {t \in Stop : \E n \in Nat : \E f : Way(D, Stop, next, s, n, f) /\ f[n] = t}

\* g is the function that returns out[s] where it stops and calls itself at next[s].
Solves(g, D, Stop, next, out) ==
  /\ g = [s \in D |-> g[s]]
  /\ \A s \in D : g[s] = IF s \in Stop THEN out[s] ELSE g[next[s]]

\* A function that only calls itself last exists, whether or not it always ends.
LEMMA TailRecursion ==
  ASSUME NEW D, NEW Stop, NEW next, NEW out, \A s \in D : s \notin Stop => next[s] \in D
  PROVE  \E g : Solves(g, D, Stop, next, out)
<1> DEFINE E(s) == Stops(D, Stop, next, s)
<1>1. ASSUME NEW s \in D, s \in Stop PROVE E(s) = {s}
  <2>1. ASSUME NEW t \in E(s) PROVE t = s
    <3>0. PICK n \in Nat : \E f : Way(D, Stop, next, s, n, f) /\ f[n] = t
      BY <2>1 DEF Stops
    <3>1. PICK f : Way(D, Stop, next, s, n, f) /\ f[n] = t
      BY <3>0
    <3>2. n = 0
      BY <1>1, <3>1 DEF Way
    <3>3. QED  BY <3>1, <3>2 DEF Way
  <2>2. s \in E(s)
    <3> DEFINE f == [i \in 0..0 |-> s]
    <3>1. Way(D, Stop, next, s, 0, f) /\ f[0] = s
      BY <1>1 DEF Way
    <3>2. QED  BY <1>1, <3>1 DEF Stops
  <2>3. QED  BY <2>1, <2>2
<1>2. ASSUME NEW s \in D, s \notin Stop PROVE E(s) = E(next[s])
  <2>1. ASSUME NEW t \in E(s) PROVE t \in E(next[s])
    <3>0. PICK n \in Nat : \E f : Way(D, Stop, next, s, n, f) /\ f[n] = t
      BY <2>1 DEF Stops
    <3>1. PICK f : Way(D, Stop, next, s, n, f) /\ f[n] = t
      BY <3>0
    <3>2. n # 0 /\ n - 1 \in Nat /\ 0 \in 0..(n - 1) /\ (n - 1) + 1 = n
      BY <1>2, <3>1 DEF Way
    <3> DEFINE g == [i \in 0..(n - 1) |-> f[i + 1]]
    <3>3. /\ f \in [0..n -> D] /\ f[0] = s /\ f[n] \in Stop
          /\ \A i \in 0..(n - 1) : f[i] \notin Stop /\ f[i + 1] = next[f[i]]
      BY <3>1 DEF Way
    <3>4. g \in [0..(n - 1) -> D]
      BY <3>2, <3>3
    <3>5. g[0] = next[s] /\ g[n - 1] = f[n]
      <4>1. f[0 + 1] = next[f[0]]
        BY <3>2, <3>3
      <4>2. QED  BY <3>2, <3>3, <4>1
    <3>6. ASSUME NEW i \in 0..((n - 1) - 1) PROVE g[i] \notin Stop /\ g[i + 1] = next[g[i]]
      <4>1. i + 1 \in 0..(n - 1) /\ i \in 0..(n - 1)
        BY <3>2
      <4>2. QED  BY <3>3, <4>1
    <3>7. Way(D, Stop, next, next[s], n - 1, g)
      BY <3>3, <3>4, <3>5, <3>6 DEF Way
    <3> HIDE DEF g
    <3>8. QED  BY <3>1, <3>2, <3>3, <3>5, <3>7 DEF Stops
  <2>2. ASSUME NEW t \in E(next[s]) PROVE t \in E(s)
    <3>0. PICK n \in Nat : \E f : Way(D, Stop, next, next[s], n, f) /\ f[n] = t
      BY <2>2 DEF Stops
    <3>1. PICK f : Way(D, Stop, next, next[s], n, f) /\ f[n] = t
      BY <3>0
    <3> DEFINE g == [i \in 0..(n + 1) |-> IF i = 0 THEN s ELSE f[i - 1]]
    <3>2. /\ f \in [0..n -> D] /\ f[0] = next[s] /\ f[n] \in Stop
          /\ \A i \in 0..(n - 1) : f[i] \notin Stop /\ f[i + 1] = next[f[i]]
      BY <3>1 DEF Way
    <3>3. g \in [0..(n + 1) -> D]
      BY <1>2, <3>2
    <3>4. g[0] = s /\ g[n + 1] = f[n]
      BY <3>2
    <3>5. ASSUME NEW i \in 0..((n + 1) - 1) PROVE g[i] \notin Stop /\ g[i + 1] = next[g[i]]
      <4>1. CASE i = 0
        BY <1>2, <3>2, <4>1
      <4>2. CASE i # 0
        <5>1. i - 1 \in 0..(n - 1) /\ (i - 1) + 1 = i /\ i + 1 # 0 /\ (i + 1) - 1 = i
          BY <4>2
        <5>2. g[i] = f[i - 1] /\ g[i + 1] = f[i]
          BY <4>2, <5>1
        <5>3. f[i - 1] \notin Stop /\ f[(i - 1) + 1] = next[f[i - 1]]
          BY <3>2, <5>1
        <5>4. QED  BY <5>1, <5>2, <5>3
      <4>3. QED  BY <4>1, <4>2
    <3>6. Way(D, Stop, next, s, n + 1, g)
      BY <3>2, <3>3, <3>4, <3>5 DEF Way
    <3> HIDE DEF g
    <3>7. n + 1 \in Nat
      OBVIOUS
    <3>8. QED  BY <3>1, <3>2, <3>4, <3>6, <3>7 DEF Stops
  <2>3. QED  BY <2>1, <2>2
<1> HIDE DEF E
<1> DEFINE g == [s \in D |-> out[CHOOSE t : t \in E(s)]]
<1>3. ASSUME NEW s \in D PROVE g[s] = IF s \in Stop THEN out[s] ELSE g[next[s]]
  <2>1. CASE s \in Stop
    BY <1>1, <2>1
  <2>2. CASE s \notin Stop
    BY <1>2, <2>2
  <2>3. QED  BY <2>1, <2>2
<1>4. g = [s \in D |-> g[s]]
  OBVIOUS
<1> HIDE DEF g
<1>5. Solves(g, D, Stop, next, out)
  BY <1>3, <1>4 DEF Solves
<1>6. QED  BY <1>5

-------------------------------------------------------------------------------
(* The kernel's lookup                                                     *)

Components == Names \cup {".", ".."}
WalkState(at, parts, links) == [at |-> at, parts |-> parts, links |-> links]
WalkStates == [at : Locations, parts : Paths, links : 0..KernelLinks]

\* Where the lookup stops, and where it goes otherwise.
WalkStops(t, follow, s) ==
  LET c == Append(s.at, Head(s.parts))
  IN  \/ s.parts = <<>>
      \/ t[s.at].kind # "dir"
      \/ /\ Head(s.parts) \notin {".", ".."}
         /\ \/ c \notin DOMAIN t
            \/ /\ t[c].kind = "link"
               /\ (Tail(s.parts) = <<>> /\ ~follow) \/ s.links = KernelLinks
WalkGoes(t, s) ==
  LET rest == Tail(s.parts)
      c == Append(s.at, Head(s.parts))
  IN  IF Head(s.parts) = "." THEN WalkState(s.at, rest, s.links)
      ELSE IF Head(s.parts) = ".." THEN WalkState(Parent(s.at), rest, s.links)
      ELSE IF t[c].kind # "link" THEN WalkState(c, rest, s.links)
      ELSE WalkState(IF t[c].abs THEN <<>> ELSE s.at, t[c].to \o rest, s.links + 1)

\* The body of the recursion, calling g.
WalkBody(t, follow, g, s) ==
  LET rest == Tail(s.parts)
      name == Head(s.parts)
      c == Append(s.at, name)
  IN  IF s.parts = <<>> THEN [is |-> t[s.at].kind, at |-> s.at]
      ELSE IF t[s.at].kind # "dir" THEN [is |-> "error", at |-> s.at]
      ELSE IF name = "." THEN g[[s EXCEPT !.parts = rest]]
      ELSE IF name = ".." THEN g[[s EXCEPT !.parts = rest, !.at = Parent(@)]]
      ELSE IF c \notin DOMAIN t
           THEN [is |-> IF rest = <<>> THEN "free" ELSE "none", at |-> c]
      ELSE IF t[c].kind # "link" THEN g[[s EXCEPT !.parts = rest, !.at = c]]
      ELSE IF rest = <<>> /\ ~follow THEN [is |-> "link", at |-> c]
      ELSE IF s.links = KernelLinks THEN [is |-> "error", at |-> c]
      ELSE g[[at |-> IF t[c].abs THEN <<>> ELSE s.at,
              parts |-> t[c].to \o rest, links |-> s.links + 1]]

\* Taking a path apart.
LEMMA PathTaken ==
  ASSUME NEW parts \in Paths, parts # <<>>
  PROVE  /\ Head(parts) \in Components /\ Tail(parts) \in Paths
         /\ Len(Tail(parts)) = Len(parts) - 1 /\ Len(parts) \in Nat
         /\ Head(parts) \notin {".", ".."} => Head(parts) \in Names
BY HeadTailProperties, LenProperties DEF Paths, Components

\* Locations that a lookup comes to.
LEMMA LocationsAre ==
  /\ \A at \in Locations : Parent(at) \in Locations
  /\ \A at \in Locations, name \in Names : Append(at, name) \in Locations
  /\ <<>> \in Locations
<1>1. ASSUME NEW at \in Locations PROVE Parent(at) \in Locations
  <2>1. CASE at = <<>>
    BY <2>1 DEF Parent
  <2>2. CASE at # <<>>
    <3>1. at \in Seq(Names) /\ Len(at) \in Nat /\ Len(at) # 0
      BY <2>2, LenProperties, EmptySeq DEF Locations
    <3>2. Parent(at) = SubSeq(at, 1, Len(at) - 1)
      BY <2>2 DEF Parent, Front
    <3>3. SubSeq(at, 1, Len(at) - 1) \in Seq(Names)
      BY <3>1, SubSeqProperties
    <3>4. QED  BY <3>2, <3>3 DEF Locations
  <2>3. QED  BY <2>1, <2>2
<1>2. QED  BY <1>1, AppendProperties, EmptySeq DEF Locations

\* What updating one field gives.
LEMMA WalkUpdates ==
  ASSUME NEW at, NEW parts, NEW links, NEW x, NEW s, s = WalkState(at, parts, links)
  PROVE  /\ [s EXCEPT !.at = x] = WalkState(x, parts, links)
         /\ [s EXCEPT !.parts = x] = WalkState(at, x, links)
         /\ s.at = at /\ s.parts = parts /\ s.links = links
<1>1. [[at |-> at, parts |-> parts, links |-> links] EXCEPT !.at = x]
        = [at |-> x, parts |-> parts, links |-> links]
  OBVIOUS
<1>2. [[at |-> at, parts |-> parts, links |-> links] EXCEPT !.parts = x]
        = [at |-> at, parts |-> x, links |-> links]
  OBVIOUS
<1>3. s.at = at /\ s.parts = parts /\ s.links = links
  BY DEF WalkState
<1>4. QED  BY <1>1, <1>2, <1>3, Zenon DEF WalkState

\* The body calls g where the lookup goes, and stops where it stops.
LEMMA WalkBodyIs ==
  ASSUME NEW t, NEW follow, NEW g, NEW s \in WalkStates
  PROVE  /\ ~WalkStops(t, follow, s) => WalkBody(t, follow, g, s) = g[WalkGoes(t, s)]
         /\ WalkStops(t, follow, s) => \A h : WalkBody(t, follow, g, s) = WalkBody(t, follow, h, s)
<1> DEFINE rest == Tail(s.parts)
           c == Append(s.at, Head(s.parts))
           up == Parent(s.at)
<1>1. s = WalkState(s.at, s.parts, s.links)
  BY DEF WalkStates, WalkState
<1>2. /\ [s EXCEPT !.parts = rest] = WalkState(s.at, rest, s.links)
      /\ [s EXCEPT !.parts = rest, !.at = Parent(@)] = WalkState(Parent(s.at), rest, s.links)
      /\ [s EXCEPT !.parts = rest, !.at = c] = WalkState(c, rest, s.links)
  <2>1. [s EXCEPT !.parts = rest, !.at = Parent(@)]
          = [[s EXCEPT !.parts = rest] EXCEPT !.at = up]
    BY <1>1
  <2>2. [s EXCEPT !.parts = rest, !.at = c] = [[s EXCEPT !.parts = rest] EXCEPT !.at = c]
    OBVIOUS
  <2> HIDE DEF rest, c, up
  <2>3. [s EXCEPT !.parts = rest] = WalkState(s.at, rest, s.links)
    <3> DEFINE at == s.at
               parts == s.parts
               links == s.links
    <3>1. s = WalkState(at, parts, links)
      BY <1>1
    <3> HIDE DEF at, parts, links
    <3>2. [s EXCEPT !.parts = rest] = WalkState(at, rest, links)
      BY <3>1, WalkUpdates
    <3>3. QED  BY <3>2 DEF at, links
  <2>4. /\ [WalkState(s.at, rest, s.links) EXCEPT !.at = up] = WalkState(up, rest, s.links)
        /\ [WalkState(s.at, rest, s.links) EXCEPT !.at = c] = WalkState(c, rest, s.links)
    BY WalkUpdates
  <2>5. QED  BY <2>1, <2>2, <2>3, <2>4, Zenon DEF up
<1>3. ~WalkStops(t, follow, s) => WalkBody(t, follow, g, s) = g[WalkGoes(t, s)]
  BY <1>2, Zenon DEF WalkStops, WalkBody, WalkGoes, WalkState
<1>4. WalkStops(t, follow, s) => \A h : WalkBody(t, follow, g, s) = WalkBody(t, follow, h, s)
  BY Zenon DEF WalkStops, WalkBody
<1>5. QED  BY <1>3, <1>4

\* In a tree, the lookup stays among its states.
LEMMA WalkGoesOn ==
  ASSUME NEW t, Tree(t), NEW follow, NEW s \in WalkStates, ~WalkStops(t, follow, s)
  PROVE  WalkGoes(t, s) \in WalkStates
<1> DEFINE rest == Tail(s.parts)
           c == Append(s.at, Head(s.parts))
<1>1. s.at \in Locations /\ s.parts \in Paths /\ s.links \in 0..KernelLinks /\ s.parts # <<>>
  BY DEF WalkStates, WalkStops
<1>2. rest \in Paths /\ (Head(s.parts) \notin {".", ".."} => c \in Locations)
  BY <1>1, PathTaken, LocationsAre
<1>3. CASE Head(s.parts) = "."
  BY <1>1, <1>2, <1>3 DEF WalkGoes, WalkState, WalkStates
<1>4. CASE Head(s.parts) = ".."
  <2>1. Parent(s.at) \in Locations
    BY <1>1, LocationsAre
  <2>2. QED  BY <1>1, <1>2, <1>4, <2>1 DEF WalkGoes, WalkState, WalkStates
<1>5. CASE Head(s.parts) \notin {".", ".."} /\ t[c].kind # "link"
  BY <1>1, <1>2, <1>5 DEF WalkGoes, WalkState, WalkStates
<1>6. CASE Head(s.parts) \notin {".", ".."} /\ t[c].kind = "link"
  <2>1. c \in DOMAIN t /\ s.links # KernelLinks
    BY <1>1, <1>6 DEF WalkStops
  <2>2. s.links + 1 \in 0..KernelLinks
    BY <1>1, <2>1, LinkAssumption
  <2>3. t[c].to \o rest \in Paths
    <3>1. t[c].to \in Paths
      BY <1>6, <2>1 DEF Tree
    <3>2. QED  BY <1>2, <3>1, ConcatProperties DEF Paths
  <2> DEFINE from == IF t[c].abs THEN <<>> ELSE s.at
             to == t[c].to \o rest
  <2>4. from \in Locations
    BY <1>1, LocationsAre
  <2>5. WalkGoes(t, s) = WalkState(from, to, s.links + 1)
    BY <1>6 DEF WalkGoes
  <2> HIDE DEF from, to
  <2>6. QED  BY <2>2, <2>3, <2>4, <2>5 DEF WalkState, WalkStates, to
<1>7. QED  BY <1>3, <1>4, <1>5, <1>6

\* g is the recursive function in Walk.
IsWalk(t, follow, g) == \A s \in WalkStates : g[s] = WalkBody(t, follow, g, s)

\* So the recursive function in Walk does what its body says.
LEMMA WalkIs ==
  ASSUME NEW t, Tree(t), NEW follow \in BOOLEAN
  PROVE  \E g : /\ IsWalk(t, follow, g)
                /\ \A path : Walk(t, path, follow) = g[WalkState(<<>>, path, 0)]
<1> DEFINE Body(f) == [s \in WalkStates |-> WalkBody(t, follow, f, s)]
           Stop == {s \in WalkStates : WalkStops(t, follow, s)}
           next == [s \in WalkStates |-> WalkGoes(t, s)]
           out == [s \in WalkStates |-> WalkBody(t, follow, <<>>, s)]
<1>1. PICK f : Solves(f, WalkStates, Stop, next, out)
  <2>1. \A s \in WalkStates : s \notin Stop => next[s] \in WalkStates
    BY WalkGoesOn
  <2> HIDE DEF Stop, next, out
  <2>2. QED  BY <2>1, TailRecursion
<1>2. f = Body(f)
  <2>1. ASSUME NEW s \in WalkStates PROVE f[s] = WalkBody(t, follow, f, s)
    <3>1. f[s] = IF s \in Stop THEN out[s] ELSE f[next[s]]
      BY <1>1 DEF Solves
    <3>2. CASE s \in Stop
      <4>1. f[s] = WalkBody(t, follow, <<>>, s)
        BY <3>1, <3>2
      <4>2. QED  BY <3>2, <4>1, WalkBodyIs, Zenon
    <3>3. CASE s \notin Stop
      <4>1. f[s] = f[WalkGoes(t, s)]
        BY <3>1, <3>3
      <4>2. QED  BY <3>3, <4>1, WalkBodyIs, Zenon
    <3>4. QED  BY <3>2, <3>3
  <2> HIDE DEF Stop, next, out
  <2>2. f = [s \in WalkStates |-> f[s]]
    BY <1>1 DEF Solves
  <2>3. QED  BY <2>1, <2>2
<1> HIDE DEF Stop, next, out, Body
<1>3. PICK g : g = CHOOSE h : h = Body(h)
  OBVIOUS
<1>4. g = Body(g)
  BY <1>2, <1>3
<1>5. ASSUME NEW path PROVE Walk(t, path, follow) = g[WalkState(<<>>, path, 0)]
  BY <1>3, Zenon DEF Walk, Body, WalkBody, WalkState, WalkStates
<1>6. ASSUME NEW s \in WalkStates PROVE g[s] = WalkBody(t, follow, g, s)
  <2>1. Body(g)[s] = WalkBody(t, follow, g, s)
    BY DEF Body
  <2>2. QED  BY <1>4, <2>1, Zenon
<1>7. QED  BY <1>5, <1>6 DEF IsWalk

-------------------------------------------------------------------------------
(* Resolve                                                                 *)

ResolveState(resolved, unresolved, parts, links) ==
  [resolved |-> resolved, unresolved |-> unresolved, parts |-> parts, links |-> links]
ResolveStates ==
  [resolved : Locations, unresolved : Locations, parts : Paths, links : 0..ResolveLinks]

\* Where it stops, and where it goes otherwise.
ResolveStops(t, s) ==
  LET c == Append(s.resolved, Head(s.parts))
  IN  \/ s.parts = <<>>
      \/ /\ Head(s.parts) \notin {".", ".."} /\ s.unresolved = <<>>
         /\ \/ t[s.resolved].kind # "dir"
            \/ c \in DOMAIN t /\ t[c].kind = "link" /\ s.links = ResolveLinks
ResolveGoes(t, s) ==
  LET rest == Tail(s.parts)
      name == Head(s.parts)
      c == Append(s.resolved, name)
  IN  IF name = "." THEN ResolveState(s.resolved, s.unresolved, rest, s.links)
      ELSE IF name = ".." THEN IF s.unresolved # <<>>
                               THEN ResolveState(s.resolved, Front(s.unresolved), rest, s.links)
                               ELSE ResolveState(Parent(s.resolved), s.unresolved, rest, s.links)
      ELSE IF s.unresolved # <<>>
           THEN ResolveState(s.resolved, Append(s.unresolved, name), rest, s.links)
      ELSE IF c \notin DOMAIN t THEN ResolveState(s.resolved, <<name>>, rest, s.links)
      ELSE IF t[c].kind # "link" THEN ResolveState(c, s.unresolved, rest, s.links)
      ELSE ResolveState(IF t[c].abs THEN <<>> ELSE s.resolved, s.unresolved,
                        t[c].to \o rest, s.links + 1)

\* The body of the recursion, calling g.
ResolveBody(t, g, s) ==
  LET name == Head(s.parts)
      next == [s EXCEPT !.parts = Tail(@)]
      c == Append(s.resolved, name)
  IN  IF s.parts = <<>> THEN s.resolved \o s.unresolved
      ELSE IF name = "." THEN g[next]
      ELSE IF name = ".." THEN g[DotDot(next)]
      ELSE IF s.unresolved # <<>> THEN g[[next EXCEPT !.unresolved = Append(@, name)]]
      ELSE IF t[s.resolved].kind # "dir" THEN Failed
      ELSE IF c \notin DOMAIN t THEN g[[next EXCEPT !.unresolved = <<name>>]]
      ELSE IF t[c].kind # "link" THEN g[[next EXCEPT !.resolved = c]]
      ELSE IF s.links = ResolveLinks THEN Failed
      ELSE g[Restart(next, t[c])]

\* What updating one field gives.
LEMMA ResolveUpdates ==
  ASSUME NEW r, NEW u, NEW p, NEW k, NEW x, NEW s, s = ResolveState(r, u, p, k)
  PROVE  /\ [s EXCEPT !.resolved = x] = ResolveState(x, u, p, k)
         /\ [s EXCEPT !.unresolved = x] = ResolveState(r, x, p, k)
         /\ [s EXCEPT !.parts = x] = ResolveState(r, u, x, k)
         /\ [s EXCEPT !.links = x] = ResolveState(r, u, p, x)
         /\ s.resolved = r /\ s.unresolved = u /\ s.parts = p /\ s.links = k
<1> DEFINE l == [resolved |-> r, unresolved |-> u, parts |-> p, links |-> k]
<1>1. [l EXCEPT !.resolved = x] = [resolved |-> x, unresolved |-> u, parts |-> p, links |-> k]
  OBVIOUS
<1>2. [l EXCEPT !.unresolved = x] = [resolved |-> r, unresolved |-> x, parts |-> p, links |-> k]
  OBVIOUS
<1>3. [l EXCEPT !.parts = x] = [resolved |-> r, unresolved |-> u, parts |-> x, links |-> k]
  OBVIOUS
<1>4. [l EXCEPT !.links = x] = [resolved |-> r, unresolved |-> u, parts |-> p, links |-> x]
  OBVIOUS
<1>5. s.resolved = r /\ s.unresolved = u /\ s.parts = p /\ s.links = k
  BY DEF ResolveState
<1>6. QED  BY <1>1, <1>2, <1>3, <1>4, <1>5, Zenon DEF ResolveState

\* A link is replaced by its target.
LEMMA RestartIs ==
  ASSUME NEW s, NEW l, NEW r, NEW u, NEW p, NEW k, s = ResolveState(r, u, p, k)
  PROVE  Restart(s, l) = ResolveState(IF l.abs THEN <<>> ELSE r, u, l.to \o p, k + 1)
<1> DEFINE q == l.to \o p
           from == IF l.abs THEN <<>> ELSE r
<1>1. Restart(s, l) = [[[s EXCEPT !.parts = l.to \o s.parts] EXCEPT !.links = s.links + 1]
                         EXCEPT !.resolved = IF l.abs THEN <<>> ELSE s.resolved]
  BY DEF Restart
<1>2. s.parts = p /\ s.links = k /\ s.resolved = r
  BY ResolveUpdates
<1>3. Restart(s, l) = [[[s EXCEPT !.parts = q] EXCEPT !.links = k + 1] EXCEPT !.resolved = from]
  BY <1>1, <1>2, Zenon
<1> HIDE DEF q, from
<1>4. [s EXCEPT !.parts = q] = ResolveState(r, u, q, k)
  BY ResolveUpdates
<1>5. [ResolveState(r, u, q, k) EXCEPT !.links = k + 1] = ResolveState(r, u, q, k + 1)
  BY ResolveUpdates
<1>6. [ResolveState(r, u, q, k + 1) EXCEPT !.resolved = from] = ResolveState(from, u, q, k + 1)
  BY ResolveUpdates
<1>7. Restart(s, l) = ResolveState(from, u, q, k + 1)
  BY <1>3, <1>4, <1>5, <1>6, Zenon
<1>8. QED  BY <1>7 DEF q, from

\* ".." goes back in what is missing, or up in what is there.
LEMMA DotDotIs ==
  ASSUME NEW s, NEW r, NEW u, NEW p, NEW k, s = ResolveState(r, u, p, k)
  PROVE  DotDot(s) = IF u # <<>> THEN ResolveState(r, Front(u), p, k)
                                 ELSE ResolveState(Parent(r), u, p, k)
<1> DEFINE front == Front(u)
           up == Parent(r)
<1>1. DotDot(s) = IF s.unresolved # <<>> THEN [s EXCEPT !.unresolved = Front(s.unresolved)]
                                         ELSE [s EXCEPT !.resolved = Parent(s.resolved)]
  BY DEF DotDot
<1>2. s.unresolved = u /\ s.resolved = r
  BY ResolveUpdates
<1>3. DotDot(s) = IF u # <<>> THEN [s EXCEPT !.unresolved = front] ELSE [s EXCEPT !.resolved = up]
  BY <1>1, <1>2, Zenon
<1> HIDE DEF front, up
<1>4. /\ [s EXCEPT !.unresolved = front] = ResolveState(r, front, p, k)
      /\ [s EXCEPT !.resolved = up] = ResolveState(up, u, p, k)
  BY ResolveUpdates
<1>5. DotDot(s) = IF u # <<>> THEN ResolveState(r, front, p, k) ELSE ResolveState(up, u, p, k)
  BY <1>3, <1>4, Zenon
<1>6. QED  BY <1>5, Zenon DEF front, up

\* The body calls g where Resolve goes, and ends where it stops.
LEMMA ResolveBodyIs ==
  ASSUME NEW t, NEW g, NEW s \in ResolveStates
  PROVE  /\ ~ResolveStops(t, s) => ResolveBody(t, g, s) = g[ResolveGoes(t, s)]
         /\ ResolveStops(t, s) => \A h : ResolveBody(t, g, s) = ResolveBody(t, h, s)
<1> DEFINE rest == Tail(s.parts)
           name == Head(s.parts)
           next == [s EXCEPT !.parts = Tail(@)]
           c == Append(s.resolved, name)
           more == t[c].to \o rest
           from == IF t[c].abs THEN <<>> ELSE s.resolved
<1>1. next = ResolveState(s.resolved, s.unresolved, rest, s.links)
  <2>1. s = ResolveState(s.resolved, s.unresolved, s.parts, s.links)
    BY DEF ResolveStates, ResolveState
  <2>2. next = [s EXCEPT !.parts = rest]
    OBVIOUS
  <2> HIDE DEF next, rest
  <2>3. QED  BY <2>1, <2>2, ResolveUpdates
<1>2. next.unresolved = s.unresolved
  <2> HIDE DEF next, rest
  <2>1. QED  BY <1>1, ResolveUpdates
<1>3. DotDot(next) = IF s.unresolved # <<>>
                     THEN ResolveState(s.resolved, Front(s.unresolved), rest, s.links)
                     ELSE ResolveState(Parent(s.resolved), s.unresolved, rest, s.links)
  <2> HIDE DEF next, rest
  <2>1. QED  BY <1>1, DotDotIs
<1>4. /\ [next EXCEPT !.unresolved = Append(@, name)]
           = ResolveState(s.resolved, Append(s.unresolved, name), rest, s.links)
      /\ [next EXCEPT !.unresolved = <<name>>]
           = ResolveState(s.resolved, <<name>>, rest, s.links)
      /\ [next EXCEPT !.resolved = c] = ResolveState(c, s.unresolved, rest, s.links)
  <2> DEFINE a == Append(s.unresolved, name)
             one == <<name>>
  <2>1. [next EXCEPT !.unresolved = Append(@, name)] = [next EXCEPT !.unresolved = a]
    BY <1>2
  <2> HIDE DEF next, rest, name, c, a, one
  <2>2. /\ [next EXCEPT !.unresolved = a] = ResolveState(s.resolved, a, rest, s.links)
        /\ [next EXCEPT !.unresolved = one] = ResolveState(s.resolved, one, rest, s.links)
        /\ [next EXCEPT !.resolved = c] = ResolveState(c, s.unresolved, rest, s.links)
    BY <1>1, ResolveUpdates
  <2>3. QED  BY <2>1, <2>2, Zenon DEF a, one
<1>5. Restart(next, t[c]) = ResolveState(from, s.unresolved, more, s.links + 1)
  <2> DEFINE l == t[c]
  <2> HIDE DEF next, l, rest
  <2>1. Restart(next, l)
          = ResolveState(IF l.abs THEN <<>> ELSE s.resolved, s.unresolved,
                         l.to \o rest, s.links + 1)
    BY <1>1, RestartIs
  <2>2. QED  BY <2>1, Zenon DEF l
<1>6. ~ResolveStops(t, s) => ResolveBody(t, g, s) = g[ResolveGoes(t, s)]
  <2>1. ResolveBody(t, g, s) =
          IF s.parts = <<>> THEN s.resolved \o s.unresolved
          ELSE IF name = "." THEN g[next]
          ELSE IF name = ".." THEN g[DotDot(next)]
          ELSE IF s.unresolved # <<>> THEN g[[next EXCEPT !.unresolved = Append(@, name)]]
          ELSE IF t[s.resolved].kind # "dir" THEN Failed
          ELSE IF c \notin DOMAIN t THEN g[[next EXCEPT !.unresolved = <<name>>]]
          ELSE IF t[c].kind # "link" THEN g[[next EXCEPT !.resolved = c]]
          ELSE IF s.links = ResolveLinks THEN Failed
          ELSE g[Restart(next, t[c])]
    BY DEF ResolveBody
  <2>2. ResolveGoes(t, s) =
          IF name = "." THEN ResolveState(s.resolved, s.unresolved, rest, s.links)
          ELSE IF name = ".."
               THEN IF s.unresolved # <<>>
                    THEN ResolveState(s.resolved, Front(s.unresolved), rest, s.links)
                    ELSE ResolveState(Parent(s.resolved), s.unresolved, rest, s.links)
          ELSE IF s.unresolved # <<>>
               THEN ResolveState(s.resolved, Append(s.unresolved, name), rest, s.links)
          ELSE IF c \notin DOMAIN t THEN ResolveState(s.resolved, <<name>>, rest, s.links)
          ELSE IF t[c].kind # "link" THEN ResolveState(c, s.unresolved, rest, s.links)
          ELSE ResolveState(from, s.unresolved, more, s.links + 1)
    BY Zenon DEF ResolveGoes
  <2>3. ResolveStops(t, s) <=>
          \/ s.parts = <<>>
          \/ /\ name \notin {".", ".."} /\ s.unresolved = <<>>
             /\ \/ t[s.resolved].kind # "dir"
                \/ c \in DOMAIN t /\ t[c].kind = "link" /\ s.links = ResolveLinks
    BY Zenon DEF ResolveStops
  <2> HIDE DEF next, name, c, rest, more, from
  <2>4. QED  BY <1>1, <1>3, <1>4, <1>5, <2>1, <2>2, <2>3, Zenon
<1>7. ResolveStops(t, s) => \A h : ResolveBody(t, g, s) = ResolveBody(t, h, s)
  BY Zenon DEF ResolveStops, ResolveBody
<1>8. QED  BY <1>6, <1>7

\* In a tree, Resolve stays among its states.
LEMMA ResolveGoesOn ==
  ASSUME NEW t, Tree(t), NEW s \in ResolveStates, ~ResolveStops(t, s)
  PROVE  ResolveGoes(t, s) \in ResolveStates
<1> DEFINE rest == Tail(s.parts)
           name == Head(s.parts)
           c == Append(s.resolved, name)
<1>1. /\ s.resolved \in Locations /\ s.unresolved \in Locations
      /\ s.parts \in Paths /\ s.links \in 0..ResolveLinks /\ s.parts # <<>>
  BY DEF ResolveStates, ResolveStops
<1>2. /\ rest \in Paths
      /\ name \notin {".", ".."} => /\ c \in Locations /\ <<name>> \in Locations
                                    /\ Append(s.unresolved, name) \in Locations
  <2>1. rest \in Paths /\ (name \notin {".", ".."} => name \in Names)
    BY <1>1, PathTaken
  <2>2. name \in Names => <<name>> \in Locations
    BY DEF Locations
  <2>3. QED  BY <1>1, <2>1, <2>2, LocationsAre
<1>3. \A r, u \in Locations, p \in Paths, k \in 0..ResolveLinks :
        ResolveState(r, u, p, k) \in ResolveStates
  BY DEF ResolveState, ResolveStates
<1>4. CASE name = "."
  BY <1>1, <1>2, <1>3, <1>4 DEF ResolveGoes
<1>5. CASE name = ".."
  <2>1. /\ Parent(s.resolved) \in Locations
        /\ s.unresolved # <<>> => Front(s.unresolved) \in Locations
    <3>1. s.unresolved # <<>> => Parent(s.unresolved) = Front(s.unresolved)
      BY DEF Parent
    <3>2. QED  BY <1>1, <3>1, LocationsAre
  <2> HIDE DEF rest
  <2>2. QED  BY <1>1, <1>2, <1>3, <1>5, <2>1 DEF ResolveGoes, rest
<1>6. CASE /\ name \notin {".", ".."}
           /\ s.unresolved # <<>> \/ c \notin DOMAIN t \/ t[c].kind # "link"
  BY <1>1, <1>2, <1>3, <1>6 DEF ResolveGoes
<1>7. CASE name \notin {".", ".."} /\ s.unresolved = <<>> /\ c \in DOMAIN t /\ t[c].kind = "link"
  <2> DEFINE from == IF t[c].abs THEN <<>> ELSE s.resolved
             to == t[c].to \o rest
  <2>1. s.links + 1 \in 0..ResolveLinks
    <3>1. s.links # ResolveLinks
      BY <1>1, <1>7 DEF ResolveStops
    <3>2. QED  BY <1>1, <3>1, LinkAssumption
  <2>2. to \in Paths
    <3>1. t[c].to \in Paths
      BY <1>7 DEF Tree
    <3>2. QED  BY <1>2, <3>1, ConcatProperties DEF Paths
  <2>3. from \in Locations
    BY <1>1, LocationsAre
  <2>4. ResolveGoes(t, s) = ResolveState(from, s.unresolved, to, s.links + 1)
    BY <1>7 DEF ResolveGoes
  <2> HIDE DEF from, to
  <2>5. QED  BY <1>1, <1>3, <2>1, <2>2, <2>3, <2>4
<1>8. QED  BY <1>4, <1>5, <1>6, <1>7

\* g is the recursive function in Resolve.
IsResolve(t, g) == \A s \in ResolveStates : g[s] = ResolveBody(t, g, s)

\* So the recursive function in Resolve does what its body says.
LEMMA ResolveIs ==
  ASSUME NEW t, Tree(t)
  PROVE  \E g : /\ IsResolve(t, g)
                /\ \A path : Resolve(t, path) = g[ResolveState(<<>>, <<>>, path, 0)]
<1> DEFINE Body(f) == [s \in ResolveStates |-> ResolveBody(t, f, s)]
           Stop == {s \in ResolveStates : ResolveStops(t, s)}
           next == [s \in ResolveStates |-> ResolveGoes(t, s)]
           out == [s \in ResolveStates |-> ResolveBody(t, <<>>, s)]
<1>1. PICK f : Solves(f, ResolveStates, Stop, next, out)
  <2>1. \A s \in ResolveStates : s \notin Stop => next[s] \in ResolveStates
    BY ResolveGoesOn
  <2> HIDE DEF Stop, next, out
  <2>2. QED  BY <2>1, TailRecursion
<1>2. f = Body(f)
  <2>1. ASSUME NEW s \in ResolveStates PROVE f[s] = ResolveBody(t, f, s)
    <3>1. f[s] = IF s \in Stop THEN out[s] ELSE f[next[s]]
      BY <1>1 DEF Solves
    <3>2. CASE s \in Stop
      <4>1. f[s] = ResolveBody(t, <<>>, s)
        BY <3>1, <3>2
      <4>2. QED  BY <3>2, <4>1, ResolveBodyIs, Zenon
    <3>3. CASE s \notin Stop
      <4>1. f[s] = f[ResolveGoes(t, s)]
        BY <3>1, <3>3
      <4>2. QED  BY <3>3, <4>1, ResolveBodyIs, Zenon
    <3>4. QED  BY <3>2, <3>3
  <2> HIDE DEF Stop, next, out
  <2>2. f = [s \in ResolveStates |-> f[s]]
    BY <1>1 DEF Solves
  <2>3. QED  BY <2>1, <2>2
<1> HIDE DEF Stop, next, out, Body
<1>3. PICK g : g = CHOOSE h : h = Body(h)
  OBVIOUS
<1>4. g = Body(g)
  BY <1>2, <1>3
<1>5. ASSUME NEW path PROVE Resolve(t, path) = g[ResolveState(<<>>, <<>>, path, 0)]
  BY <1>3, Zenon DEF Resolve, Body, ResolveBody, ResolveState, ResolveStates
<1>6. ASSUME NEW s \in ResolveStates PROVE g[s] = ResolveBody(t, g, s)
  <2>1. Body(g)[s] = ResolveBody(t, g, s)
    BY DEF Body
  <2>2. QED  BY <1>4, <2>1, Zenon
<1>7. QED  BY <1>5, <1>6 DEF IsResolve

-------------------------------------------------------------------------------
(* One component                                                           *)

\* What g makes of a state of the kernel's lookup.
WalkStep(t, follow, g, at, parts, links) ==
  LET rest == Tail(parts)
      name == Head(parts)
      c == Append(at, name)
  IN  IF parts = <<>> THEN [is |-> t[at].kind, at |-> at]
      ELSE IF t[at].kind # "dir" THEN [is |-> "error", at |-> at]
      ELSE IF name = "." THEN g[WalkState(at, rest, links)]
      ELSE IF name = ".." THEN g[WalkState(Parent(at), rest, links)]
      ELSE IF c \notin DOMAIN t THEN [is |-> IF rest = <<>> THEN "free" ELSE "none", at |-> c]
      ELSE IF t[c].kind # "link" THEN g[WalkState(c, rest, links)]
      ELSE IF rest = <<>> /\ ~follow THEN [is |-> "link", at |-> c]
      ELSE IF links = KernelLinks THEN [is |-> "error", at |-> c]
      ELSE g[WalkState(IF t[c].abs THEN <<>> ELSE at, t[c].to \o rest, links + 1)]

\* That is what the recursion says.
LEMMA WalkStepIs ==
  ASSUME NEW t, NEW follow, NEW g, IsWalk(t, follow, g),
         NEW at \in Locations, NEW parts \in Paths, NEW links \in 0..KernelLinks
  PROVE  g[WalkState(at, parts, links)] = WalkStep(t, follow, g, at, parts, links)
<1> DEFINE s == WalkState(at, parts, links)
<1>1. s \in WalkStates /\ s.at = at /\ s.parts = parts /\ s.links = links
  BY DEF WalkStates, WalkState
<1> HIDE DEF s
<1>2. g[s] = WalkBody(t, follow, g, s)
  BY <1>1 DEF IsWalk
<1>3. CASE WalkStops(t, follow, s)
  <2>1. WalkBody(t, follow, g, s) = WalkStep(t, follow, g, at, parts, links)
    BY <1>1, <1>3, Zenon DEF WalkBody, WalkStops, WalkStep
  <2>2. QED  BY <1>2, <2>1 DEF s
<1>4. CASE ~WalkStops(t, follow, s)
  <2>1. WalkBody(t, follow, g, s) = g[WalkGoes(t, s)]
    BY <1>1, <1>4, WalkBodyIs
  <2>2. g[WalkGoes(t, s)] = WalkStep(t, follow, g, at, parts, links)
    BY <1>1, <1>4, Zenon DEF WalkGoes, WalkStops, WalkStep
  <2>3. QED  BY <1>2, <2>1, <2>2 DEF s
<1>5. QED  BY <1>3, <1>4

\* What g makes of a state of Resolve.
ResolveStep(t, g, resolved, unresolved, parts, links) ==
  LET rest == Tail(parts)
      name == Head(parts)
      c == Append(resolved, name)
  IN  IF parts = <<>> THEN resolved \o unresolved
      ELSE IF name = "." THEN g[ResolveState(resolved, unresolved, rest, links)]
      ELSE IF name = ".."
           THEN IF unresolved # <<>> THEN g[ResolveState(resolved, Front(unresolved), rest, links)]
                                     ELSE g[ResolveState(Parent(resolved), <<>>, rest, links)]
      ELSE IF unresolved # <<>>
           THEN g[ResolveState(resolved, Append(unresolved, name), rest, links)]
      ELSE IF t[resolved].kind # "dir" THEN Failed
      ELSE IF c \notin DOMAIN t THEN g[ResolveState(resolved, <<name>>, rest, links)]
      ELSE IF t[c].kind # "link" THEN g[ResolveState(c, <<>>, rest, links)]
      ELSE IF links = ResolveLinks THEN Failed
      ELSE g[ResolveState(IF t[c].abs THEN <<>> ELSE resolved, <<>>, t[c].to \o rest, links + 1)]

\* That is what the recursion says.
LEMMA ResolveStepIs ==
  ASSUME NEW t, NEW g, IsResolve(t, g),
         NEW r \in Locations, NEW u \in Locations,
         NEW parts \in Paths, NEW links \in 0..ResolveLinks
  PROVE  g[ResolveState(r, u, parts, links)] = ResolveStep(t, g, r, u, parts, links)
<1> DEFINE s == ResolveState(r, u, parts, links)
<1>1. /\ s \in ResolveStates /\ s.resolved = r /\ s.unresolved = u
      /\ s.parts = parts /\ s.links = links
  BY DEF ResolveStates, ResolveState
<1> HIDE DEF s
<1>2. g[s] = ResolveBody(t, g, s)
  BY <1>1 DEF IsResolve
<1>3. CASE ResolveStops(t, s)
  <2>1. ResolveBody(t, g, s) = ResolveStep(t, g, r, u, parts, links)
    BY <1>1, <1>3, Zenon DEF ResolveBody, ResolveStops, ResolveStep
  <2>2. QED  BY <1>2, <2>1 DEF s
<1>4. CASE ~ResolveStops(t, s)
  <2>1. ResolveBody(t, g, s) = g[ResolveGoes(t, s)]
    BY <1>1, <1>4, ResolveBodyIs
  <2>2. g[ResolveGoes(t, s)] = ResolveStep(t, g, r, u, parts, links)
    BY <1>1, <1>4, Zenon DEF ResolveGoes, ResolveStops, ResolveStep
  <2>3. QED  BY <1>2, <2>1, <2>2 DEF s
<1>5. QED  BY <1>3, <1>4

-------------------------------------------------------------------------------
(* Locations                                                               *)

\* Names are components, and a location is a path without "." and "..".
LEMMA NamesAre ==
  /\ \A name \in Names : name \in Components /\ name \notin {".", ".."}
  /\ \A at \in Locations : at \in Paths
<1>1. \A name \in Names : name \in Components /\ name \notin {".", ".."}
  BY LinkAssumption DEF Components
<1>2. ASSUME NEW at \in Locations PROVE at \in Paths
  <2>1. at \in Seq(Names) /\ Names \subseteq Components
    BY <1>1 DEF Locations
  <2>2. at \in Seq(Components)
    BY <2>1, SeqMonotonic
  <2>3. QED  BY <2>2 DEF Paths, Components
<1>3. QED  BY <1>1, <1>2

\* A location that is not the root has a last name.
LEMMA LastName ==
  ASSUME NEW at \in Locations, at # <<>>
  PROVE  \E up \in Locations, name \in Names :
           /\ at = Append(up, name) /\ Parent(at) = up /\ Front(at) = up
           /\ Len(at) = Len(up) + 1 /\ Len(up) \in Nat
           /\ Head(at) = IF up = <<>> THEN name ELSE Head(up)
<1>1. PICK up \in Seq(Names), name \in Names : at = Append(up, name)
  BY SequenceEmptyOrAppend DEF Locations
<1>2. Len(up) \in Nat /\ Len(at) = Len(up) + 1
  BY <1>1, AppendProperties, LenProperties
<1>3. Front(at) = up
  <2>1. Front(at) = SubSeq(at, 1, Len(up))
    <3>1. (Len(up) + 1) - 1 = Len(up)
      BY <1>2
    <3>2. QED  BY <1>2, <3>1 DEF Front
  <2>2. /\ SubSeq(at, 1, Len(up)) \in Seq(Names) /\ Len(SubSeq(at, 1, Len(up))) = Len(up)
        /\ \A i \in 1..Len(up) : SubSeq(at, 1, Len(up))[i] = at[i]
    <3>1. at \in Seq(Names) /\ \A i \in 1..Len(up) : at[i] \in Names
      BY <1>1, <1>2, ElementOfSeq, AppendProperties
    <3>2. /\ SubSeq(at, 1, Len(up)) \in Seq(Names)
          /\ Len(SubSeq(at, 1, Len(up))) = IF 1 <= Len(up) THEN Len(up) - 1 + 1 ELSE 0
          /\ \A i \in 1..(Len(up) - 1 + 1) : SubSeq(at, 1, Len(up))[i] = at[1 + i - 1]
      BY <1>2, <3>1, SubSeqProperties
    <3>3. QED  BY <1>2, <3>2
  <2>3. \A i \in 1..Len(up) : at[i] = up[i]
    BY <1>1, AppendProperties
  <2>4. SubSeq(at, 1, Len(up)) = up
    BY <2>2, <2>3, SeqEqual
  <2>5. QED  BY <2>1, <2>4
<1>4. Parent(at) = up
  BY <1>3 DEF Parent
<1>5. Head(at) = IF up = <<>> THEN name ELSE Head(up)
  BY <1>1, HeadTailAppend
<1>6. QED  BY <1>1, <1>2, <1>3, <1>4, <1>5 DEF Locations

\* Going down by a name and up again.
LEMMA ParentOfAppend ==
  ASSUME NEW at \in Locations, NEW name \in Names
  PROVE  /\ Append(at, name) \in Locations /\ Append(at, name) # <<>>
         /\ Parent(Append(at, name)) = at
<1> DEFINE c == Append(at, name)
<1>1. at \in Seq(Names) /\ c \in Seq(Names) /\ c # <<>>
  BY AppendProperties DEF Locations
<1>2. c \in Locations
  BY <1>1 DEF Locations
<1>3. PICK up \in Locations, m \in Names : c = Append(up, m) /\ Parent(c) = up
  <2> HIDE DEF c
  <2>1. QED  BY <1>1, <1>2, LastName
<1>4. up = at
  <2>1. up \in Seq(Names) /\ Append(up, m) = Append(at, name)
    BY <1>3 DEF Locations
  <2>2. QED  BY <1>1, <1>3, <2>1, AppendInjective
<1>5. QED  BY <1>1, <1>2, <1>3, <1>4

\* A location that is not the root has a first name.
LEMMA FirstName ==
  ASSUME NEW at \in Locations, at # <<>>
  PROVE  /\ Head(at) \in Names /\ Tail(at) \in Locations
         /\ Len(Tail(at)) = Len(at) - 1 /\ Len(at) \in Nat
         /\ at = <<Head(at)>> \o Tail(at) /\ at[1] = Head(at)
<1>1. /\ Head(at) \in Names /\ Tail(at) \in Seq(Names) /\ Len(at) \in Nat /\ Len(at) # 0
      /\ Len(Tail(at)) = Len(at) - 1
      /\ \A i \in 1..Len(Tail(at)) : Tail(at)[i] = at[i + 1]
  BY HeadTailProperties, LenProperties, EmptySeq DEF Locations
<1>2. at[1] = Head(at)
  <2>1. at \in Seq(Names) /\ 1 \in 1..Len(at) /\ Len(at) \in 1..Len(at)
    BY <1>1 DEF Locations
  <2>2. Head(SubSeq(at, 1, Len(at))) = at[1]
    BY <2>1, HeadTailOfSubSeq
  <2>3. SubSeq(at, 1, Len(at)) = at
    BY <2>1, SubSeqFull
  <2>4. QED  BY <2>2, <2>3
<1> DEFINE h == Head(at)
           rest == Tail(at)
           s == <<h>> \o rest
<1>3. <<h>> \in Seq(Names) /\ Len(<<h>>) = 1 /\ <<h>>[1] = h
  BY <1>1
<1>4. /\ s \in Seq(Names) /\ Len(s) = 1 + Len(rest)
      /\ \A i \in 1..(1 + Len(rest)) : s[i] = IF i <= 1 THEN <<h>>[i] ELSE rest[i - 1]
  <2> HIDE DEF h, rest
  <2>1. rest \in Seq(Names)
    BY <1>1 DEF rest
  <2>2. QED  BY <1>3, <2>1, ConcatProperties
<1>5. Len(s) = Len(at)
  <2> HIDE DEF s
  <2>1. QED  BY <1>1, <1>4
<1>6. ASSUME NEW i \in 1..Len(at) PROVE s[i] = at[i]
  <2>1. CASE i = 1
    <3>1. s[1] = h
      <4> HIDE DEF s, h
      <4>1. 1 \in 1..(1 + Len(rest)) /\ 1 <= 1
        BY <1>1
      <4>2. QED  BY <1>3, <1>4, <4>1
    <3>2. QED  BY <1>2, <2>1, <3>1
  <2>2. CASE i # 1
    <3> HIDE DEF s
    <3>1. i \in 1..(1 + Len(rest)) /\ ~(i <= 1) /\ i - 1 \in 1..Len(rest) /\ (i - 1) + 1 = i
      BY <1>1, <2>2
    <3>2. s[i] = rest[i - 1]
      BY <1>4, <3>1
    <3>3. rest[i - 1] = at[(i - 1) + 1]
      BY <1>1, <3>1
    <3>4. QED  BY <3>1, <3>2, <3>3
  <2>3. QED  BY <2>1, <2>2
<1>7. s = at
  <2> HIDE DEF s
  <2>1. at \in Seq(Names)
    BY DEF Locations
  <2>2. QED  BY <1>4, <1>5, <1>6, <2>1, SeqEqual
<1>8. QED  BY <1>1, <1>2, <1>7 DEF Locations

\* What precedes something that exists exists, and is a directory.
LEMMA PrefixesExist ==
  ASSUME NEW t, Tree(t), NEW x \in Locations, NEW y \in Locations, x \o y \in DOMAIN t
  PROVE  x \in DOMAIN t /\ (y # <<>> => t[x].kind = "dir")
<1> DEFINE Good(u) == x \o u \in DOMAIN t => x \in DOMAIN t /\ (u # <<>> => t[x].kind = "dir")
           T == {n \in Nat : \A u \in Locations : Len(u) = n => Good(u)}
<1>1. 0 \in T
  <2>1. ASSUME NEW u \in Locations, Len(u) = 0 PROVE Good(u)
    <3>1. u = <<>>
      BY <2>1, EmptySeq DEF Locations
    <3>2. x \o u = x
      BY <3>1, ConcatEmptySeq DEF Locations
    <3>3. QED  BY <3>1, <3>2
  <2>2. QED  BY <2>1
<1>2. ASSUME NEW n \in T PROVE n + 1 \in T
  <2>1. ASSUME NEW u \in Locations, Len(u) = n + 1, x \o u \in DOMAIN t
        PROVE  x \in DOMAIN t /\ (u # <<>> => t[x].kind = "dir")
    <3>1. n \in Nat /\ \A v \in Locations : Len(v) = n => Good(v)
      BY <1>2
    <3>2. u # <<>>
      BY <2>1, <3>1, EmptySeq
    <3>3. PICK v \in Locations, name \in Names :
            u = Append(v, name) /\ Len(u) = Len(v) + 1 /\ Len(v) \in Nat
      BY <3>2, LastName
    <3>4. Len(v) = n
      BY <2>1, <3>1, <3>3
    <3>5. x \o u = Append(x \o v, name) /\ x \o v \in Locations
      <4>1. /\ x \in Seq(Names) /\ v \in Seq(Names) /\ <<name>> \in Seq(Names)
            /\ u = v \o <<name>>
        BY <3>3, AppendIsConcat DEF Locations
      <4>2. x \o v \in Seq(Names)
        BY <4>1, ConcatProperties
      <4>3. (x \o v) \o <<name>> = x \o (v \o <<name>>)
        BY <4>1, ConcatAssociative
      <4>4. Append(x \o v, name) = (x \o v) \o <<name>>
        BY <4>2, AppendIsConcat
      <4>5. QED  BY <4>1, <4>2, <4>3, <4>4 DEF Locations
    <3>6. x \o u # <<>> /\ Parent(x \o u) = x \o v
      <4>1. x \o u # <<>> /\ x \o u \in Locations
        BY <3>5, AppendProperties DEF Locations
      <4>2. PICK w \in Locations, m \in Names : x \o u = Append(w, m) /\ Parent(x \o u) = w
        BY <4>1, LastName
      <4>3. w = x \o v
        <5> DEFINE xv == x \o v
        <5>1. xv \in Seq(Names) /\ w \in Seq(Names) /\ Append(w, m) = Append(xv, name)
          BY <3>5, <4>2 DEF Locations
        <5> HIDE DEF xv
        <5>2. w = xv
          BY <3>3, <4>2, <5>1, AppendInjective
        <5>3. QED  BY <5>2 DEF xv
      <4>4. QED  BY <4>1, <4>2, <4>3
    <3>7. x \o v \in DOMAIN t /\ t[x \o v].kind = "dir"
      <4>1. x \o u \in DOMAIN t \ {<<>>}
        BY <2>1, <3>6
      <4>2. Parent(x \o u) \in DOMAIN t /\ t[Parent(x \o u)].kind = "dir"
        BY <4>1, Zenon DEF Tree
      <4>3. QED  BY <3>6, <4>2, Zenon
    <3>8. CASE v = <<>>
      <4>1. x \o v = x
        BY <3>8, ConcatEmptySeq DEF Locations
      <4>2. QED  BY <3>7, <4>1
    <3>9. CASE v # <<>>
      BY <3>1, <3>4, <3>7, <3>9
    <3>10. QED  BY <3>8, <3>9
  <2>2. QED  BY <1>2, <2>1
<1>3. T = Nat
  <2> HIDE DEF T
  <2>1. T \in SUBSET Nat
    BY DEF T
  <2>2. QED  BY <1>1, <1>2, <2>1, NatClosure
<1>4. Len(y) \in Nat
  BY LenProperties DEF Locations
<1>5. QED  BY <1>3, <1>4

-------------------------------------------------------------------------------
(* Both lookups                                                            *)

\* What holds of a path if it holds of all with more links followed, or as many
\* and fewer components, holds.
LEMMA PathInduction ==
  ASSUME NEW K \in Nat, NEW G,
         \A p \in Paths, k \in 0..K :
           (\A q \in Paths, l \in 0..K : l > k \/ (l = k /\ Len(q) < Len(p)) => <<q, l>> \in G)
             => <<p, k>> \in G
  PROVE  \A p \in Paths, k \in 0..K : <<p, k>> \in G
<1> DEFINE D == Paths \X (0..K)
           a == [s \in D |-> K - s[2]]
           b == [s \in D |-> Len(s[1])]
<1>1. a \in [D -> Nat] /\ b \in [D -> Nat]
  <2>1. \A s \in D : s[1] \in Paths /\ s[2] \in 0..K
    OBVIOUS
  <2>2. \A p \in Paths : Len(p) \in Nat
    BY LenProperties DEF Paths
  <2>3. \A k \in 0..K : K - k \in Nat
    OBVIOUS
  <2>4. QED  BY <2>1, <2>2, <2>3
<1>2. ASSUME NEW s \in D, \A t \in D : Earlier(a, b, t, s) => t \in G
      PROVE  s \in G
  <2>1. PICK p \in Paths, k \in 0..K : s = <<p, k>>
    BY <1>2
  <2>2. ASSUME NEW q \in Paths, NEW l \in 0..K, l > k \/ (l = k /\ Len(q) < Len(p))
        PROVE  <<q, l>> \in G
    <3>1. <<q, l>> \in D /\ s \in D
      BY <2>2
    <3>2. a[<<q, l>>] = K - l /\ b[<<q, l>>] = Len(q) /\ a[s] = K - k /\ b[s] = Len(p)
      BY <2>1, <3>1
    <3>3. K - l < K - k \/ (K - l = K - k /\ Len(q) < Len(p))
      BY <2>2
    <3> HIDE DEF D, a, b
    <3>4. Earlier(a, b, <<q, l>>, s)
      BY <3>2, <3>3, Zenon DEF Earlier
    <3>5. QED  BY <1>2, <3>1, <3>4, Zenon
  <2>3. QED  BY <2>1, <2>2
<1>3. \A s \in D : s \in G
  <2> HIDE DEF D, a, b
  <2>1. Inductive(D, G, a, b)
    BY <1>2, Zenon DEF Inductive
  <2>2. QED  BY <1>1, <2>1, LookupInduction, Zenon
<1>4. QED  BY <1>3

\* The kernel, following links, and Resolve come to the same place.
Agree(w, r, at, parts, links) ==
  w[WalkState(at, parts, links)].is \in {"file", "dir", "free"} =>
    r[ResolveState(at, <<>>, parts, links)] = w[WalkState(at, parts, links)].at

\* Where the kernel finds a file or a name that is free, Resolve says the same.
LEMMA SameLookup ==
  ASSUME NEW t, Tree(t), NEW w, IsWalk(t, TRUE, w),
         NEW r, IsResolve(t, r)
  PROVE  \A parts \in Paths, links \in 0..KernelLinks : \A at \in DOMAIN t :
           Agree(w, r, at, parts, links)
<1> DEFINE G == {s \in Paths \X (0..KernelLinks) : \A at \in DOMAIN t : Agree(w, r, at, s[1], s[2])}
<1>1. ASSUME NEW p \in Paths, NEW k \in 0..KernelLinks,
             \A q \in Paths, l \in 0..KernelLinks :
               l > k \/ (l = k /\ Len(q) < Len(p)) => \A at \in DOMAIN t : Agree(w, r, at, q, l),
             NEW at \in DOMAIN t
      PROVE  Agree(w, r, at, p, k)
  <2> DEFINE rest == Tail(p)
             name == Head(p)
             c == Append(at, name)
  <2>1. at \in Locations /\ <<>> \in Locations /\ k \in 0..ResolveLinks
    <3>1. KernelLinks \in Nat /\ ResolveLinks \in Nat /\ KernelLinks <= ResolveLinks
      BY LinkAssumption
    <3>2. QED  BY <3>1, LocationsAre DEF Tree
  <2>2. w[WalkState(at, p, k)] = WalkStep(t, TRUE, w, at, p, k)
    BY <2>1, WalkStepIs
  <2>3. r[ResolveState(at, <<>>, p, k)] = ResolveStep(t, r, at, <<>>, p, k)
    BY <2>1, ResolveStepIs
  <2>4. CASE p = <<>>
    <3>1. w[WalkState(at, p, k)] = [is |-> t[at].kind, at |-> at]
      BY <2>2, <2>4 DEF WalkStep
    <3>2. r[ResolveState(at, <<>>, p, k)] = at \o <<>>
      BY <2>3, <2>4 DEF ResolveStep
    <3>3. at \o <<>> = at
      BY <2>1, ConcatEmptySeq DEF Locations
    <3>4. QED  BY <3>1, <3>2, <3>3 DEF Agree
  <2>5. CASE p # <<>> /\ t[at].kind # "dir"
    BY <2>2, <2>5 DEF WalkStep, Agree
  <2>6. CASE p # <<>> /\ t[at].kind = "dir"
    <3>1. /\ name \in Components /\ rest \in Paths /\ Len(rest) = Len(p) - 1 /\ Len(p) \in Nat
          /\ name \notin {".", ".."} => name \in Names
      BY <2>6, PathTaken
    <3>2. Len(rest) < Len(p)
      <4> HIDE DEF rest
      <4>1. QED  BY <3>1
    <3>3. \A q \in DOMAIN t : Agree(w, r, q, rest, k)
      <4> HIDE DEF rest
      <4>1. QED  BY <1>1, <3>1, <3>2
    <3>4. CASE name = "."
      <4>1. w[WalkState(at, p, k)] = w[WalkState(at, rest, k)]
        BY <2>2, <2>6, <3>4 DEF WalkStep
      <4>2. r[ResolveState(at, <<>>, p, k)] = r[ResolveState(at, <<>>, rest, k)]
        BY <2>3, <2>6, <3>4 DEF ResolveStep
      <4>3. QED  BY <3>3, <4>1, <4>2 DEF Agree
    <3>5. CASE name = ".."
      <4>1. w[WalkState(at, p, k)] = w[WalkState(Parent(at), rest, k)]
        BY <2>2, <2>6, <3>5 DEF WalkStep
      <4>2. r[ResolveState(at, <<>>, p, k)] = r[ResolveState(Parent(at), <<>>, rest, k)]
        BY <2>3, <2>6, <3>5 DEF ResolveStep
      <4>3. Parent(at) \in DOMAIN t
        <5>1. CASE at = <<>>
          BY <5>1 DEF Parent
        <5>2. CASE at # <<>>
          BY <5>2 DEF Tree
        <5>3. QED  BY <5>1, <5>2
      <4>4. QED  BY <3>3, <4>1, <4>2, <4>3 DEF Agree
    <3>6. CASE name \notin {".", ".."} /\ c \notin DOMAIN t
      <4>1. w[WalkState(at, p, k)] = [is |-> IF rest = <<>> THEN "free" ELSE "none", at |-> c]
        BY <2>2, <2>6, <3>6 DEF WalkStep
      <4>2. r[ResolveState(at, <<>>, p, k)] = r[ResolveState(at, <<name>>, rest, k)]
        BY <2>3, <2>6, <3>6 DEF ResolveStep
      <4>3. CASE rest = <<>>
        <5>1. <<name>> \in Locations
          BY <3>1, <3>6 DEF Locations
        <5> HIDE DEF name, rest
        <5>2. r[ResolveState(at, <<name>>, rest, k)] = ResolveStep(t, r, at, <<name>>, rest, k)
          BY <2>1, <3>1, <5>1, ResolveStepIs
        <5>3. ResolveStep(t, r, at, <<name>>, rest, k) = at \o <<name>>
          BY <4>3 DEF ResolveStep
        <5>4. at \o <<name>> = Append(at, name)
          BY <2>1, <3>1, <3>6, AppendIsConcat DEF Locations
        <5>5. QED  BY <4>1, <4>2, <5>2, <5>3, <5>4 DEF Agree
      <4>4. CASE rest # <<>>
        BY <4>1, <4>4 DEF Agree
      <4>5. QED  BY <4>3, <4>4
    <3>7. CASE name \notin {".", ".."} /\ c \in DOMAIN t /\ t[c].kind # "link"
      <4>1. w[WalkState(at, p, k)] = w[WalkState(c, rest, k)]
        BY <2>2, <2>6, <3>7 DEF WalkStep
      <4>2. r[ResolveState(at, <<>>, p, k)] = r[ResolveState(c, <<>>, rest, k)]
        BY <2>3, <2>6, <3>7 DEF ResolveStep
      <4>3. QED  BY <3>3, <3>7, <4>1, <4>2 DEF Agree
    <3>8. CASE name \notin {".", ".."} /\ c \in DOMAIN t /\ t[c].kind = "link" /\ k = KernelLinks
      BY <2>2, <2>6, <3>8 DEF WalkStep, Agree
    <3>9. CASE name \notin {".", ".."} /\ c \in DOMAIN t /\ t[c].kind = "link" /\ k # KernelLinks
      <4> DEFINE from == IF t[c].abs THEN <<>> ELSE at
                 to == t[c].to \o rest
      <4>1. w[WalkState(at, p, k)] = w[WalkState(from, to, k + 1)]
        BY <2>2, <2>6, <3>9 DEF WalkStep
      <4>2. k + 1 \in 0..KernelLinks /\ k + 1 > k /\ k # ResolveLinks
        BY <3>9, LinkAssumption
      <4>3. r[ResolveState(at, <<>>, p, k)] = r[ResolveState(from, <<>>, to, k + 1)]
        BY <2>3, <2>6, <3>9, <4>2 DEF ResolveStep
      <4>4. to \in Paths
        <5>1. t[c].to \in Paths
          BY <3>9 DEF Tree
        <5>2. QED  BY <3>1, <5>1, ConcatProperties DEF Paths
      <4>5. from \in DOMAIN t
        BY DEF Tree
      <4> HIDE DEF from, to
      <4>6. Agree(w, r, from, to, k + 1)
        BY <1>1, <4>2, <4>4, <4>5
      <4>7. QED  BY <4>1, <4>3, <4>6 DEF Agree
    <3>10. QED  BY <3>4, <3>5, <3>6, <3>7, <3>8, <3>9
  <2>7. QED  BY <2>4, <2>5, <2>6
<1>2. \A p \in Paths, k \in 0..KernelLinks :
        <<p, k>> \in G <=> \A at \in DOMAIN t : Agree(w, r, at, p, k)
  OBVIOUS
<1> HIDE DEF G
<1>3. \A p \in Paths, k \in 0..KernelLinks :
        (\A q \in Paths, l \in 0..KernelLinks :
           l > k \/ (l = k /\ Len(q) < Len(p)) => <<q, l>> \in G)
          => <<p, k>> \in G
  BY <1>1, <1>2
<1>4. \A p \in Paths, k \in 0..KernelLinks : <<p, k>> \in G
  <2>1. KernelLinks \in Nat
    BY LinkAssumption
  <2>2. QED  BY <1>3, <2>1, PathInduction
<1>5. QED  BY <1>2, <1>4


-------------------------------------------------------------------------------
(* What Resolve returns                                                    *)

\* r is there and nothing below it on the way to r \o u is; no link is left.
Resting(t, r, u) ==
  /\ r \in DOMAIN t /\ u \in Locations
  /\ r = <<>> \/ t[r].kind # "link"
  /\ u # <<>> => t[r].kind = "dir" /\ Append(r, Head(u)) \notin DOMAIN t
Rests(t, v) == v = Failed \/ \E r \in DOMAIN t, u \in Locations : Resting(t, r, u) /\ v = r \o u
Settles(t, g, r, u, parts, links) ==
  Resting(t, r, u) => Rests(t, g[ResolveState(r, u, parts, links)])

\* Both parts of the state of Resolve keep that form.
LEMMA RestingGoesOn ==
  ASSUME NEW t, Tree(t), NEW r, NEW u, Resting(t, r, u)
  PROVE  /\ u # <<>> => Resting(t, r, Front(u))
         /\ u = <<>> => Resting(t, Parent(r), <<>>)
         /\ u # <<>> => \A name \in Names : Resting(t, r, Append(u, name))
         /\ t[r].kind = "dir" => \A name \in Names :
              /\ Append(r, name) \notin DOMAIN t => Resting(t, r, <<name>>)
              /\ Append(r, name) \in DOMAIN t /\ t[Append(r, name)].kind # "link"
                   => Resting(t, Append(r, name), <<>>)
         /\ u = <<>> => Resting(t, <<>>, <<>>)
<1>1. r \in DOMAIN t /\ r \in Locations /\ u \in Locations /\ (r = <<>> \/ t[r].kind # "link")
  BY DEF Resting, Tree
<1>2. u # <<>> => t[r].kind = "dir" /\ Append(r, Head(u)) \notin DOMAIN t
  BY DEF Resting
<1>3. <<>> \in Locations /\ <<>> \in DOMAIN t
  BY LocationsAre DEF Tree
<1>4. ASSUME u # <<>> PROVE Resting(t, r, Front(u))
  <2>1. PICK up \in Locations, name \in Names :
          Front(u) = up /\ Head(u) = IF up = <<>> THEN name ELSE Head(up)
    BY <1>1, <1>4, LastName
  <2>2. QED  BY <1>1, <1>2, <1>4, <2>1 DEF Resting
<1>5. ASSUME u = <<>> PROVE Resting(t, Parent(r), <<>>)
  <2>1. CASE r = <<>>
    BY <1>3, <2>1 DEF Resting, Parent
  <2>2. CASE r # <<>>
    <3>1. Parent(r) \in DOMAIN t /\ t[Parent(r)].kind = "dir"
      BY <1>1, <2>2 DEF Tree
    <3>2. QED  BY <1>3, <3>1 DEF Resting
  <2>3. QED  BY <2>1, <2>2
<1>6. ASSUME u # <<>>, NEW name \in Names PROVE Resting(t, r, Append(u, name))
  <2>1. u \in Seq(Names) /\ Append(u, name) \in Locations
    BY <1>1, LocationsAre DEF Locations
  <2>2. Head(Append(u, name)) = Head(u) /\ Append(u, name) # <<>>
    BY <1>6, <2>1, AppendProperties
  <2>3. QED  BY <1>1, <1>2, <1>6, <2>1, <2>2 DEF Resting
<1>7. ASSUME t[r].kind = "dir", NEW name \in Names, Append(r, name) \notin DOMAIN t
      PROVE  Resting(t, r, <<name>>)
  <2>1. <<name>> \in Locations /\ Head(<<name>>) = name
    BY DEF Locations
  <2>2. QED  BY <1>1, <1>7, <2>1 DEF Resting
<1>8. ASSUME NEW name \in Names, Append(r, name) \in DOMAIN t, t[Append(r, name)].kind # "link"
      PROVE  Resting(t, Append(r, name), <<>>)
  BY <1>3, <1>8 DEF Resting
<1>9. Resting(t, <<>>, <<>>)
  BY <1>3 DEF Resting
<1>10. QED  BY <1>4, <1>5, <1>6, <1>7, <1>8, <1>9

\* Resolve returns an error, or what is there of the path and then what is not.
LEMMA ResultRests ==
  ASSUME NEW t, Tree(t), NEW g, IsResolve(t, g)
  PROVE  \A parts \in Paths, links \in 0..ResolveLinks :
           \A r \in DOMAIN t, u \in Locations : Settles(t, g, r, u, parts, links)
<1> DEFINE All(p, k) == \A r \in DOMAIN t, u \in Locations : Settles(t, g, r, u, p, k)
           G == {s \in Paths \X (0..ResolveLinks) : All(s[1], s[2])}
<1>1. ASSUME NEW p \in Paths, NEW k \in 0..ResolveLinks,
             \A q \in Paths, l \in 0..ResolveLinks :
               l > k \/ (l = k /\ Len(q) < Len(p)) => All(q, l),
             NEW r \in DOMAIN t, NEW u \in Locations, Resting(t, r, u)
      PROVE  Rests(t, g[ResolveState(r, u, p, k)])
  <2> DEFINE rest == Tail(p)
             name == Head(p)
             c == Append(r, name)
  <2>1. r \in Locations /\ <<>> \in Locations /\ <<>> \in DOMAIN t
    BY LocationsAre DEF Tree
  <2>2. g[ResolveState(r, u, p, k)] = ResolveStep(t, g, r, u, p, k)
    BY <2>1, ResolveStepIs
  <2>3. CASE p = <<>>
    <3>1. g[ResolveState(r, u, p, k)] = r \o u
      BY <2>2, <2>3 DEF ResolveStep
    <3>2. QED  BY <1>1, <3>1 DEF Rests
  <2>4. CASE p # <<>>
    <3>1. /\ name \in Components /\ rest \in Paths /\ Len(rest) = Len(p) - 1 /\ Len(p) \in Nat
          /\ name \notin {".", ".."} => name \in Names
      BY <2>4, PathTaken
    <3>2. Len(rest) < Len(p)
      <4> HIDE DEF rest
      <4>1. QED  BY <3>1
    <3>3. ASSUME NEW x, NEW v, Resting(t, x, v) PROVE Rests(t, g[ResolveState(x, v, rest, k)])
      <4> HIDE DEF rest
      <4>1. All(rest, k)
        BY <1>1, <3>1, <3>2
      <4>2. x \in DOMAIN t /\ v \in Locations
        BY <3>3 DEF Resting
      <4>3. QED  BY <3>3, <4>1, <4>2 DEF Settles
    <3>4. CASE name = "."
      <4>1. g[ResolveState(r, u, p, k)] = g[ResolveState(r, u, rest, k)]
        BY <2>2, <2>4, <3>4 DEF ResolveStep
      <4>2. QED  BY <1>1, <3>3, <4>1
    <3>5. CASE name = ".."
      <4>1. g[ResolveState(r, u, p, k)] = IF u # <<>> THEN g[ResolveState(r, Front(u), rest, k)]
                                          ELSE g[ResolveState(Parent(r), <<>>, rest, k)]
        BY <2>2, <2>4, <3>5 DEF ResolveStep
      <4>2. (u # <<>> => Resting(t, r, Front(u))) /\ (u = <<>> => Resting(t, Parent(r), <<>>))
        BY <1>1, RestingGoesOn
      <4>3. QED  BY <3>3, <4>1, <4>2
    <3>6. CASE name \notin {".", ".."} /\ u # <<>>
      <4>1. g[ResolveState(r, u, p, k)] = g[ResolveState(r, Append(u, name), rest, k)]
        BY <2>2, <2>4, <3>6 DEF ResolveStep
      <4>2. Resting(t, r, Append(u, name))
        BY <1>1, <3>1, <3>6, RestingGoesOn
      <4>3. QED  BY <3>3, <4>1, <4>2
    <3>7. CASE name \notin {".", ".."} /\ u = <<>> /\ t[r].kind # "dir"
      <4>1. g[ResolveState(r, u, p, k)] = Failed
        BY <2>2, <2>4, <3>7 DEF ResolveStep
      <4>2. QED  BY <4>1 DEF Rests
    <3>8. CASE name \notin {".", ".."} /\ u = <<>> /\ t[r].kind = "dir" /\ c \notin DOMAIN t
      <4>1. g[ResolveState(r, u, p, k)] = g[ResolveState(r, <<name>>, rest, k)]
        BY <2>2, <2>4, <3>8 DEF ResolveStep
      <4>2. Resting(t, r, <<name>>)
        BY <1>1, <3>1, <3>8, RestingGoesOn
      <4>3. QED  BY <3>3, <4>1, <4>2
    <3>9. CASE /\ name \notin {".", ".."} /\ u = <<>> /\ t[r].kind = "dir"
               /\ c \in DOMAIN t /\ t[c].kind # "link"
      <4>1. g[ResolveState(r, u, p, k)] = g[ResolveState(c, <<>>, rest, k)]
        BY <2>2, <2>4, <3>9 DEF ResolveStep
      <4>2. Resting(t, c, <<>>)
        BY <1>1, <3>1, <3>9, RestingGoesOn
      <4>3. QED  BY <3>3, <4>1, <4>2
    <3>10. CASE /\ name \notin {".", ".."} /\ u = <<>> /\ t[r].kind = "dir"
                /\ c \in DOMAIN t /\ t[c].kind = "link" /\ k = ResolveLinks
      <4>1. g[ResolveState(r, u, p, k)] = Failed
        BY <2>2, <2>4, <3>10 DEF ResolveStep
      <4>2. QED  BY <4>1 DEF Rests
    <3>11. CASE /\ name \notin {".", ".."} /\ u = <<>> /\ t[r].kind = "dir"
                /\ c \in DOMAIN t /\ t[c].kind = "link" /\ k # ResolveLinks
      <4> DEFINE from == IF t[c].abs THEN <<>> ELSE r
                 to == t[c].to \o rest
      <4>1. g[ResolveState(r, u, p, k)] = g[ResolveState(from, <<>>, to, k + 1)]
        BY <2>2, <2>4, <3>11 DEF ResolveStep
      <4>2. k + 1 \in 0..ResolveLinks /\ k + 1 > k
        BY <3>11, LinkAssumption
      <4>3. to \in Paths
        <5>1. t[c].to \in Paths
          BY <3>11 DEF Tree
        <5>2. QED  BY <3>1, <5>1, ConcatProperties DEF Paths
      <4>4. Resting(t, from, <<>>) /\ from \in DOMAIN t
        <5>1. Resting(t, <<>>, <<>>)
          BY <1>1, <3>11, RestingGoesOn
        <5>2. QED  BY <1>1, <2>1, <3>11, <5>1
      <4> HIDE DEF from, to
      <4>5. All(to, k + 1)
        BY <1>1, <4>2, <4>3
      <4>6. QED  BY <2>1, <4>1, <4>4, <4>5 DEF Settles
    <3>12. QED  BY <3>4, <3>5, <3>6, <3>7, <3>8, <3>9, <3>10, <3>11
  <2>5. QED  BY <2>3, <2>4
<1>2. \A p \in Paths, k \in 0..ResolveLinks : <<p, k>> \in G <=> All(p, k)
  OBVIOUS
<1>3. ASSUME NEW p \in Paths, NEW k \in 0..ResolveLinks,
             \A q \in Paths, l \in 0..ResolveLinks :
               l > k \/ (l = k /\ Len(q) < Len(p)) => All(q, l)
      PROVE  All(p, k)
  <2>1. SUFFICES ASSUME NEW r \in DOMAIN t, NEW u \in Locations, Resting(t, r, u)
                 PROVE  Rests(t, g[ResolveState(r, u, p, k)])
    BY DEF Settles
  <2> HIDE DEF All
  <2>2. QED  BY <1>1, <1>3, <2>1
<1> HIDE DEF G, All
<1>4. \A p \in Paths, k \in 0..ResolveLinks :
        (\A q \in Paths, l \in 0..ResolveLinks :
           l > k \/ (l = k /\ Len(q) < Len(p)) => <<q, l>> \in G)
          => <<p, k>> \in G
  BY <1>2, <1>3
<1>5. \A p \in Paths, k \in 0..ResolveLinks : <<p, k>> \in G
  <2>1. ResolveLinks \in Nat
    BY LinkAssumption
  <2>2. QED  BY <1>4, <2>1, PathInduction
<1>6. QED  BY <1>2, <1>5 DEF All

\* Taking the first name off a location with another behind it.
LEMMA FirstOfBoth ==
  ASSUME NEW y \in Locations, y # <<>>, NEW u \in Locations
  PROVE  /\ y \o u \in Locations /\ y \o u # <<>>
         /\ Head(y \o u) = Head(y) /\ Tail(y \o u) = Tail(y) \o u
<1> DEFINE h == Head(y)
           rest == Tail(y)
           v == y \o u
<1>1. h \in Names /\ rest \in Seq(Names) /\ y = <<h>> \o rest /\ y[1] = h
  BY FirstName DEF Locations
<1>2. y \in Seq(Names) /\ u \in Seq(Names) /\ <<h>> \in Seq(Names) /\ Len(y) \in Nat /\ Len(y) # 0
  BY <1>1, FirstName, EmptySeq, LenProperties DEF Locations
<1> HIDE DEF h, rest
<1>3. v \in Seq(Names) /\ v # <<>> /\ v[1] = y[1]
  <2>1. v \in Seq(Names) /\ (v = <<>> => y = <<>>)
    BY <1>2, ConcatProperties, ConcatSimplifications
  <2>2. Len(u) \in Nat
    BY <1>2, LenProperties
  <2>3. 1 \in 1..(Len(y) + Len(u)) /\ 1 <= Len(y)
    BY <1>2, <2>2
  <2>4. v[1] = y[1]
    BY <1>2, <2>3, ConcatProperties
  <2>5. QED  BY <2>1, <2>4
<1>4. v = <<h>> \o (rest \o u) /\ rest \o u \in Seq(Names)
  BY <1>1, <1>2, ConcatAssociative, ConcatProperties
<1>5. v \in Locations /\ v = <<Head(v)>> \o Tail(v) /\ v[1] = Head(v) /\ Tail(v) \in Seq(Names)
  <2> HIDE DEF v
  <2>1. QED  BY <1>3, FirstName DEF Locations
<1>6. Head(v) = h
  <2> HIDE DEF v
  <2>1. QED  BY <1>1, <1>3, <1>5
<1>7. Tail(v) = rest \o u
  <2> HIDE DEF v
  <2> DEFINE a == <<h>>
             b == Tail(v)
             d == rest \o u
  <2>1. a \in Seq(Names) /\ b \in Seq(Names) /\ d \in Seq(Names) /\ a \o b = a \o d
    BY <1>2, <1>4, <1>5, <1>6
  <2> HIDE DEF a, b, d
  <2>2. b = d
    BY <2>1, ConcatSimplifications
  <2>3. QED  BY <2>2 DEF b, d
<1>8. QED  BY <1>3, <1>5, <1>6, <1>7 DEF h, rest

\* Moving the first name of what is left to what is done.
LEMMA MoveFirst ==
  ASSUME NEW x \in Locations, NEW y \in Locations, y # <<>>
  PROVE  /\ Append(x, Head(y)) \in Locations /\ Append(x, Head(y)) # <<>>
         /\ Append(x, Head(y)) \o Tail(y) = x \o y
<1> DEFINE h == Head(y)
           rest == Tail(y)
<1>1. h \in Names /\ rest \in Seq(Names) /\ y = <<h>> \o rest
  BY FirstName DEF Locations
<1> HIDE DEF h, rest
<1>2. x \in Seq(Names) /\ <<h>> \in Seq(Names)
  BY <1>1 DEF Locations
<1>3. Append(x, h) = x \o <<h>> /\ Append(x, h) # <<>> /\ Append(x, h) \in Seq(Names)
  BY <1>1, <1>2, AppendIsConcat, AppendProperties
<1>4. (x \o <<h>>) \o rest = x \o (<<h>> \o rest)
  BY <1>1, <1>2, ConcatAssociative
<1>5. QED  BY <1>1, <1>3, <1>4 DEF h, rest, Locations

\* Names below one that is missing stay as they are; from any location above r
\* it is the same to go down to r first.
MissingStays(g, r) == \A y \in Locations : \A x \in Locations \ {<<>>} :
  g[ResolveState(r, x, y, 0)] = r \o (x \o y)
ThereStays(g, r, u) == \A y \in Locations : \A x \in Locations :
  x \o y = r => g[ResolveState(x, <<>>, y \o u, 0)] = g[ResolveState(r, <<>>, u, 0)]

\* Below a name that is not there, Resolve keeps the names as they are.
LEMMA MissingKept ==
  ASSUME NEW t, Tree(t), NEW g, IsResolve(t, g), NEW r \in Locations
  PROVE  MissingStays(g, r)
<1> DEFINE Good(y) == \A x \in Locations \ {<<>>} : g[ResolveState(r, x, y, 0)] = r \o (x \o y)
           T == {n \in Nat : \A y \in Locations : Len(y) = n => Good(y)}
<1>1. ASSUME NEW x \in Locations, NEW y \in Locations
      PROVE  g[ResolveState(r, x, y, 0)] = ResolveStep(t, g, r, x, y, 0)
  <2>1. 0 \in 0..ResolveLinks /\ y \in Paths
    BY LinkAssumption, NamesAre
  <2>2. QED  BY <2>1, ResolveStepIs
<1>2. 0 \in T
  <2>1. ASSUME NEW y \in Locations, Len(y) = 0, NEW x \in Locations \ {<<>>}
        PROVE  g[ResolveState(r, x, y, 0)] = r \o (x \o y)
    <3>1. y = <<>>
      BY <2>1, EmptySeq DEF Locations
    <3>2. x \o y = x
      BY <3>1, ConcatEmptySeq DEF Locations
    <3>3. QED  BY <1>1, <3>1, <3>2 DEF ResolveStep
  <2>2. QED  BY <2>1
<1>3. ASSUME NEW n \in T PROVE n + 1 \in T
  <2>1. ASSUME NEW y \in Locations, Len(y) = n + 1, NEW x \in Locations \ {<<>>}
        PROVE  g[ResolveState(r, x, y, 0)] = r \o (x \o y)
    <3> DEFINE h == Head(y)
               rest == Tail(y)
               c == Append(x, h)
    <3>1. n \in Nat /\ \A v \in Locations : Len(v) = n => Good(v)
      BY <1>3
    <3>2. y # <<>>
      BY <2>1, <3>1, EmptySeq
    <3>3. h \in Names /\ rest \in Locations /\ Len(rest) = n
      <4>1. h \in Names /\ rest \in Locations /\ Len(rest) = Len(y) - 1
        BY <3>2, FirstName
      <4>2. (n + 1) - 1 = n
        BY <3>1
      <4>3. QED  BY <2>1, <4>1, <4>2, Zenon
    <3>4. c \in Locations /\ c # <<>> /\ c \o rest = x \o y
      BY <3>2, MoveFirst
    <3>5. h \notin {".", ".."}
      BY <3>3, NamesAre
    <3>6. g[ResolveState(r, x, y, 0)] = g[ResolveState(r, c, rest, 0)]
      BY <1>1, <3>2, <3>5 DEF ResolveStep
    <3> HIDE DEF h, rest, c
    <3>7. g[ResolveState(r, c, rest, 0)] = r \o (c \o rest)
      BY <3>1, <3>3, <3>4
    <3>8. QED  BY <3>4, <3>6, <3>7
  <2>2. n + 1 \in Nat
    BY <1>3
  <2>3. QED  BY <2>1, <2>2
<1>4. T = Nat
  <2> HIDE DEF T
  <2>1. T \in SUBSET Nat
    BY DEF T
  <2>2. QED  BY <1>2, <1>3, <2>1, NatClosure
<1>5. \A y \in Locations : Len(y) \in Nat
  BY LenProperties DEF Locations
<1>6. QED  BY <1>4, <1>5 DEF MissingStays

\* What exists and is no link, Resolve walks down as it is.
LEMMA ThereKept ==
  ASSUME NEW t, Tree(t), NEW g, IsResolve(t, g),
         NEW r, NEW u, Resting(t, r, u)
  PROVE  ThereStays(g, r, u)
<1> DEFINE Good(y) == \A x \in Locations : x \o y = r =>
                        g[ResolveState(x, <<>>, y \o u, 0)] = g[ResolveState(r, <<>>, u, 0)]
           T == {n \in Nat : \A y \in Locations : Len(y) = n => Good(y)}
<1>1. r \in DOMAIN t /\ r \in Locations /\ u \in Locations /\ (r = <<>> \/ t[r].kind # "link")
  BY DEF Resting, Tree
<1>2. ASSUME NEW x \in Locations, NEW p \in Locations
      PROVE  g[ResolveState(x, <<>>, p, 0)] = ResolveStep(t, g, x, <<>>, p, 0)
  <2>1. 0 \in 0..ResolveLinks /\ p \in Paths /\ <<>> \in Locations
    BY LinkAssumption, NamesAre, LocationsAre
  <2>2. QED  BY <2>1, ResolveStepIs
<1>3. 0 \in T
  <2>1. ASSUME NEW y \in Locations, Len(y) = 0, NEW x \in Locations, x \o y = r
        PROVE  g[ResolveState(x, <<>>, y \o u, 0)] = g[ResolveState(r, <<>>, u, 0)]
    <3>1. y = <<>>
      BY <2>1, EmptySeq DEF Locations
    <3>2. x \o y = x /\ y \o u = u
      BY <1>1, <3>1, ConcatEmptySeq DEF Locations
    <3>3. QED  BY <2>1, <3>2
  <2>2. QED  BY <2>1
<1>4. ASSUME NEW n \in T PROVE n + 1 \in T
  <2>1. ASSUME NEW y \in Locations, Len(y) = n + 1, NEW x \in Locations, x \o y = r
        PROVE  g[ResolveState(x, <<>>, y \o u, 0)] = g[ResolveState(r, <<>>, u, 0)]
    <3> DEFINE h == Head(y)
               rest == Tail(y)
               c == Append(x, h)
               p == y \o u
    <3>1. n \in Nat /\ \A v \in Locations : Len(v) = n => Good(v)
      BY <1>4
    <3>2. y # <<>>
      BY <2>1, <3>1, EmptySeq
    <3>3. h \in Names /\ rest \in Locations /\ Len(rest) = n /\ h \notin {".", ".."}
      <4>1. h \in Names /\ rest \in Locations /\ Len(rest) = Len(y) - 1
        BY <3>2, FirstName
      <4>2. (n + 1) - 1 = n
        BY <3>1
      <4>3. h \notin {".", ".."}
        BY <4>1, NamesAre
      <4>4. QED  BY <2>1, <4>1, <4>2, <4>3, Zenon
    <3>4. c \in Locations /\ c # <<>> /\ c \o rest = r
      BY <2>1, <3>2, MoveFirst
    <3>5. p \in Locations /\ p # <<>> /\ Head(p) = h /\ Tail(p) = rest \o u
      BY <1>1, <3>2, FirstOfBoth
    <3>6. t[x].kind = "dir"
      BY <1>1, <2>1, <3>2, PrefixesExist
    <3>7. c \in DOMAIN t /\ t[c].kind # "link"
      <4> HIDE DEF c, rest
      <4>1. c \in DOMAIN t /\ (rest # <<>> => t[c].kind = "dir")
        BY <1>1, <3>3, <3>4, PrefixesExist
      <4>2. CASE rest = <<>>
        <5>1. c = r
          BY <3>4, <4>2, ConcatEmptySeq DEF Locations
        <5>2. QED  BY <1>1, <3>4, <4>1, <5>1
      <4>3. QED  BY <4>1, <4>2
    <3> HIDE DEF p
    <3>8. g[ResolveState(x, <<>>, p, 0)] = g[ResolveState(c, <<>>, rest \o u, 0)]
      <4>1. g[ResolveState(x, <<>>, p, 0)] = ResolveStep(t, g, x, <<>>, p, 0)
        BY <1>2, <2>1, <3>5
      <4> HIDE DEF h, rest
      <4>2. QED  BY <3>3, <3>5, <3>6, <3>7, <4>1 DEF ResolveStep
    <3> HIDE DEF h, rest, c
    <3>9. g[ResolveState(c, <<>>, rest \o u, 0)] = g[ResolveState(r, <<>>, u, 0)]
      BY <3>1, <3>3, <3>4
    <3>10. QED  BY <3>8, <3>9 DEF p
  <2>2. n + 1 \in Nat
    BY <1>4
  <2>3. QED  BY <2>1, <2>2
<1>5. T = Nat
  <2> HIDE DEF T
  <2>1. T \in SUBSET Nat
    BY DEF T
  <2>2. QED  BY <1>3, <1>4, <2>1, NatClosure
<1>6. \A y \in Locations : Len(y) \in Nat
  BY LenProperties DEF Locations
<1>7. QED  BY <1>5, <1>6 DEF ThereStays

\* Resolve changes nothing in what it may have returned.
LEMMA RestingStays ==
  ASSUME NEW t, Tree(t), NEW g, IsResolve(t, g),
         NEW r, NEW u, Resting(t, r, u)
  PROVE  g[ResolveState(<<>>, <<>>, r \o u, 0)] = r \o u
<1> DEFINE h == Head(u)
           rest == Tail(u)
<1>1. r \in DOMAIN t /\ r \in Locations /\ u \in Locations /\ <<>> \in Locations
  BY LocationsAre DEF Resting, Tree
<1>2. g[ResolveState(<<>>, <<>>, r \o u, 0)] = g[ResolveState(r, <<>>, u, 0)]
  <2>1. <<>> \o r = r
    BY <1>1, ConcatEmptySeq DEF Locations
  <2>2. ThereStays(g, r, u)
    BY ThereKept
  <2>3. QED  BY <1>1, <2>1, <2>2 DEF ThereStays
<1>3. g[ResolveState(r, <<>>, u, 0)] = ResolveStep(t, g, r, <<>>, u, 0)
  <2>1. 0 \in 0..ResolveLinks /\ u \in Paths
    BY <1>1, LinkAssumption, NamesAre
  <2>2. QED  BY <1>1, <2>1, ResolveStepIs
<1>4. CASE u = <<>>
  BY <1>2, <1>3, <1>4 DEF ResolveStep
<1>5. CASE u # <<>>
  <2>1. h \in Names /\ rest \in Locations /\ h \notin {".", ".."} /\ u = <<h>> \o rest
    BY <1>1, <1>5, FirstName, NamesAre
  <2>2. t[r].kind = "dir" /\ Append(r, h) \notin DOMAIN t
    BY <1>5 DEF Resting
  <2>3. g[ResolveState(r, <<>>, u, 0)] = g[ResolveState(r, <<h>>, rest, 0)]
    BY <1>3, <1>5, <2>1, <2>2 DEF ResolveStep
  <2> HIDE DEF h, rest
  <2>4. <<h>> \in Locations \ {<<>>}
    BY <2>1 DEF Locations
  <2>5. g[ResolveState(r, <<h>>, rest, 0)] = r \o (<<h>> \o rest)
    <3>1. MissingStays(g, r)
      BY <1>1, MissingKept
    <3>2. QED  BY <2>1, <2>4, <3>1 DEF MissingStays
  <2>6. QED  BY <1>2, <2>1, <2>3, <2>5
<1>6. QED  BY <1>4, <1>5

\* No part of v is a link.
NoLinkIn(t, v) ==
  \A x \in DOMAIN t \ {<<>>}, y \in Locations : x \o y = v => t[x].kind # "link"

\* No part of what Resolve may have returned is one.
LEMMA RestingHasNoLink ==
  ASSUME NEW t, Tree(t), NEW r
  PROVE  \A u \in Locations : Resting(t, r, u) => NoLinkIn(t, r \o u)
<1> DEFINE Good(u) == Resting(t, r, u) => NoLinkIn(t, r \o u)
           T == {n \in Nat : \A u \in Locations : Len(u) = n => Good(u)}
<1>1. 0 \in T
  <2>1. ASSUME NEW u \in Locations, Len(u) = 0, Resting(t, r, u),
               NEW x \in DOMAIN t \ {<<>>}, NEW y \in Locations, x \o y = r \o u
        PROVE  t[x].kind # "link"
    <3>1. u = <<>> /\ r \in Locations /\ x \in Locations
      BY <2>1, EmptySeq DEF Locations, Resting, Tree
    <3>2. x \o y = r /\ r \in DOMAIN t /\ (r = <<>> \/ t[r].kind # "link")
      BY <2>1, <3>1, ConcatEmptySeq DEF Locations, Resting
    <3>3. CASE y = <<>>
      <4>1. x = r
        BY <3>1, <3>2, <3>3, ConcatEmptySeq DEF Locations
      <4>2. QED  BY <2>1, <3>2, <4>1
    <3>4. CASE y # <<>>
      BY <3>1, <3>2, <3>4, PrefixesExist
    <3>5. QED  BY <3>3, <3>4
  <2>2. QED  BY <2>1 DEF NoLinkIn
<1>2. ASSUME NEW n \in T PROVE n + 1 \in T
  <2>1. ASSUME NEW u \in Locations, Len(u) = n + 1, Resting(t, r, u),
               NEW x \in DOMAIN t \ {<<>>}, NEW y \in Locations, x \o y = r \o u
        PROVE  t[x].kind # "link"
    <3>1. n \in Nat /\ \A v \in Locations : Len(v) = n => Good(v)
      BY <1>2
    <3>2. u # <<>>
      BY <2>1, <3>1, EmptySeq
    <3>3. r \in Locations /\ x \in Locations
      BY <2>1 DEF Resting, Tree
    <3>4. CASE y = <<>>
      <4> DEFINE c == Append(r, Head(u))
                 rest == Tail(u)
      <4>1. c \in Locations /\ c \o rest = r \o u /\ rest \in Locations
        BY <3>2, <3>3, MoveFirst, FirstName
      <4>2. x = r \o u
        BY <2>1, <3>3, <3>4, ConcatEmptySeq DEF Locations
      <4>3. c \notin DOMAIN t
        BY <2>1, <3>2 DEF Resting
      <4> HIDE DEF c, rest
      <4>4. c \o rest \in DOMAIN t
        BY <4>1, <4>2
      <4>5. c \in DOMAIN t
        BY <4>1, <4>4, PrefixesExist
      <4>6. QED  BY <4>3, <4>5
    <3>5. CASE y # <<>>
      <4>1. PICK v \in Locations, name \in Names :
              u = Append(v, name) /\ Front(u) = v /\ Len(u) = Len(v) + 1 /\ Len(v) \in Nat
        BY <3>2, LastName
      <4>2. PICK z \in Locations, m \in Names : y = Append(z, m)
        BY <3>5, LastName
      <4>3. Len(v) = n
        BY <2>1, <3>1, <4>1
      <4>4. x \o z = r \o v
        <5> DEFINE a == x \o z
                   b == r \o v
        <5>1. /\ x \in Seq(Names) /\ z \in Seq(Names) /\ r \in Seq(Names) /\ v \in Seq(Names)
              /\ <<m>> \in Seq(Names) /\ <<name>> \in Seq(Names)
          BY <3>3 DEF Locations
        <5>2. a \in Seq(Names) /\ b \in Seq(Names)
          BY <5>1, ConcatProperties
        <5>3. x \o y = a \o <<m>> /\ r \o u = b \o <<name>>
          <6>1. y = z \o <<m>> /\ u = v \o <<name>>
            BY <4>1, <4>2, <5>1, AppendIsConcat
          <6>2. x \o (z \o <<m>>) = a \o <<m>>
            BY <5>1, ConcatAssociative
          <6>3. r \o (v \o <<name>>) = b \o <<name>>
            BY <5>1, ConcatAssociative
          <6>4. QED  BY <6>1, <6>2, <6>3, Zenon
        <5> HIDE DEF a, b
        <5>4. Append(a, m) = Append(b, name)
          BY <2>1, <5>2, <5>3, AppendIsConcat
        <5>5. a = b
          BY <5>2, <5>4, AppendInjective
        <5>6. QED  BY <5>5 DEF a, b
      <4>5. Resting(t, r, v)
        BY <2>1, <3>2, <4>1, RestingGoesOn
      <4>6. NoLinkIn(t, r \o v)
        BY <3>1, <4>3, <4>5
      <4>7. QED  BY <4>4, <4>6 DEF NoLinkIn
    <3>6. QED  BY <3>4, <3>5
  <2>2. n + 1 \in Nat
    BY <1>2
  <2>3. QED  BY <2>1, <2>2 DEF NoLinkIn
<1>3. T = Nat
  <2> HIDE DEF T
  <2>1. T \in SUBSET Nat
    BY DEF T
  <2>2. QED  BY <1>1, <1>2, <2>1, NatClosure
<1>4. \A u \in Locations : Len(u) \in Nat
  BY LenProperties DEF Locations
<1>5. QED  BY <1>3, <1>4


-------------------------------------------------------------------------------
(* What a lookup finds                                                     *)

\* What is said to be found is there, and what is not there has a directory.
Sound(t, v) ==
  /\ v.is \in {"file", "dir", "link", "free", "none", "error"}
  /\ v.is \in {"file", "dir", "link"} => v.at \in DOMAIN t /\ t[v.at].kind = v.is
  /\ v.is \in {"free", "none"} => /\ v.at \in Locations \ DOMAIN t /\ v.at # <<>>
                                  /\ Parent(v.at) \in DOMAIN t /\ t[Parent(v.at)].kind = "dir"

\* A lookup says so from wherever it starts.
Finds(t, w, at, parts, links) == Sound(t, w[WalkState(at, parts, links)])

\* No lookup says what is not so.
LEMMA WalkSound ==
  ASSUME NEW t, Tree(t), NEW follow, NEW w, IsWalk(t, follow, w)
  PROVE  \A parts \in Paths, links \in 0..KernelLinks : \A at \in DOMAIN t :
           Finds(t, w, at, parts, links)
<1> DEFINE All(p, k) == \A at \in DOMAIN t : Finds(t, w, at, p, k)
           G == {s \in Paths \X (0..KernelLinks) : All(s[1], s[2])}
<1>1. ASSUME NEW p \in Paths, NEW k \in 0..KernelLinks,
             \A q \in Paths, l \in 0..KernelLinks :
               l > k \/ (l = k /\ Len(q) < Len(p)) => All(q, l),
             NEW at \in DOMAIN t
      PROVE  Finds(t, w, at, p, k)
  <2> DEFINE rest == Tail(p)
             name == Head(p)
             c == Append(at, name)
  <2>1. at \in Locations /\ t[at].kind \in {"dir", "file", "link"}
    BY DEF Tree
  <2>2. w[WalkState(at, p, k)] = WalkStep(t, follow, w, at, p, k)
    BY <2>1, WalkStepIs
  <2>3. CASE p = <<>>
    <3>1. w[WalkState(at, p, k)] = [is |-> t[at].kind, at |-> at]
      BY <2>2, <2>3 DEF WalkStep
    <3>2. QED  BY <2>1, <3>1 DEF Finds, Sound
  <2>4. CASE p # <<>> /\ t[at].kind # "dir"
    <3>1. w[WalkState(at, p, k)] = [is |-> "error", at |-> at]
      BY <2>2, <2>4 DEF WalkStep
    <3>2. QED  BY <3>1 DEF Finds, Sound
  <2>5. CASE p # <<>> /\ t[at].kind = "dir"
    <3>1. /\ name \in Components /\ rest \in Paths /\ Len(rest) = Len(p) - 1 /\ Len(p) \in Nat
          /\ name \notin {".", ".."} => name \in Names
      BY <2>5, PathTaken
    <3>2. Len(rest) < Len(p)
      <4> HIDE DEF rest
      <4>1. QED  BY <3>1
    <3>3. \A q \in DOMAIN t : Finds(t, w, q, rest, k)
      <4> HIDE DEF rest
      <4>1. QED  BY <1>1, <3>1, <3>2
    <3>4. CASE name = "."
      <4>1. w[WalkState(at, p, k)] = w[WalkState(at, rest, k)]
        BY <2>2, <2>5, <3>4 DEF WalkStep
      <4>2. QED  BY <3>3, <4>1 DEF Finds
    <3>5. CASE name = ".."
      <4>1. w[WalkState(at, p, k)] = w[WalkState(Parent(at), rest, k)]
        BY <2>2, <2>5, <3>5 DEF WalkStep
      <4>2. Parent(at) \in DOMAIN t
        <5>1. CASE at = <<>>
          BY <5>1 DEF Parent
        <5>2. CASE at # <<>>
          BY <5>2 DEF Tree
        <5>3. QED  BY <5>1, <5>2
      <4>3. QED  BY <3>3, <4>1, <4>2 DEF Finds
    <3>6. CASE name \notin {".", ".."} /\ c \notin DOMAIN t
      <4>1. w[WalkState(at, p, k)] = [is |-> IF rest = <<>> THEN "free" ELSE "none", at |-> c]
        BY <2>2, <2>5, <3>6 DEF WalkStep
      <4>2. c \in Locations /\ c # <<>> /\ Parent(c) = at
        BY <2>1, <3>1, <3>6, ParentOfAppend
      <4> HIDE DEF c, rest
      <4>3. QED  BY <2>5, <3>6, <4>1, <4>2 DEF Finds, Sound
    <3>7. CASE name \notin {".", ".."} /\ c \in DOMAIN t /\ t[c].kind # "link"
      <4>1. w[WalkState(at, p, k)] = w[WalkState(c, rest, k)]
        BY <2>2, <2>5, <3>7 DEF WalkStep
      <4>2. QED  BY <3>3, <3>7, <4>1 DEF Finds
    <3>8. CASE /\ name \notin {".", ".."} /\ c \in DOMAIN t /\ t[c].kind = "link"
               /\ rest = <<>> /\ ~follow
      <4>1. w[WalkState(at, p, k)] = [is |-> "link", at |-> c]
        BY <2>2, <2>5, <3>8 DEF WalkStep
      <4>2. QED  BY <3>8, <4>1 DEF Finds, Sound
    <3>9. CASE /\ name \notin {".", ".."} /\ c \in DOMAIN t /\ t[c].kind = "link"
               /\ ~(rest = <<>> /\ ~follow) /\ k = KernelLinks
      <4>1. w[WalkState(at, p, k)] = [is |-> "error", at |-> c]
        BY <2>2, <2>5, <3>9 DEF WalkStep
      <4>2. QED  BY <4>1 DEF Finds, Sound
    <3>10. CASE /\ name \notin {".", ".."} /\ c \in DOMAIN t /\ t[c].kind = "link"
                /\ ~(rest = <<>> /\ ~follow) /\ k # KernelLinks
      <4> DEFINE from == IF t[c].abs THEN <<>> ELSE at
                 to == t[c].to \o rest
      <4>1. w[WalkState(at, p, k)] = w[WalkState(from, to, k + 1)]
        BY <2>2, <2>5, <3>10 DEF WalkStep
      <4>2. k + 1 \in 0..KernelLinks /\ k + 1 > k
        BY <3>10, LinkAssumption
      <4>3. to \in Paths
        <5>1. t[c].to \in Paths
          BY <3>10 DEF Tree
        <5>2. QED  BY <3>1, <5>1, ConcatProperties DEF Paths
      <4>4. from \in DOMAIN t
        BY DEF Tree
      <4> HIDE DEF from, to
      <4>5. Finds(t, w, from, to, k + 1)
        BY <1>1, <4>2, <4>3, <4>4
      <4>6. QED  BY <4>1, <4>5 DEF Finds
    <3>11. QED  BY <3>4, <3>5, <3>6, <3>7, <3>8, <3>9, <3>10
  <2>6. QED  BY <2>3, <2>4, <2>5
<1>2. \A p \in Paths, k \in 0..KernelLinks : <<p, k>> \in G <=> All(p, k)
  OBVIOUS
<1>3. ASSUME NEW p \in Paths, NEW k \in 0..KernelLinks,
             \A q \in Paths, l \in 0..KernelLinks :
               l > k \/ (l = k /\ Len(q) < Len(p)) => All(q, l)
      PROVE  All(p, k)
  BY <1>1, <1>3, Zenon
<1> HIDE DEF G, All
<1>4. \A p \in Paths, k \in 0..KernelLinks :
        (\A q \in Paths, l \in 0..KernelLinks :
           l > k \/ (l = k /\ Len(q) < Len(p)) => <<q, l>> \in G)
          => <<p, k>> \in G
  BY <1>2, <1>3
<1>5. \A p \in Paths, k \in 0..KernelLinks : <<p, k>> \in G
  <2>1. KernelLinks \in Nat
    BY LinkAssumption
  <2>2. QED  BY <1>4, <2>1, PathInduction
<1>6. QED  BY <1>2, <1>5 DEF All

\* So every lookup of a path is sound.
LEMMA LookupIsSound ==
  ASSUME NEW t, Tree(t), NEW p \in Paths, NEW follow \in BOOLEAN
  PROVE  Sound(t, Walk(t, p, follow))
<1>1. PICK w : IsWalk(t, follow, w) /\ \A z : Walk(t, z, follow) = w[WalkState(<<>>, z, 0)]
  BY WalkIs
<1>2. 0 \in 0..KernelLinks /\ <<>> \in DOMAIN t
  BY LinkAssumption DEF Tree
<1>3. Finds(t, w, <<>>, p, 0)
  BY <1>1, <1>2, WalkSound
<1>4. QED  BY <1>1, <1>3 DEF Finds

\* What exists, and is no link itself, is found where it is.
LEMMA FoundWhereItIs ==
  ASSUME NEW t, Tree(t), NEW r \in DOMAIN t, t[r].kind # "link"
  PROVE  Stat(t, r) = [is |-> t[r].kind, at |-> r]
<1>1. PICK w : IsWalk(t, TRUE, w) /\ \A p : Walk(t, p, TRUE) = w[WalkState(<<>>, p, 0)]
  BY WalkIs
<1> DEFINE found == [is |-> t[r].kind, at |-> r]
           Good(y) == \A x \in Locations : x \o y = r => w[WalkState(x, y, 0)] = found
           T == {n \in Nat : \A y \in Locations : Len(y) = n => Good(y)}
<1>2. r \in Locations /\ <<>> \in Locations
  BY LocationsAre DEF Tree
<1>3. ASSUME NEW x \in Locations, NEW p \in Locations
      PROVE  w[WalkState(x, p, 0)] = WalkStep(t, TRUE, w, x, p, 0)
  <2>1. 0 \in 0..KernelLinks /\ p \in Paths
    BY LinkAssumption, NamesAre
  <2>2. QED  BY <1>1, <2>1, WalkStepIs
<1>4. 0 \in T
  <2>1. ASSUME NEW y \in Locations, Len(y) = 0, NEW x \in Locations, x \o y = r
        PROVE  w[WalkState(x, y, 0)] = found
    <3>1. y = <<>>
      BY <2>1, EmptySeq DEF Locations
    <3>2. x = r
      BY <2>1, <3>1, ConcatEmptySeq DEF Locations
    <3>3. w[WalkState(x, y, 0)] = WalkStep(t, TRUE, w, x, y, 0)
      BY <1>3, <2>1
    <3>4. WalkStep(t, TRUE, w, r, <<>>, 0) = found
      BY DEF WalkStep
    <3>5. QED  BY <3>1, <3>2, <3>3, <3>4
  <2>2. QED  BY <2>1
<1>5. ASSUME NEW n \in T PROVE n + 1 \in T
  <2>1. ASSUME NEW y \in Locations, Len(y) = n + 1, NEW x \in Locations, x \o y = r
        PROVE  w[WalkState(x, y, 0)] = found
    <3> DEFINE h == Head(y)
               rest == Tail(y)
               c == Append(x, h)
    <3>1. n \in Nat /\ \A v \in Locations : Len(v) = n => Good(v)
      BY <1>5
    <3>2. y # <<>>
      BY <2>1, <3>1, EmptySeq
    <3>3. h \in Names /\ rest \in Locations /\ Len(rest) = n /\ h \notin {".", ".."}
      <4>1. h \in Names /\ rest \in Locations /\ Len(rest) = Len(y) - 1
        BY <3>2, FirstName
      <4>2. (n + 1) - 1 = n
        BY <3>1
      <4>3. h \notin {".", ".."}
        BY <4>1, NamesAre
      <4>4. QED  BY <2>1, <4>1, <4>2, <4>3, Zenon
    <3>4. c \in Locations /\ c # <<>> /\ c \o rest = r
      BY <2>1, <3>2, MoveFirst
    <3>5. t[x].kind = "dir"
      BY <2>1, <3>2, PrefixesExist
    <3>6. c \in DOMAIN t /\ t[c].kind # "link"
      <4> HIDE DEF c, rest
      <4>1. c \in DOMAIN t /\ (rest # <<>> => t[c].kind = "dir")
        BY <3>3, <3>4, PrefixesExist
      <4>2. CASE rest = <<>>
        <5>1. c = r
          BY <3>4, <4>2, ConcatEmptySeq DEF Locations
        <5>2. QED  BY <4>1, <5>1
      <4>3. QED  BY <4>1, <4>2
    <3>7. w[WalkState(x, y, 0)] = w[WalkState(c, rest, 0)]
      <4>1. w[WalkState(x, y, 0)] = WalkStep(t, TRUE, w, x, y, 0)
        BY <1>3, <2>1
      <4>2. QED  BY <3>2, <3>3, <3>5, <3>6, <4>1 DEF WalkStep
    <3> HIDE DEF h, rest, c
    <3>8. w[WalkState(c, rest, 0)] = found
      BY <3>1, <3>3, <3>4
    <3>9. QED  BY <3>7, <3>8
  <2>2. n + 1 \in Nat
    BY <1>5
  <2>3. QED  BY <2>1, <2>2
<1>6. T = Nat
  <2> HIDE DEF T
  <2>1. T \in SUBSET Nat
    BY DEF T
  <2>2. QED  BY <1>4, <1>5, <2>1, NatClosure
<1>7. Len(r) \in Nat /\ <<>> \o r = r
  BY <1>2, LenProperties, ConcatEmptySeq DEF Locations
<1>8. Good(r)
  BY <1>2, <1>6, <1>7
<1>9. QED  BY <1>1, <1>2, <1>7, <1>8 DEF Stat

-------------------------------------------------------------------------------
(* Cleaned paths                                                           *)

\* A path that ends in a name does not lead up again.
EndsInName(path) == path # <<>> /\ path[Len(path)] \in Names

\* A cleaned path is a location, and below the root if it ends in a name.
LEMMA CleanIsLocation ==
  ASSUME NEW path \in Paths
  PROVE  Clean(path) \in Locations /\ (EndsInName(path) => Clean(path) # <<>>)
<1> DEFINE n == Len(path)
           Then(c, name) == IF name = "." THEN c ELSE IF name = ".." THEN Parent(c)
                            ELSE Append(c, name)
           Body(f) == [i \in 0..n |-> IF i = 0 THEN <<>>
                                      ELSE IF path[i] = "." THEN f[i - 1]
                                      ELSE IF path[i] = ".." THEN Parent(f[i - 1])
                                      ELSE Append(f[i - 1], path[i])]
           step == [s \in (1..n) \X Locations |-> Then(s[2], path[s[1]])]
<1>1. n \in Nat /\ \A i \in 1..n : path[i] \in Components
  BY LenProperties, ElementOfSeq DEF Paths, Components
<1>2. ASSUME NEW c \in Locations, NEW i \in 1..n PROVE Then(c, path[i]) \in Locations
  <2>1. path[i] \in Names \/ path[i] \in {".", ".."}
    BY <1>1, <1>2 DEF Components
  <2>2. path[i] \in Names => Append(c, path[i]) \in Locations
    BY LocationsAre
  <2>3. Parent(c) \in Locations
    BY LocationsAre
  <2>4. QED  BY <1>2, <2>1, <2>2, <2>3
<1> HIDE DEF n
<1>3. PICK f : Steps(f, n, Locations, <<>>, step)
  <2>1. step \in [(1..n) \X Locations -> Locations]
    <3> HIDE DEF Then
    <3>1. QED  BY <1>2
  <2> HIDE DEF step
  <2>2. QED  BY <1>1, <2>1, LocationsAre, StepRecursion
<1>4. f = Body(f)
  <2>0. /\ f \in [0..n -> Locations] /\ f[0] = <<>>
        /\ \A i \in 1..n : f[i] = step[<<i, f[i - 1]>>]
    BY <1>3 DEF Steps
  <2>1. ASSUME NEW i \in 0..n
        PROVE  f[i] = IF i = 0 THEN <<>> ELSE Then(f[i - 1], path[i])
    <3>1. CASE i = 0
      BY <2>0, <3>1
    <3>2. CASE i # 0
      <4>1. i \in 1..n /\ i - 1 \in 0..n
        BY <1>1, <3>2
      <4>2. f[i] = step[<<i, f[i - 1]>>] /\ f[i - 1] \in Locations
        BY <2>0, <4>1
      <4> HIDE DEF Then
      <4>3. step[<<i, f[i - 1]>>] = Then(f[i - 1], path[i])
        BY <4>1, <4>2
      <4>4. QED  BY <3>2, <4>2, <4>3
    <3>3. QED  BY <3>1, <3>2
  <2> HIDE DEF step
  <2>2. QED  BY <2>0, <2>1
<1>5. PICK g : g = CHOOSE h : h = Body(h)
  OBVIOUS
<1>6. g = Body(g)
  <2> HIDE DEF Body
  <2>1. QED  BY <1>4, <1>5, Zenon
<1>7. g[0] = <<>> /\ \A i \in 1..n : g[i] = Then(g[i - 1], path[i])
  <2>1. Body(g)[0] = <<>> /\ \A i \in 1..n : Body(g)[i] = Then(g[i - 1], path[i])
    BY <1>1
  <2> HIDE DEF Body, Then
  <2>2. QED  BY <1>6, <2>1, Zenon
<1> DEFINE S == {i \in Nat : i <= n => g[i] \in Locations}
<1>8. S = Nat
  <2>1. 0 \in S
    BY <1>7, LocationsAre
  <2>2. ASSUME NEW i \in S PROVE i + 1 \in S
    <3>1. SUFFICES ASSUME i + 1 <= n PROVE g[i + 1] \in Locations
      BY <2>2
    <3>2. i \in Nat /\ i <= n /\ i + 1 \in 1..n /\ (i + 1) - 1 = i
      BY <1>1, <2>2, <3>1
    <3>3. g[i] \in Locations
      BY <2>2, <3>2
    <3> HIDE DEF Then
    <3>4. g[i + 1] = Then(g[(i + 1) - 1], path[i + 1])
      BY <1>7, <3>2
    <3>5. QED  BY <1>2, <3>2, <3>3, <3>4
  <2> HIDE DEF S
  <2>3. S \in SUBSET Nat
    BY DEF S
  <2>4. QED  BY <2>1, <2>2, <2>3, NatClosure
<1>9. Clean(path) = g[n]
  BY <1>5, Zenon DEF Clean, n
<1>10. g[n] \in Locations
  BY <1>1, <1>8
<1>11. ASSUME EndsInName(path) PROVE g[n] # <<>>
  <2>1. n # 0 /\ path[n] \in Names
    BY <1>11, EmptySeq DEF EndsInName, Paths, n
  <2>2. n \in 1..n /\ n - 1 \in Nat /\ n - 1 <= n
    BY <1>1, <2>1
  <2>3. g[n - 1] \in Locations
    BY <1>8, <2>2
  <2>4. path[n] \notin {".", ".."}
    BY <2>1, NamesAre
  <2>5. g[n] = Append(g[n - 1], path[n])
    <3>1. g[n] = Then(g[n - 1], path[n])
      <4> HIDE DEF Then
      <4>1. QED  BY <1>7, <2>2
    <3>2. QED  BY <2>4, <3>1
  <2>6. QED  BY <2>1, <2>3, <2>5, ParentOfAppend
<1>12. QED  BY <1>9, <1>10, <1>11
(* Theorems                                                                *)

\* Resolve of any path in any tree is where the kernel finds the file or the
\* directory it names, or the place it would create one at: comparing two
\* results in a preflight compares the files themselves (path.go:14-19).
THEOREM ResolveFindsPlaces ==
  ASSUME NEW t, Tree(t), NEW path \in Paths, Stat(t, path).is \in {"file", "dir", "free"}
  PROVE  Resolve(t, path) = Stat(t, path).at
<1>1. PICK w : IsWalk(t, TRUE, w) /\ \A p : Walk(t, p, TRUE) = w[WalkState(<<>>, p, 0)]
  BY WalkIs
<1>2. PICK g : IsResolve(t, g) /\ \A p : Resolve(t, p) = g[ResolveState(<<>>, <<>>, p, 0)]
  BY ResolveIs
<1>3. 0 \in 0..KernelLinks /\ <<>> \in DOMAIN t
  BY LinkAssumption DEF Tree
<1>4. Agree(w, g, <<>>, path, 0)
  BY <1>1, <1>2, <1>3, SameLookup
<1>5. QED  BY <1>1, <1>2, <1>4 DEF Agree, Stat

\* What Resolve returns without an error is a location no part of which is a
\* link, and resolving it again changes nothing.
THEOREM ResolveLeavesNoLink ==
  ASSUME NEW t, Tree(t), NEW path \in Paths, Resolve(t, path) # Failed
  PROVE  /\ NoLinkIn(t, Resolve(t, path))
         /\ Resolve(t, Resolve(t, path)) = Resolve(t, path)
<1>1. PICK g : IsResolve(t, g) /\ \A p : Resolve(t, p) = g[ResolveState(<<>>, <<>>, p, 0)]
  BY ResolveIs
<1>2. /\ 0 \in 0..ResolveLinks /\ <<>> \in DOMAIN t /\ <<>> \in Locations
      /\ Resting(t, <<>>, <<>>)
  BY LinkAssumption, LocationsAre DEF Tree, Resting
<1>3. Settles(t, g, <<>>, <<>>, path, 0)
  BY <1>1, <1>2, ResultRests
<1>4. Rests(t, Resolve(t, path))
  BY <1>1, <1>2, <1>3 DEF Settles
<1>5. PICK r \in DOMAIN t, u \in Locations : Resting(t, r, u) /\ Resolve(t, path) = r \o u
  BY <1>4 DEF Rests
<1>6. g[ResolveState(<<>>, <<>>, r \o u, 0)] = r \o u
  BY <1>1, <1>5, RestingStays
<1>7. NoLinkIn(t, r \o u)
  BY <1>5, RestingHasNoLink
<1>8. QED  BY <1>1, <1>5, <1>6, <1>7

\* The tools look at a tree they have not touched yet.
Untouched == pc = "idle" => fs \in Trees

\* Only a tool that has started changes the tree.
LEMMA StaysUntouched == Spec => []Untouched
<1>1. Init => Untouched
  BY DEF Init, Untouched
<1>2. Untouched /\ [Next]_vars => Untouched'
  <2>1. SUFFICES ASSUME Untouched, [Next]_vars, pc' = "idle" PROVE fs' \in Trees
    BY DEF Untouched
  <2>2. CASE UNCHANGED vars
    BY <2>1, <2>2 DEF Untouched, vars
  <2>3. ASSUME NEW a \in Arguments, Refuse(a) \/ Start(a) PROVE FALSE
    BY <2>1, <2>3 DEF Refuse, Start
  <2>4. CASE MakeDirs \/ ClearTree \/ Unlink \/ Write \/ Rename \/ Read
    BY <2>1, <2>4 DEF MakeDirs, ClearTree, Unlink, Write, Rename, Read, Effect, Goes
  <2>5. CASE Fails \/ Ends
    BY <2>1, <2>5 DEF Fails, Ends
  <2>6. CASE Finished
    BY <2>1, <2>6 DEF Finished, vars
  <2>7. QED  BY <2>1, <2>2, <2>3, <2>4, <2>5, <2>6 DEF Next
<1>3. QED  BY <1>1, <1>2, PTL DEF Spec

\* So whenever a preflight compares paths, it compares the places they lead to.
THEOREM ResolveIsRight == Spec => []ResolveAgrees
<1>1. Untouched => ResolveAgrees
  <2>1. SUFFICES ASSUME pc = "idle", fs \in Trees, NEW path \in ShortPaths
                 PROVE  /\ Stat(fs, path).is \in {"file", "dir", "free"}
                             => Resolve(fs, path) = Stat(fs, path).at
                        /\ Resolve(fs, path) # Failed
                             => Resolve(fs, Resolve(fs, path)) = Resolve(fs, path)
    BY DEF Untouched, ResolveAgrees
  <2>2. Tree(fs) /\ path \in Paths
    BY <2>1, TreesAssumption
  <2>3. QED  BY <2>2, ResolveFindsPlaces, ResolveLeavesNoLink
<1>2. QED  BY <1>1, StaysUntouched, PTL

-------------------------------------------------------------------------------
(* The preflights                                                          *)

\* An entry of the table that rejectAliasedBuilderPaths compares.
Entries == [path : Paths, generated : BOOLEAN, ownsTree : BOOLEAN, allowSymlink : BOOLEAN]

\* What Join returns is a path.
LEMMA JoinIsPath ==
  ASSUME NEW dir \in Paths, NEW name \in Names
  PROVE  Join(dir, name) \in Paths
<1>1. Append(dir, name) \in Paths
  <2>1. dir \in Seq(Components) /\ name \in Components
    BY NamesAre DEF Paths, Components
  <2>2. Append(dir, name) \in Seq(Components)
    BY <2>1, AppendProperties
  <2>3. QED  BY <2>2 DEF Paths, Components
<1>2. Join(dir, name) \in Locations
  BY <1>1, CleanIsLocation DEF Join
<1>3. QED  BY <1>2, NamesAre

\* The ways to make an entry.
LEMMA EntriesAre ==
  ASSUME NEW p \in Paths
  PROVE  /\ Input(p) \in Entries /\ Generated(p) \in Entries /\ Owned(p) \in Entries
         /\ [Owned(p) EXCEPT !.allowSymlink = TRUE] \in Entries
<1>1. Input(p) \in Entries
  BY DEF Input, Entries
<1>2. \A e \in Entries : /\ [e EXCEPT !.generated = TRUE] \in Entries
                         /\ [e EXCEPT !.ownsTree = TRUE] \in Entries
                         /\ [e EXCEPT !.allowSymlink = TRUE] \in Entries
  BY DEF Entries
<1>3. Generated(p) \in Entries
  BY <1>1, <1>2 DEF Generated
<1>4. Owned(p) \in Entries
  BY <1>2, <1>3 DEF Owned
<1>5. QED  BY <1>1, <1>2, <1>3, <1>4

\* The table is a sequence of entries, whatever is given of the optional paths.
LEMMA BuilderPathsAre ==
  ASSUME NEW a \in Arguments, a.tool = "builder"
  PROVE  BuilderPaths(a) \in Seq(Entries)
<1> DEFINE S == Seq(Entries)
<1>1. /\ a.sources \in Paths /\ a.output \in Paths /\ a.buildDir \in Paths
      /\ a.custom # None => a.custom \in Paths
      /\ a.cacheDir # None => a.cacheDir \in Paths
      /\ a.summary # None => a.summary \in Paths
  BY ArgumentsAssumption
<1>2. /\ SortDir(a) \in Paths /\ RawDir(a) \in Paths
      /\ Report(a) \in Paths /\ CustomReport(a) \in Paths
  <2>1. "sort" \in Names /\ "raw" \in Names /\ "rejected" \in Names /\ "rejected-custom" \in Names
    BY ArgumentsAssumption
  <2>2. QED  BY <1>1, <2>1, JoinIsPath DEF SortDir, RawDir, Report, CustomReport
<1>3. \A x \in Entries : <<x>> \in S
  OBVIOUS
<1>4. \A x, y \in Entries : <<x, y>> \in S
  OBVIOUS
<1>5. \A s, r \in S : s \o r \in S
  BY ConcatProperties
<1>6. \A x : (x # None => x \in Paths) =>
        Given(x, <<Input(x)>>) \in S /\ Given(x, <<Generated(x)>>) \in S
  <2>1. SUFFICES ASSUME NEW x, x # None => x \in Paths
                 PROVE  Given(x, <<Input(x)>>) \in S /\ Given(x, <<Generated(x)>>) \in S
    OBVIOUS
  <2>2. CASE x = None
    BY <2>2 DEF Given
  <2>3. CASE x # None
    <3>1. <<Input(x)>> \in S /\ <<Generated(x)>> \in S
      BY <1>3, <2>1, <2>3, EntriesAre
    <3>2. QED  BY <3>1, <2>3 DEF Given
  <2>4. QED  BY <2>2, <2>3
<1>7. Given(a.custom, <<Generated(CustomReport(a))>>) \in S
  <2>1. <<Generated(CustomReport(a))>> \in S
    <3>1. Generated(CustomReport(a)) \in Entries
      BY <1>2, EntriesAre
    <3>2. QED  BY <1>3, <3>1
  <2>2. <<>> \in S
    OBVIOUS
  <2>3. QED  BY <2>1, <2>2 DEF Given
<1>8. (IF a.cacheDir = None THEN <<Owned(RawDir(a))>>
       ELSE <<[Owned(a.cacheDir) EXCEPT !.allowSymlink = TRUE]>>) \in S
  <2>1. CASE a.cacheDir = None
    BY <1>2, <1>3, <2>1, EntriesAre
  <2>2. CASE a.cacheDir # None
    BY <1>1, <1>3, <2>2, EntriesAre
  <2>3. QED  BY <2>1, <2>2
<1>9. <<Input(a.sources)>> \in S /\ <<Generated(a.output), Owned(SortDir(a))>> \in S
  BY <1>1, <1>2, <1>3, <1>4, EntriesAre
<1>10. <<Generated(Report(a))>> \in S
  BY <1>2, <1>3, EntriesAre
<1> DEFINE custom == Given(a.custom, <<Input(a.custom)>>)
           summary == Given(a.summary, <<Generated(a.summary)>>)
           rejected == Given(a.custom, <<Generated(CustomReport(a))>>)
           down == IF a.cacheDir = None THEN <<Owned(RawDir(a))>>
                   ELSE <<[Owned(a.cacheDir) EXCEPT !.allowSymlink = TRUE]>>
           sources == <<Input(a.sources)>>
           out == <<Generated(a.output), Owned(SortDir(a))>>
           report == <<Generated(Report(a))>>
<1>11. custom \in S /\ summary \in S
  BY <1>1, <1>6
<1>12. BuilderPaths(a) = sources \o custom \o out \o down \o summary \o report \o rejected
  BY DEF BuilderPaths
<1>13. rejected \in S /\ down \in S /\ sources \in S /\ out \in S /\ report \in S
  BY <1>7, <1>8, <1>9, <1>10
<1> HIDE DEF custom, summary, rejected, down, sources, out, report, S
<1>14. sources \o custom \o out \o down \o summary \o report \o rejected \in S
  <2>1. sources \o custom \in S
    BY <1>5, <1>11, <1>13
  <2>2. sources \o custom \o out \in S
    BY <1>5, <1>13, <2>1
  <2>3. sources \o custom \o out \o down \in S
    BY <1>5, <1>13, <2>2
  <2>4. sources \o custom \o out \o down \o summary \in S
    BY <1>5, <1>11, <2>3
  <2>5. sources \o custom \o out \o down \o summary \o report \in S
    BY <1>5, <1>13, <2>4
  <2>6. QED  BY <1>5, <1>13, <2>5
<1>15. QED  BY <1>12, <1>14 DEF S

\* p names a file or a directory, or one could be created there.
Found(p) == Stat(fs, p).is \in {"file", "dir", "free"}

\* p and q name different places, and not two names of one file.
Apart(p, q) ==
  /\ Stat(fs, p).at # Stat(fs, q).at
  /\ Stat(fs, p).is = "file" /\ Stat(fs, q).is = "file"
       => fs[Stat(fs, p).at] # fs[Stat(fs, q).at]

\* The second comparison of the preflights, of what Resolve returned, is one of
\* the files that the paths themselves name.
LEMMA ApartByResolve ==
  ASSUME Tree(fs), NEW p \in Paths, NEW q \in Paths, Found(p), Found(q),
         Resolve(fs, p) # Resolve(fs, q),
         \/ ~SameFile(Resolve(fs, p), Resolve(fs, q))
         \/ ~SameFile(Resolve(fs, q), Resolve(fs, p))
  PROVE  Apart(p, q)
<1> DEFINE x == Stat(fs, p)
           y == Stat(fs, q)
<1>1. Resolve(fs, p) = x.at /\ Resolve(fs, q) = y.at
  BY ResolveFindsPlaces DEF Found
<1>2. ASSUME x.is = "file", y.is = "file" PROVE fs[x.at] # fs[y.at]
  <2>4. Sound(fs, x) /\ Sound(fs, y)
    BY LookupIsSound DEF Stat
  <2> HIDE DEF x, y
  <2>5. /\ x.at \in DOMAIN fs /\ fs[x.at].kind = "file"
        /\ y.at \in DOMAIN fs /\ fs[y.at].kind = "file"
    BY <1>2, <2>4 DEF Sound
  <2>6. /\ Stat(fs, x.at) = [is |-> "file", at |-> x.at]
        /\ Stat(fs, y.at) = [is |-> "file", at |-> y.at]
    BY <2>5, FoundWhereItIs
  <2>7. Exists(Stat(fs, x.at)) /\ Exists(Stat(fs, y.at))
    BY <2>6 DEF Exists
  <2>8. QED  BY <1>1, <2>6, <2>7 DEF SameFile
<1>3. QED  BY <1>1, <1>2 DEF Apart

\* No two of the builder's paths, one of them generated, are one file or place,
\* and nothing the builder is given lies in a directory that it owns.
BuilderSeparate(a) ==
  LET ps == BuilderPaths(a)
  IN  \A i, j \in DOMAIN ps :
        i # j /\ (ps[i].generated \/ ps[j].generated) /\ Found(ps[i].path) /\ Found(ps[j].path) =>
          /\ Apart(ps[i].path, ps[j].path)
          /\ ps[j].ownsTree => ~IsPrefix(Stat(fs, ps[j].path).at, Stat(fs, ps[i].path).at)

\* No two of the wrapper's paths are one file or place.
WrapperSeparate(a) ==
  LET ps == WrapperPaths(a)
  IN  \A i, j \in DOMAIN ps : i # j /\ Found(ps[i]) /\ Found(ps[j]) => Apart(ps[i], ps[j])

\* Arguments that the builder's preflight passes are separate.
LEMMA BuilderPassSeparates ==
  ASSUME Tree(fs), NEW a \in Arguments, a.tool = "builder", BuilderPreflight(a)
  PROVE  BuilderSeparate(a)
<1> DEFINE ps == BuilderPaths(a)
<1>1. ps \in Seq(Entries)
  BY BuilderPathsAre
<1>2. \A i, j \in DOMAIN ps : i < j /\ (ps[i].generated \/ ps[j].generated) =>
        ~Collide(Resolve(fs, ps[i].path), Resolve(fs, ps[j].path), ps[i], ps[j])
  BY DEF BuilderPreflight
<1> HIDE DEF ps
<1>3. ASSUME NEW i \in DOMAIN ps, NEW j \in DOMAIN ps, i # j,
             ps[i].generated \/ ps[j].generated, Found(ps[i].path), Found(ps[j].path)
      PROVE  /\ Apart(ps[i].path, ps[j].path)
             /\ ps[j].ownsTree => ~IsPrefix(Stat(fs, ps[j].path).at, Stat(fs, ps[i].path).at)
  <2> DEFINE p == ps[i].path
             q == ps[j].path
             x == Resolve(fs, p)
             y == Resolve(fs, q)
  <2>1. p \in Paths /\ q \in Paths /\ i \in Int /\ j \in Int
    <3>1. DOMAIN ps = 1..Len(ps) /\ Len(ps) \in Nat
      BY <1>1, LenProperties
    <3>2. i \in 1..Len(ps) /\ j \in 1..Len(ps) /\ i \in Int /\ j \in Int
      BY <1>3, <3>1
    <3>3. ps[i] \in Entries /\ ps[j] \in Entries
      BY <1>1, <3>2, ElementOfSeq
    <3>4. QED  BY <3>2, <3>3 DEF Entries
  <2>2. /\ x # y /\ (~SameFile(x, y) \/ ~SameFile(y, x))
        /\ ps[j].ownsTree => ~IsPrefix(y, x)
    <3>1. i < j \/ j < i
      BY <1>3, <2>1
    <3>2. ~Collide(x, y, ps[i], ps[j]) \/ ~Collide(y, x, ps[j], ps[i])
      BY <1>2, <1>3, <3>1
    <3> HIDE DEF x, y
    <3>3. QED  BY <3>2 DEF Collide
  <2>3. x = Stat(fs, p).at /\ y = Stat(fs, q).at
    BY <1>3, <2>1, ResolveFindsPlaces DEF Found
  <2>4. Apart(p, q)
    BY <1>3, <2>1, <2>2, ApartByResolve
  <2>5. QED  BY <2>2, <2>3, <2>4
<1>4. QED  BY <1>3 DEF BuilderSeparate, ps

\* Arguments that the wrapper's preflight passes are separate.
LEMMA WrapperPassSeparates ==
  ASSUME Tree(fs), NEW a \in Arguments, a.tool # "builder", WrapperPreflight(a)
  PROVE  WrapperSeparate(a)
<1> DEFINE ps == WrapperPaths(a)
<1>1. ps \in Seq(Paths)
  <2>1. /\ a.input \in Paths /\ a.output \in Paths /\ a.converter \in Paths
        /\ a.log # None => a.log \in Paths
    BY ArgumentsAssumption
  <2>2. <<a.input, a.output, a.converter>> \in Seq(Paths)
    BY <2>1
  <2>3. Given(a.log, <<a.log>>) \in Seq(Paths)
    BY <2>1 DEF Given
  <2>4. QED  BY <2>2, <2>3, ConcatProperties DEF WrapperPaths
<1>2. \A i, j \in DOMAIN ps : i < j =>
        /\ Resolve(fs, ps[i]) # Resolve(fs, ps[j])
        /\ ~SameFile(Resolve(fs, ps[i]), Resolve(fs, ps[j]))
  BY DEF WrapperPreflight
<1> HIDE DEF ps
<1>3. ASSUME NEW i \in DOMAIN ps, NEW j \in DOMAIN ps, i # j, Found(ps[i]), Found(ps[j])
      PROVE  Apart(ps[i], ps[j])
  <2> DEFINE x == Resolve(fs, ps[i])
             y == Resolve(fs, ps[j])
  <2>1. ps[i] \in Paths /\ ps[j] \in Paths /\ i \in Int /\ j \in Int
    BY <1>1, <1>3, ElementOfSeq
  <2>2. x # y /\ (~SameFile(x, y) \/ ~SameFile(y, x))
    <3>1. i < j \/ j < i
      BY <1>3, <2>1
    <3>2. x # y /\ (~SameFile(x, y) \/ ~SameFile(y, x))
      BY <1>2, <1>3, <3>1
    <3>3. QED  BY <3>2
  <2>3. QED  BY <1>3, <2>1, <2>2, ApartByResolve
<1>4. QED  BY <1>3 DEF WrapperSeparate, ps

\* Every tool that starts has paths that are apart.
StartsApart ==
  \A a \in Arguments :
    Start(a) => IF a.tool = "builder" THEN BuilderSeparate(a) ELSE WrapperSeparate(a)

\* A tool that starts has paths that are apart in the file tree itself, links,
\* hard links and ".." included: what the preflights are for (main.go:238-240).
THEOREM StartsAreSeparate == Spec => [][StartsApart]_vars
<1>1. ASSUME Untouched, NEW a \in Arguments, Start(a)
      PROVE  IF a.tool = "builder" THEN BuilderSeparate(a) ELSE WrapperSeparate(a)
  <2>1. Tree(fs) /\ Passes(a)
    BY <1>1, TreesAssumption DEF Start, Untouched
  <2>2. QED  BY <2>1, BuilderPassSeparates, WrapperPassSeparates DEF Passes
<1>2. Untouched => StartsApart
  BY <1>1 DEF StartsApart
<1>3. Spec => []Untouched
  BY StaysUntouched
<1>4. Untouched /\ [Next]_vars => [StartsApart]_vars
  BY <1>2
<1>5. QED  BY <1>3, <1>4, PTL DEF Spec

-------------------------------------------------------------------------------
(* What the tools do to a tree                                             *)

\* A directory or a file put where there is room for it, or in place of
\* something with nothing below it, leaves a tree.
LEMMA PutKeepsTree ==
  ASSUME NEW t, Tree(t), NEW v, v.kind \in {"dir", "file"},
         NEW at \in Locations, at # <<>>,
         Parent(at) \in DOMAIN t, t[Parent(at)].kind = "dir",
         at \in DOMAIN t => t[at].kind # "dir"
  PROVE  Tree(With(t, at, v))
<1> DEFINE u == With(t, at, v)
<1>1. /\ DOMAIN u = DOMAIN t \cup {at} /\ u[at] = v
      /\ \A x \in DOMAIN t \ {at} : u[x] = t[x]
  BY DEF With
<1> HIDE DEF u
<1>2. DOMAIN u \subseteq Locations /\ <<>> \in DOMAIN u /\ u[<<>>].kind = "dir"
  BY <1>1 DEF Tree
<1>3. ASSUME NEW x \in DOMAIN u \ {<<>>}
      PROVE  Parent(x) \in DOMAIN u /\ u[Parent(x)].kind = "dir"
  <2>1. Parent(x) \in DOMAIN t /\ t[Parent(x)].kind = "dir"
    BY <1>1, <1>3 DEF Tree
  <2>2. Parent(x) # at
    BY <2>1
  <2>3. QED  BY <1>1, <2>1, <2>2
<1>4. ASSUME NEW x \in DOMAIN u
      PROVE  /\ u[x].kind \in {"dir", "file", "link"}
             /\ u[x].kind = "link" => u[x].to \in Paths
  <2>1. CASE x = at
    BY <1>1, <2>1
  <2>2. CASE x # at
    BY <1>1, <1>4, <2>2 DEF Tree
  <2>3. QED  BY <2>1, <2>2
<1>5. Tree(u)
  BY <1>2, <1>3, <1>4 DEF Tree
<1>6. QED  BY <1>5 DEF u

\* Taking away what has nothing left below it leaves a tree.
LEMMA CutKeepsTree ==
  ASSUME NEW t, Tree(t), NEW gone, <<>> \notin gone,
         \A x \in DOMAIN t \ {<<>>} : Parent(x) \in gone => x \in gone
  PROVE  Tree(Without(t, gone))
<1> DEFINE u == Without(t, gone)
<1>1. DOMAIN u = DOMAIN t \ gone /\ \A x \in DOMAIN u : u[x] = t[x]
  BY DEF Without
<1> HIDE DEF u
<1>2. DOMAIN u \subseteq Locations /\ <<>> \in DOMAIN u /\ u[<<>>].kind = "dir"
  BY <1>1 DEF Tree
<1>3. ASSUME NEW x \in DOMAIN u \ {<<>>}
      PROVE  Parent(x) \in DOMAIN u /\ u[Parent(x)].kind = "dir"
  <2>1. Parent(x) \in DOMAIN t /\ t[Parent(x)].kind = "dir" /\ Parent(x) \notin gone
    BY <1>1, <1>3 DEF Tree
  <2>2. QED  BY <1>1, <2>1
<1>4. ASSUME NEW x \in DOMAIN u
      PROVE  /\ u[x].kind \in {"dir", "file", "link"}
             /\ u[x].kind = "link" => u[x].to \in Paths
  BY <1>1, <1>4 DEF Tree
<1>5. Tree(u)
  BY <1>2, <1>3, <1>4 DEF Tree
<1>6. QED  BY <1>5 DEF u

\* What is below the directory that something lies in is not below the thing.
LEMMA BelowGoesDown ==
  ASSUME NEW at \in Locations, NEW x \in Locations, x # <<>>, IsPrefix(at, Parent(x))
  PROVE  IsPrefix(at, x)
<1>1. PICK up \in Locations, name \in Names :
        x = Append(up, name) /\ Parent(x) = up /\ Len(x) = Len(up) + 1 /\ Len(up) \in Nat
  BY LastName
<1>2. /\ Len(at) \in Nat /\ Len(at) <= Len(up)
      /\ SubSeq(at, 1, Len(at)) = SubSeq(up, 1, Len(at))
  BY <1>1, LenProperties DEF IsPrefix, Locations
<1> DEFINE n == Len(at)
           y == SubSeq(x, 1, n)
           z == SubSeq(up, 1, n)
<1>3. \A i \in 1..n : x[i] = up[i] /\ up[i] \in Names /\ x[i] \in Names
  <2>1. \A i \in 1..Len(up) : x[i] = up[i]
    BY <1>1, AppendProperties DEF Locations
  <2>2. \A i \in 1..Len(up) : up[i] \in Names
    BY ElementOfSeq DEF Locations
  <2>3. QED  BY <1>1, <1>2, <2>1, <2>2
<1> HIDE DEF n
<1>4. n \in Nat /\ 1 \in Int /\ n \in Int
  BY <1>2 DEF n
<1>5. /\ y \in Seq(Names) /\ Len(y) = (IF 1 <= n THEN n - 1 + 1 ELSE 0)
      /\ \A i \in 1..(n - 1 + 1) : y[i] = x[1 + i - 1]
  BY <1>3, <1>4, SubSeqProperties
<1>6. /\ z \in Seq(Names) /\ Len(z) = (IF 1 <= n THEN n - 1 + 1 ELSE 0)
      /\ \A i \in 1..(n - 1 + 1) : z[i] = up[1 + i - 1]
  BY <1>3, <1>4, SubSeqProperties
<1> HIDE DEF y, z
<1>7. Len(y) = Len(z) /\ Len(y) = n
  BY <1>4, <1>5, <1>6
<1>8. ASSUME NEW i \in 1..n PROVE y[i] = z[i]
  <2>1. i \in 1..(n - 1 + 1) /\ 1 + i - 1 = i
    BY <1>4
  <2>2. QED  BY <1>3, <1>5, <1>6, <2>1
<1>9. y = z
  BY <1>5, <1>6, <1>7, <1>8, SeqEqual
<1>10. Len(at) <= Len(x)
  BY <1>1, <1>2
<1>11. QED  BY <1>2, <1>9, <1>10 DEF IsPrefix, y, z, n

\* os.RemoveAll leaves a tree, as long as it does not remove the root.
LEMMA ClearKeepsTree ==
  ASSUME NEW t, Tree(t), NEW at \in Locations, at # <<>>
  PROVE  Tree(Without(t, Below(t, at)))
<1>1. <<>> \notin Below(t, at)
  <2>1. Len(at) \in Nat /\ Len(at) # 0 /\ Len(<<>>) = 0
    BY LenProperties, EmptySeq DEF Locations
  <2>2. ~IsPrefix(at, <<>>)
    BY <2>1 DEF IsPrefix
  <2>3. QED  BY <2>2 DEF Below
<1>2. ASSUME NEW x \in DOMAIN t \ {<<>>}, Parent(x) \in Below(t, at)
      PROVE  x \in Below(t, at)
  <2>1. x \in Locations /\ x # <<>> /\ IsPrefix(at, Parent(x))
    BY <1>2 DEF Tree, Below
  <2>2. IsPrefix(at, x)
    BY <2>1, BelowGoesDown
  <2>3. QED  BY <2>2 DEF Below
<1>3. QED  BY <1>1, <1>2, CutKeepsTree

\* Removing a file, or a name that is not there, leaves a tree.
LEMMA UnlinkKeepsTree ==
  ASSUME NEW t, Tree(t), NEW at, at \in DOMAIN t => t[at].kind # "dir"
  PROVE  Tree(Without(t, {at}))
<1>1. at # <<>>
  BY DEF Tree
<1>2. \A x \in DOMAIN t \ {<<>>} : Parent(x) \notin {at}
  BY DEF Tree
<1>3. QED  BY <1>1, <1>2, CutKeepsTree

\* What a path that ends in a name is after its first component.
LEMMA RestEndsInName ==
  ASSUME NEW p \in Paths, EndsInName(p)
  PROVE  /\ Tail(p) = <<>> => Head(p) \in Names
         /\ Tail(p) # <<>> => EndsInName(Tail(p))
<1> DEFINE rest == Tail(p)
<1>1. /\ p # <<>> /\ p[Len(p)] \in Names /\ Head(p) = p[1]
      /\ rest \in Paths /\ Len(rest) = Len(p) - 1 /\ Len(p) \in Nat /\ Len(p) # 0
      /\ \A i \in 1..Len(rest) : rest[i] = p[i + 1]
  <2>1. p # <<>> /\ p[Len(p)] \in Names /\ p \in Seq(Components)
    BY DEF EndsInName, Paths, Components
  <2>2. /\ rest \in Seq(Components) /\ Len(rest) = Len(p) - 1 /\ Len(p) \in Nat /\ Len(p) # 0
        /\ \A i \in 1..Len(rest) : rest[i] = p[i + 1]
    BY <2>1, HeadTailProperties, LenProperties, EmptySeq
  <2>3. Head(p) = p[1]
    <3>1. 1 \in 1..Len(p) /\ Len(p) \in 1..Len(p)
      BY <2>2
    <3>2. Head(SubSeq(p, 1, Len(p))) = p[1]
      BY <2>1, <3>1, HeadTailOfSubSeq
    <3>3. SubSeq(p, 1, Len(p)) = p
      BY <2>1, SubSeqFull
    <3>4. QED  BY <3>2, <3>3
  <2>4. QED  BY <2>1, <2>2, <2>3 DEF Paths, Components
<1> HIDE DEF rest
<1>2. ASSUME rest = <<>> PROVE Head(p) \in Names
  <2>1. Len(p) = 1
    BY <1>1, <1>2, EmptySeq DEF Paths
  <2>2. QED  BY <1>1, <2>1
<1>3. ASSUME rest # <<>> PROVE EndsInName(rest)
  <2>1. Len(rest) # 0
    BY <1>1, <1>3, EmptySeq DEF Paths
  <2>2. Len(rest) \in 1..Len(rest) /\ Len(rest) + 1 = Len(p)
    BY <1>1, <2>1
  <2>3. rest[Len(rest)] = p[Len(p)]
    BY <1>1, <2>2
  <2>4. QED  BY <1>1, <1>3, <2>3 DEF EndsInName
<1>4. QED  BY <1>2, <1>3 DEF rest

\* A path ends as its last part does.
LEMMA BothEndInName ==
  ASSUME NEW p \in Paths, NEW q \in Paths, EndsInName(q)
  PROVE  p \o q \in Paths /\ EndsInName(p \o q)
<1> DEFINE s == p \o q
<1>1. /\ s \in Paths /\ Len(s) = Len(p) + Len(q)
      /\ \A i \in 1..(Len(p) + Len(q)) : s[i] = IF i <= Len(p) THEN p[i] ELSE q[i - Len(p)]
      /\ Len(p) \in Nat /\ Len(q) \in Nat /\ Len(q) # 0 /\ q[Len(q)] \in Names
  <2>1. p \in Seq(Components) /\ q \in Seq(Components) /\ q # <<>> /\ q[Len(q)] \in Names
    BY DEF EndsInName, Paths, Components
  <2>2. /\ s \in Seq(Components) /\ Len(s) = Len(p) + Len(q)
        /\ \A i \in 1..(Len(p) + Len(q)) : s[i] = IF i <= Len(p) THEN p[i] ELSE q[i - Len(p)]
    BY <2>1, ConcatProperties
  <2>3. Len(p) \in Nat /\ Len(q) \in Nat /\ Len(q) # 0
    BY <2>1, LenProperties, EmptySeq
  <2>4. QED  BY <2>1, <2>2, <2>3 DEF Paths, Components
<1> HIDE DEF s
<1>2. /\ Len(s) \in 1..(Len(p) + Len(q)) /\ ~(Len(s) <= Len(p)) /\ Len(s) - Len(p) = Len(q)
      /\ Len(s) # 0
  BY <1>1
<1>3. s[Len(s)] = q[Len(q)]
  BY <1>1, <1>2
<1>4. s # <<>>
  BY <1>1, <1>2, EmptySeq DEF Paths
<1>5. QED  BY <1>1, <1>3, <1>4 DEF EndsInName, s

\* A location ends in a name.
LEMMA LocationEndsInName ==
  ASSUME NEW at \in Locations, at # <<>>
  PROVE  EndsInName(at)
<1>1. at \in Seq(Names) /\ Len(at) \in Nat /\ Len(at) # 0
  BY LenProperties, EmptySeq DEF Locations
<1>2. Len(at) \in 1..Len(at)
  BY <1>1
<1>3. QED  BY <1>1, <1>2, ElementOfSeq DEF EndsInName

\* A lookup that does not follow the last link ends below the root.
EndsBelow(w, at, parts, links) ==
  LET v == w[WalkState(at, parts, links)] IN v.is # "error" => v.at # <<>>

\* With a name last, such a lookup does, or it fails.
LEMMA NameIsBelowRoot ==
  ASSUME NEW t, Tree(t), NEW w, IsWalk(t, FALSE, w)
  PROVE  \A parts \in Paths, links \in 0..KernelLinks : \A at \in DOMAIN t :
           EndsInName(parts) => EndsBelow(w, at, parts, links)
<1> DEFINE All(p, k) == EndsInName(p) => \A at \in DOMAIN t : EndsBelow(w, at, p, k)
           G == {s \in Paths \X (0..KernelLinks) : All(s[1], s[2])}
<1>1. ASSUME NEW p \in Paths, NEW k \in 0..KernelLinks,
             \A q \in Paths, l \in 0..KernelLinks :
               l > k \/ (l = k /\ Len(q) < Len(p)) => All(q, l),
             EndsInName(p), NEW at \in DOMAIN t
      PROVE  EndsBelow(w, at, p, k)
  <2> DEFINE rest == Tail(p)
             name == Head(p)
             c == Append(at, name)
  <2>1. at \in Locations /\ t[at].kind \in {"dir", "file", "link"}
    BY DEF Tree
  <2>2. w[WalkState(at, p, k)] = WalkStep(t, FALSE, w, at, p, k)
    BY <2>1, WalkStepIs
  <2>3. p # <<>>
    BY <1>1 DEF EndsInName
  <2>4. CASE t[at].kind # "dir"
    <3>1. w[WalkState(at, p, k)] = [is |-> "error", at |-> at]
      BY <2>2, <2>3, <2>4 DEF WalkStep
    <3>2. QED  BY <3>1 DEF EndsBelow
  <2>5. CASE t[at].kind = "dir"
    <3>1. /\ name \in Components /\ rest \in Paths /\ Len(rest) = Len(p) - 1 /\ Len(p) \in Nat
          /\ name \notin {".", ".."} => name \in Names
      BY <2>3, PathTaken
    <3>2. /\ rest = <<>> => name \notin {".", ".."}
          /\ rest # <<>> => EndsInName(rest)
      BY <1>1, RestEndsInName, NamesAre
    <3>3. rest # <<>> => \A q \in DOMAIN t : EndsBelow(w, q, rest, k)
      <4>1. Len(rest) < Len(p)
        <5> HIDE DEF rest
        <5>1. QED  BY <3>1
      <4> HIDE DEF rest
      <4>2. QED  BY <1>1, <3>1, <3>2, <4>1
    <3>4. name \notin {".", ".."} => c \in Locations /\ c # <<>>
      BY <2>1, <3>1, ParentOfAppend
    <3>5. CASE name = "."
      <4>1. w[WalkState(at, p, k)] = w[WalkState(at, rest, k)]
        BY <2>2, <2>3, <2>5, <3>5 DEF WalkStep
      <4> HIDE DEF rest
      <4>2. QED  BY <3>2, <3>3, <3>5, <4>1 DEF EndsBelow
    <3>6. CASE name = ".."
      <4>1. w[WalkState(at, p, k)] = w[WalkState(Parent(at), rest, k)]
        BY <2>2, <2>3, <2>5, <3>6 DEF WalkStep
      <4>2. Parent(at) \in DOMAIN t
        <5>1. CASE at = <<>>
          BY <5>1 DEF Parent
        <5>2. CASE at # <<>>
          BY <5>2 DEF Tree
        <5>3. QED  BY <5>1, <5>2
      <4> HIDE DEF rest
      <4>3. QED  BY <3>2, <3>3, <3>6, <4>1, <4>2 DEF EndsBelow
    <3>7. CASE name \notin {".", ".."} /\ c \notin DOMAIN t
      <4>1. w[WalkState(at, p, k)] = [is |-> IF rest = <<>> THEN "free" ELSE "none", at |-> c]
        BY <2>2, <2>3, <2>5, <3>7 DEF WalkStep
      <4> HIDE DEF c, rest
      <4>2. QED  BY <3>4, <3>7, <4>1 DEF EndsBelow
    <3>8. CASE name \notin {".", ".."} /\ c \in DOMAIN t /\ t[c].kind # "link"
      <4>1. w[WalkState(at, p, k)] = w[WalkState(c, rest, k)]
        BY <2>2, <2>3, <2>5, <3>8 DEF WalkStep
      <4>2. CASE rest = <<>>
        <5>1. w[WalkState(c, <<>>, k)] = WalkStep(t, FALSE, w, c, <<>>, k)
          <6>1. c \in Locations /\ <<>> \in Paths
            BY <3>4, <3>8, LocationsAre, NamesAre
          <6> HIDE DEF c
          <6>2. QED  BY <6>1, WalkStepIs
        <5>2. WalkStep(t, FALSE, w, c, <<>>, k) = [is |-> t[c].kind, at |-> c]
          BY DEF WalkStep
        <5>3. w[WalkState(at, p, k)].at = c /\ c # <<>>
          <6>1. c # <<>>
            BY <3>4, <3>8
          <6> HIDE DEF c, rest
          <6>2. w[WalkState(at, p, k)] = [is |-> t[c].kind, at |-> c]
            BY <4>1, <4>2, <5>1, <5>2
          <6>3. QED  BY <6>1, <6>2
        <5> HIDE DEF c
        <5>4. QED  BY <5>3 DEF EndsBelow
      <4>3. CASE rest # <<>>
        <5> HIDE DEF c, rest
        <5>1. QED  BY <3>3, <3>8, <4>1, <4>3 DEF EndsBelow
      <4>4. QED  BY <4>2, <4>3
    <3>9. CASE /\ name \notin {".", ".."} /\ c \in DOMAIN t /\ t[c].kind = "link"
               /\ rest = <<>>
      <4>1. w[WalkState(at, p, k)] = [is |-> "link", at |-> c]
        BY <2>2, <2>3, <2>5, <3>9 DEF WalkStep
      <4> HIDE DEF c
      <4>2. QED  BY <3>4, <3>9, <4>1 DEF EndsBelow
    <3>10. CASE /\ name \notin {".", ".."} /\ c \in DOMAIN t /\ t[c].kind = "link"
                /\ rest # <<>> /\ k = KernelLinks
      <4>1. w[WalkState(at, p, k)] = [is |-> "error", at |-> c]
        BY <2>2, <2>3, <2>5, <3>10 DEF WalkStep
      <4>2. QED  BY <4>1 DEF EndsBelow
    <3>11. CASE /\ name \notin {".", ".."} /\ c \in DOMAIN t /\ t[c].kind = "link"
                /\ rest # <<>> /\ k # KernelLinks
      <4> DEFINE from == IF t[c].abs THEN <<>> ELSE at
                 to == t[c].to \o rest
      <4>1. w[WalkState(at, p, k)] = w[WalkState(from, to, k + 1)]
        BY <2>2, <2>3, <2>5, <3>11 DEF WalkStep
      <4>2. k + 1 \in 0..KernelLinks /\ k + 1 > k
        BY <3>11, LinkAssumption
      <4>3. to \in Paths /\ EndsInName(to)
        <5>1. t[c].to \in Paths
          BY <3>11 DEF Tree
        <5> HIDE DEF c, rest
        <5>2. QED  BY <3>1, <3>2, <3>11, <5>1, BothEndInName
      <4>4. from \in DOMAIN t
        BY DEF Tree
      <4> HIDE DEF from, to
      <4>5. EndsBelow(w, from, to, k + 1)
        BY <1>1, <4>2, <4>3, <4>4
      <4>6. QED  BY <4>1, <4>5 DEF EndsBelow
    <3>12. QED  BY <3>5, <3>6, <3>7, <3>8, <3>9, <3>10, <3>11
  <2>6. QED  BY <2>4, <2>5
<1>2. \A p \in Paths, k \in 0..KernelLinks : <<p, k>> \in G <=> All(p, k)
  OBVIOUS
<1>3. ASSUME NEW p \in Paths, NEW k \in 0..KernelLinks,
             \A q \in Paths, l \in 0..KernelLinks :
               l > k \/ (l = k /\ Len(q) < Len(p)) => All(q, l)
      PROVE  All(p, k)
  BY <1>1, <1>3, Zenon
<1> HIDE DEF G, All
<1>4. \A p \in Paths, k \in 0..KernelLinks :
        (\A q \in Paths, l \in 0..KernelLinks :
           l > k \/ (l = k /\ Len(q) < Len(p)) => <<q, l>> \in G)
          => <<p, k>> \in G
  BY <1>2, <1>3
<1>5. \A p \in Paths, k \in 0..KernelLinks : <<p, k>> \in G
  <2>1. KernelLinks \in Nat
    BY LinkAssumption
  <2>2. QED  BY <1>4, <2>1, PathInduction
<1>6. QED  BY <1>2, <1>5 DEF All

\* So what is named without following links is not the root.
LEMMA LeafIsBelowRoot ==
  ASSUME NEW t, Tree(t), NEW at \in Locations, at # <<>>, Lstat(t, at).is # "error"
  PROVE  Lstat(t, at).at # <<>>
<1>1. PICK w : IsWalk(t, FALSE, w) /\ \A z : Walk(t, z, FALSE) = w[WalkState(<<>>, z, 0)]
  BY WalkIs
<1>2. 0 \in 0..KernelLinks /\ <<>> \in DOMAIN t /\ at \in Paths
  BY LinkAssumption, NamesAre DEF Tree
<1>3. EndsBelow(w, <<>>, at, 0)
  BY <1>1, <1>2, NameIsBelowRoot, LocationEndsInName
<1>4. QED  BY <1>1, <1>3 DEF EndsBelow, Lstat

-------------------------------------------------------------------------------
(* A tree stays one                                                        *)

\* os.MkdirAll leaves a tree, as far as it gets.
LEMMA WithDirsKeepsTree ==
  ASSUME NEW t, Tree(t), NEW path \in Paths
  PROVE  Tree(WithDirs(t, path))
<1> DEFINE n == Len(path)
           R == {t[x] : x \in DOMAIN t} \cup {Dir}
           V == {u \in {t} \cup UNION {[D -> R] : D \in SUBSET Locations} : Tree(u)}
           Then(u, i) == LET p == Stat(u, SubSeq(path, 1, i))
                         IN  IF p.is = "free" THEN With(u, p.at, Dir) ELSE u
           Body(f) == [i \in 0..n |-> IF i = 0 THEN t
                                      ELSE LET p == Stat(f[i - 1], SubSeq(path, 1, i))
                                           IN  IF p.is = "free" THEN With(f[i - 1], p.at, Dir)
                                               ELSE f[i - 1]]
           step == [s \in (1..n) \X V |-> Then(s[2], s[1])]
<1>1. n \in Nat /\ \A i \in 1..n : SubSeq(path, 1, i) \in Paths
  <2>1. path \in Seq(Components) /\ n \in Nat
    BY LenProperties DEF Paths, Components
  <2>2. ASSUME NEW i \in 1..n PROVE SubSeq(path, 1, i) \in Seq(Components)
    <3>1. \A j \in 1..i : path[j] \in Components
      BY <2>1, <2>2, ElementOfSeq
    <3>2. 1 \in Int /\ i \in Int
      BY <2>1, <2>2
    <3>3. QED  BY <3>1, <3>2, SubSeqProperties
  <2>3. QED  BY <2>1, <2>2 DEF Paths, Components
<1> HIDE DEF n
<1>2. t \in V /\ \A u \in V : Tree(u)
  OBVIOUS
<1>3. ASSUME NEW u \in V, NEW i \in 1..n PROVE Then(u, i) \in V
  <2> DEFINE p == Stat(u, SubSeq(path, 1, i))
  <2>1. CASE p.is # "free"
    BY <2>1
  <2>2. CASE p.is = "free"
    <3>1. Tree(u)
      BY <1>2
    <3>2. Sound(u, p)
      BY <1>1, <3>1, LookupIsSound DEF Stat
    <3> HIDE DEF p
    <3>3. /\ p.at \in Locations /\ p.at \notin DOMAIN u /\ p.at # <<>>
          /\ Parent(p.at) \in DOMAIN u /\ u[Parent(p.at)].kind = "dir"
      BY <2>2, <3>2 DEF Sound
    <3>4. Tree(With(u, p.at, Dir))
      <4>1. Dir.kind \in {"dir", "file"}
        BY DEF Dir
      <4>2. QED  BY <3>1, <3>3, <4>1, PutKeepsTree
    <3>5. With(u, p.at, Dir) \in [DOMAIN u \cup {p.at} -> R]
      <4>1. \A x \in DOMAIN u : u[x] \in R
        <5>1. CASE u = t
          BY <5>1
        <5>2. CASE u # t
          <6>1. PICK D \in SUBSET Locations : u \in [D -> R]
            BY <5>2
          <6> HIDE DEF R
          <6>2. QED  BY <6>1
        <5>3. QED  BY <5>1, <5>2
      <4>2. Dir \in R
        OBVIOUS
      <4> HIDE DEF R
      <4>3. QED  BY <4>1, <4>2 DEF With
    <3>6. DOMAIN u \cup {p.at} \in SUBSET Locations
      BY <3>1, <3>3 DEF Tree
    <3> HIDE DEF R
    <3>7. With(u, p.at, Dir) \in V
      BY <3>4, <3>5, <3>6
    <3> HIDE DEF V
    <3>8. QED  BY <2>2, <3>7 DEF p
  <2>3. QED  BY <2>1, <2>2
<1> HIDE DEF V
<1>4. PICK f : Steps(f, n, V, t, step)
  <2>1. step \in [(1..n) \X V -> V]
    <3> HIDE DEF Then
    <3>1. QED  BY <1>3
  <2> HIDE DEF step
  <2>2. QED  BY <1>1, <1>2, <2>1, StepRecursion
<1>5. f = Body(f)
  <2>0. /\ f \in [0..n -> V] /\ f[0] = t
        /\ \A i \in 1..n : f[i] = step[<<i, f[i - 1]>>]
    BY <1>4 DEF Steps
  <2>1. ASSUME NEW i \in 0..n
        PROVE  f[i] = IF i = 0 THEN t ELSE Then(f[i - 1], i)
    <3>1. CASE i = 0
      BY <2>0, <3>1
    <3>2. CASE i # 0
      <4>1. i \in 1..n /\ i - 1 \in 0..n
        BY <1>1, <3>2
      <4>2. f[i] = step[<<i, f[i - 1]>>] /\ f[i - 1] \in V
        BY <2>0, <4>1
      <4> HIDE DEF Then
      <4>3. step[<<i, f[i - 1]>>] = Then(f[i - 1], i)
        BY <4>1, <4>2
      <4>4. QED  BY <3>2, <4>2, <4>3
    <3>3. QED  BY <3>1, <3>2
  <2> HIDE DEF step
  <2>2. QED  BY <2>0, <2>1
<1>6. PICK g : g = CHOOSE h : h = Body(h)
  OBVIOUS
<1>7. g = Body(g)
  <2> HIDE DEF Body
  <2>1. QED  BY <1>5, <1>6, Zenon
<1>8. g[0] = t /\ \A i \in 1..n : g[i] = Then(g[i - 1], i)
  <2>1. Body(g)[0] = t /\ \A i \in 1..n : Body(g)[i] = Then(g[i - 1], i)
    BY <1>1
  <2> HIDE DEF Body, Then
  <2>2. QED  BY <1>7, <2>1, Zenon
<1> DEFINE S == {i \in Nat : i <= n => g[i] \in V}
<1>9. S = Nat
  <2>1. 0 \in S
    BY <1>2, <1>8
  <2>2. ASSUME NEW i \in S PROVE i + 1 \in S
    <3>1. SUFFICES ASSUME i + 1 <= n PROVE g[i + 1] \in V
      BY <2>2
    <3>2. i \in Nat /\ i <= n /\ i + 1 \in 1..n /\ (i + 1) - 1 = i
      BY <1>1, <2>2, <3>1
    <3>3. g[i] \in V
      BY <2>2, <3>2
    <3> HIDE DEF Then
    <3>4. g[i + 1] = Then(g[(i + 1) - 1], i + 1)
      BY <1>8, <3>2
    <3>5. QED  BY <1>3, <3>2, <3>3, <3>4
  <2> HIDE DEF S
  <2>3. S \in SUBSET Nat
    BY DEF S
  <2>4. QED  BY <2>1, <2>2, <2>3, NatClosure
<1>10. WithDirs(t, path) = g[n]
  BY <1>6, Zenon DEF WithDirs, n
<1>11. QED  BY <1>1, <1>2, <1>9, <1>10

\* What a tool may have to do: it writes as one of the roles, and clears only
\* what has a clean path below the root.
Effects ==
  {e \in [what : {"unlink", "mkdir", "clear", "rename", "write", "read"},
          path : Paths, role : Roles \cup {""}] :
     /\ e.what \in {"write", "rename"} => e.role \in Roles
     /\ e.what = "clear" => e.path \in Locations \ {<<>>}}

\* The effects the tools have.
LEMMA EffectsAre ==
  ASSUME NEW p \in Paths
  PROVE  /\ Do("unlink", p, "summary") \in Effects /\ Do("mkdir", p, "") \in Effects
         /\ Do("read", p, "") \in Effects /\ Do("read", p, "source") \in Effects
         /\ \A r \in Roles : Do("write", p, r) \in Effects /\ Do("rename", p, r) \in Effects
         /\ p \in Locations \ {<<>>} => Do("clear", p, "") \in Effects
<1>1. Do("unlink", p, "summary") \in Effects /\ Do("mkdir", p, "") \in Effects
  BY DEF Do, Effects, Roles
<1>2. Do("read", p, "") \in Effects /\ Do("read", p, "source") \in Effects
  BY DEF Do, Effects, Roles
<1>3. \A r \in Roles : Do("write", p, r) \in Effects /\ Do("rename", p, r) \in Effects
  BY DEF Do, Effects
<1>4. p \in Locations \ {<<>>} => Do("clear", p, "") \in Effects
  BY DEF Do, Effects
<1>5. QED  BY <1>1, <1>2, <1>3, <1>4

\* The directories the builder makes for itself are below the root.
LEMMA JoinIsBelowRoot ==
  ASSUME NEW dir \in Paths, NEW name \in Names
  PROVE  Join(dir, name) \in Locations \ {<<>>} /\ Append(dir, name) \in Paths
<1>1. dir \in Seq(Components) /\ name \in Components
  BY NamesAre DEF Paths, Components
<1>2. /\ Append(dir, name) \in Seq(Components) /\ Append(dir, name) # <<>>
      /\ Append(dir, name)[Len(Append(dir, name))] = name
  BY <1>1, AppendProperties
<1>3. Append(dir, name) \in Paths /\ EndsInName(Append(dir, name))
  BY <1>2 DEF Paths, Components, EndsInName
<1>4. QED  BY <1>3, CleanIsLocation DEF Join

\* Where a file goes is a path, without the file.
LEMMA FrontIsPath ==
  ASSUME NEW p \in Paths
  PROVE  Front(Clean(p)) \in Paths
<1>1. Clean(p) \in Locations
  BY CleanIsLocation
<1> DEFINE c == Clean(p)
<1> HIDE DEF c
<1>2. Front(c) \in Locations
  <2>1. CASE c = <<>>
    <3>1. Len(c) - 1 = 0 - 1
      BY <2>1, EmptySeq
    <3>2. SubSeq(c, 1, 0 - 1) = <<>>
      BY SubSeqEmpty
    <3>3. Front(c) = <<>>
      BY <3>1, <3>2 DEF Front
    <3>4. QED  BY <3>3, LocationsAre
  <2>2. CASE c # <<>>
    BY <1>1, <2>2, LastName DEF c
  <2>3. QED  BY <2>1, <2>2
<1>3. QED  BY <1>2, NamesAre DEF c

\* The builder's list of effects, whatever is given of the optional paths.
LEMMA BuilderEffectsAre ==
  ASSUME NEW a \in Arguments, a.tool = "builder"
  PROVE  BuilderEffects(a) \in Seq(Effects)
<1> DEFINE S == Seq(Effects)
<1>1. /\ a.sources \in Paths /\ a.output \in Paths /\ a.buildDir \in Paths
      /\ a.custom # None => a.custom \in Paths
      /\ a.cacheDir # None => a.cacheDir \in Paths
      /\ a.summary # None => a.summary \in Paths
      /\ {"sort", "raw", "rejected", "rejected-custom", "source", "chunk"} \subseteq Names
  BY ArgumentsAssumption
<1>2. /\ SortDir(a) \in Locations \ {<<>>} /\ RawDir(a) \in Locations \ {<<>>}
      /\ Report(a) \in Locations \ {<<>>} /\ CustomReport(a) \in Locations \ {<<>>}
  BY <1>1, JoinIsBelowRoot DEF SortDir, RawDir, Report, CustomReport
<1>3. /\ SortDir(a) \in Paths /\ RawDir(a) \in Paths
      /\ Report(a) \in Paths /\ CustomReport(a) \in Paths
  BY <1>2, NamesAre
<1>4. DownloadDir(a) \in Paths
  BY <1>1, <1>3 DEF DownloadDir
<1>5. /\ Append(DownloadDir(a), "source") \in Paths /\ Append(SortDir(a), "chunk") \in Paths
      /\ Front(Report(a)) \in Paths
  <2>1. Append(a.buildDir, "rejected") \in Paths
    BY <1>1, JoinIsBelowRoot
  <2>2. Front(Report(a)) \in Paths
    BY <2>1, FrontIsPath DEF Report, Join
  <2>3. QED  BY <1>1, <1>3, <1>4, <2>2, JoinIsBelowRoot
<1>6. {"summary", "source", "chunk", "report", "custom report", "output"} \subseteq Roles
  BY DEF Roles
<1> DEFINE unlink == Given(a.summary, <<Do("unlink", a.summary, "summary")>>)
           build == <<Do("mkdir", a.buildDir, "")>>
           raw == IF a.cacheDir = None THEN <<Do("clear", RawDir(a), "")>> ELSE <<>>
           e1 == Do("mkdir", DownloadDir(a), "")
           e2 == Do("rename", Append(DownloadDir(a), "source"), "source")
           e3 == Do("clear", SortDir(a), "")
           e4 == Do("mkdir", SortDir(a), "")
           e5 == Do("read", Append(DownloadDir(a), "source"), "source")
           e6 == Do("mkdir", Front(Report(a)), "")
           e7 == Do("write", Report(a), "report")
           sort == <<e1, e2, e3, e4, e5, e6, e7>>
           custom == Given(a.custom, <<Do("read", a.custom, ""),
                                       Do("write", CustomReport(a), "custom report")>>)
           out == <<Do("write", Append(SortDir(a), "chunk"), "chunk"),
                    Do("mkdir", Front(Clean(a.output)), ""), Do("rename", a.output, "output")>>
           summary == Given(a.summary, <<Do("write", a.summary, "summary")>>)
           end == <<e3>>
<1>7. BuilderEffects(a) = unlink \o build \o raw \o sort \o custom \o out \o summary \o end
  BY DEF BuilderEffects
<1>8. /\ \A x \in Effects : <<x>> \in S
      /\ \A x, y \in Effects : <<x, y>> \in S
      /\ \A x, y, z \in Effects : <<x, y, z>> \in S
      /\ <<>> \in S
  OBVIOUS
<1>9. unlink \in S /\ summary \in S
  <2>1. CASE a.summary = None
    BY <1>8, <2>1 DEF Given
  <2>2. CASE a.summary # None
    <3>1. /\ Do("unlink", a.summary, "summary") \in Effects
          /\ Do("write", a.summary, "summary") \in Effects
      BY <1>1, <1>6, <2>2, EffectsAre
    <3>2. QED  BY <1>8, <2>2, <3>1 DEF Given
  <2>3. QED  BY <2>1, <2>2
<1>10. build \in S
  BY <1>1, <1>8, EffectsAre
<1>11. raw \in S
  <2>1. Do("clear", RawDir(a), "") \in Effects
    BY <1>2, <1>3, EffectsAre
  <2>2. QED  BY <1>8, <2>1
<1>12. e3 \in Effects /\ end \in S
  <2>1. e3 \in Effects
    BY <1>2, <1>3, EffectsAre
  <2> HIDE DEF e3
  <2>2. QED  BY <1>8, <2>1
<1>13. sort \in S
  <2>1. e1 \in Effects /\ e4 \in Effects /\ e5 \in Effects /\ e6 \in Effects
    BY <1>3, <1>4, <1>5, EffectsAre
  <2>2. e2 \in Effects /\ e7 \in Effects
    BY <1>3, <1>5, <1>6, EffectsAre
  <2> HIDE DEF e1, e2, e3, e4, e5, e6, e7
  <2>3. QED  BY <1>12, <2>1, <2>2
<1>14. custom \in S
  <2>1. CASE a.custom = None
    BY <1>8, <2>1 DEF Given
  <2>2. CASE a.custom # None
    <3>1. /\ Do("read", a.custom, "") \in Effects
          /\ Do("write", CustomReport(a), "custom report") \in Effects
      BY <1>1, <1>3, <1>6, <2>2, EffectsAre
    <3>2. QED  BY <1>8, <2>2, <3>1 DEF Given
  <2>3. QED  BY <2>1, <2>2
<1>15. out \in S
  <2>1. /\ Do("write", Append(SortDir(a), "chunk"), "chunk") \in Effects
        /\ Do("mkdir", Front(Clean(a.output)), "") \in Effects
        /\ Do("rename", a.output, "output") \in Effects
    BY <1>1, <1>5, <1>6, FrontIsPath, EffectsAre
  <2>2. QED  BY <1>8, <2>1
<1>16. \A s, r \in S : s \o r \in S
  BY ConcatProperties
<1> HIDE DEF unlink, build, raw, sort, custom, out, summary, end, S
<1>17. unlink \o build \o raw \o sort \in S
  <2>1. unlink \o build \in S
    BY <1>9, <1>10, <1>16
  <2>2. unlink \o build \o raw \in S
    BY <1>11, <1>16, <2>1
  <2>3. QED  BY <1>13, <1>16, <2>2
<1>18. unlink \o build \o raw \o sort \o custom \o out \o summary \o end \in S
  <2>1. unlink \o build \o raw \o sort \o custom \in S
    BY <1>14, <1>16, <1>17
  <2>2. unlink \o build \o raw \o sort \o custom \o out \in S
    BY <1>15, <1>16, <2>1
  <2>3. unlink \o build \o raw \o sort \o custom \o out \o summary \in S
    BY <1>9, <1>16, <2>2
  <2>4. QED  BY <1>12, <1>16, <2>3
<1>19. QED  BY <1>7, <1>18 DEF S

\* The wrapper's.
LEMMA WrapperEffectsAre ==
  ASSUME NEW a \in Arguments, a.tool # "builder"
  PROVE  WrapperEffects(a) \in Seq(Effects)
<1> DEFINE S == Seq(Effects)
<1>1. /\ a.input \in Paths /\ a.output \in Paths /\ a.converter \in Paths
      /\ a.log # None => a.log \in Paths
  BY ArgumentsAssumption
<1>2. {"output", "log"} \subseteq Roles
  BY DEF Roles
<1> DEFINE dir == <<Do("mkdir", Front(Clean(a.output)), "")>>
           log == Given(a.log, <<Do("mkdir", Front(Clean(a.log)), ""), Do("write", a.log, "log")>>)
           out == <<Do("read", a.converter, ""), Do("read", a.input, ""),
                    Do("rename", a.output, "output")>>
<1>3. /\ \A x \in Effects : <<x>> \in S
      /\ \A x, y \in Effects : <<x, y>> \in S
      /\ \A x, y, z \in Effects : <<x, y, z>> \in S
      /\ <<>> \in S
  OBVIOUS
<1>4. WrapperEffects(a) = dir \o log \o out
  BY DEF WrapperEffects
<1>5. dir \in S
  <2>1. Do("mkdir", Front(Clean(a.output)), "") \in Effects
    BY <1>1, FrontIsPath, EffectsAre
  <2>2. QED  BY <1>3, <2>1
<1>6. log \in S
  <2>1. CASE a.log = None
    BY <1>3, <2>1 DEF Given
  <2>2. CASE a.log # None
    <3>1. Do("mkdir", Front(Clean(a.log)), "") \in Effects /\ Do("write", a.log, "log") \in Effects
      BY <1>1, <1>2, <2>2, FrontIsPath, EffectsAre
    <3>2. QED  BY <1>3, <2>2, <3>1 DEF Given
  <2>3. QED  BY <2>1, <2>2
<1>7. out \in S
  <2>1. /\ Do("read", a.converter, "") \in Effects /\ Do("read", a.input, "") \in Effects
        /\ Do("rename", a.output, "output") \in Effects
    BY <1>1, <1>2, EffectsAre
  <2>2. QED  BY <1>3, <2>1
<1> HIDE DEF dir, log, out
<1>8. dir \o log \o out \in S
  <2>1. dir \o log \in S
    BY <1>5, <1>6, ConcatProperties
  <2>2. QED  BY <1>7, <2>1, ConcatProperties
<1>9. QED  BY <1>4, <1>8

\* The inductive form of TypeOK: what is left to do can be done to a tree.
TypeInv ==
  /\ TypeOK
  /\ todo \in Seq(Effects)
  /\ pc = "running" => args \in Arguments

\* The first effect, and those after it.
LEMMA HeadIsEffect ==
  ASSUME todo \in Seq(Effects), todo # <<>>
  PROVE  /\ Head(todo) \in Effects /\ Tail(todo) \in Seq(Effects)
         /\ Head(todo).path \in Paths
         /\ Head(todo).what \in {"write", "rename"} => Role \in Roles
         /\ Head(todo).what = "clear" => Head(todo).path \in Locations \ {<<>>}
<1>1. Head(todo) \in Effects /\ Tail(todo) \in Seq(Effects)
  BY HeadTailProperties
<1>2. QED  BY <1>1 DEF Effects, Role

\* Creating a file leaves a tree, and a new inode its writer's.
LEMMA CreateKeepsTree ==
  ASSUME Tree(fs), Role \in Roles, NEW at \in Locations, at # <<>>,
         Parent(at) \in DOMAIN fs, fs[Parent(at)].kind = "dir",
         at \in DOMAIN fs => fs[at].kind # "dir",
         text \in [UserFiles \cup Roles -> UserFiles \cup Roles], Create(at)
  PROVE  Tree(fs') /\ text' \in [UserFiles \cup Roles -> UserFiles \cup Roles]
<1>1. File(Role).kind \in {"dir", "file"}
  BY DEF File
<1>2. Tree(With(fs, at, File(Role)))
  <2> DEFINE v == File(Role)
  <2> HIDE DEF v
  <2>1. v.kind \in {"dir", "file"}
    BY <1>1 DEF v
  <2>2. Tree(With(fs, at, v))
    BY <2>1, PutKeepsTree
  <2>3. QED  BY <2>2 DEF v
<1>3. Tree(fs')
  BY <1>2 DEF Create
<1>4. QED  BY <1>3 DEF Create

\* The tree stays a tree and the types hold, whatever tree the tools are given
\* and whatever they clear, create and rename there.
THEOREM TypeCorrect == Spec => []TypeOK
<1> DEFINE Texts == [UserFiles \cup Roles -> UserFiles \cup Roles]
<1>1. Init => TypeInv
  <2>1. SUFFICES ASSUME Init PROVE TypeInv
    OBVIOUS
  <2>2. /\ Tree(fs) /\ Tree(before)
        /\ args \in Arguments \cup {NoArguments} /\ pc = "idle" /\ todo \in Seq(Effects)
    BY <2>1, TreesAssumption DEF Init
  <2>3. text \in Texts
    BY <2>1 DEF Init
  <2>4. QED  BY <2>2, <2>3 DEF TypeInv, TypeOK
<1>2. TypeInv /\ [Next]_vars => TypeInv'
  <2>1. SUFFICES ASSUME TypeInv, [Next]_vars PROVE TypeInv'
    OBVIOUS
  <2>2. /\ Tree(fs) /\ text \in Texts /\ args \in Arguments \cup {NoArguments}
        /\ pc \in {"idle", "refused", "running", "failed", "done"}
        /\ todo \in Seq(Effects) /\ (pc = "running" => args \in Arguments)
    BY <2>1 DEF TypeInv, TypeOK
  \* No step changes the history.
  <2>20. Tree(before')
    <3>1. Tree(before)
      BY <2>1 DEF TypeInv, TypeOK
    <3>2. UNCHANGED before
      <4>1. CASE UNCHANGED vars
        BY <4>1 DEF vars
      <4>2. ASSUME NEW a \in Arguments, Refuse(a) \/ Start(a) PROVE UNCHANGED before
        BY <4>2 DEF Refuse, Start
      <4>3. CASE MakeDirs \/ ClearTree \/ Unlink \/ Write \/ Rename \/ Read
        BY <4>3 DEF MakeDirs, ClearTree, Unlink, Write, Rename, Read, Goes
      <4>4. CASE Fails \/ Ends
        BY <4>4 DEF Fails, Ends
      <4>5. CASE Finished
        BY <4>5 DEF Finished, vars
      <4>6. QED  BY <2>1, <4>1, <4>2, <4>3, <4>4, <4>5 DEF Next
    <3>3. QED  BY <3>1, <3>2
  <2>3. SUFFICES /\ Tree(fs') /\ text' \in Texts /\ args' \in Arguments \cup {NoArguments}
                 /\ pc' \in {"idle", "refused", "running", "failed", "done"}
                 /\ todo' \in Seq(Effects) /\ (pc' = "running" => args' \in Arguments)
    BY <2>20 DEF TypeInv, TypeOK
  <2>4. ASSUME UNCHANGED vars
        PROVE  /\ Tree(fs') /\ text' \in Texts /\ args' \in Arguments \cup {NoArguments}
               /\ pc' \in {"idle", "refused", "running", "failed", "done"}
               /\ todo' \in Seq(Effects) /\ (pc' = "running" => args' \in Arguments)
    BY <2>2, <2>4, Zenon DEF vars
  <2>5. ASSUME NEW a \in Arguments, Refuse(a) \/ Start(a)
        PROVE  /\ Tree(fs') /\ text' \in Texts /\ args' \in Arguments \cup {NoArguments}
               /\ pc' \in {"idle", "refused", "running", "failed", "done"}
               /\ todo' \in Seq(Effects) /\ (pc' = "running" => args' \in Arguments)
    <3>1. CASE Refuse(a)
      BY <2>2, <3>1 DEF Refuse
    <3>2. CASE Start(a)
      <4>1. todo' \in Seq(Effects)
        <5>1. CASE a.tool = "builder"
          BY <3>2, <5>1, BuilderEffectsAre DEF Start
        <5>2. CASE a.tool # "builder"
          BY <3>2, <5>2, WrapperEffectsAre DEF Start
        <5>3. QED  BY <5>1, <5>2
      <4>2. args' = a /\ pc' = "running" /\ UNCHANGED <<fs, text>>
        BY <3>2 DEF Start
      <4>3. QED  BY <2>2, <4>1, <4>2
    <3>3. QED  BY <2>5, <3>1, <3>2
  \* An effect that is made.
  <2> DEFINE Made == pc = "running" /\ todo # <<>> /\ Goes
  <2>6. ASSUME Made
        PROVE  /\ args' \in Arguments \cup {NoArguments} /\ pc' = "running"
               /\ todo' \in Seq(Effects) /\ args' \in Arguments
    BY <2>2, <2>6, HeadIsEffect DEF Goes
  <2>7. ASSUME MakeDirs \/ ClearTree \/ Unlink \/ Write \/ Rename \/ Read PROVE Made
    BY <2>7 DEF MakeDirs, ClearTree, Unlink, Write, Rename, Read, Effect
  <2>8. CASE MakeDirs
    <3>1. Tree(fs')
      <4>1. Head(todo).path \in Paths /\ fs' = WithDirs(fs, Head(todo).path)
        BY <2>2, <2>8, HeadIsEffect DEF MakeDirs, Effect
      <4>2. QED  BY <2>2, <4>1, WithDirsKeepsTree
    <3>2. text' = text
      BY <2>8 DEF MakeDirs
    <3>3. QED  BY <2>2, <2>6, <2>7, <2>8, <3>1, <3>2
  <2> DEFINE l == Leaf
             r == There
  <2>9. todo # <<>> => Sound(fs, l) /\ Sound(fs, r)
    BY <2>2, HeadIsEffect, LookupIsSound DEF Leaf, There, Stat, Lstat
  <2>10. CASE ClearTree
    <3>1. /\ todo # <<>> /\ Head(todo).what = "clear" /\ l.is # "error"
          /\ fs' = Without(fs, Below(fs, l.at)) /\ UNCHANGED text
      BY <2>10 DEF ClearTree, Effect
    <3>2. Head(todo).path \in Locations \ {<<>>}
      BY <2>2, <3>1, HeadIsEffect
    <3>3. l.at # <<>>
      BY <2>2, <3>1, <3>2, LeafIsBelowRoot DEF Leaf
    <3> HIDE DEF l
    <3>4. l.at \in Locations
      BY <2>2, <2>9, <3>1 DEF Sound, Tree
    <3>5. Tree(fs')
      BY <2>2, <3>1, <3>3, <3>4, ClearKeepsTree
    <3>6. QED  BY <2>2, <2>6, <2>7, <2>10, <3>1, <3>5
  <2>11. CASE Unlink
    <3>1. /\ todo # <<>> /\ l.is \in {"file", "free", "none"}
          /\ fs' = Without(fs, {l.at}) /\ UNCHANGED text
      BY <2>11 DEF Unlink, Effect
    <3> HIDE DEF l
    <3>2. l.at \in DOMAIN fs => fs[l.at].kind # "dir"
      BY <2>9, <3>1 DEF Sound
    <3>3. Tree(fs')
      BY <2>2, <3>1, <3>2, UnlinkKeepsTree
    <3>4. QED  BY <2>2, <2>6, <2>7, <2>11, <3>1, <3>3
  \* A place that a lookup found, or found free, takes a file.
  <2>12. ASSUME NEW v, Sound(fs, v), v.is \in {"file", "link", "free"}, Role \in Roles, Create(v.at)
         PROVE  Tree(fs') /\ text' \in Texts
    <3>1. /\ v.at \in Locations /\ v.at # <<>>
          /\ v.at \in DOMAIN fs => fs[v.at].kind # "dir"
          /\ Parent(v.at) \in DOMAIN fs /\ fs[Parent(v.at)].kind = "dir"
      <4>1. CASE v.is = "free"
        BY <2>12, <4>1 DEF Sound
      <4>2. CASE v.is # "free"
        <5>1. v.at \in DOMAIN fs /\ fs[v.at].kind # "dir"
          BY <2>12, <4>2 DEF Sound
        <5>2. v.at # <<>> /\ v.at \in Locations
          BY <2>2, <5>1 DEF Tree
        <5>3. QED  BY <2>2, <5>1, <5>2 DEF Tree
      <4>3. QED  BY <4>1, <4>2
    <3> DEFINE at == v.at
    <3>2. Create(at)
      BY <2>12
    <3> HIDE DEF at
    <3>3. /\ at \in Locations /\ at # <<>> /\ (at \in DOMAIN fs => fs[at].kind # "dir")
          /\ Parent(at) \in DOMAIN fs /\ fs[Parent(at)].kind = "dir"
      BY <3>1 DEF at
    <3>4. QED  BY <2>2, <2>12, <3>2, <3>3, CreateKeepsTree
  <2>13. CASE Write
    <3>1. todo # <<>> /\ Role \in Roles
      BY <2>2, <2>13, HeadIsEffect DEF Write, Effect
    <3>2. \/ r.is = "free" /\ Create(r.at)
          \/ UNCHANGED fs /\ \E i : text' = [text EXCEPT ![i] = Role]
      BY <2>13, Zenon DEF Write
    <3> HIDE DEF r
    <3>3. CASE r.is = "free" /\ Create(r.at)
      <4>1. Tree(fs') /\ text' \in Texts
        BY <2>9, <2>12, <3>1, <3>3
      <4>2. QED  BY <2>6, <2>7, <2>13, <4>1
    <3>4. CASE UNCHANGED fs /\ \E i : text' = [text EXCEPT ![i] = Role]
      <4>1. text' \in Texts
        <5>1. PICK i : text' = [text EXCEPT ![i] = Role]
          BY <3>4
        <5>2. QED  BY <2>2, <3>1, <5>1
      <4>2. QED  BY <2>2, <2>6, <2>7, <2>13, <3>4, <4>1
    <3>5. QED  BY <3>2, <3>3, <3>4
  <2>14. CASE Rename
    <3>1. todo # <<>> /\ Role \in Roles
      BY <2>2, <2>14, HeadIsEffect DEF Rename, Effect
    <3>2. l.is \in {"file", "link", "free"} /\ Create(l.at)
      BY <2>14 DEF Rename
    <3> HIDE DEF l
    <3>3. Tree(fs') /\ text' \in Texts
      BY <2>9, <2>12, <3>1, <3>2
    <3>4. QED  BY <2>6, <2>7, <2>14, <3>3
  <2>15. CASE Read
    <3>1. UNCHANGED <<fs, text>>
      BY <2>15 DEF Read
    <3>2. QED  BY <2>2, <2>6, <2>7, <2>15, <3>1
  <2>16. CASE Fails
    <3>1. Tree(fs')
      <4>1. CASE fs' = fs
        BY <2>2, <4>1
      <4>2. CASE fs' # fs
        <5>1. args.tool = "builder" /\ fs' = Without(fs, Below(fs, SortDir(args)))
          BY <2>16, <4>2 DEF Fails
        <5>2. args \in Arguments
          BY <2>2, <2>16 DEF Fails
        <5>3. SortDir(args) \in Locations \ {<<>>}
          <6>1. args.buildDir \in Paths /\ "sort" \in Names
            BY <5>1, <5>2, ArgumentsAssumption
          <6>2. QED  BY <6>1, JoinIsBelowRoot DEF SortDir
        <5> DEFINE at == SortDir(args)
        <5>4. at \in Locations /\ at # <<>> /\ fs' = Without(fs, Below(fs, at))
          BY <5>1, <5>3
        <5> HIDE DEF at
        <5>5. QED  BY <2>2, <5>4, ClearKeepsTree
      <4>3. QED  BY <4>1, <4>2
    <3>2. pc' = "failed" /\ todo' = <<>> /\ UNCHANGED <<text, args>>
      BY <2>16 DEF Fails
    <3>3. <<>> \in Seq(Effects)
      OBVIOUS
    <3>4. QED  BY <2>2, <3>1, <3>2, <3>3
  <2>17. CASE Ends
    BY <2>2, <2>17 DEF Ends
  <2>18. CASE Finished
    <3>1. UNCHANGED vars
      BY <2>18 DEF Finished
    <3>2. QED  BY <2>4, <3>1
  <2>19. QED
    <3> HIDE DEF Texts
    <3>1. QED  BY <2>1, <2>4, <2>5, <2>8, <2>10, <2>11, <2>13, <2>14, <2>15, <2>16, <2>17, <2>18
                 DEF Next
<1>3. TypeInv => TypeOK
  BY DEF TypeInv
<1>4. QED  BY <1>1, <1>2, <1>3, PTL DEF Spec
===============================================================================
