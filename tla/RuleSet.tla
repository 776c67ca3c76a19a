-------------------------------- MODULE RuleSet --------------------------------
(***************************************************************************)
(* What the external sorter of internal/filter/sorter.go promises, with no *)
(* batches, chunk files or merges: a set of rules that only grows, and     *)
(* that one step puts in place of the old list, in order and without       *)
(* duplicates, or never does (the comments at sorter.go:104-116, 152-156). *)
(***************************************************************************)
EXTENDS Integers, Sequences

CONSTANTS Rules,   \* canonical rules, in the order <
          OldList  \* what the output path held before

VARIABLES rules,   \* the rules accepted so far
          list,    \* the list at the output path
          state    \* "open", then "closing", then "done" or "failed"

vars == <<rules, list, state>>

Init == rules = {} /\ list = OldList /\ state = "open"

Accept(r) == /\ state = "open"
             /\ rules' = rules \cup {r}
             /\ UNCHANGED <<list, state>>

\* No more rules are accepted.
Close == /\ state = "open" /\ rules # {}
         /\ state' = "closing"
         /\ UNCHANGED <<rules, list>>

InOrder(seq) == \A i, j \in DOMAIN seq : i < j => seq[i] < seq[j]

Publish == /\ state = "closing"
           /\ state' = "done"
           /\ {list'[i] : i \in DOMAIN list'} = rules /\ InOrder(list')
           /\ UNCHANGED rules

Fail == /\ state \in {"open", "closing"}
        /\ state' = "failed"
        /\ UNCHANGED <<rules, list>>

Next == (\E r \in Rules : Accept(r)) \/ Close \/ Publish \/ Fail

Spec == Init /\ [][Next]_vars
===============================================================================
