----------------------------- MODULE BudgetLedger -----------------------------
(***************************************************************************)
(* What the shared byte budget of internal/download promises the sources   *)
(* of one manifest, with no locks, reservations or buffers: a byte that is *)
(* received is taken out of what is left; the bytes of an attempt that is  *)
(* discarded all come back; the bytes of a published file stay spent.      *)
(* Comments at download.go:412-414 and 444-447 are the promise.            *)
(***************************************************************************)
EXTENDS Integers

CONSTANTS NumWorkers,  \* download goroutines of the manifest
          Limit        \* MaxTotalBytes, the bytes a manifest may publish

Workers == 1..NumWorkers

VARIABLES available,   \* bytes nobody has received yet
          held,        \* held[w]: bytes of the attempt worker w is making
          spent        \* spent[w]: bytes of the files worker w has published

vars == <<available, held, spent>>

Init == /\ available = Limit
        /\ held = [w \in Workers |-> 0]
        /\ spent = [w \in Workers |-> 0]

\* A cached file found before any download counts like a fresh one; the
\* balance may go negative, and then nothing is ever downloaded.
CountCached == /\ held = [w \in Workers |-> 0] /\ spent = [w \in Workers |-> 0]
               /\ available' \in Int /\ available' <= available
               /\ UNCHANGED <<held, spent>>

Take(w) == /\ \E n \in 1..available : /\ available' = available - n
                                      /\ held' = [held EXCEPT ![w] = @ + n]
           /\ UNCHANGED spent

\* A discarded attempt gives back all of its bytes at once.
GiveBack(w) == /\ available' = available + held[w]
               /\ held' = [held EXCEPT ![w] = 0]
               /\ UNCHANGED spent

Publish(w) == /\ spent' = [spent EXCEPT ![w] = @ + held[w]]
              /\ held' = [held EXCEPT ![w] = 0]
              /\ UNCHANGED available

Next == \/ CountCached
        \/ \E w \in Workers : Take(w) \/ GiveBack(w) \/ Publish(w)

Spec == Init /\ [][Next]_vars
===============================================================================
