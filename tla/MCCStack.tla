------------------------------ MODULE MCCStack ------------------------------
(***************************************************************************)
(* Instances of CStack for model checking: who the processes are, what     *)
(* they call and what their callbacks write.                               *)
(***************************************************************************)
EXTENDS CStack, TLC

CONSTANTS m, w, r,  \* processes: mutators and a reader
          a, b      \* references

\* One process that changes the stack in every way, and one that reads it.
OneMutator == (m :> {"add", "compact", "clean", "destroy"})
              @@ (r :> {"reload"})

\* The least that shows each of the disagreements: two writers; a process that
\* compacts beside one that writes; a process that compacts beside a reader.
TwoWriters     == (m :> {"txn"}) @@ (w :> {"txn"})
AddAndCompact  == (m :> {"add", "compact"}) @@ (w :> {"txn", "reload"})
CompactAndRead == (m :> {"add", "compact"}) @@ (r :> {"reload"})

\* A table that sets two references; one that deletes one of them.
SmallBatches == {(a :> "v") @@ (b :> "v"), a :> Deleted}
=============================================================================
