----------------------------- MODULE MCGoStack ------------------------------
(***************************************************************************)
(* Instances of GoStack for model checking.                                *)
(***************************************************************************)
EXTENDS GoStack, TLC

CONSTANTS m, w, r,  \* processes
          a, b      \* references

\* Two writers, one of which cleans, and a process that opens and closes.
Writers == (m :> {"txn", "clean", "close"}) @@ (w :> {"add", "close"})

\* One process that changes the stack in every way, and one that reads it.
OneMutator == (m :> {"add", "compact", "clean", "close"})
              @@ (r :> {"close"})

\* A process that only compacts, and one that writes and cleans.
CompactAndWrite == (m :> {"compact", "expire"}) @@ (w :> {"txn", "clean"})

\* Two processes that add and compact.
TwoMutators == (m :> {"add", "compact"}) @@ (w :> {"add", "compact"})

\* A table that sets two references; one that deletes one of them.
SmallBatches == {(a :> "v") @@ (b :> "v"), a :> Deleted}

\* A table that sets a reference, one that deletes it.
SetOrDelete == {a :> "v", a :> Deleted}
OneBatch == {a :> "v"}
=============================================================================
