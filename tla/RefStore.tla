------------------------------ MODULE RefStore ------------------------------
(***************************************************************************)
(* What a stack of tables promises to one client, without tables: a store  *)
(* of references to which transactions are applied whole, in which no      *)
(* reference is ever a directory of another, and which can be scanned from *)
(* a name on.  A scan yields the references that were there when it began, *)
(* in the order of their names, whatever is committed meanwhile.           *)
(***************************************************************************)
EXTENDS Sequences

CONSTANTS Batch,              \* transactions: [name -> value or NoValue]
          NoValue,            \* the value of a deletion
          From,               \* names a scan may start at
          NoScan,             \* there is no scan under way
          Before(_, _),       \* the order of names
          Within(_, _)        \* the first name is a directory of the second

VARIABLES db,                 \* the references and their values
          scan                \* NoScan, or what a scan reads and has yielded

vars == <<db, scan>>

Consistent(d) == \A p, q \in DOMAIN d : ~Within(p, q)

After(d, b) ==
  [n \in (DOMAIN d \ DOMAIN b) \cup {m \in DOMAIN b : b[m] # NoValue} |->
     IF n \in DOMAIN b THEN b[n] ELSE d[n]]

Init == db = [n \in {} |-> NoValue] /\ scan = NoScan

Commit == \E b \in Batch :
  /\ Consistent(After(db, b))
  /\ db' = After(db, b)
  /\ UNCHANGED scan

Open == \E from \in From :
  /\ scan = NoScan
  /\ scan' = [db |-> db, from |-> from, out |-> <<>>]
  /\ UNCHANGED db

\* The names a scan has still to yield.
Ahead ==
  {n \in DOMAIN scan.db :
     /\ ~Before(n, scan.from)
     /\ scan.out # <<>> => Before(scan.out[Len(scan.out)].name, n)}

Yield == \E n \in Ahead :
  /\ \A m \in Ahead \ {n} : Before(n, m)
  /\ scan' = [scan EXCEPT !.out = Append(@, [name |-> n, value |-> scan.db[n]])]
  /\ UNCHANGED db

End == Ahead = {} /\ scan' = NoScan /\ UNCHANGED db

Next == Commit \/ Open \/ (scan # NoScan /\ (Yield \/ End))

Spec == Init /\ [][Next]_vars
=============================================================================
