------------------------------ MODULE Refname -------------------------------
(***************************************************************************)
(* The checks on reference names (refname.c): no component of a name may   *)
(* be empty or a dot or two, and no name may be both a reference and a     *)
(* directory of references.                                                *)
(*                                                                         *)
(* A modification adds the names of the sequence add and deletes those of  *)
(* del, both in ascending order, from the merged tables ts.                *)
(***************************************************************************)
EXTENDS MergedTable

CONSTANTS Slash, Dot   \* two characters

Dirs(name) == {i \in DOMAIN name : name[i] = Slash}

\* find_name with binsearch: the first name not below want.
FindName(names, want) ==
  BinSearch(Len(names), [k \in 0..(Len(names) - 1) |-> ~KeyLess(names[k + 1], want)])
FoundIn(names, want) ==
  /\ names # <<>>
  /\ FindName(names, want) < Len(names)
  /\ names[FindName(names, want) + 1] = want

\* modification_has_ref.
HasRef(mod, name) ==
  \/ FoundIn(mod.add, name)
  \/ ~FoundIn(mod.del, name) /\ ReadRef(mod.ts, name)

\* modification_has_ref_with_prefix: the first name added, or the first live
\* reference that is not deleted, from prefix on.  Mutated: the deleted ones
\* are not skipped.
FirstAny(n, del) == n
RECURSIVE FirstKept(_, _)
FirstKept(n, del) ==
  IF n.err = 0 /\ FoundIn(del, n.rec.key) THEN FirstKept(MergedNext(n.mi), del) ELSE n
AddsPrefix(mod, prefix) ==
  LET i == FindName(mod.add, prefix)
  IN  mod.add # <<>> /\ i < Len(mod.add) /\ HasPrefix(mod.add[i + 1], prefix)
StartsWith(n, prefix) == n.err = 2 \/ (n.err = 0 /\ HasPrefix(n.rec.key, prefix))
HasRefWithPrefix(mod, prefix) ==
  \/ AddsPrefix(mod, prefix)
  \/ StartsWith(FirstKept(MergedNext(SeekMerged(mod.ts, Ref, prefix, TRUE)), mod.del),
                prefix)

\* validate_refname: the last component may not be empty, and those before it
\* may not be empty, a dot or two dots.
ValidRefname(name) ==
  /\ name # <<>> /\ name[Len(name)] # Slash
  /\ \A i \in {0} \cup Dirs(name), j \in Dirs(name) :
       (i < j /\ \A k \in Dirs(name) : ~(i < k /\ k < j)) =>
         SubSeq(name, i + 1, j - 1) \notin {<<>>, <<Dot>>, <<Dot, Dot>>}

\* modification_validate: below a name that is added there is no reference,
\* and none of the directories it lies in is one.  An error of a table refuses the
\* name as well.
Parents(name) == {SubSeq(name, 1, i - 1) : i \in Dirs(name)} \cup {<<>>}
Conflicts(mod, name) ==
  \/ HasRefWithPrefix(mod, Append(name, Slash))
  \/ \E p \in Parents(name) : HasRef(mod, p)
Refused(mod, name) == ~ValidRefname(name) \/ Conflicts(mod, name)
Validate(mod) == IF \E i \in DOMAIN mod.add : Refused(mod, mod.add[i])
                 THEN "refused" ELSE "ok"

\* validate_ref_record_addition: the references of a new table as a
\* modification of the tables ts.
NamesOf(recs) == [i \in DOMAIN recs |-> recs[i].key]
Added(recs) == NamesOf(SelectSeq(recs, LAMBDA rec : ~IsDeletion(rec)))
Deleted(recs) == NamesOf(SelectSeq(recs, IsDeletion))
ValidateAddition(ts, recs) ==
  Validate([ts |-> ts, add |-> Added(recs), del |-> Deleted(recs)])
=============================================================================
