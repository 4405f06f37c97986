------------------------------- MODULE Tables -------------------------------
(***************************************************************************)
(* What a stack of tables means, common to the C and the Go stack.         *)
(*                                                                         *)
(* A table is abstracted to the reference records it holds: a function     *)
(* from a subset of Refs to Vals or to Deleted, the tombstone that hides a *)
(* record of an older table.  Its name carries the range of update indexes *)
(* the table covers and a suffix, as the names on disk do.  Records of the *)
(* reflog are left out: no property here is about them.                    *)
(***************************************************************************)
EXTENDS Naturals, Sequences

CONSTANTS Refs,      \* reference names
          Vals,      \* what a reference may point to
          Deleted,   \* the value of a deletion record
          Suffixes   \* the random part of a table's name

TableName == [min : Nat, max : Nat, sfx : Suffixes]

\* The contents a table may have, and the states a database may be in.
Contents == UNION { [D -> Vals \cup {Deleted}] : D \in SUBSET Refs }
Database == UNION { [D -> Vals] : D \in SUBSET Refs }

NoRecs == [r \in {} |-> Deleted]

\* An open table: its name and what can be read through it, even after the
\* file has been unlinked or replaced.
Reader == [name : TableName, recs : Contents]

NamesOf(rs) == [i \in 1..Len(rs) |-> rs[i].name]
RecsOf(rs)  == [i \in 1..Len(rs) |-> rs[i].recs]

\* The names in a list of names, and those of a sequence of readers.
NameSet(names) == {names[i] : i \in 1..Len(names)}
ReaderNames(rs) == {rs[i].name : i \in 1..Len(rs)}

\* The merged iterator: for each key the record of the newest table having it.
Merged(ts) ==
  LET having(r) == {i \in 1..Len(ts) : r \in DOMAIN ts[i]}
      newest(r) == CHOOSE i \in having(r) : \A j \in having(r) : j <= i
  IN  [r \in UNION {DOMAIN ts[i] : i \in 1..Len(ts)} |-> ts[newest(r)][r]]

\* The same with suppress_deletions: keys whose newest record is a deletion
\* do not appear.
Live(recs) == [r \in {x \in DOMAIN recs : recs[x] # Deleted} |-> recs[r]]

\* What a client of a stack reads.
View(rs) == Live(Merged(RecsOf(rs)))

\* The database after the tables ts were put on top of the state db.
Overlay(db, ts) == Live(Merged(<<db>> \o ts))

\* The content of the table that replaces tables first..last of a stack.  Only
\* at the bottom of the stack has a deletion nothing left to hide.  Mutated:
\* the oldest record of a key survives; the range starts one table too late.
CompactedOldest(rs, first, last) ==
  Live(Merged([i \in 1..(last - first + 1) |-> rs[last + 1 - i].recs]))
CompactedShort(rs, first, last) ==
  Merged(RecsOf(SubSeq(rs, first + 1, last)))
CompactedRecs(rs, first, last) ==
  LET all == Merged(RecsOf(SubSeq(rs, first, last)))
  IN  IF first = 1 THEN Live(all) ELSE all

\* The list after tables first..last were replaced by the names in new (one
\* name, or none when the merge left no record).
Spliced(names, first, last, new) ==
  SubSeq(names, 1, first - 1) \o new \o SubSeq(names, last + 1, Len(names))

\* Every table covers a range of update indexes above those of the tables
\* below it.
Ordered(names) ==
  /\ \A i \in 1..Len(names) : names[i].min <= names[i].max
  /\ \A i, j \in 1..Len(names) : i < j => names[i].max < names[j].min

\* The update index the next table may start at.  Mutated: the last one taken.
LastUpdateIndex(rs) == IF rs = <<>> THEN 1 ELSE rs[Len(rs)].name.max
NextUpdateIndex(rs) == IF rs = <<>> THEN 1 ELSE rs[Len(rs)].name.max + 1

MaxUpdateIndex(rs) == NextUpdateIndex(rs) - 1
=============================================================================
