---------------------------- MODULE MergedTable -----------------------------
(***************************************************************************)
(* The merged table (merged.c) and its priority queue (pq.c): an iterator  *)
(* over several tables at once, which yields for every key the record of   *)
(* the newest table that has one.                                          *)
(*                                                                         *)
(* A merged iterator mi holds the open iterators of its tables, oldest     *)
(* first, each with the table it reads ([t, it, null]), and a heap of      *)
(* entries [rec, index], at most one per table: the record that iterator   *)
(* yielded last.  The heap's position i is the code's heap[i - 1].  err is   *)
(* 0, or the error of a table's seek or step, which is that of the merged   *)
(* iterator as well: its callers do not go on after it.                     *)
(***************************************************************************)
EXTENDS Reader

\* pq_less: by key, and for one key the newest table first.  Mutated: the
\* oldest first.
PqLessOldest(a, b) ==
  IF a.rec.key = b.rec.key THEN a.index < b.index ELSE KeyLess(a.rec.key, b.rec.key)
PqLess(a, b) ==
  IF a.rec.key = b.rec.key THEN a.index > b.index ELSE KeyLess(a.rec.key, b.rec.key)

Swap(h, i, j) == [h EXCEPT ![i] = h[j], ![j] = h[i]]

\* merged_iter_pqueue_add.
RECURSIVE SiftUp(_, _)
SiftUp(h, i) ==
  LET parent == i \div 2
  IN  IF i = 1 THEN h
      ELSE IF PqLess(h[parent], h[i]) THEN h
      ELSE SiftUp(Swap(h, parent, i), parent)
PqAdd(h, e) == SiftUp(Append(h, e), Len(h) + 1)

\* merged_iter_pqueue_remove: the last entry takes the place of the first and
\* sinks.
LesserChild(h, i) ==
  LET left  == IF 2 * i <= Len(h) /\ PqLess(h[2 * i], h[i]) THEN 2 * i ELSE i
  IN  IF 2 * i + 1 <= Len(h) /\ PqLess(h[2 * i + 1], h[left]) THEN 2 * i + 1
      ELSE left
RECURSIVE SiftDown(_, _)
SiftDown(h, i) ==
  LET min == LesserChild(h, i)
  IN  IF min = i THEN h ELSE SiftDown(Swap(h, i, min), min)
PqRemove(h) ==
  LET rest == SubSeq(h, 1, Len(h) - 1)
  IN  IF rest = <<>> THEN <<>> ELSE SiftDown([rest EXCEPT ![1] = h[Len(h)]], 1)

--------------------------------------------------------------------------------
\* merged_iter_advance_subiter: the table's next record goes into the heap; an
\* iterator that has no more is closed.
Advanced(mi, i, n) ==
  CASE n.err = 0 -> [mi EXCEPT !.subs[i].it = n.it,
                               !.pq = PqAdd(@, [rec |-> n.rec, index |-> i])]
    [] n.err = 1 -> [mi EXCEPT !.subs[i].null = TRUE]
    [] n.err = 2 -> [mi EXCEPT !.err = 2]
Advance(mi, i) ==
  IF mi.subs[i].null THEN mi
  ELSE Advanced(mi, i, TableNext(mi.subs[i].t, mi.subs[i].it))

\* merged_table_seek_record and merged_iter_init: an iterator for every table
\* whose seek found a place, and the first record of each.  The first error ends
\* the seek.
RECURSIVE AdvanceAll(_, _)
AdvanceAll(mi, i) ==
  IF i > Len(mi.subs) \/ mi.err # 0 THEN mi ELSE AdvanceAll(Advance(mi, i), i + 1)

Found(t, s) == IF s.err = 0 THEN <<[t |-> t, it |-> s.it, null |-> FALSE]>> ELSE <<>>
RECURSIVE OpenAll(_, _, _, _)
OpenNext(ts, typ, want, mi, s) ==
  IF s.err = 2 THEN [mi EXCEPT !.err = 2]
  ELSE OpenAll(Tail(ts), typ, want, [mi EXCEPT !.subs = @ \o Found(Head(ts), s)])
OpenAll(ts, typ, want, mi) ==
  IF ts = <<>> THEN mi
  ELSE OpenNext(ts, typ, want, mi, SeekTable(Head(ts), typ, want))
SeekMerged(ts, typ, want, suppress) ==
  AdvanceAll(OpenAll(ts, typ, want, [err |-> 0, subs |-> <<>>, pq |-> <<>>,
                                     suppress |-> suppress]), 1)

\* merged_iter_next_entry: the least entry, and the records the older tables
\* have of its key are passed over.  Mutated: they are not.
RECURSIVE DropOlder(_, _)
Popped(mi) == Advance([mi EXCEPT !.pq = PqRemove(@)], mi.pq[1].index)
DropOlder(mi, key) ==
  IF mi.err # 0 \/ mi.pq = <<>> THEN mi
  ELSE IF KeyLess(key, mi.pq[1].rec.key) THEN mi
  ELSE DropOlder(Popped(mi), key)
Yielded(rec, rest) == [err |-> rest.err, rec |-> rec, mi |-> rest]
NextEntryStuck(mi) == Yielded(mi.pq[1].rec, Popped(mi))
NextMerged(mi) ==
  Yielded(mi.pq[1].rec, DropOlder(Popped(mi), mi.pq[1].rec.key))

\* merged_iter_next.
RECURSIVE MergedNext(_)
Unsuppressed(n) ==
  IF n.err = 0 /\ n.mi.suppress /\ IsDeletion(n.rec) THEN MergedNext(n.mi) ELSE n
MergedNext(mi) ==
  IF mi.err # 0 THEN [err |-> mi.err, mi |-> mi]
  ELSE IF mi.pq = <<>> THEN [err |-> 1, mi |-> mi] ELSE Unsuppressed(NextMerged(mi))

\* What an iterator yields until its end or an error, and which of them it was.
RECURSIVE DrainMergedFrom(_, _)
DrainMergedFrom(n, recs) ==
  IF n.err = 0 THEN DrainMergedFrom(MergedNext(n.mi), Append(recs, n.rec))
  ELSE [recs |-> recs, err |-> n.err]
DrainMerged(mi) == DrainMergedFrom(MergedNext(mi), <<>>)

\* reftable_table_read_ref: there is a record of exactly this name that is no
\* deletion, or the error that keeps one from knowing.
Reads(n, name) ==
  n.err = 2 \/ (n.err = 0 /\ n.rec.key = name /\ ~IsDeletion(n.rec))
ReadRef(ts, name) == Reads(MergedNext(SeekMerged(ts, Ref, name, TRUE)), name)
=============================================================================
