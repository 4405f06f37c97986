------------------------------- MODULE Reader -------------------------------
(***************************************************************************)
(* The table reader (reader.c, and the reference iterators of iter.c):     *)
(* what a seek, a step and a search by object make of a closed table t, as *)
(* CloseWriter leaves it.                                                  *)
(*                                                                         *)
(* An iterator over a table is a record [typ, off, bi, done]: the type of  *)
(* the records it yields, the offset of the block it is in, the position   *)
(* in that block, and whether it has come to its end.  Results carry the   *)
(* code's return value: 0, 1 for "no more", 2 for an error.                *)
(***************************************************************************)
EXTENDS Writer

EmptyIter == [typ |-> "none", off |-> 0, bi |-> [next |-> 0, last |-> <<>>],
              done |-> TRUE]

\* parse_footer: a section of references starts the file or does not exist.
FirstType(t) == t.file[0].typ
IsPresent(t, typ) ==
  CASE typ = Ref -> FirstType(t) = Ref
    [] typ = Log -> FirstType(t) = Log \/ t.offs[Log] > 0
    [] typ = Obj -> t.offs[Obj] > 0

\* reader_init_block_reader: 1 past the end of the file and at bytes that are
\* not a block of the type wanted, an error at bytes that are no block at all.
BlockAt(t, off, want) ==
  CASE off >= t.size -> 1
    [] off < t.size /\ off \notin DOMAIN t.file -> IF want = "any" THEN 2 ELSE 1
    [] OTHER -> IF want \in {"any", t.file[off].typ} THEN 0 ELSE 1

\* full_block_size of block_reader_init: a block smaller than the table's
\* block size is padded unless something follows it at once.  Mutated: it is
\* always taken to be padded.
FullSizePadded(t, off) ==
  IF t.file[off].typ = Log THEN t.file[off].raw ELSE BlockSize
FullSize(t, off) ==
  LET b == t.file[off]
  IN  CASE b.typ = Log -> b.raw
        [] b.typ # Log /\ b.sz < BlockSize /\ off + b.sz \in DOMAIN t.file -> b.sz
        [] OTHER -> BlockSize

IterAt(t, off) ==
  [typ |-> t.file[off].typ, off |-> off, bi |-> BlockStart(t.file[off]),
   done |-> FALSE]

\* table_iter_next_block: the block behind the one ti is in.
BlockOrEnd(t, ti, off, err) ==
  [err |-> err, it |-> IF err = 0 THEN IterAt(t, off) ELSE ti]
BlockBehind(t, ti, off) == BlockOrEnd(t, ti, off, BlockAt(t, off, ti.typ))
NextBlock(t, ti) == BlockBehind(t, ti, ti.off + FullSize(t, ti.off))

\* table_iter_next, with the update index made absolute again.
Absolute(t, rec) ==
  IF rec.typ = Ref THEN [rec EXCEPT !.val.delta = @ + t.min] ELSE rec
RECURSIVE TableNext(_, _)
AcrossBlock(t, ti, nb) ==
  IF nb.err = 0 THEN TableNext(t, nb.it)
  ELSE [err |-> nb.err, it |-> [ti EXCEPT !.done = TRUE]]
InBlock(t, ti, n) ==
  CASE n.err = 0 -> [err |-> 0, rec |-> Absolute(t, n.rec), it |-> [ti EXCEPT !.bi = n.it]]
    [] n.err = 1 -> AcrossBlock(t, ti, NextBlock(t, ti))
    [] n.err = 2 -> [err |-> 2, it |-> ti]
TableNext(t, ti) ==
  IF ti.done THEN [err |-> 1, it |-> ti]
  ELSE InBlock(t, ti, BlockNext(t.file[ti.off], ti.bi))

--------------------------------------------------------------------------------
\* reader_seek_linear: the last block whose first key is not above want.
RECURSIVE LastBelow(_, _, _, _)
LastBelow(t, ti, nb, want) ==
  IF nb.err = 0 /\ ~KeyLess(want, FirstKey(t.file[nb.it.off]))
  THEN LastBelow(t, nb.it, NextBlock(t, nb.it), want) ELSE ti
SeekInBlock(t, ti, want) == [ti EXCEPT !.bi = BlockSeek(t.file[ti.off], want)]
SeekLinear(t, ti, want) ==
  SeekInBlock(t, LastBelow(t, ti, NextBlock(t, ti), want), want)

\* reader_seek_indexed: from the first index record not below want down to the
\* block it points to, and in it to the first record not below want.
Failed(err) == [err |-> err, it |-> EmptyIter]
RECURSIVE Descend(_, _, _, _)
Below(t, next, want, typ) ==
  CASE next.typ = typ -> [err |-> 0, it |-> next]
    [] next.typ # typ /\ next.typ = Idx -> Descend(t, TableNext(t, next), want, typ)
    [] next.typ \notin {typ, Idx} -> Failed(2)
Descend(t, n, want, typ) ==
  IF n.err # 0 THEN Failed(n.err)
  ELSE IF BlockAt(t, n.rec.val, "any") # 0 THEN Failed(BlockAt(t, n.rec.val, "any"))
  ELSE Below(t, SeekInBlock(t, IterAt(t, n.rec.val), want), want, typ)
SeekIndexed(t, typ, want) ==
  Descend(t, TableNext(t, SeekLinear(t, IterAt(t, t.idxs[typ]), want)), want, typ)

\* reader_seek.
SeekTable(t, typ, want) ==
  IF ~IsPresent(t, typ) THEN [err |-> 0, it |-> EmptyIter]
  ELSE IF t.idxs[typ] > 0 THEN SeekIndexed(t, typ, want)
  ELSE [err |-> 0, it |-> SeekLinear(t, IterAt(t, t.offs[typ]), want)]

\* Everything an iterator yields.
RECURSIVE DrainFrom(_, _)
DrainFrom(t, n) ==
  IF n.err = 0 THEN <<n.rec>> \o DrainFrom(t, TableNext(t, n.it)) ELSE <<>>
Drain(t, ti) == DrainFrom(t, TableNext(t, ti))

--------------------------------------------------------------------------------
\* reftable_reader_refs_for_unindexed: every reference is looked at.  Without
\* references there is an error in place of the first record.
Points(rec, oid) == rec.ext \in {Val1, Val2} /\ \E i \in DOMAIN rec.val.hashes :
                                                  rec.val.hashes[i] = oid
RefsForUnindexed(t, oid) ==
  LET all == IF IsPresent(t, Ref) THEN Drain(t, IterAt(t, 0)) ELSE <<>>
  IN  SelectSeq(all, LAMBDA rec : Points(rec, oid))

\* indexed_table_ref_iter_next: the blocks at the offsets, one after another.
\* The comparison reads the two hashes of an annotated tag whatever the record
\* is; it is modelled for tags, and its callers are held to them.
IsTagOf(rec, oid) == rec.val.hashes[2] = oid \/ rec.val.hashes[1] = oid
RECURSIVE BlockRecords(_, _)
BlockRecords(b, n) ==
  IF n.err = 0 THEN <<n.rec>> \o BlockRecords(b, BlockNext(b, n.it)) ELSE <<>>
RecordsOf(b) == BlockRecords(b, BlockNext(b, BlockStart(b)))
RECURSIVE IndexedRefs(_, _, _)
IndexedRefs(t, offs, oid) ==
  IF offs = <<>> THEN <<>>
  ELSE SelectSeq(RecordsOf(t.file[Head(offs)]), LAMBDA rec : IsTagOf(rec, oid))
       \o IndexedRefs(t, Tail(offs), oid)

\* reftable_reader_refs_for_indexed: the hash is looked up by its first objLen
\* digits.  A seek that fails is an error of the call: nothing is yielded.
FirstAt(t, s) == IF s.err = 0 THEN TableNext(t, s.it) ELSE s
RefsAt(t, n, oid) ==
  IF n.err # 0 THEN <<>>
  ELSE IF n.rec.key # SubSeq(oid, 1, t.objLen) THEN <<>>
  ELSE IndexedRefs(t, n.rec.val, oid)
RefsForIndexed(t, oid) ==
  RefsAt(t, FirstAt(t, SeekTable(t, Obj, SubSeq(oid, 1, t.objLen))), oid)

RefsFor(t, oid) ==
  IF IsPresent(t, Obj) THEN RefsForIndexed(t, oid) ELSE RefsForUnindexed(t, oid)
=============================================================================
