------------------------------- MODULE Writer -------------------------------
(***************************************************************************)
(* The table writer (writer.c): the state of one reftable_writer as a      *)
(* record w, and what its operations make of it.  The file is a function   *)
(* from offsets to finished blocks; pos is where the next byte goes and    *)
(* next is where the writer believes the next block starts, padding        *)
(* included.                                                               *)
(***************************************************************************)
EXTENDS Block

NewStats == [blocks |-> 0, offset |-> 0, idxOffset |-> 0, idxBlocks |-> 0]

\* writer_reinit_block_writer.  It also forgets the last key.
Reinit(w, typ) ==
  [w EXCEPT !.bw = NewBlock(typ, IF w.next = 0 THEN HeaderSize ELSE 0),
            !.last = <<>>]

\* reftable_new_writer and reftable_writer_set_limits.
NewWriter(unpadded, min, max) ==
  Reinit([bw |-> NoBlock, last |-> <<>>, next |-> 0, pos |-> 0, pad |-> 0,
          file |-> <<>>, index |-> <<>>, obj |-> <<>>, objLen |-> 0,
          st |-> [t \in {Ref, Obj, Idx, Log} |-> NewStats],
          unpadded |-> unpadded, min |-> min, max |-> max], Ref)

\* writer_flush_block with padded_write: padding is written before the next
\* block, if there is one.
Padding(w, b) == IF w.unpadded \/ b.typ = Log THEN 0 ELSE BlockSize - b.raw
FlushNonempty(w, b) ==
  LET at == w.pos + w.pad
  IN  [w EXCEPT !.st[b.typ].blocks = @ + 1,
                !.st[b.typ].offset =
                  IF w.st[b.typ].blocks = 0 /\ w.next > 0 THEN w.next ELSE @,
                !.file = @ @@ (at :> b), !.pos = at + b.raw,
                !.pad = Padding(w, b),
                !.index = Append(@, [key |-> w.bw.last, offset |-> w.next]),
                !.next = @ + Padding(w, b) + b.raw, !.bw = NoBlock]
FlushBlock(w) ==
  IF w.bw = NoBlock THEN w
  ELSE IF w.bw.entries = 0 THEN w ELSE FlushNonempty(w, FinishBlock(w.bw))
Fresh(w, typ) == Reinit(FlushBlock(w), typ)

\* A record goes into the current block, or into a fresh one behind it if it
\* fits there.
PutInto(w, rec) == [err |-> "ok", w |-> [w EXCEPT !.bw = BlockAdd(@, rec)]]
PutFresh(w, rec) ==
  IF Fits(w.bw, rec) THEN PutInto(w, rec) ELSE [err |-> "big", w |-> w]
Put(w, rec) ==
  IF Fits(w.bw, rec) THEN PutInto(w, rec) ELSE PutFresh(Fresh(w, rec.typ), rec)

\* writer_add_record: a key that is not above the last one is refused, and so
\* is a record too large for a block of its own.
Keyed(w, rec) ==
  LET w1 == [w EXCEPT !.last = rec.key]
  IN  IF w1.bw = NoBlock THEN Reinit(w1, rec.typ) ELSE w1
AddRecord(w, rec) ==
  IF KeyLess(w.last, rec.key) THEN Put(Keyed(w, rec), rec)
  ELSE [err |-> "api", w |-> w]

--------------------------------------------------------------------------------
\* The object index: for each hash the blocks whose references hold it.
Offsets(obj, h) == IF h \in DOMAIN obj THEN obj[h] ELSE <<>>

\* writer_index_hash: called after the record was added, so next is the start
\* of the block the record is in.
Seen(offs, off) == offs # <<>> /\ offs[Len(offs)] = off
IndexHash(w, h) ==
  IF Seen(Offsets(w.obj, h), w.next) THEN w
  ELSE [w EXCEPT !.obj = (h :> Append(Offsets(@, h), w.next)) @@ @]

RECURSIVE IndexHashes(_, _)
IndexHashes(w, hs) ==
  IF hs = <<>> THEN w ELSE IndexHashes(IndexHash(w, Head(hs)), Tail(hs))

\* reftable_writer_add_ref.  ref is [name, type, hashes, ui].  Mutated: the
\* hashes are indexed before the record goes into its block.
RefOf(w, ref) == RefRecord(ref.name, ref.type, ref.hashes, ref.ui - w.min)
HashesOf(ref) == IF ref.type \in {Val1, Val2} THEN ref.hashes ELSE <<>>
AddRefIndexFirst(w, ref) ==
  IF ref.name = <<>> \/ ref.ui \notin w.min..w.max THEN [err |-> "api", w |-> w]
  ELSE AddRecord(IndexHashes(w, HashesOf(ref)), RefOf(w, ref))
Indexed(a, hs) ==
  IF a.err = "ok" THEN [a EXCEPT !.w = IndexHashes(@, hs)] ELSE a
AddRefTo(w, ref) ==
  IF ref.name = <<>> \/ ref.ui \notin w.min..w.max THEN [err |-> "api", w |-> w]
  ELSE Indexed(AddRecord(w, RefOf(w, ref)), HashesOf(ref))

--------------------------------------------------------------------------------
\* Sections.  An index record per block of the level below.  The code aborts if one
\* does not fit a fresh block; here there is no value then, and a run that gets
\* there fails.
Written(put) == CASE put.err = "ok" -> put.w
RECURSIVE PutIndex(_, _)
PutIndex(w, idx) ==
  IF idx = <<>> THEN w
  ELSE PutIndex(Written(Put(w, IndexRecord(Head(idx).key, Head(idx).offset))), Tail(idx))

\* The loop of writer_finish_section.  The last block of a level is flushed
\* only after the loop: a further level neither indexes nor keeps it, and when
\* there is none its index record is left for the section that follows.
Threshold(w) == IF w.unpadded THEN 1 ELSE 3
RECURSIVE IndexLevels(_, _)
IndexLevels(w, start) ==
  IF Len(w.index) <= Threshold(w) THEN [w |-> w, start |-> start]
  ELSE IndexLevels(PutIndex(Reinit([w EXCEPT !.index = <<>>], Idx), w.index),
                   w.next)

SectionStats(typ, before, start, w) ==
  [w EXCEPT !.last = <<>>, !.st[typ].idxOffset = start,
     !.st[typ].idxBlocks = w.st[Idx].blocks - before]
AfterLevels(w, levels) ==
  SectionStats(w.bw.typ, w.st[Idx].blocks, levels.start,
               FlushBlock([levels.w EXCEPT !.index = <<>>]))
FinishSection(w) == AfterLevels(w, IndexLevels(FlushBlock(w), 0))

\* infix_walk over the tree of hashes.
RECURSIVE Ascending(_)
Ascending(S) ==
  IF S = {} THEN <<>>
  ELSE LET least == CHOOSE k \in S : \A j \in S \ {k} : KeyLess(k, j)
       IN  <<least>> \o Ascending(S \ {least})

\* The shortest length at which all hashes differ.
LongestCommon(hs) ==
  LET common == {0} \cup {CommonPrefix(hs[i - 1], hs[i]) : i \in 2..Len(hs)}
  IN  CHOOSE n \in common : \A c \in common : c <= n
ObjectIdLen(hs) == LongestCommon(hs) + 1

\* write_object_record: a record too long for a fresh block is written without
\* its offsets.
OrWithout(a, prefix) ==
  IF a.err = "ok" THEN a ELSE PutInto(a.w, ObjRecord(prefix, <<>>))
PutObject(w, prefix, offs) ==
  OrWithout(Put(w, ObjRecord(prefix, offs)), prefix).w

RECURSIVE PutObjects(_, _)
PutObjects(w, hs) ==
  IF hs = <<>> THEN w
  ELSE PutObjects(PutObject(w, SubSeq(Head(hs), 1, w.objLen), w.obj[Head(hs)]),
                  Tail(hs))

DumpObjects(w, hs) ==
  FinishSection(PutObjects(Reinit([w EXCEPT !.objLen = ObjectIdLen(hs)], Obj), hs))
DumpObjectIndex(w) == DumpObjects(w, Ascending(DOMAIN w.obj))

\* writer_finish_public_section: the object index is worth its place only when
\* the references have an index.
WithObjects(typ, w) ==
  IF typ = Ref /\ w.st[Ref].idxBlocks > 0 THEN DumpObjectIndex(w) ELSE w
FinishPublic(w) ==
  IF w.bw = NoBlock THEN w
  ELSE [WithObjects(w.bw.typ, FinishSection(w)) EXCEPT !.obj = <<>>, !.bw = NoBlock]

\* reftable_writer_add_log: the first log ends the references, and takes back
\* the padding behind them.
EndRefs(w) == IF w.bw.typ = Ref THEN FinishPublic(w) ELSE w
Unpad(w) == [w EXCEPT !.next = @ - w.pad, !.pad = 0]
AddLogTo(w, log) ==
  AddRecord(Unpad(EndRefs(w)), LogRecord(log.name, log.ui, log.type))

\* reftable_writer_close: the footer, as the reader will find it.  size is the
\* size of the file without the footer; an empty table is an error.
Closed(w) ==
  [empty |-> w.next = 0, file |-> w.file, size |-> w.pos,
   min |-> w.min, max |-> w.max, objLen |-> w.objLen,
   offs |-> [t \in {Ref, Obj, Log} |-> w.st[t].offset],
   idxs |-> [t \in {Ref, Obj, Log} |-> w.st[t].idxOffset]]
CloseWriter(w) == Closed(FinishPublic(w))
=============================================================================
