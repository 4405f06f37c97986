------------------------------- MODULE Block --------------------------------
(***************************************************************************)
(* Blocks of a table (block.c): the writer that appends records until one  *)
(* does not fit, and the reader that steps through a block or seeks in it. *)
(*                                                                         *)
(* The bytes of a block are a function from offsets to entries.  Offsets   *)
(* count from the start of the block, which for the first block of a file  *)
(* holds the file's header.                                                *)
(***************************************************************************)
EXTENDS Records

CONSTANTS BlockSize,        \* the writer's block_size option
          RestartInterval,  \* how often a key is written in full
          MaxRestarts,      \* 2^16 - 1 in the code
          HeaderSize        \* bytes of the file's header

ASSUME BlockSizes ==
  /\ {BlockSize, RestartInterval, MaxRestarts, HeaderSize} \subseteq Nat \ {0}
  /\ BlockSize > HeaderSize + 4

NoBlock == [typ |-> "none"]

\* What zlib makes of n bytes.  Data that does not shrink is left out: a block of
\* logs could then be longer in the file than what the reader fetches for it.
CompressedLen(n) == (3 * n) \div 4 + 1

--------------------------------------------------------------------------------
\* The block writer.
NewBlock(typ, hdr) ==
  [typ |-> typ, hdr |-> hdr, next |-> hdr + 4, ents |-> <<>>,
   restarts |-> <<>>, last |-> <<>>, entries |-> 0]

\* The entry of the next record: at each interval the key is written in full.
NextEntry(bw, rec) ==
  EncodeEntry(IF bw.entries % RestartInterval = 0 THEN <<>> ELSE bw.last, rec)

\* An entry whose key shares nothing with the key before can be jumped to.
RestartsWith(bw, e) ==
  IF e.prefix = 0 /\ Len(bw.restarts) < MaxRestarts
  THEN Append(bw.restarts, bw.next) ELSE bw.restarts

\* Whether the entry fits, with the restart table behind it.  Mutated: the
\* table's length field is forgotten.
BarelyRoom(bw, e) ==
  3 * Len(RestartsWith(bw, e)) + e.n <= BlockSize - bw.next
Room(bw, e) == 2 + 3 * Len(RestartsWith(bw, e)) + e.n <= BlockSize - bw.next

Fits(bw, rec) == Room(bw, NextEntry(bw, rec))

\* block_writer_register_restart, when there is room.
Register(bw, key, e) ==
  [bw EXCEPT !.ents = @ @@ (bw.next :> e), !.next = @ + e.n,
             !.restarts = RestartsWith(bw, e), !.last = key, !.entries = @ + 1]
BlockAdd(bw, rec) == Register(bw, rec.key, NextEntry(bw, rec))

\* The finished block: end is where the restart table starts, sz the size its
\* header gives, raw the bytes it takes in the file.
FinishBlock(bw) ==
  LET skip == bw.hdr + 4
      sz == bw.next + 3 * Len(bw.restarts) + 2
  IN  [typ |-> bw.typ, hdr |-> bw.hdr, ents |-> bw.ents,
       restarts |-> bw.restarts, end |-> bw.next, sz |-> sz,
       raw |-> IF bw.typ = Log THEN skip + CompressedLen(sz - skip) ELSE sz]

--------------------------------------------------------------------------------
\* binsearch of basics.c: the least i with f[i] if f is ascending, Len if none.
RECURSIVE Bisect(_, _, _)
Bisect(f, lo, hi) ==
  LET mid == lo + (hi - lo) \div 2
  IN  IF hi - lo <= 1
      THEN IF lo > 0 THEN hi ELSE IF f[0] THEN 0 ELSE 1
      ELSE IF f[mid] THEN Bisect(f, lo, mid) ELSE Bisect(f, mid, hi)

BinSearch(n, f) == Bisect(f, 0, n)

\* The block reader: a position is the offset of the next entry and the key
\* of the one before.
BlockStart(b) == [next |-> b.hdr + 4, last |-> <<>>]

\* One step: err is 1 at the end of the block, -1 (here 2) when the key cannot
\* be decoded.
BehindEntry(it, e) == [next |-> it.next + e.n, last |-> DecodeKey(it.last, e)]
BlockNext(b, it) ==
  IF it.next >= b.end THEN [err |-> 1, it |-> it]
  ELSE IF b.ents[it.next].prefix > Len(it.last) THEN [err |-> 2, it |-> it]
  ELSE [err |-> 0, rec |-> DecodeEntry(b.typ, it.last, b.ents[it.next]),
        it |-> BehindEntry(it, b.ents[it.next])]

FirstKey(b) == DecodeKey(<<>>, b.ents[b.hdr + 4])

RestartKey(b, i) == DecodeKey(<<>>, b.ents[b.restarts[i + 1]])

\* Steps over the entries below want: one entry too far, and back.
RECURSIVE SkipBelow(_, _, _, _)
SkipBelow(b, it, n, want) ==
  IF n.err = 0 /\ KeyLess(n.rec.key, want)
  THEN SkipBelow(b, n.it, BlockNext(b, n.it), want) ELSE it

\* block_reader_seek.  restart_key_less returns strbuf_cmp, which is true for
\* a restart key below want as well as for one above it: the search stops at
\* the restart that equals want, or at the first, and the steps do the rest.
SeekStart(b, i) ==
  IF i > 0 THEN [next |-> b.restarts[i], last |-> <<>>] ELSE BlockStart(b)
FirstRestart(b, want) ==
  BinSearch(Len(b.restarts),
            [j \in 0..(Len(b.restarts) - 1) |-> want # RestartKey(b, j)])
SeekFrom(b, it, want) == SkipBelow(b, it, BlockNext(b, it), want)
BlockSeek(b, want) == SeekFrom(b, SeekStart(b, FirstRestart(b, want)), want)
=============================================================================
