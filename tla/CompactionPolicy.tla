-------------------------- MODULE CompactionPolicy ---------------------------
(***************************************************************************)
(* Which run of tables automatic compaction picks: fastlog2,               *)
(* sizes_to_segments and suggest_compaction_segment of c/stack.c, and the  *)
(* same three functions of stack.go.  "We play the game of 2048:           *)
(* consecutive tables of the same size are compacted together", which is   *)
(* meant to have an entry rewritten a logarithmic number of times.         *)
(*                                                                         *)
(* The state machine is a stack that grows and is compacted as advised, or *)
(* not at all when a concurrent writer made the attempt fail.  Sizes are   *)
(* those of stack_table_sizes_for_compaction, which are never zero.  The   *)
(* merge of tables may have any size: it is smaller than they are together *)
(* if some of their records hide others or are tombstones, it may be       *)
(* larger if it needs an index, and there is none if it has no records.    *)
(***************************************************************************)
EXTENDS Naturals, Sequences

CONSTANTS NewSizes,   \* sizes a new table may have
          MaxMerged,  \* bound: the size of a merged table
          MaxAdded    \* bound: the sizes of all new tables together

ASSUME SizesAssumption ==
  NewSizes \subseteq Nat \ {0} /\ MaxMerged \in Nat /\ MaxAdded \in Nat

VARIABLES
  sizes,    \* sizes of the tables, oldest first
  entries,  \* history: what the entries of each table have been through
  added     \* history: the sizes of all tables that were ever added, together

vars == <<sizes, entries, added>>

\* How often an entry has been rewritten by a compaction, and by how much these
\* compactions have made the stack smaller.
Fresh == [rewrites |-> 0, gone |-> 0]

fastlog2[sz \in Nat] == IF sz < 2 THEN 0 ELSE 1 + fastlog2[sz \div 2]

Log(ss, i) == fastlog2[ss[i]]

\* The bytes of tables first..last.
Bytes(ss, first, last) ==
  LET upto[i \in first..last] ==
        IF i = first THEN ss[i] ELSE upto[i - 1] + ss[i]
  IN  upto[last]

\* sizes_to_segments: where the segment begins that the scan is in after table
\* i.  It ends where the logarithm changes.
StartOf(ss) ==
  LET start[i \in 1..Len(ss)] ==
        IF i = 1 \/ Log(ss, i) # Log(ss, i - 1) THEN i ELSE start[i - 1]
  IN  start

\* Where the segments of more than one table end.  Mutated: those of one table
\* count too; the segment that the scan ends in is forgotten.
EndsOfAny(ss) ==
  {i \in 1..Len(ss) : i < Len(ss) => StartOf(ss)[i + 1] = i + 1}
EndsBeforeLast(ss) ==
  {i \in 1..Len(ss) - 1 : StartOf(ss)[i] < i /\ StartOf(ss)[i + 1] = i + 1}
Ends(ss) ==
  {i \in 1..Len(ss) : /\ StartOf(ss)[i] < i
                      /\ i < Len(ss) => StartOf(ss)[i + 1] = i + 1}

Candidates(ss) ==
  {[start |-> StartOf(ss)[i], end |-> i, log |-> Log(ss, i)] : i \in Ends(ss)}

\* The one with the smallest logarithm, the oldest if there are several.
Smallest(segs) ==
  CHOOSE s \in segs : \A t \in segs :
    s.log < t.log \/ (s.log = t.log /\ s.start <= t.start)

\* The run absorbs the table below it unless that table is larger.  Mutated:
\* it also absorbs one that is larger by a power of two.
AbsorbsLarger(ss, i, last) == fastlog2[Bytes(ss, i, last)] + 1 >= Log(ss, i - 1)
Absorbs(ss, i, last) == fastlog2[Bytes(ss, i, last)] >= Log(ss, i - 1)

\* suggest_compaction_segment: the runs to compact, at most one.
Suggested(ss) ==
  LET candidates == Candidates(ss)
      s == Smallest(candidates)
      lowest[i \in 1..s.start] ==
        IF i > 1 /\ Absorbs(ss, i, s.end) THEN lowest[i - 1] ELSE i
  IN  IF candidates = {} THEN {}
      ELSE {[first |-> lowest[s.start], last |-> s.end]}

-----------------------------------------------------------------------------
Init == sizes = <<>> /\ entries = <<>> /\ added = 0

\* A table is added.
Add(sz) ==
  /\ added + sz <= MaxAdded
  /\ sizes' = Append(sizes, sz)
  /\ entries' = Append(entries, {Fresh})
  /\ added' = added + sz

\* A merge of the run rewrites its entries.  Of the bytes that it reads, it does
\* not write those of records that are hidden, or are not needed any more.
Rewritten(run, sz) ==
  LET bytes == Bytes(sizes, run.first, run.last)
      lost  == IF sz < bytes THEN bytes - sz ELSE 0
  IN  {[rewrites |-> e.rewrites + 1, gone |-> e.gone + lost] :
         e \in UNION {entries[i] : i \in run.first..run.last}}

\* The run of a sequence is replaced.
Replaced(seq, run, new) ==
  SubSeq(seq, 1, run.first - 1) \o new \o SubSeq(seq, run.last + 1, Len(seq))

\* reftable_stack_auto_compact.  An empty merge leaves no table.
AutoCompact ==
  /\ \E run \in Suggested(sizes) :
       \/ /\ sizes' = Replaced(sizes, run, <<>>)
          /\ entries' = Replaced(entries, run, <<>>)
       \/ \E sz \in 1..MaxMerged :
            /\ sizes' = Replaced(sizes, run, <<sz>>)
            /\ entries' = Replaced(entries, run, <<Rewritten(run, sz)>>)
  /\ added' = added

Next == AutoCompact \/ \E sz \in NewSizes : Add(sz)

Spec == Init /\ [][Next]_vars

-----------------------------------------------------------------------------
(* Properties *)

\* What is suggested is a run of at least two tables of the stack: the runs the
\* automatic compactions of CStack and GoStack choose from.
RunWithinStack ==
  \A run \in Suggested(sizes) :
    1 <= run.first /\ run.first < run.last /\ run.last <= Len(sizes)

\* The advice never has an entry copied for nothing: the number of its rewrites is
\* at most the logarithm of its table's size, plus one for every byte by which the
\* compactions it went through have made the stack smaller.
RewritesPaid ==
  \A i \in 1..Len(sizes) : \A e \in entries[i] :
    e.rewrites <= fastlog2[sizes[i]] + e.gone

\* The advice is to do nothing exactly when no two neighbours have the same
\* size as determined by their logarithms.
QuietWhenBalanced ==
  Suggested(sizes) = {}
    <=> \A i \in 1..Len(sizes) - 1 : Log(sizes, i) # Log(sizes, i + 1)
=============================================================================
