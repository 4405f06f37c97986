----------------------------- MODULE TableStack -----------------------------
(***************************************************************************)
(* The tables of a stack from the inside: a client writes one table after  *)
(* another record by record, each is validated against the references that *)
(* are there and put on top, ranges of tables are merged into one, and the *)
(* references are read through the merged table.                           *)
(*                                                                         *)
(* One process uses the stack; what several of them do to its files is the *)
(* subject of CStack.  With every closed table the specification keeps the *)
(* records its writer was given (refs and logs), which the code does not,  *)
(* so that the properties can compare what is read with what was written.  *)
(***************************************************************************)
EXTENDS Refname

CONSTANTS Batches,    \* what a client writes with and without padding: sets
                      \* of [refs, logs], both sequences
          Unpadded,   \* values of the option of that name
          Wanted,     \* names a scan may start at
          Expiry,     \* update indexes below which reflog entries may expire
          MaxAdds     \* bound on the tables a client writes

VARIABLES unpadded,   \* the option of this stack
          tabs,       \* the tables of the stack, oldest first
          add,        \* NoAdd, or a table under way: its writer and what is left
          scan,       \* NoScan, or an iterator of the merged table
          adds,       \* tables begun
          live        \* history: reflog entries written, and neither deleted
                      \* nor expired since, as pairs of a name and an index

vars == <<unpadded, tabs, add, scan, adds, live>>

NoAdd == [w |-> NoBlock]
NoScan == [out |-> NoBlock]

--------------------------------------------------------------------------------
\* What the tables mean, by the records their writers were given.
Range(s) == {s[i] : i \in DOMAIN s}
Value(r) == IF r.type = Deletion THEN <<>> ELSE <<r.type, r.hashes>>

\* A table's references as a transaction of the abstract store.
RECURSIVE Changes(_)
Changes(refs) ==
  IF refs = <<>> THEN <<>>
  ELSE (Head(refs).name :> Value(Head(refs))) @@ Changes(Tail(refs))

\* For each name the value in the newest table that has it.
RECURSIVE Overlaid(_)
Overlaid(ts) ==
  IF ts = <<>> THEN <<>> ELSE Overlaid(Tail(ts)) @@ Changes(Head(ts).refs)
Alive(values) == [n \in {m \in DOMAIN values : values[m] # <<>>} |-> values[n]]
View(ts) == Alive(Overlaid(ts))

--------------------------------------------------------------------------------
Init == /\ unpadded \in Unpadded
        /\ tabs = <<>>
        /\ add = NoAdd
        /\ scan = NoScan
        /\ adds = 0
        /\ live = {}

NextUpdateIndex == IF tabs = <<>> THEN 1 ELSE tabs[Len(tabs)].max + 1

\* reftable_addition_add: a writer for the next update index.  A log record
\* that deletes an older one brings its own.
Stamped(recs, ui) ==
  [i \in DOMAIN recs |-> recs[i] @@ [ui |-> ui]]
Begin == \E b \in Batches[unpadded] :
  /\ add = NoAdd /\ adds < MaxAdds
  /\ LET ui == NextUpdateIndex
     IN  add' = [w |-> NewWriter(unpadded, ui, ui),
                 refs |-> Stamped(b.refs, ui), logs |-> Stamped(b.logs, ui),
                 given |-> [refs |-> Stamped(b.refs, ui),
                            logs |-> Stamped(b.logs, ui)]]
  /\ adds' = adds + 1
  /\ UNCHANGED <<unpadded, tabs, scan, live>>

\* reftable_writer_add_refs and _add_logs, a record at a time.  An error ends
\* the table and its transaction.
Continue(result, left) ==
  add' = IF result.err = "ok" THEN [left EXCEPT !.w = result.w] ELSE NoAdd

AddRef ==
  /\ add # NoAdd /\ add.refs # <<>>
  /\ Continue(AddRefTo(add.w, Head(add.refs)), [add EXCEPT !.refs = Tail(@)])
  /\ UNCHANGED <<unpadded, tabs, scan, adds, live>>

AddLog ==
  /\ add # NoAdd /\ add.refs = <<>> /\ add.logs # <<>>
  /\ Continue(AddLogTo(add.w, Head(add.logs)), [add EXCEPT !.logs = Tail(@)])
  /\ UNCHANGED <<unpadded, tabs, scan, adds, live>>

\* The table is closed, read back by stack_check_addition, and put on top of
\* the stack if its references conflict with none that are there.
CheckedFrom(t, s) ==
  IF s.err = 2 THEN "failed" ELSE ValidateAddition(tabs, Drain(t, s.it))
Checked(t) == CheckedFrom(t, SeekTable(t, Ref, <<>>))
Accepted(t) == ~t.empty /\ Checked(t) = "ok"

EntryOf(log) == <<log.name, log.ui>>
Dead(logs) == {EntryOf(l) : l \in {k \in Range(logs) : k.type = Deletion}}
Born(logs) == {EntryOf(l) : l \in {k \in Range(logs) : k.type # Deletion}}
Close ==
  /\ add # NoAdd /\ add.refs = <<>> /\ add.logs = <<>>
  /\ \E t \in {CloseWriter(add.w)} :
       IF Accepted(t)
       THEN /\ tabs' = Append(tabs, t @@ add.given)
            /\ live' = (live \ Dead(add.given.logs)) \cup Born(add.given.logs)
       ELSE UNCHANGED <<tabs, live>>
  /\ add' = NoAdd
  /\ UNCHANGED <<unpadded, scan, adds>>

--------------------------------------------------------------------------------
\* stack_write_compact: the references and then the logs of the merged tables,
\* without the deletions if there is no table below them, and without the logs
\* that have expired.
AsRef(rec) == [name |-> rec.key, type |-> rec.ext, hashes |-> rec.val.hashes,
               ui |-> rec.val.delta]
AsLog(rec) == [name |-> LogName(rec.key), type |-> rec.ext, ui |-> LogIndex(rec.key)]
Kept(recs, first) ==
  SelectSeq(recs, LAMBDA rec : first > 1 \/ ~IsDeletion(rec))
Unexpired(logs, oldest) == SelectSeq(logs, LAMBDA log : log.ui >= oldest)
MapSeq(Op(_), s) == [i \in DOMAIN s |-> Op(s[i])]
RefsOf(ts) == SeekMerged(ts, Ref, <<>>, FALSE)
AllLogs(ts) == DrainMerged(SeekMerged(ts, Log, LogKey(<<>>, MaxIndex), FALSE))
RefsLeft(first, all) == MapSeq(AsRef, Kept(all.recs, first))
LogsLeft(first, all, oldest) ==
  Unexpired(MapSeq(AsLog, Kept(all.recs, first)), oldest)

\* The first error of reading or writing a reference ends the references, and is
\* forgotten: the seek of the logs sets the code's err again.  An error of either
\* seek, or of the logs, is the call's.
RECURSIVE WriteRefs(_, _)
AfterRef(a, put, refs) ==
  IF put.err = "ok"
  THEN WriteRefs([a EXCEPT !.w = put.w, !.refs = Append(@, Head(refs))], Tail(refs))
  ELSE [a EXCEPT !.w = put.w]
WriteRefs(a, refs) ==
  IF refs = <<>> THEN a ELSE AfterRef(a, AddRefTo(a.w, Head(refs)), refs)

RECURSIVE WriteLogs(_, _)
AfterLog(a, put, logs) ==
  IF put.err = "ok"
  THEN WriteLogs([a EXCEPT !.w = put.w, !.logs = Append(@, Head(logs))], Tail(logs))
  ELSE [a EXCEPT !.err = put.err]
WriteLogs(a, logs) ==
  IF logs = <<>> THEN a ELSE AfterLog(a, AddLogTo(a.w, Head(logs)), logs)

CompactLogs(a, first, all, oldest) ==
  IF all.err = 2 THEN [a EXCEPT !.err = "format"]
  ELSE WriteLogs(a, LogsLeft(first, all, oldest))
CompactRefs(a, first, refs) ==
  IF refs.err # 0 THEN [a EXCEPT !.err = "format"]
  ELSE WriteRefs(a, RefsLeft(first, DrainMerged(refs)))
WriteCompact(first, last, ts, oldest) ==
  CompactLogs(CompactRefs([err |-> "ok", refs |-> <<>>, logs |-> <<>>,
                           w |-> NewWriter(unpadded, ts[1].min, ts[Len(ts)].max)],
                          first, RefsOf(ts)),
              first, AllLogs(ts), oldest)

\* stack_compact_range: the merged table takes the place of the range; if
\* nothing was left to write there is none.  A client that still uses an
\* iterator does not compact: its tables are closed under it.
NewTable(t, a) == IF t.empty THEN <<>> ELSE <<t @@ [refs |-> a.refs, logs |-> a.logs]>>
CompactRange(first, last, oldest) ==
  /\ add = NoAdd /\ scan = NoScan
  /\ \E a \in {WriteCompact(first, last, SubSeq(tabs, first, last), oldest)} :
       /\ a.err = "ok"
       /\ tabs' = SubSeq(tabs, 1, first - 1) \o NewTable(CloseWriter(a.w), a)
                  \o SubSeq(tabs, last + 1, Len(tabs))
  /\ live' = {e \in live : e[2] >= oldest}
  /\ UNCHANGED <<unpadded, add, scan, adds>>

\* reftable_stack_auto_compact may pick any range, compact_all takes them all.
Compact == \E first, last \in DOMAIN tabs :
  first < last /\ CompactRange(first, last, 0)
\* reftable_stack_compact_all with an expiry also rewrites a single table.
Expire == \E oldest \in Expiry : tabs # <<>> /\ CompactRange(1, Len(tabs), oldest)

--------------------------------------------------------------------------------
\* A scan of the stack's merged table, which suppresses deletions.
Seek == \E name \in Wanted :
  /\ scan = NoScan
  /\ scan' = [mi |-> SeekMerged(tabs, Ref, name, TRUE), from |-> name,
              out |-> <<>>, db |-> View(tabs)]
  /\ UNCHANGED <<unpadded, tabs, add, adds, live>>

Stepped(n) ==
  IF n.err # 0 THEN NoScan
  ELSE [scan EXCEPT !.mi = n.mi,
          !.out = Append(@, [name |-> n.rec.key, value |-> Value(AsRef(n.rec))])]
Step ==
  /\ scan # NoScan
  /\ scan' = Stepped(MergedNext(scan.mi))
  /\ UNCHANGED <<unpadded, tabs, add, adds, live>>

Next == Begin \/ AddRef \/ AddLog \/ Close \/ Compact \/ Expire \/ Seek \/ Step

Spec == Init /\ [][Next]_vars

--------------------------------------------------------------------------------
Idle == add = NoAdd /\ scan = NoScan

\* Blocks keep within the block size, none lies on another or on the footer,
\* and a jump into a block lands on an entry whose key is written in full.
SoundTable(t) == \A o \in DOMAIN t.file :
  LET b == t.file[o]
  IN  /\ b.sz <= BlockSize /\ o + b.raw <= t.size
      /\ \A p \in DOMAIN t.file : p > o => o + b.raw <= p
      /\ \A r \in Range(b.restarts) : r \in DOMAIN b.ents /\ b.ents[r].prefix = 0

\* The blocks of every table of the stack are laid out so that a reader can
\* find them (block_writer_add's room for the restart table, the padding that
\* writer_flush_nonempty_block announces and padded_write writes later).
Layout == Idle => \A t \in Range(tabs) : SoundTable(t)

\* The records a table was given, as a reader yields them.
GivenRefs(t) == [i \in DOMAIN t.refs |->
  RefRecord(t.refs[i].name, t.refs[i].type, t.refs[i].hashes, t.refs[i].ui)]
GivenLogs(t) == [i \in DOMAIN t.logs |->
  LogRecord(t.logs[i].name, t.logs[i].ui, t.logs[i].type)]
NotBelow(recs, want) == SelectSeq(recs, LAMBDA rec : ~KeyLess(rec.key, want))
AllFrom(t, s) == IF s.err = 0 THEN Drain(t, s.it) ELSE <<>>
Yields(t, typ, want, recs) == AllFrom(t, SeekTable(t, typ, want)) = NotBelow(recs, want)

\* Keys that are in a table, those just behind them, and the least key.
Sought(recs) == {<<>>} \cup UNION {{r.key, Append(r.key, Dot)} : r \in Range(recs)}

\* A seek in a table finds the first record that is not below the key wanted,
\* and stepping on from there yields every later record the writer was given,
\* with its value and its update index, once and in order: through padded and
\* unpadded blocks, restarts, compressed log blocks and index blocks
\* (reftable_reader_seek_ref and _seek_log).
SeekExact == Idle => \A t \in Range(tabs) :
  /\ \A want \in Sought(GivenRefs(t)) : Yields(t, Ref, want, GivenRefs(t))
  /\ \A want \in Sought(GivenLogs(t)) : Yields(t, Log, want, GivenLogs(t))

HashesIn(t) == UNION {Range(HashesOf(r)) : r \in Range(t.refs)}
AllTags(t) == \A r \in Range(t.refs) : r.type = Val2

\* The search for the references that point to an object yields exactly those
\* that do, each once and in order, whether it goes through the object index or
\* through all references (reftable_reader_refs_for).
ObjectsExact == Idle => \A t \in Range(tabs) : (IsPresent(t, Obj) => AllTags(t)) =>
  \A h \in HashesIn(t) :
    MapSeq(LAMBDA rec : rec.key, RefsFor(t, h)) =
      MapSeq(LAMBDA r : r.name,
             SelectSeq(t.refs, LAMBDA r : h \in Range(HashesOf(r))))

--------------------------------------------------------------------------------
\* The indexes of a set, the greatest first.
RECURSIVE Descending(_)
Descending(S) ==
  IF S = {} THEN <<>>
  ELSE LET top == CHOOSE i \in S : \A j \in S : j <= i
       IN  <<top>> \o Descending(S \ {top})

LogOf(n) ==
  SelectSeq(DrainMerged(SeekMerged(tabs, Log, LogKey(n, MaxIndex), TRUE)).recs,
            LAMBDA rec : LogName(rec.key) = n)

\* The reflog of a name, read through the merged table, lists the entries that
\* were written for it and neither deleted nor expired, the newest first,
\* whatever tables they are in and whichever were compacted
\* (reftable_merged_table_seek_log, stack_write_compact).
LogsExact == Idle =>
  \A n \in {e[1] : e \in live} \cup {l.name : l \in UNION {Range(t.logs) : t \in Range(tabs)}} :
    MapSeq(LAMBDA rec : LogIndex(rec.key), LogOf(n))
      = Descending({e[2] : e \in {d \in live : d[1] = n}})

--------------------------------------------------------------------------------
Within(p, q) == HasPrefix(q, Append(p, Slash))
Store == INSTANCE RefStore WITH
  Batch <- {Changes(b.refs) : b \in UNION {Batches[u] : u \in Unpadded}}, NoValue <- <<>>,
  From <- Wanted, NoScan <- NoAdd, Before <- KeyLess, Within <- Within,
  db <- View(tabs),
  scan <- IF scan = NoScan THEN NoAdd
          ELSE [db |-> scan.db, from |-> scan.from, out |-> scan.out]

\* The stack is the abstract store: a table that is put on top is one whole
\* transaction, a compaction changes nothing, no reference is ever a directory
\* of another, and a scan yields the references that were there when it began.
Implements == Store!Spec

Components(name) ==
  LET ends == Dirs(name) \cup {Len(name) + 1}
      start(j) == CHOOSE i \in {0} \cup Dirs(name) :
                    i < j /\ \A k \in Dirs(name) : k < j => k <= i
  IN  [j \in ends |-> SubSeq(name, start(j) + 1, j - 1)]
WellNamed(name) ==
  \A j \in DOMAIN Components(name) :
    /\ Components(name)[j] # <<>>
    /\ j <= Len(name) => Components(name)[j] \notin {<<Dot>>, <<Dot, Dot>>}

Acceptable(given) ==
  /\ given.refs # <<>> \/ given.logs # <<>>
  /\ \A r \in Range(given.refs) : r.type # Deletion => WellNamed(r.name)
  /\ Store!Consistent(Store!After(View(tabs), Changes(given.refs)))

\* A table whose records were all written is put on the stack if and only if
\* it holds something, its names are well formed, and no reference becomes a
\* directory of another once what it deletes is gone (modification_validate):
\* nothing is refused because of a reference that the same table deletes.
ValidationExact ==
  [][(add # NoAdd /\ add' = NoAdd /\ add.refs = <<>> /\ add.logs = <<>>)
       => (tabs' # tabs <=> Acceptable(add.given))]_vars
=============================================================================
