# A TLA+ model of the reftable stacks

The repository holds two implementations of the reftable format: a C library
(`src/c`) and a Go package (`src`). A *reftable* is an immutable sorted file of
references and reflog entries. A database is a *stack* of such files in one
directory, named oldest first by the file `tables.list`; processes change it by
adding tables on top and by replacing runs of tables by their merge, and agree
with each other through lock files and renames only. That protocol is the core
of the system and the part tests reach least: the whole of `c/stack.c`, and the
whole of `stack.go` over `storage.go`, are modelled as processes. What is inside
a table, and what reading through several of them yields, is modelled for one
process: records, blocks, writer, reader, merged table and name checks of the C
library, composed by `TableStack`.

## 1. Inventory

| Component | State | Operations | Hard behaviour | What makes it correct |
|---|---|---|---|---|
| C stack `c/stack.c` | `readers`, `merged` per process; `tables.list`, its lock, table files, table locks on disk | new, reload, add, addition (init, add, commit, close), compact range, auto compact, compact all, clean, destroy | many processes without a server; lock, unlock, lock again in a compaction; reload that races with unlink; crash between any two system calls; failing write and rename | no committed transaction lost, none resurrected; readers see one history; locks exclude; no file or lock is left to nobody; calls return |
| Go stack `stack.go` | the same, with `Merged` rebuilt on each reload | NewStack, Add, NewAddition, Addition.Add, Commit, Close, compactRange, AutoCompact, CompactAll, Clean, Stack.Close | the same, and deferred calls that run in another order than the code reads, panics | the same |
| Go storage `storage.go` | `fileWriter`: open file or nil | LockForWrite, Update, Write, Commit, Close, Remove | Close and Commit called twice or after one another; sync of the directory after the rename | a Close releases the caller's own lock only |
| Compaction policy `c/stack.c:1090-1162`, `stack.go:707-778` | none | log2, sizes to segments, suggested segment | zero sizes, equal logarithms, overflow of the sums | segments tile the stack; no entry is copied for nothing |
| Merged table and queue `c/merged.c`, `c/pq.c`, `merged.go` | a heap of sub-iterators | seek, next | equal keys in several tables, deletions, exhausted sub-iterators | the newest record of each key, in key order, once |
| Reader and writer `c/reader.c`, `c/writer.c`, `c/tree.c`, `reader.go`, `writer.go` | open block, index of the section, object tree | add ref, add log, finish section, seek, next | index levels, a key equal to or past the last index entry, section borders | seek finds the first record not below the key |
| Blocks `c/block.c`, `block.go` | buffer, restarts, last key | add, finish, seek, next | a record that just fits; prefix compression across a restart; log blocks | what was added is read back; a full block is refused before it is damaged |
| Records `c/record.c`, `record.go` | none | key, encode, decode | variable-length integers at their limits, update index reversed in log keys | decode inverts encode; log keys sort newest first |
| Name checks `c/refname.c`, `refname.go` | names added and deleted by a transaction | validate addition, has ref, has prefix | `a` beside `a/b`, one deleted while the other is added | accepted iff the result has no conflicting pair |
| Iterators, block sources, generic tables | small | dispatch, filter | little | - |
| Dump tools, basics, string buffers | none | printing, helpers | little | - |

How they interact. A stack opens a *reader* per name of the list and puts a
*merged table* over them. An addition hands its caller a *writer*, then asks the
*name checks* about the new table, then renames the table and the list. A
compaction iterates over a merged table of the run it replaces and writes it
with a writer. All communication between processes is through files.

Hazards are listed with their lines in `PROJECT.json`. The Go files other than
`stack.go` and `storage.go` implement the algorithms of the C files of the same
names, and are not modelled a second time.

## 2. Modules

```
Tables          records, merging, names, update indexes   (pure)
  RefDB         what a stack promises: one history of states
  Directory     the shared files and what system calls do to them
    CStack      c/stack.c             MCCStack   its instances
    GoStack     stack.go, storage.go  MCGoStack  its instances
  TablesProofs       lemmas and theorems about tables, lists of names, files
    CStackProofs           type correctness of CStack
      CStackOrderProofs    order of update indexes in CStack
      CStackHistoryProofs  durability, refinement of RefDB, files and locks
    GoStackProofs          types, locks and order of update indexes of GoStack
      GoStackHistoryProofs durability, refinement of RefDB, several writers
      GoStackMutatorProofs the same and files and locks, one compacting process
CompactionPolicy     which tables automatic compaction picks
  CompactionPolicyProofs   that its advice is sound, complete and cheap

Records         keys, records, their sizes           record.c, basics.c
  Block         block writer and reader              block.c
    Writer      a table under way                    writer.c, tree.c
      Reader    seek, step, search by object         reader.c, iter.c
        MergedTable  several tables at once          merged.c, pq.c, generic.c
          Refname    name checks                     refname.c
            TableStack  add, validate, compact, scan  stack.c
RefStore        what TableStack promises
MCTableStack    its instances
```

**Tables.** A table is a function from some references to values or to
`Deleted`. Its name has the update indexes it covers and a random suffix.
`Merged` is what the merged iterator yields for each key, `Live` the same with
deletions suppressed, `CompactedRecs` the table that replaces a run: at the
bottom of the stack, and only there, deletions are dropped. Reflog records are
left out; log expiry appears as a compaction that may rewrite a single table.

**Directory.** `list` is the content of `tables.list`, `lockFile` of
`tables.list.lock` or `NoFile`, `dir` the table files, `tlocks` the tables that
have a `.lock`. `fdAt[p]` is where the lock descriptor of `p` points after
other processes unlinked or renamed the file: a write through it reaches the
lock, the list, or an orphan.

**CStack, GoStack.** Each process has a program counter `pc`, its stack `st`
and the local variables of the call it is in. *A step is one system call on a
file other processes can see*, with the computation around it; this is the
grain at which processes can interleave. Loops whose iterations only touch
files nobody else competes for are one step: the unlinks at the end of reload,
of an addition, of a compaction, and of clean. Deferred calls of Go, and the
`goto done` blocks of C, are steps of their own where they touch a lock. The
subroutine reload is shared by its callers; `ret` holds where it returns to.

| `pc` | C | Go |
|---|---|---|
| closed, idle, aborted | no stack; between calls; process gone by its own fault | the same, `aborted` is a panic |
| uptodate, read, open, recheck | `stack_uptodate`, `reload_maybe_reuse`, `reload_once` | `readNames`, `reloadOnce`, second `readNames` |
| locked, adding, rename, adclose, scan | `init_addition`, `addition_add`, `addition_commit`, `addition_close`, `stack_clean` | `NewAddition`, `Addition.Add`, `Commit`, `Close`, `Clean` |
| auto, cpcheck, cpsub, merge, relock, install, cpwrite, cprename, delete, cpdone | `auto_compact`, `stack_compact_range`, with `stack_compact_locked` in merge | `AutoCompact`, `compactRange`, with `cplast` for its first `defer` |
| destroy, close | `stack_destroy` | `Stack.Close` |

Both leave the choice of a segment open: automatic compaction may pick any run
of two or more tables or none, so what holds here holds for every policy.
In CStack `dir` holds the tables, whose names end in `.ref`; `temps[p]` counts
the temporary files of merges (`.temp.XXXXXX`) that `p` has made and that are
still there. `Merge` makes one, or fails and unlinks it; `Install` gives it its
name; every exit in between forgets it, as the code does. The temporary file of
an addition is made and unlinked or renamed within one call of
`reftable_addition_add`, whatever fails, and is part of the step `AddTable`.
`PROJECT.json` maps each definition to the lines it stands for.

The two modules differ where the code does. In C a reload first compares the list, gives
up only after three attempts, compacted tables are unlinked after the reload
whatever came of it, and a refused `init_addition` closes itself. In Go a
transaction's tables each start above the last (`NextIndex`), a lock writer may
be closed twice, and a failed or contended compaction may panic.

**CompactionPolicy.** The three functions that pick a run, as operators on the
sequence of table sizes, and a stack that grows and is compacted as they
advise. The merge may be of any size, or empty: what it leaves out, hidden
records and deletions, the sizes do not tell. For each entry the history
`entries` says how often it was rewritten and how many bytes the stack lost in
these compactions. `Suggested` has at most one run. The loop of `sizes_to_segments` is the
recursive function `StartOf`, the loop that extends the run downwards is
`lowest`. `RunWithinStack` is what CStack and GoStack assume about a run.

**Records, Block, Writer, Reader, MergedTable, Refname.** The structures of the
C library as records and their functions as operators: `AddRefTo(w, ref)` is
what `reftable_writer_add_ref` makes of the writer `w`, with its error. A file
is a function from offsets to finished blocks, a block one from offsets to
entries, and *every size is counted in bytes as the code counts it*, variable
length integers and restart table included, since it is sizes that decide where
a block ends, whether it is padded, and what a reader takes for the next block.
Names are sequences of small numbers; hashes are two digits that take `HashSize`
bytes; a log record's value takes `LogSize` bytes and compression takes a
quarter off. Errors are kept where the code distinguishes them: "no more", an
error of the format, an API error, an entry too big. An error of one table is
that of the merged iterator (`err`), and of the name check or compaction that
uses it; with the passing run's tables there is none. Where the code aborts
because an index record does not fit a fresh block (`writer.c:408-411`)
`PutIndex` has no value, and a run would fail there. A block of logs whose
compressed form is longer than the plain one is left out.

**TableStack.** One process and its stack. A table is written record by record
(`Begin`, `AddRef`, `AddLog`, `Close`), read back and validated as
`stack_check_addition` does, and put on top; any range is compacted (`Compact`)
and the whole is compacted with an expiry (`Expire`), through the merged
iterator and a new writer, errors included; a scan (`Seek`, `Step`) goes on
while tables are added. A client does not compact under its own scan, which the
code does not support. Next to each table the specification keeps the records
its writer was given, and in `live` the reflog entries that were written and
neither deleted nor expired, to compare with what is read. An iterator may hold
whole tables, as in the code, where it keeps its readers.

**RefStore.** The abstract store for one client: a function from names to
values, to which whole transactions are applied if no reference becomes a
directory of another, and scans that yield the references that were there when
they began, in order. `Store == INSTANCE RefStore WITH db <- View(tabs), ...`.

**RefDB.** The abstract specification: a history of database states. A commit
appends a state and is only possible for a process that has seen the newest; a
process reads some state of the history and never moves back. The stacks carry
the history variables `hist` (appended at the rename of the list) and `ver`
(the state current when the list was read) for the mapping
`DB == INSTANCE RefDB WITH seen <- ver, view <- [p \in Proc |-> View(st[p])]`.

## 3. Runs

In the runs of CStack and GoStack `m`, `w` mutate and `r` only opens, reloads
and closes. They have references `a`, `b`, four suffixes (three in `go_faults`)
and one value.

| Run | Instance and bounds | Checks | Result |
|---|---|---|---|
| `c_one_mutator` | m adds, compacts, cleans, destroys, r reloads; 2 commits, one crash, failing writes and renames | `TypeOK`, `Durable`, `ListOrdered`, `NoStrayTables`, `NoLeakedLocks`, `Implements`, `CallsReturn` | hold |
| `c_lock_stolen` | two writers | `MutualExclusion` | violated |
| `c_lost_update` | one compacts while the other commits | `CompactionKeepsOthers` | violated |
| `c_reload_frees` | one compacts while the other reloads | `NeverAborts` | violated |
| `go_writers` | m commits and cleans, w adds, both close; up to 2 tables per transaction, 2 commits, one crash | `ListOrdered`, `MutualExclusion`, `Implements` | hold |
| `go_one_mutator` | m adds, compacts, cleans, closes; r opens and closes; 2 commits, one crash | `Durable`, `NoGarbage`, `NoLeakedLocks`, `Implements`, `CallsReturn` | hold |
| `go_faults` | m compacts and expires, w commits 2 tables and cleans; write, sync, close and rename fail | `TypeOK`, `ListOrdered`, `TableLocksReleased` | hold |
| `compaction_policy` | tables of sizes 1, 2, 3, 5, together up to 9; merges empty or of any size up to 7 | `RunWithinStack`, `RewritesPaid`, `QuietWhenBalanced` | hold |
| `go_lock_removed` | two processes add and compact; 3 commits | `MutualExclusion` | violated |
| `read_path` | 3 tables, padded from 11 contents, five of them never acceptable, or unpadded from 2; compaction of any range, expiry, scans | `Layout`, `SeekExact`, `ObjectsExact`, `LogsExact`, `Implements`, `ValidationExact` | hold |
| `indexed_logs` | one unpadded table, of two tags and a log entry or of one reference | `SeekExact` | violated |
| `compaction_drops` | 2 tables, one with a symbolic reference that just fits | `Implements` | violated |

What the properties say:

- `Durable`: the files the list names exist and merge to the state the last
  commit produced. This is crash safety, and that a deletion does not come back
  after a compaction.
- `Implements`: refinement of `RefDB`, hence snapshot reads and no lost commit;
  in TableStack refinement of `RefStore`, hence that compaction changes nothing,
  no deleted reference comes back, and what is read through the heap, the
  blocks and the indexes of all the tables is what was written.
- `ListOrdered`: update indexes increase along the list and along every stack.
  Reading prefers a record by the position of its table, so this order carries
  the meaning of the database.
- `NoStrayTables` (C), `NoGarbage` (Go), `NoLeakedLocks`: without crashes,
  tables outside the list belong to somebody, and no lock outlives the calls.
  `NoStrayTables` speaks of tables only. The temporary file of a merge may stay
  behind in C when a rename fails, which `c_one_mutator` lets happen:
  `NoTempsLeft` says it does not, and is no property of a run but of a theorem
  that has no faults. `TableLocksReleased`: with faults
  and panics in Go at least the locks of single tables do not.
- `CallsReturn`: each call returns, whatever the others do.
- `RewritesPaid`: an entry is never copied for nothing. It has been rewritten at
  most as often as the logarithm of its table's size says, plus once for each byte
  by which the compactions it went through have made the stack smaller, whatever
  the merges leave out. Where they leave out nothing this is the claim in `stack.go:742-749` and
  the cost the C test of automatic compaction measures. `QuietWhenBalanced`
  says when the advice is to do nothing; it also shows that alternating sizes are
  never compacted.
- `SeekExact`: a seek for a key of a table, for one just behind it, or for the
  least key finds the first record not below it, and all later ones follow.
  `ObjectsExact`: the search by object finds what a look at every reference
  would, with the object index and without. `LogsExact`: the reflog of each
  name, through the merged table, is what is left of its history.
- `ValidationExact`: a table is accepted exactly when the names it leaves are
  well formed and none is a directory of another, whatever it deletes.
- `Layout`: blocks do not overlap, keep to their size, and their restarts are
  entries that can be decoded without the one before.

**Why these bounds.** Two processes are enough for every pairwise interference;
the third would only repeat the role of one of the two, as each interacts with
the files and not with a partner. Two commits give a stack of two
tables, the least that can be compacted. What needs three, a deletion in a table
above or below the compacted run, is covered by `read_path`, which has three
tables, and by the lemmas on merging. With both processes changing the stack the
C code keeps only `ListOrdered`, and for that the theorem covers any number of
mutators, thieves of locks included. Four suffixes are more
than the names in use at once. `MaxTemps = 1`: a process that has left a
temporary file behind does not start another compaction; a second file would
only be more of the same. A write puts down the whole list or fails: that the
code takes a short write for success (`c/stack.c:550`, `1009`) is left out.
Sizes in CompactionPolicy matter by their logarithms and sums only; up to 9
bytes give logarithms from 0 to 3, a merge may be smaller or larger than its
parts (`MaxMerged = 7`), and `FewRewrites` covers every size. `MaxGap = 0` means a callback writes at the
next index; other gaps are covered by the theorems `OrderedLists`. Crashes are bounded by
one: a second crash starts from files the first run of steps can also leave.
`CHECK_DEADLOCK FALSE` because clients may stop calling once the bound on
commits is reached.

In TableStack a block has 56 bytes, a header takes 24, every second key is
written in full, at most 3 times per block: one or two references fill a block,
so that six of them make a table with several blocks, an index of references
and, unpadded, log blocks of more than one restart. `read_path` has tables up to
that size: a padded one has references with an index, and objects and logs
without; an unpadded one holds symbolic references, with an index of these and
of the logs, and no objects. Others meet the defect that `indexed_logs` shows,
where a section after an indexed one gets an index too. The record left over
counts towards the three blocks (one, if unpadded) a section has without an
index, so that in an unpadded table two blocks of references, any objects and
any log suffice; that is the table of `indexed_logs`. In an unpadded table of
links the empty section of objects clears what the first left over. The passing
run keeps below the defect and the other one shows it. For a like reason no index has a second level: the last block of
the level below is then never flushed, and its keys cannot be found. Log records
delete and expire by update index; expiry by time has the same form.

**Fairness.** Weak fairness of `CallStep(p)`: a process in the middle of a call
is scheduled again, nothing in a call waits for another process. Strong
fairness of `GiveUp(p)`: time passes, so that a reload that always finds the
list changed finds its deadline expired too. No fairness for starting a call,
nor for a crash.

### Disagreements the runs show

- `c_lock_stolen`: `init_addition` that finds the lock taken calls
  `reftable_addition_close`, which unlinks it (`c/stack.c:493`, `514-520`): the
  header promises that the database is locked.
- `c_lost_update`: after the merge, `stack_compact_range` locks again but does
  not look at the list again (`969-1015`), so an addition made in between
  disappears from it. `compactRange` in Go has the same steps (`629-661`).
- `c_reload_frees`: `reload_once` frees readers it reused when a later table is
  missing (`281-294`), then the retry touches them.
- `indexed_logs`: `writer_finish_section` clears the index and then flushes the
  last index block, which adds a record to it (`c/writer.c:421-423`); the next
  section's index starts with that record, and seeks below its key end in the
  wrong section. It takes two sections after one another with an index each,
  references and objects, objects and logs, or, with `skip_index_objects`,
  references and logs, and the record left over counts as a block of the later
  one: with `unpadded` any log behind indexed objects is enough. `writer.go:508-509` has the same order.
- `compaction_drops`: `stack_write_compact` leaves its loop when a reference
  cannot be written, and the seek of the logs overwrites the error
  (`c/stack.c:815-823`): what was written so far replaces the merged tables.
  `writeCompact` in Go returns the error.
- `go_lock_removed`: the same reload in Go closes reused readers
  (`stack.go:150-154`), which makes a later merge fail, and the deferred second
  `lock.Close()` (`583-585`, `storage.go:54-61`) removes the path of the lock
  whoever holds it now.

Others, seen while modelling and present in the models:

- C: `stack_clean` goes on without the lock when the stack is stale (`1362`),
  so `Durable` is claimed for one mutator only; the lock of a table is noted
  for removal although another process holds it (`945`); when the deadline
  passes, reload returns 0 with `merged == NULL` (`330`); every table of one
  transaction may use the same index (`673`); random suffixes are drawn without
  a seed (`439`), and log expiry of a single table may reuse its name, after
  which the reload unlinks the new table (`FreshNames = FALSE`); when the list
  cannot be locked again after a merge (`969-977`), or the merged table cannot be
  renamed (`989-992`), it stays behind under its temporary name (`temps`), and
  `clean` removes names that end in `.ref` only (`1295-1299`), while the tests
  expect the list and its tables to be all there is (`c/stack_test.c:860`, `915`).
- C and Go, the policy: the comment in `stack.go:745-748` has each entry go into a
  bigger table at most log2(N) times. A table of references x, b, c that is
  followed by updates of b and c, of the same logarithm, is merged with each of
  them into a table that does not grow, so that x is rewritten with every
  addition. `AutoCompact` has such merges, and `RewritesPaid` counts what they
  drop.
- C, inside a table: a second level of an index misses the last block of the
  first (`writer.c:381-419`); a new block forgets the last key, so that a
  smaller key is accepted behind a full block (`writer.c:112`); the indexed
  iterator compares both hashes of any record as if it were an annotated tag
  (`iter.c:149`), so `ObjectsExact` is claimed for indexed tables of tags; an
  object with too many offsets is written without any (`writer.c:485-492`) and
  then found nowhere; the search of a restart gets a predicate that is true on
  both sides (`block.c:296`), which costs steps but no result, since the search
  then starts at the first entry; `validate_refname` does not look at dots in
  the last component; `stack_check_addition` sees the tables of the stack but
  not those of its own transaction (`stack.c:1231`); the search by object of a
  table without references is an error of the call (`reader.c:696`), here no
  references.
- Go: a rename that fails makes `fileWriter.Commit` forget its file, so the lock
  is never removed (`storage.go:79-83`), and `NoLeakedLocks` is claimed without
  faults; a contended second lock makes `lock` nil and the deferred `Close` panics
  (`583-585`, `629-632`); a failed sync of the directory after the rename makes
  `Commit` remove tables the list names (`stack.go:392-394`, `storage.go:87`),
  so `Durable` is claimed without faults; `os.Remove` takes names relative to
  the working directory (`657`, `663`, `672`), the constant `InDir`; `Clean` and
  `CompactAll` with expiry panic on an empty stack (`820`, `453`); a lock left
  by a crash is never removed; the comment at `187-191` says that the C code
  caches the inode of the list, which it does not here.

## 4. Proofs

All proofs are for any set of processes, any calls and callbacks and any bounds.
The assumptions are those named in the modules: constants have their types,
`NoFile` is not a list and `NoName` not a table name.

**CStack.**

- `TypeCorrect` (CStackProofs): `Spec => []TypeOK`. `TypeOK` alone is not
  inductive: `st[p][job[p].first]` has a type only if the range lies in the
  stack, and a table lookup such as `AfterReload[ret[p]]` only if `ret[p]` is a
  return reload can have. The inductive invariant is `TypeOK /\ ControlOK`:
  `ReturnOK` says which return address goes with which `pc`, `RangeOK` that a
  compaction's range and progress lie within the stack.
- `OrderedLists` (CStackOrderProofs): `Spec => []ListOrdered`, assuming
  `MaxTables = 1`, since with more tables in one transaction the C code does
  not ensure it. The inductive invariant `OrderInv` follows a list around: lock
  file, list, the names read, the readers opened, the stack; a new table starts
  above the stack it is put on, a merged one covers exactly its range. It
  needs neither mutual exclusion nor an up-to-date stack, which is why it
  survives stolen locks.
- `MutatorDurable` and `MutatorImplements` (CStackHistoryProofs), under `OnlyMutator(u)`: one process `u` writes, compacts, expires and cleans, the
  others, any number, open, reload and destroy their stacks; anybody may crash and
  any call fail. Names are fresh (`FreshNames`) and a reload makes one attempt
  before it looks at its deadline (`FreeTries # 0`, three in the code). The list
  is then intact and shows the last commit, and the stack implements `RefDB`.
  The inductive invariant `HistoryInv` has four parts. `FilesGood`: the list
  shows the last state and shares no name with what `u` is about to put there.
  `MutatorOK`: where `u` has checked its stack it is still the list, its range
  and its merged table fit, and what it will unlink is not listed. `LoadOK`:
  *whatever* a reload may still read, reused readers and files that are there
  by then, merges to the state of its list; it need not be what the files held
  when the list was read, since a file that is gone makes it start again.
  `NotBack`: what a process no longer finds in the list, and is going to unlink,
  never comes back to it. All four depend on other processes only through `Kept`:
  a step brings back no name in use, writes no file twice and leaves the past.
  `CompactionShows` and `CommitShows` give the state after the two renames.
- `MutatorLeavesNoTables` and `MutatorLeavesNoLocks` (CStackHistoryProofs), under
  `OnlyMutator(u)`: `NoStrayTables` and `NoLeakedLocks`, which like the properties
  speak of runs without a crash. `TidyInv` says at which steps the descriptor of
  the lock is open (`HandleOK`), so that every error path that closes it unlinks
  the lock too; when the job of a compaction is over (`JobOK`); whose the locks
  are (`LocksTidy`); and that a file outside the list is one of `u`'s stack, of
  its addition or the merged table it has not listed, of which a compaction that
  is done knows nothing more (`FilesTidy`). Readers only ever unlink.
- `MutatorLeavesNoTemps` (CStackHistoryProofs), under `OnlyMutator(u)` and
  without faults: `NoTempsLeft`. Of a merge's temporary file there is one exactly
  between `Merge` and `Install`, if the merge has records (`TempsTidy`); what a
  merge has does not change in between, since the stack does not (`TempsKept`),
  and the list is free when it is locked again, by `LocksTidy`. Without either
  hypothesis the file may stay (section 3).

**GoStack.**

- `TypeCorrect` (GoStackProofs): as for C, with the return addresses of the
  deferred calls.
- `OrderedLists` (GoStackProofs): `Spec => []ListOrdered` without any
  hypothesis. `NextIndex` moves past every table of the transaction, which the C
  code does not do; the invariant says so of the tables written so far
  (`AddsOnTop`), and with that holds for transactions of any length, through
  compactions, failures and panics.
- `TableLocksFreed` (GoStackProofs): while nobody has crashed each lock of a
  table belongs to a process that is in its compaction, whatever fails there.
  The invariant says which part of the range a process holds at each `pc`.
- `WritersExclude` (GoStackProofs), under `WritersOnly` (no faults, no
  compaction): who thinks it has the lock owns the file, `LockInv`.
- `WritersDurable` and `WritersImplement` (GoStackHistoryProofs), under
  `WritersOnly`: what the last commit left is what the list shows, and the stack
  implements `RefDB` under `seen <- ver, view <- View(st)`. The inductive
  invariant `HistoryInv` rests on the list only growing: every stack, and every
  list a reload has read, is a prefix of the list, the view of the prefix of a
  version is the state `hist` has for it, and an addition that passed
  `UpToDate` under the lock is on top of the whole list. `CommitShows` gives the
  state after a commit.

`WritersOnly` is not a convenience: with faults or compaction `MutualExclusion`
fails in the code, because a `fileWriter` that failed or was closed before is
closed again and removes a lock that is another's by then (`go_lock_removed`),
and without exclusion the rest fails too.

- `MutatorDurable` and `MutatorImplements` (GoStackMutatorProofs), under
  `OnlyMutator(u)`: one process `u` adds, compacts any range, expires, cleans and
  closes, the others, any number, open and close; no system call fails; anybody
  may crash and start again, and a removal may miss its directory (any `InDir`).
  The list shows the last commit, and the stack implements `RefDB`. `MutatorInv` has the parts of the C invariant, and differs
  where the code does. `UpToDateOK`: the stack of `u` is the list from its
  reload to its next rename, and the reload that follows the rename finds every
  table at once, since nobody removes a table that the list names.
  `AdditionOK`: the tables of a transaction, several in Go, are on disk under
  fresh names, and the lock file lists them on top of the stack. `CompactionOK`:
  the table that `u` wrote while the list was unlocked is the merge of its range.
  `LoadOK` and `NotBack` are those of C; in Go also `Close` removes files the
  list no longer names, read before others went on. `ExpiryOK`: the reload
  after an expiry reuses no reader and removes every file of the old stack,
  listed or not; that is safe only because an expiry replaces the whole list.
- `MutatorLeavesNoFiles` and `MutatorLeavesNoLocks` (GoStackMutatorProofs), under
  the same hypothesis: `NoGarbage` and `NoLeakedLocks`. A compaction takes
  `tables.list.lock` twice and closes it three times, in deferred calls;
  `LockTidy` says that without a crash the file is there only while `u` has it
  open, and that it is closed when `u` locks again, so that the second lock is
  never contended and the deferred `Close` has a lock to close. `FilesTidy`: a
  file outside the list is one of `u`'s stack, which the next reload or `Close`
  removes also where `os.Remove` looked in the wrong directory, or one `u` is
  about to list. Locks of tables are `TableLocksFreed`.

Both hypotheses of `OnlyMutator(u)` are needed. With faults a `Commit` whose last
sync fails removes tables the list names, and a lock whose rename failed is never
removed; with a second process that changes the stack a compaction overwrites
its commit. The theorems include compaction with expiry, which the run
`go_one_mutator` leaves out for its size: each expiry takes a new name.

**Tables** (TablesProofs). `CommitShows`: a table put on top of a stack of any
length shows what the transaction makes of the view. `CompactionShows`:
replacing any run of a stack by its merge leaves the view as it was, tombstones
being dropped at the bottom only. They need no induction: merging is defined by
the newest table with a record, and `LastPosition` says there is one. Further
`MergedType`, `OrderedOnTop` and `OrderedSpliced`: what naming and splicing
preserve.

**CompactionPolicy** (CompactionPolicyProofs). `AdviceWithinStack`,
`AdviceComplete` and `FewRewrites` prove the three invariants of the passing run
for any sizes of tables and of merges. The functions of the module are recursive; in place of an induction the
lemmas take the least number at which a claim fails and show that it fails
earlier, which is also how `fastlog2` is shown to be defined everywhere
(`LogIs`). The scans of `sizes_to_segments` and of the extension downwards are
both instances of `Scan`. The inductive invariant `PolicyInv` is
`RewritesPaid` with the types. The heart of `FewRewrites` is `RunGrows`: every
table of the suggested run is at least one logarithm below the sum of the run,
since the segment has two tables of the same logarithm (`LogOfSum`), and each
table it absorbs is no larger than what is above it. A merge that stays below the
sum loses no more logarithms than bytes (`LogShrinks`), and those bytes count as
gone (`MergePaid`).

`OnlyMutator` is not a convenience either: with a second process that compacts
a commit is lost (`c_lost_update`), and with a second writer the lock is stolen
(`c_lock_stolen`).

Model-checked only: liveness; the refinement of `RefStore`, and the modules from
Records to TableStack, whose operators are recursive: what they compute for
every input is beyond the provers used here.

## 5. Not modelled, and the plan

Done: the protocol (Tables, Directory, RefDB, CStack, GoStack,
CompactionPolicy), the tables (Records to TableStack, RefStore), and the
theorems of section 4. Next, in this order:

1. RefStore: `Consistent(db)` is kept, and a scan yields names in order.
2. Runs for the failures of section 3 that no run shows.

Not modelled, and why: the Go reader, writer, blocks, records, merged table and
name checks, which repeat the algorithms of the C files; dump tools, memory and
string helpers and printing, which keep no state; the bytes of headers and
footers, checksums and damaged files, since the properties are about files the
library wrote; block sources and dispatch tables, which hand calls on; failing
writes of single blocks, which end a table like any other error.
