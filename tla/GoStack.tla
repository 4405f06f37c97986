------------------------------- MODULE GoStack -------------------------------
(***************************************************************************)
(* The stack of stack.go over the local storage of storage.go: processes   *)
(* that share one directory, each with a Stack of its own.  As in CStack a *)
(* step is one system call on a file other processes see, and where a      *)
(* function returns early its deferred calls are steps too.                *)
(*                                                                         *)
(* The lock on the list is a fileWriter: lock says whether its File is nil *)
(* or there is none ("none"), open ("open"), or closed but not nil         *)
(* ("closed"), in which case Close removes the path once more.             *)
(***************************************************************************)
EXTENDS Directory

CONSTANTS Calls,       \* Calls[p]: the calls of the API process p makes
          Batches,     \* what a callback may write into one table
          MaxTables,   \* bound: tables in one transaction
          MaxGap,      \* bound: update indexes a callback skips or spans
          MaxCommits,  \* bound: transactions committed
          MaxCrashes,  \* bound: processes that die in the middle of a call
          Faults,      \* whether Write, Sync, Close and Rename may fail
          Slow,        \* whether a reload may outlast its deadline
          InDir,       \* whether the working directory is the stack's
          NoName       \* no compacted table: the merge left no record

CallNames == {"close", "add", "txn", "compact", "expire", "clean"}

ASSUME CallsAssumption  == Calls \in [Proc -> SUBSET CallNames]
ASSUME BatchAssumption  == Batches \subseteq Contents
ASSUME BoundsAssumption == /\ MaxTables \in Nat \ {0}
                           /\ MaxGap \in Nat
                           /\ MaxCommits \in Nat
                           /\ MaxCrashes \in Nat
ASSUME ModeAssumption   == {Faults, Slow, InDir} \subseteq BOOLEAN
ASSUME NoneAssumption   == NoName \notin TableName

VARIABLES
  pc,       \* what each process does next
  st,       \* its stack: the readers, oldest first
  closed,   \* names of readers of st whose file was closed
  load,     \* reload: names read, newTables, attempts
  ret,      \* where control goes when reload, or the close, is done
  lock,     \* the fileWriter of the list
  newt,     \* addition: the tables written, with their contents
  call,     \* addition: the call it is part of
  job,      \* compaction: range, sub-table locks, new table
  crashes,  \* processes that died so far
  hist,     \* history: the states of the database, one per commit
  ver       \* history: the version st shows

history == <<hist, ver>>
vars == <<shared, fdAt, pc, st, closed, load, ret, lock, newt, call, job,
          crashes, history>>

\* at is history: the version that was current when names was read.
NoLoad == [names |-> <<>>, opened |-> <<>>, tries |-> 0, at |-> 0]
NoJob  == [first |-> 0, last |-> 0, next |-> 0, old |-> {}, new |-> NoName,
           expire |-> FALSE, relocked |-> FALSE]

Init ==
  /\ EmptyDirectory
  /\ pc = [p \in Proc |-> "closed"]
  /\ st = [p \in Proc |-> <<>>]
  /\ closed = [p \in Proc |-> {}]
  /\ load = [p \in Proc |-> NoLoad]
  /\ ret = [p \in Proc |-> "none"]
  /\ lock = [p \in Proc |-> "none"]
  /\ newt = [p \in Proc |-> <<>>]
  /\ call = [p \in Proc |-> "none"]
  /\ job = [p \in Proc |-> NoJob]
  /\ crashes = 0
  /\ hist = <<NoRecs>>
  /\ ver = [p \in Proc |-> 0]

\* Names that a file, a list, a stack or a running call still refers to.
HeldNames ==
  DOMAIN dir \cup NameSet(list) \cup tlocks
    \cup (IF lockFile = NoFile THEN {} ELSE NameSet(lockFile))
    \cup UNION { ReaderNames(st[p]) \cup ReaderNames(load[p].opened)
                 \cup ReaderNames(newt[p]) \cup NameSet(load[p].names)
                 \cup job[p].old \cup {job[p].new} : p \in Proc }

\* formatName, with a generator seeded by the clock: the suffix is a fresh one.
\* The indexes are those of the table, which the name of an addition repeats
\* only for a callback that writes one index.
NewNames(lo, hi) ==
  LET fresh == {[min |-> lo, max |-> hi, sfx |-> x] : x \in Suffixes}
               \ HeldNames
  IN  IF fresh = {} THEN {} ELSE {CHOOSE x \in fresh : TRUE}

Goto(p, label) == pc' = [pc EXCEPT ![p] = label]
Return(p, to)  == ret' = [ret EXCEPT ![p] = to]

\* UpToDate.
UpToDate(p) == list = NamesOf(st[p])

\* The memory of a process is gone.
Forget(p, label) ==
  /\ Goto(p, label)
  /\ st' = [st EXCEPT ![p] = <<>>]
  /\ closed' = [closed EXCEPT ![p] = {}]
  /\ load' = [load EXCEPT ![p] = NoLoad]
  /\ Return(p, "none")
  /\ lock' = [lock EXCEPT ![p] = "none"]
  /\ newt' = [newt EXCEPT ![p] = <<>>]
  /\ call' = [call EXCEPT ![p] = "none"]
  /\ job' = [job EXCEPT ![p] = NoJob]
  /\ ver' = [ver EXCEPT ![p] = 0]
  /\ UNCHANGED hist

\* fileWriter.Close: the path is removed, also the second time.  again says
\* whether the same writer is going to be closed once more.
CloseLock(p, again) ==
  /\ IF lock[p] = "none" THEN UNCHANGED <<lockFile, fdAt>> ELSE UnlinkLock(p)
  /\ lock' = [lock EXCEPT ![p] = IF again /\ @ # "none" THEN "closed"
                                 ELSE "none"]

\* LockForWrite(tables.list).
TakeLock(p) == /\ CreateLock
               /\ fdAt' = [fdAt EXCEPT ![p] = "lock"]
               /\ lock' = [lock EXCEPT ![p] = "open"]

-----------------------------------------------------------------------------
(* Reload.  ret tells who called: "open" NewStack, "plain" a reload whose  *)
(* caller then returns, "auto" Add, which compacts afterwards, "scan"      *)
(* Clean, "compact" compactRange.                                          *)

AfterReload  == [open |-> "idle", plain |-> "idle", auto |-> "auto",
                 scan |-> "scan", compact |-> "cpdone"]
AfterFailure == [open |-> "closed", plain |-> "idle", auto |-> "idle",
                 scan |-> "adclose", compact |-> "cpdone"]

StartReload(p, from) == Goto(p, "read") /\ Return(p, from)

EndReload(p, next) ==
  /\ Goto(p, next)
  /\ Return(p, "none")
  /\ load' = [load EXCEPT ![p] = NoLoad]

\* reload(reuseOpen): only a compaction with expiry does not reuse readers.
Reuse(p) == ~job[p].expire

Open(p) ==
  /\ pc[p] \in {"closed", "aborted"}
  /\ StartReload(p, "open")
  /\ UNCHANGED <<shared, fdAt, st, closed, load, lock, newt, call, job, crashes,
                 history>>

\* The loop of reload: readNames ...
ReadList(p) ==
  /\ pc[p] = "read"
  /\ load' = [load EXCEPT ![p] = [names |-> list, opened |-> <<>>, tries |-> 1,
                                  at |-> Len(hist)]]
  /\ Goto(p, "open")
  /\ UNCHANGED <<shared, fdAt, st, closed, ret, lock, newt, call, job, crashes,
                 history>>

\* ... unless the deadline has passed, which is not an error: st.stack stays.
GiveUp(p) ==
  /\ pc[p] = "read" /\ Slow /\ load[p].tries > 0
  /\ EndReload(p, AfterReload[ret[p]])
  /\ UNCHANGED <<shared, fdAt, st, closed, lock, newt, call, job, crashes,
                 history>>

Loading(p) == pc[p] = "open" /\ Len(load[p].opened) < Len(load[p].names)
NextToOpen(p) == load[p].names[Len(load[p].opened) + 1]

\* reloadOnce finds the table among the readers of the stack ...
ReuseReader(p) ==
  /\ Loading(p) /\ Reuse(p)
  /\ \E i \in 1..Len(st[p]) :
       /\ st[p][i].name = NextToOpen(p)
       /\ load' = [load EXCEPT ![p].opened = Append(@, st[p][i])]
  /\ UNCHANGED <<shared, fdAt, pc, st, closed, ret, lock, newt, call, job,
                 crashes, history>>

\* Mutated: a table that is gone is waited for.
MustOpenOrWait(p) == /\ Loading(p) /\ NextToOpen(p) \in DOMAIN dir
                     /\ Reuse(p) => NextToOpen(p) \notin ReaderNames(st[p])
MustOpen(p) == /\ Loading(p)
               /\ Reuse(p) => NextToOpen(p) \notin ReaderNames(st[p])

\* ... or opens it ...
OpenTable(p) ==
  /\ MustOpen(p) /\ NextToOpen(p) \in DOMAIN dir
  /\ load' = [load EXCEPT ![p].opened = Append(@,
       [name |-> NextToOpen(p), recs |-> dir[NextToOpen(p)]])]
  /\ UNCHANGED <<shared, fdAt, pc, st, closed, ret, lock, newt, call, job,
                 crashes, history>>

\* ... or finds it gone.  The deferred function closes all of newTables, those
\* that still belong to st.stack among them.
TableMissing(p) ==
  /\ MustOpen(p) /\ NextToOpen(p) \notin DOMAIN dir
  /\ Goto(p, "recheck")
  /\ load' = [load EXCEPT ![p].opened = <<>>]
  /\ closed' = [closed EXCEPT ![p] = IF Reuse(p)
       THEN @ \cup (ReaderNames(load[p].opened) \cap ReaderNames(st[p]))
       ELSE @]
  /\ UNCHANGED <<shared, fdAt, st, ret, lock, newt, call, job, crashes, history>>

\* A missing table is an error unless the list has changed meanwhile.
Recheck(p) ==
  /\ pc[p] = "recheck"
  /\ \/ /\ list = load[p].names
        /\ EndReload(p, AfterFailure[ret[p]])
     \/ /\ list # load[p].names
        /\ Goto(p, "read")
        /\ UNCHANGED <<load, ret>>
  /\ UNCHANGED <<shared, fdAt, st, closed, lock, newt, call, job, crashes,
                 history>>

\* The readers that reloadOnce has not moved to the new stack.  Mutated: a full
\* reload drops its readers, one that reuses them keeps their files.
DroppedIfExpired(p) == IF Reuse(p) THEN {} ELSE ReaderNames(st[p])
Dropped(p) == ReaderNames(st[p])
              \ (IF Reuse(p) THEN NameSet(load[p].names) ELSE {})

\* "success. Swap."  The files of dropped readers are removed.  A reader that
\* was reused stays closed if it was.
Swap(p) ==
  /\ pc[p] = "open" /\ Len(load[p].opened) = Len(load[p].names)
  /\ st' = [st EXCEPT ![p] = load[p].opened]
  /\ closed' = [closed EXCEPT ![p] = @ \ Dropped(p)]
  /\ dir' = Without(Dropped(p))
  /\ ver' = [ver EXCEPT ![p] = load[p].at]
  /\ EndReload(p, AfterReload[ret[p]])
  /\ UNCHANGED <<list, lockFile, tlocks, fdAt, lock, newt, call, job, crashes,
                 hist>>

-----------------------------------------------------------------------------
(* Additions: Add ("add", one table, then AutoCompact), a transaction      *)
(* through NewAddition ("txn"), and the one Clean makes for its lock.      *)

\* NewAddition takes the lock ...
LockList(p, c) ==
  /\ pc[p] = "idle" /\ c \in Calls[p] \cap {"add", "txn", "clean"}
  /\ c # "clean" => Len(hist) <= MaxCommits
  /\ TakeLock(p)
  /\ call' = [call EXCEPT ![p] = c]
  /\ Goto(p, "locked")
  /\ UNCHANGED <<dir, list, tlocks, st, closed, load, ret, newt, job, crashes,
                 history>>

\* ... or fails with ErrLockFailure, after which Add reloads.
LockTaken(p) ==
  /\ pc[p] = "idle" /\ "add" \in Calls[p] /\ Len(hist) <= MaxCommits
  /\ lockFile # NoFile
  /\ StartReload(p, "plain")
  /\ UNCHANGED <<shared, fdAt, st, closed, load, lock, newt, call, job, crashes,
                 history>>

\* A stack that is not up to date is ErrLockFailure too.  Mutated: the lock is
\* thought to be enough.
NoCheck(p) == TRUE
MayAdd(p) == UpToDate(p)

CheckLocked(p) ==
  /\ pc[p] = "locked"
  /\ \/ /\ MayAdd(p)
        /\ IF call[p] = "clean" THEN StartReload(p, "scan")
           ELSE Goto(p, "adding") /\ UNCHANGED ret
        /\ ver' = [ver EXCEPT ![p] = Len(hist)]
     \/ /\ ~MayAdd(p)
        /\ Goto(p, "adclose")
        /\ Return(p, IF call[p] = "add" THEN "plain" ELSE "none")
        /\ UNCHANGED ver
  /\ UNCHANGED <<shared, fdAt, st, closed, load, lock, newt, call, job, crashes,
                 hist>>

\* nextUpdateIndex: it moves past every table the transaction has.  Mutated:
\* it stays, as in the C code.
NextIndexOfStack(p) == NextUpdateIndex(st[p])
NextIndex(p) == NextUpdateIndex(st[p] \o newt[p])

\* Addition.Add: the callback's table starts at nextUpdateIndex or above, and
\* is renamed into place.  The rename may succeed although Commit fails.
AddTable(p) ==
  /\ pc[p] = "adding"
  /\ Len(newt[p]) < (IF call[p] = "add" THEN 1 ELSE MaxTables)
  /\ \E lo \in NextIndex(p)..(NextIndex(p) + MaxGap) :
     \E hi \in lo..(lo + MaxGap) :
     \E n \in NewNames(lo, hi), b \in Batches :
       /\ dir' = With(n, b)
       /\ \/ /\ newt' = [newt EXCEPT ![p] = Append(@, [name |-> n, recs |-> b])]
             /\ UNCHANGED <<pc, ret>>
          \/ /\ Faults
             /\ Goto(p, "adclose") /\ Return(p, "none")
             /\ UNCHANGED newt
  /\ UNCHANGED <<list, lockFile, tlocks, fdAt, st, closed, load, lock, call, job,
                 crashes, history>>

\* The callback fails, or its table starts too low or is not valid, or the
\* client closes the transaction.  Too low an index is ErrLockFailure.
Abandon(p) ==
  /\ pc[p] = "adding"
  /\ call[p] = "add" => newt[p] = <<>>
  /\ Goto(p, "adclose")
  /\ \E to \in {"none"} \cup (IF call[p] = "add" THEN {"plain"} ELSE {}) :
       Return(p, to)
  /\ UNCHANGED <<shared, fdAt, st, closed, load, lock, newt, call, job, crashes,
                 history>>

\* Commit of a transaction without tables; it is closed afterwards.
CommitNothing(p) ==
  /\ pc[p] = "adding" /\ newt[p] = <<>>
  /\ Goto(p, "adclose")
  /\ Return(p, IF call[p] = "add" THEN "auto" ELSE "none")
  /\ UNCHANGED <<shared, fdAt, st, closed, load, lock, newt, call, job, crashes,
                 history>>

\* Commit writes the new list.  If that fails, it closes the transaction, and
\* its caller does so again.
CommitWrite(p) ==
  /\ pc[p] = "adding" /\ newt[p] # <<>>
  /\ \/ /\ WriteLock(p, NamesOf(st[p]) \o NamesOf(newt[p]))
        /\ Goto(p, "rename")
        /\ UNCHANGED ret
     \/ /\ Faults
        /\ Goto(p, "adclose") /\ Return(p, "again")
        /\ UNCHANGED <<lockFile, list, fdAt>>
  /\ UNCHANGED <<dir, tlocks, st, closed, load, lock, newt, call, job, crashes,
                 history>>

\* fileWriter.Commit renames the lock file into place; File is nil afterwards,
\* whether or not the rename worked.
Rename(p) == RenameLock(p) /\ lock' = [lock EXCEPT ![p] = "none"]
RenameFails(p) ==
  \/ (lockFile = NoFile \/ Faults) /\ lock' = [lock EXCEPT ![p] = "none"]
  \/ Faults /\ UNCHANGED lock

Committed(p) == hist' = Append(hist, Overlay(hist[Len(hist)], RecsOf(newt[p])))

CommitRename(p) ==
  /\ pc[p] = "rename"
  /\ Rename(p) /\ Committed(p)
  /\ newt' = [newt EXCEPT ![p] = <<>>]
  /\ call' = [call EXCEPT ![p] = "none"]
  /\ StartReload(p, IF call[p] = "add" THEN "auto" ELSE "plain")
  /\ UNCHANGED <<dir, tlocks, st, closed, load, job, crashes, ver>>

\* The list was renamed but the directory could not be synced: this counts as
\* a failure, and the transaction is closed twice.
CommitSyncFails(p) ==
  /\ pc[p] = "rename" /\ Faults
  /\ Rename(p) /\ Committed(p)
  /\ Goto(p, "adclose") /\ Return(p, "again")
  /\ UNCHANGED <<dir, tlocks, st, closed, load, newt, call, job, crashes, ver>>

CommitRenameFails(p) ==
  /\ pc[p] = "rename"
  /\ RenameFails(p)
  /\ Goto(p, "adclose") /\ Return(p, "again")
  /\ UNCHANGED <<shared, fdAt, st, closed, load, newt, call, job, crashes,
                 history>>

\* The tables Addition.Close removes.
Discarded(p) == ReaderNames(newt[p])

AfterClose == [none |-> "idle", again |-> "adclose", plain |-> "read",
               auto |-> "auto"]

\* Addition.Close.
AdditionClose(p) ==
  /\ pc[p] = "adclose"
  /\ dir' = Without(Discarded(p))
  /\ newt' = [newt EXCEPT ![p] = <<>>]
  /\ CloseLock(p, ret[p] = "again")
  /\ Goto(p, AfterClose[ret[p]])
  /\ Return(p, IF ret[p] = "plain" THEN "plain" ELSE "none")
  /\ call' = [call EXCEPT ![p] = "none"]
  /\ UNCHANGED <<list, tlocks, st, closed, load, job, crashes, history>>

\* Clean removes the tables that are not in the stack and not newer than it.
Scan(p) ==
  /\ pc[p] = "scan" /\ st[p] # <<>>
  /\ dir' = Without({n \in DOMAIN dir : /\ n \notin ReaderNames(st[p])
                                        /\ n.max <= MaxUpdateIndex(st[p])})
  /\ Goto(p, "adclose")
  /\ UNCHANGED <<list, lockFile, tlocks, fdAt, st, closed, load, ret, lock, newt,
                 call, job, crashes, history>>

\* An empty stack has no MaxUpdateIndex: Clean panics, its deferred Close runs.
ScanPanics(p) ==
  /\ pc[p] = "scan" /\ st[p] = <<>>
  /\ UnlinkLock(p)
  /\ Forget(p, "aborted")
  /\ UNCHANGED <<dir, list, tlocks, crashes>>

-----------------------------------------------------------------------------
(* Compaction: compactRange.  AutoCompact may find any range here.         *)

LockForCompaction(p, first, last, expire) ==
  \/ /\ TakeLock(p)
     /\ job' = [job EXCEPT ![p] = [first |-> first, last |-> last,
                                   next |-> first, old |-> {}, new |-> NoName,
                                   expire |-> expire, relocked |-> FALSE]]
     /\ Goto(p, "cpcheck")
  \/ /\ lockFile # NoFile
     /\ Goto(p, "idle")
     /\ UNCHANGED <<lockFile, fdAt, lock, job>>

AutoCompact(p) ==
  /\ pc[p] = "auto"
  /\ \/ /\ "compact" \in Calls[p]
        /\ \E first, last \in 1..Len(st[p]) :
             first < last /\ LockForCompaction(p, first, last, FALSE)
     \/ Goto(p, "idle") /\ UNCHANGED <<lockFile, fdAt, lock, job>>
  /\ UNCHANGED <<dir, list, tlocks, st, closed, load, ret, newt, call, crashes,
                 history>>

\* CompactAll, without and with expiry of the reflog.
CompactAll(p) ==
  /\ pc[p] = "idle"
  /\ \/ /\ "compact" \in Calls[p] /\ Len(st[p]) > 1
        /\ LockForCompaction(p, 1, Len(st[p]), FALSE)
     \/ /\ "expire" \in Calls[p]
        /\ LockForCompaction(p, 1, Len(st[p]), TRUE)
  /\ UNCHANGED <<dir, list, tlocks, st, closed, load, ret, newt, call, crashes,
                 history>>

CompactionCheck(p) ==
  /\ pc[p] = "cpcheck"
  /\ Goto(p, IF UpToDate(p) THEN "cpsub" ELSE "cpdone")
  /\ UNCHANGED <<shared, fdAt, st, closed, load, ret, lock, newt, call, job,
                 crashes, history>>

\* The lock of one table of the range; a lock that is taken ends the attempt.
LockTable(p) ==
  LET n == st[p][job[p].next].name IN
  /\ pc[p] = "cpsub" /\ job[p].next <= job[p].last
  /\ \/ /\ n \notin tlocks
        /\ tlocks' = tlocks \cup {n}
        /\ job' = [job EXCEPT ![p].old = @ \cup {n}, ![p].next = @ + 1]
        /\ UNCHANGED pc
     \/ /\ n \in tlocks
        /\ Goto(p, "cpdone")
        /\ UNCHANGED <<tlocks, job>>
  /\ UNCHANGED <<dir, list, lockFile, fdAt, st, closed, load, ret, lock, newt,
                 call, crashes, history>>

\* The list is unlocked for the time of the merge.
UnlockForMerge(p) ==
  /\ pc[p] = "cpsub" /\ job[p].next > job[p].last
  /\ CloseLock(p, TRUE)
  /\ Goto(p, "relock")
  /\ UNCHANGED <<dir, list, tlocks, st, closed, load, ret, newt, call, job,
                 crashes, history>>

\* compactLocked fails when it cannot read a table, and panics when there is
\* none.  The lock is then closed a second time.
Unreadable(p) == \E i \in job[p].first..job[p].last : st[p][i].name \in closed[p]

MergeFails(p) ==
  /\ pc[p] = "relock"
  /\ Unreadable(p) \/ Faults \/ job[p].last = 0
  /\ Goto(p, "cpdone")
  /\ Return(p, IF job[p].last = 0 THEN "panic" ELSE "none")
  /\ UNCHANGED <<shared, fdAt, st, closed, load, lock, newt, call, job, crashes,
                 history>>

\* The merged table is in a temporary file; the list is locked again.  If that
\* fails, lock is nil when the deferred Close is called on it.
Relock(p) ==
  /\ pc[p] = "relock" /\ ~Unreadable(p) /\ job[p].last > 0
  /\ \/ /\ TakeLock(p)
        /\ job' = [job EXCEPT ![p].relocked = TRUE]
        /\ Goto(p, "install")
        /\ UNCHANGED ret
     \/ /\ lockFile # NoFile
        /\ lock' = [lock EXCEPT ![p] = "none"]
        /\ Goto(p, "cpdone") /\ Return(p, "panic")
        /\ UNCHANGED <<lockFile, fdAt, job>>
  /\ UNCHANGED <<dir, list, tlocks, st, closed, load, newt, call, crashes,
                 history>>

\* The temporary file gets its name, unless the merge left no record.
Install(p) ==
  LET first == job[p].first
      last == job[p].last
      recs == CompactedRecs(st[p], first, last) IN
  /\ pc[p] = "install"
  /\ \/ /\ recs = NoRecs
        /\ Goto(p, "cpwrite")
        /\ UNCHANGED <<dir, job>>
     \/ /\ recs # NoRecs
        /\ \E n \in NewNames(st[p][first].name.min, st[p][last].name.max) :
             /\ dir' = With(n, recs)
             /\ \/ /\ job' = [job EXCEPT ![p].new = n]
                   /\ Goto(p, "cpwrite")
                \/ /\ Faults
                   /\ Goto(p, "cpdone")
                   /\ UNCHANGED job
     \/ /\ Faults
        /\ Goto(p, "cpdone")
        /\ UNCHANGED <<dir, job>>
  /\ UNCHANGED <<list, lockFile, tlocks, fdAt, st, closed, load, ret, lock, newt,
                 call, crashes, history>>

\* os.Remove with a bare name, relative to the working directory.
RemoveHere(files) == IF InDir THEN Without(files) ELSE dir

\* What takes the place of the range in the list.  Mutated: the empty table is
\* forgotten.
AlwaysReplacement(p) == <<job[p].new>>
Replacement(p) == IF job[p].new = NoName THEN <<>> ELSE <<job[p].new>>

\* The new list is made from the stack as it was before the merge.
CompactionWrite(p) ==
  /\ pc[p] = "cpwrite"
  /\ \/ /\ WriteLock(p, Spliced(NamesOf(st[p]), job[p].first, job[p].last,
                                Replacement(p)))
        /\ Goto(p, "cprename")
        /\ UNCHANGED dir
     \/ /\ Faults
        /\ dir' = RemoveHere({job[p].new})
        /\ Goto(p, "cpdone")
        /\ UNCHANGED <<lockFile, list, fdAt>>
  /\ UNCHANGED <<tlocks, st, closed, load, ret, lock, newt, call, job, crashes,
                 history>>

CompactionRename(p) ==
  /\ pc[p] = "cprename"
  /\ Rename(p)
  /\ \/ Goto(p, "delete") /\ UNCHANGED dir
     \/ /\ Faults
        /\ dir' = RemoveHere({job[p].new})
        /\ Goto(p, "cpdone")
  /\ UNCHANGED <<tlocks, st, closed, load, ret, newt, call, job, crashes, history>>

CompactionRenameFails(p) ==
  /\ pc[p] = "cprename"
  /\ RenameFails(p)
  /\ dir' = RemoveHere({job[p].new})
  /\ Goto(p, "cpdone")
  /\ UNCHANGED <<list, lockFile, tlocks, fdAt, st, closed, load, ret, newt, call,
                 job, crashes, history>>

\* deleteOnSuccess; then the stack is reloaded.
DeleteCompacted(p) ==
  /\ pc[p] = "delete"
  /\ dir' = IF job[p].new = NoName THEN dir
            ELSE RemoveHere(job[p].old \ {job[p].new})
  /\ StartReload(p, "compact")
  /\ UNCHANGED <<list, lockFile, tlocks, fdAt, st, closed, load, lock, newt, call,
                 job, crashes, history>>

\* The sub-table locks to close.  Mutated: only after success.
LocksOfSuccess(p) == IF job[p].new = NoName THEN {} ELSE job[p].old
LocksToClose(p) == job[p].old

\* The deferred calls: the second lock and the sub-table locks are closed ...
CompactionDone(p) ==
  /\ pc[p] = "cpdone"
  /\ tlocks' = tlocks \ LocksToClose(p)
  /\ IF job[p].relocked THEN CloseLock(p, TRUE)
     ELSE UNCHANGED <<lockFile, fdAt, lock>>
  /\ Goto(p, "cplast")
  /\ UNCHANGED <<dir, list, st, closed, load, ret, newt, call, job, crashes,
                 history>>

\* ... and last what the variable lock holds, which may be closed already.
CompactionEnd(p) ==
  /\ pc[p] = "cplast" /\ ret[p] = "none"
  /\ CloseLock(p, FALSE)
  /\ job' = [job EXCEPT ![p] = NoJob]
  /\ Goto(p, "idle")
  /\ UNCHANGED <<dir, list, tlocks, st, closed, load, ret, newt, call, crashes,
                 history>>

CompactionPanics(p) ==
  /\ pc[p] = "cplast" /\ ret[p] = "panic"
  /\ IF lock[p] = "none" THEN UNCHANGED <<lockFile, fdAt>> ELSE UnlinkLock(p)
  /\ Forget(p, "aborted")
  /\ UNCHANGED <<dir, list, tlocks, crashes>>

-----------------------------------------------------------------------------
(* The end of a stack *)

\* Close reads the list ...
Close(p) ==
  /\ pc[p] = "idle" /\ "close" \in Calls[p]
  /\ load' = [load EXCEPT ![p].names = list]
  /\ Goto(p, "close")
  /\ UNCHANGED <<shared, fdAt, st, closed, ret, lock, newt, call, job, crashes,
                 history>>

\* ... and removes the files of readers that are not in it, unless it is empty.
CloseRemove(p) ==
  /\ pc[p] = "close"
  /\ dir' = IF load[p].names = <<>> THEN dir
            ELSE Without(ReaderNames(st[p]) \ NameSet(load[p].names))
  /\ Forget(p, "closed")
  /\ UNCHANGED <<list, lockFile, tlocks, fdAt, crashes>>

\* The process dies in the middle of a call.  Its files and locks stay.
Crash(p) ==
  /\ pc[p] \notin {"closed", "aborted", "idle"}
  /\ crashes < MaxCrashes
  /\ crashes' = crashes + 1
  /\ fdAt' = [fdAt EXCEPT ![p] = "none"]
  /\ Forget(p, "closed")
  /\ UNCHANGED shared

-----------------------------------------------------------------------------
ReloadStep(p) == \/ ReadList(p) \/ ReuseReader(p) \/ OpenTable(p)
                 \/ TableMissing(p) \/ Recheck(p) \/ Swap(p)
AdditionStep(p) == \/ CheckLocked(p) \/ AddTable(p) \/ Abandon(p)
                   \/ CommitNothing(p) \/ CommitWrite(p) \/ CommitRename(p)
                   \/ CommitSyncFails(p) \/ CommitRenameFails(p)
                   \/ AdditionClose(p) \/ Scan(p) \/ ScanPanics(p)
CompactionStep(p) == \/ AutoCompact(p) \/ CompactionCheck(p) \/ LockTable(p)
                     \/ UnlockForMerge(p) \/ MergeFails(p) \/ Relock(p)
                     \/ Install(p) \/ CompactionWrite(p) \/ CompactionRename(p)
                     \/ CompactionRenameFails(p) \/ DeleteCompacted(p)
                     \/ CompactionDone(p) \/ CompactionEnd(p)
                     \/ CompactionPanics(p)

CallStep(p) == ReloadStep(p) \/ AdditionStep(p) \/ CompactionStep(p) \/ CloseRemove(p)

StartCall(p) == \/ Open(p) \/ LockTaken(p) \/ CompactAll(p) \/ Close(p)
                \/ \E c \in CallNames : LockList(p, c)

Next == \E p \in Proc : \/ StartCall(p) \/ CallStep(p) \/ GiveUp(p) \/ Crash(p)

Spec == Init /\ [][Next]_vars

\* A goroutine in the middle of a call goes on, and the clock does, so that a
\* reload that keeps retrying finds its deadline expired.
Fairness == \A p \in Proc : WF_vars(CallStep(p)) /\ SF_vars(GiveUp(p))

FairSpec == Spec /\ Fairness

-----------------------------------------------------------------------------
(* Properties *)

Labels == {"closed", "idle", "aborted", "read", "open", "recheck", "locked",
           "adding", "rename", "adclose", "scan", "auto", "cpcheck", "cpsub",
           "relock", "install", "cpwrite", "cprename", "delete", "cpdone",
           "cplast", "close"}
Returns == {"none", "open", "plain", "auto", "scan", "compact", "again", "panic"}
Loads == [names : Seq(TableName), opened : Seq(Reader), tries : 0..1, at : Nat]
Jobs == [first : Nat, last : Nat, next : Nat, old : SUBSET TableName,
         new : TableName \cup {NoName}, expire : BOOLEAN, relocked : BOOLEAN]

\* Every variable stays within its type, whatever the processes do.
StacksOK == /\ st \in [Proc -> Seq(Reader)]
            /\ closed \in [Proc -> SUBSET TableName]
            /\ load \in [Proc -> Loads]
CallsOK == /\ pc \in [Proc -> Labels]
           /\ ret \in [Proc -> Returns]
           /\ fdAt \in [Proc -> {"none", "lock", "list", "orphan"}]
           /\ lock \in [Proc -> {"none", "open", "closed"}]
           /\ newt \in [Proc -> Seq(Reader)]
           /\ call \in [Proc -> {"none", "add", "txn", "clean"}]
           /\ job \in [Proc -> Jobs]
HistoryOK == /\ crashes \in 0..MaxCrashes
             /\ hist \in Seq(Database) /\ hist # <<>>
             /\ ver \in [Proc -> Nat]

TypeOK == FilesOK /\ StacksOK /\ CallsOK /\ HistoryOK

\* The tables of the list and of every open stack cover update indexes in
\* strictly increasing ranges, also when a transaction has several tables.
ListOrdered == /\ Ordered(list)
               /\ \A p \in Proc : Ordered(NamesOf(st[p]))

\* What tables.list and the files it names say is the outcome of exactly the
\* transactions that were committed.
Durable == ListIntact /\ Live(Merged(Listed)) = hist[Len(hist)]

\* "Takes a global filesystem lock on the ref database": two processes never
\* both have the lock on the list.
HasLock(p) == lock[p] = "open" /\ pc[p] # "adclose"
MutualExclusion == \A p, q \in Proc : HasLock(p) /\ HasLock(q) => p = q

\* While nothing has died, a file outside the list belongs to a call that is
\* running or to a stack that will remove it.
NoGarbage ==
  crashes = 0 =>
    \A n \in DOMAIN dir \ NameSet(list) :
      \E p \in Proc : \/ n \in ReaderNames(st[p]) \cup ReaderNames(newt[p])
                      \/ n = job[p].new

\* Once every process is between calls, no lock is left.
NoLeakedLocks ==
  /\ crashes = 0
  /\ \A p \in Proc : pc[p] \in {"idle", "closed", "aborted"}
  => lockFile = NoFile /\ tlocks = {}

\* Whatever fails, and when a contended compaction panics in its last deferred
\* call, the locks on the tables of its range are gone with the call: the
\* deferred calls that release them run before that one.
TableLocksReleased ==
  (\A p \in Proc : pc[p] \in {"idle", "closed", "aborted"}) => tlocks = {}

\* The stack implements the database it promises to be.
DB == INSTANCE RefDB WITH seen <- ver, view <- [p \in Proc |-> View(st[p])]
Implements == DB!Spec

\* Every call returns, or the process dies.
CallsReturn ==
  \A p \in Proc : pc[p] \notin {"idle", "closed", "aborted"}
                    ~> pc[p] \in {"idle", "closed", "aborted"}
=============================================================================
