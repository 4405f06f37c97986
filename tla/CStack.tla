------------------------------- MODULE CStack -------------------------------
(***************************************************************************)
(* The stack of c/stack.c: processes that share one directory, each with a *)
(* struct reftable_stack of its own.  A step is one system call on a file  *)
(* that other processes see (open, read, write, rename, unlink), with the  *)
(* computation around it; what a function does between two such calls is   *)
(* invisible to the others.                                                *)
(***************************************************************************)
EXTENDS Directory

CONSTANTS Calls,       \* Calls[p]: the calls of the API process p makes
          Batches,     \* what a callback may write into one table
          MaxTables,   \* bound: tables in one transaction
          MaxGap,      \* bound: update indexes a callback skips or spans
          MaxCommits,  \* bound: transactions committed
          MaxCrashes,  \* bound: processes that die in the middle of a call
          MaxTemps,    \* bound: temporary files a process has left behind when
                       \* it starts a compaction
          FreeTries,   \* attempts before reload looks at its deadline (3)
          FreshNames,  \* whether rand() never repeats a name that is in use
          Faults,      \* whether write, close and rename may fail outright
          NoName       \* no compacted table: the merge left no record

CallNames == {"reload", "add", "txn", "compact", "expire", "clean", "destroy"}

ASSUME CallsAssumption  == Calls \in [Proc -> SUBSET CallNames]
ASSUME BatchAssumption  == Batches \subseteq Contents
ASSUME BoundsAssumption == /\ MaxTables \in Nat \ {0}
                           /\ MaxGap \in Nat
                           /\ MaxCommits \in Nat
                           /\ MaxCrashes \in Nat
                           /\ MaxTemps \in Nat
                           /\ FreeTries \in Nat
ASSUME ModeAssumption   == FreshNames \in BOOLEAN /\ Faults \in BOOLEAN
ASSUME NoneAssumption   == NoName \notin TableName

VARIABLES
  pc,        \* what each process does next
  st,        \* its stack: the open readers, oldest first
  health,    \* "ok", "freed": readers freed while still in st->readers,
             \* "unmerged": st->merged is NULL
  names,     \* reload: the names read from the list
  opened,    \* reload: new_readers
  reuse,     \* reload: reuse_open
  tries,     \* reload: tries
  ret,       \* where control goes when reload, or the close, is done
  newt,      \* addition: the tables written, with their contents
  call,      \* addition: the call it is part of
  job,       \* compaction: range, sub-table locks, new table, have_lock
  crashes,   \* processes that died so far
  temps,     \* compaction: the temporary files (.temp.XXXXXX) each process has
             \* made that are in the directory
  hist,      \* history: the states of the database, one per commit
  ver,       \* history: the version st shows
  readAt     \* history: the version that was current when names was read

loading == <<names, opened, reuse, tries, readAt>>
history == <<hist, ver>>
vars == <<shared, pc, st, health, loading, ret, fdAt, newt, call, job,
          crashes, temps, history>>

NoJob == [first |-> 0, last |-> 0, next |-> 0, old |-> {}, new |-> NoName,
          held |-> FALSE]

Init ==
  /\ EmptyDirectory
  /\ pc = [p \in Proc |-> "closed"]
  /\ st = [p \in Proc |-> <<>>]
  /\ health = [p \in Proc |-> "ok"]
  /\ names = [p \in Proc |-> <<>>]
  /\ opened = [p \in Proc |-> <<>>]
  /\ reuse = [p \in Proc |-> TRUE]
  /\ tries = [p \in Proc |-> 0]
  /\ readAt = [p \in Proc |-> 0]
  /\ ret = [p \in Proc |-> "none"]
  /\ newt = [p \in Proc |-> <<>>]
  /\ call = [p \in Proc |-> "none"]
  /\ job = [p \in Proc |-> NoJob]
  /\ crashes = 0
  /\ temps = [p \in Proc |-> 0]
  /\ hist = <<NoRecs>>
  /\ ver = [p \in Proc |-> 0]

\* Names that a file, a list, a stack or a running call still refers to.
HeldNames ==
  DOMAIN dir \cup NameSet(list) \cup tlocks
    \cup (IF lockFile = NoFile THEN {} ELSE NameSet(lockFile))
    \cup UNION { ReaderNames(st[p]) \cup ReaderNames(opened[p])
                 \cup ReaderNames(newt[p]) \cup NameSet(names[p])
                 \cup job[p].old \cup {job[p].new} : p \in Proc }

\* format_name: the range of update indexes and a random suffix.  Which of the
\* names that are not in use makes no difference, so one of them stands for all.
NewNames(lo, hi) ==
  LET any == {[min |-> lo, max |-> hi, sfx |-> x] : x \in Suffixes}
      fresh == any \ HeldNames
  IN  IF ~FreshNames THEN any
      ELSE IF fresh = {} THEN {} ELSE {CHOOSE n \in fresh : TRUE}

Goto(p, label) == pc' = [pc EXCEPT ![p] = label]

\* stack_uptodate: the list names the very tables of the stack.
UpToDate(p) == list = NamesOf(st[p])

\* Process memory is gone: the stack is destroyed, or the process died.
Forget(p, label) ==
  /\ Goto(p, label)
  /\ st' = [st EXCEPT ![p] = <<>>]
  /\ health' = [health EXCEPT ![p] = "ok"]
  /\ names' = [names EXCEPT ![p] = <<>>]
  /\ opened' = [opened EXCEPT ![p] = <<>>]
  /\ reuse' = [reuse EXCEPT ![p] = TRUE]
  /\ tries' = [tries EXCEPT ![p] = 0]
  /\ readAt' = [readAt EXCEPT ![p] = 0]
  /\ ret' = [ret EXCEPT ![p] = "none"]
  /\ fdAt' = [fdAt EXCEPT ![p] = "none"]
  /\ newt' = [newt EXCEPT ![p] = <<>>]
  /\ call' = [call EXCEPT ![p] = "none"]
  /\ job' = [job EXCEPT ![p] = NoJob]
  /\ ver' = [ver EXCEPT ![p] = 0]
  /\ UNCHANGED hist

-----------------------------------------------------------------------------
(* Reload.  ret tells who called: "open" reftable_new_stack, "plain" a     *)
(* reload whose caller then returns, "auto" an addition that compacts      *)
(* afterwards, "scan" reftable_stack_clean, "delete" a compaction.         *)

AfterReload == [open |-> "idle", plain |-> "idle", auto |-> "auto",
                scan |-> "scan", delete |-> "delete"]
AfterFailure == [open |-> "closed", plain |-> "idle", auto |-> "idle",
                 scan |-> "adclose", delete |-> "delete"]

\* reload_maybe_reuse(st, r): first the list is read.
StartReload(p, r) ==
  /\ reuse' = [reuse EXCEPT ![p] = r]
  /\ tries' = [tries EXCEPT ![p] = 0]
  /\ UNCHANGED <<names, opened, readAt>>

EndReload(p, continue) ==
  \* clean without the lock has no addition to destroy
  /\ Goto(p, IF continue = "adclose" /\ fdAt[p] = "none" THEN "idle"
             ELSE continue)
  /\ ret' = [ret EXCEPT ![p] = "none"]
  /\ names' = [names EXCEPT ![p] = <<>>]
  /\ opened' = [opened EXCEPT ![p] = <<>>]
  /\ tries' = [tries EXCEPT ![p] = 0]
  /\ readAt' = [readAt EXCEPT ![p] = 0]
  /\ UNCHANGED reuse

\* reftable_new_stack.
Open(p) ==
  /\ pc[p] = "closed"
  /\ Goto(p, "read")
  /\ ret' = [ret EXCEPT ![p] = "open"]
  /\ StartReload(p, TRUE)
  /\ UNCHANGED <<shared, st, health, fdAt, newt, call, job, crashes, temps,
                 history>>

\* A client calls reftable_stack_reload.
Reload(p) ==
  /\ pc[p] = "idle" /\ "reload" \in Calls[p]
  /\ Goto(p, "uptodate")
  /\ ret' = [ret EXCEPT ![p] = "plain"]
  /\ UNCHANGED <<shared, st, health, loading, fdAt, newt, call, job, crashes,
                 temps, history>>

\* reftable_stack_reload reads the list and returns at once if it is unchanged.
ReloadCheck(p) ==
  /\ pc[p] = "uptodate" /\ health[p] = "ok"
  /\ \/ /\ UpToDate(p)
        /\ EndReload(p, AfterReload[ret[p]])
        /\ ver' = [ver EXCEPT ![p] = Len(hist)]
     \/ /\ ~UpToDate(p)
        /\ Goto(p, "read")
        /\ StartReload(p, TRUE)
        /\ UNCHANGED <<ret, ver>>
  /\ UNCHANGED <<shared, st, health, fdAt, newt, call, job, crashes, temps,
                 hist>>

\* The head of the loop of reload_maybe_reuse.  The deadline may have passed
\* once there were more than FreeTries attempts.
ReadList(p) ==
  /\ pc[p] = "read" /\ health[p] # "freed"
  /\ tries' = [tries EXCEPT ![p] = IF @ > FreeTries THEN @ ELSE @ + 1]
  /\ names' = [names EXCEPT ![p] = list]
  /\ opened' = [opened EXCEPT ![p] = <<>>]
  /\ readAt' = [readAt EXCEPT ![p] = Len(hist)]
  /\ Goto(p, "open")
  /\ UNCHANGED <<shared, st, health, reuse, ret, fdAt, newt, call, job,
                 crashes, temps, history>>

\* The deadline has passed: the loop is left and 0 returned.
GiveUp(p) ==
  /\ pc[p] = "read" /\ tries[p] >= FreeTries
  /\ EndReload(p, AfterReload[ret[p]])
  /\ health' = IF ret[p] = "open" THEN [health EXCEPT ![p] = "unmerged"]
               ELSE health
  /\ UNCHANGED <<shared, st, fdAt, newt, call, job, crashes, temps, history>>

NextToOpen(p) == names[p][Len(opened[p]) + 1]

\* reload_once finds the table among its open readers...
ReuseReader(p) ==
  /\ pc[p] = "open" /\ reuse[p] /\ Len(opened[p]) < Len(names[p])
  /\ \E i \in 1..Len(st[p]) :
       /\ st[p][i].name = NextToOpen(p)
       /\ opened' = [opened EXCEPT ![p] = Append(@, st[p][i])]
  /\ UNCHANGED <<shared, pc, st, health, names, reuse, tries, readAt, ret,
                 fdAt, newt, call, job, crashes, temps, history>>

\* Mutated: a table that is gone is waited for.
MustOpenOrWait(p) ==
  /\ pc[p] = "open" /\ Len(opened[p]) < Len(names[p])
  /\ reuse[p] => NextToOpen(p) \notin ReaderNames(st[p])
  /\ NextToOpen(p) \in DOMAIN dir
MustOpen(p) == /\ pc[p] = "open" /\ Len(opened[p]) < Len(names[p])
               /\ reuse[p] => NextToOpen(p) \notin ReaderNames(st[p])

\* ... or opens the file ...
OpenTable(p) ==
  /\ MustOpen(p) /\ NextToOpen(p) \in DOMAIN dir
  /\ opened' = [opened EXCEPT ![p] = Append(@,
       [name |-> NextToOpen(p), recs |-> dir[NextToOpen(p)]])]
  /\ UNCHANGED <<shared, pc, st, health, names, reuse, tries, readAt, ret,
                 fdAt, newt, call, job, crashes, temps, history>>

\* ... or finds it gone, and frees new_readers, which may hold readers that
\* st->readers still points to.
TableMissing(p) ==
  /\ MustOpen(p) /\ NextToOpen(p) \notin DOMAIN dir
  /\ Goto(p, "recheck")
  /\ opened' = [opened EXCEPT ![p] = <<>>]
  /\ health' =
       IF reuse[p] /\ ReaderNames(opened[p]) \cap ReaderNames(st[p]) # {}
       THEN [health EXCEPT ![p] = "freed"] ELSE health
  /\ UNCHANGED <<shared, st, names, reuse, tries, readAt, ret, fdAt, newt,
                 call, job, crashes, temps, history>>

\* A missing table is an error unless the list has changed meanwhile.
Recheck(p) ==
  /\ pc[p] = "recheck"
  /\ \/ /\ list = names[p]
        /\ EndReload(p, AfterFailure[ret[p]])
     \/ /\ list # names[p]
        /\ Goto(p, "read")
        /\ UNCHANGED <<loading, ret>>
  /\ UNCHANGED <<shared, st, health, fdAt, newt, call, job, crashes, temps,
                 history>>

\* The readers that reload_once has not moved to the new stack.
Dropped(p) == ReaderNames(st[p])
              \ (IF reuse[p] THEN NameSet(names[p]) ELSE {})

\* All tables are open: the stack is replaced, and the files of the readers
\* it no longer has are unlinked.
Swap(p) ==
  /\ pc[p] = "open" /\ Len(opened[p]) = Len(names[p])
  /\ st' = [st EXCEPT ![p] = opened[p]]
  /\ health' = [health EXCEPT ![p] = "ok"]
  /\ dir' = Without(Dropped(p))
  /\ ver' = [ver EXCEPT ![p] = readAt[p]]
  /\ EndReload(p, AfterReload[ret[p]])
  /\ UNCHANGED <<list, lockFile, tlocks, fdAt, newt, call, job, crashes, temps,
                 hist>>

\* Freed readers, or a NULL merged table, are touched: undefined behaviour,
\* taken as the death of the process, which leaves its locks behind.
TouchPoints == {"uptodate", "locked", "cpcheck", "auto", "scan", "read"}

UseAfterFree(p) ==
  /\ \/ health[p] # "ok" /\ pc[p] \in TouchPoints \ {"read"}
     \/ health[p] = "freed" /\ pc[p] = "read"
     \/ health[p] = "unmerged" /\ pc[p] = "idle" /\ "compact" \in Calls[p]
     \/ health[p] = "freed" /\ pc[p] = "destroy"
  /\ Forget(p, "aborted")
  /\ UNCHANGED <<shared, crashes, temps>>

-----------------------------------------------------------------------------
(* Additions: reftable_stack_add ("add", one table, then auto-compaction), *)
(* a transaction through reftable_stack_new_addition ("txn"), and the lock *)
(* taken by reftable_stack_clean ("clean").                                *)

\* reftable_stack_init_addition takes the lock ...
LockList(p, c) ==
  /\ pc[p] = "idle" /\ c \in Calls[p] \cap {"add", "txn", "clean"}
  /\ c # "clean" => Len(hist) <= MaxCommits
  /\ CreateLock
  /\ fdAt' = [fdAt EXCEPT ![p] = "lock"]
  /\ call' = [call EXCEPT ![p] = c]
  /\ Goto(p, "locked")
  /\ UNCHANGED <<dir, list, tlocks, st, health, loading, ret, newt, job,
                 crashes, temps, history>>

\* ... or finds it taken, and then closes the addition all the same.  Only
\* reftable_stack_add reloads after that.
LockTaken(p, c) ==
  /\ pc[p] = "idle" /\ c \in Calls[p] \cap {"add", "txn", "clean"}
  /\ c # "clean" => Len(hist) <= MaxCommits
  /\ lockFile # NoFile
  /\ call' = [call EXCEPT ![p] = c]
  /\ ret' = [ret EXCEPT ![p] = IF c = "add" THEN "plain" ELSE "none"]
  /\ Goto(p, "adclose")
  /\ UNCHANGED <<shared, st, health, loading, fdAt, newt, job, crashes, temps,
                 history>>

\* With the lock the stack is compared with the list.  A stale stack closes
\* the addition, but clean goes on without one.
CheckLocked(p) ==
  /\ pc[p] = "locked" /\ health[p] = "ok"
  /\ \/ /\ UpToDate(p)
        /\ Goto(p, IF call[p] = "clean" THEN "uptodate" ELSE "adding")
        /\ ret' = [ret EXCEPT ![p] = IF call[p] = "clean" THEN "scan" ELSE "none"]
        /\ ver' = [ver EXCEPT ![p] = Len(hist)]
     \/ /\ ~UpToDate(p)
        /\ Goto(p, "adclose")
        /\ ret' = [ret EXCEPT ![p] = CASE call[p] = "add" -> "plain"
                                       [] call[p] = "clean" -> "scan"
                                       [] OTHER -> "none"]
        /\ UNCHANGED ver
  /\ UNCHANGED <<shared, st, health, loading, fdAt, newt, call, job, crashes,
                 temps, hist>>

\* reftable_addition_add: the callback's table starts at next_update_index or
\* above, and is renamed into place.  next_update_index stays as it was.
AddTable(p) ==
  /\ pc[p] = "adding"
  /\ Len(newt[p]) < (IF call[p] = "add" THEN 1 ELSE MaxTables)
  /\ \E lo \in NextUpdateIndex(st[p])..(NextUpdateIndex(st[p]) + MaxGap) :
     \E hi \in lo..(lo + MaxGap) :
     \E n \in NewNames(lo, hi), b \in Batches :
       /\ dir' = With(n, b)
       /\ newt' = [newt EXCEPT ![p] = Append(@, [name |-> n, recs |-> b])]
  /\ UNCHANGED <<list, lockFile, tlocks, pc, st, health, loading, ret, fdAt,
                 call, job, crashes, temps, history>>

\* The callback, or the check of its table, fails; or the client destroys the
\* addition without committing it.
Abandon(p) ==
  /\ pc[p] = "adding"
  /\ call[p] = "add" => newt[p] = <<>>
  /\ Goto(p, "adclose")
  /\ UNCHANGED <<shared, st, health, loading, ret, fdAt, newt, call, job,
                 crashes, temps, history>>

\* reftable_addition_commit of an addition without tables.
CommitNothing(p) ==
  /\ pc[p] = "adding" /\ newt[p] = <<>>
  /\ Goto(p, "adclose")
  /\ ret' = [ret EXCEPT ![p] = IF call[p] = "add" THEN "auto" ELSE "none"]
  /\ UNCHANGED <<shared, st, health, loading, fdAt, newt, call, job, crashes,
                 temps, history>>

\* reftable_addition_commit writes the list the addition leads to.  A write puts
\* down all of it or fails; the code takes a short write for success ...
CommitWrite(p) ==
  /\ pc[p] = "adding" /\ newt[p] # <<>>
  /\ \/ /\ WriteLock(p, NamesOf(st[p]) \o NamesOf(newt[p]))
        /\ Goto(p, "rename")
     \/ /\ Faults
        /\ Goto(p, "adclose")
        /\ UNCHANGED <<lockFile, list, fdAt>>
  /\ UNCHANGED <<dir, tlocks, st, health, loading, ret, newt, call, job,
                 crashes, temps, history>>

\* ... and renames it into place.
CommitRename(p) ==
  /\ pc[p] = "rename"
  /\ RenameLock(p)
  /\ newt' = [newt EXCEPT ![p] = <<>>]
  /\ hist' = Append(hist, Overlay(hist[Len(hist)], RecsOf(newt[p])))
  /\ ret' = [ret EXCEPT ![p] = IF call[p] = "add" THEN "auto" ELSE "plain"]
  /\ call' = [call EXCEPT ![p] = "none"]
  /\ Goto(p, "uptodate")
  /\ UNCHANGED <<dir, tlocks, st, health, loading, job, crashes, temps, ver>>

\* The rename fails, for instance because the lock file is gone.
CommitRenameFails(p) ==
  /\ pc[p] = "rename"
  /\ lockFile = NoFile \/ Faults
  /\ Goto(p, "adclose")
  /\ UNCHANGED <<shared, st, health, loading, ret, fdAt, newt, call, job,
                 crashes, temps, history>>

\* reftable_addition_close: the tables and the lock are unlinked.  A caller
\* that was refused the lock gets here as well.
AfterClose == [none |-> "idle", plain |-> "uptodate", scan |-> "uptodate",
               auto |-> "auto"]

\* The tables an addition that was not committed removes.  Mutated: none.
NotDiscarded(p) == {}
Discarded(p) == ReaderNames(newt[p])

AdditionClose(p) ==
  /\ pc[p] = "adclose"
  /\ dir' = Without(Discarded(p))
  /\ newt' = [newt EXCEPT ![p] = <<>>]
  /\ UnlinkLock(p)
  /\ Goto(p, AfterClose[ret[p]])
  /\ ret' = [ret EXCEPT ![p] = IF @ = "auto" THEN "none" ELSE @]
  /\ call' = [call EXCEPT ![p] = "none"]
  /\ UNCHANGED <<list, tlocks, st, health, loading, job, crashes, temps,
                 history>>

\* reftable_stack_clean_locked: tables that are not in the stack and not newer
\* than it are unlinked, with or without the lock.
Scan(p) ==
  /\ pc[p] = "scan" /\ health[p] = "ok"
  /\ dir' = Without({n \in DOMAIN dir : /\ n \notin ReaderNames(st[p])
                                        /\ n.max <= MaxUpdateIndex(st[p])})
  /\ Goto(p, IF fdAt[p] = "none" THEN "idle" ELSE "adclose")
  /\ UNCHANGED <<list, lockFile, tlocks, st, health, loading, ret, fdAt, newt,
                 call, job, crashes, temps, history>>

-----------------------------------------------------------------------------
(* Compaction: stack_compact_range.  Which range is worth compacting is    *)
(* the business of suggest_compaction_segment; here it may be any range.   *)

\* The lock on the list is taken and its descriptor closed at once.
LockForCompaction(p, first, last) ==
  \/ /\ CreateLock
     /\ temps[p] < MaxTemps
     /\ job' = [job EXCEPT ![p] = [first |-> first, last |-> last,
                                   next |-> first, old |-> {}, new |-> NoName,
                                   held |-> TRUE]]
     /\ Goto(p, "cpcheck")
  \/ /\ lockFile # NoFile
     /\ Goto(p, "idle")
     /\ UNCHANGED <<lockFile, job>>

\* reftable_stack_auto_compact, at the end of reftable_stack_add.
AutoCompact(p) ==
  /\ pc[p] = "auto" /\ health[p] = "ok"
  /\ \/ /\ "compact" \in Calls[p]
        /\ \E first, last \in 1..Len(st[p]) :
             first < last /\ LockForCompaction(p, first, last)
     \/ Goto(p, "idle") /\ UNCHANGED <<lockFile, job>>
  /\ UNCHANGED <<dir, list, tlocks, st, health, loading, ret, fdAt, newt, call,
                 crashes, temps, history>>

\* reftable_stack_compact_all.  With an expiry configuration a stack of one
\* table is rewritten too.
CompactAll(p) ==
  /\ pc[p] = "idle" /\ "compact" \in Calls[p] /\ health[p] # "unmerged"
  /\ Len(st[p]) > (IF "expire" \in Calls[p] THEN 0 ELSE 1)
  /\ LockForCompaction(p, 1, Len(st[p]))
  /\ UNCHANGED <<dir, list, tlocks, st, health, loading, ret, fdAt, newt, call,
                 crashes, temps, history>>

CompactionCheck(p) ==
  /\ pc[p] = "cpcheck" /\ health[p] = "ok"
  /\ Goto(p, IF UpToDate(p) THEN "cpsub" ELSE "cpdone")
  /\ UNCHANGED <<shared, st, health, loading, ret, fdAt, newt, call, job,
                 crashes, temps, history>>

\* The lock of one table of the range.  Its name is noted for removal even if
\* the lock was there already.
LockTable(p) ==
  LET n == st[p][job[p].next].name IN
  /\ pc[p] = "cpsub" /\ job[p].next <= job[p].last
  /\ job' = [job EXCEPT ![p].old = @ \cup {n}, ![p].next = @ + 1]
  /\ tlocks' = tlocks \cup {n}
  /\ Goto(p, IF n \in tlocks THEN "cpdone" ELSE "cpsub")
  /\ UNCHANGED <<dir, list, lockFile, st, health, loading, ret, fdAt, newt,
                 call, crashes, temps, history>>

\* All tables are locked: the list is unlocked for the time of the merge.  It
\* is an error if someone else has unlinked the lock.
UnlockForMerge(p) ==
  /\ pc[p] = "cpsub" /\ job[p].next > job[p].last
  /\ \/ /\ lockFile # NoFile
        /\ UnlinkLock(p)
        /\ job' = [job EXCEPT ![p].held = FALSE]
        /\ Goto(p, "merge")
     \/ /\ lockFile = NoFile
        /\ Goto(p, "cpdone")
        /\ UNCHANGED <<lockFile, fdAt, job>>
  /\ UNCHANGED <<dir, list, tlocks, st, health, loading, ret, newt, call,
                 crashes, temps, history>>

\* Whether the merge leaves a temporary file: one without any record does not.
TempLeft(p) ==
  IF CompactedRecs(st[p], job[p].first, job[p].last) = NoRecs THEN 0 ELSE 1

\* stack_compact_locked: the merged table is written to a temporary file, which
\* is unlinked if that fails.
Merge(p) ==
  /\ pc[p] = "merge"
  /\ \/ /\ temps' = [temps EXCEPT ![p] = @ + TempLeft(p)]
        /\ Goto(p, "relock")
     \/ /\ Faults
        /\ Goto(p, "cpdone")
        /\ UNCHANGED temps
  /\ UNCHANGED <<shared, st, health, loading, ret, fdAt, newt, call, job,
                 crashes, history>>

\* The list is locked again.  If that cannot be done now, the temporary file
\* is forgotten.
Relock(p) ==
  /\ pc[p] = "relock"
  /\ \/ /\ CreateLock
        /\ fdAt' = [fdAt EXCEPT ![p] = "lock"]
        /\ job' = [job EXCEPT ![p].held = TRUE]
        /\ Goto(p, "install")
     \/ /\ lockFile # NoFile
        /\ Goto(p, "cpdone")
        /\ UNCHANGED <<lockFile, fdAt, job>>
  /\ UNCHANGED <<dir, list, tlocks, st, health, loading, ret, newt, call,
                 crashes, temps, history>>

\* The temporary file gets its name, if there is one.  A rename that fails
\* leaves it where it is.
Install(p) ==
  LET first == job[p].first
      last == job[p].last
      recs == CompactedRecs(st[p], first, last) IN
  /\ pc[p] = "install"
  /\ \/ /\ recs = NoRecs
        /\ Goto(p, "cpwrite")
        /\ UNCHANGED <<dir, job, temps>>
     \/ /\ recs # NoRecs /\ temps[p] # 0
        /\ Goto(p, "cpwrite")
        /\ temps' = [temps EXCEPT ![p] = @ - 1]
        /\ \E n \in NewNames(st[p][first].name.min, st[p][last].name.max) :
             /\ dir' = With(n, recs)
             /\ job' = [job EXCEPT ![p].new = n]
     \/ /\ recs # NoRecs /\ (temps[p] = 0 \/ Faults)
        /\ Goto(p, "cpdone")
        /\ UNCHANGED <<dir, job, temps>>
  /\ UNCHANGED <<list, lockFile, tlocks, st, health, loading, ret, fdAt, newt,
                 call, crashes, history>>

\* What takes the place of the range in the list.  Mutated: is_empty_table is
\* forgotten.
AlwaysReplacement(p) == <<job[p].new>>
Replacement(p) == IF job[p].new = NoName THEN <<>> ELSE <<job[p].new>>

\* The new list is made from the stack as it was before the merge.  As in
\* CommitWrite, a write puts down the whole list or fails.
CompactionWrite(p) ==
  /\ pc[p] = "cpwrite"
  /\ \/ /\ WriteLock(p, Spliced(NamesOf(st[p]), job[p].first, job[p].last,
                                Replacement(p)))
        /\ Goto(p, "cprename")
        /\ UNCHANGED dir
     \/ /\ Faults
        /\ dir' = Without({job[p].new})
        /\ Goto(p, "cpdone")
        /\ UNCHANGED <<lockFile, list, fdAt>>
  /\ UNCHANGED <<tlocks, st, health, loading, ret, newt, call, job, crashes,
                 temps, history>>

CompactionRename(p) ==
  /\ pc[p] = "cprename"
  /\ RenameLock(p)
  /\ job' = [job EXCEPT ![p].held = FALSE]
  /\ ret' = [ret EXCEPT ![p] = "delete"]
  /\ Goto(p, "read")
  /\ StartReload(p, job[p].first < job[p].last)
  /\ UNCHANGED <<dir, tlocks, st, health, newt, call, crashes, temps, history>>

CompactionRenameFails(p) ==
  /\ pc[p] = "cprename"
  /\ lockFile = NoFile \/ Faults
  /\ dir' = Without({job[p].new})
  /\ Goto(p, "cpdone")
  /\ UNCHANGED <<list, lockFile, tlocks, st, health, loading, ret, fdAt, newt,
                 call, job, crashes, temps, history>>

\* After the reload, whatever came of it, the compacted tables are unlinked.
DeleteCompacted(p) ==
  /\ pc[p] = "delete"
  /\ dir' = Without(job[p].old \ {job[p].new})
  /\ Goto(p, "cpdone")
  /\ UNCHANGED <<list, lockFile, tlocks, st, health, loading, ret, fdAt, newt,
                 call, job, crashes, temps, history>>

\* The table locks to unlink at the end.  Mutated: only after success.
LocksOfSuccess(p) == IF job[p].new = NoName THEN {} ELSE job[p].old
LocksToUnlink(p) == job[p].old

\* The exit of stack_compact_range: every noted table lock is unlinked, and
\* the lock on the list if have_lock is set.
CompactionDone(p) ==
  /\ pc[p] = "cpdone"
  /\ tlocks' = tlocks \ LocksToUnlink(p)
  /\ IF job[p].held THEN UnlinkLock(p)
     ELSE UNCHANGED <<lockFile, fdAt>>
  /\ job' = [job EXCEPT ![p] = NoJob]
  /\ Goto(p, "idle")
  /\ UNCHANGED <<dir, list, st, health, loading, ret, newt, call, crashes,
                 temps, history>>

-----------------------------------------------------------------------------
(* The end of a stack *)

\* reftable_stack_destroy reads the list ...
Destroy(p) ==
  /\ pc[p] = "idle" /\ "destroy" \in Calls[p]
  /\ names' = [names EXCEPT ![p] = list]
  /\ Goto(p, "destroy")
  /\ UNCHANGED <<shared, st, health, opened, reuse, tries, readAt, ret, fdAt,
                 newt, call, job, crashes, temps, history>>

\* ... and unlinks the files of its readers that are not in it.
DestroyUnlink(p) ==
  /\ pc[p] = "destroy" /\ health[p] # "freed"
  /\ dir' = Without(ReaderNames(st[p]) \ NameSet(names[p]))
  /\ Forget(p, "closed")
  /\ UNCHANGED <<list, lockFile, tlocks, crashes, temps>>

\* The process dies in the middle of a call.  Its files and locks stay.
Crash(p) ==
  /\ pc[p] \notin {"closed", "aborted", "idle"}
  /\ crashes < MaxCrashes
  /\ crashes' = crashes + 1
  /\ Forget(p, "closed")
  /\ UNCHANGED <<shared, temps>>

-----------------------------------------------------------------------------
\* A step inside a call, and the steps that start one.
ReloadStep(p) == \/ ReloadCheck(p) \/ ReadList(p) \/ ReuseReader(p)
                 \/ OpenTable(p) \/ TableMissing(p) \/ Recheck(p) \/ Swap(p)
                 \/ UseAfterFree(p)
AdditionStep(p) == \/ CheckLocked(p) \/ AddTable(p) \/ Abandon(p)
                   \/ CommitNothing(p) \/ CommitWrite(p) \/ CommitRename(p)
                   \/ CommitRenameFails(p) \/ AdditionClose(p) \/ Scan(p)
CompactionStep(p) == \/ AutoCompact(p) \/ CompactionCheck(p) \/ LockTable(p)
                     \/ UnlockForMerge(p) \/ Merge(p) \/ Relock(p)
                     \/ Install(p) \/ CompactionWrite(p)
                     \/ CompactionRename(p) \/ CompactionRenameFails(p)
                     \/ DeleteCompacted(p) \/ CompactionDone(p)

CallStep(p) == \/ ReloadStep(p) \/ AdditionStep(p) \/ CompactionStep(p)
               \/ DestroyUnlink(p)

StartCall(p) == \/ Open(p) \/ Reload(p) \/ CompactAll(p) \/ Destroy(p)
                \/ \E c \in CallNames : LockList(p, c) \/ LockTaken(p, c)

Next == \E p \in Proc : \/ StartCall(p) \/ CallStep(p) \/ GiveUp(p) \/ Crash(p)

Spec == Init /\ [][Next]_vars

\* A process in the middle of a call is scheduled again and again, and time
\* passes, so that a reload that keeps trying finds its deadline expired.
Fairness == \A p \in Proc : WF_vars(CallStep(p)) /\ SF_vars(GiveUp(p))

FairSpec == Spec /\ Fairness

-----------------------------------------------------------------------------
(* Properties *)

Labels == {"closed", "idle", "aborted", "uptodate", "read", "open", "recheck",
           "locked", "adding", "rename", "adclose", "scan", "auto", "cpcheck",
           "cpsub", "merge", "relock", "install", "cpwrite", "cprename",
           "delete", "cpdone", "destroy"}
Returns == {"none", "open", "plain", "auto", "scan", "delete"}
Jobs == [first : Nat, last : Nat, next : Nat, old : SUBSET TableName,
         new : TableName \cup {NoName}, held : BOOLEAN]

\* Every variable stays within its type, whatever the processes do.
StacksOK == /\ st \in [Proc -> Seq(Reader)]
            /\ health \in [Proc -> {"ok", "freed", "unmerged"}]
            /\ names \in [Proc -> Seq(TableName)]
            /\ opened \in [Proc -> Seq(Reader)]
            /\ reuse \in [Proc -> BOOLEAN]
            /\ tries \in [Proc -> Nat]
CallsOK == /\ pc \in [Proc -> Labels]
           /\ ret \in [Proc -> Returns]
           /\ fdAt \in [Proc -> {"none", "lock", "list", "orphan"}]
           /\ newt \in [Proc -> Seq(Reader)]
           /\ call \in [Proc -> {"none", "add", "txn", "clean"}]
           /\ job \in [Proc -> Jobs]
HistoryOK == /\ crashes \in 0..MaxCrashes
             /\ temps \in [Proc -> Nat]
             /\ hist \in Seq(Database) /\ hist # <<>>
             /\ ver \in [Proc -> Nat]
             /\ readAt \in [Proc -> Nat]

TypeOK == FilesOK /\ StacksOK /\ CallsOK /\ HistoryOK

\* The tables of the list and of every open stack cover update indexes in
\* strictly increasing ranges.  Reading prefers the newer of two records by
\* the position of their tables, so this order is what makes the answer right.
ListOrdered == /\ Ordered(list)
               /\ \A p \in Proc : Ordered(NamesOf(st[p]))

\* What tables.list and the files it names say is the outcome of exactly the
\* transactions that were committed: compaction, reloads that unlink files,
\* failed calls and dead processes neither lose one nor revive a deleted ref.
Durable == ListIntact /\ Live(Merged(Listed)) = hist[Len(hist)]

\* Two processes never both believe they hold the lock on the list.
Believes(p) == \/ pc[p] \in {"locked", "adding", "rename"}
               \/ job[p].held
MutualExclusion == \A p, q \in Proc : Believes(p) /\ Believes(q) => p = q

\* A process never dies of its own memory errors.
NeverAborts == \A p \in Proc : pc[p] # "aborted"

\* Clean, destroy, close and compaction leave no table behind that no one will
\* remove: while nothing has died, a .ref file outside the list belongs to a
\* call that is running or to a stack that will unlink it.
NoStrayTables ==
  crashes = 0 =>
    \A n \in DOMAIN dir \ NameSet(list) :
      \E p \in Proc : \/ n \in ReaderNames(st[p]) \cup ReaderNames(newt[p])
                      \/ n = job[p].new

\* Replacing tables by their merge leaves every other table in the list.
CompactionKeepsOthers ==
  [][\A p \in Proc :
       pc[p] = "cprename" /\ pc'[p] = "read"
         => NameSet(list) \ job[p].old \subseteq NameSet(list')]_vars

\* Every process is between calls, and none has died in one.
AtRest == crashes = 0 /\ \A p \in Proc : pc[p] \in {"idle", "closed"}

\* At rest no lock is left.
NoLeakedLocks == AtRest => lockFile = NoFile /\ tlocks = {}

\* At rest the directory has no temporary file of a merged table.  Nothing in
\* the code removes one later: clean looks at names that end in .ref only.
NoTempsLeft == AtRest => \A p \in Proc : temps[p] = 0

\* The stack implements the database it promises to be.
DB == INSTANCE RefDB WITH seen <- ver, view <- [p \in Proc |-> View(st[p])]
Implements == DB!Spec

\* Every call returns, or the process dies.
CallsReturn ==
  \A p \in Proc : pc[p] \notin {"idle", "closed", "aborted"}
                    ~> pc[p] \in {"idle", "closed", "aborted"}
=============================================================================
