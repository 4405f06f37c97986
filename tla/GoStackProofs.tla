---------------------------- MODULE GoStackProofs ----------------------------
(***************************************************************************)
(* Theorems about GoStack, for any processes, references, calls and bounds *)
(* and with every fault: what a step leaves alone, the types, the locks,   *)
(* and the order of the tables.  The locks on single tables are gone when  *)
(* no process is inside a call, whatever failed and whoever panicked, as   *)
(* long as no process died.  The lock on the list is exclusive, for any    *)
(* number of writers, cleaners, crashes and restarts, as long as nobody    *)
(* compacts and no system call fails: the two things that make a process   *)
(* close a fileWriter twice.  The list and the stacks stay ordered by      *)
(* update index even if two processes both think they have the lock.       *)
(***************************************************************************)
EXTENDS GoStack, TablesProofs

\* All that a process may do.
Acts(p) == StartCall(p) \/ CallStep(p) \/ GiveUp(p) \/ Crash(p)

\* A step of one process leaves the memory of the others alone.
OthersUnchanged(p) ==
  \A q \in Proc \ {p} :
    /\ pc'[q] = pc[q] /\ ret'[q] = ret[q] /\ st'[q] = st[q]
    /\ closed'[q] = closed[q] /\ load'[q] = load[q] /\ lock'[q] = lock[q]
    /\ newt'[q] = newt[q] /\ call'[q] = call[q] /\ job'[q] = job[q]
    /\ ver'[q] = ver[q]

-----------------------------------------------------------------------------
(* Types.  A reload and the close of an addition return to where ret says, *)
(* and a compaction indexes the stack with the range it was given, so the  *)
(* types need to know which values the two have at which step.  A          *)
(* compaction of an empty stack has the range 1..0 until it panics.        *)

Reloading  == {"read", "open", "recheck"}
Merging    == {"cpcheck", "cpsub", "relock"}
Installing == {"install", "cpwrite"}

ReturnOK(p) ==
  /\ pc[p] \in Reloading => ret[p] \in {"open", "plain", "auto", "scan", "compact"}
  /\ pc[p] = "scan" => ret[p] = "none"
  /\ pc[p] = "adclose" => ret[p] \in {"none", "again", "plain", "auto"}

EmptyRange(p) == st[p] = <<>> /\ job[p].first = 1 /\ job[p].last = 0 /\ job[p].next = 1
StackRange(p) == /\ job[p].first \in 1..Len(st[p])
                 /\ job[p].last \in job[p].first..Len(st[p])
                 /\ job[p].next \in job[p].first..(job[p].last + 1)

RangeOK(p) ==
  /\ pc[p] \in Merging => EmptyRange(p) \/ StackRange(p)
  /\ pc[p] \in Installing => StackRange(p)

ControlOK == \A p \in Proc : ReturnOK(p) /\ RangeOK(p)

\* The initial state is typed, and no process is inside a call.
LEMMA InitTypes == Init => TypeOK /\ ControlOK
<1> SUFFICES ASSUME Init PROVE TypeOK /\ ControlOK
  OBVIOUS
<1>1. ControlOK
  BY DEF Init, ControlOK, ReturnOK, RangeOK, Reloading, Merging, Installing
<1>2. FilesOK /\ StacksOK
  BY DEF Init, EmptyDirectory, FilesOK, StacksOK, Loads, NoLoad
<1>3. CallsOK
  BY DEF Init, EmptyDirectory, CallsOK, Labels, Returns, Jobs, NoJob
<1>4. HistoryOK
  BY NoRecsTypes, BoundsAssumption DEF Init, HistoryOK
<1> QED BY <1>1, <1>2, <1>3, <1>4 DEF TypeOK

\* Where control goes when a reload or the close of an addition is done.
LEMMA ReturnLabels ==
  /\ \A x \in {"open", "plain", "auto", "scan", "compact"} :
       /\ AfterReload[x] \in {"idle", "auto", "scan", "cpdone"}
       /\ AfterFailure[x] \in {"closed", "idle", "adclose", "cpdone"}
  /\ \A x \in {"none", "again", "plain", "auto"} :
       AfterClose[x] \in {"idle", "adclose", "read", "auto"}
  /\ AfterClose["none"] = "idle" /\ AfterClose["again"] = "adclose"
  /\ AfterClose["plain"] = "read" /\ AfterClose["auto"] = "auto"
BY DEF AfterReload, AfterFailure, AfterClose

\* The fields of a reload under way.
LEMMA LoadFields ==
  ASSUME TypeOK, NEW p \in Proc
  PROVE  /\ load[p] \in Loads
         /\ load[p].names \in Seq(TableName) /\ load[p].opened \in Seq(Reader)
         /\ load[p].tries \in 0..1 /\ load[p].at \in Nat
BY DEF TypeOK, StacksOK, Loads

\* The fields of a compaction.
LEMMA JobFields ==
  ASSUME TypeOK, NEW p \in Proc
  PROVE  /\ job[p] \in Jobs
         /\ job[p].first \in Nat /\ job[p].last \in Nat /\ job[p].next \in Nat
         /\ job[p].old \in SUBSET TableName
         /\ job[p].new \in TableName \cup {NoName}
BY DEF TypeOK, CallsOK, Jobs

\* A pair of a name and a content is a reader with these fields.
LEMMA ReaderFields ==
  ASSUME NEW rs \in Seq(Reader), NEW i \in 1..Len(rs)
  PROVE  /\ rs[i] \in Reader /\ rs[i].name \in TableName
         /\ rs[i].name.min \in Nat /\ rs[i].name.max \in Nat
         /\ rs[i].recs \in Contents
<1>1. rs[i] \in Reader
  BY ElementOfSeq
<1> QED BY <1>1 DEF Reader, TableName

\* FormatName yields a name of the range it is given.
LEMMA NamesAreFresh ==
  ASSUME NEW lo \in Nat, NEW hi \in Nat, NEW x \in NewNames(lo, hi)
  PROVE  x \in TableName /\ x.min = lo /\ x.max = hi /\ x \notin HeldNames
<1> DEFINE any == {[min |-> lo, max |-> hi, sfx |-> y] : y \in Suffixes}
<1>1. x \in any \ HeldNames
  BY DEF NewNames
<1> QED BY <1>1 DEF TableName

\* The index after the last table of a sequence of readers is a number.
LEMMA NextIndexType ==
  ASSUME NEW rs \in Seq(Reader)
  PROVE  NextUpdateIndex(rs) \in Nat
<1>1. CASE rs = <<>>
  BY <1>1 DEF NextUpdateIndex
<1>2. CASE rs # <<>>
  <2>1. Len(rs) \in 1..Len(rs)
    BY <1>2, EmptySeq
  <2> QED BY <2>1, <1>2, ReaderFields DEF NextUpdateIndex
<1> QED BY <1>1, <1>2

\* The names a process would write into the list are names.
LEMMA StackNames ==
  ASSUME TypeOK, NEW p \in Proc
  PROVE  /\ st[p] \in Seq(Reader) /\ newt[p] \in Seq(Reader)
         /\ NamesOf(st[p]) \in Seq(TableName) /\ NamesOf(newt[p]) \in Seq(TableName)
         /\ RecsOf(newt[p]) \in Seq(Contents)
         /\ Len(NamesOf(st[p])) = Len(st[p])
         /\ Replacement(p) \in Seq(TableName)
<1>1. st[p] \in Seq(Reader) /\ newt[p] \in Seq(Reader)
  BY DEF TypeOK, StacksOK, CallsOK
<1>2. Replacement(p) \in Seq(TableName)
  BY JobFields DEF Replacement
<1> QED BY <1>1, <1>2, NamesOfType

\* The table of a callback starts at the next index of the transaction, which
\* lies past the tables it has already, or above it.
LEMMA AddedTable ==
  ASSUME TypeOK, NEW p \in Proc, AddTable(p)
  PROVE  \E lo \in Nat, hi \in Nat : \E x \in NewNames(lo, hi), b \in Batches :
           /\ NextIndex(p) <= lo /\ lo <= hi
           /\ dir' = With(x, b)
           /\ \/ newt' = [newt EXCEPT ![p] = Append(@, [name |-> x, recs |-> b])]
                 /\ UNCHANGED <<pc, ret>>
              \/ /\ Faults
                 /\ Goto(p, "adclose") /\ Return(p, "none")
                 /\ UNCHANGED newt
<1> DEFINE Added(x, b) ==
      /\ dir' = With(x, b)
      /\ \/ newt' = [newt EXCEPT ![p] = Append(@, [name |-> x, recs |-> b])]
            /\ UNCHANGED <<pc, ret>>
         \/ /\ Faults
            /\ Goto(p, "adclose") /\ Return(p, "none")
            /\ UNCHANGED newt
<1>1. \E lo \in NextIndex(p)..(NextIndex(p) + MaxGap) : \E hi \in lo..(lo + MaxGap) :
        \E x \in NewNames(lo, hi), b \in Batches : Added(x, b)
  BY DEF AddTable
<1> HIDE DEF Added
<1>2. PICK lo \in NextIndex(p)..(NextIndex(p) + MaxGap) : \E hi \in lo..(lo + MaxGap) :
        \E x \in NewNames(lo, hi), b \in Batches : Added(x, b)
  BY <1>1
<1>5. PICK hi \in lo..(lo + MaxGap) :
        \E x \in NewNames(lo, hi), b \in Batches : Added(x, b)
  BY <1>2
<1>3. NextIndex(p) \in Nat
  BY StackNames, ConcatProperties, NextIndexType DEF NextIndex
<1>4. lo \in Nat /\ hi \in Nat /\ NextIndex(p) <= lo /\ lo <= hi
  BY <1>3, BoundsAssumption
<1> QED BY <1>5, <1>4 DEF Added

\* A process that leaves the reload loop forgets the list it read.
LEMMA EndReloadTypes ==
  ASSUME TypeOK, NEW p \in Proc, NEW k \in Labels, EndReload(p, k)
  PROVE  /\ pc' \in [Proc -> Labels] /\ ret' \in [Proc -> Returns]
         /\ load' \in [Proc -> Loads]
         /\ pc'[p] = k /\ ret'[p] = "none"
<1>1. NoLoad \in Loads
  BY EmptySeq DEF NoLoad, Loads
<1> QED BY <1>1 DEF EndReload, Goto, Return, TypeOK, StacksOK, CallsOK, Returns

\* LockForWrite on the list, fileWriter.Close and the rename of the lock keep
\* the types of what they touch.
LEMMA LockTypes ==
  ASSUME TypeOK, NEW p \in Proc, NEW again,
         \/ TakeLock(p) \/ CloseLock(p, again) \/ Rename(p)
         \/ lock' = [lock EXCEPT ![p] = "none"] /\ UNCHANGED <<lockFile, fdAt>>
         \/ UNCHANGED <<lock, lockFile, fdAt>>
  PROVE  /\ lockFile' \in Seq(TableName) \cup {NoFile}
         /\ fdAt' \in [Proc -> {"none", "lock", "list", "orphan"}]
         /\ lock' \in [Proc -> {"none", "open", "closed"}]
<1>1. CASE TakeLock(p)
  BY <1>1, EmptySeq DEF TakeLock, CreateLock, TypeOK, CallsOK
<1>2. CASE CloseLock(p, again)
  BY <1>2 DEF CloseLock, UnlinkLock, FdsAfterUnlink, TypeOK, FilesOK, CallsOK
<1>3. CASE Rename(p)
  BY <1>3 DEF Rename, RenameLock, FdsAfterRename, TypeOK, CallsOK
<1>4. CASE lock' = [lock EXCEPT ![p] = "none"] /\ UNCHANGED <<lockFile, fdAt>>
  BY <1>4 DEF TypeOK, FilesOK, CallsOK
<1> QED BY <1>1, <1>2, <1>3, <1>4 DEF TypeOK, FilesOK, CallsOK

\* A write through the descriptor of the lock reaches a list or nothing.
LEMMA WriteLockTypes ==
  ASSUME TypeOK, NEW p \in Proc, NEW content \in Seq(TableName), WriteLock(p, content)
  PROVE  /\ list' \in Seq(TableName) /\ lockFile' \in Seq(TableName) \cup {NoFile}
         /\ fdAt' \in [Proc -> {"none", "lock", "list", "orphan"}]
BY DEF WriteLock, TypeOK, FilesOK, CallsOK

\* Removing files, wherever the working directory is.
LEMMA WithoutTypes ==
  ASSUME TypeOK, NEW files, dir' \in {dir, Without(files), RemoveHere(files)}
  PROVE  DOMAIN dir' \subseteq TableName /\ \A x \in DOMAIN dir' : dir'[x] \in Contents
BY DEF Without, RemoveHere, TypeOK, FilesOK

\* Compaction starts with a range of the stack, or not at all.
LEMMA LockForCompactionTypes ==
  ASSUME TypeOK, ControlOK, NEW p \in Proc, pc[p] \in {"idle", "auto"},
         NEW first \in Nat, NEW last \in Nat, NEW expire \in BOOLEAN,
         \/ first \in 1..Len(st[p]) /\ last \in first..Len(st[p])
         \/ st[p] = <<>> /\ first = 1 /\ last = 0,
         LockForCompaction(p, first, last, expire),
         UNCHANGED <<dir, list, tlocks, st, closed, load, ret, newt, call, crashes,
                     history>>
  PROVE  TypeOK' /\ ReturnOK(p)' /\ RangeOK(p)'
<1> DEFINE j == [first |-> first, last |-> last, next |-> first, old |-> {},
                 new |-> NoName, expire |-> expire, relocked |-> FALSE]
<1>1. FilesOK' /\ StacksOK' /\ HistoryOK'
  BY LockTypes DEF LockForCompaction, history, TypeOK, FilesOK, StacksOK, HistoryOK
<1>2. j \in Jobs
  BY DEF Jobs
<1>3. \/ pc' = [pc EXCEPT ![p] = "cpcheck"] /\ job' = [job EXCEPT ![p] = j]
      \/ pc' = [pc EXCEPT ![p] = "idle"] /\ job' = job
  BY DEF LockForCompaction, Goto
<1>4. j.first = first /\ j.last = last /\ j.next = first
  OBVIOUS
<1> HIDE DEF j
<1>5. TakeLock(p) \/ UNCHANGED <<lock, lockFile, fdAt>>
  BY DEF LockForCompaction
<1>6. CallsOK'
  BY <1>2, <1>3, <1>5, LockTypes, ZenonT(60) DEF TypeOK, CallsOK, Labels
<1>7. ReturnOK(p)' /\ RangeOK(p)'
  BY <1>3, <1>4 DEF TypeOK, CallsOK, ReturnOK, RangeOK, EmptyRange, StackRange,
                    Reloading, Merging, Installing
<1> QED BY <1>1, <1>6, <1>7 DEF TypeOK

\* Reload reading the list keeps the types.
LEMMA ReadListTypes ==
  ASSUME TypeOK, ControlOK, NEW p \in Proc, ReadList(p)
  PROVE  TypeOK' /\ ReturnOK(p)' /\ RangeOK(p)'
<1>1. FilesOK' /\ HistoryOK'
  BY DEF TypeOK, FilesOK, HistoryOK, ReadList, shared, history
<1>2. StacksOK'
  BY DEF TypeOK, FilesOK, StacksOK, HistoryOK, Loads, ReadList, Goto, history,
     shared
<1>3. CallsOK'
  BY DEF TypeOK, CallsOK, Labels, Returns, ReadList, Goto, history, shared
<1>4. ReturnOK(p)' /\ RangeOK(p)'
  BY DEF TypeOK, StacksOK, CallsOK, ControlOK, ReturnOK, RangeOK, EmptyRange,
     StackRange, Reloading, Merging, Installing, ReadList, Goto, history,
     shared
<1> QED BY <1>1, <1>2, <1>3, <1>4 DEF TypeOK

\* ReloadOnce taking over a reader keeps the types.
LEMMA ReuseReaderTypes ==
  ASSUME TypeOK, ControlOK, NEW p \in Proc, ReuseReader(p)
  PROVE  TypeOK' /\ ReturnOK(p)' /\ RangeOK(p)'
<1>1. FilesOK' /\ CallsOK' /\ HistoryOK'
  BY DEF TypeOK, FilesOK, CallsOK, HistoryOK, ReuseReader, shared, history
<1>2. StacksOK'
  <2>1. PICK i \in 1..Len(st[p]) :
          load' = [load EXCEPT ![p].opened = Append(@, st[p][i])]
    BY DEF ReuseReader
  <2>2. st[p][i] \in Reader
    BY StackNames, ReaderFields
  <2>3. Append(load[p].opened, st[p][i]) \in Seq(Reader)
    BY <2>2, LoadFields
  <2>4. [load[p] EXCEPT !.opened = Append(load[p].opened, st[p][i])] \in Loads
    BY <2>3, LoadFields DEF Loads
  <2> QED BY <2>1, <2>4 DEF ReuseReader, TypeOK, StacksOK
<1>3. ReturnOK(p)' /\ RangeOK(p)'
  BY DEF TypeOK, StacksOK, CallsOK, ControlOK, ReturnOK, RangeOK, EmptyRange,
     StackRange, Reloading, Merging, Installing, ReuseReader, Loading,
     NextToOpen, Reuse, history, shared
<1> QED BY <1>1, <1>2, <1>3 DEF TypeOK

\* ReloadOnce opening a table keeps the types.
LEMMA OpenTableTypes ==
  ASSUME TypeOK, ControlOK, NEW p \in Proc, OpenTable(p)
  PROVE  TypeOK' /\ ReturnOK(p)' /\ RangeOK(p)'
<1>1. FilesOK' /\ CallsOK' /\ HistoryOK'
  BY DEF TypeOK, FilesOK, CallsOK, HistoryOK, OpenTable, shared, history
<1>2. StacksOK'
  <2> DEFINE new == [name |-> NextToOpen(p), recs |-> dir[NextToOpen(p)]]
  <2>1. new \in Reader
    BY DEF TypeOK, FilesOK, OpenTable, Reader
  <2>2. load' = [load EXCEPT ![p].opened = Append(@, new)]
    BY DEF OpenTable
  <2> HIDE DEF new
  <2>3. Append(load[p].opened, new) \in Seq(Reader)
    BY <2>1, LoadFields
  <2>4. [load[p] EXCEPT !.opened = Append(load[p].opened, new)] \in Loads
    BY <2>3, LoadFields DEF Loads
  <2> QED BY <2>2, <2>4 DEF OpenTable, TypeOK, StacksOK
<1>3. ReturnOK(p)' /\ RangeOK(p)'
  BY DEF TypeOK, StacksOK, CallsOK, ControlOK, ReturnOK, RangeOK, EmptyRange,
     StackRange, Reloading, Merging, Installing, OpenTable, Loading, MustOpen,
     NextToOpen, Reuse, history, shared
<1> QED BY <1>1, <1>2, <1>3 DEF TypeOK

\* ReloadOnce meeting a table that is gone keeps the types.
LEMMA TableMissingTypes ==
  ASSUME TypeOK, ControlOK, NEW p \in Proc, TableMissing(p)
  PROVE  TypeOK' /\ ReturnOK(p)' /\ RangeOK(p)'
<1>1. FilesOK' /\ HistoryOK'
  BY DEF TypeOK, FilesOK, HistoryOK, TableMissing, shared, history
<1>2. StacksOK'
  <2>1. [load[p] EXCEPT !.opened = <<>>] \in Loads
    BY EmptySeq, LoadFields DEF Loads
  <2>2. load' \in [Proc -> Loads]
    BY <2>1 DEF TableMissing, TypeOK, StacksOK
  <2>3. ReaderNames(st[p]) \subseteq TableName
    BY StackNames, ReaderFields DEF ReaderNames
  <2>4. closed' \in [Proc -> SUBSET TableName]
    BY <2>3 DEF TableMissing, TypeOK, StacksOK
  <2> QED BY <2>2, <2>4 DEF TableMissing, TypeOK, StacksOK
<1>3. CallsOK'
  BY DEF TypeOK, CallsOK, Labels, Returns, TableMissing, Goto, Loading,
     MustOpen, NextToOpen, Reuse, history, shared
<1>4. ReturnOK(p)' /\ RangeOK(p)'
  BY DEF TypeOK, StacksOK, CallsOK, ControlOK, ReturnOK, RangeOK, EmptyRange,
     StackRange, Reloading, Merging, Installing, TableMissing, Goto, Loading,
     MustOpen, NextToOpen, Reuse, history, shared
<1> QED BY <1>1, <1>2, <1>3, <1>4 DEF TypeOK

\* Reload reading the list again keeps the types.
LEMMA RecheckTypes ==
  ASSUME TypeOK, ControlOK, NEW p \in Proc, Recheck(p)
  PROVE  TypeOK' /\ ReturnOK(p)' /\ RangeOK(p)'
<1>0. ret[p] \in {"open", "plain", "auto", "scan", "compact"}
  BY DEF ControlOK, ReturnOK, Recheck, Reloading
<1>a. AfterFailure[ret[p]] \in Labels
  BY <1>0, ReturnLabels DEF Labels
<1>1. FilesOK' /\ HistoryOK'
  BY DEF TypeOK, FilesOK, HistoryOK, Recheck, shared, history
<1>2. StacksOK'
  BY <1>a, EndReloadTypes DEF Recheck, TypeOK, StacksOK
<1>3. CallsOK'
  BY <1>a, EndReloadTypes DEF Recheck, Goto, Labels, TypeOK, CallsOK
<1>4. ReturnOK(p)' /\ RangeOK(p)'
  BY DEF TypeOK, StacksOK, CallsOK, ControlOK, ReturnOK, RangeOK, EmptyRange,
     StackRange, Reloading, Merging, Installing, Recheck, AfterFailure,
     EndReload, Goto, NoLoad, Return, history, shared
<1> QED BY <1>1, <1>2, <1>3, <1>4 DEF TypeOK

\* ReloadOnce installing the new readers keeps the types.
LEMMA SwapTypes ==
  ASSUME TypeOK, ControlOK, NEW p \in Proc, Swap(p)
  PROVE  TypeOK' /\ ReturnOK(p)' /\ RangeOK(p)'
<1>0. AfterReload[ret[p]] \in Labels
  BY ReturnLabels DEF ControlOK, ReturnOK, Swap, Reloading, Labels
<1>1. FilesOK'
  BY DEF TypeOK, FilesOK, StacksOK, CallsOK, Swap, AfterReload, Dropped,
     EndReload, Goto, NoLoad, Return, Reuse, Without
<1>2. StacksOK'
  BY DEF TypeOK, FilesOK, StacksOK, HistoryOK, Loads, Swap, AfterReload,
     Dropped, EndReload, Goto, NoLoad, Return, Reuse, Without
<1>3. CallsOK'
  BY <1>0, EndReloadTypes DEF Swap, TypeOK, CallsOK
<1>4. HistoryOK'
  BY LoadFields DEF Swap, TypeOK, HistoryOK
<1>5. ReturnOK(p)' /\ RangeOK(p)'
  BY DEF TypeOK, StacksOK, CallsOK, ControlOK, ReturnOK, RangeOK, EmptyRange,
     StackRange, Reloading, Merging, Installing, Swap, AfterReload, Dropped,
     EndReload, Goto, NoLoad, Return, Reuse, Without
<1> QED BY <1>1, <1>2, <1>3, <1>4, <1>5 DEF TypeOK

\* The up-to-date check of NewAddition keeps the types.
LEMMA CheckLockedTypes ==
  ASSUME TypeOK, ControlOK, NEW p \in Proc, CheckLocked(p)
  PROVE  TypeOK' /\ ReturnOK(p)' /\ RangeOK(p)'
<1>1. FilesOK' /\ StacksOK'
  BY DEF TypeOK, FilesOK, StacksOK, CheckLocked, shared
<1>2. CallsOK'
  BY DEF TypeOK, CallsOK, Labels, Returns, CheckLocked, Goto, MayAdd, Return,
     StartReload, UpToDate, shared
<1>3. HistoryOK'
  BY DEF TypeOK, HistoryOK, CheckLocked, Goto, MayAdd, Return, StartReload,
     UpToDate, shared
<1>4. ReturnOK(p)' /\ RangeOK(p)'
  BY DEF TypeOK, StacksOK, CallsOK, ControlOK, ReturnOK, RangeOK, EmptyRange,
     StackRange, Reloading, Merging, Installing, CheckLocked, Goto, MayAdd,
     Return, StartReload, UpToDate, shared
<1> QED BY <1>1, <1>2, <1>3, <1>4 DEF TypeOK

\* Addition.Add keeps the types.
LEMMA AddTableTypes ==
  ASSUME TypeOK, ControlOK, NEW p \in Proc, AddTable(p)
  PROVE  TypeOK' /\ ReturnOK(p)' /\ RangeOK(p)'
<1> DEFINE Added(x, b) ==
      /\ dir' = With(x, b)
      /\ \/ newt' = [newt EXCEPT ![p] = Append(@, [name |-> x, recs |-> b])]
            /\ UNCHANGED <<pc, ret>>
         \/ /\ Faults
            /\ Goto(p, "adclose") /\ Return(p, "none")
            /\ UNCHANGED newt
<1>c. PICK lo \in Nat, hi \in Nat : \E x \in NewNames(lo, hi), b \in Batches : Added(x, b)
  BY AddedTable
<1>a. PICK x \in NewNames(lo, hi), b \in Batches : Added(x, b)
  BY <1>c
<1>b. x \in TableName /\ b \in Contents
  BY NamesAreFresh, BatchAssumption
<1>1. StacksOK' /\ HistoryOK'
  BY DEF TypeOK, StacksOK, HistoryOK, AddTable, history
<1>2. FilesOK'
  BY <1>a, <1>b DEF TypeOK, FilesOK, AddTable, With
<1>3. CallsOK'
  <2> DEFINE new == [name |-> x, recs |-> b]
  <2>1. new \in Reader
    BY <1>b DEF Reader
  <2>2. \/ newt' = [newt EXCEPT ![p] = Append(@, new)] /\ UNCHANGED <<pc, ret>>
        \/ Goto(p, "adclose") /\ Return(p, "none") /\ UNCHANGED newt
    BY <1>a
  <2> HIDE DEF new
  <2>5. Append(newt[p], new) \in Seq(Reader)
    BY <2>1, StackNames
  <2>3. newt' \in [Proc -> Seq(Reader)]
    BY <2>2, <2>5 DEF TypeOK, CallsOK
  <2>4. pc' \in [Proc -> Labels] /\ ret' \in [Proc -> Returns]
    BY <2>2 DEF Goto, Return, Labels, Returns, TypeOK, CallsOK
  <2> QED BY <2>3, <2>4 DEF AddTable, TypeOK, CallsOK
<1>4. ReturnOK(p)' /\ RangeOK(p)'
  BY DEF TypeOK, StacksOK, CallsOK, ControlOK, ReturnOK, RangeOK, EmptyRange,
     StackRange, Reloading, Merging, Installing, AddTable, Goto, NewNames,
     NextIndex, Return, With, history
<1> QED BY <1>1, <1>2, <1>3, <1>4 DEF TypeOK

\* An addition that is given up keeps the types.
LEMMA AbandonTypes ==
  ASSUME TypeOK, ControlOK, NEW p \in Proc, Abandon(p)
  PROVE  TypeOK' /\ ReturnOK(p)' /\ RangeOK(p)'
<1>1. FilesOK' /\ StacksOK' /\ HistoryOK'
  BY DEF TypeOK, FilesOK, StacksOK, HistoryOK, Abandon, shared, history
<1>2. CallsOK'
  BY DEF TypeOK, CallsOK, Labels, Returns, Abandon, Goto, Return, history,
     shared
<1>3. ReturnOK(p)' /\ RangeOK(p)'
  BY DEF TypeOK, StacksOK, CallsOK, ControlOK, ReturnOK, RangeOK, EmptyRange,
     StackRange, Reloading, Merging, Installing, Abandon, Goto, Return,
     history, shared
<1> QED BY <1>1, <1>2, <1>3 DEF TypeOK

\* The commit of an empty addition keeps the types.
LEMMA CommitNothingTypes ==
  ASSUME TypeOK, ControlOK, NEW p \in Proc, CommitNothing(p)
  PROVE  TypeOK' /\ ReturnOK(p)' /\ RangeOK(p)'
<1>1. FilesOK' /\ StacksOK' /\ HistoryOK'
  BY DEF TypeOK, FilesOK, StacksOK, HistoryOK, CommitNothing, shared, history
<1>2. CallsOK'
  BY DEF TypeOK, CallsOK, Labels, Returns, CommitNothing, Goto, Return,
     history, shared
<1>3. ReturnOK(p)' /\ RangeOK(p)'
  BY DEF TypeOK, StacksOK, CallsOK, ControlOK, ReturnOK, RangeOK, EmptyRange,
     StackRange, Reloading, Merging, Installing, CommitNothing, Goto, Return,
     history, shared
<1> QED BY <1>1, <1>2, <1>3 DEF TypeOK

\* Commit writing the lock file keeps the types.
LEMMA CommitWriteTypes ==
  ASSUME TypeOK, ControlOK, NEW p \in Proc, CommitWrite(p)
  PROVE  TypeOK' /\ ReturnOK(p)' /\ RangeOK(p)'
<1>1. StacksOK' /\ HistoryOK'
  BY DEF TypeOK, StacksOK, HistoryOK, CommitWrite, history
<1>2. FilesOK'
  <2>1. NamesOf(st[p]) \o NamesOf(newt[p]) \in Seq(TableName)
    BY StackNames, ConcatProperties
  <2> QED BY <2>1, WriteLockTypes DEF CommitWrite, TypeOK, FilesOK
<1>3. CallsOK'
  BY DEF TypeOK, CallsOK, Labels, Returns, CommitWrite, Goto, Return,
     WriteLock, history
<1>4. ReturnOK(p)' /\ RangeOK(p)'
  BY DEF TypeOK, StacksOK, CallsOK, ControlOK, ReturnOK, RangeOK, EmptyRange,
     StackRange, Reloading, Merging, Installing, CommitWrite, Goto, Return,
     WriteLock, history
<1> QED BY <1>1, <1>2, <1>3, <1>4 DEF TypeOK

\* Commit renaming the lock file keeps the types.
LEMMA CommitRenameTypes ==
  ASSUME TypeOK, ControlOK, NEW p \in Proc, CommitRename(p)
  PROVE  TypeOK' /\ ReturnOK(p)' /\ RangeOK(p)'
<1>1. StacksOK'
  BY DEF TypeOK, StacksOK, CommitRename
<1>2. FilesOK'
  BY DEF TypeOK, FilesOK, StacksOK, CallsOK, CommitRename, Committed,
     FdsAfterRename, Goto, Rename, RenameLock, Return, StartReload
<1>3. CallsOK'
  BY DEF TypeOK, CallsOK, Labels, Returns, CommitRename, Committed,
     FdsAfterRename, Goto, Rename, RenameLock, Return, StartReload
<1>4. HistoryOK'
  <2>1. hist[Len(hist)] \in Database
    BY EmptySeq DEF TypeOK, HistoryOK
  <2>2. Overlay(hist[Len(hist)], RecsOf(newt[p])) \in Database
    BY <2>1, StackNames, OverlayType
  <2>3. hist' \in Seq(Database) /\ hist' # <<>>
    BY <2>2 DEF TypeOK, HistoryOK, CommitRename, Committed
  <2> QED BY <2>3 DEF TypeOK, HistoryOK, CommitRename
<1>5. ReturnOK(p)' /\ RangeOK(p)'
  BY DEF TypeOK, StacksOK, CallsOK, ControlOK, ReturnOK, RangeOK, EmptyRange,
     StackRange, Reloading, Merging, Installing, CommitRename, Committed,
     FdsAfterRename, Goto, Rename, RenameLock, Return, StartReload
<1> QED BY <1>1, <1>2, <1>3, <1>4, <1>5 DEF TypeOK

\* A commit whose directory cannot be synced keeps the types.
LEMMA CommitSyncFailsTypes ==
  ASSUME TypeOK, ControlOK, NEW p \in Proc, CommitSyncFails(p)
  PROVE  TypeOK' /\ ReturnOK(p)' /\ RangeOK(p)'
<1>1. StacksOK'
  BY DEF TypeOK, StacksOK, CommitSyncFails
<1>2. FilesOK'
  BY DEF TypeOK, FilesOK, StacksOK, CallsOK, CommitSyncFails, Committed,
     FdsAfterRename, Goto, Rename, RenameLock, Return
<1>3. CallsOK'
  BY DEF TypeOK, CallsOK, Labels, Returns, CommitSyncFails, Committed,
     FdsAfterRename, Goto, Rename, RenameLock, Return
<1>4. HistoryOK'
  <2>1. hist[Len(hist)] \in Database
    BY EmptySeq DEF TypeOK, HistoryOK
  <2>2. Overlay(hist[Len(hist)], RecsOf(newt[p])) \in Database
    BY <2>1, StackNames, OverlayType
  <2>3. hist' \in Seq(Database) /\ hist' # <<>>
    BY <2>2 DEF TypeOK, HistoryOK, CommitSyncFails, Committed
  <2> QED BY <2>3 DEF TypeOK, HistoryOK, CommitSyncFails
<1>5. ReturnOK(p)' /\ RangeOK(p)'
  BY DEF TypeOK, StacksOK, CallsOK, ControlOK, ReturnOK, RangeOK, EmptyRange,
     StackRange, Reloading, Merging, Installing, CommitSyncFails, Committed,
     FdsAfterRename, Goto, Rename, RenameLock, Return
<1> QED BY <1>1, <1>2, <1>3, <1>4, <1>5 DEF TypeOK

\* A commit whose rename fails keeps the types.
LEMMA CommitRenameFailsTypes ==
  ASSUME TypeOK, ControlOK, NEW p \in Proc, CommitRenameFails(p)
  PROVE  TypeOK' /\ ReturnOK(p)' /\ RangeOK(p)'
<1>1. FilesOK' /\ StacksOK' /\ HistoryOK'
  BY DEF TypeOK, FilesOK, StacksOK, HistoryOK, CommitRenameFails, shared,
     history
<1>2. CallsOK'
  BY DEF TypeOK, CallsOK, Labels, Returns, CommitRenameFails, Goto,
     RenameFails, Return, history, shared
<1>3. ReturnOK(p)' /\ RangeOK(p)'
  BY DEF TypeOK, StacksOK, CallsOK, ControlOK, ReturnOK, RangeOK, EmptyRange,
     StackRange, Reloading, Merging, Installing, CommitRenameFails, Goto,
     RenameFails, Return, history, shared
<1> QED BY <1>1, <1>2, <1>3 DEF TypeOK

\* Addition.Close keeps the types.
LEMMA AdditionCloseTypes ==
  ASSUME TypeOK, ControlOK, NEW p \in Proc, AdditionClose(p)
  PROVE  TypeOK' /\ ReturnOK(p)' /\ RangeOK(p)'
<1>1. StacksOK' /\ HistoryOK'
  BY DEF TypeOK, StacksOK, HistoryOK, AdditionClose, history
<1>2. FilesOK'
  BY DEF TypeOK, FilesOK, StacksOK, CallsOK, AdditionClose, AfterClose,
     CloseLock, Discarded, FdsAfterUnlink, Goto, Return, UnlinkLock, Without,
     history
<1>3. CallsOK'
  <2>1. AfterClose[ret[p]] \in Labels
    BY ReturnLabels DEF ControlOK, ReturnOK, AdditionClose, Labels
  <2>2. pc' \in [Proc -> Labels] /\ ret' \in [Proc -> Returns]
    BY <2>1 DEF AdditionClose, Goto, Return, Returns, TypeOK, CallsOK
  <2> QED BY <2>2, LockTypes, EmptySeq DEF AdditionClose, TypeOK, CallsOK
<1>4. ReturnOK(p)' /\ RangeOK(p)'
  BY DEF TypeOK, StacksOK, CallsOK, ControlOK, ReturnOK, RangeOK, EmptyRange,
     StackRange, Reloading, Merging, Installing, AdditionClose, AfterClose,
     CloseLock, Discarded, FdsAfterUnlink, Goto, Return, UnlinkLock, Without,
     history
<1> QED BY <1>1, <1>2, <1>3, <1>4 DEF TypeOK

\* Clean removing old tables keeps the types.
LEMMA ScanTypes ==
  ASSUME TypeOK, ControlOK, NEW p \in Proc, Scan(p)
  PROVE  TypeOK' /\ ReturnOK(p)' /\ RangeOK(p)'
<1>1. StacksOK' /\ HistoryOK'
  BY DEF TypeOK, StacksOK, HistoryOK, Scan, history
<1>2. FilesOK'
  BY DEF TypeOK, FilesOK, StacksOK, CallsOK, Scan, Goto, Without, history
<1>3. CallsOK'
  BY DEF TypeOK, CallsOK, Labels, Returns, Scan, Goto, Without, history
<1>4. ReturnOK(p)' /\ RangeOK(p)'
  BY DEF TypeOK, StacksOK, CallsOK, ControlOK, ReturnOK, RangeOK, EmptyRange,
     StackRange, Reloading, Merging, Installing, Scan, Goto, Without, history
<1> QED BY <1>1, <1>2, <1>3, <1>4 DEF TypeOK

\* Clean on an empty stack keeps the types.
LEMMA ScanPanicsTypes ==
  ASSUME TypeOK, ControlOK, NEW p \in Proc, ScanPanics(p)
  PROVE  TypeOK' /\ ReturnOK(p)' /\ RangeOK(p)'
<1>1. FilesOK'
  BY DEF TypeOK, FilesOK, StacksOK, CallsOK, ScanPanics, FdsAfterUnlink,
     Forget, Goto, NoJob, NoLoad, Return, UnlinkLock
<1>2. StacksOK'
  BY DEF TypeOK, FilesOK, StacksOK, HistoryOK, Loads, ScanPanics,
     FdsAfterUnlink, Forget, Goto, NoJob, NoLoad, Return, UnlinkLock
<1>3. CallsOK'
  BY DEF TypeOK, CallsOK, Labels, Returns, Jobs, ScanPanics, FdsAfterUnlink,
     Forget, Goto, NoJob, NoLoad, Return, UnlinkLock
<1>4. HistoryOK'
  BY DEF TypeOK, HistoryOK, ScanPanics, FdsAfterUnlink, Forget, Goto, NoJob,
     NoLoad, Return, UnlinkLock
<1>5. ReturnOK(p)' /\ RangeOK(p)'
  BY DEF TypeOK, StacksOK, CallsOK, ControlOK, ReturnOK, RangeOK, EmptyRange,
     StackRange, Reloading, Merging, Installing, ScanPanics, FdsAfterUnlink,
     Forget, Goto, NoJob, NoLoad, Return, UnlinkLock, Jobs
<1> QED BY <1>1, <1>2, <1>3, <1>4, <1>5 DEF TypeOK

\* AutoCompact keeps the types.
LEMMA AutoCompactTypes ==
  ASSUME TypeOK, ControlOK, NEW p \in Proc, AutoCompact(p)
  PROVE  TypeOK' /\ ReturnOK(p)' /\ RangeOK(p)'
<1>1. CASE Goto(p, "idle") /\ UNCHANGED <<lockFile, fdAt, lock, job>>
  <2>1. FilesOK' /\ StacksOK' /\ HistoryOK'
    BY <1>1 DEF AutoCompact, history, TypeOK, FilesOK, StacksOK, HistoryOK
  <2>2. CallsOK'
    BY <1>1 DEF AutoCompact, Goto, Labels, TypeOK, CallsOK
  <2>3. ReturnOK(p)' /\ RangeOK(p)'
    BY <1>1 DEF Goto, ReturnOK, RangeOK, Reloading, Merging, Installing, TypeOK, CallsOK
  <2> QED BY <2>1, <2>2, <2>3 DEF TypeOK
<1>2. ASSUME NEW first \in 1..Len(st[p]), NEW last \in 1..Len(st[p]), first < last,
             LockForCompaction(p, first, last, FALSE)
      PROVE  TypeOK' /\ ReturnOK(p)' /\ RangeOK(p)'
  <2>1. last \in first..Len(st[p]) /\ first \in Nat /\ last \in Nat
    BY <1>2
  <2> QED BY <1>2, <2>1, LockForCompactionTypes DEF AutoCompact
<1> QED BY <1>1, <1>2 DEF AutoCompact

\* The up-to-date check of compactRange keeps the types.
LEMMA CompactionCheckTypes ==
  ASSUME TypeOK, ControlOK, NEW p \in Proc, CompactionCheck(p)
  PROVE  TypeOK' /\ ReturnOK(p)' /\ RangeOK(p)'
<1>1. FilesOK' /\ StacksOK' /\ HistoryOK'
  BY DEF TypeOK, FilesOK, StacksOK, HistoryOK, CompactionCheck, shared,
     history
<1>2. CallsOK'
  BY DEF TypeOK, CallsOK, Labels, Returns, CompactionCheck, Goto, UpToDate,
     history, shared
<1>3. ReturnOK(p)' /\ RangeOK(p)'
  BY DEF TypeOK, StacksOK, CallsOK, ControlOK, ReturnOK, RangeOK, EmptyRange,
     StackRange, Reloading, Merging, Installing, CompactionCheck, Goto,
     UpToDate, history, shared
<1> QED BY <1>1, <1>2, <1>3 DEF TypeOK

\* The lock on one table of the range keeps the types.
LEMMA LockTableTypes ==
  ASSUME TypeOK, ControlOK, NEW p \in Proc, LockTable(p)
  PROVE  TypeOK' /\ ReturnOK(p)' /\ RangeOK(p)'
<1> DEFINE new == st[p][job[p].next].name
<1>0. /\ pc[p] = "cpsub" /\ job[p].next <= job[p].last
      /\ UNCHANGED <<dir, list, lockFile, fdAt, st, closed, load, ret, lock, newt,
                     call, crashes, history>>
      /\ \/ /\ tlocks' = tlocks \cup {new}
            /\ job' = [job EXCEPT ![p].old = @ \cup {new}, ![p].next = @ + 1]
            /\ UNCHANGED pc
         \/ Goto(p, "cpdone") /\ UNCHANGED <<tlocks, job>>
  BY DEF LockTable
<1>a. StackRange(p)
  BY <1>0 DEF ControlOK, RangeOK, Merging, EmptyRange
<1>b. job[p].next \in 1..Len(st[p])
  BY <1>0, <1>a, JobFields, StackNames DEF StackRange
<1>c. new \in TableName
  BY <1>b, StackNames, ReaderFields
<1> HIDE DEF new
<1>d. \/ /\ job' \in [Proc -> Jobs] /\ pc' = pc
         /\ job'[p].first = job[p].first /\ job'[p].last = job[p].last
         /\ job'[p].next = job[p].next + 1
      \/ job' = job /\ Goto(p, "cpdone")
  <2>1. CASE job' = [job EXCEPT ![p].old = @ \cup {new}, ![p].next = @ + 1]
    <3> DEFINE o == job[p].old \cup {new}
               k == job[p].next + 1
               j == [job[p] EXCEPT !.old = o, !.next = k]
    <3>1. o \in SUBSET TableName /\ k \in Nat
      BY <1>c, JobFields
    <3>2. job' = [job EXCEPT ![p] = j]
      BY <2>1 DEF TypeOK, CallsOK
    <3> HIDE DEF o, k
    <3>3. j \in Jobs /\ j.first = job[p].first /\ j.last = job[p].last /\ j.next = k
      BY <3>1, JobFields DEF Jobs
    <3> HIDE DEF j
    <3>4. job' \in [Proc -> Jobs] /\ job'[p] = j
      BY <3>2, <3>3 DEF TypeOK, CallsOK
    <3> QED BY <3>3, <3>4, <2>1, <1>0 DEF k, Goto
  <2> QED BY <2>1, <1>0
<1>1. StacksOK' /\ HistoryOK'
  BY DEF TypeOK, StacksOK, HistoryOK, LockTable, history
<1>2. FilesOK'
  BY <1>0, <1>c DEF TypeOK, FilesOK
<1>3. CallsOK'
  BY <1>0, <1>d DEF Goto, Labels, TypeOK, CallsOK
<1>4. ReturnOK(p)' /\ RangeOK(p)'
  BY <1>0, <1>a, <1>d, JobFields
     DEF Goto, StackRange, ReturnOK, RangeOK, Reloading, Merging, Installing,
         TypeOK, CallsOK
<1> QED BY <1>1, <1>2, <1>3, <1>4 DEF TypeOK

\* The list unlocked for the merge keeps the types.
LEMMA UnlockForMergeTypes ==
  ASSUME TypeOK, ControlOK, NEW p \in Proc, UnlockForMerge(p)
  PROVE  TypeOK' /\ ReturnOK(p)' /\ RangeOK(p)'
<1>1. StacksOK' /\ HistoryOK'
  BY DEF TypeOK, StacksOK, HistoryOK, UnlockForMerge, history
<1>2. FilesOK'
  BY DEF TypeOK, FilesOK, StacksOK, CallsOK, UnlockForMerge, CloseLock,
     FdsAfterUnlink, Goto, UnlinkLock, history
<1>3. CallsOK'
  BY DEF TypeOK, CallsOK, Labels, Returns, UnlockForMerge, CloseLock,
     FdsAfterUnlink, Goto, UnlinkLock, history
<1>4. ReturnOK(p)' /\ RangeOK(p)'
  BY DEF TypeOK, StacksOK, CallsOK, ControlOK, ReturnOK, RangeOK, EmptyRange,
     StackRange, Reloading, Merging, Installing, UnlockForMerge, CloseLock,
     FdsAfterUnlink, Goto, UnlinkLock, history
<1> QED BY <1>1, <1>2, <1>3, <1>4 DEF TypeOK

\* A merge that fails keeps the types.
LEMMA MergeFailsTypes ==
  ASSUME TypeOK, ControlOK, NEW p \in Proc, MergeFails(p)
  PROVE  TypeOK' /\ ReturnOK(p)' /\ RangeOK(p)'
<1>1. FilesOK' /\ StacksOK' /\ HistoryOK'
  BY DEF TypeOK, FilesOK, StacksOK, HistoryOK, MergeFails, shared, history
<1>2. CallsOK'
  BY DEF TypeOK, CallsOK, Labels, Returns, MergeFails, Goto, Return,
     Unreadable, history, shared
<1>3. ReturnOK(p)' /\ RangeOK(p)'
  BY DEF TypeOK, StacksOK, CallsOK, ControlOK, ReturnOK, RangeOK, EmptyRange,
     StackRange, Reloading, Merging, Installing, MergeFails, Goto, Return,
     Unreadable, history, shared
<1> QED BY <1>1, <1>2, <1>3 DEF TypeOK

\* The list locked again after the merge keeps the types.
LEMMA RelockTypes ==
  ASSUME TypeOK, ControlOK, NEW p \in Proc, Relock(p)
  PROVE  TypeOK' /\ ReturnOK(p)' /\ RangeOK(p)'
<1>1. StacksOK' /\ HistoryOK'
  BY DEF TypeOK, StacksOK, HistoryOK, Relock, history
<1>2. FilesOK'
  BY LockTypes DEF Relock, TypeOK, FilesOK
<1>3. CallsOK'
  <2>1. [job[p] EXCEPT !.relocked = TRUE] \in Jobs
    BY JobFields DEF Jobs
  <2>2. job' \in [Proc -> Jobs]
    BY <2>1 DEF Relock, TypeOK, CallsOK
  <2>3. pc' \in [Proc -> Labels] /\ ret' \in [Proc -> Returns]
    BY DEF Relock, Goto, Return, Labels, Returns, TypeOK, CallsOK
  <2> QED BY <2>2, <2>3, LockTypes DEF Relock, TypeOK, CallsOK
<1>4. ReturnOK(p)' /\ RangeOK(p)'
  BY DEF TypeOK, StacksOK, CallsOK, ControlOK, ReturnOK, RangeOK, EmptyRange,
     StackRange, Reloading, Merging, Installing, Relock, CreateLock, Goto,
     Return, TakeLock, Unreadable, history, Jobs
<1> QED BY <1>1, <1>2, <1>3, <1>4 DEF TypeOK

\* The merged table renamed into place keeps the types.
LEMMA InstallTypes ==
  ASSUME TypeOK, ControlOK, NEW p \in Proc, Install(p)
  PROVE  TypeOK' /\ ReturnOK(p)' /\ RangeOK(p)'
<1> DEFINE first == job[p].first
           last == job[p].last
           recs == CompactedRecs(st[p], first, last)
<1>0. first \in 1..Len(st[p]) /\ last \in first..Len(st[p]) /\ last \in 1..Len(st[p])
  BY JobFields DEF Install, ControlOK, RangeOK, Installing, StackRange
<1>a. recs \in Contents
  BY <1>0, StackNames, CompactedType
<1>b. st[p][first].name.min \in Nat /\ st[p][last].name.max \in Nat
  BY <1>0, StackNames, ReaderFields
<1>c. \/ pc' \in {[pc EXCEPT ![p] = "cpwrite"], [pc EXCEPT ![p] = "cpdone"]}
         /\ UNCHANGED <<dir, job>>
      \/ \E x \in NewNames(st[p][first].name.min, st[p][last].name.max) :
           /\ dir' = With(x, recs)
           /\ \/ job' = [job EXCEPT ![p].new = x] /\ Goto(p, "cpwrite")
              \/ UNCHANGED job /\ Goto(p, "cpdone")
  BY DEF Install, Goto
<1> HIDE DEF recs
<1>d. \/ UNCHANGED dir
      \/ \E x \in TableName : dir' = With(x, recs)
  BY <1>b, <1>c, NamesAreFresh
<1>e. \/ UNCHANGED job
      \/ \E x \in TableName : job' = [job EXCEPT ![p].new = x]
  BY <1>b, <1>c, NamesAreFresh
<1>1. StacksOK' /\ HistoryOK'
  BY DEF TypeOK, StacksOK, HistoryOK, Install, history
<1>2. FilesOK'
  BY <1>a, <1>d DEF Install, With, TypeOK, FilesOK
<1>3. CallsOK'
  <2>3. ASSUME NEW x \in TableName PROVE [job[p] EXCEPT !.new = x] \in Jobs
    BY JobFields DEF Jobs
  <2>1. job' \in [Proc -> Jobs]
    BY <1>e, <2>3 DEF TypeOK, CallsOK
  <2> QED BY <1>c, <2>1 DEF Install, Goto, Labels, TypeOK, CallsOK
<1>4. ReturnOK(p)' /\ RangeOK(p)'
  <2>1. /\ job'[p].first = job[p].first /\ job'[p].last = job[p].last
        /\ job'[p].next = job[p].next
    BY <1>e DEF TypeOK, CallsOK, Jobs
  <2>2. pc'[p] \in {"cpwrite", "cpdone"} /\ st' = st /\ pc[p] = "install"
    BY <1>c DEF Install, Goto, TypeOK, CallsOK
  <2> QED BY <2>1, <2>2
          DEF ControlOK, ReturnOK, RangeOK, StackRange, Reloading, Merging, Installing
<1> QED BY <1>1, <1>2, <1>3, <1>4 DEF TypeOK

\* The list of a compaction being written keeps the types.
LEMMA CompactionWriteTypes ==
  ASSUME TypeOK, ControlOK, NEW p \in Proc, CompactionWrite(p)
  PROVE  TypeOK' /\ ReturnOK(p)' /\ RangeOK(p)'
<1>1. StacksOK' /\ HistoryOK'
  BY DEF TypeOK, StacksOK, HistoryOK, CompactionWrite, history
<1>2. FilesOK'
  <2>1. StackRange(p)
    BY DEF ControlOK, RangeOK, CompactionWrite, Installing
  <2>2. Spliced(NamesOf(st[p]), job[p].first, job[p].last, Replacement(p))
          \in Seq(TableName)
    BY <2>1, StackNames, SplicedType DEF StackRange
  <2>3. list' \in Seq(TableName) /\ lockFile' \in Seq(TableName) \cup {NoFile}
    BY <2>2, WriteLockTypes DEF CompactionWrite, TypeOK, FilesOK
  <2>4. DOMAIN dir' \subseteq TableName /\ \A x \in DOMAIN dir' : dir'[x] \in Contents
    BY WithoutTypes DEF CompactionWrite
  <2> QED BY <2>3, <2>4 DEF CompactionWrite, TypeOK, FilesOK
<1>3. CallsOK'
  BY DEF TypeOK, CallsOK, Labels, Returns, CompactionWrite, Goto, RemoveHere,
     Replacement, Without, WriteLock, history
<1>4. ReturnOK(p)' /\ RangeOK(p)'
  BY DEF TypeOK, StacksOK, CallsOK, ControlOK, ReturnOK, RangeOK, EmptyRange,
     StackRange, Reloading, Merging, Installing, CompactionWrite, Goto,
     RemoveHere, Replacement, Without, WriteLock, history
<1> QED BY <1>1, <1>2, <1>3, <1>4 DEF TypeOK

\* The list of a compaction being renamed keeps the types.
LEMMA CompactionRenameTypes ==
  ASSUME TypeOK, ControlOK, NEW p \in Proc, CompactionRename(p)
  PROVE  TypeOK' /\ ReturnOK(p)' /\ RangeOK(p)'
<1>1. StacksOK' /\ HistoryOK'
  BY DEF TypeOK, StacksOK, HistoryOK, CompactionRename, history
<1>2. FilesOK'
  BY DEF TypeOK, FilesOK, StacksOK, CallsOK, CompactionRename, FdsAfterRename,
     Goto, RemoveHere, Rename, RenameLock, Without, history
<1>3. CallsOK'
  BY DEF TypeOK, CallsOK, Labels, Returns, CompactionRename, FdsAfterRename,
     Goto, RemoveHere, Rename, RenameLock, Without, history
<1>4. ReturnOK(p)' /\ RangeOK(p)'
  BY DEF TypeOK, StacksOK, CallsOK, ControlOK, ReturnOK, RangeOK, EmptyRange,
     StackRange, Reloading, Merging, Installing, CompactionRename,
     FdsAfterRename, Goto, RemoveHere, Rename, RenameLock, Without, history
<1> QED BY <1>1, <1>2, <1>3, <1>4 DEF TypeOK

\* A compaction whose rename fails keeps the types.
LEMMA CompactionRenameFailsTypes ==
  ASSUME TypeOK, ControlOK, NEW p \in Proc, CompactionRenameFails(p)
  PROVE  TypeOK' /\ ReturnOK(p)' /\ RangeOK(p)'
<1>1. StacksOK' /\ HistoryOK'
  BY DEF TypeOK, StacksOK, HistoryOK, CompactionRenameFails, history
<1>2. FilesOK'
  BY DEF TypeOK, FilesOK, StacksOK, CallsOK, CompactionRenameFails, Goto,
     RemoveHere, RenameFails, Without, history
<1>3. CallsOK'
  BY DEF TypeOK, CallsOK, Labels, Returns, CompactionRenameFails, Goto,
     RemoveHere, RenameFails, Without, history
<1>4. ReturnOK(p)' /\ RangeOK(p)'
  BY DEF TypeOK, StacksOK, CallsOK, ControlOK, ReturnOK, RangeOK, EmptyRange,
     StackRange, Reloading, Merging, Installing, CompactionRenameFails, Goto,
     RemoveHere, RenameFails, Without, history
<1> QED BY <1>1, <1>2, <1>3, <1>4 DEF TypeOK

\* The removal of compacted tables keeps the types.
LEMMA DeleteCompactedTypes ==
  ASSUME TypeOK, ControlOK, NEW p \in Proc, DeleteCompacted(p)
  PROVE  TypeOK' /\ ReturnOK(p)' /\ RangeOK(p)'
<1>1. StacksOK' /\ HistoryOK'
  BY DEF TypeOK, StacksOK, HistoryOK, DeleteCompacted, history
<1>2. FilesOK'
  BY DEF TypeOK, FilesOK, StacksOK, CallsOK, DeleteCompacted, Goto,
     RemoveHere, Return, StartReload, Without, history
<1>3. CallsOK'
  BY DEF TypeOK, CallsOK, Labels, Returns, DeleteCompacted, Goto, RemoveHere,
     Return, StartReload, Without, history
<1>4. ReturnOK(p)' /\ RangeOK(p)'
  BY DEF TypeOK, StacksOK, CallsOK, ControlOK, ReturnOK, RangeOK, EmptyRange,
     StackRange, Reloading, Merging, Installing, DeleteCompacted, Goto,
     RemoveHere, Return, StartReload, Without, history
<1> QED BY <1>1, <1>2, <1>3, <1>4 DEF TypeOK

\* The release of the locks on tables keeps the types.
LEMMA CompactionDoneTypes ==
  ASSUME TypeOK, ControlOK, NEW p \in Proc, CompactionDone(p)
  PROVE  TypeOK' /\ ReturnOK(p)' /\ RangeOK(p)'
<1>1. StacksOK' /\ HistoryOK'
  BY DEF TypeOK, StacksOK, HistoryOK, CompactionDone, history
<1>2. FilesOK'
  BY DEF TypeOK, FilesOK, StacksOK, CallsOK, CompactionDone, CloseLock,
     FdsAfterUnlink, Goto, LocksToClose, UnlinkLock, history
<1>3. CallsOK'
  BY LockTypes DEF CompactionDone, Goto, Labels, TypeOK, CallsOK
<1>4. ReturnOK(p)' /\ RangeOK(p)'
  BY DEF TypeOK, StacksOK, CallsOK, ControlOK, ReturnOK, RangeOK, EmptyRange,
     StackRange, Reloading, Merging, Installing, CompactionDone, CloseLock,
     FdsAfterUnlink, Goto, LocksToClose, UnlinkLock, history
<1> QED BY <1>1, <1>2, <1>3, <1>4 DEF TypeOK

\* The end of compactRange keeps the types.
LEMMA CompactionEndTypes ==
  ASSUME TypeOK, ControlOK, NEW p \in Proc, CompactionEnd(p)
  PROVE  TypeOK' /\ ReturnOK(p)' /\ RangeOK(p)'
<1>1. StacksOK' /\ HistoryOK'
  BY DEF TypeOK, StacksOK, HistoryOK, CompactionEnd, history
<1>2. FilesOK'
  BY DEF TypeOK, FilesOK, StacksOK, CallsOK, CompactionEnd, CloseLock,
     FdsAfterUnlink, Goto, NoJob, UnlinkLock, history
<1>3. CallsOK'
  BY DEF TypeOK, CallsOK, Labels, Returns, Jobs, CompactionEnd, CloseLock,
     FdsAfterUnlink, Goto, NoJob, UnlinkLock, history
<1>4. ReturnOK(p)' /\ RangeOK(p)'
  BY DEF TypeOK, StacksOK, CallsOK, ControlOK, ReturnOK, RangeOK, EmptyRange,
     StackRange, Reloading, Merging, Installing, CompactionEnd, CloseLock,
     FdsAfterUnlink, Goto, NoJob, UnlinkLock, history, Jobs
<1> QED BY <1>1, <1>2, <1>3, <1>4 DEF TypeOK

\* A compaction that panics keeps the types.
LEMMA CompactionPanicsTypes ==
  ASSUME TypeOK, ControlOK, NEW p \in Proc, CompactionPanics(p)
  PROVE  TypeOK' /\ ReturnOK(p)' /\ RangeOK(p)'
<1>1. FilesOK'
  BY DEF TypeOK, FilesOK, StacksOK, CallsOK, CompactionPanics, FdsAfterUnlink,
     Forget, Goto, NoJob, NoLoad, Return, UnlinkLock
<1>2. StacksOK'
  BY DEF TypeOK, FilesOK, StacksOK, HistoryOK, Loads, CompactionPanics,
     FdsAfterUnlink, Forget, Goto, NoJob, NoLoad, Return, UnlinkLock
<1>3. CallsOK'
  BY DEF TypeOK, CallsOK, Labels, Returns, Jobs, CompactionPanics,
     FdsAfterUnlink, Forget, Goto, NoJob, NoLoad, Return, UnlinkLock
<1>4. HistoryOK'
  BY DEF TypeOK, HistoryOK, CompactionPanics, FdsAfterUnlink, Forget, Goto,
     NoJob, NoLoad, Return, UnlinkLock
<1>5. ReturnOK(p)' /\ RangeOK(p)'
  BY DEF TypeOK, StacksOK, CallsOK, ControlOK, ReturnOK, RangeOK, EmptyRange,
     StackRange, Reloading, Merging, Installing, CompactionPanics,
     FdsAfterUnlink, Forget, Goto, NoJob, NoLoad, Return, UnlinkLock, Jobs
<1> QED BY <1>1, <1>2, <1>3, <1>4, <1>5 DEF TypeOK

\* NewStack keeps the types.
LEMMA OpenTypes ==
  ASSUME TypeOK, ControlOK, NEW p \in Proc, Open(p)
  PROVE  TypeOK' /\ ReturnOK(p)' /\ RangeOK(p)'
<1>1. FilesOK' /\ StacksOK' /\ HistoryOK'
  BY DEF TypeOK, FilesOK, StacksOK, HistoryOK, Open, shared, history
<1>2. CallsOK'
  BY DEF TypeOK, CallsOK, Labels, Returns, Open, Goto, Return, StartReload,
     history, shared
<1>3. ReturnOK(p)' /\ RangeOK(p)'
  BY DEF TypeOK, StacksOK, CallsOK, ControlOK, ReturnOK, RangeOK, EmptyRange,
     StackRange, Reloading, Merging, Installing, Open, Goto, Return,
     StartReload, history, shared
<1> QED BY <1>1, <1>2, <1>3 DEF TypeOK

\* An Add that finds the lock taken keeps the types.
LEMMA LockTakenTypes ==
  ASSUME TypeOK, ControlOK, NEW p \in Proc, LockTaken(p)
  PROVE  TypeOK' /\ ReturnOK(p)' /\ RangeOK(p)'
<1>1. FilesOK' /\ StacksOK' /\ HistoryOK'
  BY DEF TypeOK, FilesOK, StacksOK, HistoryOK, LockTaken, shared, history
<1>2. CallsOK'
  BY DEF TypeOK, CallsOK, Labels, Returns, LockTaken, Goto, Return,
     StartReload, history, shared
<1>3. ReturnOK(p)' /\ RangeOK(p)'
  BY DEF TypeOK, StacksOK, CallsOK, ControlOK, ReturnOK, RangeOK, EmptyRange,
     StackRange, Reloading, Merging, Installing, LockTaken, Goto, Return,
     StartReload, history, shared
<1> QED BY <1>1, <1>2, <1>3 DEF TypeOK

\* CompactAll keeps the types.
LEMMA CompactAllTypes ==
  ASSUME TypeOK, ControlOK, NEW p \in Proc, CompactAll(p)
  PROVE  TypeOK' /\ ReturnOK(p)' /\ RangeOK(p)'
<1> DEFINE len == Len(st[p])
<1>1. /\ len \in Nat
      /\ \/ 1 \in 1..len /\ len \in 1..len
         \/ st[p] = <<>> /\ len = 0
  BY StackNames, EmptySeq
<1>2. PICK expire \in BOOLEAN : LockForCompaction(p, 1, len, expire)
  BY DEF CompactAll
<1>3. /\ pc[p] = "idle"
      /\ UNCHANGED <<dir, list, tlocks, st, closed, load, ret, newt, call, crashes,
                     history>>
  BY DEF CompactAll
<1>4. 1 \in Nat
  OBVIOUS
<1> HIDE DEF len
<1>5. \/ 1 \in 1..Len(st[p]) /\ len \in 1..Len(st[p])
      \/ st[p] = <<>> /\ 1 = 1 /\ len = 0
  BY <1>1 DEF len
<1> QED BY <1>1, <1>2, <1>3, <1>4, <1>5, LockForCompactionTypes

\* Close reading the list keeps the types.
LEMMA CloseTypes ==
  ASSUME TypeOK, ControlOK, NEW p \in Proc, Close(p)
  PROVE  TypeOK' /\ ReturnOK(p)' /\ RangeOK(p)'
<1>1. FilesOK' /\ HistoryOK'
  BY DEF TypeOK, FilesOK, HistoryOK, Close, shared, history
<1>2. StacksOK'
  BY DEF TypeOK, FilesOK, StacksOK, HistoryOK, Loads, Close, Goto, history,
     shared
<1>3. CallsOK'
  BY DEF TypeOK, CallsOK, Labels, Returns, Close, Goto, history, shared
<1>4. ReturnOK(p)' /\ RangeOK(p)'
  BY DEF TypeOK, StacksOK, CallsOK, ControlOK, ReturnOK, RangeOK, EmptyRange,
     StackRange, Reloading, Merging, Installing, Close, Goto, history, shared
<1> QED BY <1>1, <1>2, <1>3, <1>4 DEF TypeOK

\* Close removing old tables keeps the types.
LEMMA CloseRemoveTypes ==
  ASSUME TypeOK, ControlOK, NEW p \in Proc, CloseRemove(p)
  PROVE  TypeOK' /\ ReturnOK(p)' /\ RangeOK(p)'
<1>1. FilesOK'
  BY DEF TypeOK, FilesOK, StacksOK, CallsOK, CloseRemove, Forget, Goto, NoJob,
     NoLoad, Return, Without
<1>2. StacksOK'
  BY DEF TypeOK, FilesOK, StacksOK, HistoryOK, Loads, CloseRemove, Forget,
     Goto, NoJob, NoLoad, Return, Without
<1>3. CallsOK'
  BY DEF TypeOK, CallsOK, Labels, Returns, Jobs, CloseRemove, Forget, Goto,
     NoJob, NoLoad, Return, Without
<1>4. HistoryOK'
  BY DEF TypeOK, HistoryOK, CloseRemove, Forget, Goto, NoJob, NoLoad, Return,
     Without
<1>5. ReturnOK(p)' /\ RangeOK(p)'
  BY DEF TypeOK, StacksOK, CallsOK, ControlOK, ReturnOK, RangeOK, EmptyRange,
     StackRange, Reloading, Merging, Installing, CloseRemove, Forget, Goto,
     NoJob, NoLoad, Return, Without, Jobs
<1> QED BY <1>1, <1>2, <1>3, <1>4, <1>5 DEF TypeOK

\* A reload past its deadline keeps the types.
LEMMA GiveUpTypes ==
  ASSUME TypeOK, ControlOK, NEW p \in Proc, GiveUp(p)
  PROVE  TypeOK' /\ ReturnOK(p)' /\ RangeOK(p)'
<1>0. AfterReload[ret[p]] \in Labels
  BY ReturnLabels DEF ControlOK, ReturnOK, GiveUp, Reloading, Labels
<1>1. FilesOK' /\ HistoryOK'
  BY DEF TypeOK, FilesOK, HistoryOK, GiveUp, shared, history
<1>2. StacksOK'
  BY DEF TypeOK, FilesOK, StacksOK, HistoryOK, Loads, GiveUp, AfterReload,
     EndReload, Goto, NoLoad, Return, history, shared
<1>3. CallsOK'
  BY <1>0, EndReloadTypes DEF GiveUp, TypeOK, CallsOK
<1>4. ReturnOK(p)' /\ RangeOK(p)'
  BY DEF TypeOK, StacksOK, CallsOK, ControlOK, ReturnOK, RangeOK, EmptyRange,
     StackRange, Reloading, Merging, Installing, GiveUp, AfterReload,
     EndReload, Goto, NoLoad, Return, history, shared
<1> QED BY <1>1, <1>2, <1>3, <1>4 DEF TypeOK

\* A process that dies keeps the types.
LEMMA CrashTypes ==
  ASSUME TypeOK, ControlOK, NEW p \in Proc, Crash(p)
  PROVE  TypeOK' /\ ReturnOK(p)' /\ RangeOK(p)'
<1>1. FilesOK'
  BY DEF TypeOK, FilesOK, Crash, shared
<1>2. StacksOK'
  BY DEF TypeOK, FilesOK, StacksOK, HistoryOK, Loads, Crash, Forget, Goto,
     NoJob, NoLoad, Return, shared
<1>3. CallsOK'
  BY DEF TypeOK, CallsOK, Labels, Returns, Jobs, Crash, Forget, Goto, NoJob,
     NoLoad, Return, shared
<1>4. HistoryOK'
  BY BoundsAssumption DEF Crash, Forget, TypeOK, HistoryOK
<1>5. ReturnOK(p)' /\ RangeOK(p)'
  BY DEF TypeOK, StacksOK, CallsOK, ControlOK, ReturnOK, RangeOK, EmptyRange,
     StackRange, Reloading, Merging, Installing, Crash, Forget, Goto, NoJob,
     NoLoad, Return, shared, Jobs
<1> QED BY <1>1, <1>2, <1>3, <1>4, <1>5 DEF TypeOK

-----------------------------------------------------------------------------
(* Steps *)

\* Whatever a process does, the stack, the program counter and the local
\* variables of every other process stay as they are.
LEMMA OthersKeep ==
  ASSUME TypeOK, NEW p \in Proc, Acts(p)
  PROVE  OthersUnchanged(p)
<1>1. ASSUME ReadList(p) PROVE OthersUnchanged(p)
  BY <1>1 DEF ReadList, history, OthersUnchanged, Goto, Return, TypeOK,
     StacksOK, CallsOK, HistoryOK
<1>2. ASSUME ReuseReader(p) PROVE OthersUnchanged(p)
  BY <1>2 DEF ReuseReader, history, OthersUnchanged, Goto, Return, TypeOK,
     StacksOK, CallsOK, HistoryOK
<1>3. ASSUME OpenTable(p) PROVE OthersUnchanged(p)
  BY <1>3 DEF OpenTable, history, OthersUnchanged, Goto, Return, TypeOK,
     StacksOK, CallsOK, HistoryOK
<1>4. ASSUME TableMissing(p) PROVE OthersUnchanged(p)
  BY <1>4 DEF TableMissing, history, OthersUnchanged, Goto, Return, TypeOK,
     StacksOK, CallsOK, HistoryOK
<1>5. ASSUME Recheck(p) PROVE OthersUnchanged(p)
  BY <1>5 DEF Recheck, EndReload, history, OthersUnchanged, Goto, Return,
     TypeOK, StacksOK, CallsOK, HistoryOK
<1>6. ASSUME Swap(p) PROVE OthersUnchanged(p)
  BY <1>6 DEF Swap, EndReload, OthersUnchanged, Goto, Return, TypeOK,
     StacksOK, CallsOK, HistoryOK
<1>7. ASSUME CheckLocked(p) PROVE OthersUnchanged(p)
  BY <1>7 DEF CheckLocked, StartReload, OthersUnchanged, Goto, Return, TypeOK,
     StacksOK, CallsOK, HistoryOK
<1>8. ASSUME AddTable(p) PROVE OthersUnchanged(p)
  BY <1>8 DEF AddTable, history, OthersUnchanged, Goto, Return, TypeOK,
     StacksOK, CallsOK, HistoryOK
<1>9. ASSUME Abandon(p) PROVE OthersUnchanged(p)
  BY <1>9 DEF Abandon, history, OthersUnchanged, Goto, Return, TypeOK,
     StacksOK, CallsOK, HistoryOK
<1>10. ASSUME CommitNothing(p) PROVE OthersUnchanged(p)
  BY <1>10 DEF CommitNothing, history, OthersUnchanged, Goto, Return, TypeOK,
     StacksOK, CallsOK, HistoryOK
<1>11. ASSUME CommitWrite(p) PROVE OthersUnchanged(p)
  BY <1>11 DEF CommitWrite, history, OthersUnchanged, Goto, Return, TypeOK,
     StacksOK, CallsOK, HistoryOK
<1>12. ASSUME CommitRename(p) PROVE OthersUnchanged(p)
  BY <1>12 DEF CommitRename, Rename, StartReload, OthersUnchanged, Goto,
     Return, TypeOK, StacksOK, CallsOK, HistoryOK
<1>13. ASSUME CommitSyncFails(p) PROVE OthersUnchanged(p)
  BY <1>13 DEF CommitSyncFails, Rename, OthersUnchanged, Goto, Return, TypeOK,
     StacksOK, CallsOK, HistoryOK
<1>14. ASSUME CommitRenameFails(p) PROVE OthersUnchanged(p)
  BY <1>14 DEF CommitRenameFails, RenameFails, history, OthersUnchanged, Goto,
     Return, TypeOK, StacksOK, CallsOK, HistoryOK
<1>15. ASSUME AdditionClose(p) PROVE OthersUnchanged(p)
  BY <1>15 DEF AdditionClose, CloseLock, history, OthersUnchanged, Goto,
     Return, TypeOK, StacksOK, CallsOK, HistoryOK
<1>16. ASSUME Scan(p) PROVE OthersUnchanged(p)
  BY <1>16 DEF Scan, history, OthersUnchanged, Goto, Return, TypeOK, StacksOK,
     CallsOK, HistoryOK
<1>17. ASSUME ScanPanics(p) PROVE OthersUnchanged(p)
  BY <1>17 DEF ScanPanics, Forget, OthersUnchanged, Goto, Return, TypeOK,
     StacksOK, CallsOK, HistoryOK
<1>18. ASSUME AutoCompact(p) PROVE OthersUnchanged(p)
  BY <1>18 DEF AutoCompact, LockForCompaction, TakeLock, history,
     OthersUnchanged, Goto, Return, TypeOK, StacksOK, CallsOK, HistoryOK
<1>19. ASSUME CompactionCheck(p) PROVE OthersUnchanged(p)
  BY <1>19 DEF CompactionCheck, history, OthersUnchanged, Goto, Return,
     TypeOK, StacksOK, CallsOK, HistoryOK
<1>20. ASSUME LockTable(p) PROVE OthersUnchanged(p)
  BY <1>20 DEF LockTable, history, OthersUnchanged, Goto, Return, TypeOK,
     StacksOK, CallsOK, HistoryOK
<1>21. ASSUME UnlockForMerge(p) PROVE OthersUnchanged(p)
  BY <1>21 DEF UnlockForMerge, CloseLock, history, OthersUnchanged, Goto,
     Return, TypeOK, StacksOK, CallsOK, HistoryOK
<1>22. ASSUME MergeFails(p) PROVE OthersUnchanged(p)
  BY <1>22 DEF MergeFails, history, OthersUnchanged, Goto, Return, TypeOK,
     StacksOK, CallsOK, HistoryOK
<1>23. ASSUME Relock(p) PROVE OthersUnchanged(p)
  BY <1>23 DEF Relock, TakeLock, history, OthersUnchanged, Goto, Return,
     TypeOK, StacksOK, CallsOK, HistoryOK
<1>24. ASSUME Install(p) PROVE OthersUnchanged(p)
  BY <1>24 DEF Install, history, OthersUnchanged, Goto, Return, TypeOK,
     StacksOK, CallsOK, HistoryOK
<1>25. ASSUME CompactionWrite(p) PROVE OthersUnchanged(p)
  BY <1>25 DEF CompactionWrite, history, OthersUnchanged, Goto, Return,
     TypeOK, StacksOK, CallsOK, HistoryOK
<1>26. ASSUME CompactionRename(p) PROVE OthersUnchanged(p)
  BY <1>26 DEF CompactionRename, Rename, history, OthersUnchanged, Goto,
     Return, TypeOK, StacksOK, CallsOK, HistoryOK
<1>27. ASSUME CompactionRenameFails(p) PROVE OthersUnchanged(p)
  BY <1>27 DEF CompactionRenameFails, RenameFails, history, OthersUnchanged,
     Goto, Return, TypeOK, StacksOK, CallsOK, HistoryOK
<1>28. ASSUME DeleteCompacted(p) PROVE OthersUnchanged(p)
  BY <1>28 DEF DeleteCompacted, StartReload, history, OthersUnchanged, Goto,
     Return, TypeOK, StacksOK, CallsOK, HistoryOK
<1>29. ASSUME CompactionDone(p) PROVE OthersUnchanged(p)
  BY <1>29 DEF CompactionDone, CloseLock, history, OthersUnchanged, Goto,
     Return, TypeOK, StacksOK, CallsOK, HistoryOK
<1>30. ASSUME CompactionEnd(p) PROVE OthersUnchanged(p)
  BY <1>30 DEF CompactionEnd, CloseLock, history, OthersUnchanged, Goto,
     Return, TypeOK, StacksOK, CallsOK, HistoryOK
<1>31. ASSUME CompactionPanics(p) PROVE OthersUnchanged(p)
  BY <1>31 DEF CompactionPanics, Forget, OthersUnchanged, Goto, Return,
     TypeOK, StacksOK, CallsOK, HistoryOK
<1>32. ASSUME Open(p) PROVE OthersUnchanged(p)
  BY <1>32 DEF Open, StartReload, history, OthersUnchanged, Goto, Return,
     TypeOK, StacksOK, CallsOK, HistoryOK
<1>33. ASSUME LockTaken(p) PROVE OthersUnchanged(p)
  BY <1>33 DEF LockTaken, StartReload, history, OthersUnchanged, Goto, Return,
     TypeOK, StacksOK, CallsOK, HistoryOK
<1>34. ASSUME CompactAll(p) PROVE OthersUnchanged(p)
  BY <1>34 DEF CompactAll, LockForCompaction, TakeLock, history,
     OthersUnchanged, Goto, Return, TypeOK, StacksOK, CallsOK, HistoryOK
<1>35. ASSUME Close(p) PROVE OthersUnchanged(p)
  BY <1>35 DEF Close, history, OthersUnchanged, Goto, Return, TypeOK,
     StacksOK, CallsOK, HistoryOK
<1>36. ASSUME NEW c \in CallNames, LockList(p, c) PROVE OthersUnchanged(p)
  BY <1>36 DEF LockList, TakeLock, history, OthersUnchanged, Goto, Return,
     TypeOK, StacksOK, CallsOK, HistoryOK
<1>37. ASSUME CloseRemove(p) PROVE OthersUnchanged(p)
  BY <1>37 DEF CloseRemove, Forget, OthersUnchanged, Goto, Return, TypeOK,
     StacksOK, CallsOK, HistoryOK
<1>38. ASSUME GiveUp(p) PROVE OthersUnchanged(p)
  BY <1>38 DEF GiveUp, EndReload, history, OthersUnchanged, Goto, Return,
     TypeOK, StacksOK, CallsOK, HistoryOK
<1>39. ASSUME Crash(p) PROVE OthersUnchanged(p)
  BY <1>39 DEF Crash, Forget, OthersUnchanged, Goto, Return, TypeOK, StacksOK,
     CallsOK, HistoryOK
<1> QED
  BY <1>1, <1>2, <1>3, <1>4, <1>5, <1>6, <1>7, <1>8, <1>9, <1>10, <1>11,
     <1>12, <1>13, <1>14, <1>15, <1>16, <1>17, <1>18, <1>19, <1>20, <1>21,
     <1>22, <1>23, <1>24, <1>25, <1>26, <1>27, <1>28, <1>29, <1>30, <1>31,
     <1>32, <1>33, <1>34, <1>35, <1>36, <1>37, <1>38, <1>39 DEF Acts,
     StartCall, CallStep, ReloadStep, AdditionStep, CompactionStep

\* NewAddition taking the lock keeps the types.
LEMMA LockListTypes ==
  ASSUME TypeOK, ControlOK, NEW p \in Proc, NEW c \in CallNames, LockList(p, c)
  PROVE  TypeOK' /\ ReturnOK(p)' /\ RangeOK(p)'
<1>1. FilesOK' /\ StacksOK' /\ HistoryOK'
  BY LockTypes DEF LockList, history, TypeOK, FilesOK, StacksOK, HistoryOK
<1>2. call' \in [Proc -> {"none", "add", "txn", "clean"}]
  BY DEF LockList, TypeOK, CallsOK
<1>3. CallsOK'
  BY <1>2, LockTypes DEF LockList, Goto, Labels, TypeOK, CallsOK
<1>4. ReturnOK(p)' /\ RangeOK(p)'
  BY DEF LockList, Goto, ReturnOK, RangeOK, Reloading, Merging, Installing,
         TypeOK, CallsOK
<1> QED BY <1>1, <1>3, <1>4 DEF TypeOK

\* Every step of a process keeps the types, and its own control facts.
LEMMA ActsTypes ==
  ASSUME TypeOK, ControlOK, NEW p \in Proc, Acts(p)
  PROVE  TypeOK' /\ ReturnOK(p)' /\ RangeOK(p)'
<1>1. CASE ReloadStep(p)
  BY <1>1, ReadListTypes, ReuseReaderTypes, OpenTableTypes, TableMissingTypes,
     RecheckTypes, SwapTypes DEF ReloadStep
<1>2. CASE AdditionStep(p)
  BY <1>2, CheckLockedTypes, AddTableTypes, AbandonTypes, CommitNothingTypes,
     CommitWriteTypes, CommitRenameTypes, CommitSyncFailsTypes,
     CommitRenameFailsTypes, AdditionCloseTypes, ScanTypes, ScanPanicsTypes
     DEF AdditionStep
<1>3. CASE CompactionStep(p)
  BY <1>3, AutoCompactTypes, CompactionCheckTypes, LockTableTypes,
     UnlockForMergeTypes, MergeFailsTypes, RelockTypes, InstallTypes,
     CompactionWriteTypes, CompactionRenameTypes, CompactionRenameFailsTypes,
     DeleteCompactedTypes, CompactionDoneTypes, CompactionEndTypes,
     CompactionPanicsTypes DEF CompactionStep
<1>4. CASE StartCall(p)
  BY <1>4, OpenTypes, LockTakenTypes, CompactAllTypes, CloseTypes, LockListTypes
     DEF StartCall
<1> QED BY <1>1, <1>2, <1>3, <1>4, CloseRemoveTypes, GiveUpTypes, CrashTypes
        DEF Acts, CallStep

\* Every step keeps the types and the control facts of all processes.
LEMMA StepTypes == TypeOK /\ ControlOK /\ [Next]_vars => TypeOK' /\ ControlOK'
<1> SUFFICES ASSUME TypeOK, ControlOK, [Next]_vars PROVE TypeOK' /\ ControlOK'
  OBVIOUS
<1>1. CASE UNCHANGED vars
  BY <1>1 DEF vars, shared, history, TypeOK, FilesOK, StacksOK, CallsOK, HistoryOK,
              ControlOK, ReturnOK, RangeOK, EmptyRange, StackRange
<1>2. ASSUME NEW p \in Proc, Acts(p) PROVE TypeOK' /\ ControlOK'
  <2>1. TypeOK' /\ ReturnOK(p)' /\ RangeOK(p)'
    BY <1>2, ActsTypes
  <2>2. ASSUME NEW q \in Proc \ {p} PROVE ReturnOK(q)' /\ RangeOK(q)'
    BY <1>2, OthersKeep
       DEF OthersUnchanged, ControlOK, ReturnOK, RangeOK, EmptyRange, StackRange
  <2> QED BY <2>1, <2>2 DEF ControlOK
<1> QED BY <1>1, <1>2 DEF Next, Acts

\* The inductive invariant, on which later proofs build.
LEMMA ControlCorrect == Spec => [](TypeOK /\ ControlOK)
<1>1. Init => TypeOK /\ ControlOK
  BY InitTypes
<1>2. TypeOK /\ ControlOK /\ [Next]_vars => TypeOK' /\ ControlOK'
  BY StepTypes
<1> QED BY <1>1, <1>2, PTL DEF Spec

\* No Go process ever indexes a stack, a list or a return table outside its
\* bounds, whatever fails and whatever others do to the files between two of its
\* steps: the range of a compaction stays a range of its stack until the list is
\* written, or it is the empty range of an empty stack and the call panics.
THEOREM TypeCorrect == Spec => []TypeOK
<1>1. TypeOK /\ ControlOK => TypeOK
  OBVIOUS
<1> QED BY <1>1, ControlCorrect, PTL

-----------------------------------------------------------------------------
(* The locks on tables.  job[p].old names the tables that p has locked, up *)
(* to the step that unlocks them all.                                      *)

\* A compaction is under way, its reload included.
Compacting(p) ==
  \/ pc[p] \in Merging \cup Installing \cup {"cprename", "delete", "cpdone", "cplast"}
  \/ pc[p] \in Reloading /\ ret[p] = "compact"

JobOK(p) == ~Compacting(p) => job[p] = NoJob

Held(p) == IF pc[p] \in {"idle", "closed", "aborted", "cplast"} THEN {} ELSE job[p].old

\* Every lock on a table is held by a compaction that will release it.
LocksHeld == crashes = 0 => \A n \in tlocks : \E p \in Proc : n \in Held(p)

\* What a step adds to the locks on tables its process holds, and the process
\* gives up none that it leaves locked.
LocksKept(p) == crashes' = 0 => tlocks' \subseteq (tlocks \ Held(p)) \cup Held(p)'

TableLocksInv == LocksHeld /\ \A p \in Proc : JobOK(p)

\* A process holds every lock that a step of it adds or, alive, leaves behind.
LEMMA ActsTableLocks ==
  ASSUME TypeOK, ControlOK, NEW p \in Proc, JobOK(p), Acts(p)
  PROVE  JobOK(p)' /\ LocksKept(p)
<1>1. ASSUME ReadList(p) PROVE JobOK(p)' /\ LocksKept(p)
  BY <1>1 DEF ReadList, Goto, history, shared, JobOK, LocksKept, Compacting,
     Held, Reloading, Merging, Installing, NoJob, TypeOK, CallsOK
<1>2. ASSUME ReuseReader(p) PROVE JobOK(p)' /\ LocksKept(p)
  BY <1>2 DEF ReuseReader, Reuse, history, shared, JobOK, LocksKept,
     Compacting, Held, Reloading, Merging, Installing, NoJob, TypeOK, CallsOK
<1>3. ASSUME OpenTable(p) PROVE JobOK(p)' /\ LocksKept(p)
  BY <1>3 DEF OpenTable, MustOpen, Reuse, history, shared, JobOK, LocksKept,
     Compacting, Held, Reloading, Merging, Installing, NoJob, TypeOK, CallsOK
<1>4. ASSUME TableMissing(p) PROVE JobOK(p)' /\ LocksKept(p)
  <2>1. /\ pc[p] = "open" /\ Goto(p, "recheck")
        /\ UNCHANGED <<ret, job, tlocks>>
    BY <1>4 DEF TableMissing, MustOpen, Loading, shared
  <2> QED BY <2>1 DEF Goto, JobOK, LocksKept, Compacting, Held, Reloading, Merging, Installing,
          TypeOK, CallsOK
<1>5. ASSUME Recheck(p) PROVE JobOK(p)' /\ LocksKept(p)
  BY <1>5 DEF Recheck, AfterFailure, EndReload, Goto, NoLoad, Return, history,
     shared, JobOK, LocksKept, Compacting, Held, Reloading, Merging,
     Installing, NoJob, TypeOK, CallsOK
<1>6. ASSUME Swap(p) PROVE JobOK(p)' /\ LocksKept(p)
  BY <1>6 DEF Swap, AfterReload, EndReload, Goto, NoLoad, Return, Reuse,
     JobOK, LocksKept, Compacting, Held, Reloading, Merging, Installing,
     NoJob, TypeOK, CallsOK
<1>7. ASSUME CheckLocked(p) PROVE JobOK(p)' /\ LocksKept(p)
  BY <1>7 DEF CheckLocked, Goto, MayAdd, Return, StartReload, UpToDate,
     shared, JobOK, LocksKept, Compacting, Held, Reloading, Merging,
     Installing, NoJob, TypeOK, CallsOK
<1>8. ASSUME AddTable(p) PROVE JobOK(p)' /\ LocksKept(p)
  BY <1>8 DEF AddTable, Goto, Return, history, JobOK, LocksKept, Compacting,
     Held, Reloading, Merging, Installing, NoJob, TypeOK, CallsOK
<1>9. ASSUME Abandon(p) PROVE JobOK(p)' /\ LocksKept(p)
  BY <1>9 DEF Abandon, Goto, Return, history, shared, JobOK, LocksKept,
     Compacting, Held, Reloading, Merging, Installing, NoJob, TypeOK, CallsOK
<1>10. ASSUME CommitNothing(p) PROVE JobOK(p)' /\ LocksKept(p)
  BY <1>10 DEF CommitNothing, Goto, Return, history, shared, JobOK, LocksKept,
     Compacting, Held, Reloading, Merging, Installing, NoJob, TypeOK, CallsOK
<1>11. ASSUME CommitWrite(p) PROVE JobOK(p)' /\ LocksKept(p)
  BY <1>11 DEF CommitWrite, Goto, Return, WriteLock, history, JobOK,
     LocksKept, Compacting, Held, Reloading, Merging, Installing, NoJob,
     TypeOK, CallsOK
<1>12. ASSUME CommitRename(p) PROVE JobOK(p)' /\ LocksKept(p)
  BY <1>12 DEF CommitRename, Goto, Rename, RenameLock, Return, StartReload,
     JobOK, LocksKept, Compacting, Held, Reloading, Merging, Installing,
     NoJob, TypeOK, CallsOK
<1>13. ASSUME CommitSyncFails(p) PROVE JobOK(p)' /\ LocksKept(p)
  BY <1>13 DEF CommitSyncFails, Goto, Rename, RenameLock, Return, JobOK,
     LocksKept, Compacting, Held, Reloading, Merging, Installing, NoJob,
     TypeOK, CallsOK
<1>14. ASSUME CommitRenameFails(p) PROVE JobOK(p)' /\ LocksKept(p)
  BY <1>14 DEF CommitRenameFails, Goto, RenameFails, Return, history, shared,
     JobOK, LocksKept, Compacting, Held, Reloading, Merging, Installing,
     NoJob, TypeOK, CallsOK
<1>15. ASSUME AdditionClose(p) PROVE JobOK(p)' /\ LocksKept(p)
  BY <1>15 DEF AdditionClose, AfterClose, CloseLock, Goto, Return, UnlinkLock,
     history, JobOK, LocksKept, Compacting, Held, Reloading, Merging,
     Installing, NoJob, TypeOK, CallsOK
<1>16. ASSUME Scan(p) PROVE JobOK(p)' /\ LocksKept(p)
  BY <1>16 DEF Scan, Goto, history, JobOK, LocksKept, Compacting, Held,
     Reloading, Merging, Installing, NoJob, TypeOK, CallsOK
<1>17. ASSUME ScanPanics(p) PROVE JobOK(p)' /\ LocksKept(p)
  BY <1>17 DEF ScanPanics, Forget, Goto, NoJob, NoLoad, Return, UnlinkLock,
     JobOK, LocksKept, Compacting, Held, Reloading, Merging, Installing,
     NoJob, TypeOK, CallsOK
<1>18. ASSUME AutoCompact(p) PROVE JobOK(p)' /\ LocksKept(p)
  <2>1. CASE UNCHANGED job
    <3>1. /\ pc[p] = "auto" /\ tlocks' = tlocks
          /\ Goto(p, "idle") \/ Goto(p, "cpcheck")
      BY <1>18 DEF AutoCompact, LockForCompaction
    <3> QED BY <3>1, <2>1 DEF Goto, JobOK, LocksKept, Compacting, Held, Reloading, Merging, Installing,
            NoJob, TypeOK, CallsOK
  <2>2. CASE job' # job
    <3>1. pc[p] = "auto" /\ Goto(p, "cpcheck") /\ tlocks' = tlocks
      BY <1>18, <2>2 DEF AutoCompact, LockForCompaction
    <3> QED BY <3>1 DEF Goto, JobOK, LocksKept, Compacting, Held, Reloading, Merging, Installing,
            NoJob, TypeOK, CallsOK
  <2> QED BY <2>1, <2>2
<1>19. ASSUME CompactionCheck(p) PROVE JobOK(p)' /\ LocksKept(p)
  BY <1>19 DEF CompactionCheck, Goto, UpToDate, history, shared, JobOK,
     LocksKept, Compacting, Held, Reloading, Merging, Installing, NoJob,
     TypeOK, CallsOK
<1>20. ASSUME LockTable(p) PROVE JobOK(p)' /\ LocksKept(p)
  <2> DEFINE n == st[p][job[p].next].name
  <2>0. pc[p] = "cpsub"
    BY <1>20 DEF LockTable
  <2>1. CASE job'[p].old = job[p].old \cup {n} /\ pc' = pc /\ tlocks' = tlocks \cup {n}
    BY <2>0, <2>1 DEF JobOK, LocksKept, Compacting, Held, Merging
  <2>2. CASE Goto(p, "cpdone") /\ UNCHANGED <<tlocks, job>>
    BY <2>0, <2>2 DEF Goto, JobOK, LocksKept, Compacting, Held, TypeOK, CallsOK
  <2>3. CASE /\ job' = [job EXCEPT ![p].old = @ \cup {n}, ![p].next = @ + 1]
             /\ pc' = pc /\ tlocks' = tlocks \cup {n}
    <3>1. job'[p].old = job[p].old \cup {n}
      BY <2>3, JobFields DEF TypeOK, CallsOK, Jobs
    <3> QED BY <3>1, <2>3, <2>1
  <2> QED BY <1>20, <2>2, <2>3 DEF LockTable
<1>21. ASSUME UnlockForMerge(p) PROVE JobOK(p)' /\ LocksKept(p)
  BY <1>21 DEF UnlockForMerge, CloseLock, Goto, UnlinkLock, history, JobOK,
     LocksKept, Compacting, Held, Reloading, Merging, Installing, NoJob,
     TypeOK, CallsOK
<1>22. ASSUME MergeFails(p) PROVE JobOK(p)' /\ LocksKept(p)
  BY <1>22 DEF MergeFails, Goto, Return, history, shared, JobOK, LocksKept,
     Compacting, Held, Reloading, Merging, Installing, NoJob, TypeOK, CallsOK
<1>23. ASSUME Relock(p) PROVE JobOK(p)' /\ LocksKept(p)
  <2>0. pc[p] = "relock" /\ tlocks' = tlocks
    BY <1>23 DEF Relock
  <2>1. job'[p].old = job[p].old
    BY <1>23, JobFields DEF Relock, TypeOK, CallsOK, Jobs
  <2>2. pc'[p] \in {"install", "cpdone"}
    BY <1>23 DEF Relock, Goto, TypeOK, CallsOK
  <2> QED BY <2>0, <2>1, <2>2 DEF JobOK, LocksKept, Compacting, Held, Merging, Installing
<1>24. ASSUME Install(p) PROVE JobOK(p)' /\ LocksKept(p)
  <2>0. pc[p] = "install" /\ tlocks' = tlocks
    BY <1>24 DEF Install
  <2>1. job'[p].old = job[p].old
    BY <1>24, JobFields DEF Install, TypeOK, CallsOK, Jobs
  <2>2. pc'[p] \in {"cpwrite", "cpdone"}
    BY <1>24 DEF Install, Goto, TypeOK, CallsOK
  <2> QED BY <2>0, <2>1, <2>2 DEF JobOK, LocksKept, Compacting, Held, Merging, Installing
<1>25. ASSUME CompactionWrite(p) PROVE JobOK(p)' /\ LocksKept(p)
  BY <1>25 DEF CompactionWrite, Goto, WriteLock, history, JobOK, LocksKept,
     Compacting, Held, Reloading, Merging, Installing, NoJob, TypeOK, CallsOK
<1>26. ASSUME CompactionRename(p) PROVE JobOK(p)' /\ LocksKept(p)
  BY <1>26 DEF CompactionRename, Goto, Rename, RenameLock, history, JobOK,
     LocksKept, Compacting, Held, Reloading, Merging, Installing, NoJob,
     TypeOK, CallsOK
<1>27. ASSUME CompactionRenameFails(p) PROVE JobOK(p)' /\ LocksKept(p)
  BY <1>27 DEF CompactionRenameFails, Goto, RenameFails, history, JobOK,
     LocksKept, Compacting, Held, Reloading, Merging, Installing, NoJob,
     TypeOK, CallsOK
<1>28. ASSUME DeleteCompacted(p) PROVE JobOK(p)' /\ LocksKept(p)
  BY <1>28 DEF DeleteCompacted, Goto, Return, StartReload, history, JobOK,
     LocksKept, Compacting, Held, Reloading, Merging, Installing, NoJob,
     TypeOK, CallsOK
<1>29. ASSUME CompactionDone(p) PROVE JobOK(p)' /\ LocksKept(p)
  BY <1>29 DEF CompactionDone, CloseLock, Goto, LocksToClose, UnlinkLock,
     history, JobOK, LocksKept, Compacting, Held, Reloading, Merging,
     Installing, NoJob, TypeOK, CallsOK
<1>30. ASSUME CompactionEnd(p) PROVE JobOK(p)' /\ LocksKept(p)
  BY <1>30 DEF CompactionEnd, CloseLock, Goto, NoJob, UnlinkLock, history,
     JobOK, LocksKept, Compacting, Held, Reloading, Merging, Installing,
     NoJob, TypeOK, CallsOK
<1>31. ASSUME CompactionPanics(p) PROVE JobOK(p)' /\ LocksKept(p)
  BY <1>31 DEF CompactionPanics, Forget, Goto, NoJob, NoLoad, Return,
     UnlinkLock, JobOK, LocksKept, Compacting, Held, Reloading, Merging,
     Installing, NoJob, TypeOK, CallsOK
<1>32. ASSUME Open(p) PROVE JobOK(p)' /\ LocksKept(p)
  BY <1>32 DEF Open, Goto, Return, StartReload, history, shared, JobOK,
     LocksKept, Compacting, Held, Reloading, Merging, Installing, NoJob,
     TypeOK, CallsOK
<1>33. ASSUME LockTaken(p) PROVE JobOK(p)' /\ LocksKept(p)
  BY <1>33 DEF LockTaken, Goto, Return, StartReload, history, shared, JobOK,
     LocksKept, Compacting, Held, Reloading, Merging, Installing, NoJob,
     TypeOK, CallsOK
<1>34. ASSUME CompactAll(p) PROVE JobOK(p)' /\ LocksKept(p)
  <2>1. CASE UNCHANGED job
    <3>1. /\ pc[p] = "idle" /\ tlocks' = tlocks
          /\ Goto(p, "idle") \/ Goto(p, "cpcheck")
      BY <1>34 DEF CompactAll, LockForCompaction
    <3> QED BY <3>1, <2>1 DEF Goto, JobOK, LocksKept, Compacting, Held, Reloading, Merging, Installing,
            NoJob, TypeOK, CallsOK
  <2>2. CASE job' # job
    <3>1. pc[p] = "idle" /\ Goto(p, "cpcheck") /\ tlocks' = tlocks
      BY <1>34, <2>2 DEF CompactAll, LockForCompaction
    <3> QED BY <3>1 DEF Goto, JobOK, LocksKept, Compacting, Held, Reloading, Merging, Installing,
            NoJob, TypeOK, CallsOK
  <2> QED BY <2>1, <2>2
<1>35. ASSUME Close(p) PROVE JobOK(p)' /\ LocksKept(p)
  BY <1>35 DEF Close, Goto, history, shared, JobOK, LocksKept, Compacting,
     Held, Reloading, Merging, Installing, NoJob, TypeOK, CallsOK
<1>36. ASSUME NEW c \in CallNames, LockList(p, c) PROVE JobOK(p)' /\ LocksKept(p)
  BY <1>36 DEF LockList, CreateLock, Goto, TakeLock, history, JobOK,
     LocksKept, Compacting, Held, Reloading, Merging, Installing, NoJob,
     TypeOK, CallsOK
<1>37. ASSUME CloseRemove(p) PROVE JobOK(p)' /\ LocksKept(p)
  BY <1>37 DEF CloseRemove, Forget, Goto, NoJob, NoLoad, Return, JobOK,
     LocksKept, Compacting, Held, Reloading, Merging, Installing, NoJob,
     TypeOK, CallsOK
<1>38. ASSUME GiveUp(p) PROVE JobOK(p)' /\ LocksKept(p)
  BY <1>38 DEF GiveUp, AfterReload, EndReload, Goto, NoLoad, Return, history,
     shared, JobOK, LocksKept, Compacting, Held, Reloading, Merging,
     Installing, NoJob, TypeOK, CallsOK
<1>39. ASSUME Crash(p) PROVE JobOK(p)' /\ LocksKept(p)
  BY <1>39, BoundsAssumption DEF Crash, Forget, Goto, JobOK, LocksKept, Compacting,
     Reloading, Merging, Installing, TypeOK, CallsOK, HistoryOK
<1> QED
  BY <1>1, <1>2, <1>3, <1>4, <1>5, <1>6, <1>7, <1>8, <1>9, <1>10, <1>11,
     <1>12, <1>13, <1>14, <1>15, <1>16, <1>17, <1>18, <1>19, <1>20, <1>21,
     <1>22, <1>23, <1>24, <1>25, <1>26, <1>27, <1>28, <1>29, <1>30, <1>31,
     <1>32, <1>33, <1>34, <1>35, <1>36, <1>37, <1>38, <1>39 DEF Acts,
     StartCall, CallStep, ReloadStep, AdditionStep, CompactionStep

\* The dead stay dead.
LEMMA CrashesGrow ==
  ASSUME TypeOK, NEW p \in Proc, Acts(p)
  PROVE  crashes' = crashes \/ (crashes' = crashes + 1 /\ crashes' # 0)
<1>1. CASE Crash(p)
  BY <1>1, BoundsAssumption DEF Crash, TypeOK, HistoryOK
<1>2. CASE ReloadStep(p)
  BY <1>2 DEF ReloadStep, ReadList, ReuseReader, OpenTable, TableMissing,
     Recheck, Swap
<1>3. CASE AdditionStep(p)
  BY <1>3 DEF AdditionStep, CheckLocked, AddTable, Abandon, CommitNothing,
     CommitWrite, CommitRename, CommitSyncFails, CommitRenameFails,
     AdditionClose, Scan, ScanPanics
<1>4. CASE CompactionStep(p)
  BY <1>4 DEF CompactionStep, AutoCompact, CompactionCheck, LockTable,
     UnlockForMerge, MergeFails, Relock, Install, CompactionWrite,
     CompactionRename, CompactionRenameFails, DeleteCompacted, CompactionDone,
     CompactionEnd, CompactionPanics
<1>5. CASE StartCall(p) \/ CloseRemove(p) \/ GiveUp(p)
  BY <1>5 DEF StartCall, Open, LockTaken, CompactAll, Close, LockList,
     CloseRemove, GiveUp
<1> QED BY <1>1, <1>2, <1>3, <1>4, <1>5 DEF Acts, CallStep

\* The invariant is kept: a lock that stays is held by its process as before,
\* and one that is new belongs to the process that moved.
LEMMA StepTableLocks ==
  ASSUME TypeOK, ControlOK, TableLocksInv, [Next]_vars
  PROVE  TableLocksInv'
<1>1. CASE UNCHANGED vars
  BY <1>1 DEF vars, shared, history, TableLocksInv, LocksHeld, Held, JobOK, Compacting
<1>2. ASSUME NEW p \in Proc, Acts(p) PROVE TableLocksInv'
  <2>0. OthersUnchanged(p) /\ JobOK(p)
    BY <1>2, OthersKeep DEF TableLocksInv
  <2>1. ASSUME NEW q \in Proc \ {p} PROVE Held(q)' = Held(q) /\ JobOK(q)'
    BY <2>0, <2>1 DEF OthersUnchanged, TableLocksInv, JobOK, Compacting, Held
  <2>2. JobOK(p)' /\ LocksKept(p)
    BY <1>2, <2>0, ActsTableLocks
  <2>3. crashes' = 0 => crashes = 0
    BY <1>2, CrashesGrow
  <2>4. LocksHeld'
    <3> SUFFICES ASSUME crashes' = 0, NEW n \in tlocks' PROVE \E q \in Proc : n \in Held(q)'
      BY DEF LocksHeld
    <3>1. CASE n \in Held(p)'
      BY <3>1
    <3>2. CASE n \in tlocks \ Held(p)
      <4>1. PICK q \in Proc : n \in Held(q)
        BY <3>2, <2>3 DEF TableLocksInv, LocksHeld
      <4> QED BY <4>1, <3>2, <2>1
    <3> QED BY <3>1, <3>2, <2>2 DEF LocksKept
  <2> QED BY <2>1, <2>2, <2>4 DEF TableLocksInv
<1> QED BY <1>1, <1>2 DEF Next, Acts

\* Whatever fails, and when a contended compaction panics in its last deferred
\* call, the locks on the tables of its range are gone with the call: unless a
\* process dies, every one belongs to a compaction that has not yet come to the
\* deferred calls that release them all.
THEOREM TableLocksFreed == Spec => [](crashes = 0 => TableLocksReleased)
<1>1. Init => TableLocksInv
  BY DEF Init, EmptyDirectory, TableLocksInv, LocksHeld, JobOK
<1>2. TypeOK /\ ControlOK /\ TableLocksInv /\ [Next]_vars => TableLocksInv'
  BY StepTableLocks
<1>3. TableLocksInv => (crashes = 0 => TableLocksReleased)
  BY DEF TableLocksInv, LocksHeld, Held, TableLocksReleased
<1> QED BY <1>1, <1>2, <1>3, ControlCorrect, PTL DEF Spec

-----------------------------------------------------------------------------
(* The lock on the list.  Closing a fileWriter a second time removes       *)
(* whatever lock file is there by then; a compaction does that after every *)
(* merge, and a commit that failed does it too.                            *)

WritersOnly == /\ Faults = FALSE
               /\ \A p \in Proc : Calls[p] \cap {"compact", "expire"} = {}

\* Where a process without compaction may be, and where it has the lock.
WriterLabels == {"closed", "idle", "aborted", "read", "open", "recheck", "locked",
                 "adding", "rename", "adclose", "scan", "auto", "close"}
Locking(p) == \/ pc[p] \in {"locked", "adding", "rename", "adclose", "scan"}
              \/ pc[p] \in Reloading /\ ret[p] = "scan"

LockOK(p) ==
  /\ pc[p] \in WriterLabels
  /\ ret[p] \notin {"again", "compact"} /\ job[p] = NoJob
  /\ lock[p] \in {"none", "open"}
  /\ lock[p] = "open" => lockFile # NoFile
  /\ Locking(p) => lock[p] = "open"

LockInv == /\ \A p \in Proc : LockOK(p)
           /\ \A p, q \in Proc : lock[p] = "open" /\ lock[q] = "open" => p = q

\* What a step of p may do to the lock file.
LockMoved(p) ==
  /\ lock'[p] = "open" => lock[p] = "open" \/ lockFile = NoFile
  /\ lockFile' = NoFile => lockFile = NoFile \/ lock[p] = "open"

\* A writer keeps its part of the invariant, creates the lock file only when
\* there is none and unlinks or renames it only when it is its own.
LEMMA ActsLock ==
  ASSUME TypeOK, ControlOK, WritersOnly, NEW p \in Proc, LockOK(p), Acts(p)
  PROVE  LockOK(p)' /\ LockMoved(p)
<1>1. ASSUME ReadList(p) PROVE LockOK(p)' /\ LockMoved(p)
  BY <1>1 DEF ReadList, Goto, history, shared, LockOK, LockMoved, Locking,
     WriterLabels, Reloading, TypeOK, CallsOK
<1>2. ASSUME ReuseReader(p) PROVE LockOK(p)' /\ LockMoved(p)
  BY <1>2 DEF ReuseReader, Reuse, history, shared, LockOK, LockMoved, Locking,
     WriterLabels, Reloading, TypeOK, CallsOK
<1>3. ASSUME OpenTable(p) PROVE LockOK(p)' /\ LockMoved(p)
  BY <1>3 DEF OpenTable, MustOpen, Reuse, history, shared, LockOK, LockMoved,
     Locking, WriterLabels, Reloading, TypeOK, CallsOK
<1>4. ASSUME TableMissing(p) PROVE LockOK(p)' /\ LockMoved(p)
  <2>1. pc[p] = "open" /\ Goto(p, "recheck") /\ UNCHANGED <<ret, job, lock, lockFile>>
    BY <1>4 DEF TableMissing, MustOpen, Loading, shared
  <2> QED BY <2>1 DEF Goto, LockOK, LockMoved, Locking, WriterLabels, Reloading,
          TypeOK, CallsOK
<1>5. ASSUME Recheck(p) PROVE LockOK(p)' /\ LockMoved(p)
  <2>1. AfterFailure[ret[p]] = IF ret[p] = "scan" THEN "adclose"
                               ELSE IF ret[p] = "open" THEN "closed" ELSE "idle"
    BY <1>5 DEF Recheck, ControlOK, ReturnOK, Reloading, LockOK, AfterFailure
  <2>2. /\ pc[p] = "recheck" /\ UNCHANGED <<lock, lockFile, job>>
        /\ \/ Goto(p, AfterFailure[ret[p]]) /\ Return(p, "none")
           \/ Goto(p, "read") /\ UNCHANGED ret
    BY <1>5 DEF Recheck, EndReload, shared
  <2> QED BY <2>1, <2>2 DEF Goto, Return, LockOK, LockMoved, Locking, WriterLabels,
          Reloading, TypeOK, CallsOK
<1>6. ASSUME Swap(p) PROVE LockOK(p)' /\ LockMoved(p)
  <2>1. AfterReload[ret[p]] = IF ret[p] = "scan" THEN "scan"
                              ELSE IF ret[p] = "auto" THEN "auto" ELSE "idle"
    BY <1>6 DEF Swap, ControlOK, ReturnOK, Reloading, LockOK, AfterReload
  <2>2. /\ pc[p] \in Reloading /\ Goto(p, AfterReload[ret[p]]) /\ Return(p, "none")
        /\ UNCHANGED <<lock, lockFile, job>>
    BY <1>6 DEF Swap, EndReload, Reloading, shared
  <2> QED BY <2>1, <2>2 DEF Goto, Return, LockOK, LockMoved, Locking, WriterLabels,
          Reloading, TypeOK, CallsOK
<1>7. ASSUME CheckLocked(p) PROVE LockOK(p)' /\ LockMoved(p)
  BY <1>7 DEF CheckLocked, Goto, MayAdd, Return, StartReload, UpToDate,
     shared, LockOK, LockMoved, Locking, WriterLabels, Reloading, TypeOK,
     CallsOK
<1>8. ASSUME AddTable(p) PROVE LockOK(p)' /\ LockMoved(p)
  BY <1>8 DEF AddTable, Goto, Return, history, LockOK, LockMoved, Locking,
     WriterLabels, Reloading, TypeOK, CallsOK
<1>9. ASSUME Abandon(p) PROVE LockOK(p)' /\ LockMoved(p)
  BY <1>9 DEF Abandon, Goto, Return, history, shared, LockOK, LockMoved,
     Locking, WriterLabels, Reloading, TypeOK, CallsOK
<1>10. ASSUME CommitNothing(p) PROVE LockOK(p)' /\ LockMoved(p)
  BY <1>10 DEF CommitNothing, Goto, Return, history, shared, LockOK,
     LockMoved, Locking, WriterLabels, Reloading, TypeOK, CallsOK
<1>11. ASSUME CommitWrite(p) PROVE LockOK(p)' /\ LockMoved(p)
  <2>1. /\ pc[p] = "adding" /\ Goto(p, "rename") /\ UNCHANGED <<ret, lock, job>>
        /\ WriteLock(p, NamesOf(st[p]) \o NamesOf(newt[p]))
    BY <1>11 DEF CommitWrite, WritersOnly
  <2>2. NamesOf(st[p]) \o NamesOf(newt[p]) \in Seq(TableName)
    BY StackNames, ConcatProperties
  <2>3. lockFile' = NoFile => lockFile = NoFile
    BY <2>1, <2>2, NoFileAssumption DEF WriteLock
  <2> QED BY <2>1, <2>3 DEF Goto, LockOK, LockMoved, Locking, WriterLabels,
          Reloading, TypeOK, CallsOK
<1>12. ASSUME CommitRename(p) PROVE LockOK(p)' /\ LockMoved(p)
  BY <1>12 DEF CommitRename, Goto, Rename, RenameLock, Return, StartReload,
     LockOK, LockMoved, Locking, WriterLabels, Reloading, TypeOK, CallsOK
<1>13. ASSUME CommitSyncFails(p) PROVE LockOK(p)' /\ LockMoved(p)
  BY <1>13 DEF CommitSyncFails, RenameFails, WritersOnly, LockOK, Locking
<1>14. ASSUME CommitRenameFails(p) PROVE LockOK(p)' /\ LockMoved(p)
  BY <1>14 DEF CommitRenameFails, RenameFails, WritersOnly, LockOK, Locking
<1>15. ASSUME AdditionClose(p) PROVE LockOK(p)' /\ LockMoved(p)
  <2>1. /\ ret[p] \in {"none", "plain", "auto"}
        /\ pc[p] = "adclose" /\ lock[p] = "open"
    BY <1>15 DEF AdditionClose, ControlOK, ReturnOK, LockOK, Locking
  <2>2. /\ Goto(p, AfterClose[ret[p]]) /\ Return(p, IF ret[p] = "plain" THEN "plain" ELSE "none")
        /\ CloseLock(p, FALSE) /\ UNCHANGED job
    BY <1>15, <2>1 DEF AdditionClose
  <2>3. AfterClose[ret[p]] \in {"idle", "read", "auto"}
    BY <2>1, ReturnLabels
  <2>4. lock' = [lock EXCEPT ![p] = "none"]
    BY <2>2 DEF CloseLock
  <2> QED BY <2>1, <2>2, <2>3, <2>4 DEF Goto, Return, LockOK, LockMoved, Locking,
          WriterLabels, Reloading, TypeOK, CallsOK
<1>16. ASSUME Scan(p) PROVE LockOK(p)' /\ LockMoved(p)
  BY <1>16 DEF Scan, Goto, history, LockOK, LockMoved, Locking, WriterLabels,
     Reloading, TypeOK, CallsOK
<1>17. ASSUME ScanPanics(p) PROVE LockOK(p)' /\ LockMoved(p)
  BY <1>17 DEF ScanPanics, Forget, Goto, NoJob, NoLoad, Return, UnlinkLock,
     LockOK, LockMoved, Locking, WriterLabels, Reloading, TypeOK, CallsOK
<1>18. ASSUME AutoCompact(p) PROVE LockOK(p)' /\ LockMoved(p)
  <2>1. pc[p] = "auto" /\ Goto(p, "idle") /\ UNCHANGED <<lock, lockFile, job, ret>>
    BY <1>18 DEF AutoCompact, WritersOnly
  <2> QED BY <2>1 DEF Goto, LockOK, LockMoved, Locking, WriterLabels, Reloading,
          TypeOK, CallsOK
<1>19. ASSUME CompactionCheck(p) PROVE LockOK(p)' /\ LockMoved(p)
  BY <1>19 DEF CompactionCheck, LockOK, WriterLabels
<1>20. ASSUME LockTable(p) PROVE LockOK(p)' /\ LockMoved(p)
  BY <1>20 DEF LockTable, LockOK, WriterLabels
<1>21. ASSUME UnlockForMerge(p) PROVE LockOK(p)' /\ LockMoved(p)
  BY <1>21 DEF UnlockForMerge, LockOK, WriterLabels
<1>22. ASSUME MergeFails(p) PROVE LockOK(p)' /\ LockMoved(p)
  BY <1>22 DEF MergeFails, LockOK, WriterLabels
<1>23. ASSUME Relock(p) PROVE LockOK(p)' /\ LockMoved(p)
  BY <1>23 DEF Relock, LockOK, WriterLabels
<1>24. ASSUME Install(p) PROVE LockOK(p)' /\ LockMoved(p)
  BY <1>24 DEF Install, LockOK, WriterLabels
<1>25. ASSUME CompactionWrite(p) PROVE LockOK(p)' /\ LockMoved(p)
  BY <1>25 DEF CompactionWrite, LockOK, WriterLabels
<1>26. ASSUME CompactionRename(p) PROVE LockOK(p)' /\ LockMoved(p)
  BY <1>26 DEF CompactionRename, LockOK, WriterLabels
<1>27. ASSUME CompactionRenameFails(p) PROVE LockOK(p)' /\ LockMoved(p)
  BY <1>27 DEF CompactionRenameFails, LockOK, WriterLabels
<1>28. ASSUME DeleteCompacted(p) PROVE LockOK(p)' /\ LockMoved(p)
  BY <1>28 DEF DeleteCompacted, LockOK, WriterLabels
<1>29. ASSUME CompactionDone(p) PROVE LockOK(p)' /\ LockMoved(p)
  BY <1>29 DEF CompactionDone, LockOK, WriterLabels
<1>30. ASSUME CompactionEnd(p) PROVE LockOK(p)' /\ LockMoved(p)
  BY <1>30 DEF CompactionEnd, LockOK, WriterLabels
<1>31. ASSUME CompactionPanics(p) PROVE LockOK(p)' /\ LockMoved(p)
  BY <1>31 DEF CompactionPanics, LockOK, WriterLabels
<1>32. ASSUME Open(p) PROVE LockOK(p)' /\ LockMoved(p)
  BY <1>32 DEF Open, Goto, Return, StartReload, history, shared, LockOK,
     LockMoved, Locking, WriterLabels, Reloading, TypeOK, CallsOK
<1>33. ASSUME LockTaken(p) PROVE LockOK(p)' /\ LockMoved(p)
  BY <1>33 DEF LockTaken, Goto, Return, StartReload, history, shared, LockOK,
     LockMoved, Locking, WriterLabels, Reloading, TypeOK, CallsOK
<1>34. ASSUME CompactAll(p) PROVE LockOK(p)' /\ LockMoved(p)
  BY <1>34 DEF CompactAll, WritersOnly
<1>35. ASSUME Close(p) PROVE LockOK(p)' /\ LockMoved(p)
  BY <1>35 DEF Close, Goto, history, shared, LockOK, LockMoved, Locking,
     WriterLabels, Reloading, TypeOK, CallsOK
<1>36. ASSUME NEW c \in CallNames, LockList(p, c) PROVE LockOK(p)' /\ LockMoved(p)
  <2>1. <<>> # NoFile
    BY NoFileAssumption, EmptySeq
  <2>2. /\ pc[p] = "idle" /\ Goto(p, "locked") /\ UNCHANGED <<ret, job>>
        /\ lock' = [lock EXCEPT ![p] = "open"] /\ lockFile = NoFile /\ lockFile' = <<>>
    BY <1>36 DEF LockList, TakeLock, CreateLock
  <2> QED BY <2>1, <2>2 DEF Goto, LockOK, LockMoved, Locking, WriterLabels,
          Reloading, TypeOK, CallsOK
<1>37. ASSUME CloseRemove(p) PROVE LockOK(p)' /\ LockMoved(p)
  BY <1>37 DEF CloseRemove, Forget, Goto, NoJob, NoLoad, Return, LockOK,
     LockMoved, Locking, WriterLabels, Reloading, TypeOK, CallsOK
<1>38. ASSUME GiveUp(p) PROVE LockOK(p)' /\ LockMoved(p)
  <2>1. AfterReload[ret[p]] = IF ret[p] = "scan" THEN "scan"
                              ELSE IF ret[p] = "auto" THEN "auto" ELSE "idle"
    BY <1>38 DEF GiveUp, ControlOK, ReturnOK, Reloading, LockOK, AfterReload
  <2>2. /\ pc[p] \in Reloading /\ Goto(p, AfterReload[ret[p]]) /\ Return(p, "none")
        /\ UNCHANGED <<lock, lockFile, job>>
    BY <1>38 DEF GiveUp, EndReload, Reloading, shared
  <2> QED BY <2>1, <2>2 DEF Goto, Return, LockOK, LockMoved, Locking, WriterLabels,
          Reloading, TypeOK, CallsOK
<1>39. ASSUME Crash(p) PROVE LockOK(p)' /\ LockMoved(p)
  BY <1>39 DEF Crash, Forget, Goto, NoJob, NoLoad, Return, shared, LockOK,
     LockMoved, Locking, WriterLabels, Reloading, TypeOK, CallsOK
<1> QED
  BY <1>1, <1>2, <1>3, <1>4, <1>5, <1>6, <1>7, <1>8, <1>9, <1>10, <1>11,
     <1>12, <1>13, <1>14, <1>15, <1>16, <1>17, <1>18, <1>19, <1>20, <1>21,
     <1>22, <1>23, <1>24, <1>25, <1>26, <1>27, <1>28, <1>29, <1>30, <1>31,
     <1>32, <1>33, <1>34, <1>35, <1>36, <1>37, <1>38, <1>39 DEF Acts,
     StartCall, CallStep, ReloadStep, AdditionStep, CompactionStep

\* The invariant is kept: the others keep their lock file, since p has none of
\* it, or they have none.
LEMMA StepLock ==
  ASSUME TypeOK, ControlOK, WritersOnly, LockInv, [Next]_vars
  PROVE  LockInv'
<1>1. CASE UNCHANGED vars
  BY <1>1 DEF vars, shared, history, LockInv, LockOK, Locking
<1>2. ASSUME NEW p \in Proc, Acts(p) PROVE LockInv'
  <2>1. OthersUnchanged(p) /\ LockOK(p)' /\ LockMoved(p)
    BY <1>2, OthersKeep, ActsLock DEF LockInv
  <2>2. ASSUME NEW q \in Proc \ {p}, lock[q] = "open" PROVE lockFile' # NoFile /\ lock'[p] # "open"
    BY <2>1, <2>2 DEF LockInv, LockOK, LockMoved
  <2>3. ASSUME NEW q \in Proc \ {p} PROVE LockOK(q)'
    BY <2>1, <2>2, <2>3 DEF OthersUnchanged, LockInv, LockOK, Locking
  <2> QED BY <2>1, <2>2, <2>3 DEF OthersUnchanged, LockInv
<1> QED BY <1>1, <1>2 DEF Next, Acts

\* The invariant, for the theorems on what writers commit.
LEMMA LockCorrect ==
  ASSUME WritersOnly PROVE Spec => [](TypeOK /\ ControlOK /\ LockInv)
<1>1. Init => LockInv
  BY DEF Init, EmptyDirectory, LockInv, LockOK, WriterLabels, Locking, Reloading
<1>2. TypeOK /\ ControlOK /\ LockInv /\ [Next]_vars => LockInv'
  BY WritersOnly, StepLock
<1> QED BY <1>1, <1>2, ControlCorrect, PTL DEF Spec

\* "Takes a global filesystem lock on the ref database": when no process ever
\* compacts and no system call fails, two processes never both have the lock on
\* the list, however many write, clean, die and start again.
THEOREM WritersExclude ==
  ASSUME WritersOnly PROVE Spec => []MutualExclusion
<1>1. LockInv => MutualExclusion
  BY DEF LockInv, MutualExclusion, HasLock
<1> QED BY <1>1, LockCorrect, PTL

-----------------------------------------------------------------------------
(* Order.  The list is the end of a chain of copies: it is read into       *)
(* load.names, becomes the stack by way of load.opened, is extended or     *)
(* spliced into the lock file, and is renamed into place or written over   *)
(* the list through a descriptor whose file someone else has renamed.  The *)
(* inductive invariant says that every link is ordered, and that what a    *)
(* call is about to add fits on top of its stack or in place of its range. *)

FilesOrdered == /\ Ordered(list)
                /\ lockFile # NoFile => Ordered(lockFile)

\* What a reload has opened are the first names of the list that it read.
OpensInOrder(p) ==
  pc[p] = "open" =>
    /\ Ordered(load[p].names)
    /\ Len(load[p].opened) <= Len(load[p].names)
    /\ \A i \in 1..Len(load[p].opened) : load[p].opened[i].name = load[p].names[i]

\* The tables of an addition go on top of the stack, each above the one before.
AddsOnTop(p) ==
  /\ pc[p] \notin {"adding", "rename", "adclose"} => newt[p] = <<>>
  /\ pc[p] = "adding" => Ordered(NamesOf(st[p] \o newt[p]))

\* The table of a compaction covers the range it replaces.
ReplacesRange(p) ==
  /\ pc[p] \in Merging \cup {"install"} => job[p].new = NoName
  /\ pc[p] = "cpwrite" /\ job[p].new # NoName =>
       /\ job[p].new.min = st[p][job[p].first].name.min
       /\ job[p].new.max = st[p][job[p].last].name.max

ProcOrdered(p) == /\ Ordered(NamesOf(st[p]))
                  /\ OpensInOrder(p)
                  /\ AddsOnTop(p)
                  /\ ReplacesRange(p)

OrderInv == FilesOrdered /\ \A p \in Proc : ProcOrdered(p)

-----------------------------------------------------------------------------
(* Sequences of readers *)

\* A reader that starts above a stack in order may be put on top of it.
LEMMA OneMoreTable ==
  ASSUME NEW rs \in Seq(Reader), Ordered(NamesOf(rs)), NEW new \in Reader,
         NextUpdateIndex(rs) <= new.name.min, new.name.min <= new.name.max
  PROVE  Ordered(NamesOf(Append(rs, new)))
<1> DEFINE ns == NamesOf(rs)
           s == NamesOf(Append(rs, new))
<1>1. /\ Append(rs, new) \in Seq(Reader) /\ Len(Append(rs, new)) = Len(rs) + 1
      /\ \A i \in 1..Len(rs) : Append(rs, new)[i] = rs[i]
      /\ Append(rs, new)[Len(rs) + 1] = new /\ Len(rs) \in Nat
  BY AppendProperties
<1>2. /\ ns \in Seq(TableName) /\ Len(ns) = Len(rs)
      /\ \A i \in 1..Len(rs) : ns[i] = rs[i].name
  BY NamesOfType
<1>3. /\ s \in Seq(TableName) /\ Len(s) = Len(rs) + 1
      /\ \A i \in 1..Len(rs) : s[i] = ns[i]
      /\ s[Len(rs) + 1] = new.name
  <2>1. /\ s \in Seq(TableName) /\ Len(s) = Len(rs) + 1
        /\ \A i \in 1..(Len(rs) + 1) : s[i] = Append(rs, new)[i].name
    BY <1>1, NamesOfType
  <2> QED BY <2>1, <1>1, <1>2
<1>4. new.name.min \in Nat /\ new.name.max \in Nat
  BY DEF Reader, TableName
<1> HIDE DEF ns, s
<1>5. ASSUME NEW i \in 1..Len(rs) PROVE ns[i].max < new.name.min
  <2>1. rs # <<>> /\ Len(rs) \in 1..Len(ns) /\ i \in 1..Len(ns)
    BY <1>1, <1>2, EmptySeq
  <2>2. NextUpdateIndex(rs) = ns[Len(rs)].max + 1
    BY <2>1, <1>2 DEF NextUpdateIndex
  <2>3. ns[i].max \in Nat /\ ns[Len(rs)].max \in Nat /\ ns[Len(rs)].min \in Nat
    BY <1>2, <2>1, TableNameFields
  <2>4. ns[i].max <= ns[Len(rs)].max
    <3>1. CASE i = Len(rs)
      BY <3>1, <2>3
    <3>2. CASE i < Len(rs)
      <4>1. ns[i].max < ns[Len(rs)].min /\ ns[Len(rs)].min <= ns[Len(rs)].max
        BY <3>2, <2>1 DEF Ordered, ns
      <4> QED BY <4>1, <2>3
    <3> QED BY <3>1, <3>2, <1>1
  <2> QED BY <2>2, <2>3, <2>4, <1>4
<1>6. ASSUME NEW i \in 1..Len(s) PROVE s[i].min <= s[i].max
  <2>1. CASE i \in 1..Len(rs)
    BY <2>1, <1>2, <1>3 DEF Ordered, ns
  <2>2. CASE i = Len(rs) + 1
    BY <2>2, <1>3
  <2> QED BY <2>1, <2>2, <1>1, <1>3
<1>7. ASSUME NEW i \in 1..Len(s), NEW j \in 1..Len(s), i < j
      PROVE  s[i].max < s[j].min
  <2>1. CASE j \in 1..Len(rs)
    <3>1. i \in 1..Len(ns) /\ j \in 1..Len(ns) /\ s[i] = ns[i] /\ s[j] = ns[j]
      BY <2>1, <1>1, <1>2, <1>3, <1>7
    <3> QED BY <3>1, <1>7 DEF Ordered, ns
  <2>2. CASE j = Len(rs) + 1
    <3>1. i \in 1..Len(rs)
      BY <2>2, <1>1, <1>3, <1>7
    <3> QED BY <2>2, <3>1, <1>3, <1>5
  <2> QED BY <2>1, <2>2, <1>1, <1>3
<1> QED BY <1>6, <1>7 DEF Ordered, s

\* The names of two stacks on top of each other.
LEMMA NamesOfConcat ==
  ASSUME NEW rs \in Seq(Reader), NEW top \in Seq(Reader)
  PROVE  NamesOf(rs \o top) = NamesOf(rs) \o NamesOf(top)
<1> DEFINE all == rs \o top
           a == NamesOf(rs) \o NamesOf(top)
           b == NamesOf(all)
<1>1. /\ all \in Seq(Reader) /\ Len(all) = Len(rs) + Len(top)
      /\ \A i \in 1..Len(all) : all[i] = IF i <= Len(rs) THEN rs[i] ELSE top[i - Len(rs)]
      /\ Len(rs) \in Nat /\ Len(top) \in Nat
  BY ConcatProperties
<1>2. /\ NamesOf(rs) \in Seq(TableName) /\ NamesOf(top) \in Seq(TableName)
      /\ Len(NamesOf(rs)) = Len(rs) /\ Len(NamesOf(top)) = Len(top)
      /\ \A i \in 1..Len(rs) : NamesOf(rs)[i] = rs[i].name
      /\ \A i \in 1..Len(top) : NamesOf(top)[i] = top[i].name
  BY NamesOfType
<1>3. /\ a \in Seq(TableName) /\ Len(a) = Len(rs) + Len(top)
      /\ \A i \in 1..Len(a) : a[i] = IF i <= Len(rs) THEN NamesOf(rs)[i]
                                       ELSE NamesOf(top)[i - Len(rs)]
  <2> DEFINE u == NamesOf(rs)
             v == NamesOf(top)
  <2>1. u \in Seq(TableName) /\ v \in Seq(TableName)
    BY <1>2
  <2>2. Len(u) = Len(rs) /\ Len(v) = Len(top)
    BY <1>2
  <2> HIDE DEF u, v
  <2>3. /\ u \o v \in Seq(TableName) /\ Len(u \o v) = Len(u) + Len(v)
        /\ \A i \in 1..Len(u \o v) : (u \o v)[i] = IF i <= Len(u) THEN u[i] ELSE v[i - Len(u)]
    BY <2>1, ConcatProperties
  <2> QED BY <2>2, <2>3 DEF u, v
<1> HIDE DEF all, a
<1>4. b \in Seq(TableName) /\ Len(b) = Len(all) /\ \A i \in 1..Len(all) : b[i] = all[i].name
  BY <1>1, NamesOfType
<1> HIDE DEF b
<1>5. ASSUME NEW i \in 1..Len(a) PROVE a[i] = b[i]
  <2>1. CASE i <= Len(rs)
    <3>1. i \in 1..Len(rs) /\ i \in 1..Len(all)
      BY <2>1, <1>1, <1>3
    <3> QED BY <2>1, <3>1, <1>1, <1>2, <1>3, <1>4
  <2>2. CASE ~(i <= Len(rs))
    <3>1. i - Len(rs) \in 1..Len(top) /\ i \in 1..Len(all)
      BY <2>2, <1>1, <1>3
    <3> QED BY <2>2, <3>1, <1>1, <1>2, <1>3, <1>4
  <2> QED BY <2>1, <2>2
<1>6. a = b
  BY <1>1, <1>3, <1>4, <1>5, SeqEqual
<1> QED BY <1>6 DEF a, b, all

\* One more table above the tables of a transaction.
LEMMA OneMoreOnTop ==
  ASSUME NEW rs \in Seq(Reader), NEW top \in Seq(Reader), NEW new \in Reader,
         Ordered(NamesOf(rs \o top)), NextUpdateIndex(rs \o top) <= new.name.min,
         new.name.min <= new.name.max
  PROVE  Ordered(NamesOf(rs \o Append(top, new)))
<1>1. rs \o top \in Seq(Reader)
  BY ConcatProperties
<1>2. rs \o Append(top, new) = Append(rs \o top, new)
  OBVIOUS
<1> QED BY <1>1, <1>2, OneMoreTable

\* A transaction starts with the stack alone.
LEMMA NothingOnTop == ASSUME NEW rs \in Seq(Reader) PROVE rs \o <<>> = rs
OBVIOUS

-----------------------------------------------------------------------------
(* The steps of a process on what it has in memory *)

\* What does not change the stack, what was loaded and the addition.
SameMemory(p) == /\ st'[p] = st[p] /\ load'[p] = load[p] /\ newt'[p] = newt[p]
                 /\ job'[p].new = job[p].new

\* A step that leaves the memory alone and goes where nothing new is asked for.
LEMMA MoveOrder ==
  ASSUME NEW p \in Proc, ProcOrdered(p), SameMemory(p), newt[p] = <<>>,
         pc'[p] \notin {"open", "adding", "cpwrite"} \cup Merging \cup {"install"}
  PROVE  ProcOrdered(p)'
BY DEF ProcOrdered, SameMemory, OpensInOrder, AddsOnTop, ReplacesRange

\* A process that forgets everything has nothing out of order.
LEMMA ForgetOrder ==
  ASSUME TypeOK, NEW p \in Proc, NEW k \in {"aborted", "closed"}, Forget(p, k)
  PROVE  ProcOrdered(p)'
<1>1. st'[p] = <<>> /\ newt'[p] = <<>> /\ pc'[p] = k
  BY DEF Forget, Goto, TypeOK, StacksOK, CallsOK
<1>2. Ordered(NamesOf(st[p]))'
  BY <1>1, NamesOfEmpty, OrderedEmpty
<1> QED BY <1>1, <1>2
        DEF ProcOrdered, OpensInOrder, AddsOnTop, ReplacesRange, Merging

\* Neither has one that leaves the reload loop with an ordered stack.
LEMMA EndReloadOrder ==
  ASSUME TypeOK, NEW p \in Proc, ProcOrdered(p), pc[p] \in Reloading,
         NEW k \in {"idle", "auto", "scan", "cpdone", "closed", "adclose"},
         EndReload(p, k), UNCHANGED <<newt, job>>, Ordered(NamesOf(st[p]))'
  PROVE  ProcOrdered(p)'
<1>1. pc'[p] = k
  BY DEF EndReload, Goto, TypeOK, CallsOK
<1>2. newt[p] = <<>>
  BY DEF ProcOrdered, AddsOnTop, Reloading
<1> QED BY <1>1, <1>2
        DEF ProcOrdered, OpensInOrder, AddsOnTop, ReplacesRange, Merging

\* One more table is open, the next of the list.
LEMMA OpenedOrder ==
  ASSUME TypeOK, NEW p \in Proc, ProcOrdered(p), Loading(p),
         NEW new \in Reader, new.name = NextToOpen(p),
         load' = [load EXCEPT ![p].opened = Append(@, new)],
         UNCHANGED <<pc, st, newt, job>>
  PROVE  ProcOrdered(p)'
<1> DEFINE old == load[p].opened
           ns == load[p].names
<1>1. old \in Seq(Reader) /\ ns \in Seq(TableName) /\ pc[p] = "open" /\ Len(old) < Len(ns)
  BY LoadFields DEF Loading
<1>2. load'[p].opened = Append(old, new) /\ load'[p].names = ns
  BY LoadFields DEF TypeOK, StacksOK, Loads
<1>3. /\ Len(Append(old, new)) = Len(old) + 1
      /\ \A i \in 1..Len(old) : Append(old, new)[i] = old[i]
      /\ Append(old, new)[Len(old) + 1] = new
      /\ Len(old) \in Nat /\ Len(ns) \in Nat
  BY <1>1, AppendProperties
<1>4. Ordered(ns) /\ \A i \in 1..Len(old) : old[i].name = ns[i]
  BY <1>1 DEF ProcOrdered, OpensInOrder
<1>5. new.name = ns[Len(old) + 1]
  BY DEF NextToOpen
<1> HIDE DEF old, ns
<1>6. Len(load'[p].opened) <= Len(ns)
  BY <1>1, <1>2, <1>3
<1>7. ASSUME NEW i \in 1..Len(load'[p].opened) PROVE load'[p].opened[i].name = ns[i]
  <2>1. i \in 1..Len(old) \/ i = Len(old) + 1
    BY <1>2, <1>3
  <2> QED BY <2>1, <1>2, <1>3, <1>4, <1>5
<1>8. OpensInOrder(p)'
  BY <1>2, <1>4, <1>6, <1>7 DEF OpensInOrder
<1> QED BY <1>8 DEF ProcOrdered, AddsOnTop, ReplacesRange

\* When all are open the stack they form is in order.
LEMMA LoadedOrder ==
  ASSUME TypeOK, NEW p \in Proc, ProcOrdered(p), pc[p] = "open",
         Len(load[p].opened) = Len(load[p].names)
  PROVE  Ordered(NamesOf(load[p].opened))
<1> DEFINE s == NamesOf(load[p].opened)
<1>1. load[p].opened \in Seq(Reader) /\ load[p].names \in Seq(TableName)
  BY LoadFields
<1>2. /\ s \in Seq(TableName) /\ Len(s) = Len(load[p].opened)
      /\ \A i \in 1..Len(s) : s[i] = load[p].opened[i].name
  BY <1>1, NamesOfType
<1>3. Ordered(load[p].names) /\ \A i \in 1..Len(load[p].opened) :
                                  load[p].opened[i].name = load[p].names[i]
  BY DEF ProcOrdered, OpensInOrder
<1> HIDE DEF s
<1>4. Len(s) <= Len(load[p].names) /\ \A i \in 1..Len(s) : s[i] = load[p].names[i]
  BY <1>2, <1>3, <1>1
<1>5. Ordered(s)
  BY <1>1, <1>2, <1>3, <1>4, OrderedPrefix
<1> QED BY <1>5 DEF s

\* The table of a callback goes on top of the transaction.
LEMMA AddTableOrder ==
  ASSUME TypeOK, TypeOK', NEW p \in Proc, ProcOrdered(p), AddTable(p)
  PROVE  ProcOrdered(p)'
<1>1. /\ pc[p] = "adding" /\ UNCHANGED <<st, load, job>>
      /\ st[p] \in Seq(Reader) /\ newt[p] \in Seq(Reader) /\ newt'[p] \in Seq(Reader)
      /\ Ordered(NamesOf(st[p])) /\ Ordered(NamesOf(st[p] \o newt[p]))
  BY StackNames DEF AddTable, ProcOrdered, AddsOnTop, TypeOK, CallsOK
<1>2. PICK lo \in Nat, hi \in Nat : \E x \in NewNames(lo, hi), b \in Batches :
        /\ NextIndex(p) <= lo /\ lo <= hi
        /\ dir' = With(x, b)
        /\ \/ newt' = [newt EXCEPT ![p] = Append(@, [name |-> x, recs |-> b])]
              /\ UNCHANGED <<pc, ret>>
           \/ /\ Faults
              /\ Goto(p, "adclose") /\ Return(p, "none")
              /\ UNCHANGED newt
  BY AddedTable
<1>3. PICK x \in NewNames(lo, hi), b \in Batches :
        /\ NextIndex(p) <= lo /\ lo <= hi
        /\ \/ newt' = [newt EXCEPT ![p] = Append(@, [name |-> x, recs |-> b])]
              /\ UNCHANGED <<pc, ret>>
           \/ Goto(p, "adclose") /\ UNCHANGED newt
  BY <1>2
<1>4. CASE newt' = [newt EXCEPT ![p] = Append(@, [name |-> x, recs |-> b])] /\ pc' = pc
  <2> DEFINE new == [name |-> x, recs |-> b]
  <2>1. new \in Reader /\ new.name = x
    BY <1>3, NamesAreFresh, BatchAssumption DEF Reader
  <2>2. x.min = lo /\ x.max = hi
    BY <1>3, NamesAreFresh
  <2>3. newt'[p] = Append(newt[p], new)
    BY <1>4 DEF TypeOK, CallsOK
  <2> HIDE DEF new
  <2>4. Ordered(NamesOf(st[p] \o Append(newt[p], new)))
    BY <1>1, <1>3, <2>1, <2>2, OneMoreOnTop DEF NextIndex
  <2> QED BY <1>1, <1>4, <2>3, <2>4
          DEF ProcOrdered, OpensInOrder, AddsOnTop, ReplacesRange, Merging
<1>5. CASE Goto(p, "adclose") /\ UNCHANGED newt
  BY <1>1, <1>5 DEF Goto, TypeOK, CallsOK,
     ProcOrdered, OpensInOrder, AddsOnTop, ReplacesRange, Merging
<1> QED BY <1>3, <1>4, <1>5

\* The merged table gets a name that covers its range.
LEMMA InstallOrder ==
  ASSUME TypeOK, NEW p \in Proc, RangeOK(p), ProcOrdered(p), Install(p)
  PROVE  ProcOrdered(p)'
<1> DEFINE lo == st[p][job[p].first].name.min
           hi == st[p][job[p].last].name.max
<1>1. /\ pc[p] = "install" /\ UNCHANGED <<st, load, newt>> /\ newt[p] = <<>>
      /\ job[p].new = NoName
  BY DEF Install, ProcOrdered, AddsOnTop, ReplacesRange
<1>2. pc'[p] \in {"cpwrite", "cpdone"}
  BY DEF Install, Goto, TypeOK, CallsOK
<1>3. job' = job \/ \E x \in NewNames(lo, hi) : job' = [job EXCEPT ![p].new = x]
  BY DEF Install
<1>4. lo \in Nat /\ hi \in Nat
  <2>1. job[p].first \in 1..Len(st[p]) /\ job[p].last \in 1..Len(st[p])
    BY <1>1, JobFields DEF RangeOK, StackRange, Installing
  <2> QED BY <2>1, StackNames, ReaderFields
<1> HIDE DEF lo, hi
<1>5. ReplacesRange(p)'
  <2>1. CASE job' = job
    BY <2>1, <1>1, <1>2 DEF ReplacesRange, Merging
  <2>2. ASSUME NEW x \in NewNames(lo, hi), job' = [job EXCEPT ![p].new = x]
        PROVE  ReplacesRange(p)'
    <3>1. x.min = lo /\ x.max = hi
      BY <1>4, NamesAreFresh
    <3>2. job'[p].new = x /\ job'[p].first = job[p].first /\ job'[p].last = job[p].last
      BY <2>2, JobFields DEF TypeOK, CallsOK, Jobs
    <3> QED BY <1>1, <1>2, <3>1, <3>2 DEF ReplacesRange, Merging, lo, hi
  <2> QED BY <1>3, <2>1, <2>2
<1> QED BY <1>1, <1>2, <1>5 DEF ProcOrdered, OpensInOrder, AddsOnTop

\* Whatever a process does, its stack and what it is about to add stay in order.
LEMMA ActsOrder ==
  ASSUME TypeOK, TypeOK', NEW p \in Proc, ReturnOK(p), RangeOK(p), FilesOrdered,
         ProcOrdered(p), Acts(p)
  PROVE  ProcOrdered(p)'
<1>1. ASSUME ReadList(p) PROVE ProcOrdered(p)'
  <2>1. /\ pc[p] = "read" /\ pc'[p] = "open" /\ st' = st /\ newt' = newt /\ job' = job
        /\ load'[p].names = list /\ load'[p].opened = <<>>
    BY <1>1 DEF ReadList, Goto, TypeOK, StacksOK, CallsOK
  <2>2. Len(list) \in Nat
    BY DEF TypeOK, FilesOK
  <2>3. OpensInOrder(p)'
    BY <2>1, <2>2, EmptySeq DEF OpensInOrder, FilesOrdered
  <2> QED BY <2>1, <2>3 DEF ProcOrdered, AddsOnTop, ReplacesRange, Merging
<1>2. ASSUME ReuseReader(p) PROVE ProcOrdered(p)'
  <2>1. PICK i \in 1..Len(st[p]) :
          /\ st[p][i].name = NextToOpen(p)
          /\ load' = [load EXCEPT ![p].opened = Append(@, st[p][i])]
    BY <1>2 DEF ReuseReader
  <2>2. st[p][i] \in Reader
    BY StackNames, ReaderFields
  <2> QED BY <1>2, <2>1, <2>2, OpenedOrder DEF ReuseReader
<1>3. ASSUME OpenTable(p) PROVE ProcOrdered(p)'
  <2> DEFINE new == [name |-> NextToOpen(p), recs |-> dir[NextToOpen(p)]]
  <2>1. /\ Loading(p) /\ load' = [load EXCEPT ![p].opened = Append(@, new)]
        /\ UNCHANGED <<pc, st, newt, job>>
    BY <1>3 DEF OpenTable, MustOpen
  <2>2. new.name = NextToOpen(p) /\ new \in Reader
    BY <1>3 DEF TypeOK, FilesOK, OpenTable, Reader
  <2> HIDE DEF new
  <2> QED BY <2>1, <2>2, OpenedOrder
<1>4. ASSUME TableMissing(p) PROVE ProcOrdered(p)'
  <2>1. pc[p] = "open" /\ pc'[p] = "recheck" /\ UNCHANGED <<st, newt, job>>
    BY <1>4 DEF TableMissing, MustOpen, Loading, Goto, TypeOK, CallsOK
  <2> QED BY <2>1 DEF ProcOrdered, OpensInOrder, AddsOnTop, ReplacesRange, Merging
<1>5. ASSUME Recheck(p) PROVE ProcOrdered(p)'
  <2>1. /\ pc[p] = "recheck" /\ pc[p] \in Reloading /\ UNCHANGED <<st, newt, job>>
        /\ AfterFailure[ret[p]] \in {"closed", "idle", "adclose", "cpdone"}
    BY <1>5, ReturnLabels DEF Recheck, Reloading, ReturnOK
  <2>2. CASE EndReload(p, AfterFailure[ret[p]])
    <3>1. Ordered(NamesOf(st[p]))'
      BY <2>1 DEF ProcOrdered
    <3> QED BY <2>1, <2>2, <3>1, EndReloadOrder
  <2>3. CASE Goto(p, "read")
    BY <2>1, <2>3 DEF Goto, ProcOrdered, OpensInOrder, AddsOnTop, ReplacesRange, Merging,
       TypeOK, CallsOK
  <2> QED BY <1>5, <2>2, <2>3 DEF Recheck
<1>6. ASSUME Swap(p) PROVE ProcOrdered(p)'
  <2>1. pc[p] \in Reloading /\ AfterReload[ret[p]] \in {"idle", "auto", "scan", "cpdone"}
    BY <1>6, ReturnLabels DEF Swap, Reloading, ReturnOK
  <2>2. Ordered(NamesOf(st[p]))'
    BY <1>6, StackNames, LoadedOrder DEF Swap, ProcOrdered, TypeOK, StacksOK
  <2> QED BY <1>6, <2>1, <2>2, EndReloadOrder DEF Swap
<1>7. ASSUME CheckLocked(p) PROVE ProcOrdered(p)'
  <2>1. /\ pc[p] = "locked" /\ pc'[p] \in {"read", "adding", "adclose"}
        /\ UNCHANGED <<st, load, newt, job>> /\ newt[p] = <<>> /\ st[p] \in Seq(Reader)
    BY <1>7, StackNames DEF CheckLocked, StartReload, Goto, ProcOrdered, AddsOnTop, TypeOK, CallsOK
  <2> QED BY <2>1, NothingOnTop DEF ProcOrdered, OpensInOrder, AddsOnTop, ReplacesRange, Merging
<1>8. ASSUME AddTable(p) PROVE ProcOrdered(p)'
  BY <1>8, AddTableOrder
<1>9. ASSUME Abandon(p) PROVE ProcOrdered(p)'
  BY <1>9 DEF Abandon, Goto, Return, history, shared, ProcOrdered,
     OpensInOrder, AddsOnTop, ReplacesRange, Merging, TypeOK, StacksOK,
     CallsOK
<1>10. ASSUME CommitNothing(p) PROVE ProcOrdered(p)'
  BY <1>10 DEF CommitNothing, Goto, Return, history, shared, ProcOrdered,
     OpensInOrder, AddsOnTop, ReplacesRange, Merging, TypeOK, StacksOK,
     CallsOK
<1>11. ASSUME CommitWrite(p) PROVE ProcOrdered(p)'
  BY <1>11 DEF CommitWrite, Goto, Return, WriteLock, history, ProcOrdered,
     OpensInOrder, AddsOnTop, ReplacesRange, Merging, TypeOK, StacksOK,
     CallsOK
<1>12. ASSUME CommitRename(p) PROVE ProcOrdered(p)'
  BY <1>12 DEF CommitRename, Goto, Rename, RenameLock, Return, StartReload,
     ProcOrdered, OpensInOrder, AddsOnTop, ReplacesRange, Merging, TypeOK,
     StacksOK, CallsOK
<1>13. ASSUME CommitSyncFails(p) PROVE ProcOrdered(p)'
  BY <1>13 DEF CommitSyncFails, Goto, Rename, RenameLock, Return, ProcOrdered,
     OpensInOrder, AddsOnTop, ReplacesRange, Merging, TypeOK, StacksOK,
     CallsOK
<1>14. ASSUME CommitRenameFails(p) PROVE ProcOrdered(p)'
  BY <1>14 DEF CommitRenameFails, Goto, RenameFails, Return, history, shared,
     ProcOrdered, OpensInOrder, AddsOnTop, ReplacesRange, Merging, TypeOK,
     StacksOK, CallsOK
<1>15. ASSUME AdditionClose(p) PROVE ProcOrdered(p)'
  <2>1. AfterClose[ret[p]] \in {"idle", "adclose", "read", "auto"}
    BY <1>15, ReturnLabels DEF AdditionClose, ReturnOK
  <2>2. /\ pc'[p] \in {"idle", "adclose", "read", "auto"} /\ newt'[p] = <<>>
        /\ UNCHANGED <<st, load, job>>
    BY <1>15, <2>1 DEF AdditionClose, Goto, TypeOK, CallsOK
  <2> QED BY <2>2 DEF ProcOrdered, OpensInOrder, AddsOnTop, ReplacesRange, Merging
<1>16. ASSUME Scan(p) PROVE ProcOrdered(p)'
  BY <1>16 DEF Scan, Goto, history, ProcOrdered, OpensInOrder, AddsOnTop,
     ReplacesRange, Merging, TypeOK, StacksOK, CallsOK
<1>17. ASSUME ScanPanics(p) PROVE ProcOrdered(p)'
  BY <1>17, ForgetOrder DEF ScanPanics
<1>18. ASSUME AutoCompact(p) PROVE ProcOrdered(p)'
  <2>1. pc[p] = "auto" /\ UNCHANGED <<st, load, newt>> /\ newt[p] = <<>>
    BY <1>18 DEF AutoCompact, ProcOrdered, AddsOnTop
  <2>2. CASE Goto(p, "idle")
    BY <2>1, <2>2 DEF Goto, ProcOrdered, OpensInOrder, AddsOnTop, ReplacesRange, Merging,
       TypeOK, CallsOK
  <2>3. ASSUME NEW first, NEW last, NEW e,
               job' = [job EXCEPT ![p] = [first |-> first, last |-> last, next |-> first,
                                          old |-> {}, new |-> NoName, expire |-> e,
                                          relocked |-> FALSE]],
               Goto(p, "cpcheck")
        PROVE  ProcOrdered(p)'
    <3>1. job'[p].new = NoName /\ pc'[p] = "cpcheck"
      BY <2>3 DEF Goto, TypeOK, CallsOK
    <3> QED BY <2>1, <3>1 DEF ProcOrdered, OpensInOrder, AddsOnTop, ReplacesRange, Merging
  <2> QED BY <1>18, <2>2, <2>3 DEF AutoCompact, LockForCompaction
<1>19. ASSUME CompactionCheck(p) PROVE ProcOrdered(p)'
  BY <1>19 DEF CompactionCheck, Goto, UpToDate, history, shared, ProcOrdered,
     OpensInOrder, AddsOnTop, ReplacesRange, Merging, TypeOK, StacksOK,
     CallsOK
<1>20. ASSUME LockTable(p) PROVE ProcOrdered(p)'
  <2> DEFINE n == st[p][job[p].next].name
  <2>1. /\ pc[p] = "cpsub" /\ pc'[p] \in {"cpsub", "cpdone"} /\ UNCHANGED <<st, load, newt>>
        /\ newt[p] = <<>>
        /\ job' = job \/ job' = [job EXCEPT ![p].old = @ \cup {n}, ![p].next = @ + 1]
    BY <1>20 DEF LockTable, Goto, ProcOrdered, AddsOnTop, TypeOK, CallsOK
  <2> HIDE DEF n
  <2>2. job'[p].new = job[p].new
    BY <2>1, JobFields DEF TypeOK, CallsOK, Jobs
  <2> QED BY <2>1, <2>2 DEF ProcOrdered, OpensInOrder, AddsOnTop, ReplacesRange, Merging
<1>21. ASSUME UnlockForMerge(p) PROVE ProcOrdered(p)'
  BY <1>21 DEF UnlockForMerge, CloseLock, Goto, UnlinkLock, history,
     ProcOrdered, OpensInOrder, AddsOnTop, ReplacesRange, Merging, TypeOK,
     StacksOK, CallsOK
<1>22. ASSUME MergeFails(p) PROVE ProcOrdered(p)'
  BY <1>22 DEF MergeFails, Goto, Return, history, shared, ProcOrdered,
     OpensInOrder, AddsOnTop, ReplacesRange, Merging, TypeOK, StacksOK,
     CallsOK
<1>23. ASSUME Relock(p) PROVE ProcOrdered(p)'
  <2>1. /\ pc[p] = "relock" /\ pc'[p] \in {"install", "cpdone"} /\ UNCHANGED <<st, load, newt>>
        /\ newt[p] = <<>>
    BY <1>23 DEF Relock, Goto, ProcOrdered, AddsOnTop, TypeOK, CallsOK
  <2>2. job'[p].new = job[p].new
    BY <1>23, JobFields DEF Relock, TypeOK, CallsOK, Jobs
  <2> QED BY <2>1, <2>2 DEF ProcOrdered, OpensInOrder, AddsOnTop, ReplacesRange, Merging
<1>24. ASSUME Install(p) PROVE ProcOrdered(p)'
  BY <1>24, InstallOrder
<1>25. ASSUME CompactionWrite(p) PROVE ProcOrdered(p)'
  BY <1>25 DEF CompactionWrite, Goto, WriteLock, history, ProcOrdered,
     OpensInOrder, AddsOnTop, ReplacesRange, Merging, TypeOK, StacksOK,
     CallsOK
<1>26. ASSUME CompactionRename(p) PROVE ProcOrdered(p)'
  BY <1>26 DEF CompactionRename, Goto, Rename, RenameLock, history,
     ProcOrdered, OpensInOrder, AddsOnTop, ReplacesRange, Merging, TypeOK,
     StacksOK, CallsOK
<1>27. ASSUME CompactionRenameFails(p) PROVE ProcOrdered(p)'
  BY <1>27 DEF CompactionRenameFails, Goto, RenameFails, history, ProcOrdered,
     OpensInOrder, AddsOnTop, ReplacesRange, Merging, TypeOK, StacksOK,
     CallsOK
<1>28. ASSUME DeleteCompacted(p) PROVE ProcOrdered(p)'
  BY <1>28 DEF DeleteCompacted, Goto, Return, StartReload, history,
     ProcOrdered, OpensInOrder, AddsOnTop, ReplacesRange, Merging, TypeOK,
     StacksOK, CallsOK
<1>29. ASSUME CompactionDone(p) PROVE ProcOrdered(p)'
  BY <1>29 DEF CompactionDone, CloseLock, Goto, LocksToClose, UnlinkLock,
     history, ProcOrdered, OpensInOrder, AddsOnTop, ReplacesRange, Merging,
     TypeOK, StacksOK, CallsOK
<1>30. ASSUME CompactionEnd(p) PROVE ProcOrdered(p)'
  BY <1>30 DEF CompactionEnd, CloseLock, Goto, NoJob, UnlinkLock, history,
     ProcOrdered, OpensInOrder, AddsOnTop, ReplacesRange, Merging, TypeOK,
     StacksOK, CallsOK
<1>31. ASSUME CompactionPanics(p) PROVE ProcOrdered(p)'
  BY <1>31, ForgetOrder DEF CompactionPanics
<1>32. ASSUME Open(p) PROVE ProcOrdered(p)'
  BY <1>32 DEF Open, Goto, Return, StartReload, history, shared, ProcOrdered,
     OpensInOrder, AddsOnTop, ReplacesRange, Merging, TypeOK, StacksOK,
     CallsOK
<1>33. ASSUME LockTaken(p) PROVE ProcOrdered(p)'
  BY <1>33 DEF LockTaken, Goto, Return, StartReload, history, shared,
     ProcOrdered, OpensInOrder, AddsOnTop, ReplacesRange, Merging, TypeOK,
     StacksOK, CallsOK
<1>34. ASSUME CompactAll(p) PROVE ProcOrdered(p)'
  <2>1. pc[p] = "idle" /\ UNCHANGED <<st, load, newt>> /\ newt[p] = <<>>
    BY <1>34 DEF CompactAll, ProcOrdered, AddsOnTop
  <2>2. CASE Goto(p, "idle")
    BY <2>1, <2>2 DEF Goto, ProcOrdered, OpensInOrder, AddsOnTop, ReplacesRange, Merging,
       TypeOK, CallsOK
  <2>3. ASSUME NEW first, NEW last, NEW e,
               job' = [job EXCEPT ![p] = [first |-> first, last |-> last, next |-> first,
                                          old |-> {}, new |-> NoName, expire |-> e,
                                          relocked |-> FALSE]],
               Goto(p, "cpcheck")
        PROVE  ProcOrdered(p)'
    <3>1. job'[p].new = NoName /\ pc'[p] = "cpcheck"
      BY <2>3 DEF Goto, TypeOK, CallsOK
    <3> QED BY <2>1, <3>1 DEF ProcOrdered, OpensInOrder, AddsOnTop, ReplacesRange, Merging
  <2> QED BY <1>34, <2>2, <2>3 DEF CompactAll, LockForCompaction
<1>35. ASSUME Close(p) PROVE ProcOrdered(p)'
  BY <1>35 DEF Close, Goto, history, shared, ProcOrdered, OpensInOrder,
     AddsOnTop, ReplacesRange, Merging, TypeOK, StacksOK, CallsOK
<1>36. ASSUME NEW c \in CallNames, LockList(p, c) PROVE ProcOrdered(p)'
  BY <1>36 DEF LockList, CreateLock, Goto, TakeLock, history, ProcOrdered,
     OpensInOrder, AddsOnTop, ReplacesRange, Merging, TypeOK, StacksOK,
     CallsOK
<1>37. ASSUME CloseRemove(p) PROVE ProcOrdered(p)'
  BY <1>37, ForgetOrder DEF CloseRemove
<1>38. ASSUME GiveUp(p) PROVE ProcOrdered(p)'
  <2>1. pc[p] \in Reloading /\ AfterReload[ret[p]] \in {"idle", "auto", "scan", "cpdone"}
    BY <1>38, ReturnLabels DEF GiveUp, Reloading, ReturnOK
  <2>2. Ordered(NamesOf(st[p]))'
    BY <1>38 DEF GiveUp, ProcOrdered
  <2> QED BY <1>38, <2>1, <2>2, EndReloadOrder DEF GiveUp
<1>39. ASSUME Crash(p) PROVE ProcOrdered(p)'
  BY <1>39, ForgetOrder DEF Crash
<1> QED
  BY <1>1, <1>2, <1>3, <1>4, <1>5, <1>6, <1>7, <1>8, <1>9, <1>10, <1>11,
     <1>12, <1>13, <1>14, <1>15, <1>16, <1>17, <1>18, <1>19, <1>20, <1>21,
     <1>22, <1>23, <1>24, <1>25, <1>26, <1>27, <1>28, <1>29, <1>30, <1>31,
     <1>32, <1>33, <1>34, <1>35, <1>36, <1>37, <1>38, <1>39 DEF Acts,
     StartCall, CallStep, ReloadStep, AdditionStep, CompactionStep

-----------------------------------------------------------------------------
(* The steps of a process on the list *)

\* A commit writes the tables of the transaction on top of the stack.
LEMMA CommitWriteFiles ==
  ASSUME TypeOK, NEW p \in Proc, FilesOrdered, ProcOrdered(p), CommitWrite(p)
  PROVE  FilesOrdered'
<1> DEFINE s == NamesOf(st[p]) \o NamesOf(newt[p])
<1>1. st[p] \in Seq(Reader) /\ newt[p] \in Seq(Reader) /\ pc[p] = "adding"
  BY StackNames DEF CommitWrite
<1>2. Ordered(s)
  BY <1>1, NamesOfConcat DEF ProcOrdered, AddsOnTop
<1>3. list' \in {list, s} /\ lockFile' \in {lockFile, s}
  BY DEF CommitWrite, WriteLock
<1> HIDE DEF s
<1> QED BY <1>2, <1>3 DEF FilesOrdered

\* A compaction writes its table in place of the range it covers, or nothing.
LEMMA CompactionWriteFiles ==
  ASSUME TypeOK, NEW p \in Proc, RangeOK(p), FilesOrdered, ProcOrdered(p),
         CompactionWrite(p)
  PROVE  FilesOrdered'
<1> DEFINE ns == NamesOf(st[p])
           new == Replacement(p)
           s == Spliced(ns, job[p].first, job[p].last, new)
<1>1. /\ pc[p] = "cpwrite" /\ Ordered(ns) /\ ns \in Seq(TableName)
      /\ Len(ns) = Len(st[p]) /\ new \in Seq(TableName)
  BY StackNames DEF CompactionWrite, ProcOrdered
<1>2. /\ job[p].first \in 1..Len(st[p]) /\ job[p].last \in job[p].first..Len(st[p])
      /\ job[p].last \in 1..Len(st[p])
  BY <1>1, JobFields DEF RangeOK, StackRange, Installing
<1>3. /\ ns[job[p].first] = st[p][job[p].first].name
      /\ ns[job[p].last] = st[p][job[p].last].name
  BY <1>2, StackNames, NamesOfType
<1>4. /\ Len(new) <= 1
      /\ new # <<>> => /\ new[1].min = ns[job[p].first].min
                       /\ new[1].max = ns[job[p].last].max
  BY <1>1, <1>3 DEF Replacement, ProcOrdered, ReplacesRange
<1>5. list' \in {list, s} /\ lockFile' \in {lockFile, s}
  BY DEF CompactionWrite, WriteLock
<1> HIDE DEF ns, new
<1>6. Ordered(s)
  BY <1>1, <1>2, <1>4, OrderedSpliced
<1> HIDE DEF s
<1> QED BY <1>5, <1>6 DEF FilesOrdered

\* Every other step leaves the list and the lock file as they are, creates the
\* lock file empty, unlinks it or renames it over the list.
LEMMA ActsFiles ==
  ASSUME TypeOK, NEW p \in Proc, RangeOK(p), FilesOrdered, ProcOrdered(p), Acts(p)
  PROVE  FilesOrdered'
<1>1. ASSUME ReadList(p) PROVE FilesOrdered'
  BY <1>1 DEF ReadList, shared, FilesOrdered
<1>2. ASSUME ReuseReader(p) PROVE FilesOrdered'
  BY <1>2 DEF ReuseReader, shared, FilesOrdered
<1>3. ASSUME OpenTable(p) PROVE FilesOrdered'
  BY <1>3 DEF OpenTable, shared, FilesOrdered
<1>4. ASSUME TableMissing(p) PROVE FilesOrdered'
  BY <1>4 DEF TableMissing, shared, FilesOrdered
<1>5. ASSUME Recheck(p) PROVE FilesOrdered'
  BY <1>5 DEF Recheck, shared, FilesOrdered
<1>6. ASSUME Swap(p) PROVE FilesOrdered'
  BY <1>6 DEF Swap, FilesOrdered
<1>7. ASSUME CheckLocked(p) PROVE FilesOrdered'
  BY <1>7 DEF CheckLocked, shared, FilesOrdered
<1>8. ASSUME AddTable(p) PROVE FilesOrdered'
  BY <1>8 DEF AddTable, FilesOrdered
<1>9. ASSUME Abandon(p) PROVE FilesOrdered'
  BY <1>9 DEF Abandon, shared, FilesOrdered
<1>10. ASSUME CommitNothing(p) PROVE FilesOrdered'
  BY <1>10 DEF CommitNothing, shared, FilesOrdered
<1>11. ASSUME CommitWrite(p) PROVE FilesOrdered'
  BY <1>11, CommitWriteFiles
<1>12. ASSUME CommitRename(p) PROVE FilesOrdered'
  BY <1>12 DEF CommitRename, Rename, RenameLock, FilesOrdered
<1>13. ASSUME CommitSyncFails(p) PROVE FilesOrdered'
  BY <1>13 DEF CommitSyncFails, Rename, RenameLock, FilesOrdered
<1>14. ASSUME CommitRenameFails(p) PROVE FilesOrdered'
  BY <1>14 DEF CommitRenameFails, RenameFails, shared, FilesOrdered
<1>15. ASSUME AdditionClose(p) PROVE FilesOrdered'
  BY <1>15 DEF AdditionClose, CloseLock, UnlinkLock, FilesOrdered
<1>16. ASSUME Scan(p) PROVE FilesOrdered'
  BY <1>16 DEF Scan, FilesOrdered
<1>17. ASSUME ScanPanics(p) PROVE FilesOrdered'
  BY <1>17 DEF ScanPanics, UnlinkLock, FilesOrdered
<1>18. ASSUME AutoCompact(p) PROVE FilesOrdered'
  BY <1>18, OrderedEmpty DEF AutoCompact, CreateLock, LockForCompaction,
     TakeLock, FilesOrdered
<1>19. ASSUME CompactionCheck(p) PROVE FilesOrdered'
  BY <1>19 DEF CompactionCheck, shared, FilesOrdered
<1>20. ASSUME LockTable(p) PROVE FilesOrdered'
  BY <1>20 DEF LockTable, FilesOrdered
<1>21. ASSUME UnlockForMerge(p) PROVE FilesOrdered'
  BY <1>21 DEF UnlockForMerge, CloseLock, UnlinkLock, FilesOrdered
<1>22. ASSUME MergeFails(p) PROVE FilesOrdered'
  BY <1>22 DEF MergeFails, shared, FilesOrdered
<1>23. ASSUME Relock(p) PROVE FilesOrdered'
  BY <1>23, OrderedEmpty DEF Relock, CreateLock, TakeLock, FilesOrdered
<1>24. ASSUME Install(p) PROVE FilesOrdered'
  BY <1>24 DEF Install, FilesOrdered
<1>25. ASSUME CompactionWrite(p) PROVE FilesOrdered'
  BY <1>25, CompactionWriteFiles
<1>26. ASSUME CompactionRename(p) PROVE FilesOrdered'
  BY <1>26 DEF CompactionRename, Rename, RenameLock, FilesOrdered
<1>27. ASSUME CompactionRenameFails(p) PROVE FilesOrdered'
  BY <1>27 DEF CompactionRenameFails, RenameFails, FilesOrdered
<1>28. ASSUME DeleteCompacted(p) PROVE FilesOrdered'
  BY <1>28 DEF DeleteCompacted, FilesOrdered
<1>29. ASSUME CompactionDone(p) PROVE FilesOrdered'
  BY <1>29 DEF CompactionDone, CloseLock, UnlinkLock, FilesOrdered
<1>30. ASSUME CompactionEnd(p) PROVE FilesOrdered'
  BY <1>30 DEF CompactionEnd, CloseLock, UnlinkLock, FilesOrdered
<1>31. ASSUME CompactionPanics(p) PROVE FilesOrdered'
  BY <1>31 DEF CompactionPanics, UnlinkLock, FilesOrdered
<1>32. ASSUME Open(p) PROVE FilesOrdered'
  BY <1>32 DEF Open, shared, FilesOrdered
<1>33. ASSUME LockTaken(p) PROVE FilesOrdered'
  BY <1>33 DEF LockTaken, shared, FilesOrdered
<1>34. ASSUME CompactAll(p) PROVE FilesOrdered'
  BY <1>34, OrderedEmpty DEF CompactAll, CreateLock, LockForCompaction,
     TakeLock, FilesOrdered
<1>35. ASSUME Close(p) PROVE FilesOrdered'
  BY <1>35 DEF Close, shared, FilesOrdered
<1>36. ASSUME NEW c \in CallNames, LockList(p, c) PROVE FilesOrdered'
  BY <1>36, OrderedEmpty DEF LockList, CreateLock, TakeLock, FilesOrdered
<1>37. ASSUME CloseRemove(p) PROVE FilesOrdered'
  BY <1>37 DEF CloseRemove, FilesOrdered
<1>38. ASSUME GiveUp(p) PROVE FilesOrdered'
  BY <1>38 DEF GiveUp, shared, FilesOrdered
<1>39. ASSUME Crash(p) PROVE FilesOrdered'
  BY <1>39 DEF Crash, shared, FilesOrdered
<1> QED
  BY <1>1, <1>2, <1>3, <1>4, <1>5, <1>6, <1>7, <1>8, <1>9, <1>10, <1>11,
     <1>12, <1>13, <1>14, <1>15, <1>16, <1>17, <1>18, <1>19, <1>20, <1>21,
     <1>22, <1>23, <1>24, <1>25, <1>26, <1>27, <1>28, <1>29, <1>30, <1>31,
     <1>32, <1>33, <1>34, <1>35, <1>36, <1>37, <1>38, <1>39 DEF Acts,
     StartCall, CallStep, ReloadStep, AdditionStep, CompactionStep

-----------------------------------------------------------------------------
(* The theorem *)

\* Every step of every process keeps the invariant: the memory of the others
\* stays, and neither their stacks nor their reloads look at the files again.
LEMMA StepOrder ==
  ASSUME TypeOK, TypeOK', ControlOK, OrderInv, [Next]_vars
  PROVE  OrderInv'
<1>1. CASE UNCHANGED vars
  BY <1>1 DEF vars, shared, OrderInv, FilesOrdered, ProcOrdered, OpensInOrder, AddsOnTop,
              ReplacesRange
<1>2. ASSUME NEW p \in Proc, Acts(p) PROVE OrderInv'
  <2>1. OthersUnchanged(p) /\ FilesOrdered' /\ ProcOrdered(p)'
    BY <1>2, OthersKeep, ActsFiles, ActsOrder DEF ControlOK, OrderInv
  <2>2. ASSUME NEW q \in Proc \ {p} PROVE ProcOrdered(q)'
    BY <2>1, <2>2, SMTT(20) DEF OthersUnchanged, OrderInv, ProcOrdered, OpensInOrder, AddsOnTop,
                      ReplacesRange
  <2> QED BY <2>1, <2>2 DEF OrderInv
<1> QED BY <1>1, <1>2 DEF Next, Acts

\* The tables of the list and of every open stack cover update indexes in
\* strictly increasing ranges, whatever fails, whoever dies, with any number of
\* tables in a transaction (Addition.Add moves nextUpdateIndex past every table
\* it has), and also while two processes both think they hold the lock on the
\* list: they may lose each other's tables, but never put them out of order.
THEOREM OrderedLists == Spec => []ListOrdered
<1>1. Init => OrderInv
  <2>1. NamesOf(<<>>) = <<>>
    BY NamesOfEmpty
  <2> QED BY <2>1, OrderedEmpty
          DEF Init, EmptyDirectory, OrderInv, FilesOrdered, ProcOrdered, OpensInOrder,
              AddsOnTop, ReplacesRange, Merging
<1>2. TypeOK /\ TypeOK' /\ ControlOK /\ OrderInv /\ [Next]_vars => OrderInv'
  BY StepOrder
<1>3. OrderInv => ListOrdered
  BY DEF OrderInv, FilesOrdered, ProcOrdered, ListOrdered
<1> QED BY <1>1, <1>2, <1>3, ControlCorrect, PTL DEF Spec
=============================================================================
