---------------------------- MODULE CStackProofs ----------------------------
(***************************************************************************)
(* Theorems about CStack, for any processes, references, calls and bounds. *)
(***************************************************************************)
EXTENDS CStack, TablesProofs

-----------------------------------------------------------------------------
(* Types.  A reload and the close of an addition return to where ret says, *)
(* and a compaction indexes the stack with the range it was given, so the  *)
(* types need to know which values the two have at which step.             *)

Reloading  == {"uptodate", "read", "open", "recheck"}
Compacting == {"cpcheck", "cpsub", "merge", "relock", "install",
               "cpwrite"}

ReturnOK(p) ==
  /\ pc[p] \in Reloading => ret[p] \in {"open", "plain", "auto", "scan", "delete"}
  /\ pc[p] \in {"adding", "rename", "scan"} => ret[p] = "none"
  /\ pc[p] = "adclose" => ret[p] \in {"none", "plain", "scan", "auto"}

RangeOK(p) ==
  pc[p] \in Compacting =>
    /\ job[p].first \in 1..Len(st[p])
    /\ job[p].last \in job[p].first..Len(st[p])
    /\ job[p].next \in job[p].first..(job[p].last + 1)

ControlOK == \A p \in Proc : ReturnOK(p) /\ RangeOK(p)

\* The initial state is typed, and no process is inside a call.
LEMMA InitTypes == Init => TypeOK /\ ControlOK
<1> SUFFICES ASSUME Init PROVE TypeOK /\ ControlOK
  OBVIOUS
<1>1. ControlOK
  BY DEF Init, ControlOK, ReturnOK, RangeOK, Reloading, Compacting
<1>2. FilesOK /\ StacksOK
  BY DEF Init, EmptyDirectory, FilesOK, StacksOK
<1>3. CallsOK
  BY DEF Init, EmptyDirectory, CallsOK, Labels, Returns, Jobs, NoJob
<1>4. HistoryOK
  BY NoRecsTypes, BoundsAssumption DEF Init, HistoryOK
<1> QED BY <1>1, <1>2, <1>3, <1>4 DEF TypeOK

\* Where control goes when a reload or the close of an addition is done.
LEMMA ReturnLabels ==
  /\ \A x \in {"open", "plain", "auto", "scan", "delete"} :
       /\ AfterReload[x] \in {"idle", "auto", "scan", "delete"}
       /\ AfterFailure[x] \in {"closed", "idle", "adclose", "delete"}
  /\ \A x \in {"none", "plain", "scan", "auto"} :
       AfterClose[x] \in {"idle", "uptodate", "auto"}
  /\ AfterClose["none"] = "idle" /\ AfterClose["auto"] = "auto"
  /\ AfterClose["plain"] = "uptodate" /\ AfterClose["scan"] = "uptodate"
BY DEF AfterReload, AfterFailure, AfterClose

\* A process that leaves the reload loop forgets the list it read.
LEMMA EndReloadTypes ==
  ASSUME TypeOK, NEW p \in Proc,
         NEW k \in {"idle", "auto", "scan", "delete", "closed", "adclose"},
         EndReload(p, k)
  PROVE  /\ pc' \in [Proc -> Labels] /\ ret' \in [Proc -> Returns]
         /\ names' \in [Proc -> Seq(TableName)]
         /\ opened' \in [Proc -> Seq(Reader)]
         /\ reuse' \in [Proc -> BOOLEAN] /\ tries' \in [Proc -> Nat]
         /\ readAt' \in [Proc -> Nat]
         /\ pc'[p] \in {k, "idle"} /\ ret'[p] = "none"
         /\ \A q \in Proc \ {p} : pc'[q] = pc[q] /\ ret'[q] = ret[q]
BY DEF EndReload, Goto, TypeOK, StacksOK, CallsOK, HistoryOK, Labels, Returns

\* What a step of p does not touch stays as it was for the other processes.
LEMMA OtherControl ==
  ASSUME ControlOK, NEW p \in Proc, ReturnOK(p)', RangeOK(p)',
         \A q \in Proc \ {p} : /\ pc'[q] = pc[q] /\ ret'[q] = ret[q]
                               /\ job'[q] = job[q] /\ st'[q] = st[q]
  PROVE  ControlOK'
BY DEF ControlOK, ReturnOK, RangeOK

\* The same for a step that changes neither a stack nor a compaction.
LEMMA EndReloadControl ==
  ASSUME TypeOK, ControlOK, NEW p \in Proc,
         NEW k \in {"idle", "auto", "scan", "delete", "closed", "adclose"},
         EndReload(p, k), UNCHANGED job,
         \A q \in Proc \ {p} : st'[q] = st[q]
  PROVE  ControlOK'
<1>1. /\ pc'[p] \in {"idle", "auto", "scan", "delete", "closed", "adclose"}
      /\ ret'[p] = "none"
      /\ \A q \in Proc \ {p} : pc'[q] = pc[q] /\ ret'[q] = ret[q]
  BY EndReloadTypes
<1>2. ReturnOK(p)' /\ RangeOK(p)'
  BY <1>1 DEF ReturnOK, RangeOK, Reloading, Compacting
<1> QED BY <1>1, <1>2, OtherControl

\* The fields of a compaction, and the readers its range stands for.
LEMMA JobFields ==
  ASSUME TypeOK, NEW p \in Proc
  PROVE  /\ job[p] \in Jobs
         /\ job[p].first \in Nat /\ job[p].last \in Nat /\ job[p].next \in Nat
         /\ job[p].old \subseteq TableName
         /\ job[p].new \in TableName \cup {NoName}
         /\ job[p].held \in BOOLEAN
BY DEF TypeOK, CallsOK, Jobs

\* A pair of a name and a content is a reader with these fields.
LEMMA ReaderFields ==
  ASSUME TypeOK, NEW p \in Proc, NEW i \in 1..Len(st[p])
  PROVE  /\ st[p][i] \in Reader
         /\ st[p][i].name \in TableName
         /\ st[p][i].name.min \in Nat /\ st[p][i].name.max \in Nat
         /\ st[p][i].recs \in Contents
<1>1. st[p] \in Seq(Reader)
  BY DEF TypeOK, StacksOK
<1>2. st[p][i] \in Reader
  BY <1>1, ElementOfSeq
<1> QED BY <1>2 DEF Reader, TableName

\* format_name yields a name of the range it is given.
LEMMA NamesAreFresh ==
  ASSUME NEW lo \in Nat, NEW hi \in Nat, NEW x \in NewNames(lo, hi)
  PROVE  x \in TableName /\ x.min = lo /\ x.max = hi
<1> DEFINE any == {[min |-> lo, max |-> hi, sfx |-> y] : y \in Suffixes}
<1>1. x \in any
  BY DEF NewNames
<1> QED BY <1>1 DEF TableName

\* next_update_index is a number.
LEMMA NextIndexType ==
  ASSUME TypeOK, NEW p \in Proc
  PROVE  NextUpdateIndex(st[p]) \in Nat
<1>1. st[p] \in Seq(Reader)
  BY DEF TypeOK, StacksOK
<1>2. CASE st[p] = <<>>
  BY <1>2 DEF NextUpdateIndex
<1>3. CASE st[p] # <<>>
  <2>1. Len(st[p]) \in 1..Len(st[p])
    BY <1>1, <1>3, EmptySeq
  <2> QED BY <2>1, <1>3, ReaderFields DEF NextUpdateIndex
<1> QED BY <1>2, <1>3

\* The names a process would write into the list are names.
LEMMA StackNames ==
  ASSUME TypeOK, NEW p \in Proc
  PROVE  /\ NamesOf(st[p]) \in Seq(TableName) /\ NamesOf(newt[p]) \in Seq(TableName)
         /\ RecsOf(newt[p]) \in Seq(Contents)
         /\ Len(NamesOf(st[p])) = Len(st[p])
         /\ Replacement(p) \in Seq(TableName)
<1>1. st[p] \in Seq(Reader) /\ newt[p] \in Seq(Reader)
  BY DEF TypeOK, StacksOK, CallsOK
<1>2. Replacement(p) \in Seq(TableName)
  BY JobFields DEF Replacement
<1> QED BY <1>1, <1>2, NamesOfType

\* The table of a callback starts at the next update index or above.
LEMMA AddedTable ==
  ASSUME TypeOK, NEW p \in Proc, AddTable(p)
  PROVE  \E lo \in Nat, hi \in Nat : \E x \in NewNames(lo, hi), b \in Batches :
           /\ NextUpdateIndex(st[p]) <= lo /\ lo <= hi
           /\ dir' = With(x, b)
           /\ newt' = [newt EXCEPT ![p] = Append(@, [name |-> x, recs |-> b])]
<1>1. PICK lo \in NextUpdateIndex(st[p])..(NextUpdateIndex(st[p]) + MaxGap) :
     \E hi \in lo..(lo + MaxGap) : \E x \in NewNames(lo, hi), b \in Batches :
       /\ dir' = With(x, b)
       /\ newt' = [newt EXCEPT ![p] = Append(@, [name |-> x, recs |-> b])]
  BY DEF AddTable
<1>2. PICK hi \in lo..(lo + MaxGap) : \E x \in NewNames(lo, hi), b \in Batches :
       /\ dir' = With(x, b)
       /\ newt' = [newt EXCEPT ![p] = Append(@, [name |-> x, recs |-> b])]
  BY <1>1
<1>3. lo \in Nat /\ hi \in Nat /\ NextUpdateIndex(st[p]) <= lo /\ lo <= hi
  BY NextIndexType, BoundsAssumption
<1> QED BY <1>2, <1>3

\* A compaction starts with a range of the stack, or not at all.
LEMMA LockForCompactionTypes ==
  ASSUME TypeOK, ControlOK, NEW p \in Proc, NEW first \in 1..Len(st[p]),
         NEW last \in first..Len(st[p]), LockForCompaction(p, first, last),
         UNCHANGED <<dir, list, tlocks, st, health, loading, ret, fdAt, newt,
                     call, crashes, temps, history>>
  PROVE  TypeOK' /\ ControlOK'
<1> DEFINE j == [first |-> first, last |-> last, next |-> first, old |-> {},
                 new |-> NoName, held |-> TRUE]
<1>1. first \in Nat /\ last \in Nat /\ first \in first..(last + 1)
  BY DEF TypeOK, StacksOK
<1>2. FilesOK' /\ StacksOK' /\ HistoryOK'
  BY EmptySeq DEF LockForCompaction, CreateLock, loading, history,
                  TypeOK, FilesOK, StacksOK, HistoryOK
<1>3. j \in Jobs
  BY <1>1 DEF Jobs
<1>4. \/ pc' = [pc EXCEPT ![p] = "cpcheck"] /\ job' = [job EXCEPT ![p] = j]
      \/ pc' = [pc EXCEPT ![p] = "idle"] /\ job' = job
  BY DEF LockForCompaction, Goto
<1>5. j.first = first /\ j.last = last /\ j.next = first
  OBVIOUS
<1> HIDE DEF j
<1>6. CallsOK'
  BY <1>3, <1>4 DEF TypeOK, CallsOK, Labels
<1>7. ReturnOK(p)' /\ RangeOK(p)'
  BY <1>1, <1>4, <1>5
     DEF TypeOK, CallsOK, ReturnOK, RangeOK, Reloading, Compacting
<1>8. ControlOK'
  BY <1>4, <1>7, OtherControl DEF TypeOK, CallsOK
<1> QED BY <1>2, <1>6, <1>8 DEF TypeOK

\* Reftable_stack_reload comparing the list with the stack keeps the types.
LEMMA ReloadCheckTypes ==
  ASSUME TypeOK, ControlOK, NEW p \in Proc, ReloadCheck(p)
  PROVE  TypeOK' /\ ControlOK'
<1>1. ret[p] \in {"open", "plain", "auto", "scan", "delete"}
  BY DEF ControlOK, ReturnOK, ReloadCheck, Reloading
<1>2. FilesOK'
  BY DEF TypeOK, FilesOK, ReloadCheck, shared
<1>3. CASE UpToDate(p) /\ EndReload(p, AfterReload[ret[p]])
            /\ ver' = [ver EXCEPT ![p] = Len(hist)]
  <2>1. AfterReload[ret[p]] \in {"idle", "auto", "scan", "delete"}
    BY <1>1, ReturnLabels
  <2>2. StacksOK' /\ CallsOK'
    BY <1>3, <2>1, EndReloadTypes DEF TypeOK, StacksOK, CallsOK, ReloadCheck
  <2>3. Len(hist) \in Nat
    BY DEF TypeOK, HistoryOK
  <2>4. HistoryOK'
    BY <1>3, <2>1, <2>3, EndReloadTypes DEF TypeOK, HistoryOK, ReloadCheck
  <2>5. ControlOK'
    BY <1>3, <2>1, EndReloadControl DEF ReloadCheck
  <2> QED BY <1>2, <2>2, <2>4, <2>5 DEF TypeOK
<1>4. CASE Goto(p, "read") /\ StartReload(p, TRUE) /\ UNCHANGED <<ret, ver>>
  <2>1. StacksOK' /\ CallsOK' /\ HistoryOK'
    BY <1>4 DEF TypeOK, StacksOK, CallsOK, HistoryOK, ReloadCheck, StartReload,
                Goto, Labels
  <2>2. ReturnOK(p)' /\ RangeOK(p)'
    BY <1>1, <1>4 DEF TypeOK, CallsOK, Goto, ReturnOK, RangeOK, Reloading, Compacting
  <2>3. ControlOK'
    BY <1>4, <2>2, OtherControl DEF Goto, ReloadCheck, TypeOK, CallsOK
  <2> QED BY <1>2, <2>1, <2>3 DEF TypeOK
<1> QED BY <1>3, <1>4 DEF ReloadCheck

\* Reload_maybe_reuse reading the list keeps the types.
LEMMA ReadListTypes ==
  ASSUME TypeOK, ControlOK, NEW p \in Proc, ReadList(p)
  PROVE  TypeOK' /\ ControlOK'
<1>1. FilesOK'
  BY DEF TypeOK, FilesOK, ReadList, Goto, history, shared
<1>2. StacksOK'
  BY DEF TypeOK, FilesOK, StacksOK, ReadList, Goto, history, shared
<1>3. CallsOK'
  BY DEF TypeOK, StacksOK, CallsOK, ControlOK, ReturnOK, RangeOK, ReadList,
    Goto, history, shared, Reloading, Compacting, Labels, Returns, Jobs
<1>4. HistoryOK'
  BY DEF TypeOK, HistoryOK, ReadList, Goto, history, shared
<1>5. ControlOK'
  BY DEF TypeOK, StacksOK, CallsOK, ReadList, Goto, history, shared, ControlOK,
    ReturnOK, RangeOK, Reloading, Compacting, Jobs
<1> QED BY <1>1, <1>2, <1>3, <1>4, <1>5 DEF TypeOK

\* Reload_once taking over an open reader keeps the types.
LEMMA ReuseReaderTypes ==
  ASSUME TypeOK, ControlOK, NEW p \in Proc, ReuseReader(p)
  PROVE  TypeOK' /\ ControlOK'
<1>1. FilesOK'
  BY DEF TypeOK, FilesOK, ReuseReader, NextToOpen, history, shared
<1>2. StacksOK'
  BY DEF TypeOK, FilesOK, StacksOK, ReuseReader, NextToOpen, history, shared
<1>3. CallsOK'
  BY DEF TypeOK, CallsOK, ReuseReader, NextToOpen, history, shared
<1>4. HistoryOK'
  BY DEF TypeOK, HistoryOK, ReuseReader, NextToOpen, history, shared
<1>5. ControlOK'
  BY DEF TypeOK, StacksOK, CallsOK, ReuseReader, NextToOpen, history, shared,
    ControlOK, ReturnOK, RangeOK, Reloading, Compacting, Jobs
<1> QED BY <1>1, <1>2, <1>3, <1>4, <1>5 DEF TypeOK

\* Reload_once opening a table keeps the types.
LEMMA OpenTableTypes ==
  ASSUME TypeOK, ControlOK, NEW p \in Proc, OpenTable(p)
  PROVE  TypeOK' /\ ControlOK'
<1>1. FilesOK'
  BY DEF TypeOK, FilesOK, OpenTable, MustOpen, NextToOpen, history, shared
<1>2. StacksOK'
  <2> DEFINE new == [name |-> NextToOpen(p), recs |-> dir[NextToOpen(p)]]
  <2>1. new \in Reader
    BY DEF TypeOK, FilesOK, OpenTable, Reader
  <2>2. opened' = [opened EXCEPT ![p] = Append(@, new)]
    BY DEF OpenTable
  <2> HIDE DEF new
  <2>3. opened' \in [Proc -> Seq(Reader)]
    BY <2>1, <2>2 DEF TypeOK, StacksOK
  <2> QED BY <2>3 DEF TypeOK, StacksOK, OpenTable
<1>3. CallsOK'
  BY DEF TypeOK, CallsOK, OpenTable, MustOpen, NextToOpen, history, shared
<1>4. HistoryOK'
  BY DEF TypeOK, HistoryOK, OpenTable, MustOpen, NextToOpen, history, shared
<1>5. ControlOK'
  BY DEF TypeOK, StacksOK, CallsOK, OpenTable, MustOpen, NextToOpen, history,
    shared, ControlOK, ReturnOK, RangeOK, Reloading, Compacting, Jobs
<1> QED BY <1>1, <1>2, <1>3, <1>4, <1>5 DEF TypeOK

\* Reload_once meeting a table that is gone keeps the types.
LEMMA TableMissingTypes ==
  ASSUME TypeOK, ControlOK, NEW p \in Proc, TableMissing(p)
  PROVE  TypeOK' /\ ControlOK'
<1>1. FilesOK'
  BY DEF TypeOK, FilesOK, TableMissing, Goto, MustOpen, NextToOpen, history,
    shared
<1>2. StacksOK'
  BY DEF TypeOK, FilesOK, StacksOK, TableMissing, Goto, MustOpen, NextToOpen,
    history, shared
<1>3. CallsOK'
  BY DEF TypeOK, StacksOK, CallsOK, ControlOK, ReturnOK, RangeOK, TableMissing,
    Goto, MustOpen, NextToOpen, history, shared, Reloading, Compacting,
    Labels, Returns, Jobs
<1>4. HistoryOK'
  BY DEF TypeOK, HistoryOK, TableMissing, Goto, MustOpen, NextToOpen, history,
    shared
<1>5. ControlOK'
  BY DEF TypeOK, StacksOK, CallsOK, TableMissing, Goto, MustOpen, NextToOpen,
    history, shared, ControlOK, ReturnOK, RangeOK, Reloading, Compacting, Jobs
<1> QED BY <1>1, <1>2, <1>3, <1>4, <1>5 DEF TypeOK

\* Reload_maybe_reuse reading the list again keeps the types.
LEMMA RecheckTypes ==
  ASSUME TypeOK, ControlOK, NEW p \in Proc, Recheck(p)
  PROVE  TypeOK' /\ ControlOK'
<1>1. ret[p] \in {"open", "plain", "auto", "scan", "delete"}
  BY DEF ControlOK, ReturnOK, Recheck, Reloading
<1>2. FilesOK'
  BY DEF TypeOK, FilesOK, Recheck, shared
<1>3. CASE EndReload(p, AfterFailure[ret[p]])
  <2>1. AfterFailure[ret[p]] \in {"closed", "idle", "adclose", "delete"}
    BY <1>1, ReturnLabels
  <2>2. StacksOK' /\ CallsOK' /\ HistoryOK'
    <3>1. /\ names' \in [Proc -> Seq(TableName)] /\ opened' \in [Proc -> Seq(Reader)]
          /\ reuse' \in [Proc -> BOOLEAN] /\ tries' \in [Proc -> Nat]
          /\ readAt' \in [Proc -> Nat]
      BY <1>3, <2>1, EndReloadTypes
    <3>2. pc' \in [Proc -> Labels] /\ ret' \in [Proc -> Returns]
      BY <1>3, <2>1, EndReloadTypes
    <3>3. StacksOK'
      BY <3>1 DEF TypeOK, StacksOK, Recheck
    <3>4. CallsOK'
      BY <3>2 DEF TypeOK, CallsOK, Recheck
    <3>5. HistoryOK'
      BY <3>1 DEF TypeOK, HistoryOK, Recheck, history
    <3> QED BY <3>3, <3>4, <3>5
  <2>3. ControlOK'
    BY <1>3, <2>1, EndReloadControl DEF Recheck
  <2> QED BY <1>2, <2>2, <2>3 DEF TypeOK
<1>4. CASE Goto(p, "read") /\ UNCHANGED <<loading, ret>>
  <2>1. StacksOK' /\ CallsOK' /\ HistoryOK'
    BY <1>4 DEF TypeOK, StacksOK, CallsOK, HistoryOK, Recheck, loading, history,
                Goto, Labels
  <2>2. ReturnOK(p)' /\ RangeOK(p)'
    BY <1>1, <1>4 DEF TypeOK, CallsOK, Goto, ReturnOK, RangeOK, Reloading, Compacting
  <2>3. ControlOK'
    BY <1>4, <2>2, OtherControl DEF Goto, Recheck, TypeOK, CallsOK
  <2> QED BY <1>2, <2>1, <2>3 DEF TypeOK
<1> QED BY <1>3, <1>4 DEF Recheck

\* Reload_once installing the new readers keeps the types.
LEMMA SwapTypes ==
  ASSUME TypeOK, ControlOK, NEW p \in Proc, Swap(p)
  PROVE  TypeOK' /\ ControlOK'
<1>0. AfterReload[ret[p]] \in {"idle", "auto", "scan", "delete"}
  BY ReturnLabels DEF ControlOK, ReturnOK, Swap, Reloading
<1>1. FilesOK'
  BY DEF TypeOK, FilesOK, StacksOK, CallsOK, Swap, AfterReload, Dropped,
    EndReload, Goto, Without
<1>2. StacksOK'
  BY DEF TypeOK, FilesOK, StacksOK, Swap, AfterReload, Dropped, EndReload, Goto,
    Without
<1>3. CallsOK'
  BY DEF TypeOK, StacksOK, CallsOK, ControlOK, ReturnOK, RangeOK, Swap,
    AfterReload, Dropped, EndReload, Goto, Without, Reloading, Compacting,
    Labels, Returns, Jobs
<1>4. HistoryOK'
  BY DEF TypeOK, HistoryOK, Swap, AfterReload, Dropped, EndReload, Goto, Without
<1>5. ControlOK'
  <2>1. EndReload(p, AfterReload[ret[p]]) /\ UNCHANGED job
    BY DEF Swap
  <2>2. \A q \in Proc \ {p} : st'[q] = st[q]
    BY DEF Swap, TypeOK, StacksOK
  <2> QED BY <1>0, <2>1, <2>2, EndReloadControl
<1> QED BY <1>1, <1>2, <1>3, <1>4, <1>5 DEF TypeOK

\* A process that dies of freed readers keeps the types.
LEMMA UseAfterFreeTypes ==
  ASSUME TypeOK, ControlOK, NEW p \in Proc, UseAfterFree(p)
  PROVE  TypeOK' /\ ControlOK'
<1>1. FilesOK'
  BY DEF TypeOK, FilesOK, UseAfterFree, Forget, Goto, NoJob, TouchPoints, shared
<1>2. StacksOK'
  BY DEF TypeOK, FilesOK, StacksOK, UseAfterFree, Forget, Goto, NoJob,
    TouchPoints, shared
<1>3. CallsOK'
  BY DEF TypeOK, StacksOK, CallsOK, ControlOK, ReturnOK, RangeOK, UseAfterFree,
    Forget, Goto, NoJob, TouchPoints, shared, Reloading, Compacting, Labels,
    Returns, Jobs
<1>4. HistoryOK'
  BY DEF TypeOK, HistoryOK, UseAfterFree, Forget, Goto, NoJob, TouchPoints,
    shared
<1>5. ControlOK'
  BY DEF TypeOK, StacksOK, CallsOK, UseAfterFree, Forget, Goto, NoJob,
    TouchPoints, shared, ControlOK, ReturnOK, RangeOK, Reloading, Compacting,
    Jobs
<1> QED BY <1>1, <1>2, <1>3, <1>4, <1>5 DEF TypeOK

\* Reload_maybe_reuse past its deadline keeps the types.
LEMMA GiveUpTypes ==
  ASSUME TypeOK, ControlOK, NEW p \in Proc, GiveUp(p)
  PROVE  TypeOK' /\ ControlOK'
<1>0. AfterReload[ret[p]] \in {"idle", "auto", "scan", "delete"}
  BY ReturnLabels DEF ControlOK, ReturnOK, GiveUp, Reloading
<1>1. FilesOK'
  BY DEF TypeOK, FilesOK, GiveUp, AfterReload, EndReload, Goto, history, shared
<1>2. StacksOK'
  BY DEF TypeOK, FilesOK, StacksOK, GiveUp, AfterReload, EndReload, Goto,
    history, shared
<1>3. CallsOK'
  BY DEF TypeOK, StacksOK, CallsOK, ControlOK, ReturnOK, RangeOK, GiveUp,
    AfterReload, EndReload, Goto, history, shared, Reloading, Compacting,
    Labels, Returns, Jobs
<1>4. HistoryOK'
  BY DEF TypeOK, HistoryOK, GiveUp, AfterReload, EndReload, Goto, history,
    shared
<1>5. ControlOK'
  BY <1>0, EndReloadControl DEF GiveUp
<1> QED BY <1>1, <1>2, <1>3, <1>4, <1>5 DEF TypeOK

\* The up-to-date check of init_addition keeps the types.
LEMMA CheckLockedTypes ==
  ASSUME TypeOK, ControlOK, NEW p \in Proc, CheckLocked(p)
  PROVE  TypeOK' /\ ControlOK'
<1>1. FilesOK'
  BY DEF TypeOK, FilesOK, CheckLocked, Goto, UpToDate, loading, shared
<1>2. StacksOK'
  BY DEF TypeOK, StacksOK, CheckLocked, Goto, UpToDate, loading, shared
<1>3. CallsOK'
  BY DEF TypeOK, StacksOK, CallsOK, ControlOK, ReturnOK, RangeOK, CheckLocked,
    Goto, UpToDate, loading, shared, Reloading, Compacting, Labels, Returns,
    Jobs
<1>4. HistoryOK'
  <2>1. Len(hist) \in Nat
    BY DEF TypeOK, HistoryOK
  <2> QED BY <2>1 DEF TypeOK, HistoryOK, CheckLocked, loading
<1>5. ControlOK'
  BY DEF TypeOK, StacksOK, CallsOK, CheckLocked, Goto, UpToDate, loading,
    shared, ControlOK, ReturnOK, RangeOK, Reloading, Compacting, Jobs
<1> QED BY <1>1, <1>2, <1>3, <1>4, <1>5 DEF TypeOK

\* Reftable_addition_add keeps the types.
LEMMA AddTableTypes ==
  ASSUME TypeOK, ControlOK, NEW p \in Proc, AddTable(p)
  PROVE  TypeOK' /\ ControlOK'
<1>a. PICK lo \in Nat, hi \in Nat : \E x \in NewNames(lo, hi), b \in Batches :
        /\ NextUpdateIndex(st[p]) <= lo /\ lo <= hi
        /\ dir' = With(x, b)
        /\ newt' = [newt EXCEPT ![p] = Append(@, [name |-> x, recs |-> b])]
  BY AddedTable
<1>b. PICK x \in NewNames(lo, hi), b \in Batches :
        /\ NextUpdateIndex(st[p]) <= lo /\ lo <= hi
        /\ dir' = With(x, b)
        /\ newt' = [newt EXCEPT ![p] = Append(@, [name |-> x, recs |-> b])]
  BY <1>a
<1>d. x \in TableName /\ b \in Contents
  BY NamesAreFresh, BatchAssumption
<1>1. FilesOK'
  BY <1>b, <1>d, ZenonT(60) DEF TypeOK, FilesOK, AddTable, With
<1>2. StacksOK'
  BY DEF TypeOK, StacksOK, AddTable, history, loading
<1>3. CallsOK'
  <2> DEFINE new == [name |-> x, recs |-> b]
  <2>1. new \in Reader
    BY <1>d DEF Reader
  <2>2. newt' = [newt EXCEPT ![p] = Append(@, new)]
    BY <1>b
  <2> HIDE DEF new
  <2>3. newt' \in [Proc -> Seq(Reader)]
    BY <2>1, <2>2 DEF TypeOK, CallsOK
  <2> QED BY <2>3 DEF TypeOK, CallsOK, AddTable
<1>4. HistoryOK'
  BY DEF TypeOK, HistoryOK, AddTable, history, loading
<1>5. ControlOK'
  BY DEF TypeOK, StacksOK, CallsOK, AddTable, history, loading, ControlOK,
    ReturnOK, RangeOK, Reloading, Compacting, Jobs
<1> QED BY <1>1, <1>2, <1>3, <1>4, <1>5 DEF TypeOK

\* An addition that is given up keeps the types.
LEMMA AbandonTypes ==
  ASSUME TypeOK, ControlOK, NEW p \in Proc, Abandon(p)
  PROVE  TypeOK' /\ ControlOK'
<1>1. FilesOK'
  BY DEF TypeOK, FilesOK, Abandon, Goto, history, loading, shared
<1>2. StacksOK'
  BY DEF TypeOK, StacksOK, Abandon, Goto, history, loading, shared
<1>3. CallsOK'
  BY DEF TypeOK, StacksOK, CallsOK, ControlOK, ReturnOK, RangeOK, Abandon, Goto,
    history, loading, shared, Reloading, Compacting, Labels, Returns, Jobs
<1>4. HistoryOK'
  BY DEF TypeOK, HistoryOK, Abandon, Goto, history, loading, shared
<1>5. ControlOK'
  BY DEF TypeOK, StacksOK, CallsOK, Abandon, Goto, history, loading, shared,
    ControlOK, ReturnOK, RangeOK, Reloading, Compacting, Jobs
<1> QED BY <1>1, <1>2, <1>3, <1>4, <1>5 DEF TypeOK

\* The commit of an empty addition keeps the types.
LEMMA CommitNothingTypes ==
  ASSUME TypeOK, ControlOK, NEW p \in Proc, CommitNothing(p)
  PROVE  TypeOK' /\ ControlOK'
<1>1. FilesOK'
  BY DEF TypeOK, FilesOK, CommitNothing, Goto, history, loading, shared
<1>2. StacksOK'
  BY DEF TypeOK, StacksOK, CommitNothing, Goto, history, loading, shared
<1>3. CallsOK'
  BY DEF TypeOK, StacksOK, CallsOK, ControlOK, ReturnOK, RangeOK, CommitNothing,
    Goto, history, loading, shared, Reloading, Compacting, Labels, Returns,
    Jobs
<1>4. HistoryOK'
  BY DEF TypeOK, HistoryOK, CommitNothing, Goto, history, loading, shared
<1>5. ControlOK'
  BY DEF TypeOK, StacksOK, CallsOK, CommitNothing, Goto, history, loading,
    shared, ControlOK, ReturnOK, RangeOK, Reloading, Compacting, Jobs
<1> QED BY <1>1, <1>2, <1>3, <1>4, <1>5 DEF TypeOK

\* The commit writing the lock file keeps the types.
LEMMA CommitWriteTypes ==
  ASSUME TypeOK, ControlOK, NEW p \in Proc, CommitWrite(p)
  PROVE  TypeOK' /\ ControlOK'
<1>1. FilesOK'
  <2>1. NamesOf(st[p]) \o NamesOf(newt[p]) \in Seq(TableName)
    BY StackNames, ConcatProperties
  <2>2. CASE WriteLock(p, NamesOf(st[p]) \o NamesOf(newt[p]))
    BY <2>1, <2>2 DEF TypeOK, FilesOK, CommitWrite, WriteLock
  <2>3. CASE UNCHANGED <<lockFile, list, fdAt>>
    BY <2>3 DEF TypeOK, FilesOK, CommitWrite
  <2> QED BY <2>2, <2>3 DEF CommitWrite
<1>2. StacksOK'
  BY DEF TypeOK, StacksOK, CommitWrite, Goto, WriteLock, history, loading
<1>3. CallsOK'
  BY DEF TypeOK, StacksOK, CallsOK, ControlOK, ReturnOK, RangeOK, CommitWrite,
    Goto, WriteLock, history, loading, Reloading, Compacting, Labels, Returns,
    Jobs
<1>4. HistoryOK'
  BY DEF TypeOK, HistoryOK, CommitWrite, Goto, WriteLock, history, loading
<1>5. ControlOK'
  BY DEF TypeOK, StacksOK, CallsOK, CommitWrite, Goto, WriteLock, history,
    loading, ControlOK, ReturnOK, RangeOK, Reloading, Compacting, Jobs
<1> QED BY <1>1, <1>2, <1>3, <1>4, <1>5 DEF TypeOK

\* The commit renaming the lock file keeps the types.
LEMMA CommitRenameTypes ==
  ASSUME TypeOK, ControlOK, NEW p \in Proc, CommitRename(p)
  PROVE  TypeOK' /\ ControlOK'
<1>1. FilesOK'
  BY DEF TypeOK, FilesOK, StacksOK, CallsOK, CommitRename, FdsAfterRename, Goto,
    RenameLock, loading
<1>2. StacksOK'
  BY DEF TypeOK, StacksOK, CommitRename, FdsAfterRename, Goto, RenameLock,
    loading
<1>3. CallsOK'
  BY DEF TypeOK, StacksOK, CallsOK, ControlOK, ReturnOK, RangeOK, CommitRename,
    FdsAfterRename, Goto, RenameLock, loading, Reloading, Compacting, Labels,
    Returns, Jobs
<1>4. HistoryOK'
  <2>1. hist[Len(hist)] \in Database
    BY EmptySeq DEF TypeOK, HistoryOK
  <2>2. Overlay(hist[Len(hist)], RecsOf(newt[p])) \in Database
    BY <2>1, StackNames, OverlayType
  <2>3. hist' \in Seq(Database) /\ hist' # <<>>
    BY <2>2 DEF TypeOK, HistoryOK, CommitRename
  <2> QED BY <2>3 DEF TypeOK, HistoryOK, CommitRename, loading
<1>5. ControlOK'
  BY DEF TypeOK, StacksOK, CallsOK, CommitRename, FdsAfterRename, Goto,
    RenameLock, loading, ControlOK, ReturnOK, RangeOK, Reloading, Compacting,
    Jobs
<1> QED BY <1>1, <1>2, <1>3, <1>4, <1>5 DEF TypeOK

\* A commit whose rename fails keeps the types.
LEMMA CommitRenameFailsTypes ==
  ASSUME TypeOK, ControlOK, NEW p \in Proc, CommitRenameFails(p)
  PROVE  TypeOK' /\ ControlOK'
<1>1. FilesOK'
  BY DEF TypeOK, FilesOK, CommitRenameFails, Goto, history, loading, shared
<1>2. StacksOK'
  BY DEF TypeOK, StacksOK, CommitRenameFails, Goto, history, loading, shared
<1>3. CallsOK'
  BY DEF TypeOK, StacksOK, CallsOK, ControlOK, ReturnOK, RangeOK,
    CommitRenameFails, Goto, history, loading, shared, Reloading, Compacting,
    Labels, Returns, Jobs
<1>4. HistoryOK'
  BY DEF TypeOK, HistoryOK, CommitRenameFails, Goto, history, loading, shared
<1>5. ControlOK'
  BY DEF TypeOK, StacksOK, CallsOK, CommitRenameFails, Goto, history, loading,
    shared, ControlOK, ReturnOK, RangeOK, Reloading, Compacting, Jobs
<1> QED BY <1>1, <1>2, <1>3, <1>4, <1>5 DEF TypeOK

\* Reftable_addition_close keeps the types.
LEMMA AdditionCloseTypes ==
  ASSUME TypeOK, ControlOK, NEW p \in Proc, AdditionClose(p)
  PROVE  TypeOK' /\ ControlOK'
<1>1. FilesOK'
  BY DEF TypeOK, FilesOK, StacksOK, CallsOK, AdditionClose, AfterClose,
    Discarded, FdsAfterUnlink, Goto, UnlinkLock, Without, history, loading
<1>2. StacksOK'
  BY DEF TypeOK, StacksOK, AdditionClose, AfterClose, Discarded, FdsAfterUnlink,
    Goto, UnlinkLock, Without, history, loading
<1>3. CallsOK'
  BY DEF TypeOK, StacksOK, CallsOK, ControlOK, ReturnOK, RangeOK, AdditionClose,
    AfterClose, Discarded, FdsAfterUnlink, Goto, UnlinkLock, Without, history,
    loading, Reloading, Compacting, Labels, Returns, Jobs
<1>4. HistoryOK'
  BY DEF TypeOK, HistoryOK, AdditionClose, AfterClose, Discarded,
    FdsAfterUnlink, Goto, UnlinkLock, Without, history, loading
<1>5. ControlOK'
  BY SMTT(20) DEF TypeOK, StacksOK, CallsOK, AdditionClose, AfterClose, Discarded,
    FdsAfterUnlink, Goto, UnlinkLock, Without, history, loading, ControlOK,
    ReturnOK, RangeOK, Reloading, Compacting, Jobs
<1> QED BY <1>1, <1>2, <1>3, <1>4, <1>5 DEF TypeOK

\* Reftable_stack_clean_locked keeps the types.
LEMMA ScanTypes ==
  ASSUME TypeOK, ControlOK, NEW p \in Proc, Scan(p)
  PROVE  TypeOK' /\ ControlOK'
<1>1. FilesOK'
  BY DEF TypeOK, FilesOK, StacksOK, CallsOK, Scan, Goto, Without, history,
    loading
<1>2. StacksOK'
  BY DEF TypeOK, StacksOK, Scan, Goto, Without, history, loading
<1>3. CallsOK'
  BY DEF TypeOK, StacksOK, CallsOK, ControlOK, ReturnOK, RangeOK, Scan, Goto,
    Without, history, loading, Reloading, Compacting, Labels, Returns, Jobs
<1>4. HistoryOK'
  BY DEF TypeOK, HistoryOK, Scan, Goto, Without, history, loading
<1>5. ControlOK'
  BY DEF TypeOK, StacksOK, CallsOK, Scan, Goto, Without, history, loading,
    ControlOK, ReturnOK, RangeOK, Reloading, Compacting, Jobs
<1> QED BY <1>1, <1>2, <1>3, <1>4, <1>5 DEF TypeOK

\* Reftable_stack_auto_compact keeps the types.
LEMMA AutoCompactTypes ==
  ASSUME TypeOK, ControlOK, NEW p \in Proc, AutoCompact(p)
  PROVE  TypeOK' /\ ControlOK'
<1>1. CASE Goto(p, "idle") /\ UNCHANGED <<lockFile, job>>
  <2>1. FilesOK' /\ StacksOK' /\ CallsOK' /\ HistoryOK'
    BY <1>1 DEF AutoCompact, Goto, Labels, loading, history, TypeOK, FilesOK,
                StacksOK, CallsOK, HistoryOK
  <2>2. ControlOK'
    BY <1>1 DEF AutoCompact, Goto, ControlOK, ReturnOK, RangeOK, Reloading,
                Compacting, TypeOK, CallsOK
  <2> QED BY <2>1, <2>2 DEF TypeOK
<1>2. ASSUME NEW first \in 1..Len(st[p]), NEW last \in 1..Len(st[p]),
             first < last, LockForCompaction(p, first, last)
      PROVE  TypeOK' /\ ControlOK'
  <2>1. last \in first..Len(st[p])
    BY <1>2
  <2> QED BY <1>2, <2>1, LockForCompactionTypes DEF AutoCompact
<1> QED BY <1>1, <1>2 DEF AutoCompact

\* The up-to-date check of stack_compact_range keeps the types.
LEMMA CompactionCheckTypes ==
  ASSUME TypeOK, ControlOK, NEW p \in Proc, CompactionCheck(p)
  PROVE  TypeOK' /\ ControlOK'
<1>1. FilesOK'
  BY DEF TypeOK, FilesOK, CompactionCheck, Goto, UpToDate, history, loading,
    shared
<1>2. StacksOK'
  BY DEF TypeOK, StacksOK, CompactionCheck, Goto, UpToDate, history, loading,
    shared
<1>3. CallsOK'
  BY DEF TypeOK, StacksOK, CallsOK, ControlOK, ReturnOK, RangeOK,
    CompactionCheck, Goto, UpToDate, history, loading, shared, Reloading,
    Compacting, Labels, Returns, Jobs
<1>4. HistoryOK'
  BY DEF TypeOK, HistoryOK, CompactionCheck, Goto, UpToDate, history, loading,
    shared
<1>5. ControlOK'
  BY DEF TypeOK, StacksOK, CallsOK, CompactionCheck, Goto, UpToDate, history,
    loading, shared, ControlOK, ReturnOK, RangeOK, Reloading, Compacting, Jobs
<1> QED BY <1>1, <1>2, <1>3, <1>4, <1>5 DEF TypeOK

\* The lock on one table of the range keeps the types.
LEMMA LockTableTypes ==
  ASSUME TypeOK, ControlOK, NEW p \in Proc, LockTable(p)
  PROVE  TypeOK' /\ ControlOK'
<1> DEFINE new == st[p][job[p].next].name
<1>1. /\ RangeOK(p) /\ pc[p] = "cpsub" /\ job[p].next <= job[p].last
      /\ job' = [job EXCEPT ![p].old = @ \cup {new}, ![p].next = @ + 1]
      /\ tlocks' = tlocks \cup {new}
      /\ pc' \in {[pc EXCEPT ![p] = "cpdone"], [pc EXCEPT ![p] = "cpsub"]}
      /\ UNCHANGED <<dir, list, lockFile, st, health, loading, ret, fdAt, newt,
                     call, crashes, temps, history>>
  BY DEF ControlOK, LockTable, Goto
<1>2. /\ job[p].first \in 1..Len(st[p])
      /\ job[p].last \in job[p].first..Len(st[p])
      /\ job[p].next \in job[p].first..(job[p].last + 1)
  BY <1>1 DEF RangeOK, Compacting
<1>3. job[p].next \in 1..Len(st[p]) /\ job[p].next \in Nat
  BY <1>1, <1>2, JobFields
<1>4. new \in TableName
  BY <1>3, ReaderFields
<1> HIDE DEF new
<1>5. job' \in [Proc -> Jobs]
  <2> DEFINE o == job[p].old \cup {new}
             k == job[p].next + 1
             j == [job[p] EXCEPT !.old = o, !.next = k]
  <2>1. j \in Jobs
    <3>1. o \in SUBSET TableName
      BY <1>4, JobFields
    <3>2. k \in Nat
      BY JobFields
    <3>3. job[p] \in Jobs
      BY JobFields
    <3> HIDE DEF o, k
    <3> QED BY <3>1, <3>2, <3>3 DEF Jobs
  <2>2. job' = [job EXCEPT ![p] = j]
    BY <1>1 DEF TypeOK, CallsOK
  <2> HIDE DEF j
  <2> QED BY <2>1, <2>2 DEF TypeOK, CallsOK
<1>6. /\ job'[p].first = job[p].first /\ job'[p].last = job[p].last
      /\ job'[p].next = job[p].next + 1
      /\ pc'[p] \in {"cpdone", "cpsub"} /\ st'[p] = st[p]
      /\ \A q \in Proc \ {p} : job'[q] = job[q] /\ pc'[q] = pc[q]
  BY <1>1 DEF TypeOK, CallsOK, Jobs
<1>7. FilesOK' /\ StacksOK' /\ HistoryOK'
  BY <1>1, <1>4 DEF TypeOK, FilesOK, StacksOK, HistoryOK, loading, history
<1>8. CallsOK'
  BY <1>1, <1>5 DEF TypeOK, CallsOK, Labels
<1>9. job[p].next + 1 \in job[p].first..(job[p].last + 1)
  BY <1>1, <1>2, JobFields
<1>10. ReturnOK(p)' /\ RangeOK(p)'
  BY <1>2, <1>6, <1>9 DEF ReturnOK, RangeOK, Reloading, Compacting
<1>11. ControlOK'
  BY <1>1, <1>6, <1>10, OtherControl
<1> QED BY <1>7, <1>8, <1>11 DEF TypeOK

\* The list unlocked for the merge keeps the types.
LEMMA UnlockForMergeTypes ==
  ASSUME TypeOK, ControlOK, NEW p \in Proc, UnlockForMerge(p)
  PROVE  TypeOK' /\ ControlOK'
<1>1. FilesOK' /\ StacksOK' /\ HistoryOK'
  <2>1. lockFile' \in Seq(TableName) \cup {NoFile}
    BY DEF UnlockForMerge, UnlinkLock, TypeOK, FilesOK
  <2> QED BY <2>1 DEF UnlockForMerge, loading, history, TypeOK, FilesOK,
                      StacksOK, HistoryOK
<1>2. job' \in [Proc -> Jobs]
  <2>1. job \in [Proc -> Jobs]
    BY DEF TypeOK, CallsOK
  <2>2. [job[p] EXCEPT !.held = FALSE] \in Jobs
    BY JobFields DEF Jobs
  <2>3. job' \in {job, [job EXCEPT ![p] = [job[p] EXCEPT !.held = FALSE]]}
    BY DEF UnlockForMerge
  <2> QED BY <2>1, <2>2, <2>3
<1>3. fdAt' \in [Proc -> {"none", "lock", "list", "orphan"}]
  BY DEF TypeOK, CallsOK, UnlockForMerge, UnlinkLock, FdsAfterUnlink
<1>4. CallsOK'
  BY <1>2, <1>3 DEF UnlockForMerge, Goto, TypeOK, CallsOK, Labels
<1>5. /\ pc'[p] \in {"merge", "cpdone"} /\ pc[p] = "cpsub" /\ st' = st
      /\ \A q \in Proc \ {p} : job'[q] = job[q] /\ pc'[q] = pc[q]
      /\ ret' = ret
  BY DEF UnlockForMerge, Goto, TypeOK, CallsOK
<1>6. /\ job'[p].first = job[p].first /\ job'[p].last = job[p].last
      /\ job'[p].next = job[p].next
  BY DEF UnlockForMerge, TypeOK, CallsOK, Jobs
<1>7. ReturnOK(p)' /\ RangeOK(p)'
  BY <1>5, <1>6 DEF ControlOK, ReturnOK, RangeOK, Reloading, Compacting
<1>8. ControlOK'
  BY <1>5, <1>7, OtherControl
<1> QED BY <1>1, <1>4, <1>8 DEF TypeOK

\* A merge, whatever it leaves, keeps the types.
LEMMA MergeTypes ==
  ASSUME TypeOK, ControlOK, NEW p \in Proc, Merge(p)
  PROVE  TypeOK' /\ ControlOK'
<1>1. FilesOK' /\ StacksOK'
  BY DEF Merge, shared, loading, TypeOK, FilesOK, StacksOK
<1>2. CallsOK'
  BY DEF Merge, Goto, TypeOK, CallsOK, Labels
<1>3. HistoryOK'
  <2>1. TempLeft(p) \in {0, 1}
    BY DEF TempLeft
  <2>2. temps' \in [Proc -> Nat]
    BY <2>1 DEF Merge, TypeOK, HistoryOK
  <2> QED BY <2>2 DEF Merge, loading, history, TypeOK, HistoryOK
<1>4. /\ pc'[p] \in {"relock", "cpdone"} /\ pc[p] = "merge"
      /\ UNCHANGED <<st, job, ret>>
      /\ \A q \in Proc \ {p} : pc'[q] = pc[q]
  BY DEF Merge, Goto, TypeOK, CallsOK
<1>5. ReturnOK(p)' /\ RangeOK(p)'
  BY <1>4 DEF ControlOK, ReturnOK, RangeOK, Reloading, Compacting
<1>6. ControlOK'
  BY <1>4, <1>5, OtherControl
<1> QED BY <1>1, <1>2, <1>3, <1>6 DEF TypeOK

\* The list locked again after the merge keeps the types.
LEMMA RelockTypes ==
  ASSUME TypeOK, ControlOK, NEW p \in Proc, Relock(p)
  PROVE  TypeOK' /\ ControlOK'
<1>1. FilesOK' /\ StacksOK' /\ HistoryOK'
  <2>1. lockFile' \in Seq(TableName) \cup {NoFile}
    BY EmptySeq DEF Relock, CreateLock, TypeOK, FilesOK
  <2> QED BY <2>1
          DEF Relock, loading, history, TypeOK, FilesOK, StacksOK, HistoryOK
<1>2. job' \in [Proc -> Jobs]
  <2>1. job \in [Proc -> Jobs]
    BY DEF TypeOK, CallsOK
  <2>2. [job[p] EXCEPT !.held = TRUE] \in Jobs
    BY JobFields DEF Jobs
  <2>3. job' \in {job, [job EXCEPT ![p] = [job[p] EXCEPT !.held = TRUE]]}
    BY DEF Relock
  <2> QED BY <2>1, <2>2, <2>3
<1>3. CallsOK'
  BY <1>2 DEF Relock, Goto, TypeOK, CallsOK, Labels
<1>4. /\ pc'[p] \in {"install", "cpdone"} /\ pc[p] = "relock" /\ st' = st
      /\ \A q \in Proc \ {p} : job'[q] = job[q] /\ pc'[q] = pc[q]
      /\ ret' = ret
  BY DEF Relock, Goto, TypeOK, CallsOK
<1>5. /\ job'[p].first = job[p].first /\ job'[p].last = job[p].last
      /\ job'[p].next = job[p].next
  BY DEF Relock, TypeOK, CallsOK, Jobs
<1>6. ReturnOK(p)' /\ RangeOK(p)'
  BY <1>4, <1>5 DEF ControlOK, ReturnOK, RangeOK, Reloading, Compacting
<1>7. ControlOK'
  BY <1>4, <1>6, OtherControl
<1> QED BY <1>1, <1>3, <1>7 DEF TypeOK

\* The merged table renamed into place keeps the types.
LEMMA InstallTypes ==
  ASSUME TypeOK, ControlOK, NEW p \in Proc, Install(p)
  PROVE  TypeOK' /\ ControlOK'
<1> DEFINE first == job[p].first
           last == job[p].last
           recs == CompactedRecs(st[p], first, last)
<1>1. /\ pc[p] = "install" /\ RangeOK(p)
      /\ UNCHANGED <<list, lockFile, tlocks, st, health, loading, ret, fdAt,
                     newt, call, crashes, history>>
  BY DEF Install, ControlOK
<1>2. first \in 1..Len(st[p]) /\ last \in first..Len(st[p])
  BY <1>1 DEF RangeOK, Compacting
<1>3. recs \in Contents
  BY <1>2, CompactedType DEF TypeOK, StacksOK
<1>4. /\ st[p][first].name.min \in Nat /\ st[p][last].name.max \in Nat
  <2>1. last \in 1..Len(st[p])
    BY <1>2, JobFields
  <2> QED BY <2>1, <1>2, ReaderFields
<1>5. \/ pc'[p] \in {"cpwrite", "cpdone"} /\ UNCHANGED <<dir, job>>
      \/ /\ pc'[p] = "cpwrite"
         /\ \E x \in NewNames(st[p][first].name.min, st[p][last].name.max) :
              /\ dir' = With(x, recs)
              /\ job' = [job EXCEPT ![p].new = x]
  BY DEF Install, Goto, TypeOK, CallsOK
<1>6. pc' \in [Proc -> Labels] /\ \A q \in Proc \ {p} : pc'[q] = pc[q]
  BY DEF Install, Goto, TypeOK, CallsOK, Labels
<1> HIDE DEF recs
<1>7. temps' \in [Proc -> Nat]
  BY DEF Install, TypeOK, HistoryOK
<1>8. CASE UNCHANGED <<dir, job>>
  <2>1. TypeOK'
    BY <1>1, <1>6, <1>8, <1>7 DEF TypeOK, FilesOK, StacksOK, CallsOK, HistoryOK,
                            loading, history
  <2>2. ReturnOK(p)' /\ RangeOK(p)'
    BY <1>1, <1>5, <1>8 DEF ReturnOK, RangeOK, Reloading, Compacting
  <2> QED BY <2>1, <2>2, <1>1, <1>6, <1>8, OtherControl
<1>9. ASSUME NEW x \in NewNames(st[p][first].name.min, st[p][last].name.max),
             dir' = With(x, recs),
             job' = [job EXCEPT ![p].new = x]
      PROVE  TypeOK' /\ ControlOK'
  <2>1. x \in TableName
    BY <1>4, NamesAreFresh
  <2>2. FilesOK'
    BY <1>1, <1>3, <1>9, <2>1 DEF TypeOK, FilesOK, With
  <2>3. job' \in [Proc -> Jobs]
    BY <1>9, <2>1 DEF TypeOK, CallsOK, Jobs
  <2>4. StacksOK' /\ CallsOK' /\ HistoryOK'
    BY <1>1, <1>6, <1>7, <2>3
       DEF TypeOK, StacksOK, CallsOK, HistoryOK, loading, history
  <2>5. /\ job'[p].first = job[p].first /\ job'[p].last = job[p].last
        /\ job'[p].next = job[p].next
        /\ \A q \in Proc \ {p} : job'[q] = job[q]
    BY <1>9 DEF TypeOK, CallsOK, Jobs
  <2>6. pc'[p] \in {"cpwrite", "cpdone"}
    BY <1>5
  <2>7. ReturnOK(p)' /\ RangeOK(p)'
    BY <1>1, <2>5, <2>6 DEF ReturnOK, RangeOK, Reloading, Compacting
  <2>8. ControlOK'
    BY <2>5, <2>7, <1>1, <1>6, OtherControl
  <2> QED BY <2>2, <2>4, <2>8 DEF TypeOK
<1> QED BY <1>5, <1>8, <1>9

\* The list of a compaction being written keeps the types.
LEMMA CompactionWriteTypes ==
  ASSUME TypeOK, ControlOK, NEW p \in Proc, CompactionWrite(p)
  PROVE  TypeOK' /\ ControlOK'
<1>1. FilesOK'
  <2>1. Spliced(NamesOf(st[p]), job[p].first, job[p].last, Replacement(p))
          \in Seq(TableName)
    <3>1. RangeOK(p) /\ pc[p] = "cpwrite"
      BY DEF ControlOK, CompactionWrite
    <3>2. /\ job[p].first \in 1..Len(NamesOf(st[p]))
          /\ job[p].last \in job[p].first..Len(NamesOf(st[p]))
      BY <3>1, StackNames DEF RangeOK, Compacting
    <3> QED BY <3>2, StackNames, SplicedType
  <2>2. CASE WriteLock(p, Spliced(NamesOf(st[p]), job[p].first, job[p].last,
                                  Replacement(p))) /\ UNCHANGED dir
    BY <2>1, <2>2 DEF TypeOK, FilesOK, CompactionWrite, WriteLock
  <2>3. CASE dir' = Without({job[p].new}) /\ UNCHANGED <<lockFile, list, fdAt>>
    BY <2>3 DEF TypeOK, FilesOK, CompactionWrite, Without
  <2> QED BY <2>2, <2>3 DEF CompactionWrite
<1>2. StacksOK'
  BY DEF TypeOK, StacksOK, CompactionWrite, Goto, Replacement, Without,
    WriteLock, history, loading
<1>3. CallsOK'
  BY DEF TypeOK, StacksOK, CallsOK, ControlOK, ReturnOK, RangeOK,
    CompactionWrite, Goto, Replacement, Without, WriteLock, history, loading,
    Reloading, Compacting, Labels, Returns, Jobs
<1>4. HistoryOK'
  BY DEF TypeOK, HistoryOK, CompactionWrite, Goto, Replacement, Without,
    WriteLock, history, loading
<1>5. ControlOK'
  BY SMTT(20) DEF TypeOK, StacksOK, CallsOK, CompactionWrite, Goto, Replacement, Without,
    WriteLock, history, loading, ControlOK, ReturnOK, RangeOK, Reloading,
    Compacting, Jobs
<1> QED BY <1>1, <1>2, <1>3, <1>4, <1>5 DEF TypeOK

\* The list of a compaction being renamed keeps the types.
LEMMA CompactionRenameTypes ==
  ASSUME TypeOK, ControlOK, NEW p \in Proc, CompactionRename(p)
  PROVE  TypeOK' /\ ControlOK'
<1>1. FilesOK'
  BY DEF TypeOK, FilesOK, StacksOK, CallsOK, CompactionRename, FdsAfterRename,
    Goto, RenameLock, StartReload, history
<1>2. StacksOK'
  BY DEF TypeOK, FilesOK, StacksOK, CompactionRename, FdsAfterRename, Goto,
    RenameLock, StartReload, history
<1>3. CallsOK'
  <2>1. job' \in [Proc -> Jobs]
    BY DEF TypeOK, CallsOK, Jobs, CompactionRename
  <2>2. fdAt' \in [Proc -> {"none", "lock", "list", "orphan"}]
    BY DEF TypeOK, CallsOK, CompactionRename, RenameLock, FdsAfterRename
  <2> QED BY <2>1, <2>2
          DEF TypeOK, CallsOK, CompactionRename, Goto, Labels, Returns
<1>4. HistoryOK'
  BY DEF TypeOK, HistoryOK, CompactionRename, FdsAfterRename, Goto, RenameLock,
    StartReload, history
<1>5. ControlOK'
  BY DEF TypeOK, StacksOK, CallsOK, CompactionRename, FdsAfterRename, Goto,
    RenameLock, StartReload, history, ControlOK, ReturnOK, RangeOK, Reloading,
    Compacting, Jobs
<1> QED BY <1>1, <1>2, <1>3, <1>4, <1>5 DEF TypeOK

\* A compaction whose rename fails keeps the types.
LEMMA CompactionRenameFailsTypes ==
  ASSUME TypeOK, ControlOK, NEW p \in Proc, CompactionRenameFails(p)
  PROVE  TypeOK' /\ ControlOK'
<1>1. FilesOK'
  BY DEF TypeOK, FilesOK, StacksOK, CallsOK, CompactionRenameFails, Goto,
    Without, history, loading
<1>2. StacksOK'
  BY DEF TypeOK, StacksOK, CompactionRenameFails, Goto, Without, history,
    loading
<1>3. CallsOK'
  BY DEF TypeOK, StacksOK, CallsOK, ControlOK, ReturnOK, RangeOK,
    CompactionRenameFails, Goto, Without, history, loading, Reloading,
    Compacting, Labels, Returns, Jobs
<1>4. HistoryOK'
  BY DEF TypeOK, HistoryOK, CompactionRenameFails, Goto, Without, history,
    loading
<1>5. ControlOK'
  BY DEF TypeOK, StacksOK, CallsOK, CompactionRenameFails, Goto, Without,
    history, loading, ControlOK, ReturnOK, RangeOK, Reloading, Compacting,
    Jobs
<1> QED BY <1>1, <1>2, <1>3, <1>4, <1>5 DEF TypeOK

\* The compacted tables being unlinked keeps the types.
LEMMA DeleteCompactedTypes ==
  ASSUME TypeOK, ControlOK, NEW p \in Proc, DeleteCompacted(p)
  PROVE  TypeOK' /\ ControlOK'
<1>1. FilesOK'
  BY DEF TypeOK, FilesOK, StacksOK, CallsOK, DeleteCompacted, Goto, Without,
    history, loading
<1>2. StacksOK'
  BY DEF TypeOK, StacksOK, DeleteCompacted, Goto, Without, history, loading
<1>3. CallsOK'
  BY DEF TypeOK, StacksOK, CallsOK, ControlOK, ReturnOK, RangeOK,
    DeleteCompacted, Goto, Without, history, loading, Reloading, Compacting,
    Labels, Returns, Jobs
<1>4. HistoryOK'
  BY DEF TypeOK, HistoryOK, DeleteCompacted, Goto, Without, history, loading
<1>5. ControlOK'
  BY DEF TypeOK, StacksOK, CallsOK, DeleteCompacted, Goto, Without, history,
    loading, ControlOK, ReturnOK, RangeOK, Reloading, Compacting, Jobs
<1> QED BY <1>1, <1>2, <1>3, <1>4, <1>5 DEF TypeOK

\* The exit of stack_compact_range keeps the types.
LEMMA CompactionDoneTypes ==
  ASSUME TypeOK, ControlOK, NEW p \in Proc, CompactionDone(p)
  PROVE  TypeOK' /\ ControlOK'
<1>1. FilesOK'
  BY DEF TypeOK, FilesOK, StacksOK, CallsOK, CompactionDone, FdsAfterUnlink,
    Goto, LocksToUnlink, NoJob, UnlinkLock, history, loading
<1>2. StacksOK'
  BY DEF TypeOK, StacksOK, CompactionDone, FdsAfterUnlink, Goto, LocksToUnlink,
    NoJob, UnlinkLock, history, loading
<1>3. CallsOK'
  <2>1. job' \in [Proc -> Jobs]
    BY DEF TypeOK, CallsOK, Jobs, CompactionDone, NoJob
  <2>2. fdAt' \in [Proc -> {"none", "lock", "list", "orphan"}]
    BY DEF TypeOK, CallsOK, CompactionDone, UnlinkLock, FdsAfterUnlink
  <2> QED BY <2>1, <2>2 DEF TypeOK, CallsOK, CompactionDone, Goto, Labels
<1>4. HistoryOK'
  BY DEF TypeOK, HistoryOK, CompactionDone, FdsAfterUnlink, Goto, LocksToUnlink,
    NoJob, UnlinkLock, history, loading
<1>5. ControlOK'
  BY DEF TypeOK, StacksOK, CallsOK, CompactionDone, FdsAfterUnlink, Goto,
    LocksToUnlink, NoJob, UnlinkLock, history, loading, ControlOK, ReturnOK,
    RangeOK, Reloading, Compacting, Jobs
<1> QED BY <1>1, <1>2, <1>3, <1>4, <1>5 DEF TypeOK

\* Reftable_new_stack keeps the types.
LEMMA OpenTypes ==
  ASSUME TypeOK, ControlOK, NEW p \in Proc, Open(p)
  PROVE  TypeOK' /\ ControlOK'
<1>1. FilesOK'
  BY DEF TypeOK, FilesOK, Open, Goto, StartReload, history, shared
<1>2. StacksOK'
  BY DEF TypeOK, FilesOK, StacksOK, Open, Goto, StartReload, history, shared
<1>3. CallsOK'
  BY DEF TypeOK, StacksOK, CallsOK, ControlOK, ReturnOK, RangeOK, Open, Goto,
    StartReload, history, shared, Reloading, Compacting, Labels, Returns, Jobs
<1>4. HistoryOK'
  BY DEF TypeOK, HistoryOK, Open, Goto, StartReload, history, shared
<1>5. ControlOK'
  BY DEF TypeOK, StacksOK, CallsOK, Open, Goto, StartReload, history, shared,
    ControlOK, ReturnOK, RangeOK, Reloading, Compacting, Jobs
<1> QED BY <1>1, <1>2, <1>3, <1>4, <1>5 DEF TypeOK

\* A call of reftable_stack_reload keeps the types.
LEMMA ReloadTypes ==
  ASSUME TypeOK, ControlOK, NEW p \in Proc, Reload(p)
  PROVE  TypeOK' /\ ControlOK'
<1>1. FilesOK'
  BY DEF TypeOK, FilesOK, Reload, Goto, history, loading, shared
<1>2. StacksOK'
  BY DEF TypeOK, StacksOK, Reload, Goto, history, loading, shared
<1>3. CallsOK'
  BY DEF TypeOK, StacksOK, CallsOK, ControlOK, ReturnOK, RangeOK, Reload, Goto,
    history, loading, shared, Reloading, Compacting, Labels, Returns, Jobs
<1>4. HistoryOK'
  BY DEF TypeOK, HistoryOK, Reload, Goto, history, loading, shared
<1>5. ControlOK'
  BY DEF TypeOK, StacksOK, CallsOK, Reload, Goto, history, loading, shared,
    ControlOK, ReturnOK, RangeOK, Reloading, Compacting, Jobs
<1> QED BY <1>1, <1>2, <1>3, <1>4, <1>5 DEF TypeOK

\* Reftable_stack_compact_all keeps the types.
LEMMA CompactAllTypes ==
  ASSUME TypeOK, ControlOK, NEW p \in Proc, CompactAll(p)
  PROVE  TypeOK' /\ ControlOK'
<1>1. Len(st[p]) \in Nat /\ Len(st[p]) > 0
  BY DEF CompactAll, TypeOK, StacksOK
<1>2. 1 \in 1..Len(st[p]) /\ Len(st[p]) \in 1..Len(st[p])
  BY <1>1
<1> QED BY <1>2, LockForCompactionTypes DEF CompactAll

\* Reftable_stack_destroy reading the list keeps the types.
LEMMA DestroyTypes ==
  ASSUME TypeOK, ControlOK, NEW p \in Proc, Destroy(p)
  PROVE  TypeOK' /\ ControlOK'
<1>1. FilesOK'
  BY DEF TypeOK, FilesOK, Destroy, Goto, history, shared
<1>2. StacksOK'
  BY DEF TypeOK, FilesOK, StacksOK, Destroy, Goto, history, shared
<1>3. CallsOK'
  BY DEF TypeOK, StacksOK, CallsOK, ControlOK, ReturnOK, RangeOK, Destroy, Goto,
    history, shared, Reloading, Compacting, Labels, Returns, Jobs
<1>4. HistoryOK'
  BY DEF TypeOK, HistoryOK, Destroy, Goto, history, shared
<1>5. ControlOK'
  BY DEF TypeOK, StacksOK, CallsOK, Destroy, Goto, history, shared, ControlOK,
    ReturnOK, RangeOK, Reloading, Compacting, Jobs
<1> QED BY <1>1, <1>2, <1>3, <1>4, <1>5 DEF TypeOK

\* Reftable_stack_destroy unlinking old tables keeps the types.
LEMMA DestroyUnlinkTypes ==
  ASSUME TypeOK, ControlOK, NEW p \in Proc, DestroyUnlink(p)
  PROVE  TypeOK' /\ ControlOK'
<1>1. FilesOK'
  BY DEF TypeOK, FilesOK, StacksOK, CallsOK, DestroyUnlink, Forget, Goto, NoJob,
    Without
<1>2. StacksOK'
  BY DEF TypeOK, FilesOK, StacksOK, DestroyUnlink, Forget, Goto, NoJob, Without
<1>3. CallsOK'
  BY DEF TypeOK, StacksOK, CallsOK, ControlOK, ReturnOK, RangeOK, DestroyUnlink,
    Forget, Goto, NoJob, Without, Reloading, Compacting, Labels, Returns, Jobs
<1>4. HistoryOK'
  BY DEF TypeOK, HistoryOK, DestroyUnlink, Forget, Goto, NoJob, Without
<1>5. ControlOK'
  BY DEF TypeOK, StacksOK, CallsOK, DestroyUnlink, Forget, Goto, NoJob, Without,
    ControlOK, ReturnOK, RangeOK, Reloading, Compacting, Jobs
<1> QED BY <1>1, <1>2, <1>3, <1>4, <1>5 DEF TypeOK

\* A process that dies keeps the types.
LEMMA CrashTypes ==
  ASSUME TypeOK, ControlOK, NEW p \in Proc, Crash(p)
  PROVE  TypeOK' /\ ControlOK'
<1>1. FilesOK'
  BY DEF TypeOK, FilesOK, Crash, Forget, Goto, NoJob, shared
<1>2. StacksOK'
  BY DEF TypeOK, FilesOK, StacksOK, Crash, Forget, Goto, NoJob, shared
<1>3. CallsOK'
  BY DEF TypeOK, StacksOK, CallsOK, ControlOK, ReturnOK, RangeOK, Crash, Forget,
    Goto, NoJob, shared, Reloading, Compacting, Labels, Returns, Jobs
<1>4. HistoryOK'
  BY BoundsAssumption DEF TypeOK, HistoryOK, Crash, Forget
<1>5. ControlOK'
  BY DEF TypeOK, StacksOK, CallsOK, Crash, Forget, Goto, NoJob, shared,
    ControlOK, ReturnOK, RangeOK, Reloading, Compacting, Jobs
<1> QED BY <1>1, <1>2, <1>3, <1>4, <1>5 DEF TypeOK

\* A step that starts a call of the API keeps the types.
LEMMA StartTypes ==
  ASSUME TypeOK, ControlOK, NEW p \in Proc, StartCall(p)
  PROVE  TypeOK' /\ ControlOK'
<1>1. ASSUME NEW c \in CallNames, LockList(p, c) PROVE TypeOK' /\ ControlOK'
  <2>1. c \in {"add", "txn", "clean"}
    BY <1>1 DEF LockList
  <2>2. FilesOK' /\ StacksOK' /\ HistoryOK'
    BY <1>1, EmptySeq DEF LockList, CreateLock, loading, history,
                          TypeOK, FilesOK, StacksOK, HistoryOK
  <2>3. CallsOK'
    BY <1>1, <2>1 DEF LockList, Goto, TypeOK, CallsOK, Labels
  <2>4. ControlOK'
    BY <1>1 DEF LockList, Goto, TypeOK, CallsOK, ControlOK, ReturnOK, RangeOK,
                Reloading, Compacting
  <2> QED BY <2>2, <2>3, <2>4 DEF TypeOK
<1>2. ASSUME NEW c \in CallNames, LockTaken(p, c) PROVE TypeOK' /\ ControlOK'
  <2>1. c \in {"add", "txn", "clean"}
    BY <1>2 DEF LockTaken
  <2>2. FilesOK' /\ StacksOK' /\ HistoryOK'
    BY <1>2 DEF LockTaken, shared, loading, history,
                TypeOK, FilesOK, StacksOK, HistoryOK
  <2>3. CallsOK'
    BY <1>2, <2>1 DEF LockTaken, Goto, TypeOK, CallsOK, Labels, Returns
  <2>4. ControlOK'
    BY <1>2 DEF LockTaken, Goto, TypeOK, CallsOK, ControlOK, ReturnOK, RangeOK,
                Reloading, Compacting
  <2> QED BY <2>2, <2>3, <2>4 DEF TypeOK
<1> QED BY <1>1, <1>2, OpenTypes, ReloadTypes, CompactAllTypes, DestroyTypes
           DEF StartCall

\* Every step of every process keeps the types and the control facts.
LEMMA StepTypes == TypeOK /\ ControlOK /\ [Next]_vars => TypeOK' /\ ControlOK'
<1> SUFFICES ASSUME TypeOK, ControlOK, [Next]_vars PROVE TypeOK' /\ ControlOK'
  OBVIOUS
<1>1. CASE UNCHANGED vars
  BY <1>1 DEF vars, shared, loading, history, TypeOK, FilesOK, StacksOK,
              CallsOK, HistoryOK, ControlOK, ReturnOK, RangeOK
<1>2. ASSUME NEW p \in Proc, ReloadStep(p) PROVE TypeOK' /\ ControlOK'
  BY <1>2, ReloadCheckTypes, ReadListTypes, ReuseReaderTypes, OpenTableTypes,
     TableMissingTypes, RecheckTypes, SwapTypes, UseAfterFreeTypes DEF ReloadStep
<1>3. ASSUME NEW p \in Proc, AdditionStep(p) PROVE TypeOK' /\ ControlOK'
  BY <1>3, CheckLockedTypes, AddTableTypes, AbandonTypes, CommitNothingTypes,
     CommitWriteTypes, CommitRenameTypes, CommitRenameFailsTypes,
     AdditionCloseTypes, ScanTypes DEF AdditionStep
<1>4. ASSUME NEW p \in Proc, CompactionStep(p) PROVE TypeOK' /\ ControlOK'
  BY <1>4, AutoCompactTypes, CompactionCheckTypes, LockTableTypes,
     UnlockForMergeTypes, MergeTypes, RelockTypes, InstallTypes, CompactionWriteTypes,
     CompactionRenameTypes, CompactionRenameFailsTypes, DeleteCompactedTypes,
     CompactionDoneTypes DEF CompactionStep
<1> QED BY <1>1, <1>2, <1>3, <1>4, StartTypes, DestroyUnlinkTypes, GiveUpTypes,
           CrashTypes DEF Next, CallStep

\* The processes never leave the types of the model: no call indexes a stack or
\* a list outside its bounds, whatever other processes do to the files between
\* two of its steps.  In particular the range that stack_compact_range was
\* given stays a range of the stack until the new list is written.
THEOREM TypeCorrect == Spec => []TypeOK
<1>1. Init => TypeOK /\ ControlOK
  BY InitTypes
<1>2. TypeOK /\ ControlOK /\ [Next]_vars => TypeOK' /\ ControlOK'
  BY StepTypes
<1> QED BY <1>1, <1>2, PTL DEF Spec

=============================================================================
