------------------------- MODULE CStackOrderProofs --------------------------
(***************************************************************************)
(* The lists that processes write stay ordered by update index, whatever   *)
(* calls they make, as long as a transaction writes one table: the case of *)
(* reftable_stack_add.  A transaction of two tables may break the order,   *)
(* because reftable_addition_add leaves next_update_index as it was.       *)
(*                                                                         *)
(* The list itself is only the end of a chain of copies: it is read into   *)
(* names, becomes the stack by way of new_readers, is extended or spliced  *)
(* into the lock file, and is renamed into place or written over the list  *)
(* through a descriptor whose file was renamed by someone else.  The       *)
(* inductive invariant says that every link is ordered, and that what a    *)
(* call is about to add fits on top of its stack or in place of its range. *)
(***************************************************************************)
EXTENDS CStackProofs

FilesOrdered == /\ Ordered(list)
                /\ lockFile # NoFile => Ordered(lockFile)

\* What was opened so far are the first names of the list that was read.
OpensInOrder(p) ==
  IF pc[p] = "open"
  THEN /\ Len(opened[p]) <= Len(names[p])
       /\ \A i \in 1..Len(opened[p]) : opened[p][i].name = names[p][i]
  ELSE opened[p] = <<>>

\* The table of an addition starts above the stack it is to be put on.
AddsOnTop(p) ==
  /\ Len(newt[p]) <= 1
  /\ pc[p] \notin {"adding", "rename", "adclose"} => newt[p] = <<>>
  /\ pc[p] = "adding" /\ newt[p] # <<>> =>
       /\ NextUpdateIndex(st[p]) <= newt[p][1].name.min
       /\ newt[p][1].name.min <= newt[p][1].name.max

\* The table of a compaction covers the range it replaces.
ReplacesRange(p) ==
  /\ pc[p] \in {"cpcheck", "cpsub", "merge", "relock", "install"}
       => job[p].new = NoName
  /\ pc[p] = "cpwrite" /\ job[p].new # NoName =>
       /\ job[p].new.min = st[p][job[p].first].name.min
       /\ job[p].new.max = st[p][job[p].last].name.max

ProcOrdered(p) == /\ Ordered(NamesOf(st[p]))
                  /\ Ordered(names[p])
                  /\ OpensInOrder(p)
                  /\ AddsOnTop(p)
                  /\ ReplacesRange(p)

OrderInv == FilesOrdered /\ \A p \in Proc : ProcOrdered(p)

\* An empty directory without open stacks is in order.
LEMMA InitOrder == Init => OrderInv
<1>1. NamesOf(<<>>) = <<>>
  BY NamesOfEmpty
<1> QED BY <1>1, OrderedEmpty
    DEF Init, EmptyDirectory, OrderInv, FilesOrdered, ProcOrdered, OpensInOrder, AddsOnTop,
        ReplacesRange

\* A step of one process leaves the memory of the others alone.
OthersUnchanged(p) ==
  \A q \in Proc \ {p} :
    /\ st'[q] = st[q] /\ names'[q] = names[q] /\ opened'[q] = opened[q]
    /\ newt'[q] = newt[q] /\ job'[q] = job[q] /\ pc'[q] = pc[q]

\* What is true of the acting process after its step, and unchanged for the
\* others, is true of all.
LEMMA OneProcess ==
  ASSUME OrderInv, NEW p \in Proc, FilesOrdered', ProcOrdered(p)',
         OthersUnchanged(p)
  PROVE  OrderInv'
<1>1. ASSUME NEW q \in Proc \ {p} PROVE ProcOrdered(q)'
  BY <1>1, SMTT(20) DEF OrderInv, OthersUnchanged, ProcOrdered, OpensInOrder, AddsOnTop,
              ReplacesRange
<1> QED BY <1>1 DEF OrderInv

\* A process that forgets everything has nothing out of order.
LEMMA ForgetOrder ==
  ASSUME TypeOK, NEW p \in Proc, NEW k \in {"aborted", "closed"}, Forget(p, k)
  PROVE  ProcOrdered(p)'
<1>1. /\ st'[p] = <<>> /\ names'[p] = <<>> /\ opened'[p] = <<>>
      /\ newt'[p] = <<>> /\ job'[p] = NoJob /\ pc'[p] = k
  BY DEF Forget, Goto, TypeOK, StacksOK, CallsOK
<1>2. Ordered(NamesOf(st[p]))' /\ Ordered(names[p])'
  BY <1>1, NamesOfEmpty, OrderedEmpty
<1>3. OpensInOrder(p)' /\ AddsOnTop(p)' /\ ReplacesRange(p)'
  BY <1>1, EmptySeq DEF OpensInOrder, AddsOnTop, ReplacesRange
<1> QED BY <1>2, <1>3 DEF ProcOrdered

\* Neither has one that leaves the reload loop with an ordered stack.
LEMMA EndReloadOrder ==
  ASSUME TypeOK, NEW p \in Proc, ProcOrdered(p), pc[p] \in Reloading,
         NEW k \in {"idle", "auto", "scan", "delete", "closed", "adclose"},
         EndReload(p, k), UNCHANGED <<newt, job>>, Ordered(NamesOf(st[p]))'
  PROVE  ProcOrdered(p)'
<1>1. /\ names'[p] = <<>> /\ opened'[p] = <<>>
      /\ pc'[p] \in {"idle", "auto", "scan", "delete", "closed", "adclose"}
  BY DEF EndReload, Goto, TypeOK, StacksOK, CallsOK
<1>2. newt[p] = <<>>
  BY DEF ProcOrdered, AddsOnTop, Reloading
<1>3. Ordered(names[p])'
  BY <1>1, OrderedEmpty
<1>4. OpensInOrder(p)' /\ AddsOnTop(p)' /\ ReplacesRange(p)'
  BY <1>1, <1>2, EmptySeq DEF OpensInOrder, AddsOnTop, ReplacesRange
<1> QED BY <1>3, <1>4 DEF ProcOrdered

\* A step between two calls or within one that touches neither the stack, nor
\* the list that was read, nor the tables of an addition.
LEMMA MoveOrder ==
  ASSUME NEW p \in Proc, ProcOrdered(p), pc[p] # "open", pc'[p] # "open",
         newt[p] = <<>>,
         st'[p] = st[p], names'[p] = names[p], opened'[p] = opened[p],
         newt'[p] = newt[p], ReplacesRange(p)'
  PROVE  ProcOrdered(p)'
<1>1. Ordered(NamesOf(st[p]))' /\ Ordered(names[p])'
  BY DEF ProcOrdered
<1>2. OpensInOrder(p)' /\ AddsOnTop(p)'
  BY EmptySeq DEF ProcOrdered, OpensInOrder, AddsOnTop
<1> QED BY <1>1, <1>2 DEF ProcOrdered

\* One more table is open, the next of the list.
LEMMA OpenedOrder ==
  ASSUME TypeOK, NEW p \in Proc, OrderInv, pc[p] = "open",
         Len(opened[p]) < Len(names[p]),
         NEW new \in Reader, new.name = NextToOpen(p),
         opened' = [opened EXCEPT ![p] = Append(@, new)],
         UNCHANGED <<pc, st, names, newt, job>>
  PROVE  ProcOrdered(p)'
<1>1. opened[p] \in Seq(Reader) /\ names[p] \in Seq(TableName) /\ ProcOrdered(p)
  BY DEF TypeOK, StacksOK, OrderInv
<1>2. opened'[p] = Append(opened[p], new)
  BY DEF TypeOK, StacksOK
<1>3. /\ Len(opened'[p]) = Len(opened[p]) + 1
      /\ \A i \in 1..Len(opened[p]) : opened'[p][i] = opened[p][i]
      /\ opened'[p][Len(opened[p]) + 1] = new
  BY <1>1, <1>2
<1>4. \A i \in 1..Len(opened[p]) : opened[p][i].name = names[p][i]
  BY <1>1 DEF ProcOrdered, OpensInOrder
<1>5. new.name = names[p][Len(opened[p]) + 1]
  BY DEF NextToOpen
<1>6. Len(opened[p]) \in Nat /\ Len(names[p]) \in Nat
  BY <1>1
<1>7. OpensInOrder(p)'
  <2>1. pc'[p] = "open" /\ names'[p] = names[p]
    OBVIOUS
  <2>2. Len(opened'[p]) <= Len(names[p])
    BY <1>3, <1>6
  <2>3. ASSUME NEW i \in 1..Len(opened'[p])
        PROVE  opened'[p][i].name = names[p][i]
    <3>1. i \in 1..Len(opened[p]) \/ i = Len(opened[p]) + 1
      BY <1>3, <1>6
    <3> QED BY <3>1, <1>3, <1>4, <1>5
  <2> QED BY <2>1, <2>2, <2>3 DEF OpensInOrder
<1>8. /\ Ordered(NamesOf(st[p]))' /\ Ordered(names[p])' /\ AddsOnTop(p)'
      /\ ReplacesRange(p)'
  BY <1>1 DEF ProcOrdered, AddsOnTop, ReplacesRange
<1> QED BY <1>7, <1>8 DEF ProcOrdered

\* Reftable_stack_reload comparing the list with the stack keeps the ranges in order.
LEMMA ReloadCheckOrder ==
  ASSUME TypeOK, TypeOK', ControlOK, OrderInv, NEW p \in Proc,
         ReloadCheck(p)
  PROVE  OrderInv'
<1>1. FilesOrdered'
  BY DEF OrderInv, FilesOrdered, ReloadCheck, AfterReload, EndReload, Goto,
     StartReload, UpToDate, shared
<1>2. ProcOrdered(p)'
  <2>1. /\ ret[p] \in {"open", "plain", "auto", "scan", "delete"}
        /\ pc[p] = "uptodate" /\ pc[p] \in Reloading /\ ProcOrdered(p)
        /\ UNCHANGED <<st, newt, job>>
    BY DEF ControlOK, ReturnOK, ReloadCheck, Reloading, OrderInv
  <2>2. CASE EndReload(p, AfterReload[ret[p]])
    <3>1. AfterReload[ret[p]] \in {"idle", "auto", "scan", "delete"}
      BY <2>1, ReturnLabels
    <3>2. Ordered(NamesOf(st[p]))'
      BY <2>1 DEF ProcOrdered
    <3> QED BY <2>1, <2>2, <3>1, <3>2, EndReloadOrder
  <2>3. CASE Goto(p, "read") /\ StartReload(p, TRUE)
    <3>1. pc'[p] = "read" /\ names' = names /\ opened' = opened
      BY <2>3 DEF Goto, StartReload, TypeOK, CallsOK
    <3>2. ReplacesRange(p)' /\ newt[p] = <<>>
      BY <2>1, <3>1 DEF ReplacesRange, ProcOrdered, AddsOnTop
    <3> QED BY <2>1, <3>1, <3>2, MoveOrder
  <2> QED BY <2>2, <2>3 DEF ReloadCheck
<1>3. OthersUnchanged(p)
  BY DEF OthersUnchanged, TypeOK, StacksOK, CallsOK, ReloadCheck, AfterReload,
     EndReload, Goto, StartReload, UpToDate, shared
<1> QED BY <1>1, <1>2, <1>3, OneProcess

\* Reload_maybe_reuse reading the list keeps the ranges in order.
LEMMA ReadListOrder ==
  ASSUME TypeOK, TypeOK', ControlOK, OrderInv, NEW p \in Proc,
         ReadList(p)
  PROVE  OrderInv'
<1>1. FilesOrdered'
  BY DEF OrderInv, FilesOrdered, ReadList, Goto, history, shared
<1>2. ProcOrdered(p)'
  <2>1. /\ pc[p] = "read" /\ pc'[p] = "open" /\ names'[p] = list
        /\ opened'[p] = <<>> /\ st' = st /\ newt' = newt /\ job' = job
    BY DEF ReadList, Goto, TypeOK, StacksOK, CallsOK
  <2>2. Ordered(NamesOf(st[p]))' /\ Ordered(names[p])'
    BY <2>1 DEF OrderInv, FilesOrdered, ProcOrdered
  <2>3. OpensInOrder(p)'
    <3>1. Len(list) \in Nat
      BY DEF TypeOK, FilesOK
    <3> QED BY <2>1, <3>1, EmptySeq DEF OpensInOrder
  <2>4. AddsOnTop(p)' /\ ReplacesRange(p)'
    BY <2>1 DEF OrderInv, ProcOrdered, AddsOnTop, ReplacesRange
  <2> QED BY <2>2, <2>3, <2>4 DEF ProcOrdered
<1>3. OthersUnchanged(p)
  BY DEF OthersUnchanged, TypeOK, StacksOK, CallsOK, ReadList, Goto, history,
     shared
<1> QED BY <1>1, <1>2, <1>3, OneProcess

\* Reload_once taking over an open reader keeps the ranges in order.
LEMMA ReuseReaderOrder ==
  ASSUME TypeOK, TypeOK', ControlOK, OrderInv, NEW p \in Proc,
         ReuseReader(p)
  PROVE  OrderInv'
<1>0. PICK i \in 1..Len(st[p]) :
        /\ st[p][i].name = NextToOpen(p)
        /\ opened' = [opened EXCEPT ![p] = Append(@, st[p][i])]
  BY DEF ReuseReader
<1>1. FilesOrdered'
  BY DEF OrderInv, FilesOrdered, ReuseReader, NextToOpen, history, shared
<1>2. ProcOrdered(p)'
  BY <1>0, ReaderFields, OpenedOrder DEF ReuseReader
<1>3. OthersUnchanged(p)
  BY DEF OthersUnchanged, TypeOK, StacksOK, CallsOK, ReuseReader, NextToOpen,
     history, shared
<1> QED BY <1>1, <1>2, <1>3, OneProcess

\* Reload_once opening a table keeps the ranges in order.
LEMMA OpenTableOrder ==
  ASSUME TypeOK, TypeOK', ControlOK, OrderInv, NEW p \in Proc,
         OpenTable(p)
  PROVE  OrderInv'
<1>1. FilesOrdered'
  BY DEF OrderInv, FilesOrdered, OpenTable, MustOpen, NextToOpen, history,
     shared
<1>2. ProcOrdered(p)'
  <2> DEFINE new == [name |-> NextToOpen(p), recs |-> dir[NextToOpen(p)]]
  <2>1. /\ pc[p] = "open" /\ Len(opened[p]) < Len(names[p])
        /\ opened' = [opened EXCEPT ![p] = Append(@, new)]
        /\ UNCHANGED <<pc, st, names, newt, job>>
    BY DEF OpenTable, MustOpen
  <2>2. new.name = NextToOpen(p) /\ new \in Reader
    BY DEF TypeOK, FilesOK, OpenTable, Reader
  <2> HIDE DEF new
  <2> QED BY <2>1, <2>2, OpenedOrder
<1>3. OthersUnchanged(p)
  BY DEF OthersUnchanged, TypeOK, StacksOK, CallsOK, OpenTable, MustOpen,
     NextToOpen, history, shared
<1> QED BY <1>1, <1>2, <1>3, OneProcess

\* Reload_once meeting a table that is gone keeps the ranges in order.
LEMMA TableMissingOrder ==
  ASSUME TypeOK, TypeOK', ControlOK, OrderInv, NEW p \in Proc,
         TableMissing(p)
  PROVE  OrderInv'
<1>1. FilesOrdered'
  BY DEF OrderInv, FilesOrdered, TableMissing, Goto, MustOpen, NextToOpen,
     history, shared
<1>2. ProcOrdered(p)'
  BY DEF OrderInv, ProcOrdered, OpensInOrder, AddsOnTop, ReplacesRange,
     TypeOK, StacksOK, CallsOK, TableMissing, Goto, MustOpen, NextToOpen,
     history, shared
<1>3. OthersUnchanged(p)
  BY DEF OthersUnchanged, TypeOK, StacksOK, CallsOK, TableMissing, Goto,
     MustOpen, NextToOpen, history, shared
<1> QED BY <1>1, <1>2, <1>3, OneProcess

\* Reload_maybe_reuse reading the list again keeps the ranges in order.
LEMMA RecheckOrder ==
  ASSUME TypeOK, TypeOK', ControlOK, OrderInv, NEW p \in Proc,
         Recheck(p)
  PROVE  OrderInv'
<1>1. FilesOrdered'
  BY DEF OrderInv, FilesOrdered, Recheck, AfterFailure, EndReload, Goto,
     history, loading, shared
<1>2. ProcOrdered(p)'
  <2>1. /\ ret[p] \in {"open", "plain", "auto", "scan", "delete"}
        /\ pc[p] = "recheck" /\ pc[p] \in Reloading /\ ProcOrdered(p)
        /\ UNCHANGED <<st, newt, job>>
    BY DEF ControlOK, ReturnOK, Recheck, Reloading, OrderInv
  <2>2. CASE EndReload(p, AfterFailure[ret[p]])
    <3>1. AfterFailure[ret[p]] \in {"closed", "idle", "adclose", "delete"}
      BY <2>1, ReturnLabels
    <3>2. Ordered(NamesOf(st[p]))'
      BY <2>1 DEF ProcOrdered
    <3> QED BY <2>1, <2>2, <3>1, <3>2, EndReloadOrder
  <2>3. CASE Goto(p, "read") /\ UNCHANGED <<loading, ret>>
    <3>1. pc'[p] = "read" /\ names' = names /\ opened' = opened
      BY <2>3 DEF Goto, loading, TypeOK, CallsOK
    <3>2. ReplacesRange(p)' /\ newt[p] = <<>>
      BY <2>1, <3>1 DEF ReplacesRange, ProcOrdered, AddsOnTop
    <3> QED BY <2>1, <3>1, <3>2, MoveOrder
  <2> QED BY <2>2, <2>3 DEF Recheck
<1>3. OthersUnchanged(p)
  BY DEF OthersUnchanged, TypeOK, StacksOK, CallsOK, Recheck, AfterFailure,
     EndReload, Goto, history, loading, shared
<1> QED BY <1>1, <1>2, <1>3, OneProcess

\* Reload_once installing the new readers keeps the ranges in order.
LEMMA SwapOrder ==
  ASSUME TypeOK, TypeOK', ControlOK, OrderInv, NEW p \in Proc,
         Swap(p)
  PROVE  OrderInv'
<1>1. FilesOrdered'
  BY DEF OrderInv, FilesOrdered, Swap, AfterReload, Dropped, EndReload, Goto,
     Without
<1>2. ProcOrdered(p)'
  <2>1. AfterReload[ret[p]] \in {"idle", "auto", "scan", "delete"}
    BY ReturnLabels DEF ControlOK, ReturnOK, Swap, Reloading
  <2>2. /\ ProcOrdered(p) /\ pc[p] = "open" /\ Len(opened[p]) = Len(names[p])
        /\ opened[p] \in Seq(Reader) /\ names[p] \in Seq(TableName)
        /\ st'[p] = opened[p]
    BY DEF OrderInv, Swap, TypeOK, StacksOK
  <2>3. Ordered(NamesOf(opened[p]))
    <3> DEFINE s == NamesOf(opened[p])
    <3>1. /\ s \in Seq(TableName) /\ Len(s) = Len(opened[p])
          /\ \A i \in 1..Len(s) : s[i] = opened[p][i].name
      BY <2>2, NamesOfType
    <3>2. Ordered(names[p]) /\ \A i \in 1..Len(opened[p]) :
                                 opened[p][i].name = names[p][i]
      BY <2>2 DEF ProcOrdered, OpensInOrder
    <3> HIDE DEF s
    <3>3. Len(s) <= Len(names[p]) /\ \A i \in 1..Len(s) : s[i] = names[p][i]
      BY <2>2, <3>1, <3>2
    <3>4. Ordered(s)
      BY <2>2, <3>1, <3>2, <3>3, OrderedPrefix
    <3> QED BY <3>4 DEF s
  <2>4. Ordered(NamesOf(st[p]))'
    BY <2>2, <2>3
  <2>5. pc[p] \in Reloading
    BY <2>2 DEF Reloading
  <2> QED BY <2>1, <2>2, <2>4, <2>5, EndReloadOrder DEF Swap
<1>3. OthersUnchanged(p)
  BY DEF OthersUnchanged, TypeOK, StacksOK, CallsOK, Swap, AfterReload,
     Dropped, EndReload, Goto, Without
<1> QED BY <1>1, <1>2, <1>3, OneProcess

\* A process that dies of freed readers keeps the ranges in order.
LEMMA UseAfterFreeOrder ==
  ASSUME TypeOK, TypeOK', ControlOK, OrderInv, NEW p \in Proc,
         UseAfterFree(p)
  PROVE  OrderInv'
<1>1. FilesOrdered'
  BY DEF OrderInv, FilesOrdered, UseAfterFree, Forget, Goto, NoJob,
     TouchPoints, shared
<1>2. ProcOrdered(p)'
  BY ForgetOrder DEF UseAfterFree
<1>3. OthersUnchanged(p)
  BY DEF OthersUnchanged, TypeOK, StacksOK, CallsOK, UseAfterFree, Forget,
     Goto, NoJob, TouchPoints, shared
<1> QED BY <1>1, <1>2, <1>3, OneProcess

\* Reload_maybe_reuse past its deadline keeps the ranges in order.
LEMMA GiveUpOrder ==
  ASSUME TypeOK, TypeOK', ControlOK, OrderInv, NEW p \in Proc,
         GiveUp(p)
  PROVE  OrderInv'
<1>1. FilesOrdered'
  BY DEF OrderInv, FilesOrdered, GiveUp, AfterReload, EndReload, Goto,
     history, shared
<1>2. ProcOrdered(p)'
  <2>1. AfterReload[ret[p]] \in {"idle", "auto", "scan", "delete"}
    BY ReturnLabels DEF ControlOK, ReturnOK, GiveUp, Reloading
  <2>2. ProcOrdered(p) /\ Ordered(NamesOf(st[p]))' /\ pc[p] \in Reloading
    BY DEF OrderInv, ProcOrdered, GiveUp, Reloading
  <2> QED BY <2>1, <2>2, EndReloadOrder DEF GiveUp
<1>3. OthersUnchanged(p)
  BY DEF OthersUnchanged, TypeOK, StacksOK, CallsOK, GiveUp, AfterReload,
     EndReload, Goto, history, shared
<1> QED BY <1>1, <1>2, <1>3, OneProcess

\* The up-to-date check of init_addition keeps the ranges in order.
LEMMA CheckLockedOrder ==
  ASSUME TypeOK, TypeOK', ControlOK, OrderInv, NEW p \in Proc,
         CheckLocked(p)
  PROVE  OrderInv'
<1>1. FilesOrdered'
  BY DEF OrderInv, FilesOrdered, CheckLocked, Goto, UpToDate, loading, shared
<1>2. ProcOrdered(p)'
  <2>1. /\ pc[p] = "locked" /\ pc'[p] \in {"uptodate", "adding", "adclose"}
        /\ st' = st /\ names' = names /\ opened' = opened /\ newt' = newt
    BY DEF CheckLocked, Goto, loading, TypeOK, CallsOK
  <2>2. ReplacesRange(p)'
    BY <2>1 DEF CheckLocked, OrderInv, ProcOrdered, ReplacesRange, TypeOK, CallsOK, Jobs
  <2>3. ProcOrdered(p) /\ newt[p] = <<>>
    BY <2>1 DEF OrderInv, ProcOrdered, AddsOnTop
  <2> QED BY <2>1, <2>2, <2>3, MoveOrder
<1>3. OthersUnchanged(p)
  BY DEF OthersUnchanged, TypeOK, StacksOK, CallsOK, CheckLocked, Goto,
     UpToDate, loading, shared
<1> QED BY <1>1, <1>2, <1>3, OneProcess

\* Reftable_addition_add keeps the ranges in order.
LEMMA AddTableOrder ==
  ASSUME TypeOK, TypeOK', ControlOK, OrderInv, NEW p \in Proc, MaxTables = 1,
         AddTable(p)
  PROVE  OrderInv'
<1>a. PICK lo \in Nat, hi \in Nat : \E x \in NewNames(lo, hi), b \in Batches :
        /\ NextUpdateIndex(st[p]) <= lo /\ lo <= hi
        /\ dir' = With(x, b)
        /\ newt' = [newt EXCEPT ![p] = Append(@, [name |-> x, recs |-> b])]
  BY AddedTable
<1>b. PICK x \in NewNames(lo, hi), b \in Batches :
        /\ NextUpdateIndex(st[p]) <= lo /\ lo <= hi
        /\ dir' = With(x, b)
        /\ newt' = [newt EXCEPT ![p] = Append(@, [name |-> x, recs |-> b])]
  BY <1>a
<1>d. x.min = lo /\ x.max = hi
  BY <1>b, NamesAreFresh
<1>1. FilesOrdered'
  BY DEF OrderInv, FilesOrdered, AddTable, history, loading
<1>2. ProcOrdered(p)'
  <2> DEFINE new == [name |-> x, recs |-> b]
  <2>1. /\ pc[p] = "adding" /\ Len(newt[p]) < 1
        /\ pc' = pc /\ st' = st /\ names' = names /\ opened' = opened /\ job' = job
    BY DEF AddTable, loading
  <2>2. newt[p] = <<>>
    BY <2>1, EmptySeq DEF TypeOK, CallsOK
  <2>3. new.name = x
    OBVIOUS
  <2>4. newt'[p] = Append(newt[p], new)
    BY <1>b DEF TypeOK, CallsOK
  <2> HIDE DEF new
  <2>5. newt'[p] = <<new>>
    BY <2>2, <2>4
  <2>6. Len(newt'[p]) = 1 /\ newt'[p][1].name = x
    BY <2>3, <2>5
  <2>7. AddsOnTop(p)'
    BY <2>1, <2>6, <1>b, <1>d DEF AddsOnTop
  <2>8. /\ Ordered(NamesOf(st[p]))' /\ Ordered(names[p])' /\ OpensInOrder(p)'
        /\ ReplacesRange(p)'
    BY <2>1 DEF OrderInv, ProcOrdered, OpensInOrder, ReplacesRange
  <2> QED BY <2>7, <2>8 DEF ProcOrdered
<1>3. OthersUnchanged(p)
  BY DEF OthersUnchanged, TypeOK, StacksOK, CallsOK, AddTable, history,
     loading
<1> QED BY <1>1, <1>2, <1>3, OneProcess

\* An addition that is given up keeps the ranges in order.
LEMMA AbandonOrder ==
  ASSUME TypeOK, TypeOK', ControlOK, OrderInv, NEW p \in Proc,
         Abandon(p)
  PROVE  OrderInv'
<1>1. FilesOrdered'
  BY DEF OrderInv, FilesOrdered, Abandon, Goto, history, loading, shared
<1>2. ProcOrdered(p)'
  BY DEF OrderInv, ProcOrdered, OpensInOrder, AddsOnTop, ReplacesRange,
     TypeOK, StacksOK, CallsOK, Abandon, Goto, history, loading, shared
<1>3. OthersUnchanged(p)
  BY DEF OthersUnchanged, TypeOK, StacksOK, CallsOK, Abandon, Goto, history,
     loading, shared
<1> QED BY <1>1, <1>2, <1>3, OneProcess

\* The commit of an empty addition keeps the ranges in order.
LEMMA CommitNothingOrder ==
  ASSUME TypeOK, TypeOK', ControlOK, OrderInv, NEW p \in Proc,
         CommitNothing(p)
  PROVE  OrderInv'
<1>1. FilesOrdered'
  BY DEF OrderInv, FilesOrdered, CommitNothing, Goto, history, loading, shared
<1>2. ProcOrdered(p)'
  BY DEF OrderInv, ProcOrdered, OpensInOrder, AddsOnTop, ReplacesRange,
     TypeOK, StacksOK, CallsOK, CommitNothing, Goto, history, loading, shared
<1>3. OthersUnchanged(p)
  BY DEF OthersUnchanged, TypeOK, StacksOK, CallsOK, CommitNothing, Goto,
     history, loading, shared
<1> QED BY <1>1, <1>2, <1>3, OneProcess

\* The commit writing the lock file keeps the ranges in order.
LEMMA CommitWriteOrder ==
  ASSUME TypeOK, TypeOK', ControlOK, OrderInv, NEW p \in Proc,
         CommitWrite(p)
  PROVE  OrderInv'
<1>1. FilesOrdered'
  <2> DEFINE ns == NamesOf(st[p])
             top == NamesOf(newt[p])
  <2>1. /\ pc[p] = "adding" /\ newt[p] # <<>> /\ ProcOrdered(p)
    BY DEF CommitWrite, OrderInv
  <2>2. /\ ns \in Seq(TableName) /\ Ordered(ns) /\ top \in Seq(TableName)
        /\ st[p] \in Seq(Reader) /\ newt[p] \in Seq(Reader)
    BY <2>1, StackNames DEF ProcOrdered, TypeOK, StacksOK, CallsOK
  <2>3. Len(newt[p]) = 1 /\ Len(top) = 1 /\ top[1] = newt[p][1].name
    <3>1. Len(newt[p]) \in Nat \ {0} /\ Len(newt[p]) <= 1
      BY <2>1, <2>2, EmptySeq DEF ProcOrdered, AddsOnTop
    <3>2. Len(newt[p]) = 1
      <4> DEFINE k == Len(newt[p])
      <4>1. k \in Nat \ {0} /\ k <= 1
        BY <3>1
      <4> HIDE DEF k
      <4>2. k = 1
        BY <4>1
      <4> QED BY <4>2 DEF k
    <3>3. 1 \in 1..Len(newt[p])
      BY <3>2
    <3> QED BY <2>2, <3>2, <3>3, NamesOfType
  <2>4. /\ NextUpdateIndex(st[p]) <= top[1].min /\ top[1].min <= top[1].max
    BY <2>1, <2>3 DEF ProcOrdered, AddsOnTop
  <2>5. Ordered(top)
    BY <2>3, <2>4 DEF Ordered
  <2>6. ASSUME NEW i \in 1..Len(ns), NEW j \in 1..Len(top)
        PROVE  ns[i].max < top[j].min
    <3>1. Len(ns) = Len(st[p]) /\ \A k \in 1..Len(ns) : ns[k] = st[p][k].name
      BY <2>2, NamesOfType
    <3>2. st[p] # <<>> /\ Len(ns) \in 1..Len(ns)
      BY <3>1, EmptySeq
    <3>3. NextUpdateIndex(st[p]) = ns[Len(ns)].max + 1
      BY <3>1, <3>2 DEF NextUpdateIndex
    <3>4. ns[i].max <= ns[Len(ns)].max
      <4>1. CASE i = Len(ns)
        BY <4>1, <3>2, <2>2, TableNameFields
      <4>2. CASE i < Len(ns)
        <5>1. ns[i].max < ns[Len(ns)].min /\ ns[Len(ns)].min <= ns[Len(ns)].max
          BY <4>2, <3>2, <2>2 DEF Ordered
        <5> QED BY <5>1, <3>2, <2>2, TableNameFields
      <4> QED BY <4>1, <4>2, <3>2
    <3>5. j = 1 /\ top[1].min \in Nat /\ ns[i].max \in Nat /\ ns[Len(ns)].max \in Nat
      BY <2>2, <2>3, <3>2, TableNameFields
    <3> QED BY <3>3, <3>4, <3>5, <2>4
  <2> HIDE DEF ns, top
  <2>7. Ordered(ns \o top)
    BY <2>2, <2>5, <2>6, OrderedOnTop
  <2>8. list' \in {list, ns \o top} /\ lockFile' \in {lockFile, ns \o top}
    BY DEF CommitWrite, WriteLock, ns, top
  <2> QED BY <2>7, <2>8 DEF OrderInv, FilesOrdered
<1>2. ProcOrdered(p)'
  BY DEF OrderInv, ProcOrdered, OpensInOrder, AddsOnTop, ReplacesRange,
     TypeOK, StacksOK, CallsOK, CommitWrite, Goto, WriteLock, history, loading
<1>3. OthersUnchanged(p)
  BY DEF OthersUnchanged, TypeOK, StacksOK, CallsOK, CommitWrite, Goto,
     WriteLock, history, loading
<1> QED BY <1>1, <1>2, <1>3, OneProcess

\* The commit renaming the lock file keeps the ranges in order.
LEMMA CommitRenameOrder ==
  ASSUME TypeOK, TypeOK', ControlOK, OrderInv, NEW p \in Proc,
         CommitRename(p)
  PROVE  OrderInv'
<1>1. FilesOrdered'
  BY DEF OrderInv, FilesOrdered, CommitRename, FdsAfterRename, Goto,
     RenameLock, loading
<1>2. ProcOrdered(p)'
  BY DEF OrderInv, ProcOrdered, OpensInOrder, AddsOnTop, ReplacesRange,
     TypeOK, StacksOK, CallsOK, CommitRename, FdsAfterRename, Goto,
     RenameLock, loading
<1>3. OthersUnchanged(p)
  BY DEF OthersUnchanged, TypeOK, StacksOK, CallsOK, CommitRename,
     FdsAfterRename, Goto, RenameLock, loading
<1> QED BY <1>1, <1>2, <1>3, OneProcess

\* A commit whose rename fails keeps the ranges in order.
LEMMA CommitRenameFailsOrder ==
  ASSUME TypeOK, TypeOK', ControlOK, OrderInv, NEW p \in Proc,
         CommitRenameFails(p)
  PROVE  OrderInv'
<1>1. FilesOrdered'
  BY DEF OrderInv, FilesOrdered, CommitRenameFails, Goto, history, loading,
     shared
<1>2. ProcOrdered(p)'
  BY DEF OrderInv, ProcOrdered, OpensInOrder, AddsOnTop, ReplacesRange,
     TypeOK, StacksOK, CallsOK, CommitRenameFails, Goto, history, loading,
     shared
<1>3. OthersUnchanged(p)
  BY DEF OthersUnchanged, TypeOK, StacksOK, CallsOK, CommitRenameFails, Goto,
     history, loading, shared
<1> QED BY <1>1, <1>2, <1>3, OneProcess

\* Reftable_addition_close keeps the ranges in order.
LEMMA AdditionCloseOrder ==
  ASSUME TypeOK, TypeOK', ControlOK, OrderInv, NEW p \in Proc,
         AdditionClose(p)
  PROVE  OrderInv'
<1>1. FilesOrdered'
  BY DEF OrderInv, FilesOrdered, AdditionClose, AfterClose, Discarded,
     FdsAfterUnlink, Goto, UnlinkLock, Without, history, loading
<1>2. ProcOrdered(p)'
  <2>1. /\ pc[p] = "adclose" /\ pc'[p] \in {"idle", "uptodate", "auto"}
        /\ newt'[p] = <<>>
        /\ st' = st /\ names' = names /\ opened' = opened /\ job' = job
    BY ReturnLabels
       DEF AdditionClose, Goto, loading, TypeOK, CallsOK, ControlOK, ReturnOK
  <2>2. Ordered(NamesOf(st[p]))' /\ Ordered(names[p])'
    BY <2>1 DEF OrderInv, ProcOrdered
  <2>3. OpensInOrder(p)' /\ AddsOnTop(p)' /\ ReplacesRange(p)'
    BY <2>1, EmptySeq
       DEF OrderInv, ProcOrdered, OpensInOrder, AddsOnTop, ReplacesRange
  <2> QED BY <2>2, <2>3 DEF ProcOrdered
<1>3. OthersUnchanged(p)
  BY DEF OthersUnchanged, TypeOK, StacksOK, CallsOK, AdditionClose,
     AfterClose, Discarded, FdsAfterUnlink, Goto, UnlinkLock, Without,
     history, loading
<1> QED BY <1>1, <1>2, <1>3, OneProcess

\* Reftable_stack_clean_locked keeps the ranges in order.
LEMMA ScanOrder ==
  ASSUME TypeOK, TypeOK', ControlOK, OrderInv, NEW p \in Proc,
         Scan(p)
  PROVE  OrderInv'
<1>1. FilesOrdered'
  BY DEF OrderInv, FilesOrdered, Scan, Goto, Without, history, loading
<1>2. ProcOrdered(p)'
  BY DEF OrderInv, ProcOrdered, OpensInOrder, AddsOnTop, ReplacesRange,
     TypeOK, StacksOK, CallsOK, Scan, Goto, Without, history, loading
<1>3. OthersUnchanged(p)
  BY DEF OthersUnchanged, TypeOK, StacksOK, CallsOK, Scan, Goto, Without,
     history, loading
<1> QED BY <1>1, <1>2, <1>3, OneProcess

\* Reftable_stack_auto_compact keeps the ranges in order.
LEMMA AutoCompactOrder ==
  ASSUME TypeOK, TypeOK', ControlOK, OrderInv, NEW p \in Proc,
         AutoCompact(p)
  PROVE  OrderInv'
<1>1. FilesOrdered'
  <2>1. lockFile' = <<>> \/ lockFile' = lockFile
    BY DEF AutoCompact, CreateLock, LockForCompaction
  <2>2. UNCHANGED list
    BY DEF AutoCompact
  <2> QED BY <2>1, <2>2, OrderedEmpty DEF OrderInv, FilesOrdered
<1>2. ProcOrdered(p)'
  <2>1. /\ pc[p] = "auto" /\ pc'[p] \in {"cpcheck", "idle"}
        /\ st' = st /\ names' = names /\ opened' = opened /\ newt' = newt
    BY DEF AutoCompact, LockForCompaction, Goto, loading, TypeOK, CallsOK
  <2>2. pc'[p] = "cpcheck" => job'[p].new = NoName
    BY DEF AutoCompact, LockForCompaction, Goto, TypeOK, CallsOK
  <2>3. ProcOrdered(p) /\ newt[p] = <<>>
    BY <2>1 DEF OrderInv, ProcOrdered, AddsOnTop
  <2>4. ReplacesRange(p)'
    BY <2>1, <2>2 DEF ReplacesRange
  <2> QED BY <2>1, <2>3, <2>4, MoveOrder
<1>3. OthersUnchanged(p)
  BY DEF OthersUnchanged, TypeOK, StacksOK, CallsOK, AutoCompact, CreateLock,
     Goto, LockForCompaction, history, loading
<1> QED BY <1>1, <1>2, <1>3, OneProcess

\* The up-to-date check of stack_compact_range keeps the ranges in order.
LEMMA CompactionCheckOrder ==
  ASSUME TypeOK, TypeOK', ControlOK, OrderInv, NEW p \in Proc,
         CompactionCheck(p)
  PROVE  OrderInv'
<1>1. FilesOrdered'
  BY DEF OrderInv, FilesOrdered, CompactionCheck, Goto, UpToDate, history,
     loading, shared
<1>2. ProcOrdered(p)'
  BY DEF OrderInv, ProcOrdered, OpensInOrder, AddsOnTop, ReplacesRange,
     TypeOK, StacksOK, CallsOK, CompactionCheck, Goto, UpToDate, history,
     loading, shared
<1>3. OthersUnchanged(p)
  BY DEF OthersUnchanged, TypeOK, StacksOK, CallsOK, CompactionCheck, Goto,
     UpToDate, history, loading, shared
<1> QED BY <1>1, <1>2, <1>3, OneProcess

\* The lock on one table of the range keeps the ranges in order.
LEMMA LockTableOrder ==
  ASSUME TypeOK, TypeOK', ControlOK, OrderInv, NEW p \in Proc,
         LockTable(p)
  PROVE  OrderInv'
<1>1. FilesOrdered'
  BY DEF OrderInv, FilesOrdered, LockTable, Goto, history, loading
<1>2. ProcOrdered(p)'
  <2>1. /\ pc[p] = "cpsub" /\ pc'[p] \in {"cpsub", "cpdone"}
        /\ st' = st /\ names' = names /\ opened' = opened /\ newt' = newt
    BY DEF LockTable, Goto, loading, TypeOK, CallsOK
  <2>2. job'[p].new = job[p].new
    <3> DEFINE t == st[p][job[p].next].name
    <3>1. job' = [job EXCEPT ![p].old = @ \cup {t}, ![p].next = @ + 1]
      BY DEF LockTable
    <3> HIDE DEF t
    <3> QED BY <3>1 DEF TypeOK, CallsOK, Jobs
  <2>3. ProcOrdered(p) /\ newt[p] = <<>>
    BY <2>1 DEF OrderInv, ProcOrdered, AddsOnTop
  <2>4. ReplacesRange(p)'
    BY <2>1, <2>2, <2>3 DEF ProcOrdered, ReplacesRange
  <2> QED BY <2>1, <2>3, <2>4, MoveOrder
<1>3. OthersUnchanged(p)
  BY DEF OthersUnchanged, TypeOK, StacksOK, CallsOK, LockTable, Goto, history,
     loading
<1> QED BY <1>1, <1>2, <1>3, OneProcess

\* The list unlocked for the merge keeps the ranges in order.
LEMMA UnlockForMergeOrder ==
  ASSUME TypeOK, TypeOK', ControlOK, OrderInv, NEW p \in Proc,
         UnlockForMerge(p)
  PROVE  OrderInv'
<1>1. FilesOrdered'
  BY DEF OrderInv, FilesOrdered, UnlockForMerge, UnlinkLock
<1>2. ProcOrdered(p)'
  <2>1. /\ pc[p] = "cpsub" /\ pc'[p] \in {"merge", "cpdone"}
        /\ st' = st /\ names' = names /\ opened' = opened /\ newt' = newt
    BY DEF UnlockForMerge, Goto, loading, TypeOK, CallsOK
  <2>2. ReplacesRange(p)'
    BY <2>1 DEF UnlockForMerge, OrderInv, ProcOrdered, ReplacesRange, TypeOK, CallsOK, Jobs
  <2>3. ProcOrdered(p) /\ newt[p] = <<>>
    BY <2>1 DEF OrderInv, ProcOrdered, AddsOnTop
  <2> QED BY <2>1, <2>2, <2>3, MoveOrder
<1>3. OthersUnchanged(p)
  BY DEF OthersUnchanged, TypeOK, StacksOK, CallsOK, UnlockForMerge,
     FdsAfterUnlink, Goto, UnlinkLock, history, loading
<1> QED BY <1>1, <1>2, <1>3, OneProcess

\* A merge keeps the ranges in order.
LEMMA MergeOrder ==
  ASSUME TypeOK, TypeOK', ControlOK, OrderInv, NEW p \in Proc,
         Merge(p)
  PROVE  OrderInv'
<1>1. FilesOrdered'
  BY DEF OrderInv, FilesOrdered, Merge, shared
<1>2. ProcOrdered(p)'
  <2>1. /\ pc[p] = "merge" /\ pc'[p] \in {"relock", "cpdone"}
        /\ UNCHANGED <<st, names, opened, newt, job>>
    BY DEF Merge, Goto, loading, TypeOK, CallsOK
  <2>2. ProcOrdered(p) /\ newt[p] = <<>>
    BY <2>1 DEF OrderInv, ProcOrdered, AddsOnTop
  <2>3. ReplacesRange(p)'
    BY <2>1, <2>2 DEF ProcOrdered, ReplacesRange
  <2> QED BY <2>1, <2>2, <2>3, MoveOrder
<1>3. OthersUnchanged(p)
  BY DEF OthersUnchanged, TypeOK, CallsOK, Merge, Goto, loading
<1> QED BY <1>1, <1>2, <1>3, OneProcess

\* The list locked again after the merge keeps the ranges in order.
LEMMA RelockOrder ==
  ASSUME TypeOK, TypeOK', ControlOK, OrderInv, NEW p \in Proc,
         Relock(p)
  PROVE  OrderInv'
<1>1. FilesOrdered'
  <2>1. lockFile' = <<>> \/ lockFile' = lockFile
    BY DEF Relock, CreateLock
  <2>2. UNCHANGED list
    BY DEF Relock
  <2> QED BY <2>1, <2>2, OrderedEmpty DEF OrderInv, FilesOrdered
<1>2. ProcOrdered(p)'
  <2>1. /\ pc[p] = "relock" /\ pc'[p] \in {"install", "cpdone"}
        /\ st' = st /\ names' = names /\ opened' = opened /\ newt' = newt
    BY DEF Relock, Goto, loading, TypeOK, CallsOK
  <2>2. ReplacesRange(p)'
    BY <2>1 DEF Relock, OrderInv, ProcOrdered, ReplacesRange, TypeOK, CallsOK, Jobs
  <2>3. ProcOrdered(p) /\ newt[p] = <<>>
    BY <2>1 DEF OrderInv, ProcOrdered, AddsOnTop
  <2> QED BY <2>1, <2>2, <2>3, MoveOrder
<1>3. OthersUnchanged(p)
  BY DEF OthersUnchanged, TypeOK, StacksOK, CallsOK, Relock, CreateLock, Goto,
     history, loading
<1> QED BY <1>1, <1>2, <1>3, OneProcess

\* The merged table renamed into place keeps the ranges in order.
LEMMA InstallOrder ==
  ASSUME TypeOK, TypeOK', ControlOK, OrderInv, NEW p \in Proc,
         Install(p)
  PROVE  OrderInv'
<1> DEFINE lo == st[p][job[p].first].name.min
           hi == st[p][job[p].last].name.max
<1>0. /\ pc[p] = "install" /\ RangeOK(p) /\ ProcOrdered(p)
      /\ UNCHANGED <<st, names, opened, newt>>
  BY DEF Install, loading, ControlOK, OrderInv
<1>a. lo \in Nat /\ hi \in Nat
  <2>1. job[p].first \in 1..Len(st[p]) /\ job[p].last \in 1..Len(st[p])
    BY <1>0, JobFields DEF RangeOK, Compacting
  <2> QED BY <2>1, ReaderFields
<1>b. /\ pc'[p] \in {"cpwrite", "cpdone"}
      /\ \A q \in Proc \ {p} : pc'[q] = pc[q]
  BY DEF Install, Goto, TypeOK, CallsOK
<1>c. job' = job \/ \E x \in NewNames(lo, hi) : job' = [job EXCEPT ![p].new = x]
  BY DEF Install
<1>d. \A q \in Proc \ {p} : job'[q] = job[q]
  BY <1>c DEF TypeOK, CallsOK
<1>1. FilesOrdered'
  BY DEF OrderInv, FilesOrdered, Install, Goto, history, loading
<1>2. ProcOrdered(p)'
  <2>1. ReplacesRange(p)'
    <3>1. CASE job' = job
      BY <3>1, <1>0, <1>b DEF ReplacesRange, ProcOrdered
    <3>2. ASSUME NEW x \in NewNames(lo, hi), job' = [job EXCEPT ![p].new = x]
          PROVE  ReplacesRange(p)'
      <4>1. x.min = lo /\ x.max = hi
        BY <1>a, NamesAreFresh
      <4>2. /\ job'[p].new = x /\ job'[p].first = job[p].first
            /\ job'[p].last = job[p].last
        BY <3>2 DEF TypeOK, CallsOK, Jobs
      <4> QED BY <1>0, <1>b, <4>1, <4>2 DEF ReplacesRange
    <3> QED BY <1>c, <3>1, <3>2
  <2>2. newt[p] = <<>>
    BY <1>0 DEF ProcOrdered, AddsOnTop
  <2> QED BY <2>1, <2>2, <1>0, <1>b, MoveOrder
<1>3. OthersUnchanged(p)
  BY <1>0, <1>b, <1>d DEF OthersUnchanged
<1> QED BY <1>1, <1>2, <1>3, OneProcess

\* The list of a compaction being written keeps the ranges in order.
LEMMA CompactionWriteOrder ==
  ASSUME TypeOK, TypeOK', ControlOK, OrderInv, NEW p \in Proc,
         CompactionWrite(p)
  PROVE  OrderInv'
<1>1. FilesOrdered'
  <2> DEFINE ns == NamesOf(st[p])
             new == Replacement(p)
             s == Spliced(ns, job[p].first, job[p].last, new)
  <2>1. /\ pc[p] = "cpwrite" /\ RangeOK(p) /\ ProcOrdered(p)
    BY DEF CompactionWrite, ControlOK, OrderInv
  <2>2. /\ ns \in Seq(TableName) /\ Ordered(ns) /\ Len(ns) = Len(st[p])
        /\ new \in Seq(TableName)
    BY <2>1, StackNames DEF ProcOrdered
  <2>3. /\ job[p].first \in 1..Len(st[p]) /\ job[p].last \in job[p].first..Len(st[p])
        /\ job[p].last \in 1..Len(st[p])
    BY <2>1, JobFields DEF RangeOK, Compacting
  <2>4. /\ ns[job[p].first] = st[p][job[p].first].name
        /\ ns[job[p].last] = st[p][job[p].last].name
    BY <2>3, NamesOfType DEF TypeOK, StacksOK
  <2>5. /\ Len(new) <= 1
        /\ new # <<>> => /\ new[1].min = ns[job[p].first].min
                         /\ new[1].max = ns[job[p].last].max
    BY <2>1, <2>4 DEF Replacement, ProcOrdered, ReplacesRange
  <2> HIDE DEF ns, new
  <2>6. Ordered(s)
    BY <2>2, <2>3, <2>5, OrderedSpliced
  <2> HIDE DEF s
  <2>7. list' \in {list, s} /\ lockFile' \in {lockFile, s}
    BY DEF CompactionWrite, WriteLock, s, ns, new
  <2> QED BY <2>6, <2>7 DEF OrderInv, FilesOrdered
<1>2. ProcOrdered(p)'
  <2>1. /\ pc[p] = "cpwrite" /\ pc'[p] \in {"cprename", "cpdone"}
        /\ st' = st /\ names' = names /\ opened' = opened /\ newt' = newt
    BY DEF CompactionWrite, Goto, loading, TypeOK, CallsOK
  <2>2. ReplacesRange(p)'
    BY <2>1 DEF CompactionWrite, OrderInv, ProcOrdered, ReplacesRange, TypeOK, CallsOK, Jobs
  <2>3. ProcOrdered(p) /\ newt[p] = <<>>
    BY <2>1 DEF OrderInv, ProcOrdered, AddsOnTop
  <2> QED BY <2>1, <2>2, <2>3, MoveOrder
<1>3. OthersUnchanged(p)
  BY DEF OthersUnchanged, TypeOK, StacksOK, CallsOK, CompactionWrite, Goto,
     Replacement, Without, WriteLock, history, loading
<1> QED BY <1>1, <1>2, <1>3, OneProcess

\* The list of a compaction being renamed keeps the ranges in order.
LEMMA CompactionRenameOrder ==
  ASSUME TypeOK, TypeOK', ControlOK, OrderInv, NEW p \in Proc,
         CompactionRename(p)
  PROVE  OrderInv'
<1>1. FilesOrdered'
  BY DEF OrderInv, FilesOrdered, CompactionRename, FdsAfterRename, Goto,
     RenameLock, StartReload, history
<1>2. ProcOrdered(p)'
  BY DEF OrderInv, ProcOrdered, OpensInOrder, AddsOnTop, ReplacesRange,
     TypeOK, StacksOK, CallsOK, CompactionRename, FdsAfterRename, Goto,
     RenameLock, StartReload, history
<1>3. OthersUnchanged(p)
  BY DEF OthersUnchanged, TypeOK, StacksOK, CallsOK, CompactionRename,
     FdsAfterRename, Goto, RenameLock, StartReload, history
<1> QED BY <1>1, <1>2, <1>3, OneProcess

\* A compaction whose rename fails keeps the ranges in order.
LEMMA CompactionRenameFailsOrder ==
  ASSUME TypeOK, TypeOK', ControlOK, OrderInv, NEW p \in Proc,
         CompactionRenameFails(p)
  PROVE  OrderInv'
<1>1. FilesOrdered'
  BY DEF OrderInv, FilesOrdered, CompactionRenameFails, Goto, Without,
     history, loading
<1>2. ProcOrdered(p)'
  BY DEF OrderInv, ProcOrdered, OpensInOrder, AddsOnTop, ReplacesRange,
     TypeOK, StacksOK, CallsOK, CompactionRenameFails, Goto, Without, history,
     loading
<1>3. OthersUnchanged(p)
  BY DEF OthersUnchanged, TypeOK, StacksOK, CallsOK, CompactionRenameFails,
     Goto, Without, history, loading
<1> QED BY <1>1, <1>2, <1>3, OneProcess

\* The compacted tables being unlinked keeps the ranges in order.
LEMMA DeleteCompactedOrder ==
  ASSUME TypeOK, TypeOK', ControlOK, OrderInv, NEW p \in Proc,
         DeleteCompacted(p)
  PROVE  OrderInv'
<1>1. FilesOrdered'
  BY DEF OrderInv, FilesOrdered, DeleteCompacted, Goto, Without, history,
     loading
<1>2. ProcOrdered(p)'
  BY DEF OrderInv, ProcOrdered, OpensInOrder, AddsOnTop, ReplacesRange,
     TypeOK, StacksOK, CallsOK, DeleteCompacted, Goto, Without, history,
     loading
<1>3. OthersUnchanged(p)
  BY DEF OthersUnchanged, TypeOK, StacksOK, CallsOK, DeleteCompacted, Goto,
     Without, history, loading
<1> QED BY <1>1, <1>2, <1>3, OneProcess

\* The exit of stack_compact_range keeps the ranges in order.
LEMMA CompactionDoneOrder ==
  ASSUME TypeOK, TypeOK', ControlOK, OrderInv, NEW p \in Proc,
         CompactionDone(p)
  PROVE  OrderInv'
<1>1. FilesOrdered'
  BY DEF OrderInv, FilesOrdered, CompactionDone, FdsAfterUnlink, Goto,
     LocksToUnlink, NoJob, UnlinkLock, history, loading
<1>2. ProcOrdered(p)'
  BY DEF OrderInv, ProcOrdered, OpensInOrder, AddsOnTop, ReplacesRange,
     TypeOK, StacksOK, CallsOK, CompactionDone, FdsAfterUnlink, Goto,
     LocksToUnlink, NoJob, UnlinkLock, history, loading
<1>3. OthersUnchanged(p)
  BY DEF OthersUnchanged, TypeOK, StacksOK, CallsOK, CompactionDone,
     FdsAfterUnlink, Goto, LocksToUnlink, NoJob, UnlinkLock, history, loading
<1> QED BY <1>1, <1>2, <1>3, OneProcess

\* Reftable_new_stack keeps the ranges in order.
LEMMA OpenOrder ==
  ASSUME TypeOK, TypeOK', ControlOK, OrderInv, NEW p \in Proc,
         Open(p)
  PROVE  OrderInv'
<1>1. FilesOrdered'
  BY DEF OrderInv, FilesOrdered, Open, Goto, StartReload, history, shared
<1>2. ProcOrdered(p)'
  BY DEF OrderInv, ProcOrdered, OpensInOrder, AddsOnTop, ReplacesRange,
     TypeOK, StacksOK, CallsOK, Open, Goto, StartReload, history, shared
<1>3. OthersUnchanged(p)
  BY DEF OthersUnchanged, TypeOK, StacksOK, CallsOK, Open, Goto, StartReload,
     history, shared
<1> QED BY <1>1, <1>2, <1>3, OneProcess

\* Init_addition getting the lock keeps the ranges in order.
LEMMA LockListOrder ==
  ASSUME TypeOK, TypeOK', ControlOK, OrderInv, NEW p \in Proc, NEW c \in CallNames,
         LockList(p, c)
  PROVE  OrderInv'
<1>1. FilesOrdered'
  <2>1. lockFile' = <<>> \/ lockFile' = lockFile
    BY DEF LockList, CreateLock
  <2>2. UNCHANGED list
    BY DEF LockList
  <2> QED BY <2>1, <2>2, OrderedEmpty DEF OrderInv, FilesOrdered
<1>2. ProcOrdered(p)'
  <2>1. /\ pc[p] = "idle" /\ pc'[p] \in {"locked"}
        /\ st' = st /\ names' = names /\ opened' = opened /\ newt' = newt
    BY DEF LockList, Goto, loading, TypeOK, CallsOK
  <2>2. ReplacesRange(p)'
    BY <2>1 DEF LockList, OrderInv, ProcOrdered, ReplacesRange, TypeOK, CallsOK, Jobs
  <2>3. ProcOrdered(p) /\ newt[p] = <<>>
    BY <2>1 DEF OrderInv, ProcOrdered, AddsOnTop
  <2> QED BY <2>1, <2>2, <2>3, MoveOrder
<1>3. OthersUnchanged(p)
  BY DEF OthersUnchanged, TypeOK, StacksOK, CallsOK, LockList, CreateLock,
     Goto, history, loading
<1> QED BY <1>1, <1>2, <1>3, OneProcess

\* Init_addition finding the lock taken keeps the ranges in order.
LEMMA LockTakenOrder ==
  ASSUME TypeOK, TypeOK', ControlOK, OrderInv, NEW p \in Proc, NEW c \in CallNames,
         LockTaken(p, c)
  PROVE  OrderInv'
<1>1. FilesOrdered'
  BY DEF OrderInv, FilesOrdered, LockTaken, Goto, history, loading, shared
<1>2. ProcOrdered(p)'
  BY DEF OrderInv, ProcOrdered, OpensInOrder, AddsOnTop, ReplacesRange,
     TypeOK, StacksOK, CallsOK, LockTaken, Goto, history, loading, shared
<1>3. OthersUnchanged(p)
  BY DEF OthersUnchanged, TypeOK, StacksOK, CallsOK, LockTaken, Goto, history,
     loading, shared
<1> QED BY <1>1, <1>2, <1>3, OneProcess

\* A call of reftable_stack_reload keeps the ranges in order.
LEMMA ReloadOrder ==
  ASSUME TypeOK, TypeOK', ControlOK, OrderInv, NEW p \in Proc,
         Reload(p)
  PROVE  OrderInv'
<1>1. FilesOrdered'
  BY DEF OrderInv, FilesOrdered, Reload, Goto, history, loading, shared
<1>2. ProcOrdered(p)'
  BY DEF OrderInv, ProcOrdered, OpensInOrder, AddsOnTop, ReplacesRange,
     TypeOK, StacksOK, CallsOK, Reload, Goto, history, loading, shared
<1>3. OthersUnchanged(p)
  BY DEF OthersUnchanged, TypeOK, StacksOK, CallsOK, Reload, Goto, history,
     loading, shared
<1> QED BY <1>1, <1>2, <1>3, OneProcess

\* Reftable_stack_compact_all keeps the ranges in order.
LEMMA CompactAllOrder ==
  ASSUME TypeOK, TypeOK', ControlOK, OrderInv, NEW p \in Proc,
         CompactAll(p)
  PROVE  OrderInv'
<1>1. FilesOrdered'
  <2>1. lockFile' = <<>> \/ lockFile' = lockFile
    BY DEF CompactAll, CreateLock, LockForCompaction
  <2>2. UNCHANGED list
    BY DEF CompactAll
  <2> QED BY <2>1, <2>2, OrderedEmpty DEF OrderInv, FilesOrdered
<1>2. ProcOrdered(p)'
  <2>1. /\ pc[p] = "idle" /\ pc'[p] \in {"cpcheck", "idle"}
        /\ st' = st /\ names' = names /\ opened' = opened /\ newt' = newt
    BY DEF CompactAll, LockForCompaction, Goto, loading, TypeOK, CallsOK
  <2>2. pc'[p] = "cpcheck" => job'[p].new = NoName
    BY DEF CompactAll, LockForCompaction, Goto, TypeOK, CallsOK
  <2>3. ProcOrdered(p) /\ newt[p] = <<>>
    BY <2>1 DEF OrderInv, ProcOrdered, AddsOnTop
  <2>4. ReplacesRange(p)'
    BY <2>1, <2>2 DEF ReplacesRange
  <2> QED BY <2>1, <2>3, <2>4, MoveOrder
<1>3. OthersUnchanged(p)
  BY DEF OthersUnchanged, TypeOK, StacksOK, CallsOK, CompactAll, CreateLock,
     Goto, LockForCompaction, history, loading
<1> QED BY <1>1, <1>2, <1>3, OneProcess

\* Reftable_stack_destroy reading the list keeps the ranges in order.
LEMMA DestroyOrder ==
  ASSUME TypeOK, TypeOK', ControlOK, OrderInv, NEW p \in Proc,
         Destroy(p)
  PROVE  OrderInv'
<1>1. FilesOrdered'
  BY DEF OrderInv, FilesOrdered, Destroy, Goto, history, shared
<1>2. ProcOrdered(p)'
  <2>1. /\ pc[p] = "idle" /\ pc'[p] = "destroy" /\ names'[p] = list
        /\ st' = st /\ opened' = opened /\ newt' = newt /\ job' = job
    BY DEF Destroy, Goto, TypeOK, StacksOK, CallsOK
  <2>2. Ordered(NamesOf(st[p]))' /\ Ordered(names[p])'
    BY <2>1 DEF OrderInv, FilesOrdered, ProcOrdered
  <2>3. OpensInOrder(p)' /\ AddsOnTop(p)' /\ ReplacesRange(p)'
    BY <2>1 DEF OrderInv, ProcOrdered, OpensInOrder, AddsOnTop, ReplacesRange
  <2> QED BY <2>2, <2>3 DEF ProcOrdered
<1>3. OthersUnchanged(p)
  BY DEF OthersUnchanged, TypeOK, StacksOK, CallsOK, Destroy, Goto, history,
     shared
<1> QED BY <1>1, <1>2, <1>3, OneProcess

\* Reftable_stack_destroy unlinking old tables keeps the ranges in order.
LEMMA DestroyUnlinkOrder ==
  ASSUME TypeOK, TypeOK', ControlOK, OrderInv, NEW p \in Proc,
         DestroyUnlink(p)
  PROVE  OrderInv'
<1>1. FilesOrdered'
  BY DEF OrderInv, FilesOrdered, DestroyUnlink, Forget, Goto, NoJob, Without
<1>2. ProcOrdered(p)'
  BY ForgetOrder DEF DestroyUnlink
<1>3. OthersUnchanged(p)
  BY DEF OthersUnchanged, TypeOK, StacksOK, CallsOK, DestroyUnlink, Forget,
     Goto, NoJob, Without
<1> QED BY <1>1, <1>2, <1>3, OneProcess

\* A process that dies keeps the ranges in order.
LEMMA CrashOrder ==
  ASSUME TypeOK, TypeOK', ControlOK, OrderInv, NEW p \in Proc,
         Crash(p)
  PROVE  OrderInv'
<1>1. FilesOrdered'
  BY DEF OrderInv, FilesOrdered, Crash, Forget, Goto, NoJob, shared
<1>2. ProcOrdered(p)'
  BY ForgetOrder DEF Crash
<1>3. OthersUnchanged(p)
  BY DEF OthersUnchanged, TypeOK, StacksOK, CallsOK, Crash, Forget, Goto,
     NoJob, shared
<1> QED BY <1>1, <1>2, <1>3, OneProcess

\* Every step of every process keeps the order invariant.
LEMMA StepOrder ==
  ASSUME MaxTables = 1, TypeOK, TypeOK', ControlOK, OrderInv, [Next]_vars
  PROVE  OrderInv'
<1>1. CASE UNCHANGED vars
  BY <1>1 DEF vars, shared, loading, OrderInv, FilesOrdered, ProcOrdered,
              OpensInOrder, AddsOnTop, ReplacesRange
<1>2. ASSUME NEW p \in Proc, ReloadStep(p) PROVE OrderInv'
  BY <1>2, ReloadCheckOrder, ReadListOrder, ReuseReaderOrder, OpenTableOrder,
     TableMissingOrder, RecheckOrder, SwapOrder, UseAfterFreeOrder DEF ReloadStep
<1>3. ASSUME NEW p \in Proc, AdditionStep(p) PROVE OrderInv'
  BY <1>3, CheckLockedOrder, AddTableOrder, AbandonOrder, CommitNothingOrder,
     CommitWriteOrder, CommitRenameOrder, CommitRenameFailsOrder,
     AdditionCloseOrder, ScanOrder DEF AdditionStep
<1>4. ASSUME NEW p \in Proc, CompactionStep(p) PROVE OrderInv'
  BY <1>4, AutoCompactOrder, CompactionCheckOrder, LockTableOrder,
     UnlockForMergeOrder, MergeOrder, RelockOrder, InstallOrder, CompactionWriteOrder,
     CompactionRenameOrder, CompactionRenameFailsOrder, DeleteCompactedOrder,
     CompactionDoneOrder DEF CompactionStep
<1>5. ASSUME NEW p \in Proc, StartCall(p) PROVE OrderInv'
  BY <1>5, OpenOrder, ReloadOrder, LockListOrder, LockTakenOrder,
     CompactAllOrder, DestroyOrder DEF StartCall
<1> QED BY <1>1, <1>2, <1>3, <1>4, <1>5, DestroyUnlinkOrder, GiveUpOrder,
           CrashOrder DEF Next, CallStep

\* The list and every open stack stay ordered by update index, for any number
\* of processes that add, compact, clean, reload, destroy and crash in any
\* order, when a transaction writes one table.  Two processes that both think
\* they hold the lock may lose each other's tables, but never reorder them.
THEOREM OrderedLists ==
  ASSUME MaxTables = 1
  PROVE  Spec => []ListOrdered
<1>1. Init => TypeOK /\ ControlOK /\ OrderInv
  BY InitTypes, InitOrder
<1>2. TypeOK /\ ControlOK /\ OrderInv /\ [Next]_vars
      => TypeOK' /\ ControlOK' /\ OrderInv'
  BY StepTypes, StepOrder
<1>3. OrderInv => ListOrdered
  BY DEF OrderInv, FilesOrdered, ProcOrdered, ListOrdered
<1> QED BY <1>1, <1>2, <1>3, PTL DEF Spec

=============================================================================
