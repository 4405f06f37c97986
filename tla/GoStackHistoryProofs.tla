------------------------ MODULE GoStackHistoryProofs ------------------------
(***************************************************************************)
(* Theorems about what Go writers commit: tables.list and the files it     *)
(* names always say what was committed, and the stacks implement RefDB.    *)
(* They hold for any number of processes that open, write, clean, close,   *)
(* die and start again, for any transactions and contents, as long as      *)
(* nobody compacts and no system call fails; with either, two processes    *)
(* can have the lock on the list (GoStackProofs).                          *)
(***************************************************************************)
EXTENDS GoStackProofs

\* Without compaction the list only grows, so that a list read earlier is a
\* prefix of the present one.
Prefix(s, t) == Len(s) <= Len(t) /\ \A i \in 1..Len(s) : s[i] = t[i]

\* The readers rs read files that are still there.
Backed(rs) == \A i \in 1..Len(rs) : /\ rs[i].name \in DOMAIN dir
                                    /\ rs[i].recs = dir[rs[i].name]

\* p has the lock and has seen that its stack is the one on disk.
Checked(p) == \/ pc[p] \in {"adding", "rename", "scan"}
              \/ pc[p] \in Reloading /\ ret[p] = "scan"

\* A stack is a stack of the past, read from files that are still listed.
StackOK(p) == /\ Prefix(NamesOf(st[p]), list) /\ Backed(st[p])
              /\ ver[p] <= Len(hist)

\* So is the list that a reload, or a Close, goes through, and it is no older
\* than the stack; what a reload will show is the state of its version.
LoadOK(p) ==
  /\ pc[p] \in {"open", "close"} => /\ Prefix(load[p].names, list)
                                    /\ Prefix(NamesOf(st[p]), load[p].names)
  /\ pc[p] = "open" => /\ Prefix(NamesOf(load[p].opened), load[p].names)
                       /\ Backed(load[p].opened)
                       /\ load[p].at \in 1..Len(hist) /\ ver[p] <= load[p].at
                       /\ Live(Merged(Holding(load[p].names))) = hist[load[p].at]
                       /\ ret[p] = "scan" => load[p].names = list

\* A writer that passed the check has the newest stack until it lets go of the
\* lock; its tables are on disk, and nobody else's.
AdditionOK(p) ==
  /\ pc[p] \in {"locked", "adding"} => fdAt[p] = "lock"
  /\ Checked(p) => NamesOf(st[p]) = list
  /\ pc[p] \in {"adding", "rename"} => ver[p] = Len(hist)
  /\ newt[p] # <<>> => pc[p] \in {"adding", "rename", "adclose"}
  /\ Backed(newt[p]) /\ Len(newt[p]) <= MaxTables
  /\ \A i \in 1..Len(newt[p]) : /\ newt[p][i].name \notin NameSet(list)
                                /\ newt[p][i].recs \in Batches
  /\ pc[p] = "rename" => /\ newt[p] # <<>>
                         /\ lockFile = NamesOf(st[p]) \o NamesOf(newt[p])

ProcessOK(p) == StackOK(p) /\ LoadOK(p) /\ AdditionOK(p)

HistoryInv == Durable /\ \A p \in Proc : ProcessOK(p)

\* What a step of p leaves alone: listed files, all files and both lists if p
\* does not have the lock; the past in any case.
Spared(files) == \A n \in files \cap DOMAIN dir : n \in DOMAIN dir' /\ dir'[n] = dir[n]
Kept(p) ==
  /\ Spared(NameSet(list)) /\ Prefix(list, list') /\ Prefix(hist, hist')
  /\ lock[p] # "open" => /\ Spared(TableName) /\ UNCHANGED <<list, hist>>
                         /\ lockFile # NoFile => UNCHANGED lockFile
                         /\ \A q \in Proc \ {p} : fdAt'[q] = fdAt[q]

-----------------------------------------------------------------------------
(* Prefixes *)

\* A prefix of a prefix is a prefix, and the names in it are names of the whole.
LEMMA PrefixFacts ==
  /\ \A S : \A s \in Seq(S) : Prefix(s, s)
  /\ \A S : \A s, t, u \in Seq(S) : Prefix(s, t) /\ Prefix(t, u) => Prefix(s, u)
  /\ \A S : \A s, t \in Seq(S) : Prefix(s, s \o t)
  /\ \A S : \A s, t \in Seq(S) : Prefix(s, t) => NameSet(s) \subseteq NameSet(t)
<1>1. ASSUME NEW S, NEW s \in Seq(S) PROVE Prefix(s, s)
  BY DEF Prefix
<1>2. ASSUME NEW S, NEW s \in Seq(S), NEW t \in Seq(S), NEW u \in Seq(S),
             Prefix(s, t), Prefix(t, u)
      PROVE  Prefix(s, u)
  BY <1>2 DEF Prefix
<1>3. ASSUME NEW S, NEW s \in Seq(S), NEW t \in Seq(S) PROVE Prefix(s, s \o t)
  BY DEF Prefix
<1>4. ASSUME NEW S, NEW s \in Seq(S), NEW t \in Seq(S), Prefix(s, t)
      PROVE  NameSet(s) \subseteq NameSet(t)
  BY <1>4 DEF Prefix, NameSet
<1> QED BY <1>1, <1>2, <1>3, <1>4

\* A longer stack of names has the shorter one as a prefix.
LEMMA PrefixExtended ==
  ASSUME NEW S, NEW s \in Seq(S), NEW t \in Seq(S), Prefix(s, t), Len(s) < Len(t)
  PROVE  Prefix(Append(s, t[Len(s) + 1]), t)
BY DEF Prefix

\* Two prefixes of one list that are equally long are the same.
LEMMA PrefixWhole ==
  ASSUME NEW S, NEW s \in Seq(S), NEW t \in Seq(S), Prefix(s, t), Len(s) = Len(t)
  PROVE  s = t
BY SeqEqual DEF Prefix

\* A sequence with one more element.
LEMMA AppendAny ==
  ASSUME NEW S, NEW s \in Seq(S), NEW x
  PROVE  /\ Len(Append(s, x)) = Len(s) + 1
         /\ \A i \in 1..Len(s) : Append(s, x)[i] = s[i]
         /\ Append(s, x)[Len(Append(s, x))] = x
<1>1. s \in Seq(S \cup {x})
  OBVIOUS
<1> QED BY <1>1, AppendProperties

\* The names of a stack with one more reader.
LEMMA NamesOfAppend ==
  ASSUME NEW rs \in Seq(Reader), NEW r \in Reader
  PROVE  NamesOf(Append(rs, r)) = Append(NamesOf(rs), r.name)
<1>1. /\ Append(rs, r) \in Seq(Reader) /\ Len(Append(rs, r)) = Len(rs) + 1 /\ Len(rs) \in Nat
      /\ \A i \in 1..Len(rs) : Append(rs, r)[i] = rs[i]
      /\ Append(rs, r)[Len(rs) + 1] = r
  BY AppendProperties
<1>2. NamesOf(rs) \in Seq(TableName) /\ Len(NamesOf(rs)) = Len(rs)
      /\ \A i \in 1..Len(rs) : NamesOf(rs)[i] = rs[i].name
  BY NamesOfType
<1>3. r.name \in TableName
  BY DEF Reader
<1> DEFINE a == Append(NamesOf(rs), r.name)
           b == NamesOf(Append(rs, r))
<1>4. /\ a \in Seq(TableName) /\ Len(a) = Len(rs) + 1
      /\ \A i \in 1..Len(rs) : a[i] = rs[i].name
      /\ a[Len(rs) + 1] = r.name
  BY <1>2, <1>3, AppendProperties
<1>5. /\ b \in Seq(TableName) /\ Len(b) = Len(rs) + 1
      /\ \A i \in 1..Len(rs) + 1 : b[i] = Append(rs, r)[i].name
  BY <1>1, NamesOfType
<1> HIDE DEF a, b
<1>6. ASSUME NEW i \in 1..Len(a) PROVE a[i] = b[i]
  <2>1. CASE i \in 1..Len(rs)
    BY <2>1, <1>1, <1>4, <1>5
  <2>2. CASE i = Len(rs) + 1
    BY <2>2, <1>1, <1>4, <1>5
  <2> QED BY <2>1, <2>2, <1>1, <1>4
<1>7. a = b
  BY <1>4, <1>5, <1>6, SeqEqual
<1> QED BY <1>7 DEF a, b

-----------------------------------------------------------------------------
(* The steps of other processes *)

\* Readers of listed files still have their files after a step of anyone.
LEMMA ReadersSpared ==
  ASSUME NEW rs \in Seq(Reader), NEW names, Backed(rs), Spared(names),
         \A i \in 1..Len(rs) : rs[i].name \in names
  PROVE  \A i \in 1..Len(rs) : rs[i].name \in DOMAIN dir' /\ rs[i].recs = dir'[rs[i].name]
BY DEF Backed, Spared

\* A stack that is a prefix of a list has only names of the list.
LEMMA PrefixReaders ==
  ASSUME NEW rs \in Seq(Reader), NEW names \in Seq(TableName), Prefix(NamesOf(rs), names)
  PROVE  \A i \in 1..Len(rs) : rs[i].name \in NameSet(names)
BY NamesOfType DEF Prefix, NameSet

\* A step of p that keeps to its own leaves every other process with what it
\* had: its stack and its reload are still of the past, and if it is a writer
\* then p is none.
LEMMA OthersHistory ==
  ASSUME TypeOK, TypeOK', LockInv, HistoryInv, NEW p \in Proc, OthersUnchanged(p), Kept(p),
         NEW q \in Proc \ {p}
  PROVE  ProcessOK(q)'
<1>1. /\ st[q] \in Seq(Reader) /\ newt[q] \in Seq(Reader) /\ NamesOf(st[q]) \in Seq(TableName)
      /\ load[q].opened \in Seq(Reader) /\ load[q].names \in Seq(TableName)
      /\ list \in Seq(TableName) /\ list' \in Seq(TableName)
      /\ hist \in Seq(Database) /\ hist' \in Seq(Database)
  BY StackNames, LoadFields DEF TypeOK, FilesOK, HistoryOK
<1>2. /\ pc'[q] = pc[q] /\ ret'[q] = ret[q] /\ st'[q] = st[q] /\ load'[q] = load[q]
      /\ newt'[q] = newt[q] /\ ver'[q] = ver[q]
  BY DEF OthersUnchanged
<1>3. /\ Spared(NameSet(list)) /\ Prefix(list, list')
      /\ Len(hist) <= Len(hist') /\ \A i \in 1..Len(hist) : hist'[i] = hist[i]
  BY DEF Kept, Prefix
<1>4. StackOK(q) /\ LoadOK(q) /\ AdditionOK(q) /\ ListIntact
  BY DEF HistoryInv, ProcessOK, Durable
<1>5. StackOK(q)'
  <2>1. Prefix(NamesOf(st[q]), list')
    BY <1>1, <1>3, <1>4, PrefixFacts DEF StackOK
  <2>2. \A i \in 1..Len(st[q]) : st[q][i].name \in DOMAIN dir' /\ st[q][i].recs = dir'[st[q][i].name]
    BY <1>1, <1>3, <1>4, PrefixReaders, ReadersSpared DEF StackOK
  <2>3. ver[q] <= Len(hist')
    <3>1. ver[q] \in Nat /\ Len(hist) \in Nat /\ Len(hist') \in Nat
      BY <1>1 DEF TypeOK, HistoryOK
    <3> QED BY <3>1, <1>3, <1>4 DEF StackOK
  <2> QED BY <1>2, <2>1, <2>2, <2>3 DEF StackOK, Backed
<1>6. lock[q] = "open" => /\ UNCHANGED <<list, hist, lockFile>> /\ fdAt'[q] = fdAt[q]
                          /\ Spared(TableName)
  BY DEF LockInv, LockOK, Kept
<1>7. Locking(q) => lock[q] = "open"
  BY DEF LockInv, LockOK
<1>8. AdditionOK(q)'
  <2>1. CASE lock[q] = "open"
    <3>1. \A i \in 1..Len(newt[q]) : newt[q][i].name \in TableName
      BY <1>1, ReaderFields
    <3>2. \A i \in 1..Len(newt[q]) : newt[q][i].name \in DOMAIN dir' /\ newt[q][i].recs = dir'[newt[q][i].name]
      BY <3>1, <2>1, <1>1, <1>4, <1>6, ReadersSpared DEF AdditionOK
    <3> QED BY <3>2, <2>1, <1>2, <1>4, <1>6 DEF AdditionOK, Backed, Checked
  <2>2. CASE lock[q] # "open"
    <3>1. newt[q] = <<>> /\ ~Checked(q) /\ pc[q] \notin {"locked", "adding", "rename"}
      BY <2>2, <1>4, <1>7 DEF Locking, Checked, AdditionOK
    <3>2. Len(newt[q]) = 0 /\ 0 <= MaxTables
      BY <3>1, EmptySeq, BoundsAssumption
    <3> QED BY <3>1, <3>2, <1>2 DEF AdditionOK, Checked, Backed
  <2> QED BY <2>1, <2>2
<1>9. LoadOK(q)'
  <2>1. ASSUME pc[q] \in {"open", "close"}
        PROVE  Prefix(load[q].names, list') /\ Prefix(NamesOf(st[q]), load[q].names)
    BY <2>1, <1>1, <1>3, <1>4, PrefixFacts DEF LoadOK
  <2>2. ASSUME pc[q] = "open"
        PROVE  /\ Prefix(NamesOf(load[q].opened), load[q].names)
               /\ \A i \in 1..Len(load[q].opened) :
                    /\ load[q].opened[i].name \in DOMAIN dir'
                    /\ load[q].opened[i].recs = dir'[load[q].opened[i].name]
               /\ load[q].at \in 1..Len(hist') /\ ver[q] <= load[q].at
               /\ Live(Merged(Holding(load[q].names)))' = hist'[load[q].at]
               /\ ret[q] = "scan" => load[q].names = list'
    <3>1. Prefix(NamesOf(load[q].opened), load[q].names) /\ Prefix(load[q].names, list)
      BY <2>2, <1>4 DEF LoadOK
    <3>2. NameSet(load[q].names) \subseteq NameSet(list)
      BY <3>1, <1>1, PrefixFacts
    <3>3. \A i \in 1..Len(load[q].opened) :
            /\ load[q].opened[i].name \in DOMAIN dir'
            /\ load[q].opened[i].recs = dir'[load[q].opened[i].name]
      <4>1. \A i \in 1..Len(load[q].opened) : load[q].opened[i].name \in NameSet(list)
        BY <3>1, <3>2, <1>1, PrefixReaders
      <4> QED BY <4>1, <2>2, <1>1, <1>3, <1>4, ReadersSpared DEF LoadOK
    <3>4. load[q].at \in 1..Len(hist) /\ ver[q] <= load[q].at
      BY <2>2, <1>4 DEF LoadOK
    <3>5. load[q].at \in 1..Len(hist') /\ hist'[load[q].at] = hist[load[q].at]
      BY <3>4, <1>1, <1>3
    <3>6. Holding(load[q].names)' = Holding(load[q].names)
      <4>1. \A i \in 1..Len(load[q].names) : dir'[load[q].names[i]] = dir[load[q].names[i]]
        BY <3>2, <1>3, <1>4 DEF NameSet, Spared, ListIntact
      <4> QED BY <4>1, <1>2 DEF Holding
    <3>7. Live(Merged(Holding(load[q].names)))' = hist[load[q].at]
      BY <3>6, <2>2, <1>4 DEF LoadOK
    <3>8. ret[q] = "scan" => load[q].names = list'
      BY <2>2, <1>4, <1>6, <1>7 DEF LoadOK, Locking, Reloading
    <3> QED BY <3>1, <3>3, <3>4, <3>5, <3>7, <3>8
  <2> QED BY <2>1, <2>2, <1>2 DEF LoadOK, Backed
<1> QED BY <1>5, <1>8, <1>9 DEF ProcessOK

-----------------------------------------------------------------------------
(* The steps of a process: what it may move on with *)

\* Nothing is readable before the first table, and no reader is open.
LEMMA InitHistory == Init => HistoryInv
<1> SUFFICES ASSUME Init PROVE HistoryInv
  OBVIOUS
<1>1. Len(<<>>) = 0 /\ NamesOf(<<>>) = <<>>
  BY EmptySeq, NamesOfEmpty
<1>2. Durable
  <2>1. Listed = <<>> /\ NameSet(list) = {}
    BY <1>1 DEF Init, EmptyDirectory, Listed, NameSet
  <2>2. hist = <<NoRecs>> /\ Len(hist) = 1 /\ hist[1] = NoRecs
    BY DEF Init
  <2> QED BY <2>1, <2>2, MergedSingle DEF Durable, ListIntact
<1>3. \A p \in Proc : ProcessOK(p)
  BY <1>1, BoundsAssumption DEF Init, EmptyDirectory, ProcessOK, StackOK, LoadOK, AdditionOK, Prefix,
     Backed, Checked, Reloading
<1> QED BY <1>2, <1>3 DEF HistoryInv

\* A step that leaves tables.list, the tables and the history alone.
LEMMA QuietFiles ==
  ASSUME TypeOK, HistoryInv, NEW p \in Proc, UNCHANGED <<dir, list, hist>>,
         \/ lock[p] = "open"
         \/ /\ lockFile # NoFile => UNCHANGED lockFile
            /\ \A q \in Proc \ {p} : fdAt'[q] = fdAt[q]
  PROVE  Kept(p) /\ Durable'
<1>1. Spared(NameSet(list)) /\ Spared(TableName)
  BY DEF Spared
<1>2. Prefix(list, list') /\ Prefix(hist, hist')
  BY PrefixFacts DEF TypeOK, FilesOK, HistoryOK
<1>3. Durable'
  BY DEF HistoryInv, Durable, ListIntact, Listed
<1> QED BY <1>1, <1>2, <1>3 DEF Kept

\* The stack is the one it was.
LEMMA SameStack ==
  ASSUME HistoryInv, NEW p \in Proc, UNCHANGED <<dir, list, hist>>,
         st'[p] = st[p], ver'[p] = ver[p]
  PROVE  StackOK(p)'
BY DEF HistoryInv, ProcessOK, StackOK, Backed

\* The addition is the one it was.
LEMMA SameAddition ==
  ASSUME HistoryInv, NEW p \in Proc, UNCHANGED <<dir, list, hist>>,
         st'[p] = st[p], newt'[p] = newt[p],
         Checked(p)' => Checked(p),
         pc'[p] \notin {"locked", "adding", "rename"},
         newt[p] = <<>> \/ pc'[p] = "adclose"
  PROVE  AdditionOK(p)'
BY DEF HistoryInv, ProcessOK, AdditionOK, Backed

\* A process that leaves a reload or an addition, or begins a reload.
LEMMA ControlMoves ==
  ASSUME TypeOK, HistoryInv, NEW p \in Proc,
         UNCHANGED <<dir, list, hist, lockFile, fdAt>>,
         st'[p] = st[p], ver'[p] = ver[p], newt'[p] = newt[p],
         Checked(p)' => Checked(p),
         pc'[p] \notin {"open", "close", "locked", "adding", "rename"},
         newt[p] = <<>> \/ pc'[p] = "adclose"
  PROVE  ProcessOK(p)' /\ Kept(p) /\ Durable'
<1>1. StackOK(p)' /\ AdditionOK(p)'
  BY SameStack, SameAddition
<1>2. LoadOK(p)'
  BY DEF LoadOK
<1>3. Kept(p) /\ Durable'
  BY QuietFiles
<1> QED BY <1>1, <1>2, <1>3 DEF ProcessOK

\* A process whose memory is gone.
LEMMA Forgotten ==
  ASSUME TypeOK, NEW p \in Proc, NEW label \in {"closed", "aborted"}, Forget(p, label)
  PROVE  ProcessOK(p)'
<1>1. Len(<<>>) = 0 /\ NamesOf(<<>>) = <<>>
  BY EmptySeq, NamesOfEmpty
<1>2. /\ st'[p] = <<>> /\ ver'[p] = 0 /\ newt'[p] = <<>> /\ pc'[p] = label
      /\ hist' = hist /\ hist \in Seq(Database) /\ load'[p] = NoLoad
  BY DEF Forget, Goto, TypeOK, StacksOK, CallsOK, HistoryOK
<1>3. Len(hist') \in Nat
  BY <1>2
<1> HIDE DEF Forget
<1> QED BY <1>1, <1>2, <1>3, BoundsAssumption DEF ProcessOK, StackOK, LoadOK, AdditionOK, Prefix,
        Backed, Checked, Reloading

\* A writer outside an addition has no tables of its own.
LEMMA NoTables ==
  ASSUME HistoryInv, NEW p \in Proc, pc[p] \notin {"adding", "rename", "adclose"}
  PROVE  newt[p] = <<>>
BY DEF HistoryInv, ProcessOK, AdditionOK

\* Open begins a reload.
LEMMA OpenHistory ==
  ASSUME TypeOK, HistoryInv, NEW p \in Proc, Open(p)
  PROVE  ProcessOK(p)' /\ Kept(p) /\ Durable'
<1>1. /\ pc[p] \in {"closed", "aborted"} /\ pc'[p] = "read" /\ ret'[p] = "open"
      /\ UNCHANGED <<dir, list, hist, lockFile, fdAt, st, ver, newt>>
  BY DEF Open, StartReload, Goto, Return, shared, history, TypeOK, CallsOK
<1> QED BY <1>1, NoTables, ControlMoves DEF Checked

\* So does Add when the lock is taken.
LEMMA LockTakenHistory ==
  ASSUME TypeOK, HistoryInv, NEW p \in Proc, LockTaken(p)
  PROVE  ProcessOK(p)' /\ Kept(p) /\ Durable'
<1>1. /\ pc[p] = "idle" /\ pc'[p] = "read" /\ ret'[p] = "plain"
      /\ UNCHANGED <<dir, list, hist, lockFile, fdAt, st, ver, newt>>
  BY DEF LockTaken, StartReload, Goto, Return, shared, history, TypeOK, CallsOK
<1> QED BY <1>1, NoTables, ControlMoves DEF Checked

\* A table that is missing leads to another look at the list.
LEMMA TableMissingHistory ==
  ASSUME TypeOK, HistoryInv, NEW p \in Proc, TableMissing(p)
  PROVE  ProcessOK(p)' /\ Kept(p) /\ Durable'
<1>1. /\ pc[p] = "open" /\ pc'[p] = "recheck" /\ ret' = ret
      /\ UNCHANGED <<dir, list, hist, lockFile, fdAt, st, ver, newt>>
  BY DEF TableMissing, MustOpen, Loading, Goto, shared, history, TypeOK, CallsOK
<1> QED BY <1>1, NoTables, ControlMoves DEF Checked, Reloading

\* Where a reload goes on that ends without a new stack: a cleaner keeps what it
\* checked.
LEMMA ReloadEnds ==
  ASSUME TypeOK, ControlOK, LockInv, NEW p \in Proc, pc[p] \in Reloading,
         pc'[p] \in {AfterReload[ret[p]], AfterFailure[ret[p]]}
  PROVE  /\ pc'[p] \in {"idle", "auto", "scan", "closed", "adclose"}
         /\ pc'[p] = "scan" => ret[p] = "scan"
         /\ Checked(p)' => Checked(p)
<1>1. ret[p] \in {"open", "plain", "auto", "scan"}
  BY DEF ControlOK, ReturnOK, LockInv, LockOK
<1>2. /\ AfterReload[ret[p]] = IF ret[p] = "scan" THEN "scan"
                               ELSE IF ret[p] = "auto" THEN "auto" ELSE "idle"
      /\ AfterFailure[ret[p]] = IF ret[p] = "scan" THEN "adclose"
                                ELSE IF ret[p] = "open" THEN "closed" ELSE "idle"
  BY <1>1 DEF AfterReload, AfterFailure
<1> QED BY <1>2 DEF Checked, Reloading

\* A reload fails, or looks again.
LEMMA RecheckHistory ==
  ASSUME TypeOK, ControlOK, LockInv, HistoryInv, NEW p \in Proc, Recheck(p)
  PROVE  ProcessOK(p)' /\ Kept(p) /\ Durable'
<1>1. /\ pc[p] = "recheck"
      /\ UNCHANGED <<dir, list, hist, lockFile, fdAt, st, ver, newt>>
      /\ \/ pc'[p] = AfterFailure[ret[p]]
         \/ pc'[p] = "read" /\ ret' = ret
  BY DEF Recheck, EndReload, Goto, shared, history, TypeOK, CallsOK
<1>2. CASE pc'[p] = AfterFailure[ret[p]]
  BY <1>1, <1>2, NoTables, ReloadEnds, ControlMoves DEF Reloading
<1>3. CASE pc'[p] = "read" /\ ret' = ret
  BY <1>1, <1>3, NoTables, ControlMoves DEF Checked, Reloading
<1> QED BY <1>1, <1>2, <1>3

\* A reload gives up.
LEMMA GiveUpHistory ==
  ASSUME TypeOK, ControlOK, LockInv, HistoryInv, NEW p \in Proc, GiveUp(p)
  PROVE  ProcessOK(p)' /\ Kept(p) /\ Durable'
<1>1. /\ pc[p] = "read" /\ pc'[p] = AfterReload[ret[p]]
      /\ UNCHANGED <<dir, list, hist, lockFile, fdAt, st, ver, newt>>
  BY DEF GiveUp, EndReload, Goto, shared, history, TypeOK, CallsOK
<1> QED BY <1>1, NoTables, ReloadEnds, ControlMoves DEF Reloading

\* A transaction is given up, or has no tables.
LEMMA AbandonHistory ==
  ASSUME TypeOK, HistoryInv, NEW p \in Proc, Abandon(p) \/ CommitNothing(p)
  PROVE  ProcessOK(p)' /\ Kept(p) /\ Durable'
<1>1. /\ pc[p] = "adding" /\ pc'[p] = "adclose"
      /\ UNCHANGED <<dir, list, hist, lockFile, fdAt, st, ver, newt>>
  BY DEF Abandon, CommitNothing, Goto, shared, history, TypeOK, CallsOK
<1> QED BY <1>1, ControlMoves DEF Checked, Reloading

\* AutoCompact finds nothing to do.
LEMMA AutoCompactHistory ==
  ASSUME TypeOK, WritersOnly, HistoryInv, NEW p \in Proc, AutoCompact(p)
  PROVE  ProcessOK(p)' /\ Kept(p) /\ Durable'
<1>1. /\ pc[p] = "auto" /\ pc'[p] = "idle"
      /\ UNCHANGED <<dir, list, hist, lockFile, fdAt, st, ver, newt>>
  BY DEF AutoCompact, WritersOnly, Goto, history, TypeOK, CallsOK
<1> QED BY <1>1, NoTables, ControlMoves DEF Checked, Reloading

-----------------------------------------------------------------------------
(* Reload *)

\* A reload or a Close reads the list, of which the stack is a prefix.
LEMMA ReadListHistory ==
  ASSUME TypeOK, LockInv, HistoryInv, NEW p \in Proc, ReadList(p)
  PROVE  ProcessOK(p)' /\ Kept(p) /\ Durable'
<1>1. /\ pc[p] = "read" /\ pc'[p] = "open" /\ ret' = ret
      /\ UNCHANGED <<dir, list, hist, lockFile, fdAt, st, ver, newt>>
      /\ load'[p].names = list /\ load'[p].opened = <<>> /\ load'[p].at = Len(hist)
  BY DEF ReadList, Goto, shared, history, TypeOK, StacksOK, CallsOK
<1>2. StackOK(p) /\ AdditionOK(p) /\ Durable
  BY DEF HistoryInv, ProcessOK
<1>3. /\ list \in Seq(TableName) /\ NamesOf(<<>>) = <<>> /\ Len(<<>>) = 0
      /\ hist \in Seq(Database) /\ hist # <<>> /\ Len(list) \in Nat
  BY NamesOfEmpty, EmptySeq DEF TypeOK, FilesOK, HistoryOK
<1>4. Checked(p)' => Checked(p)
  BY <1>1 DEF Checked, Reloading
<1>5. StackOK(p)' /\ AdditionOK(p)' /\ Kept(p) /\ Durable'
  BY <1>1, <1>4, NoTables, SameStack, SameAddition, QuietFiles
<1>6. LoadOK(p)'
  <2>1. Prefix(list, list) /\ Prefix(NamesOf(st[p]), list)
    BY <1>2, <1>3, PrefixFacts DEF StackOK
  <2>2. Prefix(NamesOf(<<>>), list)
    BY <1>3 DEF Prefix
  <2>3. Len(hist) \in 1..Len(hist)
    BY <1>3, EmptySeq
  <2>4. Live(Merged(Holding(list))) = hist[Len(hist)]
    BY <1>2 DEF Durable, Listed, Holding
  <2>5. Live(Merged(Holding(load[p].names)))' = hist[Len(hist)]
    BY <2>4, <1>1 DEF Holding
  <2> QED BY <2>1, <2>2, <2>3, <2>5, <1>1, <1>2, <1>3 DEF LoadOK, Backed, StackOK
<1> QED BY <1>5, <1>6 DEF ProcessOK

\* A reload goes on with one more reader, whose table is the next of the list.
LEMMA OneMoreReader ==
  ASSUME TypeOK, LockInv, HistoryInv, NEW p \in Proc, Loading(p),
         NEW r \in Reader, r.name = NextToOpen(p), r.name \in DOMAIN dir, r.recs = dir[r.name],
         load' = [load EXCEPT ![p].opened = Append(@, r)],
         UNCHANGED <<dir, list, hist, lockFile, fdAt, pc, ret, st, ver, newt>>
  PROVE  ProcessOK(p)' /\ Kept(p) /\ Durable'
<1> DEFINE opened == load[p].opened
           names == load[p].names
<1>1. /\ opened \in Seq(Reader) /\ names \in Seq(TableName) /\ NamesOf(opened) \in Seq(TableName)
      /\ Len(NamesOf(opened)) = Len(opened)
  BY LoadFields, NamesOfType
<1>2. load'[p].names = names /\ load'[p].at = load[p].at /\ load'[p].opened = Append(opened, r)
  BY LoadFields DEF TypeOK, StacksOK, Loads
<1>3. pc[p] = "open" /\ Len(opened) < Len(names)
  BY DEF Loading
<1> HIDE DEF opened, names
<1>4. Checked(p)' => Checked(p)
  BY DEF Checked
<1>5. StackOK(p)' /\ AdditionOK(p)' /\ Kept(p) /\ Durable'
  BY <1>3, <1>4, NoTables, SameStack, SameAddition, QuietFiles
<1>6. LoadOK(p)
  BY DEF HistoryInv, ProcessOK
<1>7. Prefix(NamesOf(Append(opened, r)), names)
  <2>1. Prefix(NamesOf(opened), names) /\ r.name = names[Len(opened) + 1]
    BY <1>3, <1>6 DEF LoadOK, NextToOpen, opened, names
  <2> QED BY <2>1, <1>1, <1>3, NamesOfAppend, PrefixExtended, ZenonT(60)
<1>8. Backed(Append(opened, r))
  <2>1. Backed(opened)
    BY <1>3, <1>6 DEF LoadOK, opened
  <2> QED BY <2>1, <1>1, AppendProperties DEF Backed
<1>9. LoadOK(p)'
  BY <1>2, <1>3, <1>6, <1>7, <1>8 DEF LoadOK, Backed, Holding, opened, names
<1> QED BY <1>5, <1>9 DEF ProcessOK

\* reloadOnce finds the table among the readers it has.
LEMMA ReuseReaderHistory ==
  ASSUME TypeOK, LockInv, HistoryInv, NEW p \in Proc, ReuseReader(p)
  PROVE  ProcessOK(p)' /\ Kept(p) /\ Durable'
<1>1. PICK i \in 1..Len(st[p]) :
        /\ st[p][i].name = NextToOpen(p)
        /\ load' = [load EXCEPT ![p].opened = Append(@, st[p][i])]
  BY DEF ReuseReader
<1>2. st[p][i] \in Reader
  BY StackNames, ReaderFields
<1>3. st[p][i].name \in DOMAIN dir /\ st[p][i].recs = dir[st[p][i].name]
  BY DEF HistoryInv, ProcessOK, StackOK, Backed
<1> QED BY <1>1, <1>2, <1>3, OneMoreReader DEF ReuseReader, shared, history

\* It opens the table otherwise.
LEMMA OpenTableHistory ==
  ASSUME TypeOK, LockInv, HistoryInv, NEW p \in Proc, OpenTable(p)
  PROVE  ProcessOK(p)' /\ Kept(p) /\ Durable'
<1> DEFINE r == [name |-> NextToOpen(p), recs |-> dir[NextToOpen(p)]]
<1>1. NextToOpen(p) \in DOMAIN dir /\ Loading(p)
  BY DEF OpenTable, MustOpen
<1>2. r \in Reader /\ r.name = NextToOpen(p) /\ r.recs = dir[r.name]
  BY <1>1 DEF TypeOK, FilesOK, Reader
<1>3. load' = [load EXCEPT ![p].opened = Append(@, r)]
  BY DEF OpenTable
<1> HIDE DEF r
<1> QED BY <1>1, <1>2, <1>3, OneMoreReader DEF OpenTable, shared, history

\* Where a reload has opened all tables of its list, and what it then has.
LEMMA LoadedStack ==
  ASSUME TypeOK, LockInv, HistoryInv, NEW p \in Proc, Swap(p)
  PROVE  /\ NamesOf(load[p].opened) = load[p].names
         /\ View(load[p].opened) = hist[load[p].at]
         /\ Dropped(p) = {}
<1> DEFINE opened == load[p].opened
           names == load[p].names
<1>1. /\ opened \in Seq(Reader) /\ names \in Seq(TableName) /\ NamesOf(opened) \in Seq(TableName)
      /\ Len(NamesOf(opened)) = Len(opened) /\ NamesOf(st[p]) \in Seq(TableName)
      /\ st[p] \in Seq(Reader)
  BY LoadFields, NamesOfType, StackNames
<1>2. LoadOK(p) /\ pc[p] = "open" /\ Len(opened) = Len(names)
  BY DEF HistoryInv, ProcessOK, Swap
<1>3. NamesOf(opened) = names
  BY <1>1, <1>2, PrefixWhole DEF LoadOK
<1>4. RecsOf(opened) = Holding(names)
  <2>1. \A i \in 1..Len(opened) : opened[i].recs = dir[names[i]]
    <3> TAKE i \in 1..Len(opened)
    <3>1. opened[i].recs = dir[opened[i].name]
      BY <1>2 DEF LoadOK, Backed
    <3>2. NamesOf(opened)[i] = opened[i].name
      BY DEF NamesOf
    <3> QED BY <3>1, <3>2, <1>3
  <2> QED BY <2>1, <1>2 DEF RecsOf, Holding
<1>5. View(opened) = hist[load[p].at]
  BY <1>2, <1>4 DEF View, LoadOK
<1>6. Dropped(p) = {}
  <2>1. Reuse(p)
    BY DEF LockInv, LockOK, NoJob, Reuse
  <2>2. ReaderNames(st[p]) \subseteq NameSet(names)
    BY <1>1, <1>2, PrefixReaders DEF LoadOK, ReaderNames
  <2> QED BY <2>1, <2>2 DEF Dropped
<1> QED BY <1>3, <1>5, <1>6

\* Files were unlinked, but none that is listed, and by the holder of the lock if
\* any was: what is listed stays, and so does a stack.
LEMMA UnlinkedFiles ==
  ASSUME TypeOK, HistoryInv, NEW p \in Proc, NEW files,
         files \cap NameSet(list) = {}, dir' = Without(files), UNCHANGED <<list, hist>>,
         \/ lock[p] = "open"
         \/ /\ files = {}
            /\ lockFile # NoFile => UNCHANGED lockFile
            /\ \A q \in Proc \ {p} : fdAt'[q] = fdAt[q]
  PROVE  /\ Kept(p) /\ Durable'
         /\ st'[p] = st[p] /\ ver'[p] = ver[p] => StackOK(p)'
<1>1. DOMAIN dir' = DOMAIN dir \ files /\ \A n \in DOMAIN dir' : dir'[n] = dir[n]
  BY DEF Without
<1>2. Spared(NameSet(list)) /\ (files = {} => Spared(TableName))
  BY <1>1 DEF Spared
<1>3. Prefix(list, list') /\ Prefix(hist, hist')
  BY PrefixFacts DEF TypeOK, FilesOK, HistoryOK
<1>4. Durable'
  <2>1. ListIntact'
    BY <1>2 DEF HistoryInv, Durable, ListIntact, Spared
  <2>2. \A i \in 1..Len(list) : dir'[list[i]] = dir[list[i]]
    BY <1>2 DEF HistoryInv, Durable, ListIntact, Spared, NameSet
  <2>3. Listed' = Listed
    BY <2>2 DEF Listed
  <2> QED BY <2>1, <2>3 DEF HistoryInv, Durable
<1>5. ASSUME st'[p] = st[p], ver'[p] = ver[p] PROVE StackOK(p)'
  <2>1. StackOK(p) /\ st[p] \in Seq(Reader) /\ list \in Seq(TableName)
    BY StackNames DEF HistoryInv, ProcessOK, TypeOK, FilesOK
  <2>2. \A i \in 1..Len(st[p]) : st[p][i].name \in DOMAIN dir' /\ st[p][i].recs = dir'[st[p][i].name]
    BY <1>2, <2>1, PrefixReaders, ReadersSpared DEF StackOK
  <2> QED BY <1>5, <2>1, <2>2 DEF StackOK, Backed
<1> QED BY <1>2, <1>3, <1>4, <1>5 DEF Kept

\* "success. Swap."
LEMMA SwapHistory ==
  ASSUME TypeOK, ControlOK, LockInv, HistoryInv, NEW p \in Proc, Swap(p)
  PROVE  ProcessOK(p)' /\ Kept(p) /\ Durable'
<1>1. /\ pc[p] = "open" /\ pc'[p] = AfterReload[ret[p]]
      /\ st'[p] = load[p].opened /\ ver'[p] = load[p].at
      /\ dir' = Without(Dropped(p)) /\ newt' = newt
      /\ UNCHANGED <<list, lockFile, fdAt, hist>>
  BY DEF Swap, EndReload, Goto, TypeOK, StacksOK, CallsOK, HistoryOK
<1>2. Dropped(p) = {} /\ NamesOf(load[p].opened) = load[p].names
  BY LoadedStack
<1>3. Kept(p) /\ Durable'
  BY <1>1, <1>2, UnlinkedFiles
<1>4. LoadOK(p) /\ load[p].opened \in Seq(Reader) /\ list \in Seq(TableName)
  BY LoadFields DEF HistoryInv, ProcessOK, TypeOK, FilesOK
<1>5. StackOK(p)'
  <2>1. Prefix(NamesOf(load[p].opened), list) /\ Backed(load[p].opened) /\ load[p].at <= Len(hist)
    <3>1. load[p].at <= Len(hist)
      BY <1>1, <1>4 DEF LoadOK, TypeOK, HistoryOK
    <3> QED BY <1>1, <1>2, <1>4, <3>1 DEF LoadOK
  <2>2. \A i \in 1..Len(load[p].opened) : /\ load[p].opened[i].name \in DOMAIN dir'
                                          /\ load[p].opened[i].recs = dir'[load[p].opened[i].name]
    BY <2>1, <1>3, <1>4, PrefixReaders, ReadersSpared DEF Kept
  <2> QED BY <1>1, <2>1, <2>2 DEF StackOK, Backed
<1>6. LoadOK(p)'
  BY <1>1, ReloadEnds DEF LoadOK, Reloading
<1>7. AdditionOK(p)'
  <2>1. /\ pc'[p] \in {"idle", "auto", "scan", "closed", "adclose"} /\ (Checked(p)' => Checked(p))
        /\ (pc'[p] = "scan" => ret[p] = "scan")
    BY <1>1, ReloadEnds DEF Reloading
  <2>2. newt'[p] = <<>> /\ Len(<<>>) = 0
    BY <1>1, NoTables, EmptySeq
  <2>3. Checked(p)' => NamesOf(st'[p]) = list'
    <3>1. Checked(p)' => ret[p] = "scan"
      BY <2>1 DEF Checked, Reloading
    <3> QED BY <3>1, <1>1, <1>2, <1>4 DEF LoadOK
  <2> QED BY <2>1, <2>2, <2>3, BoundsAssumption DEF AdditionOK, Backed
<1> QED BY <1>3, <1>5, <1>6, <1>7 DEF ProcessOK

-----------------------------------------------------------------------------
(* Additions *)

\* A writer takes the lock, which was nobody's.
LEMMA LockListHistory ==
  ASSUME TypeOK, HistoryInv, NEW p \in Proc, NEW c \in CallNames, LockList(p, c)
  PROVE  ProcessOK(p)' /\ Kept(p) /\ Durable'
<1>1. /\ pc[p] = "idle" /\ pc'[p] = "locked" /\ fdAt' = [fdAt EXCEPT ![p] = "lock"]
      /\ fdAt'[p] = "lock" /\ lockFile = NoFile /\ ret' = ret
      /\ UNCHANGED <<dir, list, hist, st, ver, newt>>
  BY DEF LockList, TakeLock, CreateLock, Goto, history, TypeOK, CallsOK
<1>2. StackOK(p)' /\ Kept(p) /\ Durable'
  BY <1>1, SameStack, QuietFiles
<1>3. LoadOK(p)'
  BY <1>1 DEF LoadOK
<1>4. AdditionOK(p)'
  BY <1>1, NoTables, EmptySeq, BoundsAssumption DEF AdditionOK, Backed, Checked, Reloading
<1> QED BY <1>2, <1>3, <1>4 DEF ProcessOK

\* A writer whose stack is the one on disk is at the newest version.
LEMMA CheckLockedHistory ==
  ASSUME TypeOK, HistoryInv, NEW p \in Proc, CheckLocked(p)
  PROVE  ProcessOK(p)' /\ Kept(p) /\ Durable'
<1>1. /\ pc[p] = "locked" /\ st' = st /\ newt' = newt
      /\ UNCHANGED <<dir, list, hist, lockFile, fdAt>>
  BY DEF CheckLocked, shared
<1>2. Kept(p) /\ Durable'
  BY <1>1, QuietFiles
<1>3. fdAt[p] = "lock" /\ StackOK(p)
  BY <1>1 DEF HistoryInv, ProcessOK, AdditionOK
<1>4. newt[p] = <<>> /\ Len(<<>>) = 0 /\ Len(hist) \in Nat
  BY <1>1, NoTables, EmptySeq DEF TypeOK, HistoryOK
<1>5. CASE UpToDate(p) /\ pc'[p] \in {"read", "adding"} /\ ver'[p] = Len(hist)
  <2>1. StackOK(p)'
    BY <1>1, <1>3, <1>4, <1>5 DEF StackOK, Backed
  <2>2. AdditionOK(p)'
    BY <1>1, <1>3, <1>4, <1>5, BoundsAssumption DEF AdditionOK, Backed, UpToDate
  <2> QED BY <1>2, <1>5, <2>1, <2>2 DEF ProcessOK, LoadOK
<1>6. CASE pc'[p] = "adclose" /\ ver' = ver
  <2>1. StackOK(p)'
    BY <1>1, <1>6, SameStack
  <2>2. AdditionOK(p)'
    BY <1>1, <1>4, <1>6, BoundsAssumption DEF AdditionOK, Backed, Checked, Reloading
  <2> QED BY <1>2, <1>6, <2>1, <2>2 DEF ProcessOK, LoadOK
<1>7. \/ UpToDate(p) /\ pc'[p] \in {"read", "adding"} /\ ver'[p] = Len(hist)
      \/ pc'[p] = "adclose" /\ ver' = ver
  BY DEF CheckLocked, MayAdd, StartReload, Goto, TypeOK, CallsOK, HistoryOK
<1> QED BY <1>5, <1>6, <1>7

\* A new table is on disk under a name nobody knows; it is not listed.
LEMMA AddTableHistory ==
  ASSUME TypeOK, WritersOnly, LockInv, HistoryInv, NEW p \in Proc, AddTable(p)
  PROVE  ProcessOK(p)' /\ Kept(p) /\ Durable'
<1>1. PICK lo \in Nat, hi \in Nat : \E x \in NewNames(lo, hi), b \in Batches :
        /\ dir' = With(x, b)
        /\ newt' = [newt EXCEPT ![p] = Append(@, [name |-> x, recs |-> b])]
        /\ UNCHANGED <<pc, ret>>
  BY AddedTable DEF WritersOnly
<1>2. PICK x \in NewNames(lo, hi), b \in Batches :
        /\ dir' = With(x, b)
        /\ newt' = [newt EXCEPT ![p] = Append(@, [name |-> x, recs |-> b])]
        /\ UNCHANGED <<pc, ret>>
  BY <1>1
<1> DEFINE r == [name |-> x, recs |-> b]
<1>3. x \in TableName /\ x \notin DOMAIN dir /\ x \notin NameSet(list)
  BY NamesAreFresh DEF HeldNames
<1>4. r \in Reader /\ r.name = x /\ r.recs = b
  BY <1>3, BatchAssumption DEF Reader
<1>5. /\ pc[p] = "adding" /\ Len(newt[p]) < (IF call[p] = "add" THEN 1 ELSE MaxTables)
      /\ UNCHANGED <<list, hist, lockFile, fdAt, st, ver>>
      /\ newt'[p] = Append(newt[p], r)
  BY <1>2 DEF AddTable, history, TypeOK, CallsOK
<1>6. DOMAIN dir' = DOMAIN dir \cup {x} /\ dir'[x] = b /\ \A n \in DOMAIN dir : dir'[n] = dir[n]
  BY <1>2, <1>3 DEF With
<1>7. lock[p] = "open" /\ StackOK(p) /\ AdditionOK(p) /\ Durable
  BY <1>5 DEF LockInv, LockOK, Locking, HistoryInv, ProcessOK
<1> HIDE DEF r
<1>8. Kept(p)
  <2>1. Prefix(list, list') /\ Prefix(hist, hist')
    BY <1>5, PrefixFacts DEF TypeOK, FilesOK, HistoryOK
  <2> QED BY <2>1, <1>6, <1>7 DEF Kept, Spared
<1>9. Durable'
  <2>1. ListIntact'
    BY <1>5, <1>6, <1>7 DEF Durable, ListIntact
  <2>2. Listed' = Listed
    <3>1. \A i \in 1..Len(list) : dir'[list[i]] = dir[list[i]]
      BY <1>6, <1>7 DEF Durable, ListIntact, NameSet
    <3> QED BY <3>1, <1>5 DEF Listed
  <2> QED BY <2>1, <2>2, <1>5, <1>7 DEF Durable
<1>10. StackOK(p)' /\ LoadOK(p)'
  BY <1>2, <1>5, <1>6, <1>7 DEF StackOK, Backed, LoadOK
<1>11. AdditionOK(p)'
  <2>1. /\ newt[p] \in Seq(Reader) /\ Len(newt[p]) \in Nat /\ MaxTables \in Nat \ {0}
        /\ Len(Append(newt[p], r)) = Len(newt[p]) + 1
        /\ \A i \in 1..Len(newt[p]) : Append(newt[p], r)[i] = newt[p][i]
        /\ Append(newt[p], r)[Len(newt[p]) + 1] = r
    BY <1>4, StackNames, AppendProperties, BoundsAssumption
  <2>2. Len(newt[p]) + 1 <= MaxTables
    BY <2>1, <1>5
  <2>3. ASSUME NEW i \in 1..Len(newt'[p])
        PROVE  /\ newt'[p][i].name \in DOMAIN dir' /\ newt'[p][i].recs = dir'[newt'[p][i].name]
               /\ newt'[p][i].name \notin NameSet(list) /\ newt'[p][i].recs \in Batches
    <3>1. CASE i \in 1..Len(newt[p])
      <4>1. newt'[p][i] = newt[p][i]
        BY <3>1, <2>1, <1>5
      <4> QED BY <4>1, <3>1, <1>6, <1>7 DEF AdditionOK, Backed
    <3>2. CASE i = Len(newt[p]) + 1
      <4>1. newt'[p][i] = r
        BY <3>2, <2>1, <1>5
      <4> QED BY <4>1, <1>3, <1>4, <1>6
    <3> QED BY <3>1, <3>2, <2>1, <1>5
  <2>4. Len(newt'[p]) <= MaxTables
    BY <2>1, <2>2, <1>5
  <2> QED BY <2>3, <2>4, <1>2, <1>5, <1>7 DEF AdditionOK, Backed, Checked
<1> QED BY <1>8, <1>9, <1>10, <1>11 DEF ProcessOK

\* The new list goes into the lock file, which is still the writer's.
LEMMA CommitWriteHistory ==
  ASSUME TypeOK, WritersOnly, LockInv, HistoryInv, NEW p \in Proc, CommitWrite(p)
  PROVE  ProcessOK(p)' /\ Kept(p) /\ Durable'
<1>1. /\ pc[p] = "adding" /\ pc'[p] = "rename" /\ newt[p] # <<>>
      /\ WriteLock(p, NamesOf(st[p]) \o NamesOf(newt[p]))
      /\ UNCHANGED <<dir, hist, st, ver, newt, ret>>
  BY DEF CommitWrite, Goto, history, WritersOnly, TypeOK, CallsOK
<1>2. lock[p] = "open" /\ AdditionOK(p) /\ fdAt[p] = "lock" /\ NamesOf(st[p]) = list /\ ver[p] = Len(hist)
  BY <1>1 DEF LockInv, LockOK, Locking, HistoryInv, ProcessOK, AdditionOK, Checked
<1>3. list' = list /\ lockFile' = NamesOf(st[p]) \o NamesOf(newt[p])
  BY <1>1, <1>2 DEF WriteLock
<1>4. StackOK(p)' /\ Kept(p) /\ Durable'
  BY <1>1, <1>2, <1>3, SameStack, QuietFiles
<1>5. LoadOK(p)' /\ AdditionOK(p)'
  BY <1>1, <1>2, <1>3 DEF LoadOK, AdditionOK, Backed
<1> QED BY <1>4, <1>5 DEF ProcessOK

\* The lock file becomes the list: the tables listed before, then the new ones.
\* What they hold together is the new state.
LEMMA CommitRenameHistory ==
  ASSUME TypeOK, TypeOK', WritersOnly, LockInv, HistoryInv, NEW p \in Proc, CommitRename(p)
  PROVE  ProcessOK(p)' /\ Kept(p) /\ Durable'
<1>1. /\ pc[p] = "rename" /\ pc'[p] = "read" /\ ret'[p] \in {"auto", "plain"} /\ newt'[p] = <<>>
      /\ list' = lockFile /\ hist' = Append(hist, Overlay(hist[Len(hist)], RecsOf(newt[p])))
      /\ UNCHANGED <<dir, st, ver>>
  BY DEF CommitRename, Rename, RenameLock, Committed, StartReload, Goto, Return, TypeOK, CallsOK
<1>2. lock[p] = "open" /\ StackOK(p) /\ AdditionOK(p) /\ Durable
  BY <1>1 DEF LockInv, LockOK, Locking, HistoryInv, ProcessOK
<1> DEFINE old == NamesOf(st[p])
           new == NamesOf(newt[p])
<1>3. /\ old = list /\ lockFile = old \o new /\ list' = list \o new
      /\ Backed(newt[p])
  BY <1>1, <1>2 DEF AdditionOK, Checked
<1>4. /\ old \in Seq(TableName) /\ new \in Seq(TableName) /\ Len(new) = Len(newt[p])
      /\ newt[p] \in Seq(Reader) /\ list \in Seq(TableName)
      /\ RecsOf(newt[p]) \in Seq(Contents) /\ Len(RecsOf(newt[p])) = Len(newt[p])
      /\ hist \in Seq(Database) /\ hist # <<>> /\ Len(hist) \in Nat
  BY StackNames, NamesOfType DEF TypeOK, FilesOK, HistoryOK, RecsOf
<1>5. /\ Len(hist') = Len(hist) + 1 /\ hist'[Len(hist')] = Overlay(hist[Len(hist)], RecsOf(newt[p]))
      /\ \A i \in 1..Len(hist) : hist'[i] = hist[i]
  BY <1>1, <1>4, AppendAny
<1> HIDE DEF new, old
<1>6. Prefix(list, list') /\ Prefix(hist, hist')
  <2>1. Prefix(list, list \o new)
    BY <1>4, PrefixFacts
  <2>2. Prefix(hist, hist')
    BY <1>4, <1>5 DEF Prefix
  <2> QED BY <2>1, <2>2, <1>3
<1>7. Kept(p)
  BY <1>1, <1>2, <1>6 DEF Kept, Spared
<1>8. /\ Len(list') = Len(list) + Len(new)
      /\ \A i \in 1..Len(list) : list'[i] = list[i]
      /\ \A i \in 1..Len(list') : ~(i <= Len(list)) =>
           i - Len(list) \in 1..Len(new) /\ list'[i] = new[i - Len(list)]
  <2>1. /\ Len(list \o new) = Len(list) + Len(new)
        /\ \A i \in 1..Len(list) + Len(new) :
             (list \o new)[i] = IF i <= Len(list) THEN list[i] ELSE new[i - Len(list)]
    BY <1>4, ConcatProperties
  <2>2. Len(list) \in Nat /\ Len(new) \in Nat
    BY <1>4
  <2> QED BY <2>1, <2>2, <1>3
<1>9. \A i \in 1..Len(newt[p]) : /\ new[i] = newt[p][i].name /\ newt[p][i].name \in DOMAIN dir
                                 /\ newt[p][i].recs = dir[newt[p][i].name]
  BY <1>3 DEF Backed, NamesOf, new
<1>10. ListIntact'
  <2>1. ASSUME NEW i \in 1..Len(list') PROVE list'[i] \in DOMAIN dir
    <3>1. CASE i <= Len(list)
      BY <3>1, <1>2, <1>4, <1>8 DEF Durable, ListIntact, NameSet
    <3>2. CASE ~(i <= Len(list))
      BY <3>2, <1>4, <1>8, <1>9
    <3> QED BY <3>1, <3>2
  <2> QED BY <2>1, <1>1 DEF ListIntact, NameSet
<1>11. Listed \in Seq(Contents) /\ Listed' = Listed \o RecsOf(newt[p])
  <2>1. Listed \in Seq(Contents) /\ Len(Listed) = Len(list)
    BY <1>2, <1>4 DEF Listed, Durable, ListIntact, NameSet, TypeOK, FilesOK
  <2> DEFINE both == Listed \o RecsOf(newt[p])
  <2>2. Joined(Listed, RecsOf(newt[p]), both)
    BY <2>1, <1>4, ConcatAt
  <2>3. /\ Len(both) = Len(list') /\ both \in Seq(Contents)
    BY <2>1, <2>2, <1>4, <1>8 DEF Joined
  <2> HIDE DEF both
  <2>4. ASSUME NEW i \in 1..Len(list') PROVE both[i] = dir[list'[i]]
    <3>1. CASE i <= Len(list)
      <4>1. i \in 1..Len(list) /\ both[i] = Listed[i]
        BY <3>1, <2>1, <2>2, <1>4 DEF Joined
      <4> QED BY <4>1, <1>8 DEF Listed
    <3>2. CASE ~(i <= Len(list))
      <4>1. both[i] = RecsOf(newt[p])[i - Len(list)]
        BY <3>2, <2>1, <2>2, <2>3 DEF Joined
      <4>2. i - Len(list) \in 1..Len(newt[p]) /\ list'[i] = new[i - Len(list)]
        BY <3>2, <1>4, <1>8
      <4>3. RecsOf(newt[p])[i - Len(list)] = newt[p][i - Len(list)].recs
        BY <4>2 DEF RecsOf
      <4>4. newt[p][i - Len(list)].recs = dir[new[i - Len(list)]]
        BY <4>2, <1>9
      <4> QED BY <4>1, <4>2, <4>3, <4>4
    <3> QED BY <3>1, <3>2
  <2>5. both = [i \in 1..Len(list') |-> dir[list'[i]]]
    BY <2>3, <2>4
  <2>6. Listed' = [i \in 1..Len(list') |-> dir[list'[i]]]
    BY <1>1 DEF Listed
  <2> QED BY <2>1, <2>5, <2>6 DEF both
<1>12. Durable'
  <2>1. Live(Merged(Listed')) = Overlay(hist[Len(hist)], RecsOf(newt[p]))
    BY <1>2, <1>4, <1>11, CommitShows DEF Durable
  <2> QED BY <2>1, <1>5, <1>10 DEF Durable
<1>13. StackOK(p)'
  <2>1. ver[p] <= Len(hist')
    BY <1>2, <1>4, <1>5 DEF StackOK, TypeOK, HistoryOK
  <2>2. Prefix(NamesOf(st[p]), list')
    BY <1>3, <1>6 DEF old
  <2> QED BY <2>1, <2>2, <1>1, <1>2 DEF StackOK, Backed
<1>14. LoadOK(p)' /\ AdditionOK(p)'
  BY <1>1, EmptySeq, BoundsAssumption DEF LoadOK, AdditionOK, Backed, Checked
<1> QED BY <1>7, <1>12, <1>13, <1>14 DEF ProcessOK

\* The tables of a transaction that is closed were never listed.
LEMMA AdditionCloseHistory ==
  ASSUME TypeOK, ControlOK, LockInv, HistoryInv, NEW p \in Proc, AdditionClose(p)
  PROVE  ProcessOK(p)' /\ Kept(p) /\ Durable'
<1>1. /\ pc[p] = "adclose" /\ pc'[p] = AfterClose[ret[p]] /\ newt'[p] = <<>>
      /\ ret'[p] \in {"plain", "none"}
      /\ dir' = Without(Discarded(p)) /\ UNCHANGED <<list, hist, st, ver>>
  BY DEF AdditionClose, Goto, Return, history, TypeOK, CallsOK
<1>2. lock[p] = "open" /\ AdditionOK(p)
  BY <1>1 DEF LockInv, LockOK, Locking, HistoryInv, ProcessOK
<1>3. Discarded(p) \cap NameSet(list) = {}
  BY <1>2 DEF AdditionOK, Discarded, ReaderNames
<1>4. StackOK(p)' /\ Kept(p) /\ Durable'
  BY <1>1, <1>2, <1>3, UnlinkedFiles
<1>5. pc'[p] \in {"idle", "read", "auto", "adclose"}
  BY <1>1, ReturnLabels DEF ControlOK, ReturnOK
<1>6. LoadOK(p)' /\ AdditionOK(p)'
  BY <1>1, <1>5, EmptySeq, BoundsAssumption DEF LoadOK, AdditionOK, Backed, Checked
<1> QED BY <1>4, <1>6 DEF ProcessOK

\* Clean keeps the tables of its stack, and its stack is the one on disk.
LEMMA ScanHistory ==
  ASSUME TypeOK, LockInv, HistoryInv, NEW p \in Proc, Scan(p)
  PROVE  ProcessOK(p)' /\ Kept(p) /\ Durable'
<1> DEFINE files == {n \in DOMAIN dir : /\ n \notin ReaderNames(st[p])
                                        /\ n.max <= MaxUpdateIndex(st[p])}
<1>1. /\ pc[p] = "scan" /\ pc'[p] = "adclose" /\ newt' = newt
      /\ dir' = Without(files) /\ UNCHANGED <<list, hist, st, ver>>
  BY DEF Scan, Goto, history, TypeOK, CallsOK
<1>2. lock[p] = "open" /\ NamesOf(st[p]) = list
  BY <1>1 DEF LockInv, LockOK, Locking, HistoryInv, ProcessOK, AdditionOK, Checked
<1>3. files \cap NameSet(list) = {}
  <2>1. NameSet(list) \subseteq ReaderNames(st[p])
    BY <1>2, StackNames DEF NameSet, ReaderNames, NamesOf
  <2> QED BY <2>1
<1> HIDE DEF files
<1>4. StackOK(p)' /\ Kept(p) /\ Durable'
  BY <1>1, <1>2, <1>3, UnlinkedFiles
<1>5. newt'[p] = <<>>
  BY <1>1, NoTables
<1>6. LoadOK(p)' /\ AdditionOK(p)'
  BY <1>1, <1>5, EmptySeq, BoundsAssumption DEF LoadOK, AdditionOK, Backed, Checked, Reloading
<1> QED BY <1>4, <1>6 DEF ProcessOK

\* Clean panics on an empty stack; its lock goes.
LEMMA ScanPanicsHistory ==
  ASSUME TypeOK, LockInv, HistoryInv, NEW p \in Proc, ScanPanics(p)
  PROVE  ProcessOK(p)' /\ Kept(p) /\ Durable'
<1>1. ProcessOK(p)'
  BY Forgotten DEF ScanPanics
<1>2. pc[p] = "scan" /\ UNCHANGED <<dir, list, hist>>
  BY DEF ScanPanics, Forget
<1>3. lock[p] = "open"
  BY <1>2 DEF LockInv, LockOK, Locking
<1> QED BY <1>1, <1>2, <1>3, QuietFiles

-----------------------------------------------------------------------------
(* The end of a stack *)

\* Close reads the list.
LEMMA CloseHistory ==
  ASSUME TypeOK, HistoryInv, NEW p \in Proc, Close(p)
  PROVE  ProcessOK(p)' /\ Kept(p) /\ Durable'
<1>1. /\ pc[p] = "idle" /\ pc'[p] = "close"
      /\ UNCHANGED <<dir, list, hist, lockFile, fdAt, st, ver, newt>>
      /\ load'[p].names = list
  BY LoadFields DEF Close, Goto, shared, history, TypeOK, StacksOK, CallsOK, Loads
<1>2. StackOK(p)' /\ AdditionOK(p)' /\ Kept(p) /\ Durable'
  BY <1>1, NoTables, SameStack, SameAddition, QuietFiles DEF Checked, Reloading
<1>3. LoadOK(p)'
  <2>1. Prefix(list, list) /\ Prefix(NamesOf(st[p]), list)
    BY PrefixFacts DEF HistoryInv, ProcessOK, StackOK, TypeOK, FilesOK
  <2> QED BY <1>1, <2>1 DEF LoadOK
<1> QED BY <1>2, <1>3 DEF ProcessOK

\* Its stack has no table that the list has not, so no file is removed.
LEMMA CloseRemoveHistory ==
  ASSUME TypeOK, HistoryInv, NEW p \in Proc, CloseRemove(p)
  PROVE  ProcessOK(p)' /\ Kept(p) /\ Durable'
<1> DEFINE files == ReaderNames(st[p]) \ NameSet(load[p].names)
<1>1. /\ pc[p] = "close" /\ dir' \in {dir, Without(files)}
      /\ UNCHANGED <<list, hist, lockFile, fdAt>>
  BY DEF CloseRemove, Forget
<1>2. ProcessOK(p)'
  BY Forgotten DEF CloseRemove
<1>3. files = {}
  <2>1. Prefix(NamesOf(st[p]), load[p].names)
    BY <1>1 DEF HistoryInv, ProcessOK, LoadOK
  <2> QED BY <2>1, StackNames, LoadFields, PrefixReaders DEF ReaderNames
<1> HIDE DEF files
<1>4. CASE dir' = dir
  BY <1>1, <1>2, <1>4, QuietFiles
<1>5. CASE dir' = Without(files)
  <2>1. files \cap NameSet(list) = {}
    BY <1>3
  <2> QED BY <1>1, <1>2, <1>3, <1>5, <2>1, UnlinkedFiles
<1> QED BY <1>1, <1>4, <1>5

\* A process dies; its files and its lock stay.
LEMMA CrashHistory ==
  ASSUME TypeOK, HistoryInv, NEW p \in Proc, Crash(p)
  PROVE  ProcessOK(p)' /\ Kept(p) /\ Durable'
<1>1. ProcessOK(p)'
  BY Forgotten DEF Crash
<1>2. /\ UNCHANGED <<dir, list, hist, lockFile>>
      /\ \A q \in Proc \ {p} : fdAt'[q] = fdAt[q]
  BY DEF Crash, Forget, shared, TypeOK, CallsOK
<1> QED BY <1>1, <1>2, QuietFiles

-----------------------------------------------------------------------------
(* The invariant *)

\* Every step of a writer keeps what is listed and its own part of the invariant.
\* Compaction never begins, and no commit fails.
LEMMA ActsHistory ==
  ASSUME TypeOK, TypeOK', ControlOK, WritersOnly, LockInv, HistoryInv,
         NEW p \in Proc, Acts(p)
  PROVE  ProcessOK(p)' /\ Kept(p) /\ Durable'
<1>1. CASE ReloadStep(p)
  BY <1>1, ReadListHistory, ReuseReaderHistory, OpenTableHistory, TableMissingHistory,
     RecheckHistory, SwapHistory DEF ReloadStep
<1>2. CASE AdditionStep(p)
  <2>1. ~CommitSyncFails(p) /\ ~CommitRenameFails(p)
    BY DEF CommitSyncFails, CommitRenameFails, RenameFails, WritersOnly, LockInv, LockOK, Locking
  <2> QED BY <1>2, <2>1, CheckLockedHistory, AddTableHistory, AbandonHistory,
          CommitWriteHistory, CommitRenameHistory, AdditionCloseHistory, ScanHistory,
          ScanPanicsHistory DEF AdditionStep
<1>3. CASE CompactionStep(p)
  <2>1. pc[p] \in WriterLabels
    BY DEF LockInv, LockOK
  <2>2. AutoCompact(p)
    BY <1>3, <2>1 DEF WriterLabels, CompactionStep, CompactionCheck, LockTable, UnlockForMerge,
       MergeFails, Relock, Install, CompactionWrite, CompactionRename, CompactionRenameFails,
       DeleteCompacted, CompactionDone, CompactionEnd, CompactionPanics
  <2> QED BY <2>2, AutoCompactHistory
<1>4. CASE StartCall(p)
  <2>1. ~CompactAll(p)
    BY DEF CompactAll, WritersOnly
  <2> QED BY <1>4, <2>1, OpenHistory, LockTakenHistory, CloseHistory, LockListHistory DEF StartCall
<1> QED BY <1>1, <1>2, <1>3, <1>4, CloseRemoveHistory, GiveUpHistory, CrashHistory
        DEF Acts, CallStep

\* The invariant is inductive.
LEMMA StepHistory ==
  ASSUME TypeOK, TypeOK', ControlOK, WritersOnly, LockInv, HistoryInv, [Next]_vars
  PROVE  HistoryInv'
<1>1. CASE UNCHANGED vars
  BY <1>1 DEF vars, shared, history, HistoryInv, Durable, ListIntact, Listed, ProcessOK, StackOK,
     LoadOK, AdditionOK, Backed, Holding, Checked
<1>2. ASSUME NEW p \in Proc, Acts(p) PROVE HistoryInv'
  <2>1. OthersUnchanged(p) /\ ProcessOK(p)' /\ Kept(p) /\ Durable'
    BY <1>2, OthersKeep, ActsHistory
  <2>2. ASSUME NEW q \in Proc \ {p} PROVE ProcessOK(q)'
    BY <2>1, OthersHistory
  <2> QED BY <2>1, <2>2 DEF HistoryInv
<1> QED BY <1>1, <1>2 DEF Next, Acts

\* So it holds throughout, with what it rests on.
LEMMA HistoryCorrect ==
  ASSUME WritersOnly PROVE Spec => [](TypeOK /\ ControlOK /\ LockInv /\ HistoryInv)
<1>1. TypeOK /\ TypeOK' /\ ControlOK /\ LockInv /\ HistoryInv /\ [Next]_vars => HistoryInv'
  BY WritersOnly, StepHistory
<1> QED BY <1>1, InitHistory, LockCorrect, PTL DEF Spec

\* When no process ever compacts and no system call fails, tables.list and the
\* files it names are at every moment the outcome of exactly the transactions
\* that were committed, of one table or of several: no reload, Clean, Close, crash
\* or abandoned transaction of any process has unlinked a listed table, and none
\* has overwritten the commit of another.
THEOREM WritersDurable ==
  ASSUME WritersOnly PROVE Spec => []Durable
<1>1. HistoryInv => Durable
  BY DEF HistoryInv
<1> QED BY <1>1, HistoryCorrect, PTL

-----------------------------------------------------------------------------
(* The stacks implement RefDB: seen is ver, and view is what st shows.     *)

\* RefDB means by the operators of Tables what GoStack does.
LEMMA SameTables ==
  DB!NoRecs = NoRecs /\ \A db, ts : DB!Overlay(db, ts) = Overlay(db, ts)
BY DEF DB!NoRecs, NoRecs, DB!Overlay, DB!Live, DB!Merged, Overlay, Live, Merged

\* Nothing is seen at first.
LEMMA InitImplements == Init => DB!Init
<1> SUFFICES ASSUME Init PROVE DB!Init
  OBVIOUS
<1>1. View(<<>>) = NoRecs
  <2>1. RecsOf(<<>>) = <<>>
    BY EmptySeq DEF RecsOf
  <2> QED BY <2>1, MergedSingle DEF View
<1>2. [p \in Proc |-> View(st[p])] = [p \in Proc |-> NoRecs]
  BY <1>1 DEF Init
<1> QED BY <1>2, SameTables DEF Init, DB!Init

\* What the processes read when p alone gets another stack.
LEMMA ViewChanges ==
  ASSUME TypeOK, NEW p \in Proc, NEW rs, st' = [st EXCEPT ![p] = rs]
  PROVE  [q \in Proc |-> View(st[q])]' = [[q \in Proc |-> View(st[q])] EXCEPT ![p] = View(rs)]
<1>1. \A q \in Proc : st'[q] = IF q = p THEN rs ELSE st[q]
  BY DEF TypeOK, StacksOK
<1>2. \A q \in Proc : View(st'[q]) = IF q = p THEN View(rs) ELSE View(st[q])
  BY <1>1
<1>3. [q \in Proc |-> View(st'[q])] = [[q \in Proc |-> View(st[q])] EXCEPT ![p] = View(rs)]
  BY <1>2
<1> QED BY <1>3

\* Most steps of a writer are not seen.
LEMMA QuietOrNot ==
  ASSUME TypeOK, WritersOnly, LockInv, NEW p \in Proc, Acts(p)
  PROVE  \/ Swap(p) \/ CheckLocked(p) \/ CommitRename(p)
         \/ Forget(p, "closed") \/ Forget(p, "aborted")
         \/ UNCHANGED <<hist, ver, st>>
<1>1. CASE ReloadStep(p)
  BY <1>1 DEF ReloadStep, ReadList, ReuseReader, OpenTable, TableMissing, Recheck, history
<1>2. CASE AdditionStep(p)
  <2>1. ~CommitSyncFails(p)
    BY DEF CommitSyncFails, WritersOnly
  <2> QED BY <1>2, <2>1 DEF AdditionStep, AddTable, Abandon, CommitNothing, CommitWrite,
          CommitRenameFails, AdditionClose, Scan, ScanPanics, history
<1>3. CASE CompactionStep(p)
  <2>1. pc[p] \in WriterLabels
    BY DEF LockInv, LockOK
  <2>2. AutoCompact(p)
    BY <1>3, <2>1 DEF WriterLabels, CompactionStep, CompactionCheck, LockTable, UnlockForMerge,
       MergeFails, Relock, Install, CompactionWrite, CompactionRename, CompactionRenameFails,
       DeleteCompacted, CompactionDone, CompactionEnd, CompactionPanics
  <2> QED BY <2>2 DEF AutoCompact, history
<1>4. CASE StartCall(p)
  BY <1>4 DEF StartCall, Open, LockTaken, CompactAll, Close, LockList, history
<1>5. CASE CloseRemove(p) \/ GiveUp(p) \/ Crash(p)
  BY <1>5 DEF CloseRemove, GiveUp, Crash, history
<1> QED BY <1>1, <1>2, <1>3, <1>4, <1>5 DEF Acts, CallStep

\* A reload that succeeds is a Refresh to the version of the list it read.
LEMMA SwapRefreshes ==
  ASSUME TypeOK, LockInv, HistoryInv, NEW p \in Proc, Swap(p)
  PROVE  DB!Refresh(p)
<1> DEFINE v == load[p].at
<1>1. /\ st' = [st EXCEPT ![p] = load[p].opened] /\ ver' = [ver EXCEPT ![p] = v] /\ hist' = hist
      /\ pc[p] = "open"
  BY DEF Swap
<1>2. View(load[p].opened) = hist[v]
  BY LoadedStack
<1>3. v \in 1..Len(hist) /\ ver[p] <= v /\ ver[p] \in Nat /\ Len(hist) \in Nat
  BY <1>1 DEF HistoryInv, ProcessOK, LoadOK, TypeOK, HistoryOK
<1>4. v \in (IF ver[p] = 0 THEN 1 ELSE ver[p])..Len(hist)
  BY <1>3
<1>5. [q \in Proc |-> View(st[q])]' = [[q \in Proc |-> View(st[q])] EXCEPT ![p] = hist[v]]
  <2>1. \A q \in Proc : st'[q] = IF q = p THEN load[p].opened ELSE st[q]
    BY <1>1 DEF TypeOK, StacksOK
  <2>2. \A q \in Proc : View(st'[q]) = IF q = p THEN hist[v] ELSE View(st[q])
    BY <2>1, <1>2
  <2> QED BY <2>2
<1> HIDE DEF v
<1> QED BY <1>1, <1>4, <1>5 DEF DB!Refresh

\* So is finding, under the lock, that the stack is the one on disk.
LEMMA CheckRefreshes ==
  ASSUME TypeOK, HistoryInv, NEW p \in Proc, CheckLocked(p), ~UNCHANGED <<hist, ver, st>>
  PROVE  DB!Refresh(p)
<1>1. ver' = [ver EXCEPT ![p] = Len(hist)] /\ UpToDate(p) /\ hist' = hist /\ st' = st
  BY DEF CheckLocked, MayAdd
<1>2. RecsOf(st[p]) = Listed
  <2>1. Backed(st[p]) /\ list = NamesOf(st[p])
    BY <1>1 DEF HistoryInv, ProcessOK, StackOK, UpToDate
  <2>2. Len(list) = Len(st[p]) /\ \A i \in 1..Len(st[p]) : list[i] = st[p][i].name
    BY <2>1, StackNames, NamesOfType
  <2> QED BY <2>1, <2>2 DEF Backed, RecsOf, Listed
<1>3. View(st[p]) = hist[Len(hist)]
  BY <1>2 DEF HistoryInv, Durable, View
<1>4. Len(hist) \in (IF ver[p] = 0 THEN 1 ELSE ver[p])..Len(hist)
  <2>1. ver[p] <= Len(hist) /\ ver[p] \in Nat /\ Len(hist) \in Nat /\ Len(hist) # 0
    BY EmptySeq DEF HistoryInv, ProcessOK, StackOK, TypeOK, HistoryOK
  <2> QED BY <2>1
<1>5. [q \in Proc |-> View(st[q])]' = [[q \in Proc |-> View(st[q])] EXCEPT ![p] = hist[Len(hist)]]
  BY <1>1, <1>3
<1> QED BY <1>1, <1>4, <1>5 DEF DB!Refresh

\* The rename of the lock file is the Commit, by a process that reads the newest
\* version.
LEMMA RenameCommits ==
  ASSUME TypeOK, HistoryInv, NEW p \in Proc, CommitRename(p)
  PROVE  DB!Commit(p)
<1> DEFINE ts == RecsOf(newt[p])
<1>1. /\ pc[p] = "rename" /\ UNCHANGED <<st, ver>>
      /\ hist' = Append(hist, Overlay(hist[Len(hist)], ts))
  BY DEF CommitRename, Committed
<1>2. /\ ver[p] = Len(hist) /\ newt[p] # <<>> /\ Len(newt[p]) <= MaxTables
      /\ \A i \in 1..Len(newt[p]) : newt[p][i].recs \in Batches
  BY <1>1 DEF HistoryInv, ProcessOK, AdditionOK
<1>3. Len(newt[p]) \in 1..MaxTables
  <2>1. newt[p] \in Seq(Reader) /\ Len(newt[p]) \in Nat /\ Len(newt[p]) # 0
    BY <1>2, StackNames, EmptySeq
  <2> QED BY <2>1, <1>2, BoundsAssumption
<1>4. ts \in [1..Len(newt[p]) -> Batches]
  BY <1>2 DEF RecsOf
<1> HIDE DEF ts
<1>5. \E n \in 1..MaxTables : \E us \in [1..n -> Batches] :
        hist' = Append(hist, Overlay(hist[Len(hist)], us))
  BY <1>1, <1>3, <1>4
<1> QED BY <1>1, <1>2, <1>5, SameTables DEF DB!Commit, DB!Current

\* Closing a stack, a panic and a crash are a Leave.
LEMMA ForgetLeaves ==
  ASSUME TypeOK, NEW p \in Proc, NEW label, Forget(p, label)
  PROVE  DB!Leave(p)
<1>1. st' = [st EXCEPT ![p] = <<>>] /\ ver' = [ver EXCEPT ![p] = 0] /\ hist' = hist
  BY DEF Forget
<1>2. View(<<>>) = NoRecs
  <2>1. RecsOf(<<>>) = <<>>
    BY EmptySeq DEF RecsOf
  <2> QED BY <2>1, MergedSingle DEF View
<1>3. [q \in Proc |-> View(st[q])]' = [[q \in Proc |-> View(st[q])] EXCEPT ![p] = NoRecs]
  BY <1>1, <1>2, ViewChanges
<1> QED BY <1>1, <1>3, SameTables DEF DB!Leave

\* Every step is a step of RefDB or changes nothing there.
LEMMA StepImplements ==
  ASSUME TypeOK, WritersOnly, LockInv, HistoryInv, [Next]_vars
  PROVE  [DB!Next]_(DB!dbVars)
<1>1. CASE UNCHANGED <<hist, ver, st>>
  BY <1>1 DEF DB!dbVars
<1>2. ASSUME NEW p \in Proc, Acts(p), ~UNCHANGED <<hist, ver, st>> PROVE DB!Next
  <2>1. DB!Commit(p) \/ DB!Refresh(p) \/ DB!Leave(p)
    BY <1>2, QuietOrNot, SwapRefreshes, CheckRefreshes, RenameCommits, ForgetLeaves
  <2> QED BY <2>1 DEF DB!Next
<1>3. CASE UNCHANGED vars
  BY <1>1, <1>3 DEF vars, history
<1> QED BY <1>1, <1>2, <1>3 DEF Next, Acts

\* The stacks of Go writers are one database: as long as nobody compacts and no
\* system call fails, every process reads, at every moment, exactly a state that
\* was committed, never an older one after a newer one, and each transaction is
\* committed on top of the newest state by a process that reads it, so that no
\* commit is lost, whoever cleans, closes, dies or starts again meanwhile.
THEOREM WritersImplement ==
  ASSUME WritersOnly PROVE Spec => Implements
<1>1. TypeOK /\ LockInv /\ HistoryInv /\ [Next]_vars => [DB!Next]_(DB!dbVars)
  BY WritersOnly, StepImplements
<1> QED BY <1>1, InitImplements, HistoryCorrect, PTL DEF Spec, Implements, DB!Spec

=============================================================================
