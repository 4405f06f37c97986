------------------------ MODULE CStackHistoryProofs -------------------------
(***************************************************************************)
(* Theorems about a C stack that one process changes, in every way the API *)
(* offers, while any number of others open, reload and destroy theirs:     *)
(* tables.list and the files it names always say what was committed, every *)
(* process reads a state of the history, and no table or lock is forgotten *)
(* (a temporary file may be, if system calls fail).                        *)
(* The processes may die at any step and start again, system calls may     *)
(* fail, and a transaction may have several tables.  With a second process *)
(* that writes or compacts this is false, as the runs of CStack show.      *)
(***************************************************************************)
EXTENDS CStackProofs

\* u is the only process that changes the stack.  Names are not used twice, and
\* a reload makes an attempt before it looks at its deadline.
OnlyMutator(u) == /\ FreshNames /\ FreeTries # 0
                  /\ \A p \in Proc \ {u} : Calls[p] \subseteq {"reload", "destroy"}

\* The steps at which u has a compaction whose range is part of the list, or was.
Merging(u)   == pc[u] \in {"cpsub", "merge", "relock", "install", "cpwrite", "cprename"}
Replacing(u) == pc[u] \in {"cpwrite", "cprename"}
Replaced(u)  == \/ pc[u] = "delete"
                \/ pc[u] \in Reloading /\ ret[u] = "delete"

\* The tables that u has on disk and is about to list, and all that are listed
\* or may be once u goes on.
Pending(u) == ReaderNames(newt[u]) \cup {n \in {job[u].new} : Replacing(u) /\ n # NoName}
Coming(u)  == NameSet(list) \cup Pending(u)

\* The list names each file once, and the files hold what was committed.
FilesGood(u) == /\ Durable
                /\ Distinct(list)
                /\ Pending(u) \cap NameSet(list) = {}

\* A stack shows the state of its version, whether or not its files are there.
StackOK(p) == /\ Faithful(st[p]) /\ Faithful(opened[p])
              /\ ver[p] <= Len(hist)
              /\ View(st[p]) = IF ver[p] = 0 THEN NoRecs ELSE hist[ver[p]]

\* The contents a reload may yet read for the i-th name of its list.
MayRead(p, i) ==
  IF i <= Len(opened[p]) THEN {opened[p][i].recs}
  ELSE {st[p][j].recs : j \in {k \in 1..Len(st[p]) : st[p][k].name = names[p][i]}}
       \cup {dir[n] : n \in {names[p][i]} \cap DOMAIN dir}
Readable(p) == {ts \in [1..Len(names[p]) -> Contents] :
                  \A i \in 1..Len(names[p]) : ts[i] \in MayRead(p, i)}

\* Whatever a reload reads, if it comes to an end it shows the state that its
\* list had when it was read, and that is no older than what it showed before.
LoadOK(p) ==
  pc[p] = "open" =>
    /\ readAt[p] \in 1..Len(hist) /\ ver[p] <= readAt[p]
    /\ Len(opened[p]) <= Len(names[p])
    /\ \A i \in 1..Len(opened[p]) : opened[p][i].name = names[p][i]
    /\ \A ts \in Readable(p) : Live(Merged(ts)) = hist[readAt[p]]

\* What a process no longer finds in the list, and will unlink, does not come
\* back to the list.
NotBack(u, p) ==
  /\ Pending(u) \cap (ReaderNames(st[p]) \cup NameSet(names[p])) = {}
  /\ pc[p] = "open" => Dropped(p) \cap Coming(u) = {}
  /\ pc[p] = "destroy" => (ReaderNames(st[p]) \ NameSet(names[p])) \cap Coming(u) = {}
  /\ pc[p] = "read" /\ ~reuse[p] => ReaderNames(st[p]) \cap Coming(u) = {}

ProcessOK(u, p) == StackOK(p) /\ LoadOK(p) /\ NotBack(u, p)

\* The others do nothing but reload and destroy.
ReaderOK(q) ==
  /\ pc[q] \in {"closed", "idle", "aborted", "uptodate", "read", "open", "recheck", "destroy"}
  /\ ret[q] \in {"none", "open", "plain"}
  /\ reuse[q] /\ newt[q] = <<>> /\ job[q] = NoJob

\* The stack of u is the list wherever u builds on it.
UpToDateOK(u) ==
  /\ pc[u] \in {"adding", "rename", "scan"} \/ Merging(u) => NamesOf(st[u]) = list
  /\ pc[u] \in {"adding", "rename"} => ver[u] = Len(hist)
  /\ pc[u] \in {"open", "destroy"} => names[u] = list
  /\ pc[u] \in {"locked", "adding", "install", "cpwrite"} => fdAt[u] = "lock"
  /\ pc[u] = "read" => tries[u] = 0
  /\ pc[u] \notin {"recheck", "aborted"} /\ health[u] = "ok"

\* The tables of its addition are on disk, and its lock file lists them on top.
AdditionOK(u) ==
  /\ newt[u] # <<>> => pc[u] \in {"adding", "rename", "adclose"}
  /\ Len(newt[u]) <= MaxTables /\ Distinct(NamesOf(newt[u]))
  /\ \A i \in 1..Len(newt[u]) : /\ newt[u][i].name \in DOMAIN dir
                                /\ newt[u][i].recs = dir[newt[u][i].name]
                                /\ newt[u][i].recs \in Batches
  /\ pc[u] = "rename" => /\ newt[u] # <<>>
                         /\ lockFile = NamesOf(st[u]) \o NamesOf(newt[u])

\* Its compaction replaces a range of the list by the merge of its tables, and
\* then unlinks tables that are not listed any more.
RangeFits(u) ==
  /\ job[u].first \in 1..Len(st[u]) /\ job[u].last \in job[u].first..Len(st[u])
  /\ job[u].first < job[u].last \/ (job[u].first = 1 /\ job[u].last = Len(st[u]))
  /\ job[u].old \subseteq {st[u][i].name : i \in job[u].first..job[u].last}
ReplacementFits(u) ==
  IF job[u].new = NoName
  THEN CompactedRecs(st[u], job[u].first, job[u].last) = NoRecs
  ELSE /\ job[u].new \in DOMAIN dir
       /\ dir[job[u].new] = CompactedRecs(st[u], job[u].first, job[u].last)
CompactionOK(u) ==
  /\ pc[u] = "cpcheck" \/ Merging(u) => RangeFits(u)
  /\ pc[u] \in {"cpcheck", "cpsub", "merge", "relock", "install"} => job[u].new = NoName
  /\ Replacing(u) => ReplacementFits(u)
  /\ pc[u] = "cprename" =>
       lockFile = Spliced(NamesOf(st[u]), job[u].first, job[u].last, Replacement(u))
  /\ Replaced(u) => job[u].old \cap NameSet(list) = {}

MutatorOK(u) == UpToDateOK(u) /\ AdditionOK(u) /\ CompactionOK(u)

HistoryInv(u) == /\ FilesGood(u) /\ MutatorOK(u)
                 /\ \A p \in Proc : ProcessOK(u, p)
                 /\ \A q \in Proc \ {u} : ReaderOK(q)

\* What no step does: bring back a name that is in use, to the directory or to
\* what may be listed, write a file again, or change the past.
Kept(u) ==
  /\ \A n \in HeldNames \cap DOMAIN dir' : n \in DOMAIN dir /\ dir'[n] = dir[n]
  /\ HeldNames \cap Coming(u)' \subseteq Coming(u)
  /\ HeldNames \cap Pending(u)' \subseteq Pending(u)
  /\ Len(hist) <= Len(hist') /\ \A i \in 1..Len(hist) : hist'[i] = hist[i]

\* What a step of p leaves true.
StepOK(u, p) == /\ Kept(u) /\ FilesGood(u)' /\ MutatorOK(u)'
                /\ ProcessOK(u, p)'
                /\ p # u => ReaderOK(p)'

OthersUnchanged(p) ==
  \A q \in Proc \ {p} :
    /\ pc'[q] = pc[q] /\ st'[q] = st[q] /\ names'[q] = names[q] /\ opened'[q] = opened[q]
    /\ reuse'[q] = reuse[q] /\ ret'[q] = ret[q] /\ newt'[q] = newt[q] /\ job'[q] = job[q]
    /\ ver'[q] = ver[q] /\ readAt'[q] = readAt[q] /\ tries'[q] = tries[q]
    /\ health'[q] = health[q]

-----------------------------------------------------------------------------
(* Names in use *)

\* Names that the directory, the list, a stack or a call refers to are in use.
LEMMA NamesInUse ==
  ASSUME NEW p \in Proc
  PROVE  /\ DOMAIN dir \subseteq HeldNames /\ NameSet(list) \subseteq HeldNames
         /\ ReaderNames(st[p]) \subseteq HeldNames /\ ReaderNames(opened[p]) \subseteq HeldNames
         /\ ReaderNames(newt[p]) \subseteq HeldNames /\ NameSet(names[p]) \subseteq HeldNames
         /\ job[p].new \in HeldNames
         /\ Coming(p) \subseteq HeldNames
<1> DEFINE mine(q) == ReaderNames(st[q]) \cup ReaderNames(opened[q])
                      \cup ReaderNames(newt[q]) \cup NameSet(names[q])
                      \cup job[q].old \cup {job[q].new}
<1>1. mine(p) \subseteq UNION {mine(q) : q \in Proc}
  OBVIOUS
<1>2. mine(p) \subseteq HeldNames /\ DOMAIN dir \subseteq HeldNames /\ NameSet(list) \subseteq HeldNames
  BY <1>1 DEF HeldNames
<1>3. /\ ReaderNames(st[p]) \subseteq mine(p) /\ ReaderNames(opened[p]) \subseteq mine(p)
      /\ ReaderNames(newt[p]) \subseteq mine(p) /\ NameSet(names[p]) \subseteq mine(p)
      /\ job[p].new \in mine(p)
  OBVIOUS
<1>4. Coming(p) \subseteq NameSet(list) \cup mine(p)
  BY <1>3 DEF Coming, Pending
<1> HIDE DEF mine
<1> QED BY <1>2, <1>3, <1>4

\* A name that rand() gives is in use nowhere.
LEMMA FreshName ==
  ASSUME FreshNames, NEW lo \in Nat, NEW hi \in Nat, NEW x \in NewNames(lo, hi)
  PROVE  x \in TableName /\ x # NoName /\ x \notin HeldNames
<1> DEFINE any == {[min |-> lo, max |-> hi, sfx |-> y] : y \in Suffixes}
           fresh == any \ HeldNames
<1>1. fresh # {} /\ x = CHOOSE n \in fresh : TRUE
  BY DEF NewNames
<1>2. x \in fresh
  BY <1>1
<1> QED BY <1>2, NamesAreFresh, NoneAssumption

\* The sequences that processes hold, by their types.
LEMMA HeldTypes ==
  ASSUME TypeOK, NEW p \in Proc
  PROVE  /\ st[p] \in Seq(Reader) /\ opened[p] \in Seq(Reader) /\ newt[p] \in Seq(Reader)
         /\ names[p] \in Seq(TableName) /\ list \in Seq(TableName)
         /\ NamesOf(st[p]) \in Seq(TableName) /\ Len(NamesOf(st[p])) = Len(st[p])
         /\ NamesOf(newt[p]) \in Seq(TableName) /\ Len(NamesOf(newt[p])) = Len(newt[p])
         /\ hist \in Seq(Database) /\ hist # <<>> /\ Len(hist) \in Nat /\ Len(hist) # 0
         /\ ver[p] \in Nat /\ readAt[p] \in Nat
<1>1. /\ st[p] \in Seq(Reader) /\ opened[p] \in Seq(Reader) /\ newt[p] \in Seq(Reader)
      /\ names[p] \in Seq(TableName) /\ list \in Seq(TableName)
  BY DEF TypeOK, FilesOK, StacksOK, CallsOK
<1>2. /\ NamesOf(st[p]) \in Seq(TableName) /\ Len(NamesOf(st[p])) = Len(st[p])
      /\ NamesOf(newt[p]) \in Seq(TableName) /\ Len(NamesOf(newt[p])) = Len(newt[p])
  BY <1>1, NamesOfType
<1>3. hist \in Seq(Database) /\ hist # <<>> /\ ver[p] \in Nat /\ readAt[p] \in Nat
  BY DEF TypeOK, HistoryOK
<1>4. Len(hist) \in Nat /\ Len(hist) # 0
  BY <1>3, EmptySeq
<1> QED BY <1>1, <1>2, <1>3, <1>4

\* Unless u is in an addition or about to list a merged table, nothing is pending.
LEMMA NothingPending ==
  ASSUME NEW u \in Proc, AdditionOK(u),
         pc[u] \notin {"adding", "rename", "adclose", "cpwrite", "cprename"}
  PROVE  newt[u] = <<>> /\ Pending(u) = {} /\ Coming(u) = NameSet(list)
<1>1. newt[u] = <<>> /\ ~Replacing(u)
  BY DEF AdditionOK, Replacing
<1> QED BY <1>1, NothingOpen DEF Pending, Coming

-----------------------------------------------------------------------------
(* What a step of anyone leaves to a process that takes no part in it      *)

\* Its stack still shows the state of its version.
LEMMA StackStays ==
  ASSUME TypeOK, NEW u \in Proc, NEW q \in Proc, StackOK(q), Kept(u),
         st'[q] = st[q], ver'[q] = ver[q], opened'[q] \in {opened[q], <<>>}
  PROVE  StackOK(q)'
<1>1. \A n \in HeldNames \cap DOMAIN dir' : n \in DOMAIN dir /\ dir'[n] = dir[n]
  BY DEF Kept
<1>2. Faithful(st[q])'
  <2>1. \A i \in 1..Len(st[q]) : st[q][i].name \in HeldNames
    BY HeldTypes, NamesInUse, ReaderAt
  <2> QED BY <2>1, <1>1 DEF StackOK, Faithful
<1>3. Faithful(opened[q])'
  <2>1. \A i \in 1..Len(opened[q]) : opened[q][i].name \in HeldNames
    BY HeldTypes, NamesInUse, ReaderAt
  <2>2. CASE opened'[q] = opened[q]
    BY <2>1, <2>2, <1>1 DEF StackOK, Faithful
  <2>3. CASE opened'[q] = <<>>
    BY <2>3, NothingOpen DEF Faithful
  <2> QED BY <2>2, <2>3
<1>4. ver[q] <= Len(hist') /\ (ver[q] # 0 => hist'[ver[q]] = hist[ver[q]])
  <2>1. ver[q] \in Nat /\ Len(hist) \in Nat /\ ver[q] <= Len(hist)
    BY HeldTypes DEF StackOK
  <2>2. Len(hist) <= Len(hist') /\ \A i \in 1..Len(hist) : hist'[i] = hist[i]
    BY DEF Kept
  <2>3. Len(hist') \in Nat \/ ver[q] <= Len(hist')
    BY <2>1, <2>2
  <2> QED BY <2>1, <2>2, <2>3
<1> QED BY <1>2, <1>3, <1>4 DEF StackOK

\* Its reload can read no more than before.
LEMMA LoadStays ==
  ASSUME TypeOK, NEW u \in Proc, NEW q \in Proc, LoadOK(q), Kept(u), pc'[q] = pc[q],
         st'[q] = st[q], names'[q] = names[q], opened'[q] = opened[q],
         readAt'[q] = readAt[q], ver'[q] = ver[q]
  PROVE  LoadOK(q)'
<1> SUFFICES ASSUME pc[q] = "open"
             PROVE  /\ readAt[q] \in 1..Len(hist') /\ ver[q] <= readAt[q]
                    /\ Len(opened[q]) <= Len(names[q])
                    /\ \A i \in 1..Len(opened[q]) : opened[q][i].name = names[q][i]
                    /\ \A ts \in Readable(q)' : Live(Merged(ts)) = hist'[readAt[q]]
  BY DEF LoadOK
<1>1. /\ \A n \in HeldNames \cap DOMAIN dir' : n \in DOMAIN dir /\ dir'[n] = dir[n]
      /\ Len(hist) <= Len(hist') /\ \A i \in 1..Len(hist) : hist'[i] = hist[i]
  BY DEF Kept
<1>2. Readable(q)' \subseteq Readable(q)
  <2>1. ASSUME NEW i \in 1..Len(names[q]) PROVE MayRead(q, i)' \subseteq MayRead(q, i)
    <3>1. names[q][i] \in HeldNames
      BY NamesInUse DEF NameSet
    <3>2. \A n \in {names[q][i]} \cap DOMAIN dir' : n \in DOMAIN dir /\ dir'[n] = dir[n]
      BY <3>1, <1>1
    <3>3. {dir'[n] : n \in {names[q][i]} \cap DOMAIN dir'} \subseteq {dir[n] : n \in {names[q][i]} \cap DOMAIN dir}
      BY <3>2
    <3> QED BY <3>3 DEF MayRead
  <2>2. \A ts \in Readable(q)' : /\ ts \in [1..Len(names[q]) -> Contents]
                                 /\ \A i \in 1..Len(names[q]) : ts[i] \in MayRead(q, i)'
    BY DEF Readable
  <2> QED BY <2>1, <2>2 DEF Readable
<1>3. readAt[q] \in 1..Len(hist') /\ hist'[readAt[q]] = hist[readAt[q]]
  <2>1. readAt[q] \in 1..Len(hist) /\ Len(hist) \in Nat
    BY HeldTypes DEF LoadOK
  <2> QED BY <2>1, <1>1
<1> QED BY <1>2, <1>3 DEF LoadOK

\* What it will unlink does not come back.
LEMMA NotBackStays ==
  ASSUME NEW u \in Proc, NEW q \in Proc, NotBack(u, q), Kept(u), pc'[q] = pc[q],
         st'[q] = st[q], names'[q] = names[q], reuse'[q] = reuse[q]
  PROVE  NotBack(u, q)'
<1>1. /\ ReaderNames(st[q]) \subseteq HeldNames /\ NameSet(names[q]) \subseteq HeldNames
      /\ HeldNames \cap Coming(u)' \subseteq Coming(u)
      /\ HeldNames \cap Pending(u)' \subseteq Pending(u)
  BY NamesInUse DEF Kept
<1>2. Dropped(q)' = Dropped(q) /\ Dropped(q) \subseteq ReaderNames(st[q])
  BY DEF Dropped
<1>3. Pending(u)' \cap (ReaderNames(st[q]) \cup NameSet(names[q])) = {}
  BY <1>1 DEF NotBack
<1>4. pc[q] = "open" => Dropped(q) \cap Coming(u)' = {}
  BY <1>1, <1>2 DEF NotBack
<1>5. pc[q] = "destroy" => (ReaderNames(st[q]) \ NameSet(names[q])) \cap Coming(u)' = {}
  BY <1>1 DEF NotBack
<1>6. pc[q] = "read" /\ ~reuse[q] => ReaderNames(st[q]) \cap Coming(u)' = {}
  BY <1>1 DEF NotBack
<1> QED BY <1>2, <1>3, <1>4, <1>5, <1>6 DEF NotBack

\* In all.
LEMMA OthersStay ==
  ASSUME TypeOK, NEW u \in Proc, NEW p \in Proc, NEW q \in Proc \ {p}, ProcessOK(u, q), Kept(u),
         OthersUnchanged(p)
  PROVE  ProcessOK(u, q)' /\ (ReaderOK(q) => ReaderOK(q)')
<1>1. /\ pc'[q] = pc[q] /\ st'[q] = st[q] /\ names'[q] = names[q] /\ opened'[q] = opened[q]
      /\ reuse'[q] = reuse[q] /\ ret'[q] = ret[q] /\ newt'[q] = newt[q] /\ job'[q] = job[q]
      /\ ver'[q] = ver[q] /\ readAt'[q] = readAt[q]
  BY DEF OthersUnchanged
<1>2. StackOK(q)' /\ LoadOK(q)' /\ NotBack(u, q)'
  BY <1>1, StackStays, LoadStays, NotBackStays DEF ProcessOK
<1> QED BY <1>1, <1>2 DEF ProcessOK, ReaderOK

\* No file that is pending has gone, and no file has appeared: what u is doing is
\* as it was, whatever process p did.
LEMMA MutatorStays ==
  ASSUME NEW u \in Proc, NEW p \in Proc \ {u}, MutatorOK(u), OthersUnchanged(p),
         UNCHANGED <<list, lockFile, hist>>, fdAt'[u] = fdAt[u],
         DOMAIN dir \cap Pending(u) \subseteq DOMAIN dir',
         \A n \in DOMAIN dir' : n \in DOMAIN dir /\ dir'[n] = dir[n]
  PROVE  MutatorOK(u)'
<1>1. /\ pc'[u] = pc[u] /\ st'[u] = st[u] /\ names'[u] = names[u]
      /\ ret'[u] = ret[u] /\ newt'[u] = newt[u] /\ job'[u] = job[u]
      /\ ver'[u] = ver[u] /\ tries'[u] = tries[u] /\ health'[u] = health[u]
  BY DEF OthersUnchanged
<1>2. UpToDateOK(u)'
  BY <1>1 DEF MutatorOK, UpToDateOK, Merging
<1>3. AdditionOK(u)'
  <2>1. ASSUME NEW i \in 1..Len(newt[u])
        PROVE  newt[u][i].name \in DOMAIN dir' /\ newt[u][i].recs = dir'[newt[u][i].name]
    <3>1. newt[u][i].name \in Pending(u) /\ newt[u][i].name \in DOMAIN dir
      BY DEF Pending, ReaderNames, MutatorOK, AdditionOK
    <3>2. newt[u][i].recs = dir[newt[u][i].name]
      BY DEF MutatorOK, AdditionOK
    <3> QED BY <3>1, <3>2
  <2> QED BY <1>1, <2>1 DEF MutatorOK, AdditionOK
<1>4. Replacing(u) => ReplacementFits(u)'
  <2>1. Replacing(u) /\ job[u].new # NoName => job[u].new \in DOMAIN dir /\ job[u].new \in Pending(u)
    BY DEF Pending, MutatorOK, CompactionOK, ReplacementFits
  <2> QED BY <1>1, <2>1 DEF MutatorOK, CompactionOK, ReplacementFits
<1>5. RangeFits(u)' = RangeFits(u)
  BY <1>1 DEF RangeFits
<1>6. CompactionOK(u)'
  BY <1>1, <1>4, <1>5 DEF MutatorOK, CompactionOK, Merging, Replacing, Replaced, Reloading, Replacement
<1> QED BY <1>2, <1>3, <1>6 DEF MutatorOK

-----------------------------------------------------------------------------
(* What a step leaves to the list, and to the process that takes it        *)

\* A step that leaves the list and its files alone, and makes nothing pending,
\* keeps what is listed; other files may have gone.
LEMMA FilesStay ==
  ASSUME TypeOK, NEW u \in Proc, FilesGood(u), UNCHANGED <<list, hist>>,
         NameSet(list) \subseteq DOMAIN dir',
         \A n \in HeldNames \cap DOMAIN dir' : n \in DOMAIN dir /\ dir'[n] = dir[n],
         HeldNames \cap Pending(u)' \subseteq Pending(u)
  PROVE  Kept(u) /\ FilesGood(u)'
<1>1. Coming(u)' = NameSet(list) \cup Pending(u)' /\ NameSet(list) \subseteq HeldNames
  BY NamesInUse DEF Coming
<1>2. Kept(u)
  <2>1. HeldNames \cap Coming(u)' \subseteq Coming(u)
    BY <1>1 DEF Coming
  <2>2. Len(hist) <= Len(hist')
    BY HeldTypes
  <2> QED BY <2>1, <2>2 DEF Kept
<1>3. Durable'
  <2>1. ListIntact'
    BY DEF ListIntact
  <2>2. \A i \in 1..Len(list) : dir'[list[i]] = dir[list[i]]
    BY <1>1 DEF NameSet
  <2>3. Listed' = Listed
    BY <2>2 DEF Listed
  <2> QED BY <2>1, <2>3 DEF FilesGood, Durable
<1>4. Pending(u)' \cap NameSet(list) = {}
  BY <1>1 DEF FilesGood
<1> QED BY <1>2, <1>3, <1>4 DEF FilesGood

\* In particular if no file changes at all.
LEMMA NoFileChanges ==
  ASSUME TypeOK, NEW u \in Proc, FilesGood(u), UNCHANGED <<dir, list, hist>>,
         HeldNames \cap Pending(u)' \subseteq Pending(u)
  PROVE  Kept(u) /\ FilesGood(u)'
<1>1. NameSet(list) \subseteq DOMAIN dir
  BY DEF FilesGood, Durable, ListIntact
<1> QED BY <1>1, FilesStay

\* Or if files go that are not listed.
LEMMA FilesGo ==
  ASSUME TypeOK, NEW u \in Proc, FilesGood(u), UNCHANGED <<list, hist>>,
         NEW files, dir' = Without(files), files \cap NameSet(list) = {},
         HeldNames \cap Pending(u)' \subseteq Pending(u)
  PROVE  /\ Kept(u) /\ FilesGood(u)'
         /\ DOMAIN dir' = DOMAIN dir \ files
         /\ \A n \in DOMAIN dir' : n \in DOMAIN dir /\ dir'[n] = dir[n]
<1>1. DOMAIN dir' = DOMAIN dir \ files /\ \A n \in DOMAIN dir' : n \in DOMAIN dir /\ dir'[n] = dir[n]
  BY DEF Without
<1>2. NameSet(list) \subseteq DOMAIN dir'
  BY <1>1 DEF FilesGood, Durable, ListIntact
<1> QED BY <1>1, <1>2, FilesStay

\* A process that goes on with the same stack, and neither reads a list nor is
\* about to unlink what it has.
LEMMA ProcessMoves ==
  ASSUME TypeOK, NEW u \in Proc, NEW p \in Proc, ProcessOK(u, p), Kept(u),
         st'[p] = st[p], ver'[p] = ver[p],
         opened'[p] \in {opened[p], <<>>}, names'[p] \in {names[p], <<>>},
         pc'[p] \notin {"open", "destroy"}, pc'[p] = "read" => reuse'[p]
  PROVE  ProcessOK(u, p)'
<1>1. StackOK(p)' /\ LoadOK(p)'
  BY StackStays DEF ProcessOK, LoadOK
<1>2. Pending(u)' \cap (ReaderNames(st[p]) \cup NameSet(names[p])) = {}
  <2>1. /\ ReaderNames(st[p]) \subseteq HeldNames /\ NameSet(names[p]) \subseteq HeldNames
        /\ HeldNames \cap Pending(u)' \subseteq Pending(u)
    BY NamesInUse DEF Kept
  <2> QED BY <2>1 DEF ProcessOK, NotBack
<1>3. Pending(u)' \cap (ReaderNames(st'[p]) \cup NameSet(names'[p])) = {}
  BY <1>2, NothingOpen
<1>4. NotBack(u, p)'
  BY <1>3 DEF NotBack
<1> QED BY <1>1, <1>4 DEF ProcessOK

\* A process whose stack is the list shows the newest state.
LEMMA UpToDateShows ==
  ASSUME TypeOK, NEW u \in Proc, FilesGood(u), NEW p \in Proc, StackOK(p), list = NamesOf(st[p])
  PROVE  /\ RecsOf(st[p]) = Listed /\ View(st[p]) = hist[Len(hist)]
         /\ \A i \in 1..Len(st[p]) : st[p][i].name \in DOMAIN dir /\ st[p][i].recs = dir[st[p][i].name]
<1>1. Len(list) = Len(st[p]) /\ \A i \in 1..Len(st[p]) : list[i] = st[p][i].name
  BY HeldTypes, NamesOfType
<1>2. ASSUME NEW i \in 1..Len(st[p]) PROVE st[p][i].name \in DOMAIN dir /\ st[p][i].recs = dir[st[p][i].name]
  <2>1. st[p][i].name \in DOMAIN dir
    BY <1>1 DEF FilesGood, Durable, ListIntact, NameSet
  <2> QED BY <2>1 DEF StackOK, Faithful
<1>3. RecsOf(st[p]) = Listed
  BY <1>1, <1>2 DEF RecsOf, Listed
<1> QED BY <1>2, <1>3 DEF View, FilesGood, Durable

-----------------------------------------------------------------------------
(* The steps of a reload *)

\* A step of a process changes the memory of no other.
LEMMA OthersKeep ==
  ASSUME TypeOK, NEW p \in Proc, StartCall(p) \/ CallStep(p) \/ GiveUp(p) \/ Crash(p)
  PROVE  OthersUnchanged(p)
<1> USE DEF OthersUnchanged, TypeOK, StacksOK, CallsOK, HistoryOK, Goto, loading, history
<1>1. CASE ReloadStep(p)
  <2>1. CASE ReloadCheck(p) \/ Recheck(p) \/ Swap(p)
    <3>1. CASE ReloadCheck(p)
      BY <3>1 DEF ReloadCheck, EndReload, StartReload
    <3>2. CASE Recheck(p)
      BY <3>2, SMTT(20) DEF Recheck, EndReload
    <3>3. CASE Swap(p)
      BY <3>3 DEF Swap, EndReload
    <3> QED BY <2>1, <3>1, <3>2, <3>3
  <2>2. CASE ReadList(p) \/ ReuseReader(p) \/ OpenTable(p) \/ TableMissing(p)
    BY <2>2, SMTT(20) DEF ReadList, ReuseReader, OpenTable, TableMissing
  <2>3. CASE UseAfterFree(p)
    BY <2>3 DEF UseAfterFree, Forget
  <2> QED BY <1>1, <2>1, <2>2, <2>3 DEF ReloadStep
<1>2. CASE AdditionStep(p)
  <2>1. CASE CheckLocked(p) \/ AddTable(p) \/ Abandon(p) \/ CommitNothing(p)
    BY <2>1 DEF CheckLocked, AddTable, Abandon, CommitNothing
  <2>2. CASE CommitWrite(p) \/ CommitRename(p) \/ CommitRenameFails(p) \/ AdditionClose(p) \/ Scan(p)
    BY <2>2 DEF CommitWrite, CommitRename, CommitRenameFails, AdditionClose, Scan
  <2> QED BY <1>2, <2>1, <2>2 DEF AdditionStep
<1>3. CASE CompactionStep(p)
  <2>1. CASE AutoCompact(p)
    BY <2>1 DEF AutoCompact, LockForCompaction
  <2>2. CASE \/ CompactionCheck(p) \/ LockTable(p) \/ UnlockForMerge(p) \/ Merge(p) \/ Relock(p)
             \/ Install(p)
    BY <2>2 DEF CompactionCheck, LockTable, UnlockForMerge, Merge, Relock, Install
  <2>3. CASE \/ CompactionWrite(p) \/ CompactionRename(p) \/ CompactionRenameFails(p)
             \/ DeleteCompacted(p) \/ CompactionDone(p)
    BY <2>3 DEF CompactionWrite, CompactionRename, CompactionRenameFails, DeleteCompacted,
       CompactionDone, StartReload
  <2> QED BY <1>3, <2>1, <2>2, <2>3 DEF CompactionStep
<1>4. CASE StartCall(p)
  <2>1. CASE Open(p) \/ Reload(p) \/ Destroy(p) \/ \E c \in CallNames : LockList(p, c) \/ LockTaken(p, c)
    BY <2>1, SMTT(20) DEF Open, Reload, Destroy, LockList, LockTaken, StartReload
  <2>2. CASE CompactAll(p)
    BY <2>2 DEF CompactAll, LockForCompaction
  <2> QED BY <1>4, <2>1, <2>2 DEF StartCall
<1>5. CASE DestroyUnlink(p) \/ Crash(p)
  <2>1. CASE DestroyUnlink(p)
    BY <2>1 DEF DestroyUnlink, Forget
  <2>2. CASE Crash(p)
    BY <2>2 DEF Crash, Forget
  <2> QED BY <1>5, <2>1, <2>2
<1>6. CASE GiveUp(p)
  BY <1>6 DEF GiveUp, EndReload
<1> QED BY <1>1, <1>2, <1>3, <1>4, <1>5, <1>6 DEF CallStep

\* What is pending depends on the addition and the compaction of u alone.
LEMMA PendingStays ==
  ASSUME NEW u \in Proc, NEW p \in Proc, OthersUnchanged(p), newt'[p] = newt[p], job'[p] = job[p],
         p = u => ~Replacing(u) /\ ~Replacing(u)'
  PROVE  Pending(u)' = Pending(u) /\ (list' = list => Coming(u)' = Coming(u))
<1>1. newt'[u] = newt[u] /\ job'[u] = job[u]
  BY DEF OthersUnchanged
<1>2. Replacing(u)' = Replacing(u)
  <2>1. p # u => pc'[u] = pc[u]
    BY DEF OthersUnchanged
  <2> QED BY <2>1 DEF Replacing
<1> QED BY <1>1, <1>2 DEF Pending, Coming

\* The mutator is where nothing is expected of its stack.
LEMMA MutatorRests ==
  ASSUME NEW u \in Proc, newt'[u] = <<>>, health'[u] = "ok",
         \/ pc'[u] \in {"closed", "idle", "auto", "cpdone", "adclose"}
         \/ pc'[u] = "uptodate" /\ ret'[u] # "delete"
         \/ pc'[u] = "read" /\ tries'[u] = 0 /\ ret'[u] # "delete"
         \/ pc'[u] = "locked" /\ fdAt'[u] = "lock"
  PROVE  MutatorOK(u)'
<1>1. UpToDateOK(u)'
  BY DEF UpToDateOK, Merging
<1>2. AdditionOK(u)'
  <2>1. NamesOf(<<>>) = <<>> /\ Len(<<>>) = 0 /\ Distinct(<<>>) /\ 0 <= MaxTables
    BY NamesOfEmpty, EmptySeq, BoundsAssumption DEF Distinct
  <2> QED BY <2>1 DEF AdditionOK
<1>3. CompactionOK(u)'
  BY DEF CompactionOK, Merging, Replacing, Replaced, Reloading
<1> QED BY <1>1, <1>2, <1>3 DEF MutatorOK

\* A step that changes neither files nor stacks: control moves on.
LEMMA ControlMoves ==
  ASSUME TypeOK, NEW u \in Proc, HistoryInv(u), NEW p \in Proc, OthersUnchanged(p),
         UNCHANGED <<dir, list, hist>>, st'[p] = st[p], ver'[p] = ver[p], newt'[p] = newt[p],
         p # u => job'[p] = job[p] /\ UNCHANGED <<lockFile, fdAt>> /\ ReaderOK(p)',
         p = u => MutatorOK(u)' /\ (Replacing(u)' => Replacing(u) /\ job'[u] = job[u]),
         opened'[p] \in {opened[p], <<>>}, names'[p] \in {names[p], <<>>},
         pc'[p] \notin {"open", "destroy"}, pc'[p] = "read" => reuse'[p]
  PROVE  StepOK(u, p)
<1>1. FilesGood(u) /\ MutatorOK(u) /\ ProcessOK(u, p)
  BY DEF HistoryInv
<1>2. Pending(u)' \subseteq Pending(u)
  <2>1. CASE p # u
    BY <2>1, PendingStays
  <2>2. CASE p = u
    BY <2>2 DEF Pending
  <2> QED BY <2>1, <2>2
<1>3. Kept(u) /\ FilesGood(u)'
  BY <1>1, <1>2, NoFileChanges
<1>4. ProcessOK(u, p)'
  BY <1>1, <1>3, ProcessMoves
<1>5. MutatorOK(u)'
  <2>1. CASE p # u
    BY <2>1, <1>1, MutatorStays
  <2> QED BY <2>1
<1> QED BY <1>3, <1>4, <1>5 DEF StepOK

\* Outside additions nothing is written.
LEMMA NothingWritten ==
  ASSUME NEW u \in Proc, HistoryInv(u), NEW p \in Proc, pc[p] \notin {"adding", "rename", "adclose"}
  PROVE  newt[p] = <<>>
BY DEF HistoryInv, MutatorOK, AdditionOK, ReaderOK

\* reftable_new_stack begins a reload.
LEMMA OpenHistory ==
  ASSUME TypeOK, ControlOK, NEW u \in Proc, OnlyMutator(u), HistoryInv(u), NEW p \in Proc, Open(p)
  PROVE  StepOK(u, p)
<1>1. /\ pc[p] = "closed" /\ pc'[p] = "read" /\ ret'[p] = "open" /\ reuse'[p] /\ tries'[p] = 0
      /\ UNCHANGED <<dir, list, lockFile, hist, fdAt, st, ver, newt, job, health, opened, names>>
  BY DEF Open, StartReload, Goto, shared, history, TypeOK, StacksOK, CallsOK
<1>2. OthersUnchanged(p)
  BY OthersKeep DEF StartCall
<1>3. p # u => ReaderOK(p)'
  BY <1>1 DEF HistoryInv, ReaderOK
<1>4. p = u => MutatorOK(u)' /\ ~Replacing(u)'
  <2>1. health[u] = "ok"
    BY DEF HistoryInv, MutatorOK, UpToDateOK
  <2> QED BY <2>1, <1>1, NothingWritten, MutatorRests DEF Replacing
<1> QED BY <1>1, <1>2, <1>3, <1>4, ControlMoves

\* So does reftable_stack_reload, after a look at the list.
LEMMA ReloadHistory ==
  ASSUME TypeOK, ControlOK, NEW u \in Proc, OnlyMutator(u), HistoryInv(u), NEW p \in Proc, Reload(p)
  PROVE  StepOK(u, p)
<1>1. /\ pc[p] = "idle" /\ pc'[p] = "uptodate" /\ ret'[p] = "plain"
      /\ UNCHANGED <<dir, list, lockFile, hist, fdAt, st, ver, newt, job, health, opened, names, reuse>>
  BY DEF Reload, Goto, shared, loading, history, TypeOK, StacksOK, CallsOK
<1>2. OthersUnchanged(p)
  BY OthersKeep DEF StartCall
<1>3. p # u => ReaderOK(p)'
  BY <1>1 DEF HistoryInv, ReaderOK
<1>4. p = u => MutatorOK(u)' /\ ~Replacing(u)'
  <2>1. health[u] = "ok"
    BY DEF HistoryInv, MutatorOK, UpToDateOK
  <2> QED BY <2>1, <1>1, NothingWritten, MutatorRests DEF Replacing
<1> QED BY <1>1, <1>2, <1>3, <1>4, ControlMoves

\* A stack that is the list shows the newest state, whatever version it was read as.
LEMMA ProcessChecked ==
  ASSUME TypeOK, NEW u \in Proc, HistoryInv(u), NEW p \in Proc, Kept(u), UpToDate(p),
         UNCHANGED <<dir, hist>>, st'[p] = st[p], ver'[p] = Len(hist),
         opened'[p] \in {opened[p], <<>>}, names'[p] \in {names[p], <<>>},
         pc'[p] \notin {"open", "destroy"}, pc'[p] = "read" => reuse'[p]
  PROVE  ProcessOK(u, p)'
<1>1. FilesGood(u) /\ ProcessOK(u, p)
  BY DEF HistoryInv
<1>2. View(st[p]) = hist[Len(hist)]
  BY <1>1, UpToDateShows DEF UpToDate, ProcessOK
<1>3. StackOK(p)'
  <2>1. Len(hist) \in Nat /\ Len(hist) # 0
    BY HeldTypes
  <2>2. Faithful(opened'[p])
    BY <1>1, NothingOpen DEF ProcessOK, StackOK
  <2> QED BY <2>1, <2>2, <1>1, <1>2 DEF ProcessOK, StackOK, Faithful
<1>4. LoadOK(p)'
  BY DEF LoadOK
<1>5. Pending(u)' \cap (ReaderNames(st[p]) \cup NameSet(names[p])) = {}
  <2>1. /\ ReaderNames(st[p]) \subseteq HeldNames /\ NameSet(names[p]) \subseteq HeldNames
        /\ HeldNames \cap Pending(u)' \subseteq Pending(u)
    BY NamesInUse DEF Kept
  <2> QED BY <2>1, <1>1 DEF ProcessOK, NotBack
<1>6. Pending(u)' \cap (ReaderNames(st'[p]) \cup NameSet(names'[p])) = {}
  BY <1>5, NothingOpen
<1>7. NotBack(u, p)'
  BY <1>6 DEF NotBack
<1> QED BY <1>3, <1>4, <1>7 DEF ProcessOK

\* What a reload leads to when it is done, and for whom.
LEMMA ReloadEnds ==
  ASSUME ControlOK, NEW p \in Proc, pc[p] \in Reloading
  PROVE  /\ AfterReload[ret[p]] \in {"idle", "auto", "scan", "delete"}
         /\ AfterFailure[ret[p]] \in {"closed", "idle", "adclose", "delete"}
         /\ ret[p] \in {"none", "open", "plain"} =>
              AfterReload[ret[p]] = "idle" /\ AfterFailure[ret[p]] \in {"closed", "idle"}
         /\ AfterReload[ret[p]] = "delete" => ret[p] = "delete"
<1>1. ret[p] \in {"open", "plain", "auto", "scan", "delete"}
  BY DEF ControlOK, ReturnOK
<1> QED BY <1>1 DEF AfterReload, AfterFailure

\* The mutator goes on from a reload with a stack that is the list.
LEMMA MutatorReloaded ==
  ASSUME ControlOK, NEW u \in Proc, HistoryInv(u), pc[u] \in Reloading,
         pc'[u] = AfterReload[ret[u]], NamesOf(st'[u]) = list, health'[u] = "ok",
         newt'[u] = newt[u], job'[u] = job[u], list' = list
  PROVE  MutatorOK(u)'
<1>1. newt'[u] = <<>>
  BY NothingWritten DEF Reloading
<1>2. CASE pc'[u] \in {"idle", "auto"}
  BY <1>1, <1>2, MutatorRests
<1>3. CASE pc'[u] \in {"scan", "delete"}
  <2>1. UpToDateOK(u)'
    BY <1>3 DEF UpToDateOK, Merging
  <2>2. AdditionOK(u)'
    <3>1. NamesOf(<<>>) = <<>> /\ Len(<<>>) = 0 /\ Distinct(<<>>) /\ 0 <= MaxTables
      BY NamesOfEmpty, EmptySeq, BoundsAssumption DEF Distinct
    <3> QED BY <3>1, <1>1, <1>3 DEF AdditionOK
  <2>3. pc'[u] = "delete" => job[u].old \cap NameSet(list) = {}
    <3>1. pc'[u] = "delete" => Replaced(u)
      BY ReloadEnds DEF Replaced
    <3> QED BY <3>1 DEF HistoryInv, MutatorOK, CompactionOK
  <2>4. CompactionOK(u)'
    BY <1>3, <2>3 DEF CompactionOK, Merging, Replacing, Replaced, Reloading
  <2> QED BY <2>1, <2>2, <2>4 DEF MutatorOK
<1> QED BY <1>2, <1>3, ReloadEnds

\* reftable_stack_reload finds the list as its stack is, or begins to read it.
LEMMA ReloadCheckHistory ==
  ASSUME TypeOK, ControlOK, NEW u \in Proc, OnlyMutator(u), HistoryInv(u), NEW p \in Proc,
         ReloadCheck(p)
  PROVE  StepOK(u, p)
<1>1. /\ pc[p] = "uptodate" /\ health[p] = "ok"
      /\ UNCHANGED <<dir, list, lockFile, hist, fdAt, st, newt, job, health>>
  BY DEF ReloadCheck, shared
<1>2. OthersUnchanged(p)
  BY OthersKeep DEF CallStep, ReloadStep
<1>3. CASE UpToDate(p) /\ EndReload(p, AfterReload[ret[p]]) /\ ver' = [ver EXCEPT ![p] = Len(hist)]
  <2>1. /\ pc'[p] = AfterReload[ret[p]] /\ ret'[p] = "none" /\ ver'[p] = Len(hist)
        /\ opened'[p] = <<>> /\ names'[p] = <<>> /\ reuse' = reuse
    BY <1>1, <1>3, ReloadEnds DEF EndReload, Goto, TypeOK, StacksOK, CallsOK, HistoryOK, Reloading
  <2>2. pc'[p] \in {"idle", "auto", "scan", "delete"}
    BY <1>1, <2>1, ReloadEnds DEF Reloading
  <2>3. Pending(u)' = Pending(u)
    BY <1>1, <1>2, <2>2, PendingStays DEF Replacing
  <2>4. Kept(u) /\ FilesGood(u)'
    BY <1>1, <2>3, NoFileChanges DEF HistoryInv
  <2>5. ProcessOK(u, p)'
    BY <1>1, <1>3, <2>1, <2>2, <2>4, ProcessChecked
  <2>6. CASE p = u
    <3>1. MutatorOK(u)'
      BY <2>6, <1>1, <1>3, <2>1, MutatorReloaded DEF UpToDate, Reloading
    <3> QED BY <2>4, <2>5, <2>6, <3>1 DEF StepOK
  <2>7. CASE p # u
    <3>1. MutatorOK(u)'
      BY <2>7, <1>1, <1>2, MutatorStays DEF HistoryInv
    <3>2. ReaderOK(p)'
      BY <2>7, <1>1, <2>1, ReloadEnds DEF HistoryInv, ReaderOK, Reloading
    <3> QED BY <2>4, <2>5, <3>1, <3>2 DEF StepOK
  <2> QED BY <2>6, <2>7
<1>4. CASE Goto(p, "read") /\ StartReload(p, TRUE) /\ UNCHANGED <<ret, ver>>
  <2>1. /\ pc'[p] = "read" /\ reuse'[p] /\ tries'[p] = 0
        /\ UNCHANGED <<ret, ver, opened, names>>
    BY <1>4 DEF Goto, StartReload, TypeOK, StacksOK, CallsOK
  <2>2. p # u => ReaderOK(p)'
    BY <1>1, <2>1 DEF HistoryInv, ReaderOK
  <2>3. ASSUME p = u PROVE MutatorOK(u)' /\ ~Replacing(u)'
    <3>1. newt[u] = <<>>
      BY <2>3, <1>1, NothingWritten
    <3>2. UpToDateOK(u)'
      BY <2>3, <1>1, <2>1 DEF UpToDateOK, Merging
    <3>3. AdditionOK(u)'
      BY <2>3, <3>1, <1>1, <2>1 DEF HistoryInv, MutatorOK, AdditionOK
    <3>4. CompactionOK(u)'
      BY <2>3, <1>1, <2>1
         DEF HistoryInv, MutatorOK, CompactionOK, Merging, Replacing, Replaced, Reloading
    <3> QED BY <2>3, <2>1, <3>2, <3>3, <3>4 DEF MutatorOK, Replacing
  <2> QED BY <1>1, <1>2, <2>1, <2>2, <2>3, ControlMoves
<1> QED BY <1>3, <1>4 DEF ReloadCheck

\* The list is read: its tables are what the reload may show, whether it takes
\* them from its open readers or from the files.
LEMMA ReadListHistory ==
  ASSUME TypeOK, ControlOK, NEW u \in Proc, OnlyMutator(u), HistoryInv(u), NEW p \in Proc,
         ReadList(p)
  PROVE  StepOK(u, p)
<1>1. /\ pc[p] = "read" /\ pc'[p] = "open" /\ names'[p] = list /\ opened'[p] = <<>>
      /\ readAt'[p] = Len(hist)
      /\ UNCHANGED <<dir, list, lockFile, hist, fdAt, st, ver, newt, job, health, ret, reuse>>
  BY DEF ReadList, Goto, shared, history, TypeOK, StacksOK, CallsOK, HistoryOK
<1>2. OthersUnchanged(p)
  BY OthersKeep DEF CallStep, ReloadStep
<1>3. FilesGood(u) /\ MutatorOK(u) /\ ProcessOK(u, p)
  BY DEF HistoryInv
<1>4. Pending(u)' = Pending(u) /\ Coming(u)' = Coming(u)
  BY <1>1, <1>2, PendingStays DEF Replacing
<1>5. Kept(u) /\ FilesGood(u)'
  BY <1>1, <1>3, <1>4, NoFileChanges
<1>6. StackOK(p)'
  BY <1>1, <1>3, <1>5, StackStays DEF ProcessOK
<1>7. LoadOK(p)'
  <2>1. Len(hist) \in 1..Len(hist) /\ ver[p] <= Len(hist) /\ Len(list) \in Nat /\ Len(<<>>) = 0
    BY <1>3, HeldTypes, EmptySeq DEF ProcessOK, StackOK
  <2>2. ASSUME NEW ts \in Readable(p)' PROVE ts = Listed
    <3>1. ts \in [1..Len(list) -> Contents] /\ \A i \in 1..Len(list) : ts[i] \in MayRead(p, i)'
      BY <1>1 DEF Readable
    <3>2. ASSUME NEW i \in 1..Len(list) PROVE ts[i] = dir[list[i]]
      <4>1. list[i] \in DOMAIN dir
        BY <1>3 DEF FilesGood, Durable, ListIntact, NameSet
      <4>2. \A j \in 1..Len(st[p]) : st[p][j].name = list[i] => st[p][j].recs = dir[list[i]]
        BY <4>1, <1>3 DEF ProcessOK, StackOK, Faithful
      <4>3. ts[i] \in {st[p][j].recs : j \in {k \in 1..Len(st[p]) : st[p][k].name = list[i]}}
                      \cup {dir[n] : n \in {list[i]} \cap DOMAIN dir}
        <5>1. ~(i <= Len(opened'[p]))
          BY <1>1, <2>1
        <5> QED BY <5>1, <3>1, <1>1 DEF MayRead
      <4> QED BY <4>2, <4>3
    <3> QED BY <3>1, <3>2 DEF Listed
  <2>3. \A ts \in Readable(p)' : Live(Merged(ts)) = hist[Len(hist)]
    BY <2>2, <1>3 DEF FilesGood, Durable
  <2> QED BY <1>1, <2>1, <2>3 DEF LoadOK
<1>8. NotBack(u, p)'
  <2>1. Pending(u) \cap (ReaderNames(st[p]) \cup NameSet(list)) = {}
    BY <1>3 DEF ProcessOK, NotBack, FilesGood
  <2>2. Dropped(p)' \cap Coming(u) = {}
    <3>1. Dropped(p)' = ReaderNames(st[p]) \ (IF reuse[p] THEN NameSet(list) ELSE {})
      BY <1>1 DEF Dropped
    <3>2. CASE reuse[p]
      BY <3>1, <3>2, <2>1 DEF Coming
    <3>3. CASE ~reuse[p]
      BY <3>1, <3>3, <1>1, <1>3 DEF ProcessOK, NotBack
    <3> QED BY <3>2, <3>3
  <2> QED BY <2>1, <2>2, <1>1, <1>4 DEF NotBack
<1>9. ProcessOK(u, p)'
  BY <1>6, <1>7, <1>8 DEF ProcessOK
<1>10. CASE p = u
  <2>1. newt[u] = <<>>
    BY <1>10, <1>1, NothingWritten
  <2>2. UpToDateOK(u)'
    BY <1>10, <1>1, <1>3 DEF MutatorOK, UpToDateOK, Merging
  <2>3. AdditionOK(u)'
    BY <1>10, <2>1, <1>1, <1>3 DEF MutatorOK, AdditionOK
  <2>4. CompactionOK(u)'
    BY <1>10, <1>1, <1>3 DEF MutatorOK, CompactionOK, Merging, Replacing, Replaced, Reloading
  <2> QED BY <1>5, <1>9, <1>10, <2>2, <2>3, <2>4 DEF StepOK, MutatorOK
<1>11. CASE p # u
  <2>1. MutatorOK(u)'
    BY <1>11, <1>1, <1>2, <1>3, MutatorStays
  <2>2. ReaderOK(p)'
    BY <1>11, <1>1 DEF HistoryInv, ReaderOK
  <2> QED BY <1>5, <1>9, <2>1, <2>2 DEF StepOK
<1> QED BY <1>10, <1>11

\* A reload goes on with one more reader that it might have read.
LEMMA OneMoreReader ==
  ASSUME TypeOK, NEW u \in Proc, HistoryInv(u), NEW p \in Proc, OthersUnchanged(p),
         pc[p] = "open", Len(opened[p]) < Len(names[p]),
         NEW x \in Reader, opened' = [opened EXCEPT ![p] = Append(@, x)], x.name = NextToOpen(p), x.recs \in MayRead(p, Len(opened[p]) + 1),
         x.name \in DOMAIN dir => x.recs = dir[x.name],
         UNCHANGED <<dir, list, lockFile, hist, fdAt, pc, st, ver, names, newt, job, health, ret, reuse,
                     tries, readAt>>
  PROVE  StepOK(u, p)
<1>1. /\ opened[p] \in Seq(Reader) /\ opened'[p] = Append(opened[p], x)
      /\ Len(opened[p]) \in Nat /\ Len(names[p]) \in Nat /\ opened'[p] \in Seq(Reader)
      /\ Len(opened'[p]) = Len(opened[p]) + 1
      /\ \A i \in 1..Len(opened[p]) : opened'[p][i] = opened[p][i]
      /\ opened'[p][Len(opened[p]) + 1] = x
  <2>1. opened[p] \in Seq(Reader) /\ opened'[p] = Append(opened[p], x) /\ names[p] \in Seq(TableName)
    BY HeldTypes DEF TypeOK, StacksOK
  <2> QED BY <2>1, AppendProperties
<1>2. FilesGood(u) /\ MutatorOK(u) /\ ProcessOK(u, p)
  BY DEF HistoryInv
<1>3. Pending(u)' = Pending(u) /\ Coming(u)' = Coming(u)
  BY PendingStays DEF Replacing
<1>4. Kept(u) /\ FilesGood(u)'
  BY <1>2, <1>3, NoFileChanges
<1>5. \A i \in 1..Len(opened'[p]) : i \in 1..Len(opened[p]) \/ i = Len(opened[p]) + 1
  BY <1>1
<1>6. StackOK(p)'
  <2>1. Faithful(opened[p])'
    <3>1. ASSUME NEW i \in 1..Len(opened'[p]), opened'[p][i].name \in DOMAIN dir
          PROVE  opened'[p][i].recs = dir[opened'[p][i].name]
      <4>1. CASE i \in 1..Len(opened[p])
        BY <4>1, <3>1, <1>1, <1>2 DEF ProcessOK, StackOK, Faithful
      <4>2. CASE i = Len(opened[p]) + 1
        BY <4>2, <3>1, <1>1
      <4> QED BY <4>1, <4>2, <1>5
    <3> QED BY <3>1 DEF Faithful
  <2> QED BY <2>1, <1>2 DEF ProcessOK, StackOK, Faithful
<1>7. LoadOK(p)'
  <2>1. /\ readAt[p] \in 1..Len(hist) /\ ver[p] <= readAt[p]
        /\ \A i \in 1..Len(opened[p]) : opened[p][i].name = names[p][i]
        /\ \A ts \in Readable(p) : Live(Merged(ts)) = hist[readAt[p]]
    BY <1>2 DEF ProcessOK, LoadOK
  <2>2. Len(opened'[p]) <= Len(names[p])
    BY <1>1
  <2>3. \A i \in 1..Len(opened'[p]) : opened'[p][i].name = names[p][i]
    BY <1>1, <1>5, <2>1 DEF NextToOpen
  <2>4. ASSUME NEW ts \in Readable(p)' PROVE ts \in Readable(p)
    <3>1. ts \in [1..Len(names[p]) -> Contents] /\ \A i \in 1..Len(names[p]) : ts[i] \in MayRead(p, i)'
      BY DEF Readable
    <3>2. ASSUME NEW i \in 1..Len(names[p]) PROVE ts[i] \in MayRead(p, i)
      <4>1. CASE i <= Len(opened[p])
        <5>1. i <= Len(opened'[p]) /\ i \in 1..Len(opened[p])
          BY <4>1, <1>1
        <5> QED BY <5>1, <4>1, <3>1, <1>1 DEF MayRead
      <4>2. CASE i = Len(opened[p]) + 1
        <5>1. i <= Len(opened'[p]) /\ opened'[p][i] = x
          BY <4>2, <1>1
        <5>2. ts[i] \in {opened'[p][i].recs}
          BY <5>1, <3>1 DEF MayRead
        <5> QED BY <5>1, <5>2, <4>2
      <4>3. CASE Len(opened[p]) + 1 < i
        <5>1. ~(i <= Len(opened'[p])) /\ ~(i <= Len(opened[p]))
          BY <4>3, <1>1
        <5> QED BY <5>1, <3>1 DEF MayRead
      <4> QED BY <4>1, <4>2, <4>3, <1>1
    <3> QED BY <3>1, <3>2 DEF Readable
  <2> QED BY <2>1, <2>2, <2>3, <2>4 DEF LoadOK
<1>8. NotBack(u, p)'
  BY <1>2, <1>4, NotBackStays DEF ProcessOK
<1>9. ProcessOK(u, p)'
  BY <1>6, <1>7, <1>8 DEF ProcessOK
<1>10. MutatorOK(u)'
  <2>1. CASE p # u
    BY <2>1, <1>2, MutatorStays
  <2>2. CASE p = u
    BY <1>2 DEF MutatorOK, UpToDateOK, AdditionOK, CompactionOK, RangeFits, ReplacementFits, Merging,
       Replacing, Replaced, Replacement
  <2> QED BY <2>1, <2>2
<1>11. p # u => ReaderOK(p)'
  BY DEF HistoryInv, ReaderOK
<1> QED BY <1>4, <1>9, <1>10, <1>11 DEF StepOK

\* reload_once takes over the reader of a table it has open ...
LEMMA ReuseReaderHistory ==
  ASSUME TypeOK, ControlOK, NEW u \in Proc, OnlyMutator(u), HistoryInv(u), NEW p \in Proc,
         ReuseReader(p)
  PROVE  StepOK(u, p)
<1>1. PICK i \in 1..Len(st[p]) :
        /\ st[p][i].name = NextToOpen(p)
        /\ opened' = [opened EXCEPT ![p] = Append(@, st[p][i])]
  BY DEF ReuseReader
<1>2. st[p][i] \in Reader /\ Len(opened[p]) \in Nat
  BY HeldTypes, ReaderAt
<1>3. st[p][i].name \in DOMAIN dir => st[p][i].recs = dir[st[p][i].name]
  BY DEF HistoryInv, ProcessOK, StackOK, Faithful
<1>4. st[p][i].recs \in MayRead(p, Len(opened[p]) + 1)
  BY <1>1, <1>2 DEF MayRead, NextToOpen
<1>5. OthersUnchanged(p)
  BY OthersKeep DEF CallStep, ReloadStep
<1>6. /\ pc[p] = "open" /\ Len(opened[p]) < Len(names[p])
      /\ UNCHANGED <<dir, list, lockFile, hist, fdAt, pc, st, ver, names, newt, job, health, ret, reuse,
                     tries, readAt>>
  BY DEF ReuseReader, shared, history
<1> QED BY <1>1, <1>2, <1>3, <1>4, <1>5, <1>6, OneMoreReader

\* ... and opens the others.
LEMMA OpenTableHistory ==
  ASSUME TypeOK, ControlOK, NEW u \in Proc, OnlyMutator(u), HistoryInv(u), NEW p \in Proc,
         OpenTable(p)
  PROVE  StepOK(u, p)
<1> DEFINE x == [name |-> NextToOpen(p), recs |-> dir[NextToOpen(p)]]
<1>1. NextToOpen(p) \in DOMAIN dir /\ pc[p] = "open" /\ Len(opened[p]) < Len(names[p])
  BY DEF OpenTable, MustOpen
<1>2. x \in Reader /\ x.name = NextToOpen(p) /\ x.recs = dir[NextToOpen(p)]
  BY <1>1 DEF TypeOK, FilesOK, Reader
<1>3. opened' = [opened EXCEPT ![p] = Append(@, x)]
  BY DEF OpenTable
<1> HIDE DEF x
<1>4. x.recs \in MayRead(p, Len(opened[p]) + 1)
  <2>1. ~(Len(opened[p]) + 1 <= Len(opened[p]))
    <3>1. Len(opened[p]) \in Nat
      BY HeldTypes
    <3> QED BY <3>1
  <2>2. x.recs \in {dir[n] : n \in {names[p][Len(opened[p]) + 1]} \cap DOMAIN dir}
    BY <1>1, <1>2 DEF NextToOpen
  <2> QED BY <2>1, <2>2 DEF MayRead
<1>5. OthersUnchanged(p)
  BY OthersKeep DEF CallStep, ReloadStep
<1>6. UNCHANGED <<dir, list, lockFile, hist, fdAt, pc, st, ver, names, newt, job, health, ret, reuse,
                  tries, readAt>>
  BY DEF OpenTable, shared, history
<1> QED BY <1>1, <1>2, <1>3, <1>4, <1>5, <1>6, OneMoreReader

\* A table is missing only for a reader: the mutator reads the list that is there.
LEMMA TableMissingHistory ==
  ASSUME TypeOK, ControlOK, NEW u \in Proc, OnlyMutator(u), HistoryInv(u), NEW p \in Proc,
         TableMissing(p)
  PROVE  StepOK(u, p)
<1>1. /\ pc[p] = "open" /\ pc'[p] = "recheck" /\ opened'[p] = <<>>
      /\ Len(opened[p]) < Len(names[p]) /\ NextToOpen(p) \notin DOMAIN dir
      /\ UNCHANGED <<dir, list, lockFile, hist, fdAt, st, ver, names, newt, job, ret, reuse>>
  BY DEF TableMissing, MustOpen, Goto, shared, history, TypeOK, StacksOK, CallsOK
<1>2. p # u
  <2>1. SUFFICES ASSUME p = u PROVE FALSE
    OBVIOUS
  <2>2. names[p] = list
    BY <2>1, <1>1 DEF HistoryInv, MutatorOK, UpToDateOK
  <2>3. Len(opened[p]) + 1 \in 1..Len(list)
    BY <2>2, <1>1, HeldTypes
  <2>4. NextToOpen(p) \in NameSet(list)
    BY <2>2, <2>3 DEF NextToOpen, NameSet
  <2> QED BY <2>4, <1>1 DEF HistoryInv, FilesGood, Durable, ListIntact
<1>3. OthersUnchanged(p)
  BY OthersKeep DEF CallStep, ReloadStep
<1>4. ReaderOK(p)'
  BY <1>1, <1>2 DEF HistoryInv, ReaderOK
<1> QED BY <1>1, <1>2, <1>3, <1>4, ControlMoves

\* A reader that missed a table fails, or reads the list again.
LEMMA RecheckHistory ==
  ASSUME TypeOK, ControlOK, NEW u \in Proc, OnlyMutator(u), HistoryInv(u), NEW p \in Proc,
         Recheck(p)
  PROVE  StepOK(u, p)
<1>1. /\ pc[p] = "recheck"
      /\ UNCHANGED <<dir, list, lockFile, hist, fdAt, st, ver, newt, job, reuse>>
  BY DEF Recheck, EndReload, shared, history, loading
<1>2. p # u
  BY <1>1 DEF HistoryInv, MutatorOK, UpToDateOK
<1>3. ReaderOK(p) /\ OthersUnchanged(p)
  BY <1>2, OthersKeep DEF HistoryInv, CallStep, ReloadStep
<1>4. CASE EndReload(p, AfterFailure[ret[p]])
  <2>1. AfterFailure[ret[p]] \in {"closed", "idle"}
    BY <1>1, <1>3, ReloadEnds DEF ReaderOK, Reloading
  <2>2. /\ pc'[p] \in {"closed", "idle"} /\ ret'[p] = "none" /\ opened'[p] = <<>> /\ names'[p] = <<>>
    BY <1>4, <2>1 DEF EndReload, Goto, TypeOK, StacksOK, CallsOK
  <2>3. ReaderOK(p)'
    BY <1>1, <1>3, <2>2 DEF ReaderOK
  <2> QED BY <1>1, <1>2, <1>3, <2>2, <2>3, ControlMoves
<1>5. CASE Goto(p, "read") /\ UNCHANGED <<loading, ret>>
  <2>1. pc'[p] = "read" /\ UNCHANGED <<opened, names, ret>>
    BY <1>5 DEF Goto, loading, TypeOK, CallsOK
  <2>2. ReaderOK(p)'
    BY <1>1, <1>3, <2>1 DEF ReaderOK
  <2> QED BY <1>1, <1>2, <1>3, <2>1, <2>2, ControlMoves DEF ReaderOK
<1> QED BY <1>4, <1>5 DEF Recheck

\* Only a reader can run out of time: the mutator needs one attempt.
LEMMA GiveUpHistory ==
  ASSUME TypeOK, ControlOK, NEW u \in Proc, OnlyMutator(u), HistoryInv(u), NEW p \in Proc,
         GiveUp(p)
  PROVE  StepOK(u, p)
<1>1. /\ pc[p] = "read" /\ tries[p] >= FreeTries /\ EndReload(p, AfterReload[ret[p]])
      /\ UNCHANGED <<dir, list, lockFile, hist, fdAt, st, ver, newt, job, reuse>>
  BY DEF GiveUp, EndReload, shared, history
<1>2. p # u
  <2>1. p = u => tries[p] = 0
    BY <1>1 DEF HistoryInv, MutatorOK, UpToDateOK
  <2>2. FreeTries \in Nat /\ FreeTries # 0
    BY BoundsAssumption DEF OnlyMutator
  <2> QED BY <2>1, <2>2, <1>1
<1>3. ReaderOK(p) /\ OthersUnchanged(p)
  BY <1>2, OthersKeep DEF HistoryInv
<1>4. AfterReload[ret[p]] = "idle"
  BY <1>1, <1>3, ReloadEnds DEF ReaderOK, Reloading
<1>5. /\ pc'[p] = "idle" /\ ret'[p] = "none" /\ opened'[p] = <<>> /\ names'[p] = <<>>
  BY <1>1, <1>4 DEF EndReload, Goto, TypeOK, StacksOK, CallsOK
<1>6. ReaderOK(p)'
  BY <1>1, <1>3, <1>5 DEF ReaderOK
<1> QED BY <1>1, <1>2, <1>3, <1>5, <1>6, ControlMoves

\* Where a reload has opened all tables of its list.
LEMMA LoadedStack ==
  ASSUME TypeOK, NEW u \in Proc, HistoryInv(u), NEW p \in Proc, pc[p] = "open",
         Len(opened[p]) = Len(names[p])
  PROVE  /\ NamesOf(opened[p]) = names[p] /\ ReaderNames(opened[p]) = NameSet(names[p])
         /\ readAt[p] \in 1..Len(hist) /\ ver[p] <= readAt[p]
         /\ View(opened[p]) = hist[readAt[p]]
<1>1. /\ opened[p] \in Seq(Reader) /\ names[p] \in Seq(TableName)
      /\ NamesOf(opened[p]) \in Seq(TableName) /\ Len(NamesOf(opened[p])) = Len(opened[p])
      /\ \A i \in 1..Len(opened[p]) : NamesOf(opened[p])[i] = opened[p][i].name
      /\ RecsOf(opened[p]) \in Seq(Contents)
  BY HeldTypes, NamesOfType
<1>2. /\ readAt[p] \in 1..Len(hist) /\ ver[p] <= readAt[p]
      /\ \A i \in 1..Len(opened[p]) : opened[p][i].name = names[p][i]
      /\ \A ts \in Readable(p) : Live(Merged(ts)) = hist[readAt[p]]
  BY DEF HistoryInv, ProcessOK, LoadOK
<1>3. NamesOf(opened[p]) = names[p]
  <2> DEFINE s == NamesOf(opened[p])
             t == names[p]
  <2>1. s \in Seq(TableName) /\ t \in Seq(TableName) /\ Len(s) = Len(t) /\ \A i \in 1..Len(s) : s[i] = t[i]
    BY <1>1, <1>2
  <2> HIDE DEF s, t
  <2>2. s = t
    BY <2>1, SeqEqual
  <2> QED BY <2>2 DEF s, t
<1>4. RecsOf(opened[p]) \in Readable(p)
  <2>1. \A i \in 1..Len(opened[p]) : opened[p][i].recs \in Contents
    BY <1>1, ReaderAt
  <2>2. RecsOf(opened[p]) \in [1..Len(names[p]) -> Contents]
    BY <2>1 DEF RecsOf
  <2>3. ASSUME NEW i \in 1..Len(names[p]) PROVE RecsOf(opened[p])[i] \in MayRead(p, i)
    <3>1. i <= Len(opened[p])
      BY <1>1
    <3> QED BY <3>1 DEF RecsOf, MayRead
  <2> QED BY <2>2, <2>3 DEF Readable
<1>5. ReaderNames(opened[p]) = NameSet(names[p])
  BY <1>1, <1>3, SameNames
<1> QED BY <1>2, <1>3, <1>4, <1>5 DEF View

\* The new stack is installed, and the files it has no more are unlinked: none of
\* them is listed or about to be.
LEMMA SwapHistory ==
  ASSUME TypeOK, ControlOK, NEW u \in Proc, OnlyMutator(u), HistoryInv(u), NEW p \in Proc,
         Swap(p)
  PROVE  StepOK(u, p)
<1>1. /\ pc[p] = "open" /\ Len(opened[p]) = Len(names[p]) /\ st'[p] = opened[p]
      /\ health'[p] = "ok" /\ dir' = Without(Dropped(p)) /\ ver'[p] = readAt[p]
      /\ EndReload(p, AfterReload[ret[p]])
      /\ UNCHANGED <<list, lockFile, hist, fdAt, newt, job>>
  BY DEF Swap, TypeOK, StacksOK, HistoryOK
<1>2. OthersUnchanged(p)
  BY OthersKeep DEF CallStep, ReloadStep
<1>3. FilesGood(u) /\ MutatorOK(u) /\ ProcessOK(u, p)
  BY DEF HistoryInv
<1>4. AfterReload[ret[p]] \in {"idle", "auto", "scan", "delete"}
  BY <1>1, ReloadEnds DEF Reloading
<1>5. /\ pc'[p] = AfterReload[ret[p]] /\ ret'[p] = "none" /\ opened'[p] = <<>>
      /\ names'[p] = <<>> /\ reuse' = reuse
  BY <1>1, <1>4 DEF EndReload, Goto, TypeOK, StacksOK, CallsOK
<1>6. Pending(u)' = Pending(u)
  BY <1>1, <1>2, <1>4, <1>5, PendingStays DEF Replacing
<1>7. Dropped(p) \cap Coming(u) = {}
  BY <1>1, <1>3 DEF ProcessOK, NotBack
<1>8. /\ Kept(u) /\ FilesGood(u)' /\ DOMAIN dir' = DOMAIN dir \ Dropped(p)
      /\ \A n \in DOMAIN dir' : n \in DOMAIN dir /\ dir'[n] = dir[n]
  <2>1. Dropped(p) \cap NameSet(list) = {}
    BY <1>7 DEF Coming
  <2> QED BY <2>1, <1>1, <1>3, <1>6, FilesGo
<1>9. /\ NamesOf(opened[p]) = names[p] /\ ReaderNames(opened[p]) = NameSet(names[p])
      /\ readAt[p] \in 1..Len(hist) /\ View(opened[p]) = hist[readAt[p]]
  BY <1>1, LoadedStack
<1>10. ProcessOK(u, p)'
  <2>1. StackOK(p)'
    <3>1. \A i \in 1..Len(opened[p]) :
            opened[p][i].name \in DOMAIN dir' => opened[p][i].recs = dir'[opened[p][i].name]
      BY <1>3, <1>8 DEF ProcessOK, StackOK, Faithful
    <3>2. Faithful(st[p])' /\ Faithful(opened[p])'
      BY <3>1, <1>1, <1>5, NothingOpen DEF Faithful
    <3>3. readAt[p] # 0 /\ readAt[p] <= Len(hist)
      BY <1>9, HeldTypes
    <3> QED BY <3>2, <3>3, <1>1, <1>5, <1>9 DEF StackOK
  <2>2. NotBack(u, p)'
    <3>1. Pending(u) \cap NameSet(names[p]) = {}
      BY <1>3 DEF ProcessOK, NotBack
    <3>2. Pending(u)' \cap (ReaderNames(st'[p]) \cup NameSet(names'[p])) = {}
      BY <3>1, <1>1, <1>5, <1>6, <1>9, NothingOpen
    <3> QED BY <3>2, <1>4, <1>5 DEF NotBack
  <2>3. LoadOK(p)'
    BY <1>4, <1>5 DEF LoadOK
  <2> QED BY <2>1, <2>2, <2>3 DEF ProcessOK
<1>11. CASE p = u
  <2>1. names[u] = list
    BY <1>1, <1>3, <1>11 DEF MutatorOK, UpToDateOK
  <2>2. MutatorOK(u)'
    BY <2>1, <1>1, <1>5, <1>9, <1>11, MutatorReloaded DEF Reloading
  <2> QED BY <2>2, <1>8, <1>10, <1>11 DEF StepOK
<1>12. CASE p # u
  <2>1. MutatorOK(u)'
    <3>1. DOMAIN dir \cap Pending(u) \subseteq DOMAIN dir'
      BY <1>7, <1>8 DEF Coming
    <3> QED BY <3>1, <1>1, <1>2, <1>3, <1>8, <1>12, MutatorStays
  <2>2. ReaderOK(p)'
    BY <1>1, <1>5, <1>12, ReloadEnds DEF HistoryInv, ReaderOK, Reloading
  <2> QED BY <2>1, <2>2, <1>8, <1>10 DEF StepOK
<1> QED BY <1>11, <1>12

-----------------------------------------------------------------------------
(* The end of a stack *)

\* A process forgets its stack.  Files may go that are neither listed nor pending.
LEMMA ForgetHistory ==
  ASSUME TypeOK, NEW u \in Proc, HistoryInv(u), NEW p \in Proc, OthersUnchanged(p),
         NEW label \in {"closed", "aborted"}, Forget(p, label), p = u => label = "closed",
         UNCHANGED <<list, lockFile>>,
         \A n \in DOMAIN dir \cap Coming(u) : n \in DOMAIN dir',
         \A n \in DOMAIN dir' : n \in DOMAIN dir /\ dir'[n] = dir[n]
  PROVE  StepOK(u, p)
<1>1. /\ pc'[p] = label /\ st'[p] = <<>> /\ health'[p] = "ok" /\ names'[p] = <<>>
      /\ opened'[p] = <<>> /\ reuse'[p] /\ ret'[p] = "none" /\ newt'[p] = <<>>
      /\ job'[p] = NoJob /\ ver'[p] = 0 /\ hist' = hist
      /\ \A q \in Proc \ {p} : fdAt'[q] = fdAt[q]
  BY DEF Forget, Goto, TypeOK, StacksOK, CallsOK, HistoryOK
<1>2. FilesGood(u) /\ MutatorOK(u)
  BY DEF HistoryInv
<1>3. Pending(u)' \subseteq Pending(u)
  <2>1. CASE p = u
    BY <2>1, <1>1, NothingOpen DEF Pending, Replacing
  <2>2. CASE p # u
    <3>1. newt'[u] = newt[u] /\ job'[u] = job[u] /\ pc'[u] = pc[u]
      BY <2>2 DEF OthersUnchanged
    <3> QED BY <3>1 DEF Pending, Replacing
  <2> QED BY <2>1, <2>2
<1>4. Kept(u) /\ FilesGood(u)'
  <2>1. NameSet(list) \subseteq DOMAIN dir'
    BY <1>2 DEF FilesGood, Durable, ListIntact, Coming
  <2> QED BY <2>1, <1>1, <1>2, <1>3, FilesStay
<1>5. ProcessOK(u, p)'
  <2>1. StackOK(p)'
    <3>1. 0 <= Len(hist)
      BY HeldTypes
    <3>2. Faithful(st[p])' /\ Faithful(opened[p])' /\ View(st'[p]) = NoRecs
      BY <1>1, NothingOpen DEF Faithful
    <3> QED BY <3>1, <3>2, <1>1 DEF StackOK
  <2>2. LoadOK(p)' /\ NotBack(u, p)'
    BY <1>1, NothingOpen DEF LoadOK, NotBack
  <2> QED BY <2>1, <2>2 DEF ProcessOK
<1>6. CASE p = u
  <2>1. MutatorOK(u)'
    BY <1>1, <1>6, MutatorRests
  <2> QED BY <2>1, <1>4, <1>5, <1>6 DEF StepOK
<1>7. CASE p # u
  <2>1. MutatorOK(u)'
    <3>1. DOMAIN dir \cap Pending(u) \subseteq DOMAIN dir'
      BY DEF Coming
    <3> QED BY <3>1, <1>1, <1>2, <1>7, MutatorStays
  <2>2. ReaderOK(p)'
    BY <1>1 DEF ReaderOK
  <2> QED BY <2>1, <2>2, <1>4, <1>5 DEF StepOK
<1> QED BY <1>6, <1>7

\* Only a reader can die of a missing table: the mutator has missed none.
LEMMA UseAfterFreeHistory ==
  ASSUME TypeOK, ControlOK, NEW u \in Proc, OnlyMutator(u), HistoryInv(u), NEW p \in Proc,
         UseAfterFree(p)
  PROVE  StepOK(u, p)
<1>1. health[p] # "ok" /\ Forget(p, "aborted") /\ UNCHANGED <<dir, list, lockFile>>
  BY DEF UseAfterFree, shared
<1>2. p # u
  BY <1>1 DEF HistoryInv, MutatorOK, UpToDateOK
<1>3. OthersUnchanged(p)
  BY OthersKeep DEF CallStep, ReloadStep
<1> QED BY <1>1, <1>2, <1>3, ForgetHistory

\* A process dies; its files and locks stay.
LEMMA CrashHistory ==
  ASSUME TypeOK, ControlOK, NEW u \in Proc, OnlyMutator(u), HistoryInv(u), NEW p \in Proc,
         Crash(p)
  PROVE  StepOK(u, p)
<1>1. Forget(p, "closed") /\ UNCHANGED <<dir, list, lockFile>>
  BY DEF Crash, shared
<1>2. OthersUnchanged(p)
  BY OthersKeep
<1> QED BY <1>1, <1>2, ForgetHistory

\* reftable_stack_destroy reads the list ...
LEMMA DestroyHistory ==
  ASSUME TypeOK, ControlOK, NEW u \in Proc, OnlyMutator(u), HistoryInv(u), NEW p \in Proc,
         Destroy(p)
  PROVE  StepOK(u, p)
<1>1. /\ pc[p] = "idle" /\ pc'[p] = "destroy" /\ names'[p] = list
      /\ UNCHANGED <<dir, list, lockFile, hist, fdAt, st, ver, newt, job, health, ret, reuse, opened, tries>>
  BY DEF Destroy, Goto, shared, history, TypeOK, StacksOK, CallsOK
<1>2. OthersUnchanged(p)
  BY OthersKeep DEF StartCall
<1>3. FilesGood(u) /\ MutatorOK(u) /\ ProcessOK(u, p)
  BY DEF HistoryInv
<1>4. Pending(u)' = Pending(u) /\ Coming(u)' = Coming(u)
  BY <1>1, <1>2, PendingStays DEF Replacing
<1>5. Kept(u) /\ FilesGood(u)'
  BY <1>1, <1>3, <1>4, NoFileChanges
<1>6. ProcessOK(u, p)'
  <2>1. StackOK(p)' /\ LoadOK(p)'
    BY <1>1, <1>3, <1>5, StackStays DEF ProcessOK, LoadOK
  <2>2. Pending(u) \cap (ReaderNames(st[p]) \cup NameSet(list)) = {}
    BY <1>3 DEF ProcessOK, NotBack, FilesGood
  <2>3. (ReaderNames(st[p]) \ NameSet(list)) \cap Coming(u) = {}
    BY <2>2 DEF Coming
  <2>4. NotBack(u, p)'
    BY <2>2, <2>3, <1>1, <1>4 DEF NotBack
  <2> QED BY <2>1, <2>4 DEF ProcessOK
<1>7. CASE p = u
  <2>1. newt[u] = <<>> /\ health[u] = "ok"
    BY <1>1, <1>3, <1>7, NothingWritten DEF MutatorOK, UpToDateOK
  <2>2. UpToDateOK(u)' /\ CompactionOK(u)'
    BY <2>1, <1>1, <1>7 DEF UpToDateOK, CompactionOK, Merging, Replacing, Replaced, Reloading
  <2>3. AdditionOK(u)'
    BY <2>1, <1>1, <1>3, <1>7 DEF MutatorOK, AdditionOK
  <2> QED BY <2>2, <2>3, <1>5, <1>6, <1>7 DEF StepOK, MutatorOK
<1>8. CASE p # u
  <2>1. MutatorOK(u)' /\ ReaderOK(p)'
    BY <1>1, <1>2, <1>3, <1>8, MutatorStays DEF HistoryInv, ReaderOK
  <2> QED BY <2>1, <1>5, <1>6 DEF StepOK
<1> QED BY <1>7, <1>8

\* ... and unlinks the files that were not in it: they are not in the list now,
\* nor will u put them there.
LEMMA DestroyUnlinkHistory ==
  ASSUME TypeOK, ControlOK, NEW u \in Proc, OnlyMutator(u), HistoryInv(u), NEW p \in Proc,
         DestroyUnlink(p)
  PROVE  StepOK(u, p)
<1> DEFINE files == ReaderNames(st[p]) \ NameSet(names[p])
<1>1. /\ pc[p] = "destroy" /\ Forget(p, "closed") /\ UNCHANGED <<list, lockFile>>
      /\ dir' = Without(files)
  BY DEF DestroyUnlink
<1>2. files \cap Coming(u) = {}
  BY <1>1 DEF HistoryInv, ProcessOK, NotBack
<1> HIDE DEF files
<1>3. /\ \A n \in DOMAIN dir \cap Coming(u) : n \in DOMAIN dir'
      /\ \A n \in DOMAIN dir' : n \in DOMAIN dir /\ dir'[n] = dir[n]
  BY <1>1, <1>2 DEF Without
<1>4. OthersUnchanged(p)
  BY OthersKeep DEF CallStep
<1> QED BY <1>1, <1>3, <1>4, ForgetHistory

-----------------------------------------------------------------------------
(* Additions *)

\* Whoever writes or compacts is u.
LEMMA MutatorActs ==
  ASSUME TypeOK, NEW u \in Proc, OnlyMutator(u), HistoryInv(u), NEW p \in Proc,
         \/ AdditionStep(p) \/ CompactionStep(p) \/ CompactAll(p)
         \/ \E c \in CallNames : LockList(p, c) \/ LockTaken(p, c)
  PROVE  p = u
<1> SUFFICES ASSUME p # u PROVE FALSE
  OBVIOUS
<1>1. /\ Calls[p] \subseteq {"reload", "destroy"}
      /\ pc[p] \in {"closed", "idle", "aborted", "uptodate", "read", "open", "recheck", "destroy"}
  BY DEF OnlyMutator, HistoryInv, ReaderOK
<1>2. ~CompactAll(p) /\ \A c \in CallNames : ~LockList(p, c) /\ ~LockTaken(p, c)
  BY <1>1 DEF CompactAll, LockList, LockTaken
<1>3. ~AdditionStep(p)
  BY <1>1 DEF AdditionStep, CheckLocked, AddTable, Abandon, CommitNothing, CommitWrite, CommitRename,
     CommitRenameFails, AdditionClose, Scan
<1>4. ~CompactionStep(p)
  BY <1>1 DEF CompactionStep, AutoCompact, CompactionCheck, LockTable, UnlockForMerge, Merge, Relock,
     Install, CompactionWrite, CompactionRename, CompactionRenameFails, DeleteCompacted, CompactionDone
<1> QED BY <1>2, <1>3, <1>4

\* The lock on the list is taken, or found taken.
LEMMA LockListHistory ==
  ASSUME TypeOK, ControlOK, NEW u \in Proc, OnlyMutator(u), HistoryInv(u),
         NEW c \in CallNames, LockList(u, c) \/ LockTaken(u, c)
  PROVE  StepOK(u, u)
<1>1. /\ pc[u] = "idle" /\ UNCHANGED <<dir, list, hist, st, ver, newt, job, health, opened, names>>
      /\ pc'[u] = "adclose" \/ (pc'[u] = "locked" /\ fdAt'[u] = "lock")
  BY DEF LockList, LockTaken, Goto, shared, loading, history, TypeOK, StacksOK, CallsOK
<1>2. newt[u] = <<>> /\ health[u] = "ok"
  BY <1>1, NothingWritten DEF HistoryInv, MutatorOK, UpToDateOK
<1>3. MutatorOK(u)' /\ ~Replacing(u)'
  BY <1>1, <1>2, MutatorRests DEF Replacing
<1>4. OthersUnchanged(u)
  BY OthersKeep DEF StartCall
<1> QED BY <1>1, <1>3, <1>4, ControlMoves

\* With the lock the stack of u is compared with the list.
LEMMA CheckLockedHistory ==
  ASSUME TypeOK, ControlOK, NEW u \in Proc, OnlyMutator(u), HistoryInv(u), CheckLocked(u)
  PROVE  StepOK(u, u)
<1>1. /\ pc[u] = "locked" /\ UNCHANGED <<dir, list, hist, st, newt, job, health, opened, names, fdAt>>
  BY DEF CheckLocked, shared, loading
<1>2. newt[u] = <<>> /\ health[u] = "ok" /\ fdAt[u] = "lock"
  BY <1>1, NothingWritten DEF HistoryInv, MutatorOK, UpToDateOK
<1>3. OthersUnchanged(u)
  BY OthersKeep DEF CallStep, AdditionStep
<1>4. CASE ~UpToDate(u)
  <2>1. pc'[u] = "adclose" /\ ver' = ver
    BY <1>4 DEF CheckLocked, Goto, TypeOK, CallsOK
  <2>2. MutatorOK(u)' /\ ~Replacing(u)'
    BY <2>1, <1>1, <1>2, MutatorRests DEF Replacing
  <2> QED BY <2>1, <2>2, <1>1, <1>3, ControlMoves
<1>5. CASE UpToDate(u)
  <2>1. /\ \/ pc'[u] = "adding"
           \/ pc'[u] = "uptodate" /\ ret'[u] = "scan"
        /\ ver'[u] = Len(hist)
    BY <1>5 DEF CheckLocked, Goto, TypeOK, CallsOK, HistoryOK
  <2>2. Pending(u)' = Pending(u)
    BY <2>1, <1>1, <1>3, PendingStays DEF Replacing
  <2>3. Kept(u) /\ FilesGood(u)'
    BY <2>2, <1>1, NoFileChanges DEF HistoryInv
  <2>4. ProcessOK(u, u)'
    BY <1>1, <1>5, <2>1, <2>3, ProcessChecked
  <2>5. CASE pc'[u] = "adding"
    <3>1. UpToDateOK(u)' /\ CompactionOK(u)'
      BY <2>1, <2>5, <1>1, <1>2, <1>5
         DEF UpToDateOK, CompactionOK, Merging, Replacing, Replaced, Reloading, UpToDate
    <3>2. AdditionOK(u)'
      BY <2>5, <1>1, <1>2 DEF HistoryInv, MutatorOK, AdditionOK
    <3> QED BY <3>1, <3>2, <2>3, <2>4 DEF StepOK, MutatorOK
  <2>6. CASE pc'[u] = "uptodate" /\ ret'[u] = "scan"
    <3>1. MutatorOK(u)'
      BY <2>6, <1>1, <1>2, MutatorRests
    <3> QED BY <3>1, <2>3, <2>4 DEF StepOK
  <2> QED BY <2>1, <2>5, <2>6
<1> QED BY <1>4, <1>5

\* One more file, under a name that was in use nowhere.
LEMMA FileAppears ==
  ASSUME TypeOK, NEW u \in Proc, HistoryInv(u), UNCHANGED <<list, hist>>,
         NEW x, NEW recs, x \notin HeldNames, dir' = With(x, recs),
         Pending(u)' \subseteq Pending(u) \cup {x}
  PROVE  /\ Kept(u) /\ FilesGood(u)' /\ DOMAIN dir' = DOMAIN dir \cup {x} /\ dir'[x] = recs
         /\ \A n \in DOMAIN dir : n # x /\ dir'[n] = dir[n]
<1>1. DOMAIN dir \subseteq HeldNames
  BY NamesInUse
<1>2. /\ DOMAIN dir' = DOMAIN dir \cup {x} /\ dir'[x] = recs
      /\ \A n \in DOMAIN dir : n # x /\ dir'[n] = dir[n]
  BY <1>1 DEF With
<1>3. NameSet(list) \subseteq DOMAIN dir'
  BY <1>2 DEF HistoryInv, FilesGood, Durable, ListIntact
<1>4. \A n \in HeldNames \cap DOMAIN dir' : n \in DOMAIN dir /\ dir'[n] = dir[n]
  BY <1>2
<1>5. HeldNames \cap Pending(u)' \subseteq Pending(u)
  OBVIOUS
<1> QED BY <1>2, <1>3, <1>4, <1>5, FilesStay DEF HistoryInv

\* reftable_addition_add: one more table is pending.
LEMMA AddTableHistory ==
  ASSUME TypeOK, ControlOK, NEW u \in Proc, OnlyMutator(u), HistoryInv(u), AddTable(u)
  PROVE  StepOK(u, u)
<1>1. /\ pc[u] = "adding"
      /\ UNCHANGED <<list, hist, pc, st, ver, job, health, opened, names, fdAt, ret, reuse, readAt, tries>>
      /\ Len(newt[u]) < (IF call[u] = "add" THEN 1 ELSE MaxTables)
  BY DEF AddTable, loading, history
<1>2. PICK lo \in Nat, hi \in Nat : \E x \in NewNames(lo, hi), b \in Batches :
        /\ NextUpdateIndex(st[u]) <= lo /\ lo <= hi
        /\ dir' = With(x, b)
        /\ newt' = [newt EXCEPT ![u] = Append(@, [name |-> x, recs |-> b])]
  BY AddedTable
<1>3. PICK n \in NewNames(lo, hi), b \in Batches :
        /\ dir' = With(n, b)
        /\ newt' = [newt EXCEPT ![u] = Append(@, [name |-> n, recs |-> b])]
  BY <1>2
<1>4. n \in TableName /\ n \notin HeldNames /\ b \in Contents
  BY FreshName, BatchAssumption DEF OnlyMutator
<1> DEFINE x == [name |-> n, recs |-> b]
<1>5. x \in Reader /\ x.name = n /\ x.recs = b /\ newt'[u] = Append(newt[u], x)
  BY <1>3, <1>4 DEF Reader, TypeOK, CallsOK
<1> HIDE DEF x
<1>6. /\ newt[u] \in Seq(Reader) /\ newt'[u] \in Seq(Reader) /\ Len(newt'[u]) = Len(newt[u]) + 1
      /\ Len(newt[u]) \in Nat /\ \A i \in 1..Len(newt[u]) : newt'[u][i] = newt[u][i]
      /\ newt'[u][Len(newt[u]) + 1] = x
      /\ \A i \in 1..Len(newt'[u]) : i \in 1..Len(newt[u]) \/ i = Len(newt[u]) + 1
      /\ ReaderNames(newt'[u]) = ReaderNames(newt[u]) \cup {n}
  BY <1>5, HeldTypes, TableAppended
<1>7. Pending(u)' \subseteq Pending(u) \cup {n}
  BY <1>1, <1>6 DEF Pending, Replacing
<1>8. /\ Kept(u) /\ FilesGood(u)' /\ DOMAIN dir' = DOMAIN dir \cup {n} /\ dir'[n] = b
      /\ \A m \in DOMAIN dir : m # n /\ dir'[m] = dir[m]
  BY <1>1, <1>3, <1>4, <1>7, FileAppears
<1>9. ProcessOK(u, u)'
  <2>1. ProcessOK(u, u)
    BY DEF HistoryInv
  <2>2. StackOK(u)' /\ LoadOK(u)' /\ NotBack(u, u)'
    BY <2>1, <1>1, <1>8, StackStays, LoadStays, NotBackStays DEF ProcessOK
  <2> QED BY <2>2 DEF ProcessOK
<1>10. UpToDateOK(u)' /\ CompactionOK(u)'
  BY <1>1 DEF HistoryInv, MutatorOK, UpToDateOK, CompactionOK, Merging, Replacing, Replaced, Reloading
<1>11. AdditionOK(u)'
  <2>1. AdditionOK(u)
    BY DEF HistoryInv, MutatorOK
  <2>2. Distinct(NamesOf(newt'[u]))
    <3>1. n \notin ReaderNames(newt[u])
      BY <1>4, NamesInUse
    <3> QED BY <2>1, <3>1, <1>5, <1>6, NameAppended DEF AdditionOK
  <2>3. ASSUME NEW i \in 1..Len(newt'[u])
        PROVE  /\ newt'[u][i].name \in DOMAIN dir' /\ newt'[u][i].recs = dir'[newt'[u][i].name]
               /\ newt'[u][i].recs \in Batches
    <3>1. CASE i \in 1..Len(newt[u])
      <4>1. /\ newt[u][i].name \in DOMAIN dir /\ newt[u][i].recs = dir[newt[u][i].name]
            /\ newt[u][i].recs \in Batches
        BY <3>1, <2>1 DEF AdditionOK
      <4>2. newt'[u][i] = newt[u][i]
        BY <3>1, <1>6
      <4> QED BY <4>1, <4>2, <1>8
    <3>2. CASE i = Len(newt[u]) + 1
      BY <3>2, <1>5, <1>6, <1>8
    <3> QED BY <3>1, <3>2, <1>6
  <2>4. Len(newt'[u]) <= MaxTables
    BY <1>1, <1>6, BoundsAssumption
  <2> QED BY <2>2, <2>3, <2>4, <1>1 DEF AdditionOK
<1> QED BY <1>8, <1>9, <1>10, <1>11 DEF StepOK, MutatorOK

\* Additions that end without a commit keep their tables until they are closed.
LEMMA AdditionEnds ==
  ASSUME TypeOK, NEW u \in Proc, HistoryInv(u), OthersUnchanged(u),
         pc[u] \in {"adding", "rename"}, pc'[u] = "adclose",
         UNCHANGED <<dir, list, hist, st, ver, newt, job, health, opened, names>>
  PROVE  StepOK(u, u)
<1>1. UpToDateOK(u)' /\ CompactionOK(u)'
  BY DEF HistoryInv, MutatorOK, UpToDateOK, CompactionOK, Merging, Replacing, Replaced, Reloading
<1>2. AdditionOK(u)'
  BY DEF HistoryInv, MutatorOK, AdditionOK
<1>3. ~Replacing(u)'
  BY DEF Replacing
<1> QED BY <1>1, <1>2, <1>3, ControlMoves DEF MutatorOK

\* The callback fails, or nothing is committed, or a system call fails.
LEMMA NotCommitted ==
  ASSUME TypeOK, ControlOK, NEW u \in Proc, OnlyMutator(u), HistoryInv(u),
         Abandon(u) \/ CommitNothing(u) \/ CommitRenameFails(u)
  PROVE  StepOK(u, u)
<1>1. OthersUnchanged(u)
  BY OthersKeep DEF CallStep, AdditionStep
<1>2. /\ pc[u] \in {"adding", "rename"} /\ pc'[u] = "adclose"
      /\ UNCHANGED <<dir, list, hist, st, ver, newt, job, health, opened, names>>
  BY DEF Abandon, CommitNothing, CommitRenameFails, Goto, shared, loading, history, TypeOK, CallsOK
<1> QED BY <1>1, <1>2, AdditionEnds

\* The lock file gets the list that the addition leads to.
LEMMA CommitWriteHistory ==
  ASSUME TypeOK, ControlOK, NEW u \in Proc, OnlyMutator(u), HistoryInv(u), CommitWrite(u)
  PROVE  StepOK(u, u)
<1>1. /\ pc[u] = "adding" /\ newt[u] # <<>>
      /\ UNCHANGED <<dir, hist, st, ver, newt, job, health, opened, names>>
  BY DEF CommitWrite, loading, history
<1>2. OthersUnchanged(u)
  BY OthersKeep DEF CallStep, AdditionStep
<1>3. CASE WriteLock(u, NamesOf(st[u]) \o NamesOf(newt[u])) /\ Goto(u, "rename")
  <2>1. /\ pc'[u] = "rename" /\ list' = list /\ lockFile' = NamesOf(st[u]) \o NamesOf(newt[u])
    BY <1>1, <1>3 DEF WriteLock, Goto, TypeOK, CallsOK, HistoryInv, MutatorOK, UpToDateOK
  <2>2. UpToDateOK(u)' /\ CompactionOK(u)'
    BY <2>1, <1>1
       DEF HistoryInv, MutatorOK, UpToDateOK, CompactionOK, Merging, Replacing, Replaced, Reloading
  <2>3. AdditionOK(u)'
    BY <2>1, <1>1 DEF HistoryInv, MutatorOK, AdditionOK
  <2>4. ~Replacing(u)'
    BY <2>1 DEF Replacing
  <2> QED BY <2>1, <2>2, <2>3, <2>4, <1>1, <1>2, ControlMoves DEF MutatorOK
<1>4. CASE Goto(u, "adclose") /\ UNCHANGED <<lockFile, list, fdAt>>
  <2>1. pc'[u] = "adclose"
    BY <1>4 DEF Goto, TypeOK, CallsOK
  <2> QED BY <2>1, <1>1, <1>2, <1>4, AdditionEnds
<1> QED BY <1>3, <1>4 DEF CommitWrite

\* Closing an addition unlinks its tables, which are not listed.
LEMMA AdditionCloseHistory ==
  ASSUME TypeOK, ControlOK, NEW u \in Proc, OnlyMutator(u), HistoryInv(u), AdditionClose(u)
  PROVE  StepOK(u, u)
<1>1. /\ pc[u] = "adclose" /\ dir' = Without(ReaderNames(newt[u])) /\ newt'[u] = <<>>
      /\ UNCHANGED <<list, hist, st, ver, job, health, opened, names>>
  BY DEF AdditionClose, Discarded, loading, history, TypeOK, CallsOK
<1>2. \/ pc'[u] \in {"idle", "auto"}
      \/ pc'[u] = "uptodate" /\ ret'[u] # "delete"
  <2>1. ret[u] \in {"none", "plain", "scan", "auto"}
    BY <1>1 DEF ControlOK, ReturnOK
  <2>2. pc'[u] = AfterClose[ret[u]] /\ ret'[u] = IF ret[u] = "auto" THEN "none" ELSE ret[u]
    BY DEF AdditionClose, Goto, TypeOK, CallsOK
  <2> QED BY <2>1, <2>2, ReturnLabels
<1>3. Pending(u)' = {}
  BY <1>1, <1>2, NothingOpen DEF Pending, Replacing
<1>4. Kept(u) /\ FilesGood(u)'
  <2>1. ReaderNames(newt[u]) \cap NameSet(list) = {}
    BY DEF Pending, HistoryInv, FilesGood
  <2> QED BY <2>1, <1>1, <1>3, FilesGo DEF HistoryInv
<1>5. ProcessOK(u, u)'
  BY <1>1, <1>2, <1>4, ProcessMoves DEF HistoryInv
<1>6. MutatorOK(u)'
  BY <1>1, <1>2, MutatorRests DEF HistoryInv, MutatorOK, UpToDateOK
<1> QED BY <1>4, <1>5, <1>6 DEF StepOK

\* Clean unlinks what its stack has not, and its stack is the list.
LEMMA ScanHistory ==
  ASSUME TypeOK, ControlOK, NEW u \in Proc, OnlyMutator(u), HistoryInv(u), Scan(u)
  PROVE  StepOK(u, u)
<1> DEFINE files == {n \in DOMAIN dir : n \notin ReaderNames(st[u]) /\ n.max <= MaxUpdateIndex(st[u])}
<1>1. /\ pc[u] = "scan" /\ dir' = Without(files) /\ pc'[u] \in {"idle", "adclose"}
      /\ UNCHANGED <<list, hist, st, ver, newt, job, health, opened, names>>
  BY DEF Scan, Goto, loading, history, TypeOK, CallsOK
<1>2. files \cap NameSet(list) = {}
  <2>1. list = NamesOf(st[u])
    BY <1>1 DEF HistoryInv, MutatorOK, UpToDateOK
  <2>2. NameSet(list) = ReaderNames(st[u])
    BY <2>1, HeldTypes, SameNames
  <2> QED BY <2>2
<1> HIDE DEF files
<1>3. newt[u] = <<>>
  BY <1>1, NothingWritten
<1>4. Pending(u)' = {}
  BY <1>1, <1>3, NothingOpen DEF Pending, Replacing
<1>5. Kept(u) /\ FilesGood(u)'
  BY <1>1, <1>2, <1>4, FilesGo DEF HistoryInv
<1>6. ProcessOK(u, u)'
  BY <1>1, <1>5, ProcessMoves DEF HistoryInv
<1>7. MutatorOK(u)'
  BY <1>1, <1>3, MutatorRests DEF HistoryInv, MutatorOK, UpToDateOK
<1> QED BY <1>5, <1>6, <1>7 DEF StepOK

-----------------------------------------------------------------------------
(* Lists that are put together from others *)

\* The state after a commit has the states before it as its past.
LEMMA HistoryGrows ==
  ASSUME TypeOK, NEW db, hist' = Append(hist, db)
  PROVE  /\ Len(hist') = Len(hist) + 1 /\ Len(hist) <= Len(hist') /\ hist'[Len(hist')] = db
         /\ \A i \in 1..Len(hist) : hist'[i] = hist[i]
<1>1. hist \in Seq(Database \cup {db}) /\ Len(hist) \in Nat
  <2>1. hist \in Seq(Database)
    BY DEF TypeOK, HistoryOK
  <2> QED BY <2>1
<1>2. /\ Len(hist') = Len(hist) + 1 /\ \A i \in 1..Len(hist) : hist'[i] = hist[i]
      /\ hist'[Len(hist) + 1] = db
  BY <1>1, AppendProperties
<1> QED BY <1>1, <1>2

\* The commit: the tables that were pending are listed, on top of the stack of u,
\* and what u overlaid its tables on is what was committed last.
LEMMA CommitRenameHistory ==
  ASSUME TypeOK, ControlOK, NEW u \in Proc, OnlyMutator(u), HistoryInv(u), CommitRename(u)
  PROVE  StepOK(u, u)
<1>1. /\ pc[u] = "rename" /\ pc'[u] = "uptodate" /\ ret'[u] \in {"auto", "plain"}
      /\ newt'[u] = <<>> /\ list' = lockFile
      /\ hist' = Append(hist, Overlay(hist[Len(hist)], RecsOf(newt[u])))
      /\ UNCHANGED <<dir, st, ver, job, health, opened, names>>
  BY DEF CommitRename, RenameLock, Goto, loading, TypeOK, CallsOK
<1>2. FilesGood(u) /\ UpToDateOK(u) /\ AdditionOK(u) /\ ProcessOK(u, u)
  BY DEF HistoryInv, MutatorOK
<1> DEFINE new == NamesOf(newt[u])
<1>3. NamesOf(st[u]) = list /\ list' = list \o new
  BY <1>1, <1>2 DEF UpToDateOK, AdditionOK
<1>4. /\ newt[u] \in Seq(Reader) /\ new \in Seq(TableName) /\ list \in Seq(TableName)
      /\ NameSet(new) = ReaderNames(newt[u]) /\ Distinct(new) /\ Distinct(list)
  BY <1>2, HeldTypes, SameNames DEF AdditionOK, FilesGood
<1>5. \A i \in 1..Len(newt[u]) :
        newt[u][i].name \in DOMAIN dir /\ newt[u][i].recs = dir[newt[u][i].name]
  BY <1>2 DEF AdditionOK
<1>6. NameSet(list) \subseteq DOMAIN dir /\ NameSet(new) \subseteq DOMAIN dir
  BY <1>2, <1>4, <1>5 DEF FilesGood, Durable, ListIntact, ReaderNames
<1>7. NameSet(list) \cap NameSet(new) = {}
  BY <1>2, <1>4 DEF FilesGood, Pending
<1>8. Holding(new) = RecsOf(newt[u])
  BY <1>4, <1>5, HoldingRead DEF TypeOK
<1> HIDE DEF new
<1>9. NameSet(list') = NameSet(list) \cup NameSet(new) /\ Distinct(list')
  BY <1>3, <1>4, <1>7, ConcatNames
<1>10. Pending(u)' = {}
  BY <1>1, NothingOpen DEF Pending, Replacing
<1>11. Kept(u)
  <2>1. Coming(u)' \subseteq Coming(u)
    BY <1>4, <1>9, <1>10 DEF Coming, Pending
  <2>2. Len(hist) <= Len(hist') /\ \A i \in 1..Len(hist) : hist'[i] = hist[i]
    BY <1>1, HistoryGrows
  <2> QED BY <2>1, <2>2, <1>1, <1>10 DEF Kept
<1>12. Durable'
  <2>1. ListIntact'
    BY <1>1, <1>6, <1>9 DEF ListIntact
  <2>2. /\ Holding(list) \in Seq(Contents) /\ RecsOf(newt[u]) \in Seq(Contents)
        /\ Holding(list \o new) = Holding(list) \o RecsOf(newt[u])
    BY <1>4, <1>6, <1>8, HoldingConcat DEF TypeOK
  <2>3. Listed = Holding(list) /\ Listed' = Holding(list')
    BY <1>1 DEF Listed, Holding
  <2>4. Live(Merged(Listed)) = hist[Len(hist)]
    BY <1>2 DEF FilesGood, Durable
  <2>5. hist'[Len(hist')] = Overlay(hist[Len(hist)], RecsOf(newt[u]))
    BY <1>1, HistoryGrows
  <2>6. Overlay(Live(Merged(Holding(list))), RecsOf(newt[u])) = Live(Merged(Holding(list) \o RecsOf(newt[u])))
    BY <2>2, CommitShows
  <2> QED BY <2>1, <2>2, <2>3, <2>4, <2>5, <2>6, <1>3 DEF Durable
<1>13. FilesGood(u)'
  BY <1>9, <1>10, <1>12 DEF FilesGood
<1>14. ProcessOK(u, u)'
  BY <1>1, <1>2, <1>11, ProcessMoves
<1>15. MutatorOK(u)'
  BY <1>1, <1>2, MutatorRests DEF UpToDateOK
<1> QED BY <1>11, <1>13, <1>14, <1>15 DEF StepOK
-----------------------------------------------------------------------------
(* Compaction *)

\* A compaction that stops.
LEMMA CompactionStops ==
  ASSUME TypeOK, NEW u \in Proc, HistoryInv(u), OthersUnchanged(u),
         pc[u] \notin {"adding", "rename", "adclose"}, pc'[u] \in {"idle", "cpdone"},
         UNCHANGED <<dir, list, hist, st, ver, newt, health, opened, names>>
  PROVE  StepOK(u, u)
<1>1. MutatorOK(u)' /\ ~Replacing(u)'
  BY NothingWritten, MutatorRests DEF HistoryInv, MutatorOK, UpToDateOK, Replacing
<1> QED BY <1>1, ControlMoves

\* A compaction that goes on, its table not yet there.
LEMMA CompactionGoesOn ==
  ASSUME TypeOK, NEW u \in Proc, HistoryInv(u), OthersUnchanged(u),
         pc[u] \notin {"adding", "rename", "adclose"},
         pc'[u] \in {"cpcheck", "cpsub", "merge", "relock", "install"},
         UNCHANGED <<dir, list, hist, st, ver, newt, health, opened, names>>,
         RangeFits(u)', job'[u].new = NoName, pc'[u] # "cpcheck" => NamesOf(st[u]) = list,
         pc'[u] = "install" => fdAt'[u] = "lock"
  PROVE  StepOK(u, u)
<1>1. newt[u] = <<>> /\ health[u] = "ok"
  BY NothingWritten DEF HistoryInv, MutatorOK, UpToDateOK
<1>2. UpToDateOK(u)'
  BY <1>1 DEF UpToDateOK, Merging
<1>3. AdditionOK(u)'
  BY <1>1 DEF HistoryInv, MutatorOK, AdditionOK
<1>4. CompactionOK(u)'
  BY DEF CompactionOK, Merging, Replacing, Replaced, Reloading
<1>5. ~Replacing(u)'
  BY DEF Replacing
<1> QED BY <1>2, <1>3, <1>4, <1>5, ControlMoves DEF MutatorOK

\* The range is given, and the list is locked or is found locked.
LEMMA LockForCompactionHistory ==
  ASSUME TypeOK, NEW u \in Proc, HistoryInv(u), OthersUnchanged(u), pc[u] \in {"auto", "idle"},
         NEW first \in 1..Len(st[u]), NEW last \in first..Len(st[u]),
         first < last \/ (first = 1 /\ last = Len(st[u])),
         LockForCompaction(u, first, last),
         UNCHANGED <<dir, list, hist, st, ver, newt, health, opened, names>>
  PROVE  StepOK(u, u)
<1>1. CASE Goto(u, "idle")
  <2>1. pc'[u] = "idle"
    BY <1>1 DEF Goto, TypeOK, CallsOK
  <2> QED BY <2>1, CompactionStops
<1>2. CASE ~Goto(u, "idle")
  <2> DEFINE j == [first |-> first, last |-> last, next |-> first, old |-> {}, new |-> NoName,
                   held |-> TRUE]
  <2>1. pc'[u] = "cpcheck" /\ job'[u] = j
    BY <1>2 DEF LockForCompaction, Goto, TypeOK, CallsOK
  <2>2. j.first = first /\ j.last = last /\ j.old = {} /\ j.new = NoName
    OBVIOUS
  <2> HIDE DEF j
  <2>3. RangeFits(u)'
    BY <2>1, <2>2 DEF RangeFits
  <2> QED BY <2>1, <2>2, <2>3, CompactionGoesOn
<1> QED BY <1>1, <1>2

\* After an addition, or for all tables.
LEMMA CompactHistory ==
  ASSUME TypeOK, ControlOK, NEW u \in Proc, OnlyMutator(u), HistoryInv(u),
         AutoCompact(u) \/ CompactAll(u)
  PROVE  StepOK(u, u)
<1>1. OthersUnchanged(u)
  BY OthersKeep DEF CallStep, CompactionStep, StartCall
<1>2. /\ pc[u] \in {"auto", "idle"}
      /\ UNCHANGED <<dir, list, hist, st, ver, newt, health, opened, names>>
  BY DEF AutoCompact, CompactAll, loading, history
<1>3. CASE AutoCompact(u)
  <2>1. CASE Goto(u, "idle")
    <3>1. pc'[u] = "idle"
      BY <2>1 DEF Goto, TypeOK, CallsOK
    <3> QED BY <3>1, <1>1, <1>2, CompactionStops
  <2>2. CASE ~Goto(u, "idle")
    <3>1. PICK first \in 1..Len(st[u]) : \E last \in 1..Len(st[u]) :
            first < last /\ LockForCompaction(u, first, last)
      BY <1>3, <2>2 DEF AutoCompact
    <3>2. PICK last \in 1..Len(st[u]) : first < last /\ LockForCompaction(u, first, last)
      BY <3>1
    <3>3. last \in first..Len(st[u])
      BY <3>2
    <3> QED BY <3>2, <3>3, <1>1, <1>2, LockForCompactionHistory
  <2> QED BY <2>1, <2>2
<1>4. CASE CompactAll(u)
  <2>1. LockForCompaction(u, 1, Len(st[u])) /\ Len(st[u]) > 0 /\ Len(st[u]) \in Nat
    BY <1>4, HeldTypes DEF CompactAll
  <2>2. 1 \in 1..Len(st[u]) /\ Len(st[u]) \in 1..Len(st[u])
    BY <2>1
  <2> QED BY <2>1, <2>2, <1>1, <1>2, LockForCompactionHistory
<1> QED BY <1>3, <1>4

\* The stack is compared with the list.
LEMMA CompactionCheckHistory ==
  ASSUME TypeOK, ControlOK, NEW u \in Proc, OnlyMutator(u), HistoryInv(u), CompactionCheck(u)
  PROVE  StepOK(u, u)
<1>1. /\ pc[u] = "cpcheck"
      /\ UNCHANGED <<dir, list, hist, st, ver, newt, job, health, opened, names>>
      /\ pc'[u] = IF UpToDate(u) THEN "cpsub" ELSE "cpdone"
  BY DEF CompactionCheck, Goto, shared, loading, history, TypeOK, CallsOK
<1>2. OthersUnchanged(u)
  BY OthersKeep DEF CallStep, CompactionStep
<1>3. CASE UpToDate(u)
  <2>1. RangeFits(u)' /\ job'[u].new = NoName
    BY <1>1 DEF HistoryInv, MutatorOK, CompactionOK, RangeFits
  <2> QED BY <2>1, <1>1, <1>2, <1>3, CompactionGoesOn DEF UpToDate
<1>4. CASE ~UpToDate(u)
  BY <1>1, <1>2, <1>4, CompactionStops
<1> QED BY <1>3, <1>4

\* The tables of the range are locked, and noted for removal.
LEMMA LockTableHistory ==
  ASSUME TypeOK, ControlOK, NEW u \in Proc, OnlyMutator(u), HistoryInv(u), LockTable(u)
  PROVE  StepOK(u, u)
<1> DEFINE n == st[u][job[u].next].name
<1>1. /\ pc[u] = "cpsub" /\ pc'[u] \in {"cpsub", "cpdone"} /\ job[u].next <= job[u].last
      /\ job' = [job EXCEPT ![u].old = @ \cup {n}, ![u].next = @ + 1]
      /\ UNCHANGED <<dir, list, hist, st, ver, newt, health, opened, names>>
  BY DEF LockTable, Goto, loading, history, TypeOK, CallsOK
<1>2. OthersUnchanged(u)
  BY OthersKeep DEF CallStep, CompactionStep
<1>3. /\ job'[u].first = job[u].first /\ job'[u].last = job[u].last /\ job'[u].new = job[u].new
      /\ job'[u].old = job[u].old \cup {n}
  BY <1>1, JobFields DEF TypeOK, CallsOK, Jobs
<1>4. job[u].next \in job[u].first..job[u].last
  BY <1>1, JobFields DEF ControlOK, RangeOK, Compacting
<1>5. RangeFits(u) /\ job[u].new = NoName /\ NamesOf(st[u]) = list
  BY <1>1 DEF HistoryInv, MutatorOK, CompactionOK, UpToDateOK, Merging
<1>6. RangeFits(u)'
  BY <1>1, <1>3, <1>4, <1>5 DEF RangeFits
<1>7. CASE pc'[u] = "cpsub"
  BY <1>7, <1>1, <1>2, <1>3, <1>5, <1>6, CompactionGoesOn
<1>8. CASE pc'[u] = "cpdone"
  BY <1>8, <1>1, <1>2, CompactionStops
<1> QED BY <1>1, <1>7, <1>8

\* The list is unlocked, the tables are merged, and the list is locked again.
LEMMA MergeHistory ==
  ASSUME TypeOK, ControlOK, NEW u \in Proc, OnlyMutator(u), HistoryInv(u),
         UnlockForMerge(u) \/ Merge(u) \/ Relock(u)
  PROVE  StepOK(u, u)
<1>1. /\ pc[u] \in {"cpsub", "merge", "relock"}
      /\ pc'[u] \in {"merge", "relock", "install", "cpdone"}
      /\ pc'[u] = "install" => fdAt'[u] = "lock"
      /\ UNCHANGED <<dir, list, hist, st, ver, newt, health, opened, names>>
      /\ \/ job' = job
         \/ job' = [job EXCEPT ![u].held = FALSE]
         \/ job' = [job EXCEPT ![u].held = TRUE]
  BY DEF UnlockForMerge, Merge, Relock, Goto, shared, loading, history, TypeOK, CallsOK
<1>2. OthersUnchanged(u)
  BY OthersKeep DEF CallStep, CompactionStep
<1>3. /\ job'[u].first = job[u].first /\ job'[u].last = job[u].last /\ job'[u].new = job[u].new
      /\ job'[u].old = job[u].old
  BY <1>1, JobFields DEF TypeOK, CallsOK, Jobs
<1>4. RangeFits(u) /\ job[u].new = NoName /\ NamesOf(st[u]) = list
  BY <1>1 DEF HistoryInv, MutatorOK, CompactionOK, UpToDateOK, Merging
<1>5. RangeFits(u)'
  BY <1>1, <1>3, <1>4 DEF RangeFits
<1>6. CASE pc'[u] \in {"merge", "relock", "install"}
  BY <1>6, <1>1, <1>2, <1>3, <1>4, <1>5, CompactionGoesOn
<1>7. CASE pc'[u] = "cpdone"
  BY <1>7, <1>1, <1>2, CompactionStops
<1> QED BY <1>1, <1>6, <1>7

\* A compaction that has its table, and may list it.
LEMMA MutatorReplaces ==
  ASSUME NEW u \in Proc, HistoryInv(u), pc[u] \in {"install", "cpwrite"},
         pc'[u] \in {"cpwrite", "cprename"},
         UNCHANGED <<list, hist, st, ver, newt, health>>,
         job'[u].first = job[u].first, job'[u].last = job[u].last, job'[u].old = job[u].old,
         ReplacementFits(u)', pc'[u] = "cpwrite" => fdAt'[u] = "lock",
         pc'[u] = "cprename" =>
            lockFile' = Spliced(NamesOf(st[u]), job'[u].first, job'[u].last, Replacement(u)')
  PROVE  MutatorOK(u)'
<1>1. RangeFits(u) /\ NamesOf(st[u]) = list /\ newt[u] = <<>> /\ health[u] = "ok"
  BY NothingWritten DEF HistoryInv, MutatorOK, CompactionOK, UpToDateOK, Merging
<1>2. RangeFits(u)'
  BY <1>1 DEF RangeFits
<1>3. UpToDateOK(u)'
  BY <1>1 DEF UpToDateOK, Merging
<1>4. AdditionOK(u)'
  BY <1>1 DEF HistoryInv, MutatorOK, AdditionOK
<1>5. CompactionOK(u)'
  BY <1>2 DEF CompactionOK, Merging, Replacing, Replaced, Reloading
<1> QED BY <1>3, <1>4, <1>5 DEF MutatorOK

\* The merged table gets its name, which becomes pending.
LEMMA InstallHistory ==
  ASSUME TypeOK, ControlOK, NEW u \in Proc, OnlyMutator(u), HistoryInv(u), Install(u)
  PROVE  StepOK(u, u)
<1> DEFINE first == job[u].first
           last == job[u].last
           recs == CompactedRecs(st[u], first, last)
<1>1. /\ pc[u] = "install"
      /\ UNCHANGED <<list, hist, st, ver, newt, health, opened, names, fdAt>>
  BY DEF Install, loading, history
<1>2. OthersUnchanged(u)
  BY OthersKeep DEF CallStep, CompactionStep
<1>3. /\ RangeFits(u) /\ job[u].new = NoName /\ fdAt[u] = "lock" /\ newt[u] = <<>>
      /\ FilesGood(u) /\ ProcessOK(u, u)
  BY <1>1, NothingWritten DEF HistoryInv, MutatorOK, CompactionOK, UpToDateOK, Merging
<1>4. \/ recs = NoRecs /\ Goto(u, "cpwrite") /\ UNCHANGED <<dir, job>>
      \/ /\ Goto(u, "cpwrite")
         /\ \E n \in NewNames(st[u][first].name.min, st[u][last].name.max) :
              dir' = With(n, recs) /\ job' = [job EXCEPT ![u].new = n]
      \/ Goto(u, "cpdone") /\ UNCHANGED <<dir, job>>
  BY DEF Install
<1> HIDE DEF recs
<1>5. CASE recs = NoRecs /\ Goto(u, "cpwrite") /\ UNCHANGED <<dir, job>>
  <2>1. pc'[u] = "cpwrite"
    BY <1>5 DEF Goto, TypeOK, CallsOK
  <2>2. Pending(u)' \subseteq Pending(u)
    BY <2>1, <1>1, <1>3, <1>5, NothingOpen DEF Pending
  <2>3. Kept(u) /\ FilesGood(u)'
    BY <2>2, <1>1, <1>3, <1>5, NoFileChanges
  <2>4. ProcessOK(u, u)'
    BY <2>1, <2>3, <1>1, <1>3, ProcessMoves
  <2>5. ReplacementFits(u)'
    BY <1>1, <1>3, <1>5 DEF ReplacementFits, recs
  <2>6. MutatorOK(u)'
    BY <2>1, <2>5, <1>1, <1>3, <1>5, MutatorReplaces
  <2> QED BY <2>3, <2>4, <2>6 DEF StepOK
<1>6. ASSUME Goto(u, "cpwrite"), NEW n \in NewNames(st[u][first].name.min, st[u][last].name.max),
             dir' = With(n, recs), job' = [job EXCEPT ![u].new = n]
      PROVE  StepOK(u, u)
  <2>1. pc'[u] = "cpwrite"
    BY <1>6 DEF Goto, TypeOK, CallsOK
  <2>2. n \in TableName /\ n # NoName /\ n \notin HeldNames
    <3>1. first \in 1..Len(st[u]) /\ last \in 1..Len(st[u])
      BY <1>3, HeldTypes DEF RangeFits
    <3>2. st[u][first].name.min \in Nat /\ st[u][last].name.max \in Nat
      BY <3>1, ReaderFields
    <3> QED BY <3>2, <1>6, FreshName DEF OnlyMutator
  <2>3. /\ job'[u].new = n /\ job'[u].first = job[u].first /\ job'[u].last = job[u].last
        /\ job'[u].old = job[u].old
    BY <1>6 DEF TypeOK, CallsOK, Jobs
  <2>4. Pending(u)' \subseteq Pending(u) \cup {n}
    BY <2>3, <1>1 DEF Pending
  <2>5. /\ Kept(u) /\ FilesGood(u)' /\ DOMAIN dir' = DOMAIN dir \cup {n} /\ dir'[n] = recs
    BY <2>2, <2>4, <1>1, <1>6, FileAppears
  <2>6. ProcessOK(u, u)'
    BY <2>1, <2>5, <1>1, <1>3, ProcessMoves
  <2>7. ReplacementFits(u)'
    BY <2>2, <2>3, <2>5, <1>1 DEF ReplacementFits, recs
  <2>8. MutatorOK(u)'
    BY <2>1, <2>3, <2>7, <1>1, <1>3, MutatorReplaces
  <2> QED BY <2>5, <2>6, <2>8 DEF StepOK
<1>7. CASE Goto(u, "cpdone") /\ UNCHANGED <<dir, job>>
  <2>1. pc'[u] = "cpdone"
    BY <1>7 DEF Goto, TypeOK, CallsOK
  <2> QED BY <2>1, <1>1, <1>2, <1>7, CompactionStops
<1> QED BY <1>4, <1>5, <1>6, <1>7

\* If the new list cannot be written or renamed, the merged table is unlinked.
LEMMA MergedTableGoes ==
  ASSUME TypeOK, NEW u \in Proc, HistoryInv(u), pc[u] \in {"cpwrite", "cprename"},
         dir' = Without({job[u].new}), pc'[u] = "cpdone",
         UNCHANGED <<list, hist, st, ver, newt, job, health, opened, names>>
  PROVE  StepOK(u, u)
<1>1. {job[u].new} \cap NameSet(list) = {}
  <2>1. CASE job[u].new = NoName
    <3>1. NameSet(list) \subseteq TableName
      BY HeldTypes, ElementOfSeq DEF NameSet
    <3> QED BY <2>1, <3>1, NoneAssumption
  <2>2. CASE job[u].new # NoName
    <3>1. job[u].new \in Pending(u)
      BY <2>2 DEF Pending, Replacing
    <3> QED BY <3>1 DEF HistoryInv, FilesGood
  <2> QED BY <2>1, <2>2
<1>2. Pending(u)' \subseteq Pending(u)
  BY DEF Pending, Replacing
<1>3. Kept(u) /\ FilesGood(u)'
  BY <1>1, <1>2, FilesGo DEF HistoryInv
<1>4. ProcessOK(u, u)'
  BY <1>3, ProcessMoves DEF HistoryInv
<1>5. MutatorOK(u)'
  BY NothingWritten, MutatorRests DEF HistoryInv, MutatorOK, UpToDateOK
<1> QED BY <1>3, <1>4, <1>5 DEF StepOK

\* The lock file gets the list in which the merged table replaces the range.
LEMMA CompactionWriteHistory ==
  ASSUME TypeOK, ControlOK, NEW u \in Proc, OnlyMutator(u), HistoryInv(u), CompactionWrite(u)
  PROVE  StepOK(u, u)
<1>1. /\ pc[u] = "cpwrite"
      /\ UNCHANGED <<hist, st, ver, newt, job, health, opened, names>>
  BY DEF CompactionWrite, loading, history
<1>2. OthersUnchanged(u)
  BY OthersKeep DEF CallStep, CompactionStep
<1>3. CASE /\ WriteLock(u, Spliced(NamesOf(st[u]), job[u].first, job[u].last, Replacement(u)))
           /\ Goto(u, "cprename") /\ UNCHANGED dir
  <2>1. /\ pc'[u] = "cprename" /\ list' = list
        /\ lockFile' = Spliced(NamesOf(st[u]), job[u].first, job[u].last, Replacement(u))
    BY <1>1, <1>3 DEF WriteLock, Goto, TypeOK, CallsOK, HistoryInv, MutatorOK, UpToDateOK
  <2>2. ReplacementFits(u)' /\ Replacement(u)' = Replacement(u)
    BY <1>1, <1>3 DEF HistoryInv, MutatorOK, CompactionOK, Replacing, ReplacementFits, Replacement
  <2>3. MutatorOK(u)'
    BY <2>1, <2>2, <1>1, MutatorReplaces
  <2>4. Replacing(u)
    BY <1>1 DEF Replacing
  <2> QED BY <2>1, <2>3, <2>4, <1>1, <1>2, <1>3, ControlMoves
<1>4. CASE /\ dir' = Without({job[u].new}) /\ Goto(u, "cpdone") /\ UNCHANGED <<lockFile, list, fdAt>>
  <2>1. pc'[u] = "cpdone"
    BY <1>4 DEF Goto, TypeOK, CallsOK
  <2> QED BY <2>1, <1>1, <1>4, MergedTableGoes
<1> QED BY <1>3, <1>4 DEF CompactionWrite

\* The rename fails.
LEMMA CompactionRenameFailsHistory ==
  ASSUME TypeOK, ControlOK, NEW u \in Proc, OnlyMutator(u), HistoryInv(u), CompactionRenameFails(u)
  PROVE  StepOK(u, u)
<1>1. /\ pc[u] = "cprename" /\ dir' = Without({job[u].new}) /\ pc'[u] = "cpdone"
      /\ UNCHANGED <<list, hist, st, ver, newt, job, health, opened, names>>
  BY DEF CompactionRenameFails, Goto, loading, history, TypeOK, CallsOK
<1> QED BY <1>1, MergedTableGoes

\* The compacted tables are unlinked once they are not listed any more.
LEMMA DeleteCompactedHistory ==
  ASSUME TypeOK, ControlOK, NEW u \in Proc, OnlyMutator(u), HistoryInv(u), DeleteCompacted(u)
  PROVE  StepOK(u, u)
<1>1. /\ pc[u] = "delete" /\ dir' = Without(job[u].old \ {job[u].new}) /\ pc'[u] = "cpdone"
      /\ UNCHANGED <<list, hist, st, ver, newt, job, health, opened, names>>
  BY DEF DeleteCompacted, Goto, loading, history, TypeOK, CallsOK
<1>2. (job[u].old \ {job[u].new}) \cap NameSet(list) = {}
  BY <1>1 DEF HistoryInv, MutatorOK, CompactionOK, Replaced
<1>3. Pending(u)' \subseteq Pending(u)
  BY <1>1 DEF Pending, Replacing
<1>4. Kept(u) /\ FilesGood(u)'
  BY <1>1, <1>2, <1>3, FilesGo DEF HistoryInv
<1>5. ProcessOK(u, u)'
  BY <1>1, <1>4, ProcessMoves DEF HistoryInv
<1>6. MutatorOK(u)'
  BY <1>1, NothingWritten, MutatorRests DEF HistoryInv, MutatorOK, UpToDateOK
<1> QED BY <1>4, <1>5, <1>6 DEF StepOK

\* The locks are released.
LEMMA CompactionDoneHistory ==
  ASSUME TypeOK, ControlOK, NEW u \in Proc, OnlyMutator(u), HistoryInv(u), CompactionDone(u)
  PROVE  StepOK(u, u)
<1>1. /\ pc[u] = "cpdone" /\ pc'[u] = "idle"
      /\ UNCHANGED <<dir, list, hist, st, ver, newt, health, opened, names>>
  BY DEF CompactionDone, Goto, loading, history, TypeOK, CallsOK
<1>2. OthersUnchanged(u)
  BY OthersKeep DEF CallStep, CompactionStep
<1> QED BY <1>1, <1>2, CompactionStops

-----------------------------------------------------------------------------
(* The new list of a compaction *)

\* The merged table replaces the range in the list: the list says the same, and
\* the tables of the range are not in it any more.
LEMMA CompactionRenameHistory ==
  ASSUME TypeOK, ControlOK, NEW u \in Proc, OnlyMutator(u), HistoryInv(u), CompactionRename(u)
  PROVE  StepOK(u, u)
<1> DEFINE first == job[u].first
           last == job[u].last
           new == Replacement(u)
           range == {list[i] : i \in first..last}
<1>1. /\ pc[u] = "cprename" /\ pc'[u] = "read" /\ ret'[u] = "delete" /\ tries'[u] = 0
      /\ reuse'[u] = (first < last) /\ list' = lockFile
      /\ UNCHANGED <<dir, hist, st, ver, newt, health, opened, names>>
      /\ job' = [job EXCEPT ![u].held = FALSE]
  <2>1. pc[u] = "cprename" /\ list' = lockFile /\ UNCHANGED <<dir, hist, st, ver, newt, health>>
    BY DEF CompactionRename, RenameLock, history
  <2>2. job' = [job EXCEPT ![u].held = FALSE]
    BY DEF CompactionRename
  <2>3. pc'[u] = "read" /\ ret'[u] = "delete"
    BY DEF CompactionRename, Goto, TypeOK, CallsOK
  <2>4. UNCHANGED <<opened, names>> /\ tries'[u] = 0 /\ reuse'[u] = (first < last)
    BY DEF CompactionRename, StartReload, TypeOK, StacksOK
  <2> QED BY <2>1, <2>2, <2>3, <2>4
<1>2. job'[u].old = job[u].old /\ job'[u].new = job[u].new
  BY <1>1 DEF TypeOK, CallsOK, Jobs
<1>3. /\ FilesGood(u) /\ ProcessOK(u, u) /\ RangeFits(u) /\ ReplacementFits(u) /\ NamesOf(st[u]) = list
      /\ lockFile = Spliced(list, first, last, new) /\ newt[u] = <<>>
  BY <1>1, NothingWritten
     DEF HistoryInv, MutatorOK, CompactionOK, UpToDateOK, Merging, Replacing
<1>4. /\ st[u] \in Seq(Reader) /\ list \in Seq(TableName) /\ Len(list) = Len(st[u])
      /\ ReaderNames(st[u]) = NameSet(list) /\ \A i \in 1..Len(st[u]) : list[i] = st[u][i].name
  BY <1>3, HeldTypes, SameNames, NamesOfType
<1>5. /\ first \in 1..Len(st[u]) /\ last \in first..Len(st[u]) /\ job[u].old \subseteq range
      /\ first < last \/ (first = 1 /\ last = Len(st[u]))
  BY <1>3, <1>4 DEF RangeFits
<1>6. \A i \in 1..Len(st[u]) :
        st[u][i].name \in DOMAIN dir /\ st[u][i].recs = dir[st[u][i].name]
  BY <1>3, UpToDateShows DEF ProcessOK
<1>7. View(st[u]) = hist[Len(hist)]
  BY <1>3, UpToDateShows DEF ProcessOK
<1>8. /\ new \in Seq(TableName) /\ Distinct(new) /\ NameSet(new) \subseteq DOMAIN dir
      /\ NameSet(new) \subseteq Pending(u)
      /\ \/ new = <<>> /\ CompactedRecs(st[u], first, last) = NoRecs
         \/ \E n \in TableName : new = <<n>> /\ dir[n] = CompactedRecs(st[u], first, last)
  <2>1. CASE job[u].new = NoName
    <3>1. new = <<>> /\ Len(<<>>) = 0 /\ NameSet(<<>>) = {}
      BY <2>1, NothingOpen DEF Replacement
    <3> QED BY <3>1, <2>1, <1>3 DEF Distinct, ReplacementFits
  <2>2. CASE job[u].new # NoName
    <3> DEFINE n == job[u].new
    <3>1. n \in TableName /\ new = <<n>> /\ n \in DOMAIN dir /\ dir[n] = CompactedRecs(st[u], first, last)
      BY <2>2, <1>3, JobFields DEF Replacement, ReplacementFits
    <3>2. n \in Pending(u)
      BY <1>1, <2>2 DEF Pending, Replacing
    <3> HIDE DEF n, new
    <3>3. Len(new) = 1 /\ new[1] = n /\ new \in Seq(TableName)
      BY <3>1
    <3>4. NameSet(new) = {n} /\ Distinct(new)
      BY <3>3 DEF NameSet, Distinct
    <3> QED BY <3>1, <3>2, <3>3, <3>4
  <2> QED BY <2>1, <2>2
<1>9. NameSet(new) \cap NameSet(list) = {} /\ Distinct(list) /\ NameSet(list) \subseteq DOMAIN dir
  BY <1>3, <1>8 DEF FilesGood, Durable, ListIntact
<1> HIDE DEF new
<1>10. /\ NameSet(list') \subseteq NameSet(list) \cup NameSet(new)
       /\ Distinct(list') /\ NameSet(list') \cap range = {}
  <2>1. first \in 1..Len(list) /\ last \in first..Len(list)
    BY <1>4, <1>5
  <2>2. list' = Spliced(list, first, last, new)
    BY <1>1, <1>3
  <2>3. range = {list[i] : i \in first..last}
    OBVIOUS
  <2> HIDE DEF first, last, range
  <2>4. list \in Seq(TableName) /\ new \in Seq(TableName)
    BY <1>4, <1>8
  <2>5. Distinct(list) /\ Distinct(new) /\ NameSet(new) \cap NameSet(list) = {}
    BY <1>8, <1>9
  <2>6. /\ NameSet(Spliced(list, first, last, new)) \subseteq NameSet(list) \cup NameSet(new)
        /\ Distinct(Spliced(list, first, last, new))
        /\ NameSet(Spliced(list, first, last, new)) \cap {list[i] : i \in first..last} = {}
    BY <2>1, <2>4, <2>5, SplicedNames
  <2> QED BY <2>2, <2>3, <2>6
<1>11. Live(Merged(Holding(list'))) = hist[Len(hist)]
  <2> DEFINE rs == st[u]
  <2>1. rs \in Seq(Reader) /\ NamesOf(rs) = list /\ new \in Seq(TableName)
    BY <1>3, <1>4, <1>8
  <2>2. Distinct(NamesOf(rs)) /\ Distinct(new) /\ NameSet(new) \cap NameSet(NamesOf(rs)) = {}
    BY <1>8, <1>9, <2>1
  <2>3. \A i \in 1..Len(rs) : rs[i].name \in DOMAIN dir /\ rs[i].recs = dir[rs[i].name]
    BY <1>6
  <2>4. first \in 1..Len(rs) /\ last \in first..Len(rs) /\ NameSet(new) \subseteq DOMAIN dir
    BY <1>5, <1>8
  <2>5. \/ new = <<>> /\ CompactedRecs(rs, first, last) = NoRecs
        \/ \E n \in TableName : new = <<n>> /\ dir[n] = CompactedRecs(rs, first, last)
    BY <1>8
  <2>6. View(rs) = hist[Len(hist)]
    BY <1>7
  <2> HIDE DEF first, last, rs
  <2>7. Live(Merged(Holding(Spliced(NamesOf(rs), first, last, new)))) = View(rs)
    BY <2>1, <2>2, <2>3, <2>4, <2>5, SplicedShows DEF TypeOK
  <2>8. list' = Spliced(list, first, last, new)
    BY <1>1, <1>3 DEF first, last
  <2> QED BY <2>1, <2>6, <2>7, <2>8
<1>12. Pending(u)' = {}
  BY <1>1, <1>3, NothingOpen DEF Pending, Replacing
<1>13. Coming(u)' = NameSet(list') /\ NameSet(list') \subseteq Coming(u)
  BY <1>8, <1>10, <1>12 DEF Coming
<1>14. Kept(u)
  BY <1>1, <1>12, <1>13, HeldTypes DEF Kept
<1>15. FilesGood(u)'
  <2>1. Listed' = Holding(list')
    BY <1>1 DEF Listed, Holding
  <2>2. ListIntact'
    BY <1>1, <1>8, <1>9, <1>10 DEF ListIntact
  <2> QED BY <2>1, <2>2, <1>1, <1>10, <1>11, <1>12 DEF FilesGood, Durable
<1>16. ProcessOK(u, u)'
  <2>1. StackOK(u)' /\ LoadOK(u)'
    BY <1>1, <1>3, <1>14, StackStays DEF ProcessOK, LoadOK
  <2>2. ~reuse'[u] => ReaderNames(st[u]) \cap NameSet(list') = {}
    <3>1. SUFFICES ASSUME ~reuse'[u] PROVE ReaderNames(st[u]) \subseteq range
      BY <1>10
    <3>2. first = 1 /\ last = Len(list)
      BY <3>1, <1>1, <1>4, <1>5
    <3> QED BY <3>2, <1>4 DEF NameSet
  <2>3. NotBack(u, u)'
    BY <2>2, <1>1, <1>12, <1>13 DEF NotBack
  <2> QED BY <2>1, <2>3 DEF ProcessOK
<1>17. MutatorOK(u)'
  <2>1. UpToDateOK(u)'
    BY <1>1 DEF HistoryInv, MutatorOK, UpToDateOK, Merging
  <2>2. AdditionOK(u)'
    BY <1>1, <1>3 DEF HistoryInv, MutatorOK, AdditionOK
  <2>3. job'[u].old \cap NameSet(list') = {}
    BY <1>2, <1>5, <1>10
  <2>4. CompactionOK(u)'
    BY <2>3, <1>1 DEF CompactionOK, Merging, Replacing
  <2> QED BY <2>1, <2>2, <2>4 DEF MutatorOK
<1> QED BY <1>14, <1>15, <1>16, <1>17 DEF StepOK

-----------------------------------------------------------------------------
(* The invariant *)

\* At first nothing is listed, and nobody has a stack.
LEMMA InitHistory == ASSUME NEW u \in Proc PROVE Init => HistoryInv(u)
<1> SUFFICES ASSUME Init PROVE HistoryInv(u)
  OBVIOUS
<1>1. /\ NamesOf(<<>>) = <<>> /\ Len(<<>>) = 0 /\ Distinct(<<>>) /\ 0 <= MaxTables
      /\ NameSet(<<>>) = {} /\ ReaderNames(<<>>) = {}
  BY NamesOfEmpty, NothingOpen, BoundsAssumption DEF Distinct
<1>2. Pending(u) = {}
  BY <1>1 DEF Init, Pending, Replacing
<1>3. Durable
  <2>1. Listed = <<>> /\ NameSet(list) = {}
    BY <1>1 DEF Init, EmptyDirectory, Listed
  <2>2. hist = <<NoRecs>> /\ Len(hist) = 1 /\ hist[1] = NoRecs
    BY DEF Init
  <2> QED BY <2>1, <2>2, MergedSingle DEF Durable, ListIntact
<1>4. FilesGood(u)
  BY <1>1, <1>2, <1>3 DEF Init, EmptyDirectory, FilesGood
<1>5. MutatorOK(u)
  <2>1. UpToDateOK(u) /\ CompactionOK(u)
    BY DEF Init, UpToDateOK, CompactionOK, Merging, Replacing, Replaced, Reloading
  <2>2. AdditionOK(u)
    BY <1>1 DEF Init, AdditionOK
  <2> QED BY <2>1, <2>2 DEF MutatorOK
<1>6. ASSUME NEW p \in Proc PROVE ProcessOK(u, p)
  <2>1. st[p] = <<>> /\ opened[p] = <<>> /\ names[p] = <<>> /\ ver[p] = 0 /\ pc[p] = "closed"
    BY DEF Init
  <2>2. StackOK(p)
    <3>1. 0 <= Len(hist)
      BY DEF Init
    <3> QED BY <3>1, <2>1, NothingOpen DEF StackOK
  <2>3. LoadOK(p) /\ NotBack(u, p)
    BY <2>1, <1>2 DEF LoadOK, NotBack
  <2> QED BY <2>2, <2>3 DEF ProcessOK
<1>7. \A q \in Proc : ReaderOK(q)
  BY DEF Init, ReaderOK
<1> QED BY <1>4, <1>5, <1>6, <1>7 DEF HistoryInv

\* Every step of every process leaves what it should.
LEMMA ActsHistory ==
  ASSUME TypeOK, ControlOK, NEW u \in Proc, OnlyMutator(u), HistoryInv(u), NEW p \in Proc,
         StartCall(p) \/ CallStep(p) \/ GiveUp(p) \/ Crash(p)
  PROVE  StepOK(u, p)
<1>1. CASE ReloadStep(p)
  BY <1>1, ReloadCheckHistory, ReadListHistory, ReuseReaderHistory, OpenTableHistory,
     TableMissingHistory, RecheckHistory, SwapHistory, UseAfterFreeHistory DEF ReloadStep
<1>2. CASE AdditionStep(p)
  <2>1. p = u
    BY <1>2, MutatorActs
  <2> QED BY <1>2, <2>1, CheckLockedHistory, AddTableHistory, NotCommitted, CommitWriteHistory,
          CommitRenameHistory, AdditionCloseHistory, ScanHistory DEF AdditionStep
<1>3. CASE CompactionStep(p)
  <2>1. p = u
    BY <1>3, MutatorActs
  <2> QED BY <1>3, <2>1, CompactHistory, CompactionCheckHistory, LockTableHistory, MergeHistory,
          InstallHistory, CompactionWriteHistory, CompactionRenameHistory, CompactionRenameFailsHistory,
          DeleteCompactedHistory, CompactionDoneHistory DEF CompactionStep
<1>4. CASE StartCall(p)
  <2>1. CASE Open(p) \/ Reload(p) \/ Destroy(p)
    BY <2>1, OpenHistory, ReloadHistory, DestroyHistory
  <2>2. CASE CompactAll(p) \/ \E c \in CallNames : LockList(p, c) \/ LockTaken(p, c)
    <3>1. p = u
      BY <2>2, MutatorActs
    <3> QED BY <3>1, <2>2, CompactHistory, LockListHistory
  <2> QED BY <1>4, <2>1, <2>2 DEF StartCall
<1> QED BY <1>1, <1>2, <1>3, <1>4, DestroyUnlinkHistory, GiveUpHistory, CrashHistory DEF CallStep

\* The invariant is inductive, and no step brings back what it must not.
LEMMA StepHistory ==
  ASSUME TypeOK, ControlOK, NEW u \in Proc, OnlyMutator(u), HistoryInv(u), [Next]_vars
  PROVE  HistoryInv(u)'
<1>1. CASE UNCHANGED vars
  <2>1. /\ UNCHANGED <<dir, list, lockFile, pc, st, health, names, opened, reuse, tries, readAt>>
        /\ UNCHANGED <<ret, fdAt, newt, job, hist, ver>>
    BY <1>1 DEF vars, shared, loading, history
  <2>2. /\ Pending(u)' = Pending(u) /\ Coming(u)' = Coming(u)
        /\ Merging(u)' = Merging(u) /\ Replacing(u)' = Replacing(u) /\ Replaced(u)' = Replaced(u)
    BY <2>1 DEF Pending, Coming, Merging, Replacing, Replaced
  <2>3. FilesGood(u)'
    <3>1. Listed' = Listed
      BY <2>1 DEF Listed
    <3> QED BY <3>1, <2>1, <2>2 DEF HistoryInv, FilesGood, Durable, ListIntact
  <2>4. MutatorOK(u)'
    <3>1. UpToDateOK(u)' /\ AdditionOK(u)'
      BY <2>1, <2>2 DEF HistoryInv, MutatorOK, UpToDateOK, AdditionOK
    <3>2. /\ RangeFits(u)' = RangeFits(u) /\ ReplacementFits(u)' = ReplacementFits(u)
          /\ Replacement(u)' = Replacement(u)
      BY <2>1 DEF RangeFits, ReplacementFits, Replacement
    <3>3. CompactionOK(u)'
      BY <2>1, <2>2, <3>2 DEF HistoryInv, MutatorOK, CompactionOK
    <3> QED BY <3>1, <3>3 DEF MutatorOK
  <2>5. ASSUME NEW p \in Proc PROVE ProcessOK(u, p)' /\ (ReaderOK(p) => ReaderOK(p)')
    <3>1. StackOK(p)' = StackOK(p)
      BY <2>1 DEF StackOK, Faithful
    <3>2. LoadOK(p)' = LoadOK(p)
      <4>1. \A i : MayRead(p, i)' = MayRead(p, i)
        BY <2>1 DEF MayRead
      <4>2. Readable(p)' = Readable(p)
        BY <2>1, <4>1 DEF Readable
      <4> QED BY <2>1, <4>2 DEF LoadOK
    <3>3. Dropped(p)' = Dropped(p)
      BY <2>1 DEF Dropped
    <3>4. NotBack(u, p)' = NotBack(u, p)
      BY <2>1, <2>2, <3>3 DEF NotBack
    <3>5. ReaderOK(p) => ReaderOK(p)'
      BY <2>1 DEF ReaderOK
    <3> QED BY <3>1, <3>2, <3>4, <3>5 DEF HistoryInv, ProcessOK
  <2> QED BY <2>3, <2>4, <2>5 DEF HistoryInv
<1>2. ASSUME NEW p \in Proc, StartCall(p) \/ CallStep(p) \/ GiveUp(p) \/ Crash(p)
      PROVE  HistoryInv(u)'
  <2>1. OthersUnchanged(p) /\ StepOK(u, p)
    BY <1>2, OthersKeep, ActsHistory
  <2>2. ASSUME NEW q \in Proc \ {p} PROVE ProcessOK(u, q)' /\ (ReaderOK(q) => ReaderOK(q)')
    BY <2>1, OthersStay DEF HistoryInv, StepOK
  <2> QED BY <2>1, <2>2 DEF HistoryInv, StepOK
<1> QED BY <1>1, <1>2 DEF Next

\* So it holds throughout, with what it rests on.
LEMMA HistoryCorrect ==
  ASSUME NEW u \in Proc, OnlyMutator(u) PROVE Spec => [](TypeOK /\ ControlOK /\ HistoryInv(u))
<1>1. TypeOK /\ ControlOK /\ HistoryInv(u) /\ [Next]_vars => HistoryInv(u)'
  BY StepHistory
<1> QED BY <1>1, InitTypes, InitHistory, StepTypes, PTL DEF Spec

\* What the list and its files say is what was committed, as long as one process
\* writes, compacts, expires and cleans: its transactions of several tables, its
\* compactions of any range and the reloads of all processes, which unlink files,
\* neither lose a commit nor revive a deleted ref, whoever dies meanwhile and
\* whichever system call fails.
THEOREM MutatorDurable ==
  ASSUME NEW u \in Proc, OnlyMutator(u) PROVE Spec => []Durable
<1>1. HistoryInv(u) => Durable
  BY DEF HistoryInv, FilesGood
<1> QED BY <1>1, HistoryCorrect, PTL

-----------------------------------------------------------------------------
(* The stacks implement RefDB: seen is ver, and view is what st shows.     *)

\* RefDB speaks of the same tables.
LEMMA SameTables ==
  DB!NoRecs = NoRecs /\ \A db, ts : DB!Overlay(db, ts) = Overlay(db, ts)
BY DEF DB!NoRecs, NoRecs, DB!Overlay, DB!Live, DB!Merged, Overlay, Live, Merged

\* Nothing is seen at first.
LEMMA InitImplements == Init => DB!Init
<1> SUFFICES ASSUME Init PROVE DB!Init
  OBVIOUS
<1>1. [p \in Proc |-> View(st[p])] = [p \in Proc |-> NoRecs]
  BY NothingOpen DEF Init
<1> QED BY <1>1, SameTables DEF Init, DB!Init

\* What the processes read when p alone gets a stack that shows db.
LEMMA ViewChanges ==
  ASSUME TypeOK, NEW p \in Proc, NEW rs, NEW db, st' = [st EXCEPT ![p] = rs], View(rs) = db
  PROVE  [q \in Proc |-> View(st[q])]' = [[q \in Proc |-> View(st[q])] EXCEPT ![p] = db]
<1>1. \A q \in Proc : st'[q] = IF q = p THEN rs ELSE st[q]
  BY DEF TypeOK, StacksOK
<1>2. \A q \in Proc : View(st'[q]) = IF q = p THEN db ELSE View(st[q])
  BY <1>1
<1> QED BY <1>2

\* Most steps are not seen.
LEMMA QuietOrNot ==
  ASSUME NEW p \in Proc, StartCall(p) \/ CallStep(p) \/ GiveUp(p) \/ Crash(p)
  PROVE  \/ Swap(p) \/ ReloadCheck(p) \/ CheckLocked(p) \/ CommitRename(p)
         \/ Forget(p, "closed") \/ Forget(p, "aborted")
         \/ UNCHANGED <<hist, ver, st>>
<1>1. CASE ReloadStep(p)
  BY <1>1 DEF ReloadStep, ReadList, ReuseReader, OpenTable, TableMissing, Recheck, UseAfterFree, history
<1>2. CASE AdditionStep(p)
  BY <1>2 DEF AdditionStep, AddTable, Abandon, CommitNothing, CommitWrite, CommitRenameFails,
     AdditionClose, Scan, history
<1>3. CASE CompactionStep(p)
  <2>1. CASE AutoCompact(p)
    BY <2>1 DEF AutoCompact, LockForCompaction, history
  <2>2. CASE \/ CompactionCheck(p) \/ LockTable(p) \/ UnlockForMerge(p) \/ Merge(p) \/ Relock(p)
             \/ Install(p)
    BY <2>2 DEF CompactionCheck, LockTable, UnlockForMerge, Merge, Relock, Install, history
  <2>3. CASE \/ CompactionWrite(p) \/ CompactionRename(p) \/ CompactionRenameFails(p)
             \/ DeleteCompacted(p) \/ CompactionDone(p)
    BY <2>3 DEF CompactionWrite, CompactionRename, CompactionRenameFails, DeleteCompacted,
       CompactionDone, history
  <2> QED BY <1>3, <2>1, <2>2, <2>3 DEF CompactionStep
<1>4. CASE StartCall(p)
  BY <1>4 DEF StartCall, Open, Reload, CompactAll, LockForCompaction, Destroy, LockList, LockTaken, history
<1>5. CASE DestroyUnlink(p) \/ GiveUp(p) \/ Crash(p)
  BY <1>5 DEF DestroyUnlink, GiveUp, Crash, history
<1> QED BY <1>1, <1>2, <1>3, <1>4, <1>5 DEF CallStep

\* A reload that succeeds is a Refresh to the version of the list it read.
LEMMA SwapRefreshes ==
  ASSUME TypeOK, NEW u \in Proc, HistoryInv(u), NEW p \in Proc, Swap(p)
  PROVE  DB!Refresh(p)
<1> DEFINE v == readAt[p]
<1>1. /\ pc[p] = "open" /\ Len(opened[p]) = Len(names[p]) /\ hist' = hist
      /\ st' = [st EXCEPT ![p] = opened[p]] /\ ver' = [ver EXCEPT ![p] = v]
  BY DEF Swap
<1>2. v \in 1..Len(hist) /\ ver[p] <= v /\ View(opened[p]) = hist[v]
  BY <1>1, LoadedStack
<1>3. v \in (IF ver[p] = 0 THEN 1 ELSE ver[p])..Len(hist)
  BY <1>2, HeldTypes
<1>4. [q \in Proc |-> View(st[q])]' = [[q \in Proc |-> View(st[q])] EXCEPT ![p] = hist[v]]
  BY <1>1, <1>2, ViewChanges
<1> HIDE DEF v
<1> QED BY <1>1, <1>3, <1>4 DEF DB!Refresh

\* So is finding, with the lock or without it, that the stack is the one on disk.
LEMMA CheckRefreshes ==
  ASSUME TypeOK, NEW u \in Proc, HistoryInv(u), NEW p \in Proc, ReloadCheck(p) \/ CheckLocked(p),
         ~UNCHANGED <<hist, ver, st>>
  PROVE  DB!Refresh(p)
<1>1. ver' = [ver EXCEPT ![p] = Len(hist)] /\ UpToDate(p) /\ hist' = hist /\ st' = st
  BY DEF ReloadCheck, CheckLocked
<1>2. View(st[p]) = hist[Len(hist)]
  BY <1>1, UpToDateShows DEF HistoryInv, ProcessOK, UpToDate
<1>3. Len(hist) \in (IF ver[p] = 0 THEN 1 ELSE ver[p])..Len(hist)
  BY HeldTypes DEF HistoryInv, ProcessOK, StackOK
<1>4. [q \in Proc |-> View(st[q])]' = [[q \in Proc |-> View(st[q])] EXCEPT ![p] = hist[Len(hist)]]
  BY <1>1, <1>2
<1> QED BY <1>1, <1>3, <1>4 DEF DB!Refresh

\* The rename of the lock file is the Commit, by the process that reads the
\* newest version.
LEMMA RenameCommits ==
  ASSUME TypeOK, NEW u \in Proc, OnlyMutator(u), HistoryInv(u), NEW p \in Proc, CommitRename(p)
  PROVE  DB!Commit(p)
<1> DEFINE ts == RecsOf(newt[p])
<1>1. /\ pc[p] = "rename" /\ UNCHANGED <<st, ver>>
      /\ hist' = Append(hist, Overlay(hist[Len(hist)], ts))
  BY DEF CommitRename
<1>2. p = u
  BY MutatorActs DEF AdditionStep
<1>3. /\ ver[p] = Len(hist) /\ newt[p] # <<>> /\ Len(newt[p]) <= MaxTables
      /\ \A i \in 1..Len(newt[p]) : newt[p][i].recs \in Batches
  BY <1>1, <1>2 DEF HistoryInv, MutatorOK, UpToDateOK, AdditionOK
<1>4. Len(newt[p]) \in 1..MaxTables
  <2>1. newt[p] \in Seq(Reader) /\ Len(newt[p]) \in Nat /\ Len(newt[p]) # 0
    BY <1>3, HeldTypes, EmptySeq
  <2> QED BY <2>1, <1>3, BoundsAssumption
<1>5. ts \in [1..Len(newt[p]) -> Batches]
  BY <1>3 DEF RecsOf
<1> HIDE DEF ts
<1>6. \E n \in 1..MaxTables : \E us \in [1..n -> Batches] :
        hist' = Append(hist, Overlay(hist[Len(hist)], us))
  BY <1>1, <1>4, <1>5
<1> QED BY <1>1, <1>3, <1>6, SameTables DEF DB!Commit, DB!Current

\* Destroying a stack, an abort and a crash are a Leave.
LEMMA ForgetLeaves ==
  ASSUME TypeOK, NEW p \in Proc, NEW label, Forget(p, label)
  PROVE  DB!Leave(p)
<1>1. st' = [st EXCEPT ![p] = <<>>] /\ ver' = [ver EXCEPT ![p] = 0] /\ hist' = hist
  BY DEF Forget
<1>2. [q \in Proc |-> View(st[q])]' = [[q \in Proc |-> View(st[q])] EXCEPT ![p] = NoRecs]
  BY <1>1, NothingOpen, ViewChanges
<1> QED BY <1>1, <1>2, SameTables DEF DB!Leave

\* Every step is a step of RefDB or changes nothing there.
LEMMA StepImplements ==
  ASSUME TypeOK, NEW u \in Proc, OnlyMutator(u), HistoryInv(u), [Next]_vars
  PROVE  [DB!Next]_(DB!dbVars)
<1>1. CASE UNCHANGED <<hist, ver, st>>
  BY <1>1 DEF DB!dbVars
<1>2. ASSUME NEW p \in Proc, StartCall(p) \/ CallStep(p) \/ GiveUp(p) \/ Crash(p),
             ~UNCHANGED <<hist, ver, st>>
      PROVE  DB!Next
  <2>1. DB!Commit(p) \/ DB!Refresh(p) \/ DB!Leave(p)
    BY <1>2, QuietOrNot, SwapRefreshes, CheckRefreshes, RenameCommits, ForgetLeaves
  <2> QED BY <2>1 DEF DB!Next
<1>3. CASE UNCHANGED vars
  BY <1>1, <1>3 DEF vars, history
<1> QED BY <1>1, <1>2, <1>3 DEF Next

\* The stacks of the C library are one database, as long as one process changes
\* it: every process reads, at every moment, exactly a state that was committed,
\* never an older one after a newer one, whatever mixture of reused readers and
\* files written since its reloads put together, and each transaction is
\* committed on top of the newest state.
THEOREM MutatorImplements ==
  ASSUME NEW u \in Proc, OnlyMutator(u) PROVE Spec => Implements
<1>1. TypeOK /\ HistoryInv(u) /\ [Next]_vars => [DB!Next]_(DB!dbVars)
  BY StepImplements
<1> QED BY <1>1, InitImplements, HistoryCorrect, PTL DEF Spec, Implements, DB!Spec


-----------------------------------------------------------------------------
(* What a call leaves behind.  As long as nobody has died, the lock on the *)
(* list and the locks on tables belong to the call that u is in, and the   *)
(* files outside the list to it or to the stack of u.                      *)

\* The call that u is in will unlink the lock on the list, or rename it.
Locked(u) == \/ pc[u] \in {"locked", "adding", "rename", "adclose"}
             \/ pc[u] \in {"uptodate", "read", "open", "scan"} /\ fdAt[u] = "lock"
             \/ job[u].held

\* A descriptor of the lock is open in an addition, in clean, whose reload returns
\* to the scan, or in a compaction that has the lock.
HandleOK(u) ==
  fdAt[u] = "lock" => \/ pc[u] \in {"locked", "adding", "adclose", "scan"}
                      \/ pc[u] \in {"uptodate", "read", "open"} /\ ret[u] = "scan"
                      \/ pc[u] \in {"install", "cpwrite", "cpdone"} /\ job[u].held

JobOK(u) == ~(pc[u] \in {"cpcheck", "cpdone"} \/ Merging(u) \/ Replaced(u)) => job[u] = NoJob

LocksTidy(u) ==
  crashes = 0 => /\ lockFile # NoFile => Locked(u)
                 /\ tlocks \subseteq job[u].old

\* Once the merged table is listed, or is not, the compaction forgets its name.
FilesTidy(u) ==
  crashes = 0 =>
    /\ DOMAIN dir \ NameSet(list)
         \subseteq ReaderNames(st[u]) \cup ReaderNames(newt[u]) \cup {job[u].new}
    /\ pc[u] = "cpdone" \/ Replaced(u)
         => job[u].new \in NameSet(list) \/ job[u].new \notin DOMAIN dir

TidyInv(u) == HandleOK(u) /\ JobOK(u) /\ LocksTidy(u) /\ FilesTidy(u)

\* The steps of a process other than u: files may go, nothing else changes.
LEMMA OthersTidy ==
  ASSUME TypeOK, NEW u \in Proc, OnlyMutator(u), HistoryInv(u), TidyInv(u), NEW p \in Proc \ {u},
         StartCall(p) \/ CallStep(p) \/ GiveUp(p) \/ Crash(p)
  PROVE  TidyInv(u)'
<1>1. OthersUnchanged(p)
  BY OthersKeep
<1>2. /\ pc'[u] = pc[u] /\ st'[u] = st[u] /\ ret'[u] = ret[u] /\ newt'[u] = newt[u]
      /\ job'[u] = job[u]
  BY <1>1 DEF OthersUnchanged
<1>3. \/ Open(p) \/ Reload(p) \/ Destroy(p) \/ ReloadStep(p) \/ DestroyUnlink(p) \/ GiveUp(p)
      \/ Crash(p)
  BY MutatorActs DEF StartCall, CallStep
<1>4. /\ UNCHANGED <<list, lockFile, tlocks>> /\ fdAt'[u] = fdAt[u]
      /\ DOMAIN dir' \subseteq DOMAIN dir
      /\ crashes' = 0 => crashes = 0
  <2>1. CASE Open(p) \/ Reload(p) \/ Destroy(p) \/ GiveUp(p)
    BY <2>1 DEF Open, Reload, Destroy, GiveUp, shared
  <2>2. CASE DestroyUnlink(p)
    BY <2>2 DEF DestroyUnlink, Forget, Without, TypeOK, CallsOK
  <2>3. CASE Crash(p)
    <3>1. crashes' # 0
      BY <2>3 DEF Crash, TypeOK, HistoryOK
    <3> QED BY <2>3, <3>1 DEF Crash, Forget, shared, TypeOK, CallsOK
  <2>4. CASE Swap(p)
    BY <2>4 DEF Swap, Without
  <2>5. CASE UseAfterFree(p)
    BY <2>5 DEF UseAfterFree, Forget, shared, TypeOK, CallsOK
  <2>6. CASE ReloadCheck(p) \/ ReadList(p) \/ ReuseReader(p) \/ OpenTable(p) \/ TableMissing(p) \/ Recheck(p)
    BY <2>6 DEF ReloadCheck, ReadList, ReuseReader, OpenTable, TableMissing, Recheck, shared
  <2> QED BY <1>3, <2>1, <2>2, <2>3, <2>4, <2>5, <2>6 DEF ReloadStep
<1>5. HandleOK(u)' /\ JobOK(u)'
  BY <1>2, <1>4 DEF TidyInv, HandleOK, JobOK, Merging, Replaced
<1>6. LocksTidy(u)'
  BY <1>2, <1>4 DEF TidyInv, LocksTidy, Locked
<1>7. FilesTidy(u)'
  BY <1>2, <1>4 DEF TidyInv, FilesTidy, Replaced
<1> QED BY <1>5, <1>6, <1>7 DEF TidyInv

\* What u does not do as long as it is the only one that changes the stack.
LEMMA MutatorGoesOn ==
  ASSUME TypeOK, NEW u \in Proc, OnlyMutator(u), HistoryInv(u), HistoryInv(u)'
  PROVE  ~TableMissing(u) /\ ~Recheck(u) /\ ~UseAfterFree(u) /\ ~GiveUp(u)
<1>1. pc[u] # "recheck" /\ pc'[u] # "recheck" /\ health[u] = "ok" /\ (pc[u] = "read" => tries[u] = 0)
  BY DEF HistoryInv, MutatorOK, UpToDateOK
<1>2. FreeTries \in Nat /\ FreeTries # 0
  BY BoundsAssumption DEF OnlyMutator
<1> QED BY <1>1, <1>2 DEF TableMissing, Recheck, UseAfterFree, GiveUp, Goto, TypeOK, CallsOK

\* The locks that a step of u takes are those of its call, and it leaves none.
LEMMA OwnLocks ==
  ASSUME TypeOK, ControlOK, NEW u \in Proc, OnlyMutator(u), HistoryInv(u), HistoryInv(u)', TidyInv(u),
         StartCall(u) \/ CallStep(u) \/ GiveUp(u) \/ Crash(u)
  PROVE  HandleOK(u)' /\ JobOK(u)' /\ LocksTidy(u)'
<1> DEFINE Goal == HandleOK(u)' /\ JobOK(u)' /\ LocksTidy(u)'
<1>0. HandleOK(u) /\ JobOK(u) /\ LocksTidy(u) /\ ReturnOK(u) /\ UpToDateOK(u)
  BY DEF TidyInv, ControlOK, HistoryInv, MutatorOK
<1>n. NoJob.held = FALSE /\ NoJob.old = {}
  BY DEF NoJob
<1> USE DEF HandleOK, JobOK, LocksTidy, Locked, Merging, Replaced, Reloading
<1>1. ASSUME ReadList(u) \/ ReuseReader(u) \/ OpenTable(u) PROVE Goal
  <2>1. /\ pc[u] \in {"read", "open"} /\ pc'[u] = "open"
        /\ UNCHANGED <<ret, fdAt, job, lockFile, tlocks, crashes>>
    BY <1>1 DEF ReadList, ReuseReader, OpenTable, MustOpen, Goto, shared, TypeOK, CallsOK
  <2> QED BY <2>1, <1>0
<1>2. ASSUME NEW k, EndReload(u, k), pc[u] \in {"uptodate", "open"}, k = AfterReload[ret[u]],
             UNCHANGED <<fdAt, job, lockFile, tlocks, crashes>>
      PROVE  Goal
  <2>1. ret[u] \in {"open", "plain", "auto", "scan", "delete"}
    BY <1>0, <1>2 DEF ReturnOK
  <2>2. /\ k \in {"idle", "auto", "scan", "delete"} /\ (ret[u] = "scan" => k = "scan")
        /\ (ret[u] # "scan" => k # "scan") /\ (ret[u] # "delete" => k # "delete")
        /\ (ret[u] = "delete" => k = "delete")
    BY <2>1, <1>2 DEF AfterReload
  <2>3. pc'[u] = k /\ ret'[u] = "none"
    BY <2>2, <1>2 DEF EndReload, Goto, TypeOK, CallsOK
  <2> QED BY <2>1, <2>2, <2>3, <1>0, <1>2, <1>n
<1>3. ASSUME Swap(u) PROVE Goal
  BY <1>2, <1>3 DEF Swap
<1>4. ASSUME ReloadCheck(u) PROVE Goal
  <2>1. CASE EndReload(u, AfterReload[ret[u]])
    BY <1>2, <1>4, <2>1 DEF ReloadCheck, shared
  <2>2. CASE Goto(u, "read") /\ UNCHANGED ret
    <3>1. /\ pc[u] = "uptodate" /\ pc'[u] = "read"
          /\ UNCHANGED <<ret, fdAt, job, lockFile, tlocks, crashes>>
      BY <1>4, <2>2 DEF ReloadCheck, Goto, shared, TypeOK, CallsOK
    <3> QED BY <3>1, <1>0
  <2> QED BY <1>4, <2>1, <2>2 DEF ReloadCheck
<1>5. ASSUME CheckLocked(u) PROVE Goal
  <2>1. /\ pc[u] = "locked" /\ fdAt[u] = "lock"
        /\ \/ pc'[u] \in {"adding", "adclose"} /\ ret'[u] # "delete"
           \/ pc'[u] = "uptodate" /\ ret'[u] = "scan"
        /\ UNCHANGED <<fdAt, job, lockFile, tlocks, crashes>>
    BY <1>0, <1>5 DEF UpToDateOK, CheckLocked, Goto, shared, TypeOK, CallsOK
  <2> QED BY <2>1, <1>0
<1>6. ASSUME AddTable(u) \/ Abandon(u) \/ CommitNothing(u) PROVE Goal
  <2>1. /\ pc[u] = "adding" /\ pc'[u] \in {"adding", "adclose"}
        /\ UNCHANGED <<fdAt, job, lockFile, tlocks, crashes>>
    BY <1>6 DEF AddTable, Abandon, CommitNothing, Goto, shared, TypeOK, CallsOK
  <2> QED BY <2>1, <1>0
<1>7. ASSUME CommitWrite(u) PROVE Goal
  <2>1. /\ pc[u] = "adding" /\ UNCHANGED <<job, tlocks, crashes>>
        /\ \/ pc'[u] = "rename" /\ fdAt'[u] = "none"
           \/ pc'[u] = "adclose" /\ UNCHANGED <<fdAt, lockFile>>
    BY <1>7 DEF CommitWrite, WriteLock, Goto, shared, TypeOK, CallsOK
  <2> QED BY <2>1, <1>0
<1>8. ASSUME CommitRename(u) PROVE Goal
  <2>1. /\ pc[u] = "rename" /\ pc'[u] = "uptodate" /\ ret'[u] \in {"auto", "plain"}
        /\ lockFile' = NoFile /\ fdAt'[u] = "none"
        /\ UNCHANGED <<job, tlocks, crashes>>
    BY <1>8 DEF CommitRename, RenameLock, FdsAfterRename, Goto, TypeOK, CallsOK
  <2> QED BY <2>1, <1>0
<1>9. ASSUME CommitRenameFails(u) PROVE Goal
  <2>1. /\ pc[u] = "rename" /\ pc'[u] = "adclose" /\ UNCHANGED <<fdAt, job, lockFile, tlocks, crashes>>
    BY <1>9 DEF CommitRenameFails, Goto, shared, TypeOK, CallsOK
  <2> QED BY <2>1, <1>0
<1>10. ASSUME AdditionClose(u) PROVE Goal
  <2>1. ret[u] \in {"none", "plain", "scan", "auto"} /\ pc[u] = "adclose"
    BY <1>0, <1>10 DEF ReturnOK, AdditionClose
  <2>2. /\ pc'[u] \in {"idle", "uptodate", "auto"} /\ ret'[u] \in {"none", "plain", "scan"}
        /\ lockFile' = NoFile /\ fdAt'[u] = "none" /\ UNCHANGED <<job, tlocks, crashes>>
    BY <2>1, <1>10, ReturnLabels DEF AdditionClose, UnlinkLock, FdsAfterUnlink, Goto, TypeOK, CallsOK
  <2> QED BY <2>1, <2>2, <1>0
<1>11. ASSUME Scan(u) PROVE Goal
  <2>1. /\ pc[u] = "scan" /\ pc'[u] = IF fdAt[u] = "none" THEN "idle" ELSE "adclose"
        /\ UNCHANGED <<ret, fdAt, job, lockFile, tlocks, crashes>>
    BY <1>11 DEF Scan, Goto, TypeOK, CallsOK
  <2> QED BY <2>1, <1>0
<1>12. ASSUME NEW first, NEW last, pc[u] \in {"auto", "idle"}, LockForCompaction(u, first, last),
              UNCHANGED <<fdAt, tlocks, crashes>>
       PROVE  Goal
  <2>1. CASE Goto(u, "idle")
    <3>1. pc'[u] = "idle"
      BY <2>1 DEF Goto, TypeOK, CallsOK
    <3>2. UNCHANGED <<lockFile, job>>
      BY <2>1, <3>1, <1>12 DEF LockForCompaction, Goto, TypeOK, CallsOK
    <3> QED BY <3>1, <3>2, <1>0, <1>12, <1>n
  <2>2. CASE ~Goto(u, "idle")
    <3>1. /\ pc'[u] = "cpcheck" /\ job'[u].held /\ job'[u].old = {}
      BY <2>2, <1>12 DEF LockForCompaction, Goto, TypeOK, CallsOK
    <3> QED BY <3>1, <1>0, <1>12, <1>n
  <2> QED BY <2>1, <2>2
<1>13. ASSUME AutoCompact(u) PROVE Goal
  <2>1. CASE Goto(u, "idle") /\ UNCHANGED <<lockFile, job>>
    <3>1. /\ pc[u] = "auto" /\ pc'[u] = "idle" /\ UNCHANGED <<fdAt, tlocks, crashes>>
      BY <2>1, <1>13 DEF AutoCompact, Goto, TypeOK, CallsOK
    <3> QED BY <3>1, <2>1, <1>0
  <2>2. CASE \E first, last \in 1..Len(st[u]) : first < last /\ LockForCompaction(u, first, last)
    BY <2>2, <1>12, <1>13 DEF AutoCompact
  <2> QED BY <1>13, <2>1, <2>2 DEF AutoCompact
<1>14. ASSUME CompactAll(u) PROVE Goal
  BY <1>12, <1>14 DEF CompactAll
<1>15. ASSUME CompactionCheck(u) PROVE Goal
  <2>1. /\ pc[u] = "cpcheck" /\ pc'[u] \in {"cpsub", "cpdone"}
        /\ UNCHANGED <<ret, fdAt, job, lockFile, tlocks, crashes>>
    BY <1>15 DEF CompactionCheck, Goto, shared, TypeOK, CallsOK
  <2> QED BY <2>1, <1>0
<1>16. ASSUME LockTable(u) PROVE Goal
  <2> DEFINE n == st[u][job[u].next].name
  <2>1. /\ pc[u] = "cpsub" /\ pc'[u] \in {"cpsub", "cpdone"} /\ tlocks' = tlocks \cup {n}
        /\ job' = [job EXCEPT ![u].old = @ \cup {n}, ![u].next = @ + 1]
        /\ UNCHANGED <<ret, fdAt, lockFile, crashes>>
    BY <1>16 DEF LockTable, Goto, TypeOK, CallsOK
  <2>2. job'[u].held = job[u].held /\ job'[u].old = job[u].old \cup {n}
    BY <2>1 DEF TypeOK, CallsOK, Jobs
  <2> HIDE DEF n
  <2> QED BY <2>1, <2>2, <1>0
<1>17. ASSUME UnlockForMerge(u) PROVE Goal
  <2>1. /\ pc[u] = "cpsub" /\ UNCHANGED <<tlocks, crashes>>
        /\ \/ /\ pc'[u] = "merge" /\ lockFile' = NoFile /\ fdAt'[u] = "none"
              /\ job'[u].old = job[u].old
           \/ pc'[u] = "cpdone" /\ UNCHANGED <<fdAt, job, lockFile>>
    BY <1>17, JobFields DEF UnlockForMerge, UnlinkLock, FdsAfterUnlink, Goto, TypeOK, CallsOK, Jobs
  <2> QED BY <2>1, <1>0
<1>18. ASSUME Relock(u) PROVE Goal
  <2>1. /\ pc[u] = "relock" /\ UNCHANGED <<tlocks, crashes>>
        /\ \/ pc'[u] = "install" /\ job'[u].held /\ job'[u].old = job[u].old
           \/ pc'[u] = "cpdone" /\ UNCHANGED <<fdAt, job, lockFile>>
    BY <1>18, JobFields DEF Relock, Goto, TypeOK, CallsOK, Jobs
  <2> QED BY <2>1, <1>0
<1>19. ASSUME Install(u) PROVE Goal
  <2>1. /\ pc[u] = "install" /\ pc'[u] \in {"cpwrite", "cpdone"}
        /\ job'[u].held = job[u].held /\ job'[u].old = job[u].old
        /\ UNCHANGED <<fdAt, lockFile, tlocks, crashes>>
    BY <1>19, JobFields DEF Install, Goto, TypeOK, CallsOK, Jobs
  <2> QED BY <2>1, <1>0
<1>20. ASSUME CompactionWrite(u) PROVE Goal
  <2>1. /\ pc[u] = "cpwrite" /\ UNCHANGED <<job, tlocks, crashes>> /\ fdAt[u] = "lock"
        /\ \/ pc'[u] = "cprename" /\ fdAt'[u] = "none"
           \/ pc'[u] = "cpdone" /\ UNCHANGED <<fdAt, lockFile>>
    BY <1>0, <1>20 DEF UpToDateOK, CompactionWrite, WriteLock, Goto, TypeOK, CallsOK
  <2> QED BY <2>1, <1>0
<1>21. ASSUME CompactionRename(u) PROVE Goal
  <2>1. /\ pc[u] = "cprename" /\ pc'[u] = "read" /\ ret'[u] = "delete"
        /\ lockFile' = NoFile /\ fdAt'[u] = "none" /\ job'[u].old = job[u].old
        /\ UNCHANGED <<tlocks, crashes>>
    BY <1>21, JobFields DEF CompactionRename, RenameLock, FdsAfterRename, Goto, TypeOK, CallsOK, Jobs
  <2> QED BY <2>1, <1>0
<1>22. ASSUME CompactionRenameFails(u) \/ DeleteCompacted(u) PROVE Goal
  <2>1. /\ pc[u] \in {"cprename", "delete"} /\ pc'[u] = "cpdone"
        /\ UNCHANGED <<fdAt, job, lockFile, tlocks, crashes>>
    BY <1>22 DEF CompactionRenameFails, DeleteCompacted, Goto, TypeOK, CallsOK
  <2> QED BY <2>1, <1>0
<1>23. ASSUME CompactionDone(u) PROVE Goal
  <2>1. /\ pc[u] = "cpdone" /\ pc'[u] = "idle" /\ job'[u] = NoJob /\ tlocks' = tlocks \ job[u].old
        /\ IF job[u].held THEN lockFile' = NoFile /\ fdAt'[u] = "none" ELSE UNCHANGED <<lockFile, fdAt>>
        /\ UNCHANGED crashes
    BY <1>23 DEF CompactionDone, LocksToUnlink, UnlinkLock, FdsAfterUnlink, Goto, TypeOK, CallsOK
  <2> QED BY <2>1, <1>0, <1>n
<1>24. ASSUME Open(u) \/ Reload(u) \/ Destroy(u) PROVE Goal
  <2>1. /\ pc[u] \in {"closed", "idle"}
        /\ \/ pc'[u] \in {"read", "uptodate"} /\ ret'[u] \in {"open", "plain"}
           \/ pc'[u] = "destroy" /\ ret' = ret
        /\ UNCHANGED <<fdAt, job, lockFile, tlocks, crashes>>
    BY <1>24 DEF Open, Reload, Destroy, Goto, shared, TypeOK, CallsOK
  <2> QED BY <2>1, <1>0
<1>25. ASSUME NEW c \in CallNames, LockList(u, c) \/ LockTaken(u, c) PROVE Goal
  <2>1. /\ pc[u] = "idle"
        /\ \/ pc'[u] = "locked" /\ ret' = ret
           \/ pc'[u] = "adclose" /\ ret'[u] \in {"plain", "none"}
        /\ UNCHANGED <<job, tlocks, crashes>>
    BY <1>25 DEF LockList, LockTaken, Goto, shared, TypeOK, CallsOK
  <2> QED BY <2>1, <1>0
<1>26. ASSUME DestroyUnlink(u) \/ Crash(u) PROVE Goal
  <2>1. /\ pc'[u] = "closed" /\ job'[u] = NoJob /\ fdAt'[u] = "none" /\ UNCHANGED <<lockFile, tlocks>>
        /\ (pc[u] = "destroy" /\ crashes' = crashes) \/ crashes' # 0
    BY <1>26 DEF DestroyUnlink, Crash, Forget, Goto, shared, TypeOK, CallsOK, HistoryOK
  <2> QED BY <2>1, <1>0, <1>n
<1>27. ASSUME Merge(u) PROVE Goal
  <2>1. /\ pc[u] = "merge" /\ pc'[u] \in {"relock", "cpdone"}
        /\ UNCHANGED <<ret, fdAt, job, lockFile, tlocks, crashes>>
    BY <1>27 DEF Merge, Goto, shared, TypeOK, CallsOK
  <2> QED BY <2>1, <1>0
<1>28. CASE CallStep(u)
  BY <1>28, <1>1, <1>3, <1>4, <1>5, <1>6, <1>7, <1>8, <1>9, <1>10, <1>11, <1>13, <1>15, <1>16, <1>17,
     <1>18, <1>19, <1>20, <1>21, <1>22, <1>23, <1>26, <1>27, MutatorGoesOn
     DEF CallStep, ReloadStep, AdditionStep, CompactionStep
<1> QED BY <1>14, <1>24, <1>25, <1>26, <1>28, MutatorGoesOn DEF StartCall

\* A step that writes no file, lists nothing and forgets no name leaves nothing.
LEMMA FilesStayTidy ==
  ASSUME TypeOK, NEW u \in Proc, FilesTidy(u), crashes' = crashes, list' = list,
         DOMAIN dir' \subseteq DOMAIN dir, st'[u] = st[u], newt'[u] = newt[u],
         job'[u].new = job[u].new,
         (pc[u] = "cpdone" \/ Replaced(u))' =>
           pc[u] = "cpdone" \/ Replaced(u) \/ job[u].new = NoName
  PROVE  FilesTidy(u)'
<1>1. NoName \notin DOMAIN dir
  BY NoneAssumption DEF TypeOK, FilesOK
<1> QED BY <1>1 DEF FilesTidy

\* The new stack is the list, and its old files that it has no more are gone.
LEMMA SwapTidy ==
  ASSUME TypeOK, NEW u \in Proc, HistoryInv(u), FilesTidy(u), ReturnOK(u), Swap(u)
  PROVE  FilesTidy(u)'
<1>1. /\ pc[u] = "open" /\ Len(opened[u]) = Len(names[u]) /\ st'[u] = opened[u]
      /\ dir' = Without(Dropped(u)) /\ UNCHANGED <<list, newt, job, crashes>>
      /\ EndReload(u, AfterReload[ret[u]])
  BY DEF Swap, TypeOK, StacksOK
<1>2. ReaderNames(opened[u]) = NameSet(list) /\ names[u] = list
  BY <1>1, LoadedStack DEF HistoryInv, MutatorOK, UpToDateOK
<1>3. DOMAIN dir' = DOMAIN dir \ Dropped(u)
  BY <1>1 DEF Without
<1>4. DOMAIN dir' \ NameSet(list) \subseteq (DOMAIN dir \ NameSet(list)) \ ReaderNames(st[u])
  BY <1>2, <1>3 DEF Dropped
<1>5. Replaced(u)' \/ pc'[u] = "cpdone" => Replaced(u)
  <2>1. ret[u] \in {"open", "plain", "auto", "scan", "delete"}
    BY <1>1 DEF ReturnOK, Reloading
  <2>2. /\ AfterReload[ret[u]] \in {"idle", "auto", "scan", "delete"}
        /\ ret[u] # "delete" => AfterReload[ret[u]] # "delete"
    BY <2>1 DEF AfterReload
  <2>3. pc'[u] = AfterReload[ret[u]]
    BY <1>1, <2>2 DEF EndReload, Goto, TypeOK, CallsOK
  <2> QED BY <1>1, <2>2, <2>3 DEF Replaced, Reloading
<1> QED BY <1>1, <1>2, <1>3, <1>4, <1>5 DEF FilesTidy

\* What a transaction wrote is listed by its commit ...
LEMMA CommitTidy ==
  ASSUME TypeOK, NEW u \in Proc, HistoryInv(u), JobOK(u), FilesTidy(u), CommitRename(u)
  PROVE  FilesTidy(u)'
<1>1. /\ pc[u] = "rename" /\ pc'[u] = "uptodate" /\ ret'[u] \in {"auto", "plain"}
      /\ list' = lockFile /\ newt'[u] = <<>> /\ UNCHANGED <<dir, st, job, crashes>>
  BY DEF CommitRename, RenameLock, Goto, TypeOK, CallsOK
<1>2. /\ lockFile = NamesOf(st[u]) \o NamesOf(newt[u]) /\ NamesOf(st[u]) = list
  BY <1>1 DEF HistoryInv, MutatorOK, AdditionOK, UpToDateOK
<1>3. NameSet(list') = NameSet(list) \cup ReaderNames(newt[u])
  <2> DEFINE t == NamesOf(newt[u])
  <2>1. list \in Seq(TableName) /\ t \in Seq(TableName) /\ NameSet(t) = ReaderNames(newt[u])
    BY HeldTypes, SameNames
  <2> HIDE DEF t
  <2>2. NameSet(list \o t) = NameSet(list) \cup NameSet(t)
    BY <2>1, ConcatNames
  <2> QED BY <2>1, <2>2, <1>1, <1>2 DEF t
<1>4. ~Replaced(u)' /\ pc'[u] # "cpdone"
  BY <1>1 DEF Replaced, Reloading
<1> QED BY <1>1, <1>3, <1>4 DEF FilesTidy

\* ... or unlinked by its close.
LEMMA CloseTidy ==
  ASSUME TypeOK, NEW u \in Proc, ReturnOK(u), FilesTidy(u), AdditionClose(u)
  PROVE  FilesTidy(u)'
<1>1. /\ pc[u] = "adclose" /\ dir' = Without(ReaderNames(newt[u])) /\ newt'[u] = <<>>
      /\ UNCHANGED <<list, st, job, crashes>>
  BY DEF AdditionClose, Discarded, TypeOK, CallsOK
<1>2. DOMAIN dir' = DOMAIN dir \ ReaderNames(newt[u])
  BY <1>1 DEF Without
<1>3. ~Replaced(u)' /\ pc'[u] # "cpdone"
  <2>1. ret[u] \in {"none", "plain", "scan", "auto"}
    BY <1>1 DEF ReturnOK
  <2>2. pc'[u] \in {"idle", "uptodate", "auto"} /\ ret'[u] # "delete"
    BY <2>1, ReturnLabels DEF AdditionClose, Goto, TypeOK, CallsOK
  <2> QED BY <2>2 DEF Replaced, Reloading
<1> QED BY <1>1, <1>2, <1>3 DEF FilesTidy

\* A table that is written is one of the addition's ...
LEMMA AddTidy ==
  ASSUME TypeOK, NEW u \in Proc, FilesTidy(u), AddTable(u)
  PROVE  FilesTidy(u)'
<1>1. /\ pc[u] = "adding" /\ UNCHANGED <<list, pc, st, ret, job, crashes>>
  BY DEF AddTable, loading
<1>2. PICK n, b : /\ DOMAIN dir' = DOMAIN dir \cup {n}
                  /\ newt'[u] = Append(newt[u], [name |-> n, recs |-> b])
  <2>1. PICK lo \in Nat, hi \in Nat : \E x \in NewNames(lo, hi), b \in Batches :
          /\ NextUpdateIndex(st[u]) <= lo /\ lo <= hi
          /\ dir' = With(x, b)
          /\ newt' = [newt EXCEPT ![u] = Append(@, [name |-> x, recs |-> b])]
    BY AddedTable
  <2>2. PICK x, b :
          /\ dir' = With(x, b)
          /\ newt' = [newt EXCEPT ![u] = Append(@, [name |-> x, recs |-> b])]
    BY <2>1
  <2> QED BY <2>2 DEF With, TypeOK, CallsOK
<1>3. ReaderNames(newt[u]) \cup {n} \subseteq ReaderNames(newt'[u])
  <2> DEFINE s == newt[u]
             e == [name |-> n, recs |-> b]
  <2>1. s \in Seq(Reader) /\ Len(s) \in Nat /\ e.name = n /\ newt'[u] = Append(s, e)
    BY <1>2, HeldTypes
  <2> HIDE DEF s, e
  <2>2. /\ Len(Append(s, e)) = Len(s) + 1 /\ Append(s, e)[Len(s) + 1] = e
        /\ \A i \in 1..Len(s) : Append(s, e)[i] = s[i]
    BY <2>1
  <2>3. n \in ReaderNames(newt'[u])
    <3>1. Len(s) + 1 \in 1..Len(Append(s, e))
      BY <2>1, <2>2
    <3> QED BY <3>1, <2>1, <2>2 DEF ReaderNames
  <2>4. ASSUME NEW i \in 1..Len(s) PROVE s[i].name \in ReaderNames(newt'[u])
    <3>1. i \in 1..Len(Append(s, e))
      BY <2>1, <2>2
    <3> QED BY <3>1, <2>1, <2>2 DEF ReaderNames
  <2> QED BY <2>3, <2>4 DEF ReaderNames, s
<1>4. ~Replaced(u)' /\ pc'[u] # "cpdone"
  BY <1>1 DEF Replaced, Reloading
<1> QED BY <1>1, <1>2, <1>3, <1>4 DEF FilesTidy

\* ... or the one of the compaction, ...
LEMMA InstallTidy ==
  ASSUME TypeOK, NEW u \in Proc, HistoryInv(u), FilesTidy(u), Install(u)
  PROVE  FilesTidy(u)'
<1>1. pc[u] = "install" /\ UNCHANGED <<list, st, newt, crashes>>
  BY DEF Install
<1>2. job[u].new = NoName
  BY <1>1 DEF HistoryInv, MutatorOK, CompactionOK
<1>3. CASE UNCHANGED <<dir, job>>
  BY <1>1, <1>2, <1>3, FilesStayTidy
<1>4. ASSUME Goto(u, "cpwrite"), NEW n, NEW recs, dir' = With(n, recs), job' = [job EXCEPT ![u].new = n]
      PROVE  FilesTidy(u)'
  <2>1. pc'[u] = "cpwrite" /\ job'[u].new = n /\ DOMAIN dir' = DOMAIN dir \cup {n}
    BY <1>4 DEF Goto, With, TypeOK, CallsOK, Jobs
  <2>2. NoName \notin DOMAIN dir
    BY NoneAssumption DEF TypeOK, FilesOK
  <2>3. ~Replaced(u)'
    BY <2>1 DEF Replaced, Reloading
  <2> QED BY <2>1, <2>2, <2>3, <1>1, <1>2 DEF FilesTidy
<1> QED BY <1>3, <1>4 DEF Install

\* ... which is unlinked when the list cannot be written, ...
LEMMA MergedTableTidy ==
  ASSUME TypeOK, NEW u \in Proc, FilesTidy(u), dir' = Without({job[u].new}),
         UNCHANGED <<list, st, newt, job, crashes>>
  PROVE  FilesTidy(u)'
<1>1. DOMAIN dir' = DOMAIN dir \ {job[u].new}
  BY DEF Without
<1> QED BY <1>1 DEF FilesTidy

\* ... and is listed otherwise; the tables it replaces are still in the stack.
LEMMA ReplaceTidy ==
  ASSUME TypeOK, NEW u \in Proc, HistoryInv(u), FilesTidy(u), CompactionRename(u)
  PROVE  FilesTidy(u)'
<1> DEFINE first == job[u].first
           last == job[u].last
           new == Replacement(u)
<1>1. /\ pc[u] = "cprename" /\ list' = lockFile /\ job'[u].new = job[u].new
      /\ UNCHANGED <<dir, st, newt, crashes>>
  BY DEF CompactionRename, RenameLock, TypeOK, CallsOK, Jobs
<1>2. /\ FilesGood(u) /\ RangeFits(u) /\ NamesOf(st[u]) = list
      /\ lockFile = Spliced(list, first, last, new)
  BY <1>1 DEF HistoryInv, MutatorOK, CompactionOK, UpToDateOK, Merging
<1>3. NameSet(list) = ReaderNames(st[u]) /\ list \in Seq(TableName) /\ Len(list) = Len(st[u])
  BY <1>2, HeldTypes, SameNames
<1>4. job[u].new \in NameSet(list') \/ job[u].new \notin DOMAIN dir
  <2>1. CASE job[u].new = NoName
    BY <2>1, NoneAssumption DEF TypeOK, FilesOK
  <2>2. CASE job[u].new # NoName
    <3> DEFINE n == job[u].new
    <3>1. new = <<n>> /\ n \in TableName /\ n \in Pending(u)
      BY <1>1, <2>2, JobFields DEF Replacement, Pending, Replacing
    <3>2. first \in 1..Len(list) /\ last \in first..Len(list) /\ Distinct(list) /\ n \notin NameSet(list)
      BY <1>2, <1>3, <3>1 DEF RangeFits, FilesGood
    <3> HIDE DEF n, first, last, new
    <3>3. new \in Seq(TableName) /\ Len(new) = 1 /\ new[1] = n
      BY <3>1
    <3>4. NameSet(new) = {n} /\ Distinct(new)
      BY <3>3 DEF NameSet, Distinct
    <3>5. NameSet(new) \cap NameSet(list) = {}
      BY <3>2, <3>4
    <3>6. NameSet(new) \subseteq NameSet(Spliced(list, first, last, new))
      BY <1>3, <3>2, <3>3, <3>4, <3>5, SplicedNames
    <3> QED BY <3>4, <3>6, <1>1, <1>2 DEF n
  <2> QED BY <2>1, <2>2
<1>5. DOMAIN dir \ NameSet(list') \subseteq (DOMAIN dir \ NameSet(list)) \cup ReaderNames(st[u])
  BY <1>3
<1> QED BY <1>1, <1>4, <1>5 DEF FilesTidy

\* The compaction ends; its table is listed or was never there.
LEMMA DoneTidy ==
  ASSUME TypeOK, NEW u \in Proc, FilesTidy(u), CompactionDone(u)
  PROVE  FilesTidy(u)'
<1>1. /\ pc[u] = "cpdone" /\ pc'[u] = "idle" /\ UNCHANGED <<dir, list, st, newt, crashes>>
  BY DEF CompactionDone, Goto, TypeOK, CallsOK
<1>2. ~Replaced(u)'
  BY <1>1 DEF Replaced, Reloading
<1> QED BY <1>1, <1>2 DEF FilesTidy

\* A stack that is destroyed takes its files with it, except those in the list.
LEMMA DestroyTidy ==
  ASSUME TypeOK, NEW u \in Proc, HistoryInv(u), JobOK(u), FilesTidy(u), DestroyUnlink(u)
  PROVE  FilesTidy(u)'
<1>1. /\ pc[u] = "destroy" /\ pc'[u] = "closed" /\ UNCHANGED <<list, crashes>>
      /\ dir' = Without(ReaderNames(st[u]) \ NameSet(names[u]))
  BY DEF DestroyUnlink, Forget, Goto, TypeOK, CallsOK
<1>2. names[u] = list /\ newt[u] = <<>>
  BY <1>1, NothingWritten DEF HistoryInv, MutatorOK, UpToDateOK
<1>3. job[u].new = NoName /\ NoName \notin DOMAIN dir
  BY <1>1, NoneAssumption DEF JobOK, NoJob, Merging, Replaced, Reloading, TypeOK, FilesOK
<1>4. DOMAIN dir' = DOMAIN dir \ (ReaderNames(st[u]) \ NameSet(list))
  BY <1>1, <1>2 DEF Without
<1>5. crashes = 0 => DOMAIN dir' \ NameSet(list) = {}
  BY <1>2, <1>3, <1>4, NothingOpen DEF FilesTidy
<1>6. ~Replaced(u)'
  BY <1>1 DEF Replaced, Reloading
<1> QED BY <1>1, <1>5, <1>6 DEF FilesTidy

\* In all, u leaves no file behind.
LEMMA OwnFiles ==
  ASSUME TypeOK, ControlOK, NEW u \in Proc, OnlyMutator(u), HistoryInv(u), HistoryInv(u)', TidyInv(u),
         StartCall(u) \/ CallStep(u) \/ GiveUp(u) \/ Crash(u)
  PROVE  FilesTidy(u)'
<1>0. JobOK(u) /\ FilesTidy(u) /\ ReturnOK(u) /\ CompactionOK(u)
  BY DEF TidyInv, ControlOK, HistoryInv, MutatorOK
<1>n. NoJob.new = NoName
  BY DEF NoJob
<1>1. CASE ReadList(u) \/ ReuseReader(u) \/ OpenTable(u)
  <2>1. /\ pc[u] \in {"read", "open"} /\ pc'[u] = "open"
        /\ UNCHANGED <<dir, list, st, newt, ret, job, crashes>>
    BY <1>1 DEF ReadList, ReuseReader, OpenTable, MustOpen, Goto, shared, TypeOK, CallsOK
  <2> QED BY <2>1, <1>0, FilesStayTidy DEF Replaced, Reloading
<1>2. CASE ReloadCheck(u)
  <2>1. /\ pc[u] = "uptodate" /\ UNCHANGED <<dir, list, st, newt, job, crashes>>
        /\ ret[u] \in {"open", "plain", "auto", "scan", "delete"}
    BY <1>0, <1>2 DEF ReloadCheck, shared, ReturnOK, Reloading
  <2>2. CASE Goto(u, "read") /\ UNCHANGED ret
    <3>1. pc'[u] = "read"
      BY <2>2 DEF Goto, TypeOK, CallsOK
    <3> QED BY <3>1, <2>1, <2>2, <1>0, FilesStayTidy DEF Replaced, Reloading
  <2>3. CASE EndReload(u, AfterReload[ret[u]])
    <3>1. /\ AfterReload[ret[u]] \in {"idle", "auto", "scan", "delete"}
          /\ ret[u] # "delete" => AfterReload[ret[u]] # "delete"
      BY <2>1 DEF AfterReload
    <3>2. pc'[u] = AfterReload[ret[u]]
      BY <2>3, <3>1 DEF EndReload, Goto, TypeOK, CallsOK
    <3> QED BY <3>1, <3>2, <2>1, <1>0, FilesStayTidy DEF Replaced, Reloading
  <2> QED BY <1>2, <2>2, <2>3 DEF ReloadCheck
<1>3. CASE CheckLocked(u) \/ Abandon(u) \/ CommitNothing(u) \/ CommitWrite(u) \/ CommitRenameFails(u)
  <2>1. /\ pc'[u] \in {"adding", "adclose", "rename", "uptodate"} /\ (pc'[u] = "uptodate" => ret'[u] = "scan")
        /\ UNCHANGED <<dir, st, newt, job, crashes>>
    BY <1>3 DEF CheckLocked, Abandon, CommitNothing, CommitWrite, CommitRenameFails, Goto, shared, TypeOK,
       CallsOK
  <2>2. list' = list
    <3>1. pc[u] = "adding" => fdAt[u] = "lock"
      BY DEF HistoryInv, MutatorOK, UpToDateOK
    <3> QED BY <1>3, <3>1 DEF CheckLocked, Abandon, CommitNothing, CommitWrite, WriteLock,
            CommitRenameFails, shared
  <2> QED BY <2>1, <2>2, <1>0, FilesStayTidy DEF Replaced, Reloading
<1>4. CASE Scan(u)
  <2>1. /\ pc'[u] \in {"idle", "adclose"} /\ DOMAIN dir' \subseteq DOMAIN dir
        /\ UNCHANGED <<list, st, newt, job, crashes>>
    BY <1>4 DEF Scan, Without, Goto, TypeOK, CallsOK
  <2> QED BY <2>1, <1>0, FilesStayTidy DEF Replaced, Reloading
<1>5. CASE AutoCompact(u) \/ CompactAll(u)
  <2>1. /\ pc[u] \in {"auto", "idle"} /\ UNCHANGED <<dir, list, st, newt, crashes>>
    BY <1>5 DEF AutoCompact, CompactAll
  <2>2. job[u] = NoJob
    BY <2>1, <1>0 DEF JobOK, Merging, Replaced, Reloading
  <2>3. /\ pc'[u] \in {"idle", "cpcheck"} /\ job'[u].new = NoName
    BY <1>5, <2>2, <1>n DEF AutoCompact, CompactAll, LockForCompaction, Goto, TypeOK, CallsOK
  <2> QED BY <2>1, <2>2, <2>3, <1>0, <1>n, FilesStayTidy DEF Replaced, Reloading
<1>6. CASE CompactionCheck(u) \/ LockTable(u) \/ UnlockForMerge(u) \/ Merge(u) \/ Relock(u)
  <2>1. /\ pc[u] \in {"cpcheck", "cpsub", "merge", "relock"}
        /\ UNCHANGED <<dir, list, st, newt, crashes>>
    BY <1>6 DEF CompactionCheck, LockTable, UnlockForMerge, Merge, Relock, shared
  <2>2. job'[u].new = job[u].new
    BY <1>6 DEF CompactionCheck, LockTable, UnlockForMerge, Merge, Relock, TypeOK, CallsOK, Jobs
  <2>3. job[u].new = NoName
    BY <2>1, <1>0 DEF CompactionOK
  <2> QED BY <2>1, <2>2, <2>3, <1>0, FilesStayTidy
<1>7. CASE CompactionWrite(u)
  <2>1. /\ pc[u] = "cpwrite" /\ fdAt[u] = "lock" /\ UNCHANGED <<st, newt, job, crashes>>
    BY <1>7 DEF CompactionWrite, HistoryInv, MutatorOK, UpToDateOK
  <2>2. CASE dir' = Without({job[u].new}) /\ UNCHANGED list
    BY <2>1, <2>2, <1>0, MergedTableTidy
  <2>3. CASE Goto(u, "cprename") /\ UNCHANGED <<dir, list>>
    <3>1. pc'[u] = "cprename"
      BY <2>3 DEF Goto, TypeOK, CallsOK
    <3> QED BY <3>1, <2>1, <2>3, <1>0, FilesStayTidy DEF Replaced, Reloading
  <2> QED BY <1>7, <2>1, <2>2, <2>3 DEF CompactionWrite, WriteLock
<1>8. CASE CompactionRenameFails(u)
  <2>1. dir' = Without({job[u].new}) /\ UNCHANGED <<list, st, newt, job, crashes>>
    BY <1>8 DEF CompactionRenameFails
  <2> QED BY <2>1, <1>0, MergedTableTidy
<1>9. CASE DeleteCompacted(u)
  <2>1. /\ pc[u] = "delete" /\ DOMAIN dir' \subseteq DOMAIN dir
        /\ UNCHANGED <<list, st, newt, job, crashes>>
    BY <1>9 DEF DeleteCompacted, Without
  <2> QED BY <2>1, <1>0, FilesStayTidy DEF Replaced
<1>10. CASE Open(u) \/ Reload(u) \/ Destroy(u)
  <2>1. /\ pc'[u] \in {"read", "uptodate", "destroy"} /\ (pc'[u] # "destroy" => ret'[u] # "delete")
        /\ UNCHANGED <<dir, list, st, newt, job, crashes>>
    BY <1>10 DEF Open, Reload, Destroy, Goto, shared, TypeOK, CallsOK
  <2> QED BY <2>1, <1>0, FilesStayTidy DEF Replaced, Reloading
<1>11. CASE \E c \in CallNames : LockList(u, c) \/ LockTaken(u, c)
  <2>1. pc'[u] \in {"locked", "adclose"} /\ UNCHANGED <<dir, list, st, newt, job, crashes>>
    BY <1>11 DEF LockList, LockTaken, Goto, shared, TypeOK, CallsOK
  <2> QED BY <2>1, <1>0, FilesStayTidy DEF Replaced, Reloading
<1>12. CASE Crash(u)
  <2>1. crashes' # 0
    BY <1>12 DEF Crash, TypeOK, HistoryOK
  <2> QED BY <2>1 DEF FilesTidy
<1>13. CASE ReloadStep(u)
  BY <1>13, <1>0, <1>1, <1>2, SwapTidy, MutatorGoesOn DEF ReloadStep
<1>14. CASE AdditionStep(u)
  BY <1>14, <1>0, <1>3, <1>4, AddTidy, CommitTidy, CloseTidy DEF AdditionStep
<1>15. CASE CompactionStep(u)
  BY <1>15, <1>0, <1>5, <1>6, <1>7, <1>8, <1>9, InstallTidy, ReplaceTidy, DoneTidy DEF CompactionStep
<1>16. CASE StartCall(u)
  BY <1>16, <1>5, <1>10, <1>11 DEF StartCall
<1> QED BY <1>0, <1>12, <1>13, <1>14, <1>15, <1>16, DestroyTidy, MutatorGoesOn DEF CallStep

\* The invariant is inductive.
LEMMA StepTidy ==
  ASSUME TypeOK, ControlOK, NEW u \in Proc, OnlyMutator(u), HistoryInv(u), TidyInv(u), [Next]_vars
  PROVE  TidyInv(u)'
<1>1. HistoryInv(u)'
  BY StepHistory
<1>2. CASE UNCHANGED vars
  <2>1. UNCHANGED <<dir, list, lockFile, tlocks, pc, st, ret, fdAt, newt, job, crashes>>
    BY <1>2 DEF vars, shared
  <2>2. HandleOK(u)' /\ JobOK(u)'
    BY <2>1 DEF TidyInv, HandleOK, JobOK, Merging, Replaced
  <2>3. LocksTidy(u)' /\ FilesTidy(u)'
    BY <2>1 DEF TidyInv, LocksTidy, Locked, FilesTidy, Replaced
  <2> QED BY <2>2, <2>3 DEF TidyInv
<1>3. ASSUME NEW p \in Proc, StartCall(p) \/ CallStep(p) \/ GiveUp(p) \/ Crash(p)
      PROVE  TidyInv(u)'
  <2>1. CASE p = u
    BY <1>1, <1>3, <2>1, OwnLocks, OwnFiles DEF TidyInv
  <2>2. CASE p # u
    BY <1>3, <2>2, OthersTidy
  <2> QED BY <2>1, <2>2
<1> QED BY <1>2, <1>3 DEF Next

\* There is nothing at first.
LEMMA InitTidy == ASSUME NEW u \in Proc PROVE Init => TidyInv(u)
BY DEF Init, EmptyDirectory, TidyInv, HandleOK, JobOK, LocksTidy, FilesTidy, Replaced, Reloading

\* So the invariant holds throughout.
LEMMA TidyCorrect ==
  ASSUME NEW u \in Proc, OnlyMutator(u) PROVE Spec => []TidyInv(u)
<1>1. TypeOK /\ ControlOK /\ HistoryInv(u) /\ TidyInv(u) /\ [Next]_vars => TidyInv(u)'
  BY StepTidy
<1> QED BY <1>1, InitTidy, HistoryCorrect, PTL DEF Spec

\* The tables of an addition that failed, the merged table of a compaction that
\* had got its name, the tables it replaced and those a reload or a destroyed stack
\* no longer has are all unlinked: as long as nobody dies, a table (a .ref file)
\* outside the list belongs to the call of the one process that changes the stack,
\* or to its stack, whichever system call fails.  A temporary file of a merge is not
\* a table yet, and is the business of MutatorLeavesNoTemps.
THEOREM MutatorLeavesNoTables ==
  ASSUME NEW u \in Proc, OnlyMutator(u) PROVE Spec => []NoStrayTables
<1>1. TidyInv(u) => NoStrayTables
  BY DEF TidyInv, FilesTidy, NoStrayTables
<1> QED BY <1>1, TidyCorrect, PTL

\* Neither the lock on the list nor one on a table outlives the call that took it,
\* whichever of its steps fails.
THEOREM MutatorLeavesNoLocks ==
  ASSUME NEW u \in Proc, OnlyMutator(u) PROVE Spec => []NoLeakedLocks
<1>1. ASSUME TidyInv(u), crashes = 0, pc[u] \in {"idle", "closed"} PROVE lockFile = NoFile /\ tlocks = {}
  <2>1. job[u] = NoJob
    BY <1>1 DEF TidyInv, JobOK, Merging, Replaced, Reloading
  <2>2. ~Locked(u) /\ job[u].old = {}
    BY <1>1, <2>1 DEF Locked, NoJob
  <2> QED BY <1>1, <2>2 DEF TidyInv, LocksTidy
<1>2. TidyInv(u) => NoLeakedLocks
  BY <1>1 DEF NoLeakedLocks, AtRest
<1> QED BY <1>2, TidyCorrect, PTL

-----------------------------------------------------------------------------
(* The temporary file of a merge.  If system calls work it gets a name,    *)
(* since nobody else can have the lock when the list is locked again.      *)

\* A temporary file is there from the end of the merge to the rename, and the list
\* is not locked before it is locked again.
TempsTidy(u) ==
  crashes = 0 =>
    /\ \A q \in Proc \ {u} : temps[q] = 0
    /\ temps[u] = IF pc[u] \in {"relock", "install"} THEN TempLeft(u) ELSE 0
    /\ pc[u] \in {"merge", "relock"} => ~job[u].held

\* Only a merge makes a temporary file, and only the end of its compaction takes it.
LEMMA TempsKept ==
  ASSUME NEW p \in Proc, StartCall(p) \/ CallStep(p) \/ GiveUp(p), ~Merge(p), ~Install(p)
  PROVE  UNCHANGED <<temps, crashes>>
<1>1. CASE ReloadStep(p)
  BY <1>1 DEF ReloadStep, ReloadCheck, ReadList, ReuseReader, OpenTable, TableMissing, Recheck, Swap,
     UseAfterFree
<1>2. CASE AdditionStep(p)
  BY <1>2 DEF AdditionStep, CheckLocked, AddTable, Abandon, CommitNothing, CommitWrite, CommitRename,
     CommitRenameFails, AdditionClose, Scan
<1>3. CASE CompactionStep(p)
  BY <1>3 DEF CompactionStep, AutoCompact, CompactionCheck, LockTable, UnlockForMerge, Relock,
     CompactionWrite, CompactionRename, CompactionRenameFails, DeleteCompacted, CompactionDone
<1>4. CASE StartCall(p)
  BY <1>4 DEF StartCall, Open, Reload, CompactAll, Destroy, LockList, LockTaken
<1>5. CASE DestroyUnlink(p) \/ GiveUp(p)
  BY <1>5 DEF DestroyUnlink, GiveUp
<1> QED BY <1>1, <1>2, <1>3, <1>4, <1>5 DEF CallStep

\* No other step comes near the merge.
LEMMA FarFromMerge ==
  ASSUME TypeOK, ControlOK, NEW u \in Proc, OnlyMutator(u), HistoryInv(u), HistoryInv(u)',
         StartCall(u) \/ CallStep(u),
         ~UnlockForMerge(u), ~Merge(u), ~Relock(u), ~Install(u)
  PROVE  {pc[u], pc'[u]} \cap {"merge", "relock", "install"} = {}
<1> DEFINE Far == {pc[u], pc'[u]} \cap {"merge", "relock", "install"} = {}
<1>0. ReturnOK(u)
  BY DEF ControlOK
<1>1. ASSUME NEW k, EndReload(u, k), pc[u] \in {"uptodate", "open"}, k = AfterReload[ret[u]]
      PROVE  Far
  <2>1. k \in {"idle", "auto", "scan", "delete"}
    BY <1>0, <1>1 DEF ReturnOK, Reloading, AfterReload
  <2>2. pc'[u] = k
    BY <2>1, <1>1 DEF EndReload, Goto, TypeOK, CallsOK
  <2> QED BY <2>1, <2>2, <1>1
<1>2. CASE ReloadStep(u)
  <2>1. CASE ReadList(u) \/ ReuseReader(u) \/ OpenTable(u)
    BY <2>1 DEF ReadList, ReuseReader, OpenTable, MustOpen, Goto, TypeOK, CallsOK
  <2>2. CASE Swap(u)
    BY <2>2, <1>1 DEF Swap
  <2>3. CASE ReloadCheck(u)
    <3>1. pc[u] = "uptodate" /\ (Goto(u, "read") \/ EndReload(u, AfterReload[ret[u]]))
      BY <2>3 DEF ReloadCheck
    <3>2. CASE Goto(u, "read")
      BY <3>1, <3>2 DEF Goto, TypeOK, CallsOK
    <3> QED BY <3>1, <3>2, <1>1
  <2> QED BY <1>2, <2>1, <2>2, <2>3, MutatorGoesOn DEF ReloadStep
<1>3. CASE AdditionStep(u)
  <2>1. CASE AdditionClose(u)
    <3>1. ret[u] \in {"none", "plain", "scan", "auto"} /\ pc[u] = "adclose"
      BY <1>0, <2>1 DEF ReturnOK, AdditionClose
    <3>2. pc'[u] \in {"idle", "uptodate", "auto"}
      BY <3>1, <2>1, ReturnLabels DEF AdditionClose, Goto, TypeOK, CallsOK
    <3> QED BY <3>1, <3>2
  <2>2. CASE CheckLocked(u) \/ AddTable(u) \/ Abandon(u) \/ CommitNothing(u)
    BY <2>2 DEF CheckLocked, AddTable, Abandon, CommitNothing, Goto, TypeOK, CallsOK
  <2>3. CASE CommitWrite(u) \/ CommitRename(u) \/ CommitRenameFails(u) \/ Scan(u)
    BY <2>3 DEF CommitWrite, CommitRename, CommitRenameFails, Scan, Goto, TypeOK, CallsOK
  <2> QED BY <1>3, <2>1, <2>2, <2>3 DEF AdditionStep
<1>4. CASE AutoCompact(u) \/ CompactAll(u)
  BY <1>4 DEF AutoCompact, CompactAll, LockForCompaction, Goto, TypeOK, CallsOK
<1>5. CASE CompactionStep(u) /\ ~AutoCompact(u)
  <2>1. CASE CompactionCheck(u) \/ LockTable(u) \/ CompactionWrite(u)
    BY <2>1 DEF CompactionCheck, LockTable, CompactionWrite, Goto, TypeOK, CallsOK
  <2>2. CASE \/ CompactionRename(u) \/ CompactionRenameFails(u) \/ DeleteCompacted(u)
             \/ CompactionDone(u)
    BY <2>2 DEF CompactionRename, CompactionRenameFails, DeleteCompacted, CompactionDone, Goto, TypeOK,
       CallsOK
  <2> QED BY <1>5, <2>1, <2>2 DEF CompactionStep
<1>6. CASE StartCall(u) /\ ~CompactAll(u)
  BY <1>6 DEF StartCall, Open, Reload, Destroy, LockList, LockTaken, Goto, TypeOK, CallsOK
<1>7. CASE DestroyUnlink(u)
  BY <1>7 DEF DestroyUnlink, Forget, Goto, TypeOK, CallsOK
<1> QED BY <1>2, <1>3, <1>4, <1>5, <1>6, <1>7 DEF CallStep

\* A step of u makes the temporary file or names it.
LEMMA OwnTemps ==
  ASSUME TypeOK, ControlOK, ~Faults, NEW u \in Proc, OnlyMutator(u), HistoryInv(u), HistoryInv(u)',
         TidyInv(u), TempsTidy(u), StartCall(u) \/ CallStep(u) \/ GiveUp(u) \/ Crash(u)
  PROVE  TempsTidy(u)'
<1>0. TempLeft(u) \in {0, 1}
  BY DEF TempLeft
<1>1. CASE Crash(u)
  BY <1>1 DEF Crash, TempsTidy, TypeOK, HistoryOK
<1>2. CASE UnlockForMerge(u)
  <2>1. /\ pc[u] = "cpsub" /\ UNCHANGED <<temps, crashes>>
        /\ pc'[u] = "cpdone" \/ (pc'[u] = "merge" /\ ~job'[u].held)
    BY <1>2, JobFields DEF UnlockForMerge, Goto, TypeOK, CallsOK, Jobs
  <2> QED BY <2>1 DEF TempsTidy
<1>3. CASE Merge(u)
  <2>1. /\ pc[u] = "merge" /\ pc'[u] = "relock" /\ UNCHANGED <<st, job, crashes>>
        /\ temps' = [temps EXCEPT ![u] = @ + TempLeft(u)]
    BY <1>3 DEF Merge, Goto, TypeOK, CallsOK
  <2>2. temps'[u] = temps[u] + TempLeft(u) /\ \A q \in Proc \ {u} : temps'[q] = temps[q]
    BY <2>1 DEF TypeOK, HistoryOK
  <2>3. TempLeft(u)' = TempLeft(u)
    BY <2>1 DEF TempLeft
  <2> QED BY <2>1, <2>2, <2>3, <1>0 DEF TempsTidy
<1>4. CASE Relock(u)
  <2>1. /\ pc[u] = "relock" /\ UNCHANGED <<st, temps, crashes>>
        /\ \/ pc'[u] = "install" /\ job'[u].first = job[u].first /\ job'[u].last = job[u].last
           \/ pc'[u] = "cpdone" /\ lockFile # NoFile
    BY <1>4, JobFields DEF Relock, Goto, TypeOK, CallsOK, Jobs
  <2>2. ASSUME crashes = 0 PROVE lockFile = NoFile
    BY <2>1, <2>2 DEF TempsTidy, TidyInv, LocksTidy, Locked
  <2>3. pc'[u] = "install" => TempLeft(u)' = TempLeft(u)
    BY <2>1 DEF TempLeft
  <2> QED BY <2>1, <2>2, <2>3 DEF TempsTidy
<1>5. CASE Install(u)
  <2>1. /\ pc[u] = "install" /\ pc'[u] \in {"cpwrite", "cpdone"} /\ crashes' = crashes
        /\ \/ TempLeft(u) = 0 /\ UNCHANGED temps
           \/ TempLeft(u) = 1 /\ temps' = [temps EXCEPT ![u] = @ - 1]
           \/ TempLeft(u) = 1 /\ temps[u] = 0
    BY <1>5 DEF Install, TempLeft, Goto, TypeOK, CallsOK
  <2>2. CASE temps' = [temps EXCEPT ![u] = @ - 1] /\ TempLeft(u) = 1
    <3>1. temps'[u] = temps[u] - 1 /\ \A q \in Proc \ {u} : temps'[q] = temps[q]
      BY <2>2 DEF TypeOK, HistoryOK
    <3> QED BY <2>1, <2>2, <3>1 DEF TempsTidy
  <2> QED BY <2>1, <2>2 DEF TempsTidy
<1>6. CASE ~UnlockForMerge(u) /\ ~Merge(u) /\ ~Relock(u) /\ ~Install(u) /\ ~Crash(u)
  <2>1. StartCall(u) \/ CallStep(u)
    BY <1>6, MutatorGoesOn
  <2>2. UNCHANGED <<temps, crashes>> /\ {pc[u], pc'[u]} \cap {"merge", "relock", "install"} = {}
    BY <2>1, <1>6, TempsKept, FarFromMerge
  <2> QED BY <2>2 DEF TempsTidy
<1> QED BY <1>1, <1>2, <1>3, <1>4, <1>5, <1>6

\* The others make none.
LEMMA OthersTemps ==
  ASSUME TypeOK, NEW u \in Proc, OnlyMutator(u), HistoryInv(u), TempsTidy(u), NEW p \in Proc \ {u},
         StartCall(p) \/ CallStep(p) \/ GiveUp(p) \/ Crash(p)
  PROVE  TempsTidy(u)'
<1>1. OthersUnchanged(p)
  BY OthersKeep
<1>2. pc'[u] = pc[u] /\ st'[u] = st[u] /\ job'[u] = job[u]
  BY <1>1 DEF OthersUnchanged
<1>3. TempLeft(u)' = TempLeft(u)
  BY <1>2 DEF TempLeft
<1>4. CASE Crash(p)
  BY <1>4 DEF Crash, TempsTidy, TypeOK, HistoryOK
<1>5. CASE ~Crash(p)
  <2>1. ~Merge(p) /\ ~Install(p)
    BY MutatorActs DEF CompactionStep
  <2>2. UNCHANGED <<temps, crashes>>
    BY <2>1, <1>5, TempsKept
  <2> QED BY <2>2, <1>2, <1>3 DEF TempsTidy
<1> QED BY <1>4, <1>5

\* The invariant is inductive, and holds throughout.
LEMMA TempsCorrect ==
  ASSUME ~Faults, NEW u \in Proc, OnlyMutator(u) PROVE Spec => []TempsTidy(u)
<1>1. ASSUME TypeOK, ControlOK, HistoryInv(u), TidyInv(u), TempsTidy(u), [Next]_vars
      PROVE  TempsTidy(u)'
  <2>1. HistoryInv(u)'
    BY <1>1, StepHistory
  <2>2. CASE UNCHANGED vars
    <3>1. UNCHANGED <<pc, st, job, temps, crashes>>
      BY <2>2 DEF vars
    <3> QED BY <3>1, <1>1 DEF TempsTidy, TempLeft
  <2>3. ASSUME NEW p \in Proc, StartCall(p) \/ CallStep(p) \/ GiveUp(p) \/ Crash(p)
        PROVE  TempsTidy(u)'
    <3>1. CASE p = u
      BY <1>1, <2>1, <2>3, <3>1, OwnTemps
    <3>2. CASE p # u
      BY <1>1, <2>3, <3>2, OthersTemps
    <3> QED BY <3>1, <3>2
  <2> QED BY <1>1, <2>2, <2>3 DEF Next
<1>2. Init => TempsTidy(u)
  BY DEF Init, TempsTidy
<1> QED BY <1>1, <1>2, HistoryCorrect, TidyCorrect, PTL DEF Spec

\* With one process that compacts, no temporary file of a merge is left at rest,
\* whatever range is compacted, whether or not the merge has records, and whoever
\* reloads meanwhile, as long as system calls do not fail.  With a second writer
\* on the list, or a rename that fails, the code forgets the file.
THEOREM MutatorLeavesNoTemps ==
  ASSUME ~Faults, NEW u \in Proc, OnlyMutator(u) PROVE Spec => []NoTempsLeft
<1>1. ASSUME TempsTidy(u), AtRest PROVE \A p \in Proc : temps[p] = 0
  BY <1>1 DEF TempsTidy, AtRest
<1>2. TempsTidy(u) => NoTempsLeft
  BY <1>1 DEF NoTempsLeft
<1> QED BY <1>2, TempsCorrect, PTL
=============================================================================
