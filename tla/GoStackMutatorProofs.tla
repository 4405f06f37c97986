------------------------ MODULE GoStackMutatorProofs ------------------------
(***************************************************************************)
(* Theorems about a Go stack that one process changes, adding, cleaning,   *)
(* compacting and expiring, while any number of others open and close it:  *)
(* tables.list and the files it names always say what was committed, every *)
(* process reads a state of the history, and no file or lock is forgotten. *)
(* The processes may die at any step and start again.  Two things are left *)
(* out, each of which breaks this in the code: system calls that fail, and *)
(* a second process that changes the stack.                                *)
(***************************************************************************)
EXTENDS GoStackProofs

\* u is the only process that changes the stack.
OnlyMutator(u) == /\ ~Faults
                  /\ \A p \in Proc \ {u} : Calls[p] \subseteq {"close"}

\* The steps at which u has a range of the list to replace, has the table to
\* replace it by, or has replaced it.
HasRange(u)  == pc[u] \in {"cpcheck", "cpsub", "relock", "install", "cpwrite", "cprename"}
Replacing(u) == pc[u] \in {"cpwrite", "cprename"}

\* The tables that u has on disk and is about to list, and all that are listed
\* or may be once u goes on.
Pending(u) == ReaderNames(newt[u]) \cup {n \in {job[u].new} : Replacing(u) /\ n # NoName}
Coming(u)  == NameSet(list) \cup Pending(u)

\* The list names each file once, and the files hold what was committed.
FilesGood(u) == /\ Durable
                /\ Distinct(list)
                /\ Pending(u) \cap NameSet(list) = {}

\* A stack shows the state of its version, whether or not its files are there.
StackOK(p) == /\ Faithful(st[p]) /\ Faithful(load[p].opened)
              /\ ver[p] <= Len(hist)
              /\ View(st[p]) = IF ver[p] = 0 THEN NoRecs ELSE hist[ver[p]]

\* The contents a reload may yet read for the i-th name of its list.
MayRead(p, i) ==
  IF i <= Len(load[p].opened) THEN {load[p].opened[i].recs}
  ELSE {st[p][j].recs : j \in {k \in 1..Len(st[p]) : st[p][k].name = load[p].names[i]}}
       \cup {dir[n] : n \in {load[p].names[i]} \cap DOMAIN dir}
Readable(p) == {ts \in [1..Len(load[p].names) -> Contents] :
                  \A i \in 1..Len(load[p].names) : ts[i] \in MayRead(p, i)}

\* Whatever a reload reads, if it comes to an end it shows the state that its
\* list had when it was read, and that is no older than what it showed before.
LoadOK(p) ==
  pc[p] = "open" =>
    /\ load[p].at \in 1..Len(hist) /\ ver[p] <= load[p].at
    /\ Len(load[p].opened) <= Len(load[p].names)
    /\ \A i \in 1..Len(load[p].opened) : load[p].opened[i].name = load[p].names[i]
    /\ \A ts \in Readable(p) : Live(Merged(ts)) = hist[load[p].at]

\* What a process no longer finds in the list, and will remove, does not come
\* back to the list.
Gone(p) == ReaderNames(st[p]) \ NameSet(load[p].names)
NotBack(u, p) ==
  /\ Pending(u) \cap (ReaderNames(st[p]) \cup NameSet(load[p].names)) = {}
  /\ pc[p] \in {"open", "close"} => Gone(p) \cap Coming(u) = {}

\* A compaction with expiry replaces the whole list, so that the reload after it,
\* which removes all tables of the old stack, removes none that is listed.
ExpirySteps == {"cpcheck", "cpsub", "relock", "install", "cpwrite", "cprename", "delete",
                "read", "open", "cpdone", "cplast"}
ExpiryOK(u, p) ==
  job[p].expire =>
    /\ pc[p] \in ExpirySteps /\ (pc[p] \in {"read", "open"} => ret[p] = "compact")
    /\ HasRange(p) => job[p].first = 1 /\ job[p].last = Len(st[p])
    /\ pc[p] \in {"delete", "read", "open"} => ReaderNames(st[p]) \cap Coming(u) = {}

ProcessOK(u, p) == StackOK(p) /\ LoadOK(p) /\ NotBack(u, p) /\ ExpiryOK(u, p)

\* The others do nothing but open and close.
ReaderOK(q) ==
  /\ pc[q] \in {"closed", "idle", "read", "open", "recheck", "close"}
  /\ pc[q] \in Reloading => ret[q] = "open"
  /\ newt[q] = <<>> /\ job[q] = NoJob /\ lock[q] = "none"

\* The stack of u is the list, except from a rename to the end of the reload
\* that follows it; that reload finds all its tables at once.
UpToDateOK(u) ==
  /\ pc[u] \notin {"closed", "aborted", "read", "open", "delete"}
       => NamesOf(st[u]) = list /\ ver[u] = Len(hist)
  /\ pc[u] \in {"open", "close"} => load[u].names = list
  /\ pc[u] = "open" => load[u].at = Len(hist)
  /\ pc[u] # "open" => load[u].tries = 0
  /\ pc[u] # "recheck"
  /\ pc[u] \in {"locked", "adding", "install", "cpwrite"} => fdAt[u] = "lock"

\* The tables of its addition are on disk, and its lock file lists them on top.
AdditionOK(u) ==
  /\ newt[u] # <<>> => pc[u] \in {"adding", "rename", "adclose"}
  /\ Len(newt[u]) <= MaxTables /\ Distinct(NamesOf(newt[u]))
  /\ \A i \in 1..Len(newt[u]) : /\ newt[u][i].name \in DOMAIN dir
                                /\ newt[u][i].recs = dir[newt[u][i].name]
                                /\ newt[u][i].recs \in Batches
  /\ pc[u] = "rename" => /\ newt[u] # <<>>
                         /\ lockFile = NamesOf(st[u]) \o NamesOf(newt[u])

\* Its compaction replaces a range of the list by the merge of its tables, and
\* then removes tables that are not listed any more.  CompactAll with expiry may
\* be given no table at all, and then panics before it has a merged one.
RangeFits(u) ==
  /\ job[u].first \in 1..Len(st[u]) /\ job[u].last \in job[u].first..Len(st[u])
  /\ job[u].old \subseteq {st[u][i].name : i \in job[u].first..job[u].last}
ReplacementFits(u) ==
  IF job[u].new = NoName
  THEN CompactedRecs(st[u], job[u].first, job[u].last) = NoRecs
  ELSE /\ job[u].new \in DOMAIN dir
       /\ dir[job[u].new] = CompactedRecs(st[u], job[u].first, job[u].last)
CompactionOK(u) ==
  /\ HasRange(u) => RangeFits(u) \/ (pc[u] \in Merging /\ job[u].last = 0)
  /\ HasRange(u) /\ ~Replacing(u) => job[u].new = NoName
  /\ Replacing(u) => ReplacementFits(u)
  /\ pc[u] = "cprename" =>
       lockFile = Spliced(NamesOf(st[u]), job[u].first, job[u].last, Replacement(u))
  /\ pc[u] = "delete" => job[u].old \cap NameSet(list) = {}

MutatorOK(u) == UpToDateOK(u) /\ AdditionOK(u) /\ CompactionOK(u)

MutatorInv(u) == /\ FilesGood(u) /\ MutatorOK(u)
                 /\ \A p \in Proc : ProcessOK(u, p)
                 /\ \A q \in Proc \ {u} : ReaderOK(q)

\* What no step does: bring back a name that is in use, to the directory or to
\* what may be listed, write a file again, or change the past.
Kept(u) ==
  /\ \A n \in HeldNames \cap DOMAIN dir' : n \in DOMAIN dir /\ dir'[n] = dir[n]
  /\ HeldNames \cap Coming(u)' \subseteq Coming(u)
  /\ HeldNames \cap Pending(u)' \subseteq Pending(u)
  /\ Len(hist) <= Len(hist') /\ \A i \in 1..Len(hist) : hist'[i] = hist[i]

\* What a step of p leaves true.
StepOK(u, p) == /\ Kept(u) /\ FilesGood(u)' /\ MutatorOK(u)'
                /\ ProcessOK(u, p)'
                /\ p # u => ReaderOK(p)'

-----------------------------------------------------------------------------
(* Names in use *)

\* Names that the directory, the list, a stack or a call refers to are in use.
LEMMA NamesInUse ==
  ASSUME NEW p \in Proc
  PROVE  /\ DOMAIN dir \subseteq HeldNames /\ NameSet(list) \subseteq HeldNames
         /\ ReaderNames(st[p]) \subseteq HeldNames /\ ReaderNames(load[p].opened) \subseteq HeldNames
         /\ ReaderNames(newt[p]) \subseteq HeldNames /\ NameSet(load[p].names) \subseteq HeldNames
         /\ job[p].new \in HeldNames
         /\ Coming(p) \subseteq HeldNames
<1> DEFINE mine(q) == ReaderNames(st[q]) \cup ReaderNames(load[q].opened)
                      \cup ReaderNames(newt[q]) \cup NameSet(load[q].names)
                      \cup job[q].old \cup {job[q].new}
<1>1. mine(p) \subseteq UNION {mine(q) : q \in Proc}
  OBVIOUS
<1>2. mine(p) \subseteq HeldNames /\ DOMAIN dir \subseteq HeldNames /\ NameSet(list) \subseteq HeldNames
  BY <1>1 DEF HeldNames
<1>3. /\ ReaderNames(st[p]) \subseteq mine(p) /\ ReaderNames(load[p].opened) \subseteq mine(p)
      /\ ReaderNames(newt[p]) \subseteq mine(p) /\ NameSet(load[p].names) \subseteq mine(p)
      /\ job[p].new \in mine(p)
  OBVIOUS
<1>4. Coming(p) \subseteq NameSet(list) \cup mine(p)
  BY <1>3 DEF Coming, Pending
<1> HIDE DEF mine
<1> QED BY <1>2, <1>3, <1>4

\* The sequences that processes hold, by their types.
LEMMA HeldTypes ==
  ASSUME TypeOK, NEW p \in Proc
  PROVE  /\ st[p] \in Seq(Reader) /\ load[p].opened \in Seq(Reader) /\ newt[p] \in Seq(Reader)
         /\ load[p].names \in Seq(TableName) /\ list \in Seq(TableName)
         /\ NamesOf(st[p]) \in Seq(TableName) /\ Len(NamesOf(st[p])) = Len(st[p])
         /\ NamesOf(newt[p]) \in Seq(TableName) /\ Len(NamesOf(newt[p])) = Len(newt[p])
         /\ hist \in Seq(Database) /\ hist # <<>> /\ Len(hist) \in Nat /\ Len(hist) # 0
         /\ ver[p] \in Nat /\ load[p].at \in Nat /\ FilesOK
<1>1. /\ st[p] \in Seq(Reader) /\ load[p].opened \in Seq(Reader) /\ newt[p] \in Seq(Reader)
      /\ load[p].names \in Seq(TableName) /\ list \in Seq(TableName) /\ load[p].at \in Nat
  BY LoadFields DEF TypeOK, FilesOK, StacksOK, CallsOK
<1>2. /\ NamesOf(st[p]) \in Seq(TableName) /\ Len(NamesOf(st[p])) = Len(st[p])
      /\ NamesOf(newt[p]) \in Seq(TableName) /\ Len(NamesOf(newt[p])) = Len(newt[p])
  BY <1>1, NamesOfType
<1>3. hist \in Seq(Database) /\ hist # <<>> /\ ver[p] \in Nat /\ FilesOK
  BY DEF TypeOK, HistoryOK
<1>4. Len(hist) \in Nat /\ Len(hist) # 0
  BY <1>3, EmptySeq
<1> QED BY <1>1, <1>2, <1>3, <1>4

\* Unless u is in an addition or about to list a merged table, nothing is pending.
LEMMA NothingPending ==
  ASSUME NEW u \in Proc, AdditionOK(u),
         pc[u] \notin {"adding", "rename", "adclose", "cpwrite", "cprename"}
  PROVE  newt[u] = <<>> /\ Pending(u) = {} /\ Coming(u) = NameSet(list)
<1>1. newt[u] = <<>> /\ ~Replacing(u)
  BY DEF AdditionOK, Replacing
<1> QED BY <1>1, NothingOpen DEF Pending, Coming

-----------------------------------------------------------------------------
(* What a step of anyone leaves to a process that takes no part in it      *)

\* Its stack still shows the state of its version.
LEMMA StackStays ==
  ASSUME TypeOK, NEW u \in Proc, NEW q \in Proc, StackOK(q), Kept(u),
         st'[q] = st[q], ver'[q] = ver[q], load'[q].opened \in {load[q].opened, <<>>}
  PROVE  StackOK(q)'
<1>1. \A n \in HeldNames \cap DOMAIN dir' : n \in DOMAIN dir /\ dir'[n] = dir[n]
  BY DEF Kept
<1>2. Faithful(st[q])'
  <2>1. \A i \in 1..Len(st[q]) : st[q][i].name \in HeldNames
    BY HeldTypes, NamesInUse, ReaderAt
  <2> QED BY <2>1, <1>1 DEF StackOK, Faithful
<1>3. Faithful(load[q].opened)'
  <2>1. \A i \in 1..Len(load[q].opened) : load[q].opened[i].name \in HeldNames
    BY HeldTypes, NamesInUse, ReaderAt
  <2>2. CASE load'[q].opened = load[q].opened
    BY <2>1, <2>2, <1>1 DEF StackOK, Faithful
  <2>3. CASE load'[q].opened = <<>>
    BY <2>3, NothingOpen DEF Faithful
  <2> QED BY <2>2, <2>3
<1>4. ver[q] <= Len(hist') /\ (ver[q] # 0 => hist'[ver[q]] = hist[ver[q]])
  <2>1. ver[q] \in Nat /\ Len(hist) \in Nat /\ ver[q] <= Len(hist)
    BY HeldTypes DEF StackOK
  <2>2. Len(hist) <= Len(hist') /\ \A i \in 1..Len(hist) : hist'[i] = hist[i]
    BY DEF Kept
  <2>3. Len(hist') \in Nat \/ ver[q] <= Len(hist')
    BY <2>1, <2>2
  <2> QED BY <2>1, <2>2, <2>3
<1> QED BY <1>2, <1>3, <1>4 DEF StackOK

\* Its reload can read no more than before.
LEMMA LoadStays ==
  ASSUME TypeOK, NEW u \in Proc, NEW q \in Proc, LoadOK(q), Kept(u), pc'[q] = pc[q],
         st'[q] = st[q], load'[q] = load[q], ver'[q] = ver[q]
  PROVE  LoadOK(q)'
<1> SUFFICES ASSUME pc[q] = "open"
             PROVE  /\ load[q].at \in 1..Len(hist') /\ ver[q] <= load[q].at
                    /\ Len(load[q].opened) <= Len(load[q].names)
                    /\ \A i \in 1..Len(load[q].opened) : load[q].opened[i].name = load[q].names[i]
                    /\ \A ts \in Readable(q)' : Live(Merged(ts)) = hist'[load[q].at]
  BY DEF LoadOK
<1>1. /\ \A n \in HeldNames \cap DOMAIN dir' : n \in DOMAIN dir /\ dir'[n] = dir[n]
      /\ Len(hist) <= Len(hist') /\ \A i \in 1..Len(hist) : hist'[i] = hist[i]
  BY DEF Kept
<1>2. Readable(q)' \subseteq Readable(q)
  <2>1. ASSUME NEW i \in 1..Len(load[q].names) PROVE MayRead(q, i)' \subseteq MayRead(q, i)
    <3>1. load[q].names[i] \in HeldNames
      BY NamesInUse DEF NameSet
    <3>2. \A n \in {load[q].names[i]} \cap DOMAIN dir' : n \in DOMAIN dir /\ dir'[n] = dir[n]
      BY <3>1, <1>1
    <3>3. {dir'[n] : n \in {load[q].names[i]} \cap DOMAIN dir'}
            \subseteq {dir[n] : n \in {load[q].names[i]} \cap DOMAIN dir}
      BY <3>2
    <3> QED BY <3>3 DEF MayRead
  <2>2. \A ts \in Readable(q)' : /\ ts \in [1..Len(load[q].names) -> Contents]
                                 /\ \A i \in 1..Len(load[q].names) : ts[i] \in MayRead(q, i)'
    BY DEF Readable
  <2> QED BY <2>1, <2>2 DEF Readable
<1>3. load[q].at \in 1..Len(hist') /\ hist'[load[q].at] = hist[load[q].at]
  <2>1. load[q].at \in 1..Len(hist) /\ Len(hist) \in Nat
    BY HeldTypes DEF LoadOK
  <2> QED BY <2>1, <1>1
<1> QED BY <1>2, <1>3 DEF LoadOK

\* What it will remove does not come back.
LEMMA NotBackStays ==
  ASSUME NEW u \in Proc, NEW q \in Proc, NotBack(u, q), Kept(u), pc'[q] = pc[q],
         st'[q] = st[q], load'[q] = load[q]
  PROVE  NotBack(u, q)'
<1>1. /\ ReaderNames(st[q]) \subseteq HeldNames /\ NameSet(load[q].names) \subseteq HeldNames
      /\ HeldNames \cap Coming(u)' \subseteq Coming(u)
      /\ HeldNames \cap Pending(u)' \subseteq Pending(u)
  BY NamesInUse DEF Kept
<1>2. Gone(q)' = Gone(q) /\ Gone(q) \subseteq ReaderNames(st[q])
  BY DEF Gone
<1>3. Pending(u)' \cap (ReaderNames(st[q]) \cup NameSet(load[q].names)) = {}
  BY <1>1 DEF NotBack
<1>4. pc[q] \in {"open", "close"} => Gone(q) \cap Coming(u)' = {}
  BY <1>1, <1>2 DEF NotBack
<1> QED BY <1>2, <1>3, <1>4 DEF NotBack

\* What a reload after an expiry will remove is not listed again either.
LEMMA ExpiryStays ==
  ASSUME NEW u \in Proc, NEW q \in Proc, ExpiryOK(u, q), Kept(u), pc'[q] = pc[q], ret'[q] = ret[q],
         st'[q] = st[q], job'[q] = job[q]
  PROVE  ExpiryOK(u, q)'
<1>1. ReaderNames(st[q]) \subseteq HeldNames /\ HeldNames \cap Coming(u)' \subseteq Coming(u)
  BY NamesInUse DEF Kept
<1>2. ReaderNames(st[q]) \cap Coming(u) = {} => ReaderNames(st[q]) \cap Coming(u)' = {}
  BY <1>1
<1> QED BY <1>2 DEF ExpiryOK, HasRange

\* Outside compactions nothing expires.
LEMMA NoExpiry ==
  ASSUME NEW u \in Proc, NEW p \in Proc, ExpiryOK(u, p), pc[p] \notin ExpirySteps,
         job'[p].expire = job[p].expire
  PROVE  ExpiryOK(u, p)'
BY DEF ExpiryOK

\* In all.
LEMMA OthersStay ==
  ASSUME TypeOK, NEW u \in Proc, NEW p \in Proc, NEW q \in Proc \ {p}, ProcessOK(u, q), Kept(u),
         OthersUnchanged(p)
  PROVE  ProcessOK(u, q)' /\ (ReaderOK(q) => ReaderOK(q)')
<1>1. /\ pc'[q] = pc[q] /\ st'[q] = st[q] /\ load'[q] = load[q] /\ ret'[q] = ret[q]
      /\ newt'[q] = newt[q] /\ job'[q] = job[q] /\ lock'[q] = lock[q] /\ ver'[q] = ver[q]
  BY DEF OthersUnchanged
<1>2. StackOK(q)' /\ LoadOK(q)' /\ NotBack(u, q)' /\ ExpiryOK(u, q)'
  BY <1>1, StackStays, LoadStays, NotBackStays, ExpiryStays DEF ProcessOK
<1> QED BY <1>1, <1>2 DEF ProcessOK, ReaderOK

\* No file that is pending has gone, and no file has appeared: what u is doing is
\* as it was, whatever process p did.
LEMMA MutatorStays ==
  ASSUME NEW u \in Proc, NEW p \in Proc \ {u}, MutatorOK(u), OthersUnchanged(p),
         UNCHANGED <<list, lockFile, hist>>, fdAt'[u] = fdAt[u],
         DOMAIN dir \cap Pending(u) \subseteq DOMAIN dir',
         \A n \in DOMAIN dir' : n \in DOMAIN dir /\ dir'[n] = dir[n]
  PROVE  MutatorOK(u)'
<1>1. /\ pc'[u] = pc[u] /\ st'[u] = st[u] /\ load'[u] = load[u]
      /\ ret'[u] = ret[u] /\ newt'[u] = newt[u] /\ job'[u] = job[u] /\ ver'[u] = ver[u]
  BY DEF OthersUnchanged
<1>2. UpToDateOK(u)'
  BY <1>1 DEF MutatorOK, UpToDateOK
<1>3. AdditionOK(u)'
  <2>1. ASSUME NEW i \in 1..Len(newt[u])
        PROVE  newt[u][i].name \in DOMAIN dir' /\ newt[u][i].recs = dir'[newt[u][i].name]
    <3>1. newt[u][i].name \in Pending(u) /\ newt[u][i].name \in DOMAIN dir
      BY DEF Pending, ReaderNames, MutatorOK, AdditionOK
    <3>2. newt[u][i].recs = dir[newt[u][i].name]
      BY DEF MutatorOK, AdditionOK
    <3> QED BY <3>1, <3>2
  <2> QED BY <1>1, <2>1 DEF MutatorOK, AdditionOK
<1>4. Replacing(u) => ReplacementFits(u)'
  <2>1. Replacing(u) /\ job[u].new # NoName => job[u].new \in DOMAIN dir /\ job[u].new \in Pending(u)
    BY DEF Pending, MutatorOK, CompactionOK, ReplacementFits
  <2> QED BY <1>1, <2>1 DEF MutatorOK, CompactionOK, ReplacementFits
<1>5. RangeFits(u)' = RangeFits(u)
  BY <1>1 DEF RangeFits
<1>6. CompactionOK(u)'
  BY <1>1, <1>4, <1>5 DEF MutatorOK, CompactionOK, HasRange, Replacing, Replacement
<1> QED BY <1>2, <1>3, <1>6 DEF MutatorOK

-----------------------------------------------------------------------------
(* What a step leaves to the list, and to the process that takes it        *)

\* A step that leaves the list and its files alone, and makes nothing pending,
\* keeps what is listed; other files may have gone.
LEMMA FilesStay ==
  ASSUME TypeOK, NEW u \in Proc, FilesGood(u), UNCHANGED <<list, hist>>,
         NameSet(list) \subseteq DOMAIN dir',
         \A n \in HeldNames \cap DOMAIN dir' : n \in DOMAIN dir /\ dir'[n] = dir[n],
         HeldNames \cap Pending(u)' \subseteq Pending(u)
  PROVE  Kept(u) /\ FilesGood(u)'
<1>1. Coming(u)' = NameSet(list) \cup Pending(u)' /\ NameSet(list) \subseteq HeldNames
  BY NamesInUse DEF Coming
<1>2. Kept(u)
  <2>1. HeldNames \cap Coming(u)' \subseteq Coming(u)
    BY <1>1 DEF Coming
  <2>2. Len(hist) <= Len(hist')
    BY HeldTypes
  <2> QED BY <2>1, <2>2 DEF Kept
<1>3. Durable'
  <2>1. ListIntact'
    BY DEF ListIntact
  <2>2. \A i \in 1..Len(list) : dir'[list[i]] = dir[list[i]]
    BY <1>1 DEF NameSet
  <2>3. Listed' = Listed
    BY <2>2 DEF Listed
  <2> QED BY <2>1, <2>3 DEF FilesGood, Durable
<1>4. Pending(u)' \cap NameSet(list) = {}
  BY <1>1 DEF FilesGood
<1> QED BY <1>2, <1>3, <1>4 DEF FilesGood

\* In particular if no file changes at all.
LEMMA NoFileChanges ==
  ASSUME TypeOK, NEW u \in Proc, FilesGood(u), UNCHANGED <<dir, list, hist>>,
         HeldNames \cap Pending(u)' \subseteq Pending(u)
  PROVE  Kept(u) /\ FilesGood(u)'
<1>1. NameSet(list) \subseteq DOMAIN dir
  BY DEF FilesGood, Durable, ListIntact
<1> QED BY <1>1, FilesStay

\* Or if files go that are not listed.
LEMMA FilesGo ==
  ASSUME TypeOK, NEW u \in Proc, FilesGood(u), UNCHANGED <<list, hist>>,
         NEW files, dir' = Without(files), files \cap NameSet(list) = {},
         HeldNames \cap Pending(u)' \subseteq Pending(u)
  PROVE  /\ Kept(u) /\ FilesGood(u)'
         /\ DOMAIN dir' = DOMAIN dir \ files
         /\ \A n \in DOMAIN dir' : n \in DOMAIN dir /\ dir'[n] = dir[n]
<1>1. DOMAIN dir' = DOMAIN dir \ files /\ \A n \in DOMAIN dir' : n \in DOMAIN dir /\ dir'[n] = dir[n]
  BY DEF Without
<1>2. NameSet(list) \subseteq DOMAIN dir'
  BY <1>1 DEF FilesGood, Durable, ListIntact
<1> QED BY <1>1, <1>2, FilesStay

\* A process that goes on with the same stack, and neither reads a list nor is
\* about to remove what it has.
LEMMA ProcessMoves ==
  ASSUME TypeOK, NEW u \in Proc, NEW p \in Proc, ProcessOK(u, p), Kept(u),
         st'[p] = st[p], ver'[p] = ver[p], ExpiryOK(u, p)',
         load'[p].opened \in {load[p].opened, <<>>}, load'[p].names \in {load[p].names, <<>>},
         pc'[p] \notin {"open", "close"}
  PROVE  ProcessOK(u, p)'
<1>1. StackOK(p)' /\ LoadOK(p)'
  BY StackStays DEF ProcessOK, LoadOK
<1>2. Pending(u)' \cap (ReaderNames(st[p]) \cup NameSet(load[p].names)) = {}
  <2>1. /\ ReaderNames(st[p]) \subseteq HeldNames /\ NameSet(load[p].names) \subseteq HeldNames
        /\ HeldNames \cap Pending(u)' \subseteq Pending(u)
    BY NamesInUse DEF Kept
  <2> QED BY <2>1 DEF ProcessOK, NotBack
<1>3. Pending(u)' \cap (ReaderNames(st'[p]) \cup NameSet(load'[p].names)) = {}
  BY <1>2, NothingOpen
<1>4. NotBack(u, p)'
  BY <1>3 DEF NotBack
<1> QED BY <1>1, <1>4 DEF ProcessOK

\* A process whose stack is the list shows the newest state.
LEMMA UpToDateShows ==
  ASSUME TypeOK, NEW u \in Proc, FilesGood(u), NEW p \in Proc, StackOK(p), list = NamesOf(st[p])
  PROVE  /\ RecsOf(st[p]) = Listed /\ View(st[p]) = hist[Len(hist)]
         /\ \A i \in 1..Len(st[p]) : st[p][i].name \in DOMAIN dir /\ st[p][i].recs = dir[st[p][i].name]
<1>1. Len(list) = Len(st[p]) /\ \A i \in 1..Len(st[p]) : list[i] = st[p][i].name
  BY HeldTypes, NamesOfType
<1>2. ASSUME NEW i \in 1..Len(st[p]) PROVE st[p][i].name \in DOMAIN dir /\ st[p][i].recs = dir[st[p][i].name]
  <2>1. st[p][i].name \in DOMAIN dir
    BY <1>1 DEF FilesGood, Durable, ListIntact, NameSet
  <2> QED BY <2>1 DEF StackOK, Faithful
<1>3. RecsOf(st[p]) = Listed
  BY <1>1, <1>2 DEF RecsOf, Listed
<1> QED BY <1>2, <1>3 DEF View, FilesGood, Durable

\* What is pending depends on the addition and the compaction of u alone.
LEMMA PendingStays ==
  ASSUME NEW u \in Proc, NEW p \in Proc, OthersUnchanged(p), newt'[p] = newt[p], job'[p] = job[p],
         p = u => ~Replacing(u) /\ ~Replacing(u)'
  PROVE  Pending(u)' = Pending(u) /\ (list' = list => Coming(u)' = Coming(u))
<1>1. newt'[u] = newt[u] /\ job'[u] = job[u]
  BY DEF OthersUnchanged
<1>2. Replacing(u)' = Replacing(u)
  <2>1. p # u => pc'[u] = pc[u]
    BY DEF OthersUnchanged
  <2> QED BY <2>1 DEF Replacing
<1> QED BY <1>1, <1>2 DEF Pending, Coming

\* A step that changes neither files nor stacks: control moves on.
LEMMA ControlMoves ==
  ASSUME TypeOK, NEW u \in Proc, MutatorInv(u), NEW p \in Proc, OthersUnchanged(p),
         UNCHANGED <<dir, list, hist>>, st'[p] = st[p], ver'[p] = ver[p], newt'[p] = newt[p],
         p # u => job'[p] = job[p] /\ UNCHANGED <<lockFile, fdAt>> /\ ReaderOK(p)',
         p = u => /\ MutatorOK(u)' /\ ExpiryOK(u, u)'
                  /\ Replacing(u)' => Replacing(u) /\ job'[u] = job[u],
         load'[p].opened \in {load[p].opened, <<>>}, load'[p].names \in {load[p].names, <<>>},
         pc'[p] \notin {"open", "close"}
  PROVE  StepOK(u, p)
<1>1. FilesGood(u) /\ MutatorOK(u) /\ ProcessOK(u, p)
  BY DEF MutatorInv
<1>2. Pending(u)' \subseteq Pending(u)
  <2>1. CASE p # u
    BY <2>1, PendingStays
  <2>2. CASE p = u
    BY <2>2 DEF Pending
  <2> QED BY <2>1, <2>2
<1>3. Kept(u) /\ FilesGood(u)'
  BY <1>1, <1>2, NoFileChanges
<1>4. ExpiryOK(u, p)'
  BY DEF ReaderOK, ExpiryOK, NoJob
<1>5. ProcessOK(u, p)'
  BY <1>1, <1>3, <1>4, ProcessMoves
<1>6. MutatorOK(u)'
  <2>1. CASE p # u
    BY <2>1, <1>1, MutatorStays
  <2> QED BY <2>1
<1> QED BY <1>3, <1>5, <1>6 DEF StepOK


-----------------------------------------------------------------------------
(* The steps of a reload *)

\* u is where nothing is expected of its tables or of a range.
LEMMA MutatorRests ==
  ASSUME NEW u \in Proc, newt'[u] = <<>>, UpToDateOK(u)', ~HasRange(u)',
         pc'[u] \notin {"rename", "delete"}
  PROVE  MutatorOK(u)'
<1>1. AdditionOK(u)'
  <2>1. NamesOf(<<>>) = <<>> /\ Len(<<>>) = 0 /\ Distinct(<<>>) /\ 0 <= MaxTables
    BY NamesOfEmpty, EmptySeq, BoundsAssumption DEF Distinct
  <2> QED BY <2>1 DEF AdditionOK
<1>2. CompactionOK(u)'
  BY DEF CompactionOK, HasRange, Replacing
<1> QED BY <1>1, <1>2 DEF MutatorOK

\* Outside additions nothing is written.
LEMMA NothingWritten ==
  ASSUME NEW u \in Proc, MutatorInv(u), NEW p \in Proc, pc[p] \notin {"adding", "rename", "adclose"}
  PROVE  newt[p] = <<>>
BY DEF MutatorInv, MutatorOK, AdditionOK, ReaderOK

\* NewStack begins a reload, and so does an Add that finds the lock taken.
LEMMA OpenHistory ==
  ASSUME TypeOK, ControlOK, NEW u \in Proc, OnlyMutator(u), MutatorInv(u), NEW p \in Proc,
         Open(p) \/ LockTaken(p)
  PROVE  StepOK(u, p)
<1>1. /\ pc[p] \in {"closed", "aborted", "idle"} /\ pc'[p] = "read"
      /\ UNCHANGED <<dir, list, lockFile, hist, fdAt, st, ver, newt, job, load, lock>>
  BY DEF Open, LockTaken, StartReload, Goto, shared, history, TypeOK, CallsOK
<1>2. OthersUnchanged(p)
  BY OthersKeep DEF Acts, StartCall
<1>3. p # u => ReaderOK(p)'
  <2>1. p # u => ~LockTaken(p) /\ ReaderOK(p)
    BY DEF OnlyMutator, LockTaken, MutatorInv
  <2>2. p # u => ret'[p] = "open"
    BY <2>1 DEF Open, StartReload, Return, TypeOK, CallsOK
  <2> QED BY <2>1, <2>2, <1>1 DEF ReaderOK
<1>4. p = u => MutatorOK(u)' /\ ~Replacing(u)' /\ ExpiryOK(u, u)'
  <2>1. SUFFICES ASSUME p = u PROVE MutatorOK(u)' /\ ~Replacing(u)' /\ ExpiryOK(u, u)'
    OBVIOUS
  <2>2. newt[u] = <<>> /\ UpToDateOK(u) /\ ExpiryOK(u, u)
    BY <2>1, <1>1, NothingWritten DEF MutatorInv, MutatorOK, ProcessOK
  <2>3. UpToDateOK(u)'
    BY <2>1, <2>2, <1>1 DEF UpToDateOK
  <2>4. ExpiryOK(u, u)'
    BY <2>1, <2>2, <1>1, NoExpiry DEF ExpirySteps
  <2> QED BY <2>1, <2>2, <2>3, <2>4, <1>1, MutatorRests DEF HasRange, Replacing
<1> QED BY <1>1, <1>2, <1>3, <1>4, ControlMoves

\* What a reload leads to when it is done, and for whom.
LEMMA ReloadEnds ==
  ASSUME ControlOK, NEW p \in Proc, pc[p] \in Reloading
  PROVE  /\ AfterReload[ret[p]] \in {"idle", "auto", "scan", "cpdone"}
         /\ AfterFailure[ret[p]] \in {"closed", "idle", "adclose", "cpdone"}
         /\ ret[p] = "open" => AfterReload[ret[p]] = "idle" /\ AfterFailure[ret[p]] = "closed"
<1>1. ret[p] \in {"open", "plain", "auto", "scan", "compact"}
  BY DEF ControlOK, ReturnOK
<1> QED BY <1>1 DEF AfterReload, AfterFailure

\* The list is read: its tables are what the reload may show, whether it takes
\* them from its open readers or from the files.
LEMMA ReadListHistory ==
  ASSUME TypeOK, ControlOK, NEW u \in Proc, OnlyMutator(u), MutatorInv(u), NEW p \in Proc,
         ReadList(p)
  PROVE  StepOK(u, p)
<1>1. /\ pc[p] = "read" /\ pc'[p] = "open"
      /\ load'[p].names = list /\ load'[p].opened = <<>> /\ load'[p].at = Len(hist)
      /\ UNCHANGED <<dir, list, lockFile, hist, fdAt, st, ver, newt, job, ret, lock>>
  BY DEF ReadList, Goto, shared, history, TypeOK, StacksOK, CallsOK
<1>2. OthersUnchanged(p)
  BY OthersKeep DEF Acts, CallStep, ReloadStep
<1>3. FilesGood(u) /\ MutatorOK(u) /\ ProcessOK(u, p)
  BY DEF MutatorInv
<1>4. Pending(u)' = Pending(u) /\ Coming(u)' = Coming(u)
  BY <1>1, <1>2, PendingStays DEF Replacing
<1>5. Kept(u) /\ FilesGood(u)'
  BY <1>1, <1>3, <1>4, NoFileChanges
<1>6. StackOK(p)' /\ ExpiryOK(u, p)'
  <2>1. ExpiryOK(u, p)'
    BY <1>1, <1>3, <1>4 DEF ProcessOK, ExpiryOK, ExpirySteps, HasRange
  <2> QED BY <2>1, <1>1, <1>3, <1>5, StackStays DEF ProcessOK
<1>7. LoadOK(p)'
  <2>1. Len(hist) \in 1..Len(hist) /\ ver[p] <= Len(hist) /\ Len(list) \in Nat /\ Len(<<>>) = 0
    BY <1>3, HeldTypes, EmptySeq DEF ProcessOK, StackOK
  <2>2. ASSUME NEW ts \in Readable(p)' PROVE ts = Listed
    <3>1. ts \in [1..Len(list) -> Contents] /\ \A i \in 1..Len(list) : ts[i] \in MayRead(p, i)'
      BY <1>1 DEF Readable
    <3>2. ASSUME NEW i \in 1..Len(list) PROVE ts[i] = dir[list[i]]
      <4>1. list[i] \in DOMAIN dir
        BY <1>3 DEF FilesGood, Durable, ListIntact, NameSet
      <4>2. \A j \in 1..Len(st[p]) : st[p][j].name = list[i] => st[p][j].recs = dir[list[i]]
        BY <4>1, <1>3 DEF ProcessOK, StackOK, Faithful
      <4>3. ts[i] \in {st[p][j].recs : j \in {k \in 1..Len(st[p]) : st[p][k].name = list[i]}}
                      \cup {dir[n] : n \in {list[i]} \cap DOMAIN dir}
        <5>1. ~(i <= Len(load'[p].opened))
          BY <1>1, <2>1
        <5> QED BY <5>1, <3>1, <1>1 DEF MayRead
      <4> QED BY <4>2, <4>3
    <3> QED BY <3>1, <3>2 DEF Listed
  <2>3. \A ts \in Readable(p)' : Live(Merged(ts)) = hist[Len(hist)]
    BY <2>2, <1>3 DEF FilesGood, Durable
  <2> QED BY <1>1, <2>1, <2>3 DEF LoadOK
<1>8. NotBack(u, p)'
  <2>1. Pending(u) \cap (ReaderNames(st[p]) \cup NameSet(list)) = {}
    BY <1>3 DEF ProcessOK, NotBack, FilesGood
  <2>2. Gone(p)' \cap Coming(u) = {}
    BY <2>1, <1>1 DEF Gone, Coming
  <2> QED BY <2>1, <2>2, <1>1, <1>4 DEF NotBack
<1>9. ProcessOK(u, p)'
  BY <1>6, <1>7, <1>8 DEF ProcessOK
<1>10. CASE p = u
  <2>1. newt[u] = <<>>
    BY <1>10, <1>1, NothingWritten
  <2>2. UpToDateOK(u)'
    BY <1>10, <1>1 DEF UpToDateOK
  <2>3. MutatorOK(u)'
    BY <1>10, <2>1, <2>2, <1>1, MutatorRests DEF HasRange
  <2> QED BY <1>5, <1>9, <1>10, <2>3 DEF StepOK
<1>11. CASE p # u
  <2>1. MutatorOK(u)'
    BY <1>11, <1>1, <1>2, <1>3, MutatorStays
  <2>2. ReaderOK(p)'
    BY <1>11, <1>1 DEF MutatorInv, ReaderOK, Reloading
  <2> QED BY <1>5, <1>9, <2>1, <2>2 DEF StepOK
<1> QED BY <1>10, <1>11

\* A reload goes on with one more reader that it might have read.
LEMMA OneMoreReader ==
  ASSUME TypeOK, NEW u \in Proc, MutatorInv(u), NEW p \in Proc, OthersUnchanged(p),
         pc[p] = "open", Len(load[p].opened) < Len(load[p].names),
         NEW x \in Reader, load' = [load EXCEPT ![p].opened = Append(@, x)],
         x.name = NextToOpen(p), x.recs \in MayRead(p, Len(load[p].opened) + 1),
         x.name \in DOMAIN dir => x.recs = dir[x.name],
         UNCHANGED <<dir, list, lockFile, hist, fdAt, pc, st, ver, newt, job, ret, lock>>
  PROVE  StepOK(u, p)
<1> DEFINE old == load[p].opened
           now == load'[p].opened
           names == load[p].names
<1>1. /\ old \in Seq(Reader) /\ now = Append(old, x) /\ Len(old) \in Nat /\ Len(names) \in Nat
      /\ now \in Seq(Reader) /\ Len(now) = Len(old) + 1
      /\ \A i \in 1..Len(old) : now[i] = old[i]
      /\ now[Len(old) + 1] = x
  <2>1. old \in Seq(Reader) /\ now = Append(old, x) /\ names \in Seq(TableName)
    BY HeldTypes DEF TypeOK, StacksOK
  <2> HIDE DEF old, now, names
  <2> QED BY <2>1, AppendProperties
<1>2. load'[p].names = names /\ load'[p].at = load[p].at /\ load'[p].tries = load[p].tries
  BY DEF TypeOK, StacksOK
<1>3. FilesGood(u) /\ MutatorOK(u) /\ ProcessOK(u, p)
  BY DEF MutatorInv
<1>4. Pending(u)' = Pending(u) /\ Coming(u)' = Coming(u)
  BY PendingStays DEF Replacing
<1>5. Kept(u) /\ FilesGood(u)'
  BY <1>3, <1>4, NoFileChanges
<1> HIDE DEF old, now, names
<1>6. \A i \in 1..Len(now) : i \in 1..Len(old) \/ i = Len(old) + 1
  BY <1>1
<1>7. StackOK(p)'
  <2>1. Faithful(load[p].opened)'
    <3>1. ASSUME NEW i \in 1..Len(now), now[i].name \in DOMAIN dir
          PROVE  now[i].recs = dir[now[i].name]
      <4>1. CASE i \in 1..Len(old)
        <5>1. Faithful(old)
          BY <1>3 DEF ProcessOK, StackOK, old
        <5> QED BY <5>1, <4>1, <3>1, <1>1 DEF Faithful
      <4>2. CASE i = Len(old) + 1
        BY <4>2, <3>1, <1>1
      <4> QED BY <4>1, <4>2, <1>6
    <3> QED BY <3>1 DEF Faithful, now
  <2> QED BY <2>1, <1>3 DEF ProcessOK, StackOK, Faithful
<1>8. LoadOK(p)'
  <2>1. /\ load[p].at \in 1..Len(hist) /\ ver[p] <= load[p].at
        /\ \A i \in 1..Len(old) : old[i].name = names[i]
        /\ \A ts \in Readable(p) : Live(Merged(ts)) = hist[load[p].at]
    BY <1>3 DEF ProcessOK, LoadOK, old, names
  <2>2. Len(now) <= Len(names)
    BY <1>1 DEF old, names
  <2>3. \A i \in 1..Len(now) : now[i].name = names[i]
    BY <1>1, <1>6, <2>1 DEF NextToOpen, old, names
  <2>4. ASSUME NEW ts \in Readable(p)' PROVE ts \in Readable(p)
    <3>1. ts \in [1..Len(names) -> Contents] /\ \A i \in 1..Len(names) : ts[i] \in MayRead(p, i)'
      BY <1>2 DEF Readable
    <3>2. ASSUME NEW i \in 1..Len(names) PROVE ts[i] \in MayRead(p, i)
      <4>1. CASE i <= Len(old)
        <5>1. i <= Len(now) /\ i \in 1..Len(old) /\ now[i] = old[i]
          BY <4>1, <1>1
        <5>2. ts[i] \in {now[i].recs}
          BY <5>1, <3>1 DEF MayRead, now
        <5> QED BY <5>1, <5>2, <4>1 DEF MayRead, old
      <4>2. CASE i = Len(old) + 1
        <5>1. i <= Len(now) /\ now[i] = x
          BY <4>2, <1>1
        <5>2. ts[i] \in {now[i].recs}
          BY <5>1, <3>1 DEF MayRead, now
        <5> QED BY <5>1, <5>2, <4>2 DEF old
      <4>3. CASE Len(old) + 1 < i
        <5>1. ~(i <= Len(now)) /\ ~(i <= Len(old))
          BY <4>3, <1>1
        <5>2. MayRead(p, i)' = {st[p][j].recs : j \in {k \in 1..Len(st[p]) : st[p][k].name = names[i]}}
                               \cup {dir[n] : n \in {names[i]} \cap DOMAIN dir}
          BY <5>1, <1>2 DEF MayRead, now
        <5>3. MayRead(p, i) = {st[p][j].recs : j \in {k \in 1..Len(st[p]) : st[p][k].name = names[i]}}
                              \cup {dir[n] : n \in {names[i]} \cap DOMAIN dir}
          BY <5>1 DEF MayRead, old, names
        <5> QED BY <5>2, <5>3, <3>1
      <4> QED BY <4>1, <4>2, <4>3, <1>1
    <3> QED BY <3>1, <3>2 DEF Readable, names
  <2> QED BY <2>1, <2>2, <2>3, <2>4, <1>2 DEF LoadOK, now, names
<1>9. NotBack(u, p)'
  <2>1. Gone(p)' = Gone(p)
    BY <1>2 DEF Gone, names
  <2> QED BY <2>1, <1>2, <1>3, <1>4 DEF ProcessOK, NotBack, names
<1>10. ProcessOK(u, p)'
  <2>1. ExpiryOK(u, p)'
    BY <1>3, <1>5, ExpiryStays DEF ProcessOK
  <2> QED BY <2>1, <1>3, <1>7, <1>8, <1>9 DEF ProcessOK
<1>11. MutatorOK(u)'
  <2>1. CASE p # u
    BY <2>1, <1>3, MutatorStays
  <2>2. CASE p = u
    <3>1. UpToDateOK(u)'
      BY <2>2, <1>2, <1>3 DEF MutatorOK, UpToDateOK, names
    <3>2. newt[u] = <<>>
      BY <2>2, NothingWritten
    <3> QED BY <2>2, <3>1, <3>2, MutatorRests DEF HasRange
  <2> QED BY <2>1, <2>2
<1>12. p # u => ReaderOK(p)'
  BY DEF MutatorInv, ReaderOK
<1> QED BY <1>5, <1>10, <1>11, <1>12 DEF StepOK

\* reloadOnce takes over the reader of a table it has open ...
LEMMA ReuseReaderHistory ==
  ASSUME TypeOK, ControlOK, NEW u \in Proc, OnlyMutator(u), MutatorInv(u), NEW p \in Proc,
         ReuseReader(p)
  PROVE  StepOK(u, p)
<1>1. PICK i \in 1..Len(st[p]) :
        /\ st[p][i].name = NextToOpen(p)
        /\ load' = [load EXCEPT ![p].opened = Append(@, st[p][i])]
  BY DEF ReuseReader
<1>2. st[p][i] \in Reader /\ Len(load[p].opened) \in Nat
  BY HeldTypes, ReaderAt
<1>3. st[p][i].name \in DOMAIN dir => st[p][i].recs = dir[st[p][i].name]
  BY DEF MutatorInv, ProcessOK, StackOK, Faithful
<1>4. st[p][i].recs \in MayRead(p, Len(load[p].opened) + 1)
  BY <1>1, <1>2 DEF MayRead, NextToOpen
<1>5. OthersUnchanged(p)
  BY OthersKeep DEF Acts, CallStep, ReloadStep
<1>6. /\ pc[p] = "open" /\ Len(load[p].opened) < Len(load[p].names)
      /\ UNCHANGED <<dir, list, lockFile, hist, fdAt, pc, st, ver, newt, job, ret, lock>>
  BY DEF ReuseReader, Loading, shared, history
<1> QED BY <1>1, <1>2, <1>3, <1>4, <1>5, <1>6, OneMoreReader

\* ... and opens the others.
LEMMA OpenTableHistory ==
  ASSUME TypeOK, ControlOK, NEW u \in Proc, OnlyMutator(u), MutatorInv(u), NEW p \in Proc,
         OpenTable(p)
  PROVE  StepOK(u, p)
<1> DEFINE x == [name |-> NextToOpen(p), recs |-> dir[NextToOpen(p)]]
<1>1. NextToOpen(p) \in DOMAIN dir /\ pc[p] = "open" /\ Len(load[p].opened) < Len(load[p].names)
  BY DEF OpenTable, MustOpen, Loading
<1>2. x \in Reader /\ x.name = NextToOpen(p) /\ x.recs = dir[NextToOpen(p)]
  BY <1>1 DEF TypeOK, FilesOK, Reader
<1>3. load' = [load EXCEPT ![p].opened = Append(@, x)]
  BY DEF OpenTable
<1> HIDE DEF x
<1>4. x.recs \in MayRead(p, Len(load[p].opened) + 1)
  <2>1. ~(Len(load[p].opened) + 1 <= Len(load[p].opened))
    <3>1. Len(load[p].opened) \in Nat
      BY HeldTypes
    <3> QED BY <3>1
  <2>2. x.recs \in {dir[n] : n \in {load[p].names[Len(load[p].opened) + 1]} \cap DOMAIN dir}
    BY <1>1, <1>2 DEF NextToOpen
  <2> QED BY <2>1, <2>2 DEF MayRead
<1>5. OthersUnchanged(p)
  BY OthersKeep DEF Acts, CallStep, ReloadStep
<1>6. UNCHANGED <<dir, list, lockFile, hist, fdAt, pc, st, ver, newt, job, ret, lock>>
  BY DEF OpenTable, shared, history
<1> QED BY <1>1, <1>2, <1>3, <1>4, <1>5, <1>6, OneMoreReader

\* A table is missing only for a reader: u reads the list that is there.
LEMMA TableMissingHistory ==
  ASSUME TypeOK, ControlOK, NEW u \in Proc, OnlyMutator(u), MutatorInv(u), NEW p \in Proc,
         TableMissing(p)
  PROVE  p # u /\ StepOK(u, p)
<1>1. /\ pc[p] = "open" /\ pc'[p] = "recheck"
      /\ load'[p].opened = <<>> /\ load'[p].names = load[p].names
      /\ Len(load[p].opened) < Len(load[p].names) /\ NextToOpen(p) \notin DOMAIN dir
      /\ UNCHANGED <<dir, list, lockFile, hist, fdAt, st, ver, newt, job, ret, lock>>
  BY DEF TableMissing, MustOpen, Loading, Goto, shared, history, TypeOK, StacksOK, CallsOK
<1>2. p # u
  <2>1. SUFFICES ASSUME p = u PROVE FALSE
    OBVIOUS
  <2>2. load[p].names = list
    BY <2>1, <1>1 DEF MutatorInv, MutatorOK, UpToDateOK
  <2>3. Len(load[p].opened) + 1 \in 1..Len(list)
    BY <2>2, <1>1, HeldTypes
  <2>4. NextToOpen(p) \in NameSet(list)
    BY <2>2, <2>3 DEF NextToOpen, NameSet
  <2> QED BY <2>4, <1>1 DEF MutatorInv, FilesGood, Durable, ListIntact
<1>3. OthersUnchanged(p)
  BY OthersKeep DEF Acts, CallStep, ReloadStep
<1>4. ReaderOK(p)'
  BY <1>1, <1>2 DEF MutatorInv, ReaderOK, Reloading
<1> QED BY <1>1, <1>2, <1>3, <1>4, ControlMoves

\* A reader that missed a table fails, or reads the list again.
LEMMA RecheckHistory ==
  ASSUME TypeOK, ControlOK, NEW u \in Proc, OnlyMutator(u), MutatorInv(u), NEW p \in Proc,
         Recheck(p)
  PROVE  p # u /\ StepOK(u, p)
<1>1. /\ pc[p] = "recheck"
      /\ UNCHANGED <<dir, list, lockFile, hist, fdAt, st, ver, newt, job, lock>>
  BY DEF Recheck, shared, history
<1>2. p # u
  BY <1>1 DEF MutatorInv, MutatorOK, UpToDateOK
<1>3. ReaderOK(p) /\ OthersUnchanged(p)
  BY <1>2, OthersKeep DEF MutatorInv, Acts, CallStep, ReloadStep
<1>4. CASE EndReload(p, AfterFailure[ret[p]])
  <2>1. AfterFailure[ret[p]] = "closed"
    BY <1>1, <1>3, ReloadEnds DEF ReaderOK, Reloading
  <2>2. pc'[p] = "closed" /\ load'[p].opened = <<>> /\ load'[p].names = <<>>
    BY <1>4, <2>1 DEF EndReload, Goto, NoLoad, TypeOK, StacksOK, CallsOK
  <2>3. ReaderOK(p)'
    BY <1>1, <1>3, <2>2 DEF ReaderOK, Reloading
  <2> QED BY <1>1, <1>2, <1>3, <2>2, <2>3, ControlMoves
<1>5. CASE Goto(p, "read") /\ UNCHANGED <<load, ret>>
  <2>1. pc'[p] = "read" /\ UNCHANGED <<load, ret>>
    BY <1>5 DEF Goto, TypeOK, CallsOK
  <2>2. ReaderOK(p)'
    BY <1>1, <1>3, <2>1 DEF ReaderOK, Reloading
  <2> QED BY <1>1, <1>2, <1>3, <2>1, <2>2, ControlMoves
<1> QED BY <1>2, <1>4, <1>5 DEF Recheck

\* Only a reader can run out of time: u needs one attempt.
LEMMA GiveUpHistory ==
  ASSUME TypeOK, ControlOK, NEW u \in Proc, OnlyMutator(u), MutatorInv(u), NEW p \in Proc,
         GiveUp(p)
  PROVE  p # u /\ StepOK(u, p)
<1>1. /\ pc[p] = "read" /\ load[p].tries > 0 /\ EndReload(p, AfterReload[ret[p]])
      /\ UNCHANGED <<dir, list, lockFile, hist, fdAt, st, ver, newt, job, lock>>
  BY DEF GiveUp, shared, history
<1>2. p # u
  <2>1. p = u => load[p].tries = 0
    BY <1>1 DEF MutatorInv, MutatorOK, UpToDateOK
  <2> QED BY <2>1, <1>1
<1>3. ReaderOK(p) /\ OthersUnchanged(p)
  BY <1>2, OthersKeep DEF MutatorInv, Acts
<1>4. AfterReload[ret[p]] = "idle"
  BY <1>1, <1>3, ReloadEnds DEF ReaderOK, Reloading
<1>5. pc'[p] = "idle" /\ load'[p].opened = <<>> /\ load'[p].names = <<>>
  BY <1>1, <1>4 DEF EndReload, Goto, NoLoad, TypeOK, StacksOK, CallsOK
<1>6. ReaderOK(p)'
  BY <1>1, <1>3, <1>5 DEF ReaderOK, Reloading
<1> QED BY <1>1, <1>2, <1>3, <1>5, <1>6, ControlMoves

\* Where a reload has opened all tables of its list.
LEMMA LoadedStack ==
  ASSUME TypeOK, NEW u \in Proc, MutatorInv(u), NEW p \in Proc, pc[p] = "open",
         Len(load[p].opened) = Len(load[p].names)
  PROVE  /\ NamesOf(load[p].opened) = load[p].names
         /\ ReaderNames(load[p].opened) = NameSet(load[p].names)
         /\ load[p].at \in 1..Len(hist) /\ ver[p] <= load[p].at
         /\ View(load[p].opened) = hist[load[p].at]
<1> DEFINE opened == load[p].opened
           names == load[p].names
<1>1. /\ opened \in Seq(Reader) /\ names \in Seq(TableName)
      /\ NamesOf(opened) \in Seq(TableName) /\ Len(NamesOf(opened)) = Len(opened)
      /\ \A i \in 1..Len(opened) : NamesOf(opened)[i] = opened[i].name
      /\ RecsOf(opened) \in Seq(Contents)
  BY HeldTypes, NamesOfType
<1>2. /\ load[p].at \in 1..Len(hist) /\ ver[p] <= load[p].at
      /\ \A i \in 1..Len(opened) : opened[i].name = names[i]
      /\ \A ts \in Readable(p) : Live(Merged(ts)) = hist[load[p].at]
  BY DEF MutatorInv, ProcessOK, LoadOK
<1>3. NamesOf(opened) = names
  <2> DEFINE s == NamesOf(opened)
  <2>1. s \in Seq(TableName) /\ names \in Seq(TableName) /\ Len(s) = Len(names)
        /\ \A i \in 1..Len(s) : s[i] = names[i]
    BY <1>1, <1>2
  <2> HIDE DEF s, names
  <2>2. s = names
    BY <2>1, SeqEqual
  <2> QED BY <2>2 DEF s
<1>4. RecsOf(opened) \in Readable(p)
  <2>1. \A i \in 1..Len(opened) : opened[i].recs \in Contents
    BY <1>1, ReaderAt
  <2>2. RecsOf(opened) \in [1..Len(names) -> Contents]
    BY <2>1 DEF RecsOf
  <2>3. ASSUME NEW i \in 1..Len(names) PROVE RecsOf(opened)[i] \in MayRead(p, i)
    <3>1. i <= Len(opened)
      BY <1>1
    <3> QED BY <3>1 DEF RecsOf, MayRead
  <2> QED BY <2>2, <2>3 DEF Readable
<1>5. ReaderNames(opened) = NameSet(names)
  BY <1>1, <1>3, SameNames
<1> QED BY <1>2, <1>3, <1>4, <1>5 DEF View

\* The new stack is installed, and the files it has no more are removed: none of
\* them is listed or about to be.
LEMMA SwapHistory ==
  ASSUME TypeOK, ControlOK, NEW u \in Proc, OnlyMutator(u), MutatorInv(u), NEW p \in Proc,
         Swap(p)
  PROVE  StepOK(u, p)
<1>1. /\ pc[p] = "open" /\ Len(load[p].opened) = Len(load[p].names) /\ st'[p] = load[p].opened
      /\ dir' = Without(Dropped(p)) /\ ver'[p] = load[p].at
      /\ EndReload(p, AfterReload[ret[p]])
      /\ UNCHANGED <<list, lockFile, hist, fdAt, newt, job, lock>>
  BY DEF Swap, TypeOK, StacksOK, HistoryOK
<1>2. OthersUnchanged(p)
  BY OthersKeep DEF Acts, CallStep, ReloadStep
<1>3. FilesGood(u) /\ MutatorOK(u) /\ ProcessOK(u, p)
  BY DEF MutatorInv
<1>4. AfterReload[ret[p]] \in {"idle", "auto", "scan", "cpdone"}
  BY <1>1, ReloadEnds DEF Reloading
<1>5. /\ pc'[p] = AfterReload[ret[p]] /\ load'[p].opened = <<>> /\ load'[p].names = <<>>
      /\ load'[p].tries = 0
  BY <1>1, <1>4 DEF EndReload, Goto, NoLoad, TypeOK, StacksOK, CallsOK
<1>6. Pending(u)' = Pending(u)
  BY <1>1, <1>2, <1>4, <1>5, PendingStays DEF Replacing
<1>7. Dropped(p) \cap Coming(u) = {}
  <2>1. CASE Reuse(p)
    BY <2>1, <1>1, <1>3 DEF ProcessOK, NotBack, Dropped, Gone
  <2>2. CASE ~Reuse(p)
    BY <2>2, <1>1, <1>3 DEF ProcessOK, ExpiryOK, Dropped, Reuse
  <2> QED BY <2>1, <2>2
<1>8. /\ Kept(u) /\ FilesGood(u)' /\ DOMAIN dir' = DOMAIN dir \ Dropped(p)
      /\ \A n \in DOMAIN dir' : n \in DOMAIN dir /\ dir'[n] = dir[n]
  <2>1. Dropped(p) \cap NameSet(list) = {}
    BY <1>7 DEF Coming
  <2> QED BY <2>1, <1>1, <1>3, <1>6, FilesGo
<1>9. /\ NamesOf(load[p].opened) = load[p].names
      /\ ReaderNames(load[p].opened) = NameSet(load[p].names)
      /\ load[p].at \in 1..Len(hist) /\ View(load[p].opened) = hist[load[p].at]
  BY <1>1, LoadedStack
<1>10. ProcessOK(u, p)'
  <2>1. StackOK(p)'
    <3>1. \A i \in 1..Len(load[p].opened) :
            load[p].opened[i].name \in DOMAIN dir'
              => load[p].opened[i].recs = dir'[load[p].opened[i].name]
      BY <1>3, <1>8 DEF ProcessOK, StackOK, Faithful
    <3>2. Faithful(st[p])' /\ Faithful(load[p].opened)'
      BY <3>1, <1>1, <1>5, NothingOpen DEF Faithful
    <3>3. load[p].at # 0 /\ load[p].at <= Len(hist)
      BY <1>9, HeldTypes
    <3> QED BY <3>2, <3>3, <1>1, <1>5, <1>9 DEF StackOK
  <2>2. NotBack(u, p)'
    <3>1. Pending(u) \cap NameSet(load[p].names) = {}
      BY <1>3 DEF ProcessOK, NotBack
    <3>2. Pending(u)' \cap (ReaderNames(st'[p]) \cup NameSet(load'[p].names)) = {}
      BY <3>1, <1>1, <1>5, <1>6, <1>9, NothingOpen
    <3> QED BY <3>2, <1>4, <1>5 DEF NotBack
  <2>3. LoadOK(p)'
    BY <1>4, <1>5 DEF LoadOK
  <2>4. ExpiryOK(u, p)'
    <3>1. job[p].expire => pc'[p] = "cpdone"
      BY <1>1, <1>3, <1>5 DEF ProcessOK, ExpiryOK, AfterReload
    <3> QED BY <3>1, <1>1 DEF ExpiryOK, ExpirySteps, HasRange
  <2> QED BY <2>1, <2>2, <2>3, <2>4 DEF ProcessOK
<1>11. CASE p = u
  <2>1. load[u].names = list /\ load[u].at = Len(hist)
    BY <1>1, <1>3, <1>11 DEF MutatorOK, UpToDateOK
  <2>2. newt'[u] = <<>>
    BY <1>1, <1>11, NothingWritten
  <2>3. UpToDateOK(u)'
    BY <2>1, <1>1, <1>4, <1>5, <1>9, <1>11 DEF UpToDateOK
  <2>4. MutatorOK(u)'
    BY <2>2, <2>3, <1>4, <1>5, <1>11, MutatorRests DEF HasRange
  <2> QED BY <2>4, <1>8, <1>10, <1>11 DEF StepOK
<1>12. CASE p # u
  <2>1. MutatorOK(u)'
    <3>1. DOMAIN dir \cap Pending(u) \subseteq DOMAIN dir'
      BY <1>7, <1>8 DEF Coming
    <3> QED BY <3>1, <1>1, <1>2, <1>3, <1>8, <1>12, MutatorStays
  <2>2. ReaderOK(p)'
    BY <1>1, <1>5, <1>12, ReloadEnds DEF MutatorInv, ReaderOK, Reloading
  <2> QED BY <2>1, <2>2, <1>8, <1>10 DEF StepOK
<1> QED BY <1>11, <1>12

-----------------------------------------------------------------------------
(* The end of a stack *)

\* A process forgets its stack.  Files may go that are neither listed nor pending.
LEMMA ForgetHistory ==
  ASSUME TypeOK, NEW u \in Proc, MutatorInv(u), NEW p \in Proc, OthersUnchanged(p),
         NEW label \in {"closed", "aborted"}, Forget(p, label), list' = list,
         p # u => label = "closed" /\ lockFile' = lockFile /\ fdAt'[u] = fdAt[u],
         \A n \in DOMAIN dir \cap Coming(u) : n \in DOMAIN dir',
         \A n \in DOMAIN dir' : n \in DOMAIN dir /\ dir'[n] = dir[n]
  PROVE  StepOK(u, p)
<1>1. /\ pc'[p] = label /\ st'[p] = <<>> /\ load'[p] = NoLoad /\ ret'[p] = "none"
      /\ newt'[p] = <<>> /\ job'[p] = NoJob /\ lock'[p] = "none" /\ ver'[p] = 0 /\ hist' = hist
  BY DEF Forget, Goto, Return, TypeOK, StacksOK, CallsOK, HistoryOK
<1>2. FilesGood(u) /\ MutatorOK(u)
  BY DEF MutatorInv
<1>3. Pending(u)' \subseteq Pending(u)
  <2>1. CASE p = u
    BY <2>1, <1>1, NothingOpen DEF Pending, Replacing
  <2>2. CASE p # u
    <3>1. newt'[u] = newt[u] /\ job'[u] = job[u] /\ pc'[u] = pc[u]
      BY <2>2 DEF OthersUnchanged
    <3> QED BY <3>1 DEF Pending, Replacing
  <2> QED BY <2>1, <2>2
<1>4. Kept(u) /\ FilesGood(u)'
  <2>1. NameSet(list) \subseteq DOMAIN dir'
    BY <1>2 DEF FilesGood, Durable, ListIntact, Coming
  <2> QED BY <2>1, <1>1, <1>2, <1>3, FilesStay
<1>5. load'[p].names = <<>> /\ load'[p].opened = <<>> /\ load'[p].tries = 0
  BY <1>1 DEF NoLoad
<1>6. ProcessOK(u, p)'
  <2>1. StackOK(p)'
    <3>1. 0 <= Len(hist)
      BY HeldTypes
    <3>2. Faithful(st[p])' /\ Faithful(load[p].opened)' /\ View(st'[p]) = NoRecs
      BY <1>1, <1>5, NothingOpen DEF Faithful
    <3> QED BY <3>1, <3>2, <1>1 DEF StackOK
  <2>2. LoadOK(p)' /\ NotBack(u, p)'
    BY <1>1, <1>5, NothingOpen DEF LoadOK, NotBack
  <2>3. ExpiryOK(u, p)'
    BY <1>1 DEF ExpiryOK, NoJob
  <2> QED BY <2>1, <2>2, <2>3 DEF ProcessOK
<1>7. CASE p = u
  <2>1. UpToDateOK(u)'
    BY <1>1, <1>5, <1>7 DEF UpToDateOK
  <2>2. MutatorOK(u)'
    BY <2>1, <1>1, <1>7, MutatorRests DEF HasRange
  <2> QED BY <2>2, <1>4, <1>6, <1>7 DEF StepOK
<1>8. CASE p # u
  <2>1. MutatorOK(u)'
    <3>1. DOMAIN dir \cap Pending(u) \subseteq DOMAIN dir'
      BY DEF Coming
    <3> QED BY <3>1, <1>1, <1>2, <1>8, MutatorStays
  <2>2. ReaderOK(p)'
    BY <1>1, <1>8 DEF ReaderOK, Reloading
  <2> QED BY <2>1, <2>2, <1>4, <1>6 DEF StepOK
<1> QED BY <1>7, <1>8

\* A process dies, and its files and locks stay; or Clean panics, or a compaction.
LEMMA CrashHistory ==
  ASSUME TypeOK, ControlOK, NEW u \in Proc, OnlyMutator(u), MutatorInv(u), NEW p \in Proc,
         Crash(p) \/ (p = u /\ (ScanPanics(p) \/ CompactionPanics(p)))
  PROVE  StepOK(u, p)
<1>1. /\ Forget(p, "closed") \/ (p = u /\ Forget(p, "aborted"))
      /\ UNCHANGED <<dir, list>>
      /\ p # u => lockFile' = lockFile /\ fdAt'[u] = fdAt[u]
  BY DEF Crash, ScanPanics, CompactionPanics, shared, TypeOK, CallsOK
<1>2. OthersUnchanged(p)
  BY OthersKeep DEF Acts, CallStep, AdditionStep, CompactionStep
<1>3. UNCHANGED <<dir, list>>
  BY DEF Crash, ScanPanics, CompactionPanics, shared
<1>4. CASE Forget(p, "closed")
  BY <1>1, <1>2, <1>3, <1>4, ForgetHistory
<1>5. CASE p = u /\ Forget(p, "aborted")
  BY <1>1, <1>2, <1>3, <1>5, ForgetHistory
<1> QED BY <1>1, <1>4, <1>5

\* Close reads the list ...
LEMMA CloseHistory ==
  ASSUME TypeOK, ControlOK, NEW u \in Proc, OnlyMutator(u), MutatorInv(u), NEW p \in Proc,
         Close(p)
  PROVE  StepOK(u, p)
<1>1. /\ pc[p] = "idle" /\ pc'[p] = "close" /\ load'[p].names = list
      /\ load'[p].opened = load[p].opened /\ load'[p].tries = load[p].tries
      /\ UNCHANGED <<dir, list, lockFile, hist, fdAt, st, ver, newt, job, ret, lock>>
  BY DEF Close, Goto, shared, history, TypeOK, StacksOK, CallsOK
<1>2. OthersUnchanged(p)
  BY OthersKeep DEF Acts, StartCall
<1>3. FilesGood(u) /\ MutatorOK(u) /\ ProcessOK(u, p)
  BY DEF MutatorInv
<1>4. Pending(u)' = Pending(u) /\ Coming(u)' = Coming(u)
  BY <1>1, <1>2, PendingStays DEF Replacing
<1>5. Kept(u) /\ FilesGood(u)'
  BY <1>1, <1>3, <1>4, NoFileChanges
<1>6. ProcessOK(u, p)'
  <2>1. StackOK(p)' /\ LoadOK(p)' /\ ExpiryOK(u, p)'
    BY <1>1, <1>3, <1>5, StackStays, NoExpiry DEF ProcessOK, LoadOK, ExpirySteps
  <2>2. Pending(u) \cap (ReaderNames(st[p]) \cup NameSet(list)) = {}
    BY <1>3 DEF ProcessOK, NotBack, FilesGood
  <2>3. Gone(p)' \cap Coming(u) = {}
    BY <2>2, <1>1 DEF Coming, Gone
  <2>4. NotBack(u, p)'
    BY <2>2, <2>3, <1>1, <1>4 DEF NotBack
  <2> QED BY <2>1, <2>4 DEF ProcessOK
<1>7. CASE p = u
  <2>1. newt[u] = <<>>
    BY <1>1, <1>7, NothingWritten
  <2>2. UpToDateOK(u)'
    BY <1>1, <1>3, <1>7 DEF MutatorOK, UpToDateOK
  <2>3. MutatorOK(u)'
    BY <2>1, <2>2, <1>1, <1>7, MutatorRests DEF HasRange
  <2> QED BY <2>3, <1>5, <1>6, <1>7 DEF StepOK
<1>8. CASE p # u
  <2>1. MutatorOK(u)' /\ ReaderOK(p)'
    BY <1>1, <1>2, <1>3, <1>8, MutatorStays DEF MutatorInv, ReaderOK, Reloading
  <2> QED BY <2>1, <1>5, <1>6 DEF StepOK
<1> QED BY <1>7, <1>8

\* ... and removes the files that were not in it: they are not in the list now,
\* nor will u put them there.
LEMMA CloseRemoveHistory ==
  ASSUME TypeOK, ControlOK, NEW u \in Proc, OnlyMutator(u), MutatorInv(u), NEW p \in Proc,
         CloseRemove(p)
  PROVE  StepOK(u, p)
<1>1. /\ pc[p] = "close" /\ Forget(p, "closed") /\ UNCHANGED <<list, lockFile, fdAt>>
      /\ dir' = dir \/ dir' = Without(Gone(p))
  BY DEF CloseRemove, Gone
<1>2. Gone(p) \cap Coming(u) = {}
  BY <1>1 DEF MutatorInv, ProcessOK, NotBack
<1>3. /\ \A n \in DOMAIN dir \cap Coming(u) : n \in DOMAIN dir'
      /\ \A n \in DOMAIN dir' : n \in DOMAIN dir /\ dir'[n] = dir[n]
  BY <1>1, <1>2 DEF Without
<1>4. OthersUnchanged(p)
  BY OthersKeep DEF Acts, CallStep
<1> QED BY <1>1, <1>3, <1>4, ForgetHistory

-----------------------------------------------------------------------------
(* Additions *)

\* Whoever writes or compacts is u.
LEMMA MutatorActs ==
  ASSUME TypeOK, NEW u \in Proc, OnlyMutator(u), MutatorInv(u), NEW p \in Proc,
         \/ AdditionStep(p) \/ CompactionStep(p) \/ CompactAll(p) \/ LockTaken(p)
         \/ \E c \in CallNames : LockList(p, c)
  PROVE  p = u
<1> SUFFICES ASSUME p # u PROVE FALSE
  OBVIOUS
<1>1. /\ Calls[p] \subseteq {"close"}
      /\ pc[p] \in {"closed", "idle", "read", "open", "recheck", "close"}
  BY DEF OnlyMutator, MutatorInv, ReaderOK
<1>2. ~CompactAll(p) /\ ~LockTaken(p) /\ \A c \in CallNames : ~LockList(p, c)
  BY <1>1 DEF CompactAll, LockList, LockTaken
<1>3. ~AdditionStep(p)
  BY <1>1 DEF AdditionStep, CheckLocked, AddTable, Abandon, CommitNothing, CommitWrite, CommitRename,
     CommitSyncFails, CommitRenameFails, AdditionClose, Scan, ScanPanics
<1>4. ~CompactionStep(p)
  BY <1>1 DEF CompactionStep, AutoCompact, CompactionCheck, LockTable, UnlockForMerge, MergeFails, Relock,
     Install, CompactionWrite, CompactionRename, CompactionRenameFails, DeleteCompacted, CompactionDone,
     CompactionEnd, CompactionPanics
<1> QED BY <1>2, <1>3, <1>4

\* The lock on the list is taken.
LEMMA LockListHistory ==
  ASSUME TypeOK, ControlOK, NEW u \in Proc, OnlyMutator(u), MutatorInv(u),
         NEW c \in CallNames, LockList(u, c)
  PROVE  StepOK(u, u)
<1>1. /\ pc[u] = "idle" /\ pc'[u] = "locked" /\ fdAt'[u] = "lock"
      /\ UNCHANGED <<dir, list, hist, st, ver, newt, job, load>>
  BY DEF LockList, TakeLock, Goto, history, TypeOK, CallsOK
<1>2. newt[u] = <<>> /\ UpToDateOK(u) /\ ExpiryOK(u, u)
  BY <1>1, NothingWritten DEF MutatorInv, MutatorOK, ProcessOK
<1>3. UpToDateOK(u)'
  BY <1>1, <1>2 DEF UpToDateOK
<1>4. MutatorOK(u)' /\ ~Replacing(u)' /\ ExpiryOK(u, u)'
  BY <1>1, <1>2, <1>3, MutatorRests, NoExpiry DEF HasRange, Replacing, ExpirySteps
<1>5. OthersUnchanged(u)
  BY OthersKeep DEF Acts, StartCall
<1> QED BY <1>1, <1>4, <1>5, ControlMoves

\* With the lock the stack of u is compared with the list: it is the list.
LEMMA CheckLockedHistory ==
  ASSUME TypeOK, ControlOK, NEW u \in Proc, OnlyMutator(u), MutatorInv(u), CheckLocked(u)
  PROVE  StepOK(u, u) /\ UNCHANGED <<st, ver, hist>>
<1>1. /\ pc[u] = "locked" /\ UNCHANGED <<dir, list, hist, st, newt, job, load, fdAt, lock>>
  BY DEF CheckLocked, shared
<1>2. newt[u] = <<>> /\ UpToDateOK(u) /\ ExpiryOK(u, u)
  BY <1>1, NothingWritten DEF MutatorInv, MutatorOK, ProcessOK
<1>3. UpToDate(u) /\ ver[u] = Len(hist)
  BY <1>1, <1>2 DEF UpToDateOK, UpToDate
<1>4. ver' = ver
  <2>1. ver' = [ver EXCEPT ![u] = Len(hist)] \/ ver' = ver
    BY DEF CheckLocked
  <2> QED BY <2>1, <1>3 DEF TypeOK, HistoryOK
<1>5. pc'[u] \in {"adding", "read"}
  BY <1>3 DEF CheckLocked, MayAdd, StartReload, Goto, TypeOK, CallsOK
<1>6. UpToDateOK(u)'
  BY <1>1, <1>2, <1>4, <1>5 DEF UpToDateOK
<1>7. MutatorOK(u)' /\ ~Replacing(u)' /\ ExpiryOK(u, u)'
  BY <1>1, <1>2, <1>5, <1>6, MutatorRests, NoExpiry DEF HasRange, Replacing, ExpirySteps
<1>8. OthersUnchanged(u)
  BY OthersKeep DEF Acts, CallStep, AdditionStep
<1> QED BY <1>1, <1>4, <1>5, <1>7, <1>8, ControlMoves

\* One more file, under a name that was in use nowhere.
LEMMA FileAppears ==
  ASSUME TypeOK, NEW u \in Proc, MutatorInv(u), UNCHANGED <<list, hist>>,
         NEW x, NEW recs, x \notin HeldNames, dir' = With(x, recs),
         Pending(u)' \subseteq Pending(u) \cup {x}
  PROVE  /\ Kept(u) /\ FilesGood(u)' /\ DOMAIN dir' = DOMAIN dir \cup {x} /\ dir'[x] = recs
         /\ \A n \in DOMAIN dir : n # x /\ dir'[n] = dir[n]
<1>1. DOMAIN dir \subseteq HeldNames
  BY NamesInUse
<1>2. /\ DOMAIN dir' = DOMAIN dir \cup {x} /\ dir'[x] = recs
      /\ \A n \in DOMAIN dir : n # x /\ dir'[n] = dir[n]
  BY <1>1 DEF With
<1>3. NameSet(list) \subseteq DOMAIN dir'
  BY <1>2 DEF MutatorInv, FilesGood, Durable, ListIntact
<1>4. \A n \in HeldNames \cap DOMAIN dir' : n \in DOMAIN dir /\ dir'[n] = dir[n]
  BY <1>2
<1>5. HeldNames \cap Pending(u)' \subseteq Pending(u)
  OBVIOUS
<1> QED BY <1>2, <1>3, <1>4, <1>5, FilesStay DEF MutatorInv

\* The callback of an addition writes a table: one more is pending.
LEMMA TableWritten ==
  ASSUME TypeOK, NEW u \in Proc, OnlyMutator(u), AddTable(u)
  PROVE  \E n \in TableName, b \in Batches :
           /\ n \notin HeldNames /\ dir' = With(n, b)
           /\ newt' = [newt EXCEPT ![u] = Append(@, [name |-> n, recs |-> b])]
           /\ UNCHANGED <<pc, ret>>
<1>1. PICK lo \in Nat, hi \in Nat : \E x \in NewNames(lo, hi), b \in Batches :
        /\ NextIndex(u) <= lo /\ lo <= hi
        /\ dir' = With(x, b)
        /\ \/ newt' = [newt EXCEPT ![u] = Append(@, [name |-> x, recs |-> b])]
              /\ UNCHANGED <<pc, ret>>
           \/ /\ Faults
              /\ Goto(u, "adclose") /\ Return(u, "none")
              /\ UNCHANGED newt
  BY AddedTable
<1>2. PICK n \in NewNames(lo, hi), b \in Batches :
        /\ dir' = With(n, b)
        /\ newt' = [newt EXCEPT ![u] = Append(@, [name |-> n, recs |-> b])]
        /\ UNCHANGED <<pc, ret>>
  BY <1>1 DEF OnlyMutator
<1>3. n \in TableName /\ n \notin HeldNames
  BY NamesAreFresh
<1> QED BY <1>2, <1>3

\* Addition.Add: one more table is pending.
LEMMA AddTableHistory ==
  ASSUME TypeOK, ControlOK, NEW u \in Proc, OnlyMutator(u), MutatorInv(u), AddTable(u)
  PROVE  StepOK(u, u)
<1>1. PICK n \in TableName, b \in Batches :
        /\ n \notin HeldNames /\ dir' = With(n, b)
        /\ newt' = [newt EXCEPT ![u] = Append(@, [name |-> n, recs |-> b])]
        /\ UNCHANGED <<pc, ret>>
  BY TableWritten
<1>2. /\ pc[u] = "adding" /\ Len(newt[u]) < (IF call[u] = "add" THEN 1 ELSE MaxTables)
      /\ UNCHANGED <<list, hist, st, ver, job, load, fdAt, lock>>
  BY DEF AddTable, history
<1>3. b \in Contents
  BY BatchAssumption
<1> DEFINE x == [name |-> n, recs |-> b]
<1>4. x \in Reader /\ x.name = n /\ x.recs = b /\ newt'[u] = Append(newt[u], x)
  BY <1>1, <1>3 DEF Reader, TypeOK, CallsOK
<1> HIDE DEF x
<1>5. /\ newt[u] \in Seq(Reader) /\ newt'[u] \in Seq(Reader) /\ Len(newt'[u]) = Len(newt[u]) + 1
      /\ Len(newt[u]) \in Nat /\ \A i \in 1..Len(newt[u]) : newt'[u][i] = newt[u][i]
      /\ newt'[u][Len(newt[u]) + 1] = x
      /\ \A i \in 1..Len(newt'[u]) : i \in 1..Len(newt[u]) \/ i = Len(newt[u]) + 1
      /\ ReaderNames(newt'[u]) = ReaderNames(newt[u]) \cup {n}
  BY <1>4, HeldTypes, TableAppended
<1>6. Pending(u)' \subseteq Pending(u) \cup {n}
  BY <1>1, <1>2, <1>5 DEF Pending, Replacing
<1>7. /\ Kept(u) /\ FilesGood(u)' /\ DOMAIN dir' = DOMAIN dir \cup {n} /\ dir'[n] = b
      /\ \A m \in DOMAIN dir : m # n /\ dir'[m] = dir[m]
  BY <1>1, <1>2, <1>6, FileAppears
<1>8. ProcessOK(u, u)'
  BY <1>1, <1>2, <1>7, ProcessMoves, NoExpiry DEF MutatorInv, ProcessOK, ExpirySteps
<1>9. UpToDateOK(u)' /\ CompactionOK(u)'
  BY <1>1, <1>2 DEF MutatorInv, MutatorOK, UpToDateOK, CompactionOK, HasRange, Replacing
<1>10. AdditionOK(u)'
  <2>1. AdditionOK(u)
    BY DEF MutatorInv, MutatorOK
  <2>2. Distinct(NamesOf(newt'[u]))
    <3>1. n \notin ReaderNames(newt[u])
      BY <1>1, NamesInUse
    <3> QED BY <2>1, <3>1, <1>4, <1>5, NameAppended DEF AdditionOK
  <2>3. ASSUME NEW i \in 1..Len(newt'[u])
        PROVE  /\ newt'[u][i].name \in DOMAIN dir' /\ newt'[u][i].recs = dir'[newt'[u][i].name]
               /\ newt'[u][i].recs \in Batches
    <3>1. CASE i \in 1..Len(newt[u])
      <4>1. /\ newt[u][i].name \in DOMAIN dir /\ newt[u][i].recs = dir[newt[u][i].name]
            /\ newt[u][i].recs \in Batches
        BY <3>1, <2>1 DEF AdditionOK
      <4>2. newt'[u][i] = newt[u][i]
        BY <3>1, <1>5
      <4> QED BY <4>1, <4>2, <1>7
    <3>2. CASE i = Len(newt[u]) + 1
      BY <3>2, <1>4, <1>5, <1>7
    <3> QED BY <3>1, <3>2, <1>5
  <2>4. Len(newt'[u]) <= MaxTables
    BY <1>2, <1>5, BoundsAssumption
  <2> QED BY <2>2, <2>3, <2>4, <1>1, <1>2 DEF AdditionOK
<1> QED BY <1>7, <1>8, <1>9, <1>10 DEF StepOK, MutatorOK

\* The callback fails, or there is nothing to commit: the addition keeps its tables
\* until it is closed.
LEMMA NotCommitted ==
  ASSUME TypeOK, ControlOK, NEW u \in Proc, OnlyMutator(u), MutatorInv(u),
         Abandon(u) \/ CommitNothing(u)
  PROVE  StepOK(u, u)
<1>1. OthersUnchanged(u)
  BY OthersKeep DEF Acts, CallStep, AdditionStep
<1>2. /\ pc[u] = "adding" /\ pc'[u] = "adclose"
      /\ UNCHANGED <<dir, list, hist, st, ver, newt, job, load, fdAt>>
  BY DEF Abandon, CommitNothing, Goto, shared, history, TypeOK, CallsOK
<1>3. UpToDateOK(u)' /\ CompactionOK(u)'
  BY <1>2 DEF MutatorInv, MutatorOK, UpToDateOK, CompactionOK, HasRange, Replacing
<1>4. AdditionOK(u)'
  BY <1>2 DEF MutatorInv, MutatorOK, AdditionOK
<1>5. ~Replacing(u)' /\ ExpiryOK(u, u)'
  BY <1>2, NoExpiry DEF MutatorInv, ProcessOK, Replacing, ExpirySteps
<1> QED BY <1>1, <1>2, <1>3, <1>4, <1>5, ControlMoves DEF MutatorOK

\* The lock file gets the list that the addition leads to.
LEMMA CommitWriteHistory ==
  ASSUME TypeOK, ControlOK, NEW u \in Proc, OnlyMutator(u), MutatorInv(u), CommitWrite(u)
  PROVE  StepOK(u, u)
<1>1. /\ pc[u] = "adding" /\ newt[u] # <<>>
      /\ UNCHANGED <<dir, hist, st, ver, newt, job, load>>
      /\ WriteLock(u, NamesOf(st[u]) \o NamesOf(newt[u])) /\ Goto(u, "rename")
  BY DEF CommitWrite, history, OnlyMutator
<1>2. OthersUnchanged(u)
  BY OthersKeep DEF Acts, CallStep, AdditionStep
<1>3. /\ pc'[u] = "rename" /\ list' = list /\ lockFile' = NamesOf(st[u]) \o NamesOf(newt[u])
  <2>1. fdAt[u] = "lock"
    BY <1>1 DEF MutatorInv, MutatorOK, UpToDateOK
  <2> QED BY <2>1, <1>1 DEF WriteLock, Goto, TypeOK, CallsOK
<1>4. UpToDateOK(u)' /\ CompactionOK(u)'
  BY <1>1, <1>3 DEF MutatorInv, MutatorOK, UpToDateOK, CompactionOK, HasRange, Replacing
<1>5. AdditionOK(u)'
  BY <1>1, <1>3 DEF MutatorInv, MutatorOK, AdditionOK
<1>6. ~Replacing(u)' /\ ExpiryOK(u, u)'
  BY <1>1, <1>3, NoExpiry DEF MutatorInv, ProcessOK, Replacing, ExpirySteps
<1> QED BY <1>1, <1>2, <1>3, <1>4, <1>5, <1>6, ControlMoves DEF MutatorOK

\* When no system call fails, a lock file that was written can be renamed.
LEMMA RenameSucceeds ==
  ASSUME TypeOK, ControlOK, NEW u \in Proc, OnlyMutator(u), MutatorInv(u)
  PROVE  ~CommitSyncFails(u) /\ ~CommitRenameFails(u) /\ ~CompactionRenameFails(u)
<1>1. ~Faults
  BY DEF OnlyMutator
<1>2. pc[u] = "rename" => lockFile # NoFile
  <2>1. SUFFICES ASSUME pc[u] = "rename" PROVE lockFile \in Seq(TableName)
    BY NoFileAssumption
  <2>2. lockFile = NamesOf(st[u]) \o NamesOf(newt[u])
    BY <2>1 DEF MutatorInv, MutatorOK, AdditionOK
  <2> QED BY <2>2, HeldTypes, ConcatProperties
<1>3. pc[u] = "cprename" => lockFile # NoFile
  <2>1. SUFFICES ASSUME pc[u] = "cprename" PROVE lockFile \in Seq(TableName)
    BY NoFileAssumption
  <2> DEFINE first == job[u].first
             last == job[u].last
             names == NamesOf(st[u])
             new == Replacement(u)
  <2>2. lockFile = Spliced(names, first, last, new) /\ first \in 1..Len(st[u]) /\ last \in first..Len(st[u])
    BY <2>1 DEF MutatorInv, MutatorOK, CompactionOK, HasRange, RangeFits, Merging
  <2>3. names \in Seq(TableName) /\ new \in Seq(TableName) /\ Len(names) = Len(st[u]) /\ Len(names) \in Nat
    BY StackNames, HeldTypes
  <2> HIDE DEF first, last, names, new
  <2>4. SubSeq(names, 1, first - 1) \in Seq(TableName) /\ SubSeq(names, last + 1, Len(names)) \in Seq(TableName)
    BY <2>2, <2>3, SubSeqProperties
  <2> QED BY <2>2, <2>3, <2>4 DEF Spliced
<1> QED BY <1>1, <1>2, <1>3 DEF CommitSyncFails, CommitRenameFails, CompactionRenameFails, RenameFails

\* Closing an addition removes its tables, which are not listed.
LEMMA AdditionCloseHistory ==
  ASSUME TypeOK, ControlOK, NEW u \in Proc, OnlyMutator(u), MutatorInv(u), AdditionClose(u)
  PROVE  StepOK(u, u)
<1>1. /\ pc[u] = "adclose" /\ dir' = Without(ReaderNames(newt[u])) /\ newt'[u] = <<>>
      /\ UNCHANGED <<list, hist, st, ver, job, load>>
  BY DEF AdditionClose, Discarded, history, TypeOK, CallsOK
<1>2. pc'[u] \in {"idle", "adclose", "read", "auto"}
  <2>1. ret[u] \in {"none", "again", "plain", "auto"}
    BY <1>1 DEF ControlOK, ReturnOK
  <2>2. pc'[u] = AfterClose[ret[u]]
    BY DEF AdditionClose, Goto, TypeOK, CallsOK
  <2> QED BY <2>1, <2>2, ReturnLabels
<1>3. Pending(u)' = {}
  BY <1>1, <1>2, NothingOpen DEF Pending, Replacing
<1>4. Kept(u) /\ FilesGood(u)'
  <2>1. ReaderNames(newt[u]) \cap NameSet(list) = {}
    BY DEF Pending, MutatorInv, FilesGood
  <2> QED BY <2>1, <1>1, <1>3, FilesGo DEF MutatorInv
<1>5. ProcessOK(u, u)'
  BY <1>1, <1>2, <1>4, ProcessMoves, NoExpiry DEF MutatorInv, ProcessOK, ExpirySteps
<1>6. UpToDateOK(u)'
  BY <1>1, <1>2 DEF MutatorInv, MutatorOK, UpToDateOK
<1>7. MutatorOK(u)'
  BY <1>1, <1>2, <1>6, MutatorRests DEF HasRange
<1> QED BY <1>4, <1>5, <1>7 DEF StepOK

\* Clean removes what its stack has not, and its stack is the list.
LEMMA ScanHistory ==
  ASSUME TypeOK, ControlOK, NEW u \in Proc, OnlyMutator(u), MutatorInv(u), Scan(u)
  PROVE  StepOK(u, u)
<1> DEFINE files == {n \in DOMAIN dir : n \notin ReaderNames(st[u]) /\ n.max <= MaxUpdateIndex(st[u])}
<1>1. /\ pc[u] = "scan" /\ dir' = Without(files) /\ pc'[u] = "adclose"
      /\ UNCHANGED <<list, hist, st, ver, newt, job, load>>
  BY DEF Scan, Goto, history, TypeOK, CallsOK
<1>2. files \cap NameSet(list) = {}
  <2>1. list = NamesOf(st[u])
    BY <1>1 DEF MutatorInv, MutatorOK, UpToDateOK
  <2>2. NameSet(list) = ReaderNames(st[u])
    BY <2>1, HeldTypes, SameNames
  <2> QED BY <2>2
<1> HIDE DEF files
<1>3. newt[u] = <<>>
  BY <1>1, NothingWritten
<1>4. Pending(u)' = {}
  BY <1>1, <1>3, NothingOpen DEF Pending, Replacing
<1>5. Kept(u) /\ FilesGood(u)'
  BY <1>1, <1>2, <1>4, FilesGo DEF MutatorInv
<1>6. ProcessOK(u, u)'
  BY <1>1, <1>5, ProcessMoves, NoExpiry DEF MutatorInv, ProcessOK, ExpirySteps
<1>7. UpToDateOK(u)'
  BY <1>1 DEF MutatorInv, MutatorOK, UpToDateOK
<1>8. MutatorOK(u)'
  BY <1>1, <1>3, <1>7, MutatorRests DEF HasRange
<1> QED BY <1>5, <1>6, <1>8 DEF StepOK

\* The state after a commit has the states before it as its past.
LEMMA HistoryGrows ==
  ASSUME TypeOK, NEW db, hist' = Append(hist, db)
  PROVE  /\ Len(hist') = Len(hist) + 1 /\ Len(hist) <= Len(hist') /\ hist'[Len(hist')] = db
         /\ \A i \in 1..Len(hist) : hist'[i] = hist[i]
<1>1. hist \in Seq(Database \cup {db}) /\ Len(hist) \in Nat
  <2>1. hist \in Seq(Database)
    BY DEF TypeOK, HistoryOK
  <2> QED BY <2>1
<1>2. /\ Len(hist') = Len(hist) + 1 /\ \A i \in 1..Len(hist) : hist'[i] = hist[i]
      /\ hist'[Len(hist) + 1] = db
  BY <1>1, AppendProperties
<1> QED BY <1>1, <1>2

\* The commit: the tables that were pending are listed, on top of the stack of u,
\* and what u overlaid its tables on is what was committed last.
LEMMA CommitRenameHistory ==
  ASSUME TypeOK, ControlOK, NEW u \in Proc, OnlyMutator(u), MutatorInv(u), CommitRename(u)
  PROVE  StepOK(u, u)
<1>1. /\ pc[u] = "rename" /\ pc'[u] = "read" /\ newt'[u] = <<>> /\ list' = lockFile
      /\ hist' = Append(hist, Overlay(hist[Len(hist)], RecsOf(newt[u])))
      /\ UNCHANGED <<dir, st, ver, job, load>>
  BY DEF CommitRename, Committed, Rename, RenameLock, StartReload, Goto, TypeOK, CallsOK
<1>2. FilesGood(u) /\ UpToDateOK(u) /\ AdditionOK(u) /\ ProcessOK(u, u)
  BY DEF MutatorInv, MutatorOK
<1> DEFINE new == NamesOf(newt[u])
<1>3. NamesOf(st[u]) = list /\ list' = list \o new
  BY <1>1, <1>2 DEF UpToDateOK, AdditionOK
<1>4. /\ newt[u] \in Seq(Reader) /\ new \in Seq(TableName) /\ list \in Seq(TableName)
      /\ NameSet(new) = ReaderNames(newt[u]) /\ Distinct(new) /\ Distinct(list)
  BY <1>2, HeldTypes, SameNames DEF AdditionOK, FilesGood
<1>5. \A i \in 1..Len(newt[u]) :
        newt[u][i].name \in DOMAIN dir /\ newt[u][i].recs = dir[newt[u][i].name]
  BY <1>2 DEF AdditionOK
<1>6. NameSet(list) \subseteq DOMAIN dir /\ NameSet(new) \subseteq DOMAIN dir
  BY <1>2, <1>4, <1>5 DEF FilesGood, Durable, ListIntact, ReaderNames
<1>7. NameSet(list) \cap NameSet(new) = {}
  BY <1>2, <1>4 DEF FilesGood, Pending
<1>8. Holding(new) = RecsOf(newt[u])
  BY <1>4, <1>5, HoldingRead DEF TypeOK
<1> HIDE DEF new
<1>9. NameSet(list') = NameSet(list) \cup NameSet(new) /\ Distinct(list')
  BY <1>3, <1>4, <1>7, ConcatNames
<1>10. Pending(u)' = {}
  BY <1>1, NothingOpen DEF Pending, Replacing
<1>11. Kept(u)
  <2>1. Coming(u)' \subseteq Coming(u)
    BY <1>4, <1>9, <1>10 DEF Coming, Pending
  <2>2. Len(hist) <= Len(hist') /\ \A i \in 1..Len(hist) : hist'[i] = hist[i]
    BY <1>1, HistoryGrows
  <2> QED BY <2>1, <2>2, <1>1, <1>10 DEF Kept
<1>12. Durable'
  <2>1. ListIntact'
    BY <1>1, <1>6, <1>9 DEF ListIntact
  <2>2. /\ Holding(list) \in Seq(Contents) /\ RecsOf(newt[u]) \in Seq(Contents)
        /\ Holding(list \o new) = Holding(list) \o RecsOf(newt[u])
    BY <1>4, <1>6, <1>8, HoldingConcat DEF TypeOK
  <2>3. Listed = Holding(list) /\ Listed' = Holding(list')
    BY <1>1 DEF Listed, Holding
  <2>4. Live(Merged(Listed)) = hist[Len(hist)]
    BY <1>2 DEF FilesGood, Durable
  <2>5. hist'[Len(hist')] = Overlay(hist[Len(hist)], RecsOf(newt[u]))
    BY <1>1, HistoryGrows
  <2>6. Overlay(Live(Merged(Holding(list))), RecsOf(newt[u])) = Live(Merged(Holding(list) \o RecsOf(newt[u])))
    BY <2>2, CommitShows
  <2> QED BY <2>1, <2>2, <2>3, <2>4, <2>5, <2>6, <1>3 DEF Durable
<1>13. FilesGood(u)'
  BY <1>9, <1>10, <1>12 DEF FilesGood
<1>14. ProcessOK(u, u)'
  BY <1>1, <1>2, <1>11, ProcessMoves, NoExpiry DEF ProcessOK, ExpirySteps
<1>15. UpToDateOK(u)'
  BY <1>1, <1>2 DEF UpToDateOK
<1>16. MutatorOK(u)'
  BY <1>1, <1>15, MutatorRests DEF HasRange
<1> QED BY <1>11, <1>13, <1>14, <1>16 DEF StepOK

-----------------------------------------------------------------------------
(* Compaction *)

\* The steps of a compaction before its table has a name, and after the end.
BeforeInstall == {"auto", "idle", "cpcheck", "cpsub", "relock", "install"}

\* A compaction that stops.
LEMMA CompactionStops ==
  ASSUME TypeOK, NEW u \in Proc, MutatorInv(u), OthersUnchanged(u),
         pc[u] \in BeforeInstall \cup {"cpdone", "cplast"}, pc'[u] \in {"idle", "cpdone", "cplast"},
         UNCHANGED <<dir, list, hist, st, ver, newt, load>>, job'[u] \in {job[u], NoJob},
         pc'[u] = "idle" => pc[u] \in {"auto", "idle"} \/ job'[u] = NoJob
  PROVE  StepOK(u, u)
<1>1. newt[u] = <<>> /\ UpToDateOK(u) /\ ExpiryOK(u, u)
  BY NothingWritten DEF MutatorInv, MutatorOK, ProcessOK, BeforeInstall
<1>2. UpToDateOK(u)'
  BY <1>1 DEF UpToDateOK, BeforeInstall
<1>3. MutatorOK(u)' /\ ~Replacing(u)'
  BY <1>1, <1>2, MutatorRests DEF HasRange, Replacing
<1>4. ExpiryOK(u, u)'
  BY <1>1 DEF ExpiryOK, ExpirySteps, HasRange, NoJob
<1> QED BY <1>3, <1>4, ControlMoves

\* A compaction that goes on, its table not yet there.
LEMMA CompactionGoesOn ==
  ASSUME TypeOK, NEW u \in Proc, MutatorInv(u), OthersUnchanged(u), pc[u] \in BeforeInstall,
         pc'[u] \in {"cpcheck", "cpsub", "relock", "install"},
         UNCHANGED <<dir, list, hist, st, ver, newt, load>>,
         RangeFits(u)' \/ (pc'[u] \in Merging /\ job'[u].last = 0), job'[u].new = NoName,
         job'[u].expire => job'[u].first = 1 /\ job'[u].last = Len(st[u]),
         pc'[u] = "install" => fdAt'[u] = "lock"
  PROVE  StepOK(u, u)
<1>1. newt[u] = <<>> /\ UpToDateOK(u)
  BY NothingWritten DEF MutatorInv, MutatorOK, BeforeInstall
<1>2. UpToDateOK(u)'
  BY <1>1 DEF UpToDateOK, BeforeInstall
<1>3. AdditionOK(u)'
  BY <1>1 DEF MutatorInv, MutatorOK, AdditionOK
<1>4. CompactionOK(u)'
  BY DEF CompactionOK, HasRange, Replacing
<1>5. ~Replacing(u)' /\ ExpiryOK(u, u)'
  BY DEF Replacing, ExpiryOK, ExpirySteps, HasRange
<1> QED BY <1>2, <1>3, <1>4, <1>5, ControlMoves DEF MutatorOK

\* The range is given, and the list is locked or is found locked.
LEMMA LockForCompactionHistory ==
  ASSUME TypeOK, NEW u \in Proc, MutatorInv(u), OthersUnchanged(u), pc[u] \in {"auto", "idle"},
         NEW first, NEW last, NEW expire \in BOOLEAN, LockForCompaction(u, first, last, expire),
         (first \in 1..Len(st[u]) /\ last \in first..Len(st[u])) \/ last = 0,
         expire => first = 1 /\ last = Len(st[u]),
         UNCHANGED <<dir, list, hist, st, ver, newt, load>>
  PROVE  StepOK(u, u)
<1>1. CASE Goto(u, "idle") /\ UNCHANGED job
  <2>1. pc'[u] = "idle"
    BY <1>1 DEF Goto, TypeOK, CallsOK
  <2> QED BY <2>1, <1>1, CompactionStops DEF BeforeInstall
<1>2. CASE ~(Goto(u, "idle") /\ UNCHANGED job)
  <2> DEFINE j == [first |-> first, last |-> last, next |-> first, old |-> {}, new |-> NoName,
                   expire |-> expire, relocked |-> FALSE]
  <2>1. pc'[u] = "cpcheck" /\ job'[u] = j
    BY <1>2 DEF LockForCompaction, Goto, TypeOK, CallsOK
  <2>2. j.first = first /\ j.last = last /\ j.old = {} /\ j.new = NoName /\ j.expire = expire
    OBVIOUS
  <2> HIDE DEF j
  <2>3. RangeFits(u)' \/ (pc'[u] \in Merging /\ job'[u].last = 0)
    BY <2>1, <2>2 DEF RangeFits, Merging
  <2> QED BY <2>1, <2>2, <2>3, CompactionGoesOn DEF BeforeInstall
<1> QED BY <1>1, <1>2

\* After an addition, or for all tables.
LEMMA CompactHistory ==
  ASSUME TypeOK, ControlOK, NEW u \in Proc, OnlyMutator(u), MutatorInv(u),
         AutoCompact(u) \/ CompactAll(u)
  PROVE  StepOK(u, u)
<1>1. OthersUnchanged(u)
  BY OthersKeep DEF Acts, CallStep, CompactionStep, StartCall
<1>2. pc[u] \in {"auto", "idle"} /\ UNCHANGED <<dir, list, hist, st, ver, newt, load>>
  BY DEF AutoCompact, CompactAll, history
<1>3. CASE AutoCompact(u)
  <2>1. CASE Goto(u, "idle") /\ UNCHANGED job
    <3>1. pc'[u] = "idle"
      BY <2>1 DEF Goto, TypeOK, CallsOK
    <3> QED BY <3>1, <2>1, <1>1, <1>2, CompactionStops DEF BeforeInstall
  <2>2. CASE ~(Goto(u, "idle") /\ UNCHANGED job)
    <3>1. PICK first \in 1..Len(st[u]), last \in 1..Len(st[u]) :
            first < last /\ LockForCompaction(u, first, last, FALSE)
      BY <1>3, <2>2 DEF AutoCompact
    <3>2. last \in first..Len(st[u])
      BY <3>1
    <3> QED BY <3>1, <3>2, <1>1, <1>2, LockForCompactionHistory
  <2> QED BY <2>1, <2>2
<1>4. CASE CompactAll(u)
  <2>1. PICK expire \in BOOLEAN : LockForCompaction(u, 1, Len(st[u]), expire)
    BY <1>4 DEF CompactAll
  <2>2. Len(st[u]) \in Nat
    BY HeldTypes
  <2>3. (1 \in 1..Len(st[u]) /\ Len(st[u]) \in 1..Len(st[u])) \/ Len(st[u]) = 0
    BY <2>2
  <2> QED BY <2>1, <2>3, <1>1, <1>2, LockForCompactionHistory
<1> QED BY <1>3, <1>4

\* The stack is compared with the list: it is the list.
LEMMA CompactionCheckHistory ==
  ASSUME TypeOK, ControlOK, NEW u \in Proc, OnlyMutator(u), MutatorInv(u), CompactionCheck(u)
  PROVE  StepOK(u, u)
<1>1. /\ pc[u] = "cpcheck" /\ UNCHANGED <<dir, list, hist, st, ver, newt, load, job>>
      /\ pc'[u] \in {"cpsub", "cpdone"}
  BY DEF CompactionCheck, Goto, shared, history, TypeOK, CallsOK
<1>2. OthersUnchanged(u)
  BY OthersKeep DEF Acts, CallStep, CompactionStep
<1>3. CASE pc'[u] = "cpsub"
  <2>1. /\ RangeFits(u)' \/ (pc'[u] \in Merging /\ job'[u].last = 0)
        /\ job'[u].new = NoName
        /\ job'[u].expire => job'[u].first = 1 /\ job'[u].last = Len(st[u])
    BY <1>1, <1>3 DEF MutatorInv, MutatorOK, CompactionOK, HasRange, Replacing, RangeFits, Merging,
       ProcessOK, ExpiryOK
  <2> QED BY <2>1, <1>1, <1>2, <1>3, CompactionGoesOn DEF BeforeInstall
<1>4. CASE pc'[u] = "cpdone"
  BY <1>1, <1>2, <1>4, CompactionStops DEF BeforeInstall
<1> QED BY <1>1, <1>3, <1>4

\* The tables of the range are locked, and noted for removal.
LEMMA LockTableHistory ==
  ASSUME TypeOK, ControlOK, NEW u \in Proc, OnlyMutator(u), MutatorInv(u), LockTable(u)
  PROVE  StepOK(u, u)
<1> DEFINE n == st[u][job[u].next].name
<1>1. /\ pc[u] = "cpsub" /\ pc'[u] \in {"cpsub", "cpdone"} /\ job[u].next <= job[u].last
      /\ \/ pc'[u] = "cpsub" /\ job' = [job EXCEPT ![u].old = @ \cup {n}, ![u].next = @ + 1]
         \/ pc'[u] = "cpdone" /\ job' = job
      /\ UNCHANGED <<dir, list, hist, st, ver, newt, load>>
  BY DEF LockTable, Goto, history, TypeOK, CallsOK
<1>2. OthersUnchanged(u)
  BY OthersKeep DEF Acts, CallStep, CompactionStep
<1>3. /\ RangeFits(u) /\ job[u].new = NoName
      /\ job[u].expire => job[u].first = 1 /\ job[u].last = Len(st[u])
  <2>1. job[u].last # 0
    <3>1. EmptyRange(u) \/ StackRange(u)
      BY <1>1 DEF ControlOK, RangeOK, Merging
    <3> QED BY <3>1, <1>1, JobFields DEF EmptyRange, StackRange
  <2> QED BY <2>1, <1>1 DEF MutatorInv, MutatorOK, CompactionOK, HasRange, Replacing, ProcessOK, ExpiryOK
<1>4. CASE pc'[u] = "cpsub" /\ job' = [job EXCEPT ![u].old = @ \cup {n}, ![u].next = @ + 1]
  <2>1. /\ job'[u].first = job[u].first /\ job'[u].last = job[u].last /\ job'[u].new = job[u].new
        /\ job'[u].old = job[u].old \cup {n} /\ job'[u].expire = job[u].expire
    BY <1>4, JobFields DEF TypeOK, CallsOK, Jobs
  <2>2. job[u].next \in job[u].first..job[u].last
    <3>1. EmptyRange(u) \/ StackRange(u)
      BY <1>1 DEF ControlOK, RangeOK, Merging
    <3> QED BY <3>1, <1>1, JobFields DEF EmptyRange, StackRange
  <2>3. RangeFits(u)'
    BY <2>1, <2>2, <1>1, <1>3 DEF RangeFits
  <2> QED BY <2>1, <2>3, <1>1, <1>2, <1>3, <1>4, CompactionGoesOn DEF BeforeInstall
<1>5. CASE pc'[u] = "cpdone" /\ job' = job
  BY <1>5, <1>1, <1>2, CompactionStops DEF BeforeInstall
<1> QED BY <1>1, <1>4, <1>5

\* The list is unlocked for the merge, the merge fails, or the list is locked again.
LEMMA MergeHistory ==
  ASSUME TypeOK, ControlOK, NEW u \in Proc, OnlyMutator(u), MutatorInv(u),
         UnlockForMerge(u) \/ MergeFails(u) \/ Relock(u)
  PROVE  StepOK(u, u)
<1>1. /\ pc[u] \in {"cpsub", "relock"} /\ pc'[u] \in {"relock", "install", "cpdone"}
      /\ pc'[u] = "install" => fdAt'[u] = "lock"
      /\ UNCHANGED <<dir, list, hist, st, ver, newt, load>>
      /\ job' = job \/ (pc'[u] = "install" /\ job' = [job EXCEPT ![u].relocked = TRUE])
  BY DEF UnlockForMerge, MergeFails, Relock, TakeLock, Goto, shared, history, TypeOK, CallsOK
<1>2. OthersUnchanged(u)
  BY OthersKeep DEF Acts, CallStep, CompactionStep
<1>3. /\ job'[u].first = job[u].first /\ job'[u].last = job[u].last /\ job'[u].new = job[u].new
      /\ job'[u].old = job[u].old /\ job'[u].expire = job[u].expire
  BY <1>1, JobFields DEF TypeOK, CallsOK, Jobs
<1>4. /\ RangeFits(u) \/ job[u].last = 0
      /\ job[u].new = NoName
      /\ job[u].expire => job[u].first = 1 /\ job[u].last = Len(st[u])
  BY <1>1 DEF MutatorInv, MutatorOK, CompactionOK, HasRange, Replacing, ProcessOK, ExpiryOK
<1>5. RangeFits(u)' \/ (pc'[u] # "install" /\ job'[u].last = 0)
  <2>1. pc'[u] = "install" => job[u].last > 0
    BY DEF UnlockForMerge, MergeFails, Relock, Goto, TypeOK, CallsOK
  <2> QED BY <2>1, <1>1, <1>3, <1>4 DEF RangeFits
<1>6. CASE pc'[u] \in {"relock", "install"}
  BY <1>6, <1>1, <1>2, <1>3, <1>4, <1>5, CompactionGoesOn DEF BeforeInstall, Merging
<1>7. CASE pc'[u] = "cpdone"
  BY <1>7, <1>1, <1>2, CompactionStops DEF BeforeInstall
<1> QED BY <1>1, <1>6, <1>7

\* A compaction that has its table, and may list it.
LEMMA MutatorReplaces ==
  ASSUME NEW u \in Proc, MutatorInv(u), pc[u] \in {"install", "cpwrite"},
         pc'[u] \in {"cpwrite", "cprename"},
         UNCHANGED <<list, hist, st, ver, newt, load>>,
         job'[u].first = job[u].first, job'[u].last = job[u].last, job'[u].old = job[u].old,
         ReplacementFits(u)', pc'[u] = "cpwrite" => fdAt'[u] = "lock",
         pc'[u] = "cprename" =>
            lockFile' = Spliced(NamesOf(st[u]), job'[u].first, job'[u].last, Replacement(u)')
  PROVE  MutatorOK(u)'
<1>1. RangeFits(u) /\ UpToDateOK(u) /\ newt[u] = <<>>
  BY NothingWritten DEF MutatorInv, MutatorOK, CompactionOK, HasRange, Merging
<1>2. RangeFits(u)'
  BY <1>1 DEF RangeFits
<1>3. UpToDateOK(u)'
  BY <1>1 DEF UpToDateOK
<1>4. AdditionOK(u)'
  BY <1>1 DEF MutatorInv, MutatorOK, AdditionOK
<1>5. CompactionOK(u)'
  BY <1>2 DEF CompactionOK, HasRange, Replacing
<1> QED BY <1>3, <1>4, <1>5 DEF MutatorOK

\* The merged table gets its name, which becomes pending.
LEMMA InstallHistory ==
  ASSUME TypeOK, ControlOK, NEW u \in Proc, OnlyMutator(u), MutatorInv(u), Install(u)
  PROVE  StepOK(u, u)
<1> DEFINE first == job[u].first
           last == job[u].last
           recs == CompactedRecs(st[u], first, last)
<1>1. pc[u] = "install" /\ UNCHANGED <<list, hist, st, ver, newt, load, fdAt, lock>>
  BY DEF Install, history
<1>2. /\ RangeFits(u) /\ job[u].new = NoName /\ fdAt[u] = "lock" /\ newt[u] = <<>>
      /\ FilesGood(u) /\ ProcessOK(u, u)
  BY <1>1, NothingWritten
     DEF MutatorInv, MutatorOK, CompactionOK, UpToDateOK, HasRange, Replacing, Merging
<1>3. \/ recs = NoRecs /\ Goto(u, "cpwrite") /\ UNCHANGED <<dir, job>>
      \/ /\ Goto(u, "cpwrite")
         /\ \E n \in NewNames(st[u][first].name.min, st[u][last].name.max) :
              dir' = With(n, recs) /\ job' = [job EXCEPT ![u].new = n]
  BY DEF Install, OnlyMutator
<1>4. pc'[u] = "cpwrite"
  BY <1>3 DEF Goto, TypeOK, CallsOK
<1> HIDE DEF recs
<1>5. CASE recs = NoRecs /\ UNCHANGED <<dir, job>>
  <2>1. Pending(u)' \subseteq Pending(u)
    BY <1>1, <1>2, <1>4, <1>5, NothingOpen DEF Pending
  <2>2. Kept(u) /\ FilesGood(u)'
    BY <2>1, <1>1, <1>2, <1>5, NoFileChanges
  <2>3. ProcessOK(u, u)'
    BY <2>2, <1>1, <1>2, <1>4, <1>5, ProcessMoves DEF ProcessOK, ExpiryOK, ExpirySteps, HasRange
  <2>4. ReplacementFits(u)'
    BY <1>1, <1>2, <1>5 DEF ReplacementFits, recs
  <2>5. MutatorOK(u)'
    BY <2>4, <1>1, <1>2, <1>4, <1>5, MutatorReplaces
  <2> QED BY <2>2, <2>3, <2>5 DEF StepOK
<1>6. ASSUME NEW n \in NewNames(st[u][first].name.min, st[u][last].name.max),
             dir' = With(n, recs), job' = [job EXCEPT ![u].new = n]
      PROVE  StepOK(u, u)
  <2>1. n \in TableName /\ n # NoName /\ n \notin HeldNames
    <3>1. first \in 1..Len(st[u]) /\ last \in 1..Len(st[u])
      BY <1>2, HeldTypes DEF RangeFits
    <3>2. st[u][first].name.min \in Nat /\ st[u][last].name.max \in Nat
      BY <3>1, HeldTypes, ReaderFields
    <3> QED BY <3>2, <1>6, NamesAreFresh, NoneAssumption
  <2>2. /\ job'[u].new = n /\ job'[u].first = job[u].first /\ job'[u].last = job[u].last
        /\ job'[u].old = job[u].old /\ job'[u].expire = job[u].expire
    BY <1>6 DEF TypeOK, CallsOK, Jobs
  <2>3. Pending(u)' \subseteq Pending(u) \cup {n}
    BY <2>2, <1>1 DEF Pending
  <2>4. /\ Kept(u) /\ FilesGood(u)' /\ DOMAIN dir' = DOMAIN dir \cup {n} /\ dir'[n] = recs
    BY <2>1, <2>3, <1>1, <1>6, FileAppears
  <2>5. ProcessOK(u, u)'
    BY <2>2, <2>4, <1>1, <1>2, <1>4, ProcessMoves DEF ProcessOK, ExpiryOK, ExpirySteps, HasRange
  <2>6. ReplacementFits(u)'
    BY <2>1, <2>2, <2>4, <1>1 DEF ReplacementFits, recs
  <2>7. MutatorOK(u)'
    BY <2>2, <2>6, <1>1, <1>2, <1>4, MutatorReplaces
  <2> QED BY <2>4, <2>5, <2>7 DEF StepOK
<1> QED BY <1>3, <1>5, <1>6

\* The lock file gets the list in which the merged table replaces the range.
LEMMA CompactionWriteHistory ==
  ASSUME TypeOK, ControlOK, NEW u \in Proc, OnlyMutator(u), MutatorInv(u), CompactionWrite(u)
  PROVE  StepOK(u, u)
<1>1. /\ pc[u] = "cpwrite" /\ UNCHANGED <<dir, hist, st, ver, newt, job, load>>
      /\ WriteLock(u, Spliced(NamesOf(st[u]), job[u].first, job[u].last, Replacement(u)))
      /\ Goto(u, "cprename")
  BY DEF CompactionWrite, history, OnlyMutator
<1>2. OthersUnchanged(u)
  BY OthersKeep DEF Acts, CallStep, CompactionStep
<1>3. /\ pc'[u] = "cprename" /\ list' = list
      /\ lockFile' = Spliced(NamesOf(st[u]), job[u].first, job[u].last, Replacement(u))
  <2>1. fdAt[u] = "lock"
    BY <1>1 DEF MutatorInv, MutatorOK, UpToDateOK
  <2> QED BY <2>1, <1>1 DEF WriteLock, Goto, TypeOK, CallsOK
<1>4. ReplacementFits(u)' /\ Replacement(u)' = Replacement(u)
  BY <1>1 DEF MutatorInv, MutatorOK, CompactionOK, Replacing, ReplacementFits, Replacement
<1>5. MutatorOK(u)'
  BY <1>1, <1>3, <1>4, MutatorReplaces
<1>6. Replacing(u) /\ ExpiryOK(u, u)'
  BY <1>1, <1>3 DEF Replacing, MutatorInv, ProcessOK, ExpiryOK, ExpirySteps, HasRange
<1> QED BY <1>1, <1>2, <1>3, <1>5, <1>6, ControlMoves

\* The merged table replaces the range in the list: the list says the same, and
\* the tables of the range are not in it any more.
LEMMA CompactionRenameHistory ==
  ASSUME TypeOK, ControlOK, NEW u \in Proc, OnlyMutator(u), MutatorInv(u), CompactionRename(u)
  PROVE  StepOK(u, u)
<1> DEFINE first == job[u].first
           last == job[u].last
           new == Replacement(u)
           range == {list[i] : i \in first..last}
<1>1. /\ pc[u] = "cprename" /\ pc'[u] = "delete" /\ list' = lockFile
      /\ UNCHANGED <<dir, hist, st, ver, newt, load, job>>
  BY DEF CompactionRename, Rename, RenameLock, Goto, history, OnlyMutator, TypeOK, CallsOK
<1>2. /\ FilesGood(u) /\ ProcessOK(u, u) /\ RangeFits(u) /\ ReplacementFits(u) /\ NamesOf(st[u]) = list
      /\ lockFile = Spliced(list, first, last, new) /\ newt[u] = <<>>
  BY <1>1, NothingWritten
     DEF MutatorInv, MutatorOK, CompactionOK, UpToDateOK, HasRange, Replacing, Merging
<1>3. /\ st[u] \in Seq(Reader) /\ list \in Seq(TableName) /\ Len(list) = Len(st[u])
      /\ ReaderNames(st[u]) = NameSet(list) /\ \A i \in 1..Len(st[u]) : list[i] = st[u][i].name
  BY <1>2, HeldTypes, SameNames, NamesOfType
<1>4. first \in 1..Len(st[u]) /\ last \in first..Len(st[u]) /\ job[u].old \subseteq range
  BY <1>2, <1>3 DEF RangeFits
<1>5. /\ View(st[u]) = hist[Len(hist)]
      /\ \A i \in 1..Len(st[u]) : st[u][i].name \in DOMAIN dir /\ st[u][i].recs = dir[st[u][i].name]
  BY <1>2, UpToDateShows DEF ProcessOK
<1>6. /\ new \in Seq(TableName) /\ Distinct(new) /\ NameSet(new) \subseteq DOMAIN dir
      /\ NameSet(new) \subseteq Pending(u)
      /\ \/ new = <<>> /\ CompactedRecs(st[u], first, last) = NoRecs
         \/ \E n \in TableName : new = <<n>> /\ dir[n] = CompactedRecs(st[u], first, last)
  <2>1. CASE job[u].new = NoName
    <3>1. new = <<>> /\ Len(<<>>) = 0 /\ NameSet(<<>>) = {}
      BY <2>1, NothingOpen DEF Replacement
    <3> QED BY <3>1, <2>1, <1>2 DEF Distinct, ReplacementFits
  <2>2. CASE job[u].new # NoName
    <3> DEFINE n == job[u].new
    <3>1. n \in TableName /\ new = <<n>> /\ n \in DOMAIN dir /\ dir[n] = CompactedRecs(st[u], first, last)
      BY <2>2, <1>2, JobFields DEF Replacement, ReplacementFits
    <3>2. n \in Pending(u)
      BY <1>1, <2>2 DEF Pending, Replacing
    <3> HIDE DEF n, new
    <3>3. Len(new) = 1 /\ new[1] = n /\ new \in Seq(TableName)
      BY <3>1
    <3>4. NameSet(new) = {n} /\ Distinct(new)
      BY <3>3 DEF NameSet, Distinct
    <3> QED BY <3>1, <3>2, <3>3, <3>4
  <2> QED BY <2>1, <2>2
<1>7. NameSet(new) \cap NameSet(list) = {} /\ Distinct(list) /\ NameSet(list) \subseteq DOMAIN dir
  BY <1>2, <1>6 DEF FilesGood, Durable, ListIntact
<1> HIDE DEF new
<1>8. /\ NameSet(list') \subseteq NameSet(list) \cup NameSet(new)
      /\ Distinct(list') /\ NameSet(list') \cap range = {}
  <2>1. first \in 1..Len(list) /\ last \in first..Len(list)
    BY <1>3, <1>4
  <2>2. list' = Spliced(list, first, last, new)
    BY <1>1, <1>2
  <2>3. range = {list[i] : i \in first..last}
    OBVIOUS
  <2> HIDE DEF first, last, range
  <2>4. list \in Seq(TableName) /\ new \in Seq(TableName)
    BY <1>3, <1>6
  <2>5. Distinct(list) /\ Distinct(new) /\ NameSet(new) \cap NameSet(list) = {}
    BY <1>6, <1>7
  <2>6. /\ NameSet(Spliced(list, first, last, new)) \subseteq NameSet(list) \cup NameSet(new)
        /\ Distinct(Spliced(list, first, last, new))
        /\ NameSet(Spliced(list, first, last, new)) \cap {list[i] : i \in first..last} = {}
    BY <2>1, <2>4, <2>5, SplicedNames
  <2> QED BY <2>2, <2>3, <2>6
<1>9. Live(Merged(Holding(list'))) = hist[Len(hist)]
  <2> DEFINE rs == st[u]
  <2>1. rs \in Seq(Reader) /\ NamesOf(rs) = list /\ new \in Seq(TableName)
    BY <1>2, <1>3, <1>6
  <2>2. Distinct(NamesOf(rs)) /\ Distinct(new) /\ NameSet(new) \cap NameSet(NamesOf(rs)) = {}
    BY <1>6, <1>7, <2>1
  <2>3. \A i \in 1..Len(rs) : rs[i].name \in DOMAIN dir /\ rs[i].recs = dir[rs[i].name]
    BY <1>5
  <2>4. first \in 1..Len(rs) /\ last \in first..Len(rs) /\ NameSet(new) \subseteq DOMAIN dir
    BY <1>4, <1>6
  <2>5. \/ new = <<>> /\ CompactedRecs(rs, first, last) = NoRecs
        \/ \E n \in TableName : new = <<n>> /\ dir[n] = CompactedRecs(rs, first, last)
    BY <1>6
  <2>6. View(rs) = hist[Len(hist)]
    BY <1>5
  <2> HIDE DEF first, last, rs
  <2>7. Live(Merged(Holding(Spliced(NamesOf(rs), first, last, new)))) = View(rs)
    BY <2>1, <2>2, <2>3, <2>4, <2>5, SplicedShows DEF TypeOK
  <2>8. list' = Spliced(list, first, last, new)
    BY <1>1, <1>2 DEF first, last
  <2> QED BY <2>1, <2>6, <2>7, <2>8
<1>10. Pending(u)' = {}
  BY <1>1, <1>2, NothingOpen DEF Pending, Replacing
<1>11. Coming(u)' = NameSet(list') /\ NameSet(list') \subseteq Coming(u)
  BY <1>6, <1>8, <1>10 DEF Coming
<1>12. Kept(u)
  BY <1>1, <1>10, <1>11, HeldTypes DEF Kept
<1>13. FilesGood(u)'
  <2>1. Listed' = Holding(list')
    BY <1>1 DEF Listed, Holding
  <2>2. ListIntact'
    BY <1>1, <1>6, <1>7, <1>8 DEF ListIntact
  <2> QED BY <2>1, <2>2, <1>1, <1>8, <1>9, <1>10 DEF FilesGood, Durable
<1>14. ProcessOK(u, u)'
  <2>1. job[u].expire => range = NameSet(list)
    <3>1. job[u].expire => first = 1 /\ last = Len(list)
      BY <1>1, <1>2, <1>3 DEF ProcessOK, ExpiryOK, HasRange
    <3> QED BY <3>1 DEF NameSet
  <2>2. ExpiryOK(u, u)'
    BY <2>1, <1>1, <1>3, <1>8, <1>11 DEF ExpiryOK, ExpirySteps, HasRange
  <2> QED BY <2>2, <1>1, <1>2, <1>12, ProcessMoves
<1>15. MutatorOK(u)'
  <2>1. UpToDateOK(u)'
    BY <1>1 DEF MutatorInv, MutatorOK, UpToDateOK
  <2>2. AdditionOK(u)'
    BY <1>1, <1>2 DEF MutatorInv, MutatorOK, AdditionOK
  <2>3. job'[u].old \cap NameSet(list') = {}
    BY <1>1, <1>4, <1>8
  <2>4. CompactionOK(u)'
    BY <2>3, <1>1 DEF CompactionOK, HasRange, Replacing
  <2> QED BY <2>1, <2>2, <2>4 DEF MutatorOK
<1> QED BY <1>12, <1>13, <1>14, <1>15 DEF StepOK

\* The compacted tables are removed if the working directory is the stack's; they
\* are not listed any more.  Then the stack is reloaded.
LEMMA DeleteCompactedHistory ==
  ASSUME TypeOK, ControlOK, NEW u \in Proc, OnlyMutator(u), MutatorInv(u), DeleteCompacted(u)
  PROVE  StepOK(u, u)
<1> DEFINE files == job[u].old \ {job[u].new}
<1>1. /\ pc[u] = "delete" /\ pc'[u] = "read" /\ dir' \in {dir, Without(files)}
      /\ UNCHANGED <<list, hist, st, ver, newt, job, load>>
  BY DEF DeleteCompacted, RemoveHere, StartReload, Goto, history, TypeOK, CallsOK
<1>2. files \cap NameSet(list) = {}
  BY <1>1 DEF MutatorInv, MutatorOK, CompactionOK
<1> HIDE DEF files
<1>3. Pending(u)' \subseteq Pending(u)
  BY <1>1 DEF Pending, Replacing
<1>4. Kept(u) /\ FilesGood(u)'
  <2>1. CASE dir' = dir
    BY <2>1, <1>1, <1>3, NoFileChanges DEF MutatorInv
  <2>2. CASE dir' = Without(files)
    BY <2>2, <1>1, <1>2, <1>3, FilesGo DEF MutatorInv
  <2> QED BY <2>1, <2>2, <1>1
<1>5. ProcessOK(u, u)'
  <2>1. ret'[u] = "compact" /\ Coming(u)' \subseteq Coming(u)
    BY <1>1, <1>3 DEF DeleteCompacted, StartReload, Return, Coming, TypeOK, CallsOK
  <2>2. ExpiryOK(u, u)'
    BY <2>1, <1>1 DEF MutatorInv, ProcessOK, ExpiryOK, ExpirySteps, HasRange
  <2> QED BY <2>2, <1>1, <1>4, ProcessMoves DEF MutatorInv
<1>6. UpToDateOK(u)' /\ newt'[u] = <<>>
  BY <1>1, NothingWritten DEF MutatorInv, MutatorOK, UpToDateOK
<1>7. MutatorOK(u)'
  BY <1>1, <1>6, MutatorRests DEF HasRange
<1> QED BY <1>4, <1>5, <1>7 DEF StepOK

\* The deferred calls release the locks.
LEMMA CompactionEndHistory ==
  ASSUME TypeOK, ControlOK, NEW u \in Proc, OnlyMutator(u), MutatorInv(u),
         CompactionDone(u) \/ CompactionEnd(u)
  PROVE  StepOK(u, u)
<1>1. /\ pc[u] \in {"cpdone", "cplast"} /\ pc'[u] \in {"cplast", "idle"}
      /\ UNCHANGED <<dir, list, hist, st, ver, newt, load>> /\ job'[u] \in {job[u], NoJob}
      /\ pc'[u] = "idle" => job'[u] = NoJob
  BY DEF CompactionDone, CompactionEnd, Goto, history, TypeOK, CallsOK
<1>2. OthersUnchanged(u)
  BY OthersKeep DEF Acts, CallStep, CompactionStep
<1> QED BY <1>1, <1>2, CompactionStops

-----------------------------------------------------------------------------
(* The invariant *)

\* At first nothing is listed, and nobody has a stack.
LEMMA InitHistory == ASSUME NEW u \in Proc PROVE Init => MutatorInv(u)
<1> SUFFICES ASSUME Init PROVE MutatorInv(u)
  OBVIOUS
<1>1. /\ NamesOf(<<>>) = <<>> /\ Len(<<>>) = 0 /\ Distinct(<<>>) /\ 0 <= MaxTables
      /\ NameSet(<<>>) = {} /\ ReaderNames(<<>>) = {}
  BY NamesOfEmpty, NothingOpen, BoundsAssumption DEF Distinct
<1>2. Pending(u) = {}
  BY <1>1 DEF Init, Pending, Replacing
<1>3. Durable
  <2>1. Listed = <<>> /\ NameSet(list) = {}
    BY <1>1 DEF Init, EmptyDirectory, Listed
  <2>2. hist = <<NoRecs>> /\ Len(hist) = 1 /\ hist[1] = NoRecs
    BY DEF Init
  <2> QED BY <2>1, <2>2, MergedSingle DEF Durable, ListIntact
<1>4. FilesGood(u)
  BY <1>1, <1>2, <1>3 DEF Init, EmptyDirectory, FilesGood
<1>5. /\ NoLoad.names = <<>> /\ NoLoad.opened = <<>> /\ NoLoad.tries = 0
      /\ \A p \in Proc : load[p] = NoLoad /\ pc[p] = "closed"
  BY DEF Init, NoLoad
<1>6. MutatorOK(u)
  <2>1. UpToDateOK(u) /\ CompactionOK(u)
    BY <1>5 DEF UpToDateOK, CompactionOK, HasRange, Replacing
  <2>2. AdditionOK(u)
    BY <1>1 DEF Init, AdditionOK
  <2> QED BY <2>1, <2>2 DEF MutatorOK
<1>7. ASSUME NEW p \in Proc PROVE ProcessOK(u, p)
  <2>1. /\ st[p] = <<>> /\ load[p].opened = <<>> /\ load[p].names = <<>> /\ ver[p] = 0
        /\ pc[p] = "closed" /\ job[p] = NoJob
    BY <1>5 DEF Init
  <2>2. StackOK(p)
    <3>1. 0 <= Len(hist)
      BY DEF Init
    <3> QED BY <3>1, <2>1, NothingOpen DEF StackOK
  <2>3. LoadOK(p) /\ NotBack(u, p) /\ ExpiryOK(u, p)
    BY <2>1, <1>2 DEF LoadOK, NotBack, ExpiryOK, NoJob
  <2> QED BY <2>2, <2>3 DEF ProcessOK
<1>8. \A q \in Proc : ReaderOK(q)
  BY DEF Init, ReaderOK, Reloading
<1> QED BY <1>4, <1>6, <1>7, <1>8 DEF MutatorInv

\* Every step of every process leaves what it should.
LEMMA ActsHistory ==
  ASSUME TypeOK, ControlOK, NEW u \in Proc, OnlyMutator(u), MutatorInv(u), NEW p \in Proc, Acts(p)
  PROVE  StepOK(u, p)
<1>1. CASE ReloadStep(p)
  BY <1>1, ReadListHistory, ReuseReaderHistory, OpenTableHistory, TableMissingHistory, RecheckHistory,
     SwapHistory DEF ReloadStep
<1>2. CASE AdditionStep(p)
  <2>1. p = u
    BY <1>2, MutatorActs
  <2> QED BY <1>2, <2>1, CheckLockedHistory, AddTableHistory, NotCommitted, CommitWriteHistory,
          CommitRenameHistory, RenameSucceeds, AdditionCloseHistory, ScanHistory, CrashHistory
          DEF AdditionStep
<1>3. CASE CompactionStep(p)
  <2>1. p = u
    BY <1>3, MutatorActs
  <2> QED BY <1>3, <2>1, CompactHistory, CompactionCheckHistory, LockTableHistory, MergeHistory,
          InstallHistory, CompactionWriteHistory, CompactionRenameHistory, RenameSucceeds,
          DeleteCompactedHistory, CompactionEndHistory, CrashHistory DEF CompactionStep
<1>4. CASE StartCall(p)
  <2>1. CASE Open(p) \/ LockTaken(p) \/ Close(p)
    BY <2>1, OpenHistory, CloseHistory
  <2>2. CASE CompactAll(p) \/ \E c \in CallNames : LockList(p, c)
    <3>1. p = u
      BY <2>2, MutatorActs
    <3> QED BY <3>1, <2>2, CompactHistory, LockListHistory
  <2> QED BY <1>4, <2>1, <2>2 DEF StartCall
<1> QED BY <1>1, <1>2, <1>3, <1>4, CloseRemoveHistory, GiveUpHistory, CrashHistory DEF Acts, CallStep

\* The invariant is inductive, and no step brings back what it must not.
LEMMA StepHistory ==
  ASSUME TypeOK, ControlOK, NEW u \in Proc, OnlyMutator(u), MutatorInv(u), [Next]_vars
  PROVE  MutatorInv(u)'
<1>1. CASE UNCHANGED vars
  <2>1. UNCHANGED <<dir, list, lockFile, pc, st, load, ret, fdAt, newt, job, lock, hist, ver>>
    BY <1>1 DEF vars, shared, history
  <2>2. /\ Pending(u)' = Pending(u) /\ Coming(u)' = Coming(u)
        /\ HasRange(u)' = HasRange(u) /\ Replacing(u)' = Replacing(u)
    BY <2>1 DEF Pending, Coming, HasRange, Replacing
  <2>3. FilesGood(u)'
    <3>1. Listed' = Listed
      BY <2>1 DEF Listed
    <3> QED BY <3>1, <2>1, <2>2 DEF MutatorInv, FilesGood, Durable, ListIntact
  <2>4. MutatorOK(u)'
    <3>1. UpToDateOK(u)' /\ AdditionOK(u)'
      BY <2>1, <2>2 DEF MutatorInv, MutatorOK, UpToDateOK, AdditionOK
    <3>2. /\ RangeFits(u)' = RangeFits(u) /\ ReplacementFits(u)' = ReplacementFits(u)
          /\ Replacement(u)' = Replacement(u)
      BY <2>1 DEF RangeFits, ReplacementFits, Replacement
    <3>3. CompactionOK(u)'
      BY <2>1, <2>2, <3>2 DEF MutatorInv, MutatorOK, CompactionOK
    <3> QED BY <3>1, <3>3 DEF MutatorOK
  <2>5. ASSUME NEW p \in Proc PROVE ProcessOK(u, p)' /\ (ReaderOK(p) => ReaderOK(p)')
    <3>1. StackOK(p)' = StackOK(p)
      BY <2>1 DEF StackOK, Faithful
    <3>2. LoadOK(p)' = LoadOK(p)
      <4>1. \A i : MayRead(p, i)' = MayRead(p, i)
        BY <2>1 DEF MayRead
      <4>2. Readable(p)' = Readable(p)
        BY <2>1, <4>1 DEF Readable
      <4> QED BY <2>1, <4>2 DEF LoadOK
    <3>3. Gone(p)' = Gone(p)
      BY <2>1 DEF Gone
    <3>4. NotBack(u, p)' = NotBack(u, p)
      BY <2>1, <2>2, <3>3 DEF NotBack
    <3>5. (ReaderOK(p) => ReaderOK(p)') /\ (ExpiryOK(u, p) => ExpiryOK(u, p)')
      BY <2>1, <2>2 DEF ReaderOK, ExpiryOK, HasRange
    <3> QED BY <3>1, <3>2, <3>4, <3>5 DEF MutatorInv, ProcessOK
  <2> QED BY <2>3, <2>4, <2>5 DEF MutatorInv
<1>2. ASSUME NEW p \in Proc, Acts(p) PROVE MutatorInv(u)'
  <2>1. OthersUnchanged(p) /\ StepOK(u, p)
    BY <1>2, OthersKeep, ActsHistory
  <2>2. ASSUME NEW q \in Proc \ {p} PROVE ProcessOK(u, q)' /\ (ReaderOK(q) => ReaderOK(q)')
    BY <2>1, OthersStay DEF MutatorInv, StepOK
  <2> QED BY <2>1, <2>2 DEF MutatorInv, StepOK
<1> QED BY <1>1, <1>2 DEF Next, Acts

\* So it holds throughout, with what it rests on.
LEMMA MutatorCorrect ==
  ASSUME NEW u \in Proc, OnlyMutator(u) PROVE Spec => [](TypeOK /\ ControlOK /\ MutatorInv(u))
<1>1. TypeOK /\ ControlOK /\ MutatorInv(u) /\ [Next]_vars => MutatorInv(u)'
  BY StepHistory
<1> QED BY <1>1, InitTypes, InitHistory, StepTypes, PTL DEF Spec

\* What the list and its files say is what was committed, as long as one process
\* adds, cleans, compacts and expires while the others open and close their stacks:
\* its transactions of several tables, its compactions of any range, the reloads of
\* all kinds and the closes of all processes, which remove files, neither lose a commit nor revive a
\* deleted ref, whoever dies meanwhile.
THEOREM MutatorDurable ==
  ASSUME NEW u \in Proc, OnlyMutator(u) PROVE Spec => []Durable
<1>1. MutatorInv(u) => Durable
  BY DEF MutatorInv, FilesGood
<1> QED BY <1>1, MutatorCorrect, PTL

-----------------------------------------------------------------------------
(* The stacks implement RefDB: seen is ver, and view is what st shows.     *)

\* RefDB speaks of the same tables.
LEMMA SameTables ==
  DB!NoRecs = NoRecs /\ \A db, ts : DB!Overlay(db, ts) = Overlay(db, ts)
BY DEF DB!NoRecs, NoRecs, DB!Overlay, DB!Live, DB!Merged, Overlay, Live, Merged

\* Nothing is seen at first.
LEMMA InitImplements == Init => DB!Init
<1> SUFFICES ASSUME Init PROVE DB!Init
  OBVIOUS
<1>1. [p \in Proc |-> View(st[p])] = [p \in Proc |-> NoRecs]
  BY NothingOpen DEF Init
<1> QED BY <1>1, SameTables DEF Init, DB!Init

\* What the processes read when p alone gets a stack that shows db.
LEMMA ViewChanges ==
  ASSUME TypeOK, NEW p \in Proc, NEW rs, NEW db, st' = [st EXCEPT ![p] = rs], View(rs) = db
  PROVE  [q \in Proc |-> View(st[q])]' = [[q \in Proc |-> View(st[q])] EXCEPT ![p] = db]
<1>1. \A q \in Proc : st'[q] = IF q = p THEN rs ELSE st[q]
  BY DEF TypeOK, StacksOK
<1>2. \A q \in Proc : View(st'[q]) = IF q = p THEN db ELSE View(st[q])
  BY <1>1
<1> QED BY <1>2

\* Most steps are not seen.
LEMMA QuietOrNot ==
  ASSUME TypeOK, ControlOK, NEW u \in Proc, OnlyMutator(u), MutatorInv(u), NEW p \in Proc, Acts(p)
  PROVE  \/ Swap(p) \/ CommitRename(p) \/ Forget(p, "closed") \/ Forget(p, "aborted")
         \/ UNCHANGED <<hist, ver, st>>
<1>1. CASE ReloadStep(p)
  BY <1>1 DEF ReloadStep, ReadList, ReuseReader, OpenTable, TableMissing, Recheck, history
<1>2. CASE AdditionStep(p)
  <2>1. p = u
    BY <1>2, MutatorActs
  <2>2. ~CommitSyncFails(p) /\ (CheckLocked(p) => UNCHANGED <<hist, ver, st>>)
    BY <2>1, RenameSucceeds, CheckLockedHistory
  <2> QED BY <1>2, <2>2 DEF AdditionStep, AddTable, Abandon, CommitNothing, CommitWrite,
          CommitRenameFails, AdditionClose, Scan, ScanPanics, history
<1>3. CASE CompactionStep(p)
  <2>1. CASE \/ AutoCompact(p) \/ CompactionCheck(p) \/ LockTable(p) \/ UnlockForMerge(p)
             \/ MergeFails(p) \/ Relock(p) \/ Install(p)
    BY <2>1 DEF AutoCompact, CompactionCheck, LockTable, UnlockForMerge, MergeFails, Relock,
       Install, history
  <2>2. CASE \/ CompactionWrite(p) \/ CompactionRename(p) \/ CompactionRenameFails(p)
             \/ DeleteCompacted(p) \/ CompactionDone(p) \/ CompactionEnd(p) \/ CompactionPanics(p)
    BY <2>2 DEF CompactionWrite, CompactionRename, CompactionRenameFails, DeleteCompacted,
       CompactionDone, CompactionEnd, CompactionPanics, history
  <2> QED BY <1>3, <2>1, <2>2 DEF CompactionStep
<1>4. CASE StartCall(p)
  BY <1>4 DEF StartCall, Open, LockTaken, CompactAll, Close, LockList, history
<1>5. CASE CloseRemove(p) \/ GiveUp(p) \/ Crash(p)
  BY <1>5 DEF CloseRemove, GiveUp, Crash, history
<1> QED BY <1>1, <1>2, <1>3, <1>4, <1>5 DEF Acts, CallStep

\* A reload that succeeds is a Refresh to the version of the list it read.
LEMMA SwapRefreshes ==
  ASSUME TypeOK, NEW u \in Proc, MutatorInv(u), NEW p \in Proc, Swap(p)
  PROVE  DB!Refresh(p)
<1> DEFINE v == load[p].at
<1>1. /\ pc[p] = "open" /\ Len(load[p].opened) = Len(load[p].names) /\ hist' = hist
      /\ st' = [st EXCEPT ![p] = load[p].opened] /\ ver' = [ver EXCEPT ![p] = v]
  BY DEF Swap
<1>2. v \in 1..Len(hist) /\ ver[p] <= v /\ View(load[p].opened) = hist[v]
  BY <1>1, LoadedStack
<1>3. v \in (IF ver[p] = 0 THEN 1 ELSE ver[p])..Len(hist)
  <2>1. ver[p] \in Nat /\ Len(hist) \in Nat
    BY DEF TypeOK, HistoryOK
  <2> QED BY <1>2, <2>1
<1>4. [q \in Proc |-> View(st[q])]' = [[q \in Proc |-> View(st[q])] EXCEPT ![p] = hist[v]]
  BY <1>1, <1>2, ViewChanges
<1> HIDE DEF v
<1> QED BY <1>1, <1>3, <1>4 DEF DB!Refresh

\* The rename of the lock file is the Commit, by the process that reads the
\* newest version.
LEMMA RenameCommits ==
  ASSUME TypeOK, NEW u \in Proc, OnlyMutator(u), MutatorInv(u), NEW p \in Proc, CommitRename(p)
  PROVE  DB!Commit(p)
<1> DEFINE ts == RecsOf(newt[p])
<1>1. /\ pc[p] = "rename" /\ UNCHANGED <<st, ver>>
      /\ hist' = Append(hist, Overlay(hist[Len(hist)], ts))
  BY DEF CommitRename, Committed
<1>2. p = u
  BY MutatorActs DEF AdditionStep
<1>3. /\ ver[p] = Len(hist) /\ newt[p] # <<>> /\ Len(newt[p]) <= MaxTables
      /\ \A i \in 1..Len(newt[p]) : newt[p][i].recs \in Batches
  BY <1>1, <1>2 DEF MutatorInv, MutatorOK, UpToDateOK, AdditionOK
<1>4. Len(newt[p]) \in 1..MaxTables
  <2>1. newt[p] \in Seq(Reader) /\ Len(newt[p]) \in Nat /\ Len(newt[p]) # 0
    BY <1>3, HeldTypes, EmptySeq
  <2> QED BY <2>1, <1>3, BoundsAssumption
<1>5. ts \in [1..Len(newt[p]) -> Batches]
  BY <1>3 DEF RecsOf
<1> HIDE DEF ts
<1>6. \E n \in 1..MaxTables : \E us \in [1..n -> Batches] :
        hist' = Append(hist, Overlay(hist[Len(hist)], us))
  BY <1>1, <1>4, <1>5
<1> QED BY <1>1, <1>3, <1>6, SameTables DEF DB!Commit, DB!Current

\* Closing a stack, a panic and a crash are a Leave.
LEMMA ForgetLeaves ==
  ASSUME TypeOK, NEW p \in Proc, NEW label, Forget(p, label)
  PROVE  DB!Leave(p)
<1>1. st' = [st EXCEPT ![p] = <<>>] /\ ver' = [ver EXCEPT ![p] = 0] /\ hist' = hist
  BY DEF Forget
<1>2. [q \in Proc |-> View(st[q])]' = [[q \in Proc |-> View(st[q])] EXCEPT ![p] = NoRecs]
  BY <1>1, NothingOpen, ViewChanges
<1> QED BY <1>1, <1>2, SameTables DEF DB!Leave

\* Every step is a step of RefDB or changes nothing there.
LEMMA StepImplements ==
  ASSUME TypeOK, ControlOK, NEW u \in Proc, OnlyMutator(u), MutatorInv(u), [Next]_vars
  PROVE  [DB!Next]_(DB!dbVars)
<1>1. CASE UNCHANGED <<hist, ver, st>>
  BY <1>1 DEF DB!dbVars
<1>2. ASSUME NEW p \in Proc, Acts(p), ~UNCHANGED <<hist, ver, st>> PROVE DB!Next
  <2>1. DB!Commit(p) \/ DB!Refresh(p) \/ DB!Leave(p)
    BY <1>2, QuietOrNot, SwapRefreshes, RenameCommits, ForgetLeaves
  <2> QED BY <2>1 DEF DB!Next
<1>3. CASE UNCHANGED vars
  BY <1>1, <1>3 DEF vars, history
<1> QED BY <1>1, <1>2, <1>3 DEF Next, Acts

\* The stacks of the Go library are one database, as long as one process changes
\* it and no system call fails: every process reads, at every moment, exactly a
\* state that was committed, never an older one after a newer one, whatever mixture
\* of reused readers and files its reload put together while compaction replaced
\* tables, and each transaction is committed on top of the newest state.
THEOREM MutatorImplements ==
  ASSUME NEW u \in Proc, OnlyMutator(u) PROVE Spec => Implements
<1>1. TypeOK /\ ControlOK /\ MutatorInv(u) /\ [Next]_vars => [DB!Next]_(DB!dbVars)
  BY StepImplements
<1> QED BY <1>1, InitImplements, MutatorCorrect, PTL DEF Spec, Implements, DB!Spec

-----------------------------------------------------------------------------
(* What a call leaves behind.  As long as nobody has died, the lock on the *)
(* list is the one that u has open, and the files outside the list belong  *)
(* to the call that u is in or to its stack.                               *)

\* The steps at which u has the lock on the list, and those at which it may have it
\* or has to close it.
HasList(u) == pc[u] \in {"locked", "adding", "cpcheck", "cpsub", "install", "cpwrite"}
LockedSteps(u) ==
  \/ HasList(u) \/ pc[u] \in {"rename", "adclose", "scan", "relock", "cprename", "delete", "cpdone", "cplast"}
  \/ pc[u] \in {"read", "open"} /\ ret[u] \in {"scan", "compact"}

\* While nobody has died the lock file that is there is the one that u has open, and
\* a file outside the list is one of its stack, or is going to be listed.
LockTidy(u) == /\ lock[u] # "none" => LockedSteps(u)
               /\ HasList(u) => lock[u] = "open"
               /\ pc[u] = "relock" => lock[u] = "closed"
               /\ crashes = 0 /\ lockFile # NoFile => lock[u] = "open"
FilesTidy(u) ==
  crashes = 0 => DOMAIN dir \ NameSet(list) \subseteq ReaderNames(st[u]) \cup Pending(u)

TidyInv(u) == LockTidy(u) /\ FilesTidy(u)

\* The steps of a process other than u: files may go, nothing else changes.
LEMMA OthersTidy ==
  ASSUME TypeOK, NEW u \in Proc, OnlyMutator(u), MutatorInv(u), TidyInv(u), NEW p \in Proc \ {u},
         Acts(p)
  PROVE  TidyInv(u)'
<1>1. /\ pc'[u] = pc[u] /\ st'[u] = st[u] /\ ret'[u] = ret[u] /\ newt'[u] = newt[u]
      /\ job'[u] = job[u] /\ lock'[u] = lock[u]
  BY OthersKeep DEF OthersUnchanged
<1>2. \/ Open(p) \/ Close(p) \/ ReloadStep(p) \/ CloseRemove(p) \/ GiveUp(p) \/ Crash(p)
  BY MutatorActs DEF Acts, StartCall, CallStep
<1>3. /\ UNCHANGED <<list, lockFile>>
      /\ DOMAIN dir' \subseteq DOMAIN dir
      /\ crashes' = 0 => crashes = 0
  <2>1. CASE Open(p) \/ Close(p) \/ GiveUp(p)
    BY <2>1 DEF Open, Close, GiveUp, shared
  <2>2. CASE CloseRemove(p)
    BY <2>2 DEF CloseRemove, Without
  <2>3. CASE Crash(p)
    <3>1. crashes' # 0
      BY <2>3 DEF Crash, TypeOK, HistoryOK
    <3> QED BY <2>3, <3>1 DEF Crash, shared
  <2>4. CASE Swap(p)
    BY <2>4 DEF Swap, Without
  <2>5. CASE ReadList(p) \/ ReuseReader(p) \/ OpenTable(p) \/ TableMissing(p) \/ Recheck(p)
    BY <2>5 DEF ReadList, ReuseReader, OpenTable, TableMissing, Recheck, shared
  <2> QED BY <1>2, <2>1, <2>2, <2>3, <2>4, <2>5 DEF ReloadStep
<1>4. Pending(u)' = Pending(u)
  BY <1>1 DEF Pending, Replacing
<1>5. LockTidy(u)'
  BY <1>1, <1>3 DEF TidyInv, LockTidy, LockedSteps, HasList
<1>6. FilesTidy(u)'
  BY <1>1, <1>3, <1>4 DEF TidyInv, FilesTidy
<1> QED BY <1>5, <1>6 DEF TidyInv

\* What u does not do as long as it is the only one that changes the stack.
LEMMA MutatorGoesOn ==
  ASSUME TypeOK, ControlOK, NEW u \in Proc, OnlyMutator(u), MutatorInv(u)
  PROVE  /\ ~TableMissing(u) /\ ~Recheck(u) /\ ~GiveUp(u)
         /\ ~CommitSyncFails(u) /\ ~CommitRenameFails(u) /\ ~CompactionRenameFails(u)
BY TableMissingHistory, RecheckHistory, GiveUpHistory, RenameSucceeds

\* The steps of u that neither take the lock nor give it up.
LEMMA LockStays ==
  ASSUME NEW u \in Proc, LockTidy(u), UNCHANGED <<lockFile, lock>>,
         crashes' = 0 => crashes = 0,
         lock[u] # "none" => LockedSteps(u)',
         HasList(u)' => lock[u] = "open", pc'[u] = "relock" => lock[u] = "closed"
  PROVE  LockTidy(u)'
BY DEF LockTidy

\* Closing the lock, once or for the second time, removes its file.
LEMMA LockCloses ==
  ASSUME TypeOK, NEW u \in Proc, LockTidy(u), NEW again \in BOOLEAN, CloseLock(u, again),
         crashes' = 0 => crashes = 0
  PROVE  /\ lock'[u] = (IF again /\ lock[u] # "none" THEN "closed" ELSE "none")
         /\ crashes' = 0 => lockFile' = NoFile
<1>1. lock'[u] = (IF again /\ lock[u] # "none" THEN "closed" ELSE "none")
  BY DEF CloseLock, TypeOK, CallsOK
<1>2. CASE lock[u] = "none"
  BY <1>1, <1>2 DEF CloseLock, LockTidy
<1>3. CASE lock[u] # "none"
  BY <1>1, <1>3 DEF CloseLock, UnlinkLock
<1> QED BY <1>1, <1>2, <1>3

\* The lock that a step of u takes is the one its call will close, and it leaves
\* none.
LEMMA OwnLock ==
  ASSUME TypeOK, ControlOK, NEW u \in Proc, OnlyMutator(u), MutatorInv(u), LockTidy(u), Acts(u)
  PROVE  LockTidy(u)'
<1>0. ReturnOK(u) /\ (crashes' = 0 => crashes = 0) /\ lock[u] \in {"none", "open", "closed"}
  BY CrashesGrow DEF ControlOK, TypeOK, CallsOK
<1> USE DEF LockedSteps, HasList
<1>1. ASSUME ReadList(u) \/ ReuseReader(u) \/ OpenTable(u) PROVE LockTidy(u)'
  <2>1. /\ pc[u] \in {"read", "open"} /\ pc'[u] = "open" /\ UNCHANGED <<ret, lockFile, lock>>
    BY <1>1 DEF ReadList, ReuseReader, OpenTable, MustOpen, Loading, Goto, shared, TypeOK, CallsOK
  <2> QED BY <2>1, <1>0, LockStays DEF LockTidy
<1>2. ASSUME Swap(u) PROVE LockTidy(u)'
  <2>1. ret[u] \in {"open", "plain", "auto", "scan", "compact"} /\ pc[u] = "open"
    BY <1>0, <1>2 DEF Swap, ReturnOK, Reloading
  <2>2. /\ pc'[u] \in {"idle", "auto", "scan", "cpdone"}
        /\ ret[u] \in {"scan", "compact"} => pc'[u] \in {"scan", "cpdone"}
    BY <2>1, <1>2 DEF Swap, EndReload, AfterReload, Goto, TypeOK, CallsOK
  <2>3. UNCHANGED <<lockFile, lock>>
    BY <1>2 DEF Swap
  <2> QED BY <2>1, <2>2, <2>3, <1>0, LockStays DEF LockTidy
<1>3. ASSUME CheckLocked(u) PROVE LockTidy(u)'
  <2>1. /\ pc[u] = "locked" /\ UNCHANGED <<lockFile, lock>>
        /\ \/ pc'[u] \in {"adding", "adclose"}
           \/ pc'[u] = "read" /\ ret'[u] = "scan"
    BY <1>3 DEF CheckLocked, StartReload, Return, Goto, shared, TypeOK, CallsOK
  <2> QED BY <2>1, <1>0, LockStays DEF LockTidy
<1>4. ASSUME AddTable(u) \/ Abandon(u) \/ CommitNothing(u) PROVE LockTidy(u)'
  <2>1. /\ pc[u] = "adding" /\ pc'[u] \in {"adding", "adclose"} /\ UNCHANGED <<lockFile, lock>>
    BY <1>4 DEF AddTable, Abandon, CommitNothing, Goto, shared, TypeOK, CallsOK
  <2> QED BY <2>1, <1>0, LockStays DEF LockTidy
<1>5. ASSUME CommitWrite(u) PROVE LockTidy(u)'
  <2>1. pc[u] = "adding" /\ pc'[u] \in {"rename", "adclose"} /\ lock' = lock
    BY <1>5 DEF CommitWrite, Goto, TypeOK, CallsOK
  <2> QED BY <2>1, <1>0 DEF LockTidy
<1>6. ASSUME CommitRename(u) PROVE LockTidy(u)'
  <2>1. pc'[u] = "read" /\ lockFile' = NoFile /\ lock'[u] = "none"
    BY <1>6 DEF CommitRename, Rename, RenameLock, StartReload, Goto, TypeOK, CallsOK
  <2> QED BY <2>1 DEF LockTidy
<1>7. ASSUME AdditionClose(u) PROVE LockTidy(u)'
  <2>1. /\ pc[u] = "adclose" /\ CloseLock(u, ret[u] = "again")
        /\ ret[u] \in {"none", "again", "plain", "auto"} /\ Goto(u, AfterClose[ret[u]])
    BY <1>0, <1>7 DEF AdditionClose, ReturnOK
  <2>2. /\ pc'[u] \in {"idle", "adclose", "read", "auto"} /\ (ret[u] = "again" => pc'[u] = "adclose")
    BY <2>1 DEF AfterClose, Goto, TypeOK, CallsOK
  <2>3. /\ crashes' = 0 => lockFile' = NoFile
        /\ lock'[u] # "none" => ret[u] = "again"
    <3>1. (ret[u] = "again") \in BOOLEAN
      OBVIOUS
    <3> QED BY <3>1, <2>1, <1>0, LockCloses
  <2> QED BY <2>2, <2>3 DEF LockTidy
<1>8. ASSUME Scan(u) PROVE LockTidy(u)'
  <2>1. pc[u] = "scan" /\ pc'[u] = "adclose" /\ UNCHANGED <<lockFile, lock>>
    BY <1>8 DEF Scan, Goto, TypeOK, CallsOK
  <2> QED BY <2>1, <1>0, LockStays DEF LockTidy
<1>9. ASSUME pc[u] \in {"auto", "idle"},
             \/ TakeLock(u) /\ Goto(u, "cpcheck")
             \/ Goto(u, "idle") /\ UNCHANGED <<lockFile, lock>>
      PROVE  LockTidy(u)'
  <2>1. CASE TakeLock(u) /\ Goto(u, "cpcheck")
    BY <2>1 DEF TakeLock, Goto, LockTidy, TypeOK, CallsOK
  <2>2. CASE Goto(u, "idle") /\ UNCHANGED <<lockFile, lock>>
    <3>1. lock[u] = "none" /\ pc'[u] = "idle"
      BY <2>2, <1>9 DEF Goto, LockTidy, TypeOK, CallsOK
    <3> QED BY <3>1, <2>2, <1>0, LockStays
  <2> QED BY <1>9, <2>1, <2>2
<1>10. ASSUME AutoCompact(u) \/ CompactAll(u) PROVE LockTidy(u)'
  <2>1. /\ pc[u] \in {"auto", "idle"}
        /\ \/ TakeLock(u) /\ Goto(u, "cpcheck")
           \/ Goto(u, "idle") /\ UNCHANGED <<lockFile, lock>>
    BY <1>10 DEF AutoCompact, CompactAll, LockForCompaction
  <2> QED BY <2>1, <1>9
<1>12. ASSUME CompactionCheck(u) \/ LockTable(u) PROVE LockTidy(u)'
  <2>1. /\ pc[u] \in {"cpcheck", "cpsub"} /\ pc'[u] \in {"cpsub", "cpdone"}
        /\ UNCHANGED <<lockFile, lock>>
    BY <1>12 DEF CompactionCheck, LockTable, Goto, shared, TypeOK, CallsOK
  <2> QED BY <2>1, <1>0, LockStays DEF LockTidy
<1>13. ASSUME UnlockForMerge(u) PROVE LockTidy(u)'
  <2>1. pc[u] = "cpsub" /\ pc'[u] = "relock" /\ CloseLock(u, TRUE)
    BY <1>13 DEF UnlockForMerge, Goto, TypeOK, CallsOK
  <2>2. lock'[u] = "closed" /\ (crashes' = 0 => lockFile' = NoFile)
    BY <2>1, <1>0, LockCloses DEF LockTidy
  <2> QED BY <2>1, <2>2 DEF LockTidy
<1>14. ASSUME MergeFails(u) PROVE LockTidy(u)'
  <2>1. pc[u] = "relock" /\ pc'[u] = "cpdone" /\ UNCHANGED <<lockFile, lock>>
    BY <1>14 DEF MergeFails, Goto, shared, TypeOK, CallsOK
  <2> QED BY <2>1, <1>0, LockStays DEF LockTidy
<1>15. ASSUME Relock(u) PROVE LockTidy(u)'
  <2>1. CASE TakeLock(u) /\ Goto(u, "install")
    BY <2>1 DEF TakeLock, Goto, LockTidy, TypeOK, CallsOK
  <2>2. CASE /\ pc[u] = "relock" /\ lockFile # NoFile /\ lock' = [lock EXCEPT ![u] = "none"]
             /\ Goto(u, "cpdone")
    <3>1. crashes' # 0
      BY <2>2, <1>0 DEF LockTidy
    <3>2. lock'[u] = "none" /\ pc'[u] = "cpdone"
      BY <2>2 DEF Goto, TypeOK, CallsOK
    <3> QED BY <3>1, <3>2 DEF LockTidy
  <2> QED BY <1>15, <2>1, <2>2 DEF Relock
<1>16. ASSUME Install(u) PROVE LockTidy(u)'
  <2>1. /\ pc[u] = "install" /\ pc'[u] \in {"cpwrite", "cpdone"} /\ UNCHANGED <<lockFile, lock>>
    BY <1>16 DEF Install, Goto, TypeOK, CallsOK
  <2> QED BY <2>1, <1>0, LockStays DEF LockTidy
<1>17. ASSUME CompactionWrite(u) PROVE LockTidy(u)'
  <2>1. pc[u] = "cpwrite" /\ pc'[u] \in {"cprename", "cpdone"} /\ lock' = lock
    BY <1>17 DEF CompactionWrite, Goto, TypeOK, CallsOK
  <2> QED BY <2>1, <1>0 DEF LockTidy
<1>18. ASSUME CompactionRename(u) PROVE LockTidy(u)'
  <2>1. pc'[u] \in {"delete", "cpdone"} /\ lockFile' = NoFile /\ lock'[u] = "none"
    BY <1>18 DEF CompactionRename, Rename, RenameLock, Goto, TypeOK, CallsOK
  <2> QED BY <2>1 DEF LockTidy
<1>19. ASSUME DeleteCompacted(u) PROVE LockTidy(u)'
  <2>1. pc[u] = "delete" /\ pc'[u] = "read" /\ ret'[u] = "compact" /\ UNCHANGED <<lockFile, lock>>
    BY <1>19 DEF DeleteCompacted, StartReload, Return, Goto, TypeOK, CallsOK
  <2> QED BY <2>1, <1>0, LockStays DEF LockTidy
<1>20. ASSUME CompactionDone(u) PROVE LockTidy(u)'
  <2>1. /\ pc[u] = "cpdone" /\ pc'[u] = "cplast"
        /\ IF job[u].relocked THEN CloseLock(u, TRUE) ELSE UNCHANGED <<lockFile, fdAt, lock>>
    BY <1>20 DEF CompactionDone, Goto, TypeOK, CallsOK
  <2>2. CASE CloseLock(u, TRUE)
    <3>1. crashes' = 0 => lockFile' = NoFile
      BY <2>2, <1>0, LockCloses
    <3> QED BY <3>1, <2>1 DEF LockTidy
  <2>3. CASE UNCHANGED <<lockFile, lock>>
    BY <2>1, <2>3, <1>0, LockStays DEF LockTidy
  <2> QED BY <2>1, <2>2, <2>3
<1>21. ASSUME CompactionEnd(u) PROVE LockTidy(u)'
  <2>1. pc'[u] = "idle" /\ CloseLock(u, FALSE)
    BY <1>21 DEF CompactionEnd, Goto, TypeOK, CallsOK
  <2>2. lock'[u] = "none" /\ (crashes' = 0 => lockFile' = NoFile)
    BY <2>1, <1>0, LockCloses
  <2> QED BY <2>1, <2>2 DEF LockTidy
<1>22. ASSUME ScanPanics(u) \/ CompactionPanics(u) PROVE LockTidy(u)'
  <2>1. /\ pc'[u] = "aborted" /\ lock'[u] = "none"
        /\ UnlinkLock(u) \/ (lock[u] = "none" /\ UNCHANGED lockFile)
    BY <1>22 DEF ScanPanics, CompactionPanics, Forget, Goto, TypeOK, CallsOK
  <2>2. crashes' = 0 => lockFile' = NoFile
    BY <2>1, <1>0 DEF UnlinkLock, LockTidy
  <2> QED BY <2>1, <2>2 DEF LockTidy
<1>23. ASSUME Open(u) \/ LockTaken(u) \/ Close(u) PROVE LockTidy(u)'
  <2>1. /\ pc[u] \in {"closed", "aborted", "idle"} /\ pc'[u] \in {"read", "close"}
        /\ UNCHANGED <<lockFile, lock>>
    BY <1>23 DEF Open, LockTaken, Close, StartReload, Goto, shared, TypeOK, CallsOK
  <2> QED BY <2>1, <1>0, LockStays DEF LockTidy
<1>24. ASSUME NEW c \in CallNames, LockList(u, c) PROVE LockTidy(u)'
  <2>1. pc'[u] = "locked" /\ lock'[u] = "open"
    BY <1>24 DEF LockList, TakeLock, Goto, TypeOK, CallsOK
  <2> QED BY <2>1 DEF LockTidy
<1>25. ASSUME CloseRemove(u) PROVE LockTidy(u)'
  <2>1. pc[u] = "close" /\ pc'[u] = "closed" /\ lock'[u] = "none" /\ lockFile' = lockFile
    BY <1>25 DEF CloseRemove, Forget, Goto, TypeOK, CallsOK
  <2>2. lock[u] = "none"
    BY <2>1 DEF LockTidy
  <2> QED BY <2>1, <2>2, <1>0 DEF LockTidy
<1>26. ASSUME Crash(u) PROVE LockTidy(u)'
  <2>1. pc'[u] = "closed" /\ lock'[u] = "none" /\ crashes' # 0
    BY <1>26 DEF Crash, Forget, Goto, TypeOK, CallsOK, HistoryOK
  <2> QED BY <2>1 DEF LockTidy
<1>27. CASE ReloadStep(u)
  BY <1>27, <1>1, <1>2, MutatorGoesOn DEF ReloadStep
<1>28. CASE AdditionStep(u)
  BY <1>28, <1>3, <1>4, <1>5, <1>6, <1>7, <1>8, <1>22, MutatorGoesOn DEF AdditionStep
<1>29. CASE CompactionStep(u)
  BY <1>29, <1>10, <1>12, <1>13, <1>14, <1>15, <1>16, <1>17, <1>18, <1>19, <1>20, <1>21, <1>22,
     MutatorGoesOn DEF CompactionStep
<1> QED BY <1>10, <1>23, <1>24, <1>25, <1>26, <1>27, <1>28, <1>29, MutatorGoesOn
        DEF Acts, StartCall, CallStep

\* A step that writes no file and lists nothing leaves nothing, except where u has
\* a merged table to list.
LEMMA FilesStayTidy ==
  ASSUME NEW u \in Proc, FilesTidy(u), crashes' = 0 => crashes = 0, list' = list,
         DOMAIN dir' \subseteq DOMAIN dir, st'[u] = st[u], newt'[u] = newt[u],
         Pending(u) \subseteq Pending(u)' \/ ~Replacing(u)
  PROVE  FilesTidy(u)'
<1>1. Pending(u) \subseteq Pending(u)'
  BY DEF Pending
<1> QED BY <1>1 DEF FilesTidy

\* The new stack is the list, and its old files that it has no more are gone.
LEMMA SwapTidy ==
  ASSUME TypeOK, NEW u \in Proc, MutatorInv(u), FilesTidy(u), Swap(u)
  PROVE  FilesTidy(u)'
<1>1. /\ pc[u] = "open" /\ Len(load[u].opened) = Len(load[u].names) /\ st'[u] = load[u].opened
      /\ dir' = Without(Dropped(u)) /\ UNCHANGED <<list, newt, job, crashes>>
  BY DEF Swap, TypeOK, StacksOK
<1>2. ReaderNames(load[u].opened) = NameSet(list) /\ load[u].names = list
  BY <1>1, LoadedStack DEF MutatorInv, MutatorOK, UpToDateOK, ProcessOK
<1>3. DOMAIN dir' = DOMAIN dir \ Dropped(u)
  BY <1>1 DEF Without
<1>4. DOMAIN dir' \ NameSet(list) \subseteq (DOMAIN dir \ NameSet(list)) \ ReaderNames(st[u])
  BY <1>2, <1>3 DEF Dropped
<1>5. Pending(u) \subseteq Pending(u)'
  BY <1>1 DEF Pending, Replacing
<1> QED BY <1>1, <1>4, <1>5 DEF FilesTidy

\* What a transaction wrote is listed by its commit ...
LEMMA CommitTidy ==
  ASSUME TypeOK, NEW u \in Proc, MutatorInv(u), FilesTidy(u), CommitRename(u)
  PROVE  FilesTidy(u)'
<1>1. pc[u] = "rename" /\ list' = lockFile /\ UNCHANGED <<dir, st, crashes>>
  BY DEF CommitRename, Rename, RenameLock
<1>2. lockFile = NamesOf(st[u]) \o NamesOf(newt[u]) /\ NamesOf(st[u]) = list
  BY <1>1 DEF MutatorInv, MutatorOK, AdditionOK, UpToDateOK
<1>3. NameSet(list') = NameSet(list) \cup ReaderNames(newt[u])
  <2> DEFINE t == NamesOf(newt[u])
  <2>1. list \in Seq(TableName) /\ t \in Seq(TableName) /\ NameSet(t) = ReaderNames(newt[u])
    BY HeldTypes, SameNames
  <2> HIDE DEF t
  <2>2. NameSet(list \o t) = NameSet(list) \cup NameSet(t)
    BY <2>1, ConcatNames
  <2> QED BY <2>1, <2>2, <1>1, <1>2 DEF t
<1>4. Pending(u) = ReaderNames(newt[u])
  BY <1>1 DEF Pending, Replacing
<1> QED BY <1>1, <1>3, <1>4 DEF FilesTidy

\* ... or removed by its close.
LEMMA CloseTidy ==
  ASSUME TypeOK, NEW u \in Proc, FilesTidy(u), AdditionClose(u)
  PROVE  FilesTidy(u)'
<1>1. /\ pc[u] = "adclose" /\ dir' = Without(ReaderNames(newt[u]))
      /\ UNCHANGED <<list, st, crashes>>
  BY DEF AdditionClose, Discarded
<1>2. DOMAIN dir' = DOMAIN dir \ ReaderNames(newt[u])
  BY <1>1 DEF Without
<1>3. Pending(u) = ReaderNames(newt[u])
  BY <1>1 DEF Pending, Replacing
<1> QED BY <1>1, <1>2, <1>3 DEF FilesTidy

\* A table that is written is one of the addition's ...
LEMMA AddTidy ==
  ASSUME TypeOK, NEW u \in Proc, OnlyMutator(u), FilesTidy(u), AddTable(u)
  PROVE  FilesTidy(u)'
<1>1. pc[u] = "adding" /\ UNCHANGED <<list, st, crashes>>
  BY DEF AddTable
<1>2. PICK n \in TableName, b \in Batches :
        /\ n \notin HeldNames /\ dir' = With(n, b)
        /\ newt' = [newt EXCEPT ![u] = Append(@, [name |-> n, recs |-> b])]
        /\ UNCHANGED <<pc, ret>>
  BY TableWritten
<1>3. DOMAIN dir' = DOMAIN dir \cup {n} /\ newt'[u] = Append(newt[u], [name |-> n, recs |-> b])
  BY <1>2 DEF With, TypeOK, CallsOK
<1>4. ReaderNames(newt[u]) \cup {n} \subseteq ReaderNames(newt'[u])
  <2> DEFINE s == newt[u]
             e == [name |-> n, recs |-> b]
  <2>1. s \in Seq(Reader) /\ e \in Reader /\ e.name = n /\ newt'[u] = Append(s, e)
    BY <1>2, <1>3, HeldTypes, BatchAssumption DEF Reader
  <2> HIDE DEF s, e
  <2>2. /\ Len(s) \in Nat /\ Len(Append(s, e)) = Len(s) + 1 /\ Append(s, e)[Len(s) + 1] = e
        /\ \A i \in 1..Len(s) : Append(s, e)[i] = s[i]
    BY <2>1
  <2>3. n \in ReaderNames(newt'[u])
    <3>1. Len(s) + 1 \in 1..Len(Append(s, e))
      BY <2>2
    <3> QED BY <3>1, <2>1, <2>2 DEF ReaderNames
  <2>4. ASSUME NEW i \in 1..Len(s) PROVE s[i].name \in ReaderNames(newt'[u])
    <3>1. i \in 1..Len(Append(s, e))
      BY <2>2
    <3> QED BY <3>1, <2>1, <2>2 DEF ReaderNames
  <2> QED BY <2>3, <2>4 DEF ReaderNames, s
<1>5. Pending(u) \cup {n} \subseteq Pending(u)'
  BY <1>1, <1>2, <1>4 DEF Pending, Replacing
<1> QED BY <1>1, <1>3, <1>5 DEF FilesTidy

\* ... or the one of the compaction, ...
LEMMA InstallTidy ==
  ASSUME TypeOK, NEW u \in Proc, OnlyMutator(u), MutatorInv(u), FilesTidy(u), Install(u)
  PROVE  FilesTidy(u)'
<1> DEFINE first == job[u].first
           last == job[u].last
           recs == CompactedRecs(st[u], first, last)
<1>1. pc[u] = "install" /\ ~Faults /\ UNCHANGED <<list, st, newt, crashes>>
  BY DEF Install, OnlyMutator
<1>2. ~Replacing(u)
  BY <1>1 DEF Replacing
<1>3. CASE UNCHANGED <<dir, job>>
  BY <1>1, <1>2, <1>3, FilesStayTidy
<1>4. ASSUME NEW n \in NewNames(st[u][first].name.min, st[u][last].name.max), dir' = With(n, recs),
             job' = [job EXCEPT ![u].new = n], Goto(u, "cpwrite")
      PROVE  FilesTidy(u)'
  <2>1. pc'[u] = "cpwrite" /\ job'[u].new = n /\ DOMAIN dir' = DOMAIN dir \cup {n}
    BY <1>4 DEF Goto, With, TypeOK, CallsOK, Jobs
  <2>2. n # NoName
    <3>1. first \in 1..Len(st[u]) /\ last \in first..Len(st[u])
      BY <1>1 DEF MutatorInv, MutatorOK, CompactionOK, HasRange, RangeFits, Merging
    <3>2. first \in 1..Len(st[u]) /\ last \in 1..Len(st[u]) /\ st[u] \in Seq(Reader)
      BY <3>1, HeldTypes, JobFields
    <3> HIDE DEF first, last
    <3>3. st[u][first].name.min \in Nat /\ st[u][last].name.max \in Nat
      BY <3>2, ReaderFields
    <3> QED BY <3>3, <1>4, NamesAreFresh, NoneAssumption
  <2>3. Pending(u) \cup {n} \subseteq Pending(u)'
    BY <1>1, <1>2, <2>1, <2>2 DEF Pending, Replacing
  <2> QED BY <2>1, <2>3, <1>1 DEF FilesTidy
<1> QED BY <1>1, <1>3, <1>4 DEF Install

\* ... which is listed in the end; the tables it replaces are still in the stack.
LEMMA ReplaceTidy ==
  ASSUME TypeOK, NEW u \in Proc, OnlyMutator(u), MutatorInv(u), FilesTidy(u), CompactionRename(u)
  PROVE  FilesTidy(u)'
<1> DEFINE first == job[u].first
           last == job[u].last
           new == Replacement(u)
<1>1. pc[u] = "cprename" /\ list' = lockFile /\ UNCHANGED <<dir, st, crashes>>
  BY DEF CompactionRename, Rename, RenameLock, OnlyMutator
<1>2. /\ FilesGood(u) /\ RangeFits(u) /\ NamesOf(st[u]) = list /\ newt[u] = <<>>
      /\ lockFile = Spliced(list, first, last, new)
  BY <1>1, NothingWritten DEF MutatorInv, MutatorOK, CompactionOK, UpToDateOK, HasRange, Merging
<1>3. NameSet(list) = ReaderNames(st[u]) /\ list \in Seq(TableName) /\ Len(list) = Len(st[u])
  BY <1>2, HeldTypes, SameNames
<1>4. Pending(u) \subseteq NameSet(list')
  <2>1. CASE job[u].new = NoName
    BY <1>2, <2>1, NothingOpen DEF Pending
  <2>2. CASE job[u].new # NoName
    <3> DEFINE n == job[u].new
    <3>1. new = <<n>> /\ n \in TableName /\ Pending(u) = {n}
      BY <1>1, <1>2, <2>2, JobFields, NothingOpen DEF Replacement, Pending, Replacing
    <3>2. first \in 1..Len(list) /\ last \in first..Len(list) /\ Distinct(list) /\ n \notin NameSet(list)
      BY <1>2, <1>3, <3>1 DEF RangeFits, FilesGood
    <3>4. list' = Spliced(list, first, last, new)
      BY <1>1, <1>2
    <3> HIDE DEF n, first, last, new
    <3>5. new \in Seq(TableName) /\ Len(new) = 1 /\ new[1] = n
      BY <3>1
    <3>6. NameSet(new) = {n} /\ Distinct(new)
      BY <3>5 DEF NameSet, Distinct
    <3>7. NameSet(new) \cap NameSet(list) = {}
      BY <3>2, <3>6
    <3>8. NameSet(new) \subseteq NameSet(Spliced(list, first, last, new))
      BY <1>3, <3>2, <3>5, <3>6, <3>7, SplicedNames
    <3> QED BY <3>1, <3>4, <3>6, <3>8
  <2> QED BY <2>1, <2>2
<1>5. DOMAIN dir \ NameSet(list') \subseteq (DOMAIN dir \ NameSet(list)) \cup ReaderNames(st[u])
  BY <1>3
<1> QED BY <1>1, <1>4, <1>5 DEF FilesTidy

\* A stack is closed, or a call panics, when the stack is the list: there is no
\* file left that only the stack knew of.
LEMMA ForgetTidy ==
  ASSUME TypeOK, NEW u \in Proc, MutatorInv(u), FilesTidy(u), pc[u] \in {"scan", "cplast", "close"},
         UNCHANGED <<list, crashes>>, DOMAIN dir' \subseteq DOMAIN dir
  PROVE  FilesTidy(u)'
<1>1. NamesOf(st[u]) = list /\ newt[u] = <<>>
  BY NothingWritten DEF MutatorInv, MutatorOK, UpToDateOK
<1>2. ReaderNames(st[u]) = NameSet(list) /\ Pending(u) = {}
  BY <1>1, HeldTypes, SameNames, NothingOpen DEF Pending, Replacing
<1> QED BY <1>2 DEF FilesTidy

\* In all, u leaves no file behind.
LEMMA OwnFiles ==
  ASSUME TypeOK, ControlOK, NEW u \in Proc, OnlyMutator(u), MutatorInv(u), FilesTidy(u), Acts(u)
  PROVE  FilesTidy(u)'
<1> DEFINE Quiet == /\ UNCHANGED <<list, st, newt, crashes>> /\ DOMAIN dir' \subseteq DOMAIN dir
                    /\ ~Replacing(u)
<1>1. Quiet => FilesTidy(u)'
  BY FilesStayTidy
<1>2. CASE ReadList(u) \/ ReuseReader(u) \/ OpenTable(u)
  <2>1. Quiet
    BY <1>2 DEF ReadList, ReuseReader, OpenTable, MustOpen, Loading, shared, Replacing
  <2> QED BY <2>1, <1>1
<1>3. CASE CheckLocked(u) \/ Abandon(u) \/ CommitNothing(u) \/ CommitWrite(u) \/ Scan(u)
  <2>1. pc[u] = "adding" => fdAt[u] = "lock"
    BY DEF MutatorInv, MutatorOK, UpToDateOK
  <2>2. CASE CheckLocked(u) \/ Abandon(u) \/ CommitNothing(u)
    BY <2>2, <1>1 DEF CheckLocked, Abandon, CommitNothing, shared, Replacing
  <2>3. CASE CommitWrite(u)
    BY <2>1, <2>3, <1>1 DEF CommitWrite, WriteLock, Replacing
  <2>4. CASE Scan(u)
    BY <2>4, <1>1 DEF Scan, Without, Replacing
  <2> QED BY <1>3, <2>2, <2>3, <2>4
<1>4. CASE AutoCompact(u) \/ CompactAll(u)
  BY <1>1, <1>4 DEF AutoCompact, CompactAll, Replacing
<1>5. CASE CompactionCheck(u) \/ LockTable(u) \/ UnlockForMerge(u) \/ MergeFails(u) \/ Relock(u)
  BY <1>1, <1>5 DEF CompactionCheck, LockTable, UnlockForMerge, MergeFails, Relock, shared, Replacing
<1>6. CASE CompactionWrite(u)
  <2>1. /\ pc[u] = "cpwrite" /\ fdAt[u] = "lock" /\ ~Faults
    BY <1>6 DEF CompactionWrite, OnlyMutator, MutatorInv, MutatorOK, UpToDateOK
  <2>2. /\ pc'[u] = "cprename" /\ UNCHANGED <<dir, list, st, newt, job, crashes>>
    BY <1>6, <2>1 DEF CompactionWrite, WriteLock, Goto, TypeOK, CallsOK
  <2>3. Pending(u) \subseteq Pending(u)'
    BY <2>2 DEF Pending, Replacing
  <2> QED BY <2>2, <2>3, FilesStayTidy
<1>7. CASE DeleteCompacted(u) \/ CompactionDone(u) \/ CompactionEnd(u)
  BY <1>1, <1>7 DEF DeleteCompacted, RemoveHere, CompactionDone, CompactionEnd, Without, Replacing
<1>8. CASE ScanPanics(u) \/ CompactionPanics(u) \/ CloseRemove(u)
  <2>1. /\ pc[u] \in {"scan", "cplast", "close"} /\ UNCHANGED <<list, crashes>>
        /\ DOMAIN dir' \subseteq DOMAIN dir
    BY <1>8 DEF ScanPanics, CompactionPanics, CloseRemove, Without
  <2> QED BY <2>1, ForgetTidy
<1>9. CASE Open(u) \/ LockTaken(u) \/ Close(u) \/ \E c \in CallNames : LockList(u, c)
  BY <1>1, <1>9 DEF Open, LockTaken, Close, LockList, shared, Replacing
<1>10. CASE Crash(u)
  <2>1. crashes' # 0
    BY <1>10 DEF Crash, TypeOK, HistoryOK
  <2> QED BY <2>1 DEF FilesTidy
<1>11. CASE ReloadStep(u)
  BY <1>11, <1>2, SwapTidy, MutatorGoesOn DEF ReloadStep
<1>12. CASE AdditionStep(u)
  BY <1>12, <1>3, <1>8, AddTidy, CommitTidy, CloseTidy, MutatorGoesOn DEF AdditionStep
<1>13. CASE CompactionStep(u)
  BY <1>13, <1>4, <1>5, <1>6, <1>7, <1>8, InstallTidy, ReplaceTidy, MutatorGoesOn DEF CompactionStep
<1> QED BY <1>4, <1>8, <1>9, <1>10, <1>11, <1>12, <1>13, MutatorGoesOn DEF Acts, StartCall, CallStep

\* The invariant is inductive.
LEMMA StepTidy ==
  ASSUME TypeOK, ControlOK, NEW u \in Proc, OnlyMutator(u), MutatorInv(u), TidyInv(u), [Next]_vars
  PROVE  TidyInv(u)'
<1>1. CASE UNCHANGED vars
  <2>1. UNCHANGED <<dir, list, lockFile, pc, st, ret, lock, newt, job, crashes>>
    BY <1>1 DEF vars, shared
  <2>2. LockTidy(u)'
    BY <2>1 DEF TidyInv, LockTidy, LockedSteps, HasList
  <2>3. Pending(u)' = Pending(u)
    BY <2>1 DEF Pending, Replacing
  <2>4. FilesTidy(u)'
    BY <2>1, <2>3 DEF TidyInv, FilesTidy
  <2> QED BY <2>2, <2>4 DEF TidyInv
<1>2. ASSUME NEW p \in Proc, Acts(p) PROVE TidyInv(u)'
  <2>1. CASE p = u
    BY <1>2, <2>1, OwnLock, OwnFiles DEF TidyInv
  <2>2. CASE p # u
    BY <1>2, <2>2, OthersTidy
  <2> QED BY <2>1, <2>2
<1> QED BY <1>1, <1>2 DEF Next, Acts

\* There is nothing at first.
LEMMA InitTidy == ASSUME NEW u \in Proc PROVE Init => TidyInv(u)
BY DEF Init, EmptyDirectory, TidyInv, LockTidy, HasList, FilesTidy

\* So the invariant holds throughout.
LEMMA TidyCorrect ==
  ASSUME NEW u \in Proc, OnlyMutator(u) PROVE Spec => []TidyInv(u)
<1>1. TypeOK /\ ControlOK /\ MutatorInv(u) /\ TidyInv(u) /\ [Next]_vars => TidyInv(u)'
  BY StepTidy
<1> QED BY <1>1, InitTidy, MutatorCorrect, PTL DEF Spec

\* The tables of an addition that was given up, those a compaction replaced, also
\* when it removes them from the wrong directory, and those a reload or a closed
\* stack no longer has are all removed: as long as nobody dies, a file outside the
\* list belongs to the call of the one process that changes the stack, or to its
\* stack.
THEOREM MutatorLeavesNoFiles ==
  ASSUME NEW u \in Proc, OnlyMutator(u) PROVE Spec => []NoGarbage
<1>1. TidyInv(u) => NoGarbage
  BY DEF TidyInv, FilesTidy, NoGarbage, Pending
<1> QED BY <1>1, TidyCorrect, PTL

\* Neither the lock on the list, which a compaction takes twice and closes three
\* times, nor one on a table outlives the call that took it, and a panic releases
\* it too.
THEOREM MutatorLeavesNoLocks ==
  ASSUME NEW u \in Proc, OnlyMutator(u) PROVE Spec => []NoLeakedLocks
<1>1. ASSUME TidyInv(u), crashes = 0, pc[u] \in {"idle", "closed", "aborted"} PROVE lockFile = NoFile
  BY <1>1 DEF TidyInv, LockTidy, LockedSteps, HasList
<1>2. TidyInv(u) /\ (crashes = 0 => TableLocksReleased) => NoLeakedLocks
  BY <1>1 DEF TableLocksReleased, NoLeakedLocks
<1> QED BY <1>2, TidyCorrect, TableLocksFreed, PTL
=============================================================================
