---------------------------- MODULE TablesProofs ----------------------------
(***************************************************************************)
(* Facts about the operators of Tables, for any references, values and     *)
(* suffixes: merging tables yields the content of a table, and the names   *)
(* of a stack stay ordered by update index when a table is put on top or   *)
(* a run of tables is replaced by one that covers the same range.  At the  *)
(* end the same for lists of names and the files of the directory.         *)
(***************************************************************************)
EXTENDS Directory, FiniteSetTheorems, SequenceTheorems, TLAPS

\* A set of positions has a last one.  The position whose larger members form
\* the smallest set is it: finite sets are well founded under inclusion.
LEMMA LastPosition ==
  ASSUME NEW n \in Nat, NEW S \in SUBSET (1..n), S # {}
  PROVE  \E i \in S : \A j \in S : j <= i
<1> DEFINE Above(i) == {j \in S : i < j}
           T == {Above(i) : i \in S}
<1>1. IsFiniteSet(S)
  <2>1. IsFiniteSet(1..n)
    BY FS_Interval, 1 \in Int, n \in Int
  <2> QED BY <2>1, FS_Subset
<1>2. T \subseteq FiniteSubsetsOf(S)
  BY <1>1, FS_Subset DEF FiniteSubsetsOf
<1>3. IsWellFoundedOn(StrictSubsetOrdering(S), FiniteSubsetsOf(S))
  BY FS_StrictSubsetOrderingWellFounded
<1>4. PICK x \in T : \A y \in T : <<y, x>> \notin StrictSubsetOrdering(S)
  <2>1. T # {}
    OBVIOUS
  <2> QED BY <1>2, <1>3, <2>1, WFMin, Zenon
<1>5. PICK i \in S : x = Above(i)
  OBVIOUS
<1>6. ASSUME NEW j \in S, i < j PROVE FALSE
  <2>1. i \in Int /\ j \in Int /\ S \subseteq Int
    OBVIOUS
  <2>2. \A k \in S : j < k => i < k
    BY <2>1, <1>6
  <2>3. Above(j) \subseteq Above(i) /\ j \in Above(i) /\ j \notin Above(j)
    <3>1. ~(j < j)
      BY <2>1
    <3> QED BY <3>1, <2>2, <1>6, Zenon
  <2>4. <<Above(j), Above(i)>> \in StrictSubsetOrdering(S)
    BY <2>3 DEF StrictSubsetOrdering
  <2> QED BY <1>4, <1>5, <2>4
<1> QED BY <1>5, <1>6

-----------------------------------------------------------------------------
(* Contents *)

\* The state of a database is the content of a table without deletions.
LEMMA DatabaseIsContents == Database \subseteq Contents
BY DEF Database, Contents

\* The table without records is a content and a database.
LEMMA NoRecsTypes == NoRecs \in Database /\ NoRecs \in Contents
<1>1. NoRecs \in [{} -> Vals]
  BY DEF NoRecs
<1> QED BY <1>1, DatabaseIsContents DEF Database

\* A function from references to values or Deleted is a content.
LEMMA ContentsIntro ==
  ASSUME NEW D \in SUBSET Refs, NEW f \in [D -> Vals \cup {Deleted}]
  PROVE  f \in Contents
BY DEF Contents

\* The newest table that has a reference exists, and is one of the tables.
LEMMA MergedType ==
  ASSUME NEW ts \in Seq(Contents)
  PROVE  Merged(ts) \in Contents
<1> DEFINE keys == UNION {DOMAIN ts[i] : i \in 1..Len(ts)}
           having(r) == {i \in 1..Len(ts) : r \in DOMAIN ts[i]}
           newest(r) == CHOOSE i \in having(r) : \A j \in having(r) : j <= i
<1>1. \A i \in 1..Len(ts) : /\ DOMAIN ts[i] \subseteq Refs
                            /\ \A r \in DOMAIN ts[i] :
                                  ts[i][r] \in Vals \cup {Deleted}
  <2> TAKE i \in 1..Len(ts)
  <2>1. ts[i] \in Contents
    OBVIOUS
  <2>2. PICK D \in SUBSET Refs : ts[i] \in [D -> Vals \cup {Deleted}]
    BY <2>1 DEF Contents
  <2> QED BY <2>2
<1>2. keys \in SUBSET Refs
  BY <1>1
<1>3. ASSUME NEW r \in keys PROVE ts[newest(r)][r] \in Vals \cup {Deleted}
  <2>1. having(r) \in SUBSET (1..Len(ts)) /\ having(r) # {}
    OBVIOUS
  <2>2. Len(ts) \in Nat
    OBVIOUS
  <2>3. \E i \in having(r) : \A j \in having(r) : j <= i
    BY <2>1, <2>2, LastPosition
  <2>4. newest(r) \in having(r)
    BY <2>3
  <2> QED BY <2>4, <1>1
<1>4. [r \in keys |-> ts[newest(r)][r]] \in [keys -> Vals \cup {Deleted}]
  BY <1>3
<1>5. Merged(ts) = [r \in keys |-> ts[newest(r)][r]]
  BY DEF Merged
<1> HIDE DEF keys, newest
<1> QED BY <1>2, <1>4, <1>5, ContentsIntro

\* Suppressing deletions turns the content of a table into a database.
LEMMA LiveType ==
  ASSUME NEW recs \in Contents
  PROVE  Live(recs) \in Database
<1> DEFINE kept == {x \in DOMAIN recs : recs[x] # Deleted}
<1>1. PICK D \in SUBSET Refs : recs \in [D -> Vals \cup {Deleted}]
  BY DEF Contents
<1>2. kept \in SUBSET Refs /\ Live(recs) \in [kept -> Vals]
  BY <1>1 DEF Live
<1> QED BY <1>2 DEF Database

\* Tables put on top of a database lead to a database.
LEMMA OverlayType ==
  ASSUME NEW db \in Database, NEW ts \in Seq(Contents)
  PROVE  Overlay(db, ts) \in Database
<1>1. <<db>> \in Seq(Contents)
  BY DatabaseIsContents
<1>2. <<db>> \o ts \in Seq(Contents)
  BY <1>1, ConcatProperties
<1> QED BY <1>2, MergedType, LiveType DEF Overlay

-----------------------------------------------------------------------------
(* Names *)

\* The names and the contents of the readers of a stack.
LEMMA NamesOfType ==
  ASSUME NEW rs \in Seq(Reader)
  PROVE  /\ NamesOf(rs) \in Seq(TableName)
         /\ Len(NamesOf(rs)) = Len(rs)
         /\ \A i \in 1..Len(rs) : NamesOf(rs)[i] = rs[i].name
         /\ RecsOf(rs) \in Seq(Contents)
<1>1. Len(rs) \in Nat
  OBVIOUS
<1>2. \A i \in 1..Len(rs) : rs[i].name \in TableName /\ rs[i].recs \in Contents
  <2> TAKE i \in 1..Len(rs)
  <2>1. rs[i] \in Reader
    OBVIOUS
  <2> QED BY <2>1 DEF Reader
<1>3. NamesOf(rs) \in [1..Len(rs) -> TableName]
  BY <1>2 DEF NamesOf
<1>4. RecsOf(rs) \in [1..Len(rs) -> Contents]
  BY <1>2 DEF RecsOf
<1>5. \A i \in 1..Len(rs) : NamesOf(rs)[i] = rs[i].name
  BY DEF NamesOf
<1>6. NamesOf(rs) \in Seq(TableName) /\ Len(NamesOf(rs)) = Len(rs)
  BY <1>1, <1>3
<1>7. RecsOf(rs) \in Seq(Contents)
  BY <1>1, <1>4
<1> QED BY <1>5, <1>6, <1>7

\* A stack without readers has no names.
LEMMA NamesOfEmpty == NamesOf(<<>>) = <<>>
<1>1. <<>> \in Seq(Reader) /\ Len(<<>>) = 0
  BY EmptySeq
<1>2. NamesOf(<<>>) \in Seq(TableName) /\ Len(NamesOf(<<>>)) = 0
  BY <1>1, NamesOfType
<1> QED BY <1>2

\* What replaces a range of tables is the content of a table.
LEMMA CompactedType ==
  ASSUME NEW rs \in Seq(Reader), NEW first \in 1..Len(rs),
         NEW last \in first..Len(rs)
  PROVE  CompactedRecs(rs, first, last) \in Contents
<1> DEFINE range == SubSeq(rs, first, last)
<1>1. range \in Seq(Reader)
  <2>1. \A i \in first..last : rs[i] \in Reader
    OBVIOUS
  <2>2. first \in Int /\ last \in Int
    OBVIOUS
  <2> QED BY <2>1, <2>2, SubSeqProperties
<1>2. Merged(RecsOf(range)) \in Contents
  BY <1>1, NamesOfType, MergedType
<1>3. Live(Merged(RecsOf(range))) \in Contents
  BY <1>2, LiveType, DatabaseIsContents
<1> QED BY <1>2, <1>3 DEF CompactedRecs

\* Names below the range, the replacement and names above it are names.
LEMMA SplicedType ==
  ASSUME NEW ns \in Seq(TableName), NEW first \in 1..Len(ns),
         NEW last \in first..Len(ns), NEW new \in Seq(TableName)
  PROVE  Spliced(ns, first, last, new) \in Seq(TableName)
<1>1. SubSeq(ns, 1, first - 1) \in Seq(TableName)
  OBVIOUS
<1>2. SubSeq(ns, last + 1, Len(ns)) \in Seq(TableName)
  OBVIOUS
<1> QED BY <1>1, <1>2, ConcatProperties DEF Spliced

-----------------------------------------------------------------------------
(* Order *)

\* The update indexes in a table name are numbers.
LEMMA TableNameFields ==
  ASSUME NEW ns \in Seq(TableName), NEW i \in 1..Len(ns)
  PROVE  ns[i].min \in Nat /\ ns[i].max \in Nat
<1>1. ns[i] \in TableName
  OBVIOUS
<1> QED BY <1>1 DEF TableName

\* In an ordered list a run of tables ends above where it starts.
LEMMA RunRange ==
  ASSUME NEW ns \in Seq(TableName), Ordered(ns),
         NEW i \in 1..Len(ns), NEW j \in 1..Len(ns), i <= j
  PROVE  ns[i].min <= ns[j].max
<1>1. CASE i = j
  BY <1>1 DEF Ordered
<1>2. CASE i < j
  <2>1. ns[i].min <= ns[i].max /\ ns[i].max < ns[j].min /\ ns[j].min <= ns[j].max
    BY <1>2 DEF Ordered
  <2> QED BY <2>1, TableNameFields
<1> QED BY <1>1, <1>2

\* A list whose members cover disjoint runs of an ordered list, in the order
\* of the runs, is ordered.
LEMMA OrderedCover ==
  ASSUME NEW ns \in Seq(TableName), Ordered(ns),
         NEW s \in Seq(TableName),
         NEW lo \in [1..Len(s) -> 1..Len(ns)],
         NEW hi \in [1..Len(s) -> 1..Len(ns)],
         \A i \in 1..Len(s) : /\ lo[i] <= hi[i]
                              /\ s[i].min = ns[lo[i]].min
                              /\ s[i].max = ns[hi[i]].max,
         \A i, j \in 1..Len(s) : i < j => hi[i] < lo[j]
  PROVE  Ordered(s)
<1>1. \A i \in 1..Len(s) : s[i].min <= s[i].max
  BY RunRange
<1>2. \A i, j \in 1..Len(s) : i < j => s[i].max < s[j].min
  BY DEF Ordered
<1> QED BY <1>1, <1>2 DEF Ordered

\* An empty list, and a prefix of an ordered list, are ordered.
LEMMA OrderedPrefix ==
  ASSUME NEW ns \in Seq(TableName), Ordered(ns),
         NEW s \in Seq(TableName), Len(s) <= Len(ns),
         \A i \in 1..Len(s) : s[i] = ns[i]
  PROVE  Ordered(s)
BY SMTT(20) DEF Ordered

\* The empty list is in order.
LEMMA OrderedEmpty == Ordered(<<>>)
BY DEF Ordered

\* A table that starts above the last one may be put on top.
LEMMA OrderedOnTop ==
  ASSUME NEW ns \in Seq(TableName), Ordered(ns), NEW top \in Seq(TableName),
         Ordered(top),
         \A i \in 1..Len(ns), j \in 1..Len(top) : ns[i].max < top[j].min
  PROVE  Ordered(ns \o top)
<1> DEFINE s == ns \o top
<1>1. /\ s \in Seq(TableName) /\ Len(s) = Len(ns) + Len(top)
      /\ \A i \in 1..Len(s) : s[i] = IF i <= Len(ns) THEN ns[i]
                                       ELSE top[i - Len(ns)]
  BY ConcatProperties
<1>2. \A i \in 1..Len(s) : ~(i <= Len(ns)) => i - Len(ns) \in 1..Len(top)
  BY <1>1
<1> HIDE DEF s
<1>3. ASSUME NEW i \in 1..Len(s) PROVE s[i].min <= s[i].max
  <2>1. CASE i <= Len(ns)
    <3>1. i \in 1..Len(ns) /\ s[i] = ns[i]
      BY <2>1, <1>1
    <3> QED BY <3>1 DEF Ordered
  <2>2. CASE ~(i <= Len(ns))
    <3>1. i - Len(ns) \in 1..Len(top) /\ s[i] = top[i - Len(ns)]
      BY <2>2, <1>1, <1>2
    <3> QED BY <3>1 DEF Ordered
  <2> QED BY <2>1, <2>2
<1>4. ASSUME NEW i \in 1..Len(s), NEW j \in 1..Len(s), i < j
      PROVE  s[i].max < s[j].min
  <2>1. CASE j <= Len(ns)
    <3>1. i \in 1..Len(ns) /\ j \in 1..Len(ns) /\ i <= Len(ns)
      BY <2>1, <1>1, <1>4
    <3>2. s[i] = ns[i] /\ s[j] = ns[j]
      BY <2>1, <3>1, <1>1
    <3> QED BY <3>1, <3>2, <1>4 DEF Ordered
  <2>2. CASE i <= Len(ns) /\ ~(j <= Len(ns))
    BY <2>2, <1>1, <1>2
  <2>3. CASE ~(i <= Len(ns))
    <3>1. /\ i - Len(ns) \in 1..Len(top) /\ j - Len(ns) \in 1..Len(top)
          /\ i - Len(ns) < j - Len(ns) /\ ~(j <= Len(ns))
      BY <2>3, <1>2, <1>4
    <3>2. s[i] = top[i - Len(ns)] /\ s[j] = top[j - Len(ns)]
      BY <2>3, <3>1, <1>1
    <3> QED BY <3>1, <3>2 DEF Ordered
  <2> QED BY <2>1, <2>2, <2>3
<1>5. Ordered(s)
  BY <1>3, <1>4 DEF Ordered
<1> QED BY <1>5 DEF s

\* The list after a compaction is made of names that cover runs of the list
\* before it, so it is ordered as well.
LEMMA OrderedSpliced ==
  ASSUME NEW ns \in Seq(TableName), Ordered(ns),
         NEW first \in 1..Len(ns), NEW last \in first..Len(ns),
         NEW new \in Seq(TableName), Len(new) <= 1,
         new # <<>> => /\ new[1].min = ns[first].min
                       /\ new[1].max = ns[last].max
  PROVE  /\ Spliced(ns, first, last, new) \in Seq(TableName)
         /\ Ordered(Spliced(ns, first, last, new))
<1> DEFINE below == SubSeq(ns, 1, first - 1)
           above == SubSeq(ns, last + 1, Len(ns))
           s == (below \o new) \o above
           k == Len(new)
<1>1. /\ below \in Seq(TableName) /\ Len(below) = first - 1
      /\ \A i \in 1..(first - 1) : below[i] = ns[i]
  <2>1. \A i \in 1..(first - 1) : ns[i] \in TableName
    OBVIOUS
  <2> QED BY <2>1, SubSeqProperties, first \in Int, first - 1 \in Int
<1>2. /\ above \in Seq(TableName) /\ Len(above) = Len(ns) - last
      /\ \A i \in 1..(Len(ns) - last) : above[i] = ns[last + i]
  <2>1. \A i \in (last + 1)..Len(ns) : ns[i] \in TableName
    OBVIOUS
  <2>2. last + 1 \in Int /\ Len(ns) \in Int
    OBVIOUS
  <2>3. \A i \in 1..(Len(ns) - (last + 1) + 1) : above[i] = ns[(last + 1) + i - 1]
    BY <2>1, <2>2, SubSeqProperties
  <2>4. above \in Seq(TableName)
    BY <2>1, <2>2, SubSeqProperties
  <2>5. Len(above) = IF last + 1 <= Len(ns) THEN Len(ns) - (last + 1) + 1 ELSE 0
    BY <2>1, <2>2, SubSeqProperties
  <2>6. Len(above) = Len(ns) - last
    BY <2>5
  <2>7. \A i \in 1..(Len(ns) - last) :
          i \in 1..(Len(ns) - (last + 1) + 1) /\ (last + 1) + i - 1 = last + i
    OBVIOUS
  <2> QED BY <2>3, <2>4, <2>6, <2>7
<1> HIDE DEF below, above
<1>3. k \in 0..1 /\ (k = 1 => new # <<>>)
  <2>1. k \in Nat /\ k <= 1
    BY LenProperties
  <2>2. k \in 0..1
    <3> HIDE DEF k
    <3> QED BY <2>1
  <2>3. k = 1 => new # <<>>
    <3>1. Len(<<>>) = 0 /\ 0 # 1
      BY EmptySeq
    <3> QED BY <3>1, Zenon
  <2> QED BY <2>2, <2>3
<1>4. /\ below \o new \in Seq(TableName)
      /\ Len(below \o new) = first - 1 + k
      /\ \A i \in 1..(first - 1 + k) : (below \o new)[i] =
            IF i <= first - 1 THEN below[i] ELSE new[i - (first - 1)]
  BY <1>1, <1>3, ConcatProperties
<1>5. /\ s \in Seq(TableName)
      /\ Len(s) = first - 1 + k + (Len(ns) - last)
      /\ \A i \in 1..Len(s) : s[i] =
            IF i <= first - 1 + k THEN (below \o new)[i]
            ELSE above[i - (first - 1 + k)]
  <2> DEFINE t == below \o new
  <2>1. t \in Seq(TableName) /\ above \in Seq(TableName)
    BY <1>2, <1>4
  <2>2. /\ t \o above \in Seq(TableName)
        /\ Len(t \o above) = Len(t) + Len(above)
        /\ \A i \in 1..(Len(t) + Len(above)) : (t \o above)[i] =
              IF i <= Len(t) THEN t[i] ELSE above[i - Len(t)]
    BY <2>1, ConcatProperties
  <2>3. Len(t) = first - 1 + k /\ Len(above) = Len(ns) - last
    BY <1>2, <1>4
  <2> HIDE DEF t
  <2>4. s = t \o above /\ t = below \o new
    BY DEF t
  <2> QED BY <2>2, <2>3, <2>4
<1> HIDE DEF s, k
<1> DEFINE lo == [i \in 1..Len(s) |-> IF i < first + k THEN i
                                      ELSE last + (i - (first - 1 + k))]
           hi == [i \in 1..Len(s) |-> IF i < first THEN i
                                      ELSE last + (i - (first - 1 + k))]
<1>6. /\ first \in Int /\ last \in Int /\ Len(ns) \in Nat /\ first >= 1
      /\ first <= last /\ last <= Len(ns) /\ Len(s) \in Nat
  BY <1>3, <1>5
<1>7. lo \in [1..Len(s) -> 1..Len(ns)] /\ hi \in [1..Len(s) -> 1..Len(ns)]
  <2>1. ASSUME NEW i \in 1..Len(s)
        PROVE  /\ i < first => i \in 1..Len(ns)
               /\ i < first + k => i \in 1..Len(ns)
               /\ i >= first => last + (i - (first - 1 + k)) \in 1..Len(ns)
    BY <1>3, <1>5, <1>6
  <2>2. \A i \in 1..Len(s) : ~(i < first + k) => i >= first
    BY <1>3, <1>6
  <2>3. \A i \in 1..Len(s) : ~(i < first) => i >= first
    BY <1>6
  <2> QED BY <2>1, <2>2, <2>3
<1>8. \A i, j \in 1..Len(s) : i < j => hi[i] < lo[j]
  BY <1>3, <1>5, <1>6
<1>9. \A i \in 1..Len(s) : lo[i] <= hi[i]
  BY <1>3, <1>5, <1>6
<1>10. ASSUME NEW i \in 1..Len(s)
       PROVE  s[i].min = ns[lo[i]].min /\ s[i].max = ns[hi[i]].max
  <2>1. CASE i < first
    <3>1. i \in 1..(first - 1) /\ i <= first - 1 /\ i <= first - 1 + k
          /\ i \in 1..(first - 1 + k)
      BY <2>1, <1>3, <1>6
    <3>2. s[i] = ns[i]
      BY <3>1, <1>1, <1>4, <1>5
    <3>3. lo[i] = i /\ hi[i] = i
      BY <2>1, <1>3, <1>6
    <3> QED BY <3>2, <3>3
  <2>2. CASE i = first /\ k = 1
    <3>1. /\ ~(i <= first - 1) /\ i <= first - 1 + k /\ i \in 1..(first - 1 + k)
          /\ i - (first - 1) = 1
      BY <2>2, <1>6
    <3>2. s[i] = new[1]
      BY <3>1, <1>4, <1>5
    <3>3. lo[i] = first /\ hi[i] = last
      BY <2>2, <1>6
    <3> QED BY <3>2, <3>3, <2>2, <1>3
  <2>3. CASE ~(i < first + k)
    <3> DEFINE d == i - (first - 1 + k)
    <3>1. ~(i <= first - 1 + k) /\ d \in 1..(Len(ns) - last)
      BY <2>3, <1>3, <1>5, <1>6
    <3>2. s[i] = ns[last + d]
      BY <3>1, <1>2, <1>5
    <3>3. lo[i] = last + d /\ hi[i] = last + d
      BY <2>3, <1>3, <1>6
    <3> QED BY <3>2, <3>3
  <2> QED BY <2>1, <2>2, <2>3, <1>3, <1>6
<1> HIDE DEF lo, hi
<1>11. Ordered(s)
  BY <1>5, <1>7, <1>8, <1>9, <1>10, OrderedCover
<1>12. Spliced(ns, first, last, new) = s
  BY DEF Spliced, s, below, above
<1> QED BY <1>5, <1>11, <1>12

-----------------------------------------------------------------------------
(* What a stack shows *)

\* Table i is the newest of the tables ts that has a record of r.
Newest(ts, r, i) == /\ i \in 1..Len(ts) /\ r \in DOMAIN ts[i]
                    /\ \A j \in 1..Len(ts) : r \in DOMAIN ts[j] => j <= i

\* A reference is in a merge when a table has it.
LEMMA MergedDomain ==
  ASSUME NEW ts, NEW r
  PROVE  r \in DOMAIN Merged(ts) <=> \E i \in 1..Len(ts) : r \in DOMAIN ts[i]
<1> DEFINE newest(x) == CHOOSE i \in {k \in 1..Len(ts) : x \in DOMAIN ts[k]} :
                          \A j \in {k \in 1..Len(ts) : x \in DOMAIN ts[k]} : j <= i
           keys == UNION {DOMAIN ts[i] : i \in 1..Len(ts)}
<1>1. Merged(ts) = [x \in keys |-> ts[newest(x)][x]]
  BY DEF Merged
<1> HIDE DEF newest
<1> QED BY <1>1

\* Then a table is the newest that has it.
LEMMA NewestExists ==
  ASSUME NEW ts, Len(ts) \in Nat, NEW r \in DOMAIN Merged(ts)
  PROVE  \E i \in 1..Len(ts) : Newest(ts, r, i)
<1> DEFINE having == {i \in 1..Len(ts) : r \in DOMAIN ts[i]}
<1>1. having \in SUBSET (1..Len(ts)) /\ having # {}
  BY MergedDomain
<1>2. \E i \in having : \A j \in having : j <= i
  BY <1>1, LastPosition
<1> QED BY <1>2 DEF Newest

\* The newest table that has a record of a reference says what it is.
LEMMA MergedAt ==
  ASSUME NEW ts, Len(ts) \in Nat, NEW r, NEW i, Newest(ts, r, i)
  PROVE  Merged(ts)[r] = ts[i][r]
<1> DEFINE having(x) == {k \in 1..Len(ts) : x \in DOMAIN ts[k]}
           newest(x) == CHOOSE k \in having(x) : \A j \in having(x) : j <= k
           keys == UNION {DOMAIN ts[k] : k \in 1..Len(ts)}
<1>1. Merged(ts) = [x \in keys |-> ts[newest(x)][x]]
  BY DEF Merged
<1>2. i \in having(r) /\ \A j \in having(r) : j <= i
  BY DEF Newest
<1>3. newest(r) \in having(r) /\ \A j \in having(r) : j <= newest(r)
  BY <1>2
<1>4. having(r) \subseteq Int
  OBVIOUS
<1>5. r \in keys
  BY DEF Newest
<1> HIDE DEF having, newest, keys
<1>6. newest(r) = i
  BY <1>2, <1>3, <1>4
<1> QED BY <1>1, <1>5, <1>6

\* Records g put over the records f: those of g hide those of f.
Over(f, g) == [r \in DOMAIN f \cup DOMAIN g |-> IF r \in DOMAIN g THEN g[r] ELSE f[r]]

\* A merge is the merge of the newer tables over that of the older ones.
LEMMA MergedConcat ==
  ASSUME NEW a \in Seq(Contents), NEW b \in Seq(Contents)
  PROVE  Merged(a \o b) = Over(Merged(a), Merged(b))
<1> DEFINE ab == a \o b
<1>1. /\ Len(a) \in Nat /\ Len(b) \in Nat
      /\ Len(ab) = Len(a) + Len(b) /\ Len(ab) \in Nat
      /\ \A i \in 1..Len(a) : ab[i] = a[i] /\ i \in 1..Len(ab)
      /\ \A i \in 1..Len(b) : ab[Len(a) + i] = b[i] /\ Len(a) + i \in 1..Len(ab)
      /\ \A i \in 1..Len(ab) : i <= Len(a) => i \in 1..Len(a)
      /\ \A i \in 1..Len(ab) : ~(i <= Len(a)) =>
           i - Len(a) \in 1..Len(b) /\ ab[i] = b[i - Len(a)]
  OBVIOUS
<1> HIDE DEF ab
<1>0. Len(ab) \in Nat
  BY <1>1
<1>2. ASSUME NEW r PROVE r \in DOMAIN Merged(ab) <=> r \in DOMAIN Over(Merged(a), Merged(b))
  <2>1. (\E i \in 1..Len(ab) : r \in DOMAIN ab[i])
          <=> (\E i \in 1..Len(a) : r \in DOMAIN a[i]) \/ (\E i \in 1..Len(b) : r \in DOMAIN b[i])
    BY <1>1
  <2> QED BY <2>1, MergedDomain DEF Over
<1>3. ASSUME NEW r \in DOMAIN Merged(b) PROVE Merged(ab)[r] = Merged(b)[r]
  <2>1. PICK i \in 1..Len(b) : Newest(b, r, i)
    BY <1>1, NewestExists
  <2>2. Merged(b)[r] = b[i][r]
    BY <2>1, <1>1, MergedAt
  <2>3. Len(a) + i \in 1..Len(ab) /\ ab[Len(a) + i] = b[i]
    BY <1>1
  <2>4. ASSUME NEW j \in 1..Len(ab), r \in DOMAIN ab[j] PROVE j <= Len(a) + i
    <3>1. CASE j <= Len(a)
      BY <3>1, <1>1
    <3>2. CASE ~(j <= Len(a))
      <4>1. j - Len(a) \in 1..Len(b) /\ r \in DOMAIN b[j - Len(a)]
        BY <3>2, <2>4, <1>1
      <4>2. j - Len(a) <= i
        BY <4>1, <2>1 DEF Newest
      <4> QED BY <4>2, <1>1
    <3> QED BY <3>1, <3>2
  <2>5. Newest(ab, r, Len(a) + i)
    BY <2>1, <2>3, <2>4 DEF Newest
  <2>6. Merged(ab)[r] = ab[Len(a) + i][r]
    BY <2>5, <1>0, MergedAt
  <2> QED BY <2>2, <2>3, <2>6
<1>4. ASSUME NEW r \in DOMAIN Merged(a), r \notin DOMAIN Merged(b)
      PROVE  Merged(ab)[r] = Merged(a)[r]
  <2>1. PICK i \in 1..Len(a) : Newest(a, r, i)
    BY <1>1, NewestExists
  <2>2. Merged(a)[r] = a[i][r]
    BY <2>1, <1>1, MergedAt
  <2>3. i \in 1..Len(ab) /\ ab[i] = a[i]
    BY <1>1
  <2>4. ASSUME NEW j \in 1..Len(ab), r \in DOMAIN ab[j] PROVE j <= i
    <3>1. CASE j <= Len(a)
      <4>1. j \in 1..Len(a) /\ r \in DOMAIN a[j]
        BY <3>1, <2>4, <1>1
      <4> QED BY <4>1, <2>1 DEF Newest
    <3>2. CASE ~(j <= Len(a))
      <4>1. j - Len(a) \in 1..Len(b) /\ r \in DOMAIN b[j - Len(a)]
        BY <3>2, <2>4, <1>1
      <4> QED BY <4>1, <1>4, MergedDomain
    <3> QED BY <3>1, <3>2
  <2>5. Newest(ab, r, i)
    BY <2>1, <2>3, <2>4 DEF Newest
  <2>6. Merged(ab)[r] = ab[i][r]
    BY <2>5, <1>0, MergedAt
  <2> QED BY <2>2, <2>3, <2>6
<1>5. Merged(ab) = [r \in DOMAIN Merged(ab) |-> Merged(ab)[r]]
  BY DEF Merged
<1>6. DOMAIN Merged(ab) = DOMAIN Merged(a) \cup DOMAIN Merged(b)
  BY <1>2 DEF Over
<1> QED BY <1>3, <1>4, <1>5, <1>6 DEF Over, ab

\* The merge of no table, and of one.
LEMMA MergedSingle ==
  /\ Merged(<<>>) = NoRecs /\ Live(NoRecs) = NoRecs
  /\ \A t \in Contents : Merged(<<t>>) = t
<1>1. Merged(<<>>) = NoRecs
  <2>1. Len(<<>>) = 0
    BY EmptySeq
  <2>2. UNION {DOMAIN (<<>>)[i] : i \in 1..Len(<<>>)} = {}
    BY <2>1
  <2> QED BY <2>2 DEF Merged, NoRecs
<1>2. Live(NoRecs) = NoRecs
  BY DEF Live, NoRecs
<1>3. ASSUME NEW t \in Contents PROVE Merged(<<t>>) = t
  <2>1. Len(<<t>>) = 1 /\ <<t>>[1] = t /\ 1..Len(<<t>>) = {1}
    OBVIOUS
  <2>2. ASSUME NEW r PROVE r \in DOMAIN Merged(<<t>>) <=> r \in DOMAIN t
    BY <2>1, MergedDomain
  <2>3. ASSUME NEW r \in DOMAIN t PROVE Merged(<<t>>)[r] = t[r]
    <3>1. Newest(<<t>>, r, 1)
      BY <2>1 DEF Newest
    <3> QED BY <2>1, <3>1, MergedAt
  <2>4. t = [r \in DOMAIN t |-> t[r]]
    BY DEF Contents
  <2>5. Merged(<<t>>) = [r \in DOMAIN Merged(<<t>>) |-> Merged(<<t>>)[r]]
    BY DEF Merged
  <2> QED BY <2>2, <2>3, <2>4, <2>5
<1> QED BY <1>1, <1>2, <1>3

\* Where nothing is below, it does not matter when deletions are suppressed.
LEMMA LiveOver ==
  ASSUME NEW f, NEW g
  PROVE  Live(Over(Live(f), g)) = Live(Over(f, g))
<1> DEFINE left == {x \in DOMAIN Over(Live(f), g) : Over(Live(f), g)[x] # Deleted}
           right == {x \in DOMAIN Over(f, g) : Over(f, g)[x] # Deleted}
<1>1. ASSUME NEW x PROVE x \in left <=> x \in right
  BY DEF Over, Live
<1>2. ASSUME NEW x \in right PROVE Over(Live(f), g)[x] = Over(f, g)[x]
  BY DEF Over, Live
<1> QED BY <1>1, <1>2 DEF Live

\* A transaction that puts the tables ts on top of a stack commits what a new
\* reader of the longer stack will see.
THEOREM CommitShows ==
  ASSUME NEW ts \in Seq(Contents), NEW new \in Seq(Contents)
  PROVE  Overlay(Live(Merged(ts)), new) = Live(Merged(ts \o new))
<1> DEFINE db == Live(Merged(ts))
<1>1. db \in Contents
  BY MergedType, LiveType, DatabaseIsContents
<1>2. <<db>> \in Seq(Contents)
  BY <1>1
<1>3. Merged(<<db>> \o new) = Over(db, Merged(new))
  BY <1>1, <1>2, MergedConcat, MergedSingle
<1> QED BY <1>3, MergedConcat, LiveOver DEF Overlay

\* The contents c are those of a, then those of b.
Joined(a, b, c) ==
  /\ c \in Seq(Contents) /\ Len(c) = Len(a) + Len(b)
  /\ Len(a) \in Nat /\ Len(b) \in Nat
  /\ \A i \in 1..Len(a) : c[i] = a[i]
  /\ \A i \in 1..Len(c) : ~(i <= Len(a)) =>
       i - Len(a) \in 1..Len(b) /\ c[i] = b[i - Len(a)]

\* Where the elements of two sequences end up in their concatenation.
LEMMA ConcatAt ==
  ASSUME NEW a \in Seq(Contents), NEW b \in Seq(Contents)
  PROVE  Joined(a, b, a \o b)
<1>1. a \o b \in Seq(Contents) /\ Len(a \o b) = Len(a) + Len(b)
  BY ConcatProperties
<1> QED BY <1>1 DEF Joined

\* What a stack of readers holds is what its lower, middle and upper tables hold.
LEMMA RunOfStack ==
  ASSUME NEW rs \in Seq(Reader), NEW first \in 1..Len(rs), NEW last \in first..Len(rs)
  PROVE  /\ RecsOf(rs) = RecsOf(SubSeq(rs, 1, first - 1))
                          \o (RecsOf(SubSeq(rs, first, last))
                              \o RecsOf(SubSeq(rs, last + 1, Len(rs))))
         /\ RecsOf(SubSeq(rs, 1, first - 1)) \in Seq(Contents)
         /\ RecsOf(SubSeq(rs, first, last)) \in Seq(Contents)
         /\ RecsOf(SubSeq(rs, last + 1, Len(rs))) \in Seq(Contents)
<1> DEFINE low == SubSeq(rs, 1, first - 1)
           mid == SubSeq(rs, first, last)
           top == SubSeq(rs, last + 1, Len(rs))
           all == RecsOf(low) \o (RecsOf(mid) \o RecsOf(top))
<1>1. /\ first \in Nat /\ last \in Nat /\ Len(rs) \in Nat
      /\ 1 <= first /\ first <= last /\ last <= Len(rs)
  OBVIOUS
<1>2. /\ Len(low) = first - 1 /\ Len(mid) = last - first + 1 /\ Len(top) = Len(rs) - last
      /\ \A i \in 1..Len(low) : low[i] = rs[i]
      /\ \A i \in 1..Len(mid) : mid[i] = rs[first - 1 + i]
      /\ \A i \in 1..Len(top) : top[i] = rs[last + i]
  BY <1>1
<1>3. low \in Seq(Reader) /\ mid \in Seq(Reader) /\ top \in Seq(Reader)
  BY <1>1
<1> HIDE DEF low, mid, top
<1>4. /\ RecsOf(low) \in Seq(Contents) /\ Len(RecsOf(low)) = first - 1
      /\ RecsOf(mid) \in Seq(Contents) /\ Len(RecsOf(mid)) = last - first + 1
      /\ RecsOf(top) \in Seq(Contents) /\ Len(RecsOf(top)) = Len(rs) - last
      /\ RecsOf(rs) \in Seq(Contents) /\ Len(RecsOf(rs)) = Len(rs)
  BY <1>1, <1>2, <1>3, NamesOfType DEF RecsOf
<1> DEFINE rest == RecsOf(mid) \o RecsOf(top)
<1>5. /\ rest \in Seq(Contents) /\ Len(rest) = Len(rs) - (first - 1)
      /\ \A i \in 1..Len(mid) : rest[i] = RecsOf(mid)[i]
      /\ \A i \in 1..Len(rest) : ~(i <= Len(mid)) =>
           i - Len(mid) \in 1..Len(top) /\ rest[i] = RecsOf(top)[i - Len(mid)]
  <2>1. Len(RecsOf(mid)) = Len(mid) /\ Len(RecsOf(top)) = Len(top)
    BY <1>2, <1>4
  <2>2. Joined(RecsOf(mid), RecsOf(top), rest)
    BY <1>4, ConcatAt
  <2> HIDE DEF rest
  <2>3. rest \in Seq(Contents) /\ Len(rest) = Len(mid) + Len(top)
    BY <2>1, <2>2 DEF Joined
  <2>4. Len(rest) = Len(rs) - (first - 1)
    BY <2>3, <1>2, <1>1
  <2> QED BY <2>1, <2>2, <2>3, <2>4 DEF Joined
<1>9. all = RecsOf(low) \o rest
  OBVIOUS
<1> HIDE DEF all, rest
<1>6. /\ all \in Seq(Contents) /\ Len(all) = Len(rs)
      /\ \A i \in 1..Len(low) : all[i] = RecsOf(low)[i]
      /\ \A i \in 1..Len(all) : ~(i <= Len(low)) =>
           i - Len(low) \in 1..Len(rest) /\ all[i] = rest[i - Len(low)]
  <2>1. Len(RecsOf(low)) = Len(low)
    BY <1>2, <1>4
  <2>2. Joined(RecsOf(low), rest, all)
    BY <1>4, <1>5, <1>9, ConcatAt
  <2>3. all \in Seq(Contents) /\ Len(all) = Len(low) + Len(rest)
    BY <2>1, <2>2 DEF Joined
  <2>4. Len(all) = Len(rs)
    BY <2>3, <1>2, <1>5, <1>1
  <2> QED BY <2>1, <2>2, <2>3, <2>4 DEF Joined
<1>8. ASSUME NEW i \in 1..Len(rs) PROVE all[i] = RecsOf(rs)[i]
  <2>1. RecsOf(rs)[i] = rs[i].recs
    BY DEF RecsOf
  <2>2. CASE i <= first - 1
    <3>1. i \in 1..Len(low) /\ all[i] = RecsOf(low)[i]
      BY <2>2, <1>1, <1>2, <1>6
    <3> QED BY <3>1, <2>1, <1>2 DEF RecsOf
  <2> DEFINE k == i - (first - 1)
             m == k - (last - first + 1)
  <2>3. CASE first - 1 < i /\ i <= last
    <3>1. k \in 1..Len(mid) /\ all[i] = rest[k] /\ first - 1 + k = i
      BY <2>3, <1>1, <1>2, <1>6
    <3>2. rest[k] = RecsOf(mid)[k]
      BY <3>1, <1>5
    <3>3. RecsOf(mid)[k] = rs[first - 1 + k].recs
      BY <3>1, <1>2 DEF RecsOf
    <3> QED BY <3>1, <3>2, <3>3, <2>1
  <2>4. CASE last < i
    <3>1. k \in 1..Len(rest) /\ all[i] = rest[k] /\ ~(k <= Len(mid)) /\ last + m = i
      BY <2>4, <1>1, <1>2, <1>5, <1>6
    <3>2. m \in 1..Len(top) /\ rest[k] = RecsOf(top)[m]
      BY <3>1, <1>2, <1>5
    <3>3. RecsOf(top)[m] = rs[last + m].recs
      BY <3>2, <1>2 DEF RecsOf
    <3> QED BY <3>1, <3>2, <3>3, <2>1
  <2> QED BY <2>2, <2>3, <2>4, <1>1
<1>7. all = RecsOf(rs)
  BY <1>4, <1>6, <1>8, SeqEqual
<1> QED BY <1>4, <1>7 DEF all, rest, low, mid, top

\* A compaction keeps what the stack shows: with the merge of tables first..last
\* in their place, or with nothing there when the merge left no record, a reader
\* finds every reference as before.  Deletions may be dropped at the bottom of
\* the stack and nowhere else.
THEOREM CompactionShows ==
  ASSUME NEW rs \in Seq(Reader), NEW first \in 1..Len(rs), NEW last \in first..Len(rs)
  PROVE  LET low == RecsOf(SubSeq(rs, 1, first - 1))
             new == CompactedRecs(rs, first, last)
             top == RecsOf(SubSeq(rs, last + 1, Len(rs)))
         IN  /\ Live(Merged(low \o (<<new>> \o top))) = View(rs)
             /\ new = NoRecs => Live(Merged(low \o top)) = View(rs)
<1> DEFINE low == RecsOf(SubSeq(rs, 1, first - 1))
           mid == RecsOf(SubSeq(rs, first, last))
           top == RecsOf(SubSeq(rs, last + 1, Len(rs)))
           new == CompactedRecs(rs, first, last)
<1>1. /\ RecsOf(rs) = low \o (mid \o top)
      /\ low \in Seq(Contents) /\ mid \in Seq(Contents) /\ top \in Seq(Contents)
  BY RunOfStack
<1>2. new \in Contents
  BY CompactedType
<1>3. IF first = 1 THEN low = <<>> /\ new = Live(Merged(mid)) ELSE new = Merged(mid)
  <2>1. first = 1 => SubSeq(rs, 1, first - 1) = <<>>
    BY SubSeqEmpty
  <2>2. RecsOf(<<>>) = <<>>
    BY DEF RecsOf
  <2> QED BY <2>1, <2>2 DEF CompactedRecs
<1> HIDE DEF low, mid, top, new
<1>4. <<new>> \in Seq(Contents) /\ <<new>> \o top \in Seq(Contents) /\ mid \o top \in Seq(Contents)
  BY <1>1, <1>2, ConcatProperties
<1> DEFINE L == Merged(low)
           M == Merged(mid)
           T == Merged(top)
<1>5. /\ Merged(RecsOf(rs)) = Over(L, Over(M, T))
      /\ Merged(low \o (<<new>> \o top)) = Over(L, Over(new, T))
      /\ Merged(low \o top) = Over(L, T)
  <2>1. Merged(<<new>> \o top) = Over(new, T) /\ Merged(mid \o top) = Over(M, T)
    BY <1>1, <1>2, <1>4, MergedConcat, MergedSingle, ZenonT(60)
  <2>2. /\ Merged(low \o (mid \o top)) = Over(L, Merged(mid \o top))
        /\ Merged(low \o (<<new>> \o top)) = Over(L, Merged(<<new>> \o top))
        /\ Merged(low \o top) = Over(L, T)
    BY <1>1, <1>4, MergedConcat
  <2> QED BY <2>1, <2>2, <1>1
<1>6. new = NoRecs => Over(new, T) = T
  <2>1. T = [r \in DOMAIN T |-> T[r]]
    BY DEF Merged
  <2> HIDE DEF T
  <2> QED BY <2>1 DEF Over, NoRecs
<1>7. Live(Over(L, Over(new, T))) = Live(Over(L, Over(M, T)))
  <2>1. CASE first # 1
    BY <2>1, <1>3
  <2>2. CASE first = 1
    <3>1. L = NoRecs
      BY <2>2, <1>3, MergedSingle
    <3>2. ASSUME NEW f PROVE Live(Over(NoRecs, Over(f, T))) = Live(Over(f, T))
      <4>1. Over(NoRecs, Over(f, T)) = Over(f, T)
        BY DEF Over, NoRecs
      <4> QED BY <4>1
    <3>3. new = Live(M)
      BY <2>2, <1>3
    <3> HIDE DEF L, M, T
    <3>4. Live(Over(Live(M), T)) = Live(Over(M, T))
      BY LiveOver
    <3> QED BY <3>1, <3>2, <3>3, <3>4
  <2> QED BY <2>1, <2>2
<1> HIDE DEF L, M, T
<1>8. /\ Live(Merged(low \o (<<new>> \o top))) = View(rs)
      /\ new = NoRecs => Live(Merged(low \o top)) = View(rs)
  BY <1>5, <1>6, <1>7 DEF View
<1> QED BY <1>8 DEF low, top, new

-----------------------------------------------------------------------------
(* Lists of names that are put together from others, and stacks of readers *)

Distinct(ns) == \A i, j \in 1..Len(ns) : ns[i] = ns[j] => i = j

\* The readers of a stack, and their names, one by one.
LEMMA ReaderAt ==
  ASSUME NEW rs \in Seq(Reader), NEW i \in 1..Len(rs)
  PROVE  /\ rs[i] \in Reader /\ rs[i].name \in TableName /\ rs[i].recs \in Contents
         /\ rs[i].name \in ReaderNames(rs)
<1>1. rs[i] \in Reader
  BY ElementOfSeq
<1> QED BY <1>1 DEF Reader, ReaderNames

\* The names of a stack are the names in the list that it was built from.
LEMMA SameNames ==
  ASSUME NEW rs \in Seq(Reader)
  PROVE  NameSet(NamesOf(rs)) = ReaderNames(rs)
BY NamesOfType DEF NameSet, ReaderNames

\* A stack of readers with one more, and its names.
LEMMA TableAppended ==
  ASSUME NEW rs \in Seq(Reader), NEW x \in Reader
  PROVE  /\ Append(rs, x) \in Seq(Reader) /\ Len(Append(rs, x)) = Len(rs) + 1 /\ Len(rs) \in Nat
         /\ \A i \in 1..Len(rs) : Append(rs, x)[i] = rs[i]
         /\ Append(rs, x)[Len(rs) + 1] = x
         /\ \A i \in 1..Len(Append(rs, x)) : i \in 1..Len(rs) \/ i = Len(rs) + 1
         /\ ReaderNames(Append(rs, x)) = ReaderNames(rs) \cup {x.name}
<1> DEFINE s == Append(rs, x)
<1>1. /\ s \in Seq(Reader) /\ Len(s) = Len(rs) + 1 /\ Len(rs) \in Nat
      /\ \A i \in 1..Len(rs) : s[i] = rs[i]
      /\ s[Len(rs) + 1] = x
  BY AppendProperties
<1> HIDE DEF s
<1>2. \A i \in 1..Len(s) : i \in 1..Len(rs) \/ i = Len(rs) + 1
  BY <1>1
<1>3. ReaderNames(s) = ReaderNames(rs) \cup {x.name}
  <2>1. ASSUME NEW n \in ReaderNames(s) PROVE n \in ReaderNames(rs) \cup {x.name}
    <3>1. PICK i \in 1..Len(s) : n = s[i].name
      BY DEF ReaderNames
    <3> QED BY <3>1, <1>1, <1>2 DEF ReaderNames
  <2>2. ASSUME NEW i \in 1..Len(rs) PROVE rs[i].name \in ReaderNames(s)
    <3>1. i \in 1..Len(s) /\ s[i].name = rs[i].name
      BY <1>1
    <3> QED BY <3>1 DEF ReaderNames
  <2>3. x.name \in ReaderNames(s)
    <3>1. Len(rs) + 1 \in 1..Len(s) /\ s[Len(rs) + 1].name = x.name
      BY <1>1
    <3> QED BY <3>1 DEF ReaderNames
  <2> QED BY <2>1, <2>2, <2>3 DEF ReaderNames
<1> QED BY <1>1, <1>2, <1>3 DEF s

\* The names of tables that are on disk under different names, and of one more.
LEMMA NameAppended ==
  ASSUME NEW rs \in Seq(Reader), NEW x \in Reader, Distinct(NamesOf(rs)), x.name \notin ReaderNames(rs)
  PROVE  Distinct(NamesOf(Append(rs, x)))
<1> DEFINE s == Append(rs, x)
<1>1. /\ s \in Seq(Reader) /\ Len(s) = Len(rs) + 1 /\ Len(rs) \in Nat
      /\ \A i \in 1..Len(rs) : s[i] = rs[i]
      /\ s[Len(rs) + 1] = x
      /\ \A i \in 1..Len(s) : i \in 1..Len(rs) \/ i = Len(rs) + 1
  BY TableAppended
<1> HIDE DEF s
<1>2. /\ Len(NamesOf(s)) = Len(s) /\ \A i \in 1..Len(s) : NamesOf(s)[i] = s[i].name
      /\ Len(NamesOf(rs)) = Len(rs) /\ \A i \in 1..Len(rs) : NamesOf(rs)[i] = rs[i].name
  BY <1>1, NamesOfType
<1>3. \A i \in 1..Len(rs) : rs[i].name # x.name
  BY DEF ReaderNames
<1>4. \A i, j \in 1..Len(rs) : rs[i].name = rs[j].name => i = j
  BY <1>2 DEF Distinct
<1>5. \A i, j \in 1..Len(s) : s[i].name = s[j].name => i = j
  BY <1>1, <1>3, <1>4
<1>6. Distinct(NamesOf(s))
  BY <1>2, <1>5 DEF Distinct
<1> QED BY <1>6 DEF s

\* The elements of two lists in their concatenation.
LEMMA ConcatElements ==
  ASSUME NEW S, NEW s \in Seq(S), NEW t \in Seq(S)
  PROVE  /\ s \o t \in Seq(S) /\ Len(s \o t) = Len(s) + Len(t) /\ Len(s) \in Nat /\ Len(t) \in Nat
         /\ \A i \in 1..Len(s) : (s \o t)[i] = s[i]
         /\ \A i \in 1..Len(t) : (s \o t)[Len(s) + i] = t[i]
         /\ \A i \in 1..Len(s \o t) :
              i \in 1..Len(s) \/ (i - Len(s) \in 1..Len(t) /\ (s \o t)[i] = t[i - Len(s)])
<1>1. /\ s \o t \in Seq(S) /\ Len(s \o t) = Len(s) + Len(t)
      /\ \A i \in 1..Len(s) + Len(t) :
           (s \o t)[i] = IF i <= Len(s) THEN s[i] ELSE t[i - Len(s)]
  BY ConcatProperties
<1>2. Len(s) \in Nat /\ Len(t) \in Nat
  OBVIOUS
<1> DEFINE c == s \o t
<1> HIDE DEF c
<1>3. /\ c \in Seq(S) /\ Len(c) = Len(s) + Len(t)
      /\ \A i \in 1..Len(s) + Len(t) : c[i] = IF i <= Len(s) THEN s[i] ELSE t[i - Len(s)]
  BY <1>1 DEF c
<1>4. ASSUME NEW i \in 1..Len(t) PROVE c[Len(s) + i] = t[i]
  <2>1. Len(s) + i \in 1..Len(s) + Len(t) /\ ~(Len(s) + i <= Len(s)) /\ (Len(s) + i) - Len(s) = i
    BY <1>2
  <2> QED BY <2>1, <1>3
<1>5. \A i \in 1..Len(s) : c[i] = s[i]
  BY <1>2, <1>3
<1>6. \A i \in 1..Len(c) : i \in 1..Len(s) \/ (i - Len(s) \in 1..Len(t) /\ c[i] = t[i - Len(s)])
  BY <1>2, <1>3
<1> QED BY <1>2, <1>3, <1>4, <1>5, <1>6 DEF c

\* Its names, without repetition if there was none.
LEMMA ConcatNames ==
  ASSUME NEW s \in Seq(TableName), NEW t \in Seq(TableName)
  PROVE  /\ NameSet(s \o t) = NameSet(s) \cup NameSet(t)
         /\ Distinct(s) /\ Distinct(t) /\ NameSet(s) \cap NameSet(t) = {} => Distinct(s \o t)
<1> DEFINE c == s \o t
<1>1. /\ Len(c) = Len(s) + Len(t) /\ Len(s) \in Nat /\ Len(t) \in Nat
      /\ \A i \in 1..Len(s) : c[i] = s[i]
      /\ \A i \in 1..Len(t) : c[Len(s) + i] = t[i]
      /\ \A i \in 1..Len(c) : i \in 1..Len(s) \/ (i - Len(s) \in 1..Len(t) /\ c[i] = t[i - Len(s)])
  BY ConcatElements
<1> HIDE DEF c
<1>2. ASSUME NEW n \in NameSet(c) PROVE n \in NameSet(s) \cup NameSet(t)
  <2>1. PICK i \in 1..Len(c) : n = c[i]
    BY DEF NameSet
  <2>2. CASE i \in 1..Len(s)
    BY <2>1, <2>2, <1>1 DEF NameSet
  <2>3. CASE i - Len(s) \in 1..Len(t) /\ c[i] = t[i - Len(s)]
    BY <2>1, <2>3 DEF NameSet
  <2> QED BY <2>2, <2>3, <1>1
<1>3. ASSUME NEW i \in 1..Len(s) PROVE s[i] \in NameSet(c)
  <2>1. i \in 1..Len(c) /\ c[i] = s[i]
    BY <1>1
  <2> QED BY <2>1 DEF NameSet
<1>4. ASSUME NEW i \in 1..Len(t) PROVE t[i] \in NameSet(c)
  <2>1. Len(s) + i \in 1..Len(c) /\ c[Len(s) + i] = t[i]
    BY <1>1
  <2> QED BY <2>1 DEF NameSet
<1>5. NameSet(c) = NameSet(s) \cup NameSet(t)
  BY <1>2, <1>3, <1>4 DEF NameSet
<1>6. ASSUME Distinct(s), Distinct(t), NameSet(s) \cap NameSet(t) = {},
             NEW i \in 1..Len(c), NEW j \in 1..Len(c), c[i] = c[j]
      PROVE  i = j
  <2>1. \A k \in 1..Len(s), l \in 1..Len(t) : s[k] # t[l]
    BY <1>6 DEF NameSet
  <2>2. CASE i \in 1..Len(s) /\ j \in 1..Len(s)
    BY <2>2, <1>1, <1>6 DEF Distinct
  <2>3. CASE i \in 1..Len(s) /\ j \notin 1..Len(s)
    BY <2>1, <2>3, <1>1, <1>6
  <2>4. CASE i \notin 1..Len(s) /\ j \in 1..Len(s)
    BY <2>1, <2>4, <1>1, <1>6
  <2>5. CASE i \notin 1..Len(s) /\ j \notin 1..Len(s)
    <3>1. /\ i - Len(s) \in 1..Len(t) /\ j - Len(s) \in 1..Len(t)
          /\ t[i - Len(s)] = t[j - Len(s)]
      BY <2>5, <1>1, <1>6
    <3>2. i - Len(s) = j - Len(s)
      BY <3>1, <1>6 DEF Distinct
    <3> QED BY <3>2, <1>1
  <2> QED BY <2>2, <2>3, <2>4, <2>5
<1>7. Distinct(s) /\ Distinct(t) /\ NameSet(s) \cap NameSet(t) = {} => Distinct(c)
  BY <1>6 DEF Distinct
<1> QED BY <1>5, <1>7 DEF c

\* Concatenation is associative.
LEMMA ConcatAssociates ==
  ASSUME NEW a \in Seq(TableName), NEW b \in Seq(TableName), NEW c \in Seq(TableName)
  PROVE  (a \o b) \o c = a \o (b \o c)
<1> DEFINE ab == a \o b
           bc == b \o c
           x == ab \o c
           y == a \o bc
<1>1. /\ ab \in Seq(TableName) /\ Len(ab) = Len(a) + Len(b) /\ Len(a) \in Nat /\ Len(b) \in Nat
      /\ \A i \in 1..Len(a) : ab[i] = a[i]
      /\ \A i \in 1..Len(b) : ab[Len(a) + i] = b[i]
  BY ConcatElements
<1>2. /\ bc \in Seq(TableName) /\ Len(bc) = Len(b) + Len(c) /\ Len(c) \in Nat
      /\ \A i \in 1..Len(b) : bc[i] = b[i]
      /\ \A i \in 1..Len(c) : bc[Len(b) + i] = c[i]
  BY ConcatElements
<1> HIDE DEF ab, bc
<1>0. ab \in Seq(TableName) /\ bc \in Seq(TableName)
  BY <1>1, <1>2
<1>3. /\ x \in Seq(TableName) /\ Len(x) = Len(ab) + Len(c)
      /\ \A i \in 1..Len(ab) : x[i] = ab[i]
      /\ \A i \in 1..Len(c) : x[Len(ab) + i] = c[i]
  BY <1>0, ConcatElements
<1>4. /\ y \in Seq(TableName) /\ Len(y) = Len(a) + Len(bc)
      /\ \A i \in 1..Len(a) : y[i] = a[i]
      /\ \A i \in 1..Len(bc) : y[Len(a) + i] = bc[i]
  BY <1>0, ConcatElements
<1> HIDE DEF x, y
<1>5. ASSUME NEW i \in 1..Len(x) PROVE x[i] = y[i]
  <2> DEFINE k == i - Len(a)
             m == k - Len(b)
  <2>1. CASE i <= Len(a)
    <3>1. i \in 1..Len(a) /\ i \in 1..Len(ab)
      BY <2>1, <1>1
    <3> QED BY <3>1, <1>1, <1>3, <1>4
  <2>2. CASE Len(a) < i /\ i <= Len(a) + Len(b)
    <3>1. k \in 1..Len(b) /\ k \in 1..Len(bc) /\ i \in 1..Len(ab) /\ Len(a) + k = i
      BY <2>2, <1>1, <1>2
    <3>2. x[i] = ab[i] /\ ab[Len(a) + k] = b[k] /\ y[Len(a) + k] = bc[k] /\ bc[k] = b[k]
      BY <3>1, <1>1, <1>2, <1>3, <1>4
    <3> QED BY <3>1, <3>2
  <2>3. CASE Len(a) + Len(b) < i
    <3>1. /\ m \in 1..Len(c) /\ k \in 1..Len(bc) /\ Len(a) + k = i /\ Len(b) + m = k
          /\ Len(ab) + m = i
      BY <2>3, <1>1, <1>2, <1>3
    <3>2. x[Len(ab) + m] = c[m] /\ y[Len(a) + k] = bc[k] /\ bc[Len(b) + m] = c[m]
      BY <3>1, <1>2, <1>3, <1>4
    <3> QED BY <3>1, <3>2
  <2> QED BY <2>1, <2>2, <2>3, <1>1
<1>6. x = y
  <2>1. x \in Seq(TableName) /\ y \in Seq(TableName) /\ Len(x) = Len(y)
    BY <1>1, <1>2, <1>3, <1>4
  <2> QED BY <2>1, <1>5, SeqEqual
<1> QED BY <1>6 DEF x, y, ab, bc

\* A range of a list.
LEMMA ListRange ==
  ASSUME NEW ns \in Seq(TableName), NEW a \in 1..(Len(ns) + 1), NEW b \in (a - 1)..Len(ns)
  PROVE  /\ SubSeq(ns, a, b) \in Seq(TableName) /\ Len(SubSeq(ns, a, b)) = b - a + 1
         /\ \A i \in 1..(b - a + 1) : SubSeq(ns, a, b)[i] = ns[a - 1 + i]
         /\ NameSet(SubSeq(ns, a, b)) = {ns[i] : i \in a..b}
         /\ Distinct(ns) => Distinct(SubSeq(ns, a, b))
<1> DEFINE s == SubSeq(ns, a, b)
<1>0. Len(ns) \in Nat /\ a \in Nat /\ b \in Int
  OBVIOUS
<1>1. /\ s \in Seq(TableName) /\ Len(s) = b - a + 1
      /\ \A i \in 1..(b - a + 1) : s[i] = ns[a - 1 + i]
  BY <1>0
<1> HIDE DEF s
<1>2. ASSUME NEW i \in 1..Len(s) PROVE s[i] \in {ns[j] : j \in a..b}
  <2>1. a - 1 + i \in a..b /\ s[i] = ns[a - 1 + i]
    BY <1>0, <1>1
  <2> QED BY <2>1
<1>3. ASSUME NEW j \in a..b PROVE ns[j] \in NameSet(s)
  <2>1. j - a + 1 \in 1..Len(s) /\ a - 1 + (j - a + 1) = j
    BY <1>0, <1>1
  <2>2. s[j - a + 1] = ns[j]
    BY <2>1, <1>1
  <2> QED BY <2>1, <2>2 DEF NameSet
<1>4. NameSet(s) = {ns[i] : i \in a..b}
  BY <1>2, <1>3 DEF NameSet
<1>5. Distinct(ns) => Distinct(s)
  <2> SUFFICES ASSUME Distinct(ns), NEW i \in 1..Len(s), NEW j \in 1..Len(s), s[i] = s[j] PROVE i = j
    BY DEF Distinct
  <2>1. a - 1 + i \in 1..Len(ns) /\ a - 1 + j \in 1..Len(ns) /\ ns[a - 1 + i] = ns[a - 1 + j]
    BY <1>0, <1>1
  <2>2. a - 1 + i = a - 1 + j
    BY <2>1 DEF Distinct
  <2> QED BY <2>2, <1>0
<1> QED BY <1>1, <1>4, <1>5 DEF s

\* The names in a list whose range was replaced.
LEMMA SplicedNames ==
  ASSUME NEW ns \in Seq(TableName), Distinct(ns), NEW first \in 1..Len(ns), NEW last \in first..Len(ns),
         NEW new \in Seq(TableName), Distinct(new), NameSet(new) \cap NameSet(ns) = {}
  PROVE  /\ SubSeq(ns, 1, first - 1) \in Seq(TableName)
         /\ SubSeq(ns, last + 1, Len(ns)) \in Seq(TableName)
         /\ Spliced(ns, first, last, new) =
              SubSeq(ns, 1, first - 1) \o (new \o SubSeq(ns, last + 1, Len(ns)))
         /\ NameSet(SubSeq(ns, 1, first - 1)) \subseteq NameSet(ns)
         /\ NameSet(SubSeq(ns, last + 1, Len(ns))) \subseteq NameSet(ns)
         /\ NameSet(Spliced(ns, first, last, new)) \subseteq NameSet(ns) \cup NameSet(new)
         /\ NameSet(new) \subseteq NameSet(Spliced(ns, first, last, new))
         /\ Distinct(Spliced(ns, first, last, new))
         /\ NameSet(Spliced(ns, first, last, new)) \cap {ns[i] : i \in first..last} = {}
<1> DEFINE low == SubSeq(ns, 1, first - 1)
           top == SubSeq(ns, last + 1, Len(ns))
           s == Spliced(ns, first, last, new)
<1>1. /\ Len(ns) \in Nat /\ first \in Nat /\ last \in Nat /\ 1 \in 1..(Len(ns) + 1)
      /\ first - 1 \in (1 - 1)..Len(ns) /\ last + 1 \in 1..(Len(ns) + 1)
      /\ Len(ns) \in ((last + 1) - 1)..Len(ns)
  OBVIOUS
<1>2. /\ low \in Seq(TableName) /\ NameSet(low) = {ns[i] : i \in 1..(first - 1)} /\ Distinct(low)
      /\ top \in Seq(TableName) /\ NameSet(top) = {ns[i] : i \in (last + 1)..Len(ns)} /\ Distinct(top)
  BY <1>1, ListRange
<1>3. s = (low \o new) \o top
  BY DEF Spliced
<1> HIDE DEF low, top, s
<1>4. s = low \o (new \o top) /\ new \o top \in Seq(TableName)
  BY <1>2, <1>3, ConcatAssociates, ConcatElements
<1>5. NameSet(low) \subseteq NameSet(ns) /\ NameSet(top) \subseteq NameSet(ns)
  <2>1. /\ {ns[i] : i \in 1..(first - 1)} \subseteq {ns[i] : i \in 1..Len(ns)}
        /\ {ns[i] : i \in (last + 1)..Len(ns)} \subseteq {ns[i] : i \in 1..Len(ns)}
    BY <1>1
  <2>2. NameSet(ns) = {ns[i] : i \in 1..Len(ns)}
    BY DEF NameSet
  <2> QED BY <2>1, <2>2, <1>2
<1>6. \A i, j \in 1..Len(ns) : ns[i] = ns[j] => i = j
  BY DEF Distinct
<1>7. /\ NameSet(low) \cap NameSet(top) = {}
      /\ (NameSet(low) \cup NameSet(top)) \cap {ns[i] : i \in first..last} = {}
  <2>1. ASSUME NEW i \in 1..(first - 1), NEW j \in first..Len(ns) PROVE ns[i] # ns[j]
    <3>1. i \in 1..Len(ns) /\ j \in 1..Len(ns) /\ i # j
      BY <1>1
    <3> QED BY <3>1, <1>6
  <2>2. ASSUME NEW i \in (last + 1)..Len(ns), NEW j \in first..last PROVE ns[i] # ns[j]
    <3>1. i \in 1..Len(ns) /\ j \in 1..Len(ns) /\ i # j
      BY <1>1
    <3> QED BY <3>1, <1>6
  <2>3. /\ \A j \in (last + 1)..Len(ns) : j \in first..Len(ns)
        /\ \A j \in first..last : j \in first..Len(ns)
    BY <1>1
  <2>4. NameSet(low) \cap NameSet(top) = {}
    BY <2>1, <2>3, <1>2
  <2>5. NameSet(low) \cap {ns[i] : i \in first..last} = {}
    BY <2>1, <2>3, <1>2
  <2>6. NameSet(top) \cap {ns[i] : i \in first..last} = {}
    BY <2>2, <1>2
  <2> QED BY <2>4, <2>5, <2>6
<1>8. NameSet(new \o top) = NameSet(new) \cup NameSet(top) /\ Distinct(new \o top)
  BY <1>2, <1>5, ConcatNames
<1>9. NameSet(s) = NameSet(low) \cup NameSet(new \o top) /\ Distinct(s)
  BY <1>2, <1>4, <1>5, <1>7, <1>8, ConcatNames
<1>10. {ns[i] : i \in first..last} \subseteq NameSet(ns)
  BY <1>1, SMTT(20) DEF NameSet
<1>11. NameSet(s) \cap {ns[i] : i \in first..last} = {}
  BY <1>7, <1>8, <1>9, <1>10
<1>12. NameSet(s) \subseteq NameSet(ns) \cup NameSet(new) /\ NameSet(new) \subseteq NameSet(s)
  BY <1>5, <1>8, <1>9
<1> QED BY <1>2, <1>4, <1>5, <1>9, <1>11, <1>12 DEF low, top, s

-----------------------------------------------------------------------------
(* What the files of a list hold *)

\* What readers read is what their files hold, while there are such files.
Faithful(rs) == \A i \in 1..Len(rs) :
                  rs[i].name \in DOMAIN dir => rs[i].recs = dir[rs[i].name]

\* What the files with these names hold; Listed is that of the list.
Holding(ns) == [i \in 1..Len(ns) |-> dir[ns[i]]]

\* No reader, no name.
LEMMA NothingOpen ==
  /\ ReaderNames(<<>>) = {} /\ NameSet(<<>>) = {} /\ Len(<<>>) = 0 /\ Faithful(<<>>)
  /\ View(<<>>) = NoRecs
<1>1. Len(<<>>) = 0
  BY EmptySeq
<1>2. RecsOf(<<>>) = <<>>
  BY <1>1 DEF RecsOf
<1> QED BY <1>1, <1>2, MergedSingle DEF ReaderNames, NameSet, Faithful, View

\* Its files.
LEMMA HoldingConcat ==
  ASSUME FilesOK, NEW s \in Seq(TableName), NEW t \in Seq(TableName),
         NameSet(s) \subseteq DOMAIN dir, NameSet(t) \subseteq DOMAIN dir
  PROVE  /\ Holding(s) \in Seq(Contents) /\ Holding(t) \in Seq(Contents)
         /\ Holding(s \o t) = Holding(s) \o Holding(t)
<1> DEFINE c == s \o t
           hs == Holding(s)
           ht == Holding(t)
           hc == Holding(c)
           d == hs \o ht
<1>1. /\ c \in Seq(TableName) /\ Len(c) = Len(s) + Len(t) /\ Len(s) \in Nat /\ Len(t) \in Nat
      /\ \A i \in 1..Len(s) : c[i] = s[i]
      /\ \A i \in 1..Len(t) : c[Len(s) + i] = t[i]
      /\ \A i \in 1..Len(c) : i \in 1..Len(s) \/ (i - Len(s) \in 1..Len(t) /\ c[i] = t[i - Len(s)])
  BY ConcatElements
<1>2. NameSet(c) \subseteq DOMAIN dir
  BY ConcatNames
<1> HIDE DEF c
<1>3. \A n \in DOMAIN dir : dir[n] \in Contents
  BY DEF FilesOK
<1>4. /\ hs \in Seq(Contents) /\ Len(hs) = Len(s) /\ \A i \in 1..Len(s) : hs[i] = dir[s[i]]
      /\ ht \in Seq(Contents) /\ Len(ht) = Len(t) /\ \A i \in 1..Len(t) : ht[i] = dir[t[i]]
      /\ hc \in Seq(Contents) /\ Len(hc) = Len(c) /\ \A i \in 1..Len(c) : hc[i] = dir[c[i]]
  BY <1>1, <1>2, <1>3 DEF Holding, NameSet
<1> HIDE DEF hs, ht, hc
<1>5. /\ d \in Seq(Contents) /\ Len(d) = Len(s) + Len(t)
      /\ \A i \in 1..Len(s) : d[i] = hs[i]
      /\ \A i \in 1..Len(d) : i \in 1..Len(s) \/ (i - Len(s) \in 1..Len(t) /\ d[i] = ht[i - Len(s)])
  <2>1. Joined(hs, ht, d)
    BY <1>4, ConcatAt
  <2> HIDE DEF d
  <2> QED BY <2>1, <1>4 DEF Joined
<1> HIDE DEF d
<1>6. ASSUME NEW i \in 1..Len(hc) PROVE hc[i] = d[i]
  <2>0. i \in 1..Len(c) /\ i \in 1..Len(d) /\ hc[i] = dir[c[i]]
    BY <1>1, <1>4, <1>5
  <2>1. CASE i \in 1..Len(s)
    <3>1. c[i] = s[i] /\ d[i] = hs[i] /\ hs[i] = dir[s[i]]
      BY <2>1, <1>1, <1>4, <1>5
    <3> QED BY <3>1, <2>0
  <2>2. CASE i \notin 1..Len(s)
    <3>1. i - Len(s) \in 1..Len(t) /\ c[i] = t[i - Len(s)] /\ d[i] = ht[i - Len(s)]
      BY <2>0, <2>2, <1>1, <1>5
    <3>2. ht[i - Len(s)] = dir[t[i - Len(s)]]
      BY <3>1, <1>4
    <3> QED BY <3>1, <3>2, <2>0
  <2> QED BY <2>1, <2>2
<1>7. hc = d
  BY <1>1, <1>4, <1>5, <1>6, SeqEqual
<1> QED BY <1>4, <1>7 DEF c, hs, ht, hc, d

\* Readers whose files are there have read what those hold.
LEMMA HoldingRead ==
  ASSUME FilesOK, NEW rs \in Seq(Reader),
         \A i \in 1..Len(rs) : rs[i].name \in DOMAIN dir /\ rs[i].recs = dir[rs[i].name]
  PROVE  Holding(NamesOf(rs)) = RecsOf(rs)
BY NamesOfType DEF Holding, RecsOf

\* What the files of a range of a stack hold is what its readers have read.
LEMMA HoldingRange ==
  ASSUME FilesOK, NEW rs \in Seq(Reader), NEW a \in 1..(Len(rs) + 1), NEW b \in (a - 1)..Len(rs),
         \A i \in 1..Len(rs) : rs[i].name \in DOMAIN dir /\ rs[i].recs = dir[rs[i].name]
  PROVE  Holding(SubSeq(NamesOf(rs), a, b)) = RecsOf(SubSeq(rs, a, b))
<1> DEFINE part == SubSeq(rs, a, b)
           ns == NamesOf(rs)
           nspart == SubSeq(ns, a, b)
<1>0. Len(rs) \in Nat /\ a \in Nat /\ b \in Int
  OBVIOUS
<1>1. /\ part \in Seq(Reader) /\ Len(part) = b - a + 1
      /\ \A i \in 1..(b - a + 1) : part[i] = rs[a - 1 + i]
  BY <1>0
<1>2. /\ ns \in Seq(TableName) /\ Len(ns) = Len(rs) /\ \A i \in 1..Len(rs) : ns[i] = rs[i].name
  BY NamesOfType
<1> HIDE DEF part, ns
<1>3. /\ nspart \in Seq(TableName) /\ Len(nspart) = b - a + 1
      /\ \A i \in 1..(b - a + 1) : nspart[i] = ns[a - 1 + i]
  BY <1>2, ListRange
<1> HIDE DEF nspart
<1>4. ASSUME NEW i \in 1..(b - a + 1)
      PROVE  /\ nspart[i] = part[i].name
             /\ part[i].name \in DOMAIN dir /\ part[i].recs = dir[part[i].name]
  <2>1. a - 1 + i \in 1..Len(rs)
    BY <1>0
  <2> QED BY <2>1, <1>1, <1>2, <1>3
<1>5. Holding(nspart) = [i \in 1..(b - a + 1) |-> dir[nspart[i]]]
  BY <1>3 DEF Holding
<1>6. RecsOf(part) = [i \in 1..(b - a + 1) |-> part[i].recs]
  BY <1>1 DEF RecsOf
<1>7. Holding(nspart) = RecsOf(part)
  <2>1. \A i \in 1..(b - a + 1) : dir[nspart[i]] = part[i].recs
    BY <1>4
  <2> QED BY <2>1, <1>5, <1>6
<1> QED BY <1>7 DEF nspart, ns, part

\* The list of a compaction holds the tables of the stack outside its range, and
\* their merge, or nothing, in its place.
LEMMA SplicedShows ==
  ASSUME FilesOK, NEW rs \in Seq(Reader), Distinct(NamesOf(rs)),
         NEW first \in 1..Len(rs), NEW last \in first..Len(rs),
         \A i \in 1..Len(rs) : rs[i].name \in DOMAIN dir /\ rs[i].recs = dir[rs[i].name],
         NEW new \in Seq(TableName), Distinct(new), NameSet(new) \cap NameSet(NamesOf(rs)) = {},
         NameSet(new) \subseteq DOMAIN dir,
         \/ new = <<>> /\ CompactedRecs(rs, first, last) = NoRecs
         \/ \E n \in TableName : new = <<n>> /\ dir[n] = CompactedRecs(rs, first, last)
  PROVE  Live(Merged(Holding(Spliced(NamesOf(rs), first, last, new)))) = View(rs)
<1> DEFINE ns == NamesOf(rs)
           low == SubSeq(ns, 1, first - 1)
           top == SubSeq(ns, last + 1, Len(ns))
           lowRecs == RecsOf(SubSeq(rs, 1, first - 1))
           topRecs == RecsOf(SubSeq(rs, last + 1, Len(rs)))
           merge == CompactedRecs(rs, first, last)
<1>1. ns \in Seq(TableName) /\ Len(ns) = Len(rs) /\ NameSet(ns) \subseteq DOMAIN dir
  BY NamesOfType DEF NameSet
<1>2. /\ Len(rs) \in Nat /\ first \in Nat /\ last \in Nat /\ 1 \in 1..(Len(rs) + 1)
      /\ first - 1 \in (1 - 1)..Len(rs) /\ last + 1 \in 1..(Len(rs) + 1)
      /\ Len(rs) \in ((last + 1) - 1)..Len(rs)
  OBVIOUS
<1>3. /\ low \in Seq(TableName) /\ top \in Seq(TableName)
      /\ Spliced(ns, first, last, new) = low \o (new \o top)
      /\ NameSet(low) \subseteq NameSet(ns) /\ NameSet(top) \subseteq NameSet(ns)
  <2>1. /\ Len(ns) \in Nat /\ 1 \in 1..(Len(ns) + 1)
        /\ first - 1 \in (1 - 1)..Len(ns) /\ last + 1 \in 1..(Len(ns) + 1)
        /\ Len(ns) \in ((last + 1) - 1)..Len(ns)
    BY <1>1, <1>2
  <2> HIDE DEF ns
  <2>2. /\ low \in Seq(TableName) /\ NameSet(low) = {ns[i] : i \in 1..(first - 1)}
        /\ top \in Seq(TableName) /\ NameSet(top) = {ns[i] : i \in (last + 1)..Len(ns)}
    BY <1>1, <2>1, ListRange, ZenonT(60)
  <2>3. Spliced(ns, first, last, new) = (low \o new) \o top
    BY DEF Spliced
  <2> HIDE DEF low, top
  <2>4. Spliced(ns, first, last, new) = low \o (new \o top)
    BY <2>2, <2>3, ConcatAssociates
  <2>5. /\ {ns[i] : i \in 1..(first - 1)} \subseteq {ns[i] : i \in 1..Len(ns)}
        /\ {ns[i] : i \in (last + 1)..Len(ns)} \subseteq {ns[i] : i \in 1..Len(ns)}
    BY <1>2, <2>1
  <2> QED BY <2>2, <2>4, <2>5 DEF NameSet
<1>4. Holding(low) = lowRecs /\ Holding(top) = topRecs
  BY <1>1, <1>2, HoldingRange
<1>5. /\ Live(Merged(lowRecs \o (<<merge>> \o topRecs))) = View(rs)
      /\ merge = NoRecs => Live(Merged(lowRecs \o topRecs)) = View(rs)
  BY CompactionShows
<1> HIDE DEF ns, low, top, lowRecs, topRecs, merge
<1>6. NameSet(low) \subseteq DOMAIN dir /\ NameSet(top) \subseteq DOMAIN dir
  BY <1>1, <1>3
<1>7. /\ new \o top \in Seq(TableName) /\ NameSet(new \o top) \subseteq DOMAIN dir
      /\ Holding(new \o top) = Holding(new) \o topRecs
  BY <1>3, <1>4, <1>6, ConcatElements, ConcatNames, HoldingConcat
<1>8. Holding(low \o (new \o top)) = lowRecs \o (Holding(new) \o topRecs)
  BY <1>3, <1>4, <1>6, <1>7, HoldingConcat
<1>9. CASE new = <<>> /\ merge = NoRecs
  <2>1. new \o top = top
    BY <1>3, <1>9
  <2>2. Holding(low \o (new \o top)) = lowRecs \o topRecs
    BY <2>1, <1>3, <1>4, <1>6, HoldingConcat
  <2> QED BY <2>2, <1>3, <1>5, <1>9 DEF ns
<1>10. ASSUME NEW n \in TableName, new = <<n>>, dir[n] = merge
       PROVE  Live(Merged(Holding(Spliced(ns, first, last, new)))) = View(rs)
  <2>1. Holding(<<n>>) = <<merge>>
    <3>1. Len(<<n>>) = 1 /\ <<n>>[1] = n
      OBVIOUS
    <3>2. Holding(<<n>>) = [i \in 1..1 |-> dir[n]]
      BY <3>1 DEF Holding
    <3> QED BY <3>2, <1>10
  <2> QED BY <2>1, <1>3, <1>5, <1>8, <1>10
<1> QED BY <1>9, <1>10 DEF ns, merge
=============================================================================
