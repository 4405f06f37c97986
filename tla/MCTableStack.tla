---------------------------- MODULE MCTableStack ----------------------------
(***************************************************************************)
(* Instances of TableStack for TLC.  Characters: 1 is the dot, 2 the       *)
(* slash, 3 and on are letters.  Hashes differ in two digits.              *)
(***************************************************************************)
EXTENDS TableStack

A  == <<3>>
AB == <<3, 2, 4>>
AC == <<3, 2, 5>>
B  == <<4>>
C  == <<5>>
CD == <<5, 2, 6>>
CE == <<5, 2, 7>>
D  == <<6>>

H(i, j) == <<i, j>>

Del(n)      == [name |-> n, type |-> Deletion, hashes |-> <<>>]
Points1(n, h)  == [name |-> n, type |-> Val1, hashes |-> <<h>>]
Tag(n, h, g)   == [name |-> n, type |-> Val2, hashes |-> <<h, g>>]
To(n, target)  == [name |-> n, type |-> Symref, hashes |-> <<target>>]
Entry(n)       == [name |-> n, type |-> 1]
Forget(n, ui)  == [name |-> n, type |-> Deletion, ui |-> ui]

Table(refs, logs) == [refs |-> refs, logs |-> logs]

Tags == Table(<<Tag(AB, H(1, 1), H(1, 2)), Tag(AC, H(2, 1), H(2, 2)),
                Tag(B, H(3, 1), H(3, 2)), Tag(CD, H(1, 1), H(4, 1)),
                Tag(CE, H(4, 2), H(5, 1)), Tag(D, H(5, 2), H(2, 1))>>,
              <<Entry(AB), Entry(B), Entry(D)>>)

Mixed == {
  Table(<<Del(AB), Del(AC), Points1(C, H(1, 1))>>, <<Entry(AB), Entry(B)>>),
  Table(<<Points1(A, H(1, 1))>>, <<>>),
  Table(<<To(A, B), Del(AB), Del(AC), Tag(B, H(1, 1), H(1, 2))>>, <<Entry(A)>>),
  Table(<<Del(B), To(B \o <<2>> \o A, A)>>, <<>>),
  Table(<<>>, <<Forget(B, 1), Entry(D)>>) }

Faulty == {
  Table(<<To(<<4, 2>>, B)>>, <<>>),
  Table(<<To(<<4, 2, 1, 2, 4>>, B)>>, <<>>),
  Table(<<To(D, B), To(C, B)>>, <<>>),
  Table(<<To(C, [i \in 1..60 |-> 3])>>, <<>>),
  Table(<<>>, <<>>) }

Links == Table(<<To(AB, B), To(AC, B), To(B, D), To(CD, B), To(CE, B), To(D, AB)>>,
               <<Entry(AB), Entry(B), Entry(D)>>)

PathBatches == [u \in BOOLEAN |->
  IF u THEN {Links, Table(<<Del(B), Del(CD)>>, <<Entry(B)>>)}
  ELSE {Tags} \cup Mixed \cup Faulty]

\* Two blocks of references, which get an index, objects and a reflog entry.
TwoTags == Table(<<Tag(A, H(6, 1), H(6, 2)), Tag(B, H(6, 1), H(7, 1))>>, <<Entry(A)>>)
IndexBatches == [u \in BOOLEAN |->
  {Table(<<Points1(A, H(6, 1))>>, <<Entry(A)>>), TwoTags, Table(<<Del(A)>>, <<Entry(B)>>)}]

\* A reference that fits in any block of a table but the first.
TightBatches == [u \in BOOLEAN |->
  {Table(<<To(A, B), To(B, [i \in 1..30 |-> 3])>>, <<>>), Table(<<Del(A)>>, <<>>),
   Table(<<To(C, B)>>, <<Entry(C)>>)}]

PathWanted == {<<>>, B}
=============================================================================
