------------------------------ MODULE Directory ------------------------------
(***************************************************************************)
(* The directory that the processes of a stack share, and what the system  *)
(* calls do that both implementations build on: tables.list names the      *)
(* tables of the stack, tables.list.lock is created exclusively, written,  *)
(* and renamed over tables.list.                                           *)
(*                                                                         *)
(* lockFile is the inode at the path tables.list.lock, list the one at     *)
(* tables.list.  A descriptor follows its inode, not the path: fdAt says   *)
(* which of the two a process's descriptor of the lock refers to, or       *)
(* "orphan" when the inode has lost its name.                              *)
(***************************************************************************)
EXTENDS Tables

CONSTANTS Proc,   \* processes
          NoFile  \* there is no lock file

ASSUME NoFileAssumption == NoFile \notin Seq(TableName)

VARIABLES
  dir,       \* the .ref files of the directory: name -> content
  list,      \* the names in tables.list, <<>> when there is no such file
  lockFile,  \* the names in tables.list.lock, or NoFile
  tlocks,    \* tables that have a .lock file
  fdAt       \* where the lock descriptor of each process refers to

shared == <<dir, list, lockFile, tlocks>>

EmptyDirectory == /\ dir = [n \in {} |-> NoRecs]
                  /\ list = <<>>
                  /\ lockFile = NoFile
                  /\ tlocks = {}
                  /\ fdAt = [p \in Proc |-> "none"]

\* The files left once some were unlinked, and those there are once the table
\* n was renamed into place.
Without(files) == [n \in DOMAIN dir \ files |-> dir[n]]
With(n, recs) == [x \in DOMAIN dir \cup {n} |-> IF x = n THEN recs ELSE dir[x]]

\* open(tables.list.lock, O_EXCL | O_CREAT).  Mutated: without O_EXCL.
CreateShared == lockFile' = <<>>
CreateLock == lockFile = NoFile /\ lockFile' = <<>>

\* Where the descriptors of all processes refer to once p has closed its own
\* and the lock file was unlinked, or was renamed over tables.list.
FdsAfterUnlink(p) == [q \in Proc |-> IF q = p THEN "none"
                                     ELSE IF fdAt[q] = "lock" THEN "orphan"
                                     ELSE fdAt[q]]
FdsAfterRename(p) == [q \in Proc |-> IF q = p THEN "none"
                                     ELSE IF fdAt[q] = "lock" THEN "list"
                                     ELSE IF fdAt[q] = "list" THEN "orphan"
                                     ELSE fdAt[q]]

UnlinkLock(p) == lockFile' = NoFile /\ fdAt' = FdsAfterUnlink(p)

\* rename(tables.list.lock, tables.list).
RenameLock(p) == /\ lockFile # NoFile
                 /\ list' = lockFile
                 /\ lockFile' = NoFile
                 /\ fdAt' = FdsAfterRename(p)

\* write(lock_file_fd, ...) and close(lock_file_fd).
WriteLock(p, content) ==
  /\ lockFile' = IF fdAt[p] = "lock" THEN content ELSE lockFile
  /\ list' = IF fdAt[p] = "list" THEN content ELSE list
  /\ fdAt' = [fdAt EXCEPT ![p] = "none"]

\* What the tables of the list hold, oldest first.
Listed == [i \in 1..Len(list) |-> dir[list[i]]]

\* Every table that tables.list names is there: no reload, clean, failed call
\* or compaction has unlinked a file that is still part of the stack.
ListIntact == NameSet(list) \subseteq DOMAIN dir

\* The part of a type invariant that is about files.
FilesOK == /\ DOMAIN dir \subseteq TableName
           /\ \A x \in DOMAIN dir : dir[x] \in Contents
           /\ list \in Seq(TableName)
           /\ lockFile \in Seq(TableName) \cup {NoFile}
           /\ tlocks \subseteq TableName
=============================================================================
