------------------------------- MODULE RefDB --------------------------------
(***************************************************************************)
(* The promise of a stack to its clients, without files or locks: a        *)
(* database whose states form one history.  A process reads a state of the *)
(* history, never one that did not exist, and never an older one after a   *)
(* newer one; a transaction commits only on top of the newest state, so    *)
(* nothing that was committed is lost.  This is the specification that the *)
(* stacks of stack.c and stack.go are compared with: "Add a new reftable   *)
(* to stack, transactionally".                                             *)
(***************************************************************************)
EXTENDS Tables

CONSTANTS Proc,        \* processes that use the database
          Batches,     \* what one table of a transaction may hold
          MaxTables    \* tables in one transaction

VARIABLES hist,        \* the states of the database, oldest first
          seen,        \* the version each process reads, 0 while it has none
          view         \* what each process reads

dbVars == <<hist, seen, view>>

Current == hist[Len(hist)]

Init == /\ hist = <<NoRecs>>
        /\ seen = [p \in Proc |-> 0]
        /\ view = [p \in Proc |-> NoRecs]

\* A transaction of one or more tables; its writer reads the newest state.
Commit(p) ==
  /\ seen[p] = Len(hist)
  /\ \E n \in 1..MaxTables : \E ts \in [1..n -> Batches] :
       hist' = Append(hist, Overlay(Current, ts))
  /\ UNCHANGED <<seen, view>>

\* A process moves to a state that is no older than the one it read.
Refresh(p) ==
  \E v \in (IF seen[p] = 0 THEN 1 ELSE seen[p])..Len(hist) :
    /\ seen' = [seen EXCEPT ![p] = v]
    /\ view' = [view EXCEPT ![p] = hist[v]]
    /\ UNCHANGED hist

\* A process closes its stack, or dies.
Leave(p) ==
  /\ seen' = [seen EXCEPT ![p] = 0]
  /\ view' = [view EXCEPT ![p] = NoRecs]
  /\ UNCHANGED hist

Next == \E p \in Proc : Commit(p) \/ Refresh(p) \/ Leave(p)

Spec == Init /\ [][Next]_dbVars
=============================================================================
