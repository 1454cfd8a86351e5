----------------------------- MODULE ProcessTree -----------------------------
(***************************************************************************)
(* The process tree of process_snapshot_service.cc: which listed process   *)
(* is the parent of which, for the tree view (BuildProcessTree) and for    *)
(* ending a tree (TerminateProcessTree).  An item of the list has the PID, *)
(* the PID of its creator, which may since belong to another process, and  *)
(* the start time, unless that is Unknown.  The kernel lists every PID     *)
(* once, so the code's special case for duplicate PIDs never applies.      *)
(***************************************************************************)
EXTENDS Integers, FiniteSets

CONSTANT Unknown  \* start time of a process the kernel gives none for

ASSUME UnknownAssumption == Unknown \notin Int

\* The creator started before the process it is the parent of: a later
\* process on the creator's PID is not the parent.
IsValidParentRelationship(parent, child) ==
  /\ parent.pid # child.pid
  /\ parent.start # Unknown /\ child.start # Unknown
  /\ parent.start < child.start

\* The listed process with that PID leads to its own creator's PID; 0 ends
\* the chain where the PID is not listed.
Creator(pid, items) ==
  IF \E item \in items : item.pid = pid
    THEN (CHOOSE item \in items : item.pid = pid).parent
    ELSE 0

\* The chain of creators that starts at pid, without regard to start times.
Chain(pid, items) ==
  LET up[n \in Nat] == IF n = 0 THEN pid ELSE Creator(up[n - 1], items)
  IN up

\* The chain from parentPid comes to childPid, or runs in a circle.
ParentChainContains(childPid, parentPid, items) ==
  LET chain == Chain(parentPid, items)
      n == Cardinality(items)
  IN childPid # 0 /\ (\/ \E i \in 0..n : chain[i] = childPid
                      \/ chain[n + 1] # 0)

\* Mutant of IsParent: any process on the creator's PID is the parent.
IsParentByPid(parent, child, items) ==
  parent.pid = child.parent

IsParent(parent, child, items) ==
  /\ parent.pid = child.parent
  /\ IsValidParentRelationship(parent, child)
  /\ ~ParentChainContains(child.pid, child.parent, items)

Children(parent, items) == {child \in items : IsParent(parent, child, items)}

\* BuildProcessTree: items without a parent are the roots.
Roots(items) == {item \in items : \A parent \in items : ~IsParent(parent, item, items)}

\* item and everything below it.
Subtree(item, items) ==
  {i \in items :
     \A S \in SUBSET items :
       (item \in S /\ \A j \in S : Children(j, items) \subseteq S) => i \in S}

-----------------------------------------------------------------------------
(* What the tree view needs of a list of items                             *)

\* The tree view shows every process of the list exactly once: nobody has
\* two parents, and every process is below a root, whatever circles reused
\* PIDs make of the creators.
ShownOnce(items) ==
  /\ \A item \in items :
       Cardinality({parent \in items : IsParent(parent, item, items)}) <= 1
  /\ UNION {Subtree(root, items) : root \in Roots(items)} = items
=============================================================================
