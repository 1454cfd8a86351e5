---------------------- MODULE ProcessTerminationProofs ----------------------
(***************************************************************************)
(* Proofs about ProcessTermination, for every set of PIDs and any number   *)
(* of processes, and of items selected at once.                            *)
(***************************************************************************)
EXTENDS ProcessTermination, FiniteSetTheorems, WellFoundedInduction, NaturalsInduction,
        TLAPS

Entries == [item : Items, queued : BOOLEAN]

\* A list of the processes on finitely many PIDs is finite.
LEMMA ListedFinite == processes \in [Pids -> Processes \cup {None}] => IsFiniteSet(Listed)
<1> DEFINE live == {q \in Pids : processes[q] # None}
           f == [q \in live |-> ItemOf(q)]
<1>1. IsFiniteSet(live)
  BY FS_Subset, TerminationAssumption
<1>2. f \in Surjection(live, Listed)
  BY DEF Listed, Surjection
<1>3. QED
  BY <1>1, <1>2, FS_Surjection

LEMMA ListedType ==
  ASSUME processes \in [Pids -> Processes \cup {None}]
  PROVE  Listed \in SUBSET Items
BY DEF Listed, ItemOf, Items, Processes

LEMMA ChildrenListed ==
  ASSUME NEW items, NEW item PROVE Children(item, items) \in SUBSET items
BY DEF Children

LEMMA UnqueuedEntries ==
  ASSUME NEW S, NEW items \in SUBSET S
  PROVE  Unqueued(items) \subseteq [item : S, queued : BOOLEAN]
<1> SUFFICES ASSUME NEW e \in Unqueued(items)
             PROVE  e \in [item : S, queued : BOOLEAN]
  OBVIOUS
<1>1. PICK i \in items : e = [item |-> i, queued |-> FALSE]
  BY DEF Unqueued
<1>2. QED
  BY <1>1

\* What Visit puts back on the stack is a stack again, whatever set of
\* entries T the items are known to be from.
LEMMA StackType ==
  ASSUME NEW T, pending \in Seq(T), pending # <<>>, NEW children,
         IsFiniteSet(children), [item |-> Top.item, queued |-> TRUE] \in T,
         Unqueued(children) \subseteq T,
         NEW order \in [1..Cardinality(children) -> Unqueued(children)]
  PROVE  /\ Top \in T
         /\ Rest \in Seq(T)
         /\ Rest \o <<[item |-> Top.item, queued |-> TRUE]>> \o order \in Seq(T)
<1>1. Len(pending) \in Nat \ {0}
  OBVIOUS
<1>2. Top \in T
  BY <1>1 DEF Top
<1>3. Rest \in Seq(T)
  BY <1>1 DEF Rest
<1>4. Cardinality(children) \in Nat
  BY FS_CardinalityType
<1>5. order \in Seq(T)
  BY <1>4
<1>6. <<[item |-> Top.item, queued |-> TRUE]>> \in Seq(T)
  OBVIOUS
<1>7. QED
  BY <1>2, <1>3, <1>5

-----------------------------------------------------------------------------
(* Type correctness                                                        *)

\* The lists are finite, so that their children can be put in an order.
TypeInv == TypeOK /\ IsFiniteSet(allProcesses)

LEMMA TypeInit == Init => TypeInv
<1> SUFFICES ASSUME Init PROVE TypeInv
  OBVIOUS
<1>1. processes \in [Pids -> Processes \cup {None}]
  BY DEF Init, Processes, Ids
<1>2. pending \in Seq([item : Items, queued : BOOLEAN])
  BY DEF Init
<1>3. IsFiniteSet(allProcesses)
  BY FS_EmptySet DEF Init
<1>4. QED
  BY <1>1, <1>2, <1>3 DEF Init, TypeInv, TypeOK

LEMMA TerminateType ==
  ASSUME TypeOK, NEW item \in Items, TerminateProcess(item)
  PROVE  /\ processes' \in [Pids -> Processes \cup {None}]
         /\ failed' \in BOOLEAN
         /\ touched' \in SUBSET Items
<1>1. Verified(item) => ItemOf(item.pid) \in Items
  BY DEF TypeOK, Verified, ItemOf, Items, Processes
<1>2. QED
  BY <1>1 DEF TypeOK, TerminateProcess

LEMMA SpawnType ==
  ASSUME TypeOK, NEW pid \in Pids, NEW creator \in Pids, Spawn(pid, creator)
  PROVE  TypeOK'
<1>1. PICK now \in {clock, clock + 1} :
        /\ clock' = now
        /\ lastBorn' = [lastBorn EXCEPT ![pid] = now]
        /\ processes' = [processes EXCEPT ![pid] =
             [born |-> now, start |-> now, parent |-> creator,
              lineage |-> processes[creator].lineage \cup {[pid |-> pid, born |-> now]}]]
  BY DEF Spawn
<1>2. now \in Nat
  BY DEF TypeOK
<1>3. processes[creator].lineage \subseteq Ids
  BY DEF Spawn, TypeOK, Processes
<1>4. [pid |-> pid, born |-> now] \in Ids
  BY <1>2 DEF Ids
<1>5. [born |-> now, start |-> now, parent |-> creator,
       lineage |-> processes[creator].lineage \cup {[pid |-> pid, born |-> now]}]
        \in Processes
  BY <1>2, <1>3, <1>4 DEF Processes
<1>6. processes' \in [Pids -> Processes \cup {None}]
  BY <1>1, <1>5 DEF TypeOK
<1>7. QED
  BY <1>6 DEF TypeOK, Spawn, commandVars

LEMMA TypeStep == TypeInv /\ [Next]_vars => TypeInv'
<1> SUFFICES ASSUME TypeInv, [Next]_vars PROVE TypeInv'
  OBVIOUS
<1> USE DEF TypeInv
<1>1. Listed \in SUBSET Items /\ IsFiniteSet(Listed)
  BY ListedFinite, ListedType DEF TypeOK
<1>2. IsFiniteSet({})
  BY FS_EmptySet
<1>3. <<>> \in Seq(Entries)
  OBVIOUS
<1>4. NoCommand => /\ pc' = "idle" /\ command' = "process" /\ chosen' = {} /\ left' = {}
                   /\ pending' \in Seq(Entries) /\ visited' = {} /\ failed' = FALSE
                   /\ touched' = {}
  BY <1>3 DEF NoCommand
<1>5. CASE \E pid \in Pids : Exit(pid)
  BY <1>5 DEF Exit, TypeOK, commandVars
<1>6. CASE \E pid, creator \in Pids : Spawn(pid, creator)
  BY <1>6, SpawnType DEF Spawn
<1>7. CASE Refresh
  BY <1>1, <1>2, <1>7 DEF Refresh, TypeOK, kernelVars, commandVars
<1>8. CASE Choose
  BY <1>8 DEF Choose, TypeOK, kernelVars
<1>9. CASE Decline
  BY <1>4, <1>9 DEF Decline, TypeOK, kernelVars, Entries
<1>10. CASE Confirm
  BY <1>10 DEF Confirm, TypeOK, kernelVars
<1>11. CASE NextProcess
  <2>1. PICK item \in left :
          /\ left' = left \ {item}
          /\ \/ command = "process" /\ TerminateProcess(item)
             \/ command = "priority" /\ SetPriority(item)
    BY <1>11 DEF NextProcess
  <2>2. item \in Items
    BY <2>1 DEF TypeOK
  <2>3. CASE TerminateProcess(item)
    BY <1>11, <2>3, TerminateType DEF NextProcess, TypeOK
  <2>4. CASE SetPriority(item)
    <3>1. Verified(item) => ItemOf(item.pid) \in Items
      BY DEF TypeOK, Verified, ItemOf, Items, Processes
    <3>2. QED
      BY <1>11, <2>4, <3>1 DEF NextProcess, TypeOK, SetPriority
  <2>5. QED
    BY <2>1, <2>3, <2>4
<1>12. CASE NextTree
  <2>1. PICK item \in left :
          left' = left \ {item} /\ pending' = <<[item |-> item, queued |-> FALSE]>>
    BY <1>12 DEF NextTree
  <2>2. [item |-> item, queued |-> FALSE] \in Entries
    BY <2>1 DEF TypeOK, Entries
  <2>3. pending' \in Seq(Entries)
    BY <2>1, <2>2
  <2>4. QED
    BY <1>12 DEF NextTree, TypeOK, kernelVars
<1>13. CASE Visit
  <2> DEFINE children == ListedChildren(Top.item)
  <2>1. children \in SUBSET allProcesses /\ IsFiniteSet(children)
    BY ChildrenListed, FS_Subset DEF ListedChildren
  <2>2. pending \in Seq(Entries) /\ Len(pending) \in Nat \ {0}
    BY <1>13 DEF Visit, TypeOK, Entries
  <2>3. Top \in Entries /\ Rest \in Seq(Entries)
    BY <2>2 DEF Top, Rest
  <2>4. CASE Top.item.pid \in visited
    BY <1>13, <2>3, <2>4 DEF Visit, TypeOK, kernelVars, Entries
  <2>5. CASE Top.item.pid \notin visited
    <3>1. PICK order \in [1..Cardinality(children) -> Unqueued(children)] :
            pending' = Rest \o <<[item |-> Top.item, queued |-> TRUE]>> \o order
      BY <1>13, <2>5 DEF Visit
    <3>2. [item |-> Top.item, queued |-> TRUE] \in Entries
      BY <2>3 DEF Entries
    <3>3. Unqueued(children) \subseteq Entries
      <4>1. children \in SUBSET Items
        BY <2>1 DEF TypeOK
      <4> HIDE DEF children
      <4>2. QED
        BY <4>1, UnqueuedEntries DEF Entries
    <3>4. pending # <<>>
      BY <1>13 DEF Visit
    <3> HIDE DEF children
    <3>5. pending' \in Seq(Entries)
      BY <2>1, <2>2, <3>1, <3>2, <3>3, <3>4, StackType
    <3>6. Top.item.pid \in Pids
      BY <2>3 DEF Entries, Items
    <3>7. QED
      BY <1>13, <3>5, <3>6 DEF Visit, TypeOK, kernelVars, Entries
  <2>6. QED
    BY <2>4, <2>5
<1>14. CASE EndTop
  <2>1. pending \in Seq(Entries) /\ Len(pending) \in Nat \ {0}
    BY <1>14 DEF EndTop, TypeOK, Entries
  <2>2. Top \in Entries /\ Rest \in Seq(Entries)
    BY <2>1 DEF Top, Rest
  <2>3. Top.item \in Items
    BY <2>2 DEF Entries
  <2>4. QED
    BY <1>14, <2>2, TerminateType DEF EndTop, TypeOK, Entries
<1>15. CASE Report
  BY <1>1, <1>2, <1>4, <1>15 DEF Report, TypeOK, kernelVars, Entries
<1>16. CASE UNCHANGED vars
  BY <1>16 DEF TypeOK, vars, kernelVars, commandVars
<1>17. QED
  BY <1>5, <1>6, <1>7, <1>8, <1>9, <1>10, <1>11, <1>12, <1>13, <1>14, <1>15, <1>16
    DEF Next, Kernel

\* The variables keep their types.
THEOREM TypeCorrect == Spec => []TypeOK
<1>1. Spec => []TypeInv
  BY TypeInit, TypeStep, PTL DEF Spec
<1>2. TypeInv => TypeOK
  BY DEF TypeInv
<1>3. QED
  BY <1>1, <1>2, PTL

-----------------------------------------------------------------------------
(* Only chosen processes and their descendants are touched.  What makes an *)
(* old item safe to act on: its start time is the birth of its process, no *)
(* process was born on its PID before it and still to come, and where its  *)
(* process still runs, the lineage has not changed.                        *)

GoodItem(i) ==
  /\ i.start \in {i.born, Unknown}
  /\ Id(i) \in i.lineage
  /\ i.born <= lastBorn[i.pid]
  /\ Running(i) => processes[i.pid].lineage = i.lineage

GoodItems == {i \in Items : GoodItem(i)}

\* The stack holds chosen items and their descendants.
GoodEntries ==
  {e \in Entries : e.item \in GoodItems /\ \E c \in chosen : Id(c) \in e.item.lineage}

\* Where the code sees a parent, the kernel has seen it, too.
Inherits(items) ==
  \A i, j \in items : j.parent = i.pid /\ i.born < j.born => i.lineage \subseteq j.lineage

KernelInv ==
  /\ \A pid \in Pids : lastBorn[pid] <= clock
  /\ Listed \subseteq GoodItems
  /\ Inherits(Listed)

CommandInv ==
  /\ allProcesses \subseteq GoodItems /\ Inherits(allProcesses)
  /\ chosen \subseteq GoodItems
  /\ pending \in Seq(GoodEntries)
  /\ pc # "run" => pending = <<>> /\ touched = {}
  /\ command # "tree" => pending = <<>>
  /\ OnlyChosenTouched

IInv == TypeInv /\ KernelInv /\ CommandInv

\* What a step may do to the kernel's processes.
LEMMA KernelChange ==
  ASSUME [Next]_vars
  PROVE  \/ UNCHANGED kernelVars
         \/ \E pid, creator \in Pids : Spawn(pid, creator)
         \/ /\ \E pid : processes' = [processes EXCEPT ![pid] = None]
            /\ UNCHANGED <<clock, lastBorn>>
<1>1. ASSUME NEW item, TerminateProcess(item)
      PROVE  \/ UNCHANGED processes
             \/ /\ Verified(item)
                /\ processes' = [processes EXCEPT ![item.pid] = None]
  BY <1>1 DEF TerminateProcess
<1>2. CASE NextProcess
  BY <1>1, <1>2 DEF NextProcess, SetPriority, kernelVars
<1>3. CASE EndTop
  BY <1>1, <1>3 DEF EndTop, kernelVars
<1>4. CASE Kernel
  BY <1>4 DEF Kernel, Exit
<1>5. CASE Refresh \/ Choose \/ Decline \/ Confirm \/ NextTree \/ Visit \/ Report
  BY <1>5 DEF Refresh, Choose, Decline, Confirm, NextTree, Visit, Report
<1>6. QED
  BY <1>2, <1>3, <1>4, <1>5 DEF Next, vars

\* A process that has started on a PID is a later one than any known there.
LEMMA SpawnKernel ==
  ASSUME TypeInv, KernelInv, NEW pid \in Pids, NEW creator \in Pids, Spawn(pid, creator)
  PROVE  KernelInv' /\ GoodItems \subseteq GoodItems'
<1>1. PICK now \in {clock, clock + 1} :
        /\ now > lastBorn[pid]
        /\ clock' = now
        /\ lastBorn' = [lastBorn EXCEPT ![pid] = now]
        /\ processes' = [processes EXCEPT ![pid] =
             [born |-> now, start |-> now, parent |-> creator,
              lineage |-> processes[creator].lineage \cup {[pid |-> pid, born |-> now]}]]
  BY DEF Spawn
<1>2. now \in Nat /\ clock \in Nat /\ clock <= now /\ lastBorn \in [Pids -> Nat]
      /\ processes \in [Pids -> Processes \cup {None}]
  BY <1>1 DEF TypeInv, TypeOK
<1>3. processes[pid] = None /\ processes[creator] # None /\ creator # pid
  BY DEF Spawn
<1> DEFINE new == [pid |-> pid, born |-> now, start |-> now, parent |-> creator,
                   lineage |-> processes[creator].lineage \cup {[pid |-> pid, born |-> now]}]
<1>4. Listed' = Listed \cup {new}
  <2>1. TypeOK'
    BY SpawnType DEF TypeInv
  <2>2. \A q \in Pids : q # pid => processes'[q] = processes[q]
    BY <1>1, <1>2
  <2>3. ItemOf(pid)' = new /\ processes'[pid] # None
    <3>1. processes'[pid] = [born |-> now, start |-> now, parent |-> creator,
              lineage |-> processes[creator].lineage \cup {[pid |-> pid, born |-> now]}]
      BY <1>1, <1>2
    <3>2. processes'[creator] = processes[creator]
      BY <1>3, <2>2
    <3>3. processes[creator] \in Processes
      BY <1>2, <1>3
    <3>4. now \in Nat /\ [pid |-> pid, born |-> now] \in Ids
      BY <1>2 DEF Ids
    <3>5. processes'[pid] \in Processes
      BY <3>1, <3>3, <3>4 DEF Processes
    <3>6. processes'[pid] # None
      BY <3>5, TerminationAssumption DEF Processes, Ids
    <3>7. QED
      BY <3>1, <3>6 DEF ItemOf
  <2>4. \A q \in Pids : q # pid => ItemOf(q)' = ItemOf(q)
    BY <2>2 DEF ItemOf
  <2> HIDE DEF new
  <2>5. QED
    BY <1>3, <2>2, <2>3, <2>4 DEF Listed
<1>5. \A q \in Pids : lastBorn'[q] <= clock'
  BY <1>1, <1>2 DEF KernelInv
<1>6. GoodItems \subseteq GoodItems'
  <2> SUFFICES ASSUME NEW i \in GoodItems PROVE i \in GoodItems'
    OBVIOUS
  <2>1. i \in Items /\ i.pid \in Pids /\ i.born \in Nat /\ GoodItem(i)
    BY DEF GoodItems, Items
  <2>2. lastBorn'[i.pid] \in Nat /\ i.born <= lastBorn'[i.pid]
    BY <1>1, <1>2, <2>1 DEF GoodItem
  <2>3. CASE i.pid = pid
    <3>1. processes'[i.pid].born = now
      BY <1>1, <1>2, <2>3
    <3>2. now # i.born
      BY <1>1, <1>2, <2>1, <2>3 DEF GoodItem
    <3>3. ~Running(i)'
      BY <3>1, <3>2 DEF Running
    <3>4. QED
      BY <2>2, <3>3 DEF GoodItems, GoodItem
  <2>4. CASE i.pid # pid
    <3>1. processes'[i.pid] = processes[i.pid]
      BY <1>1, <2>4
    <3>2. QED
      BY <2>2, <3>1 DEF GoodItems, GoodItem, Running
  <2>5. QED
    BY <2>3, <2>4
<1>7. new \in GoodItems'
  <2>1. processes[creator].lineage \subseteq Ids /\ [pid |-> pid, born |-> now] \in Ids
    BY <1>2, <1>3 DEF Processes, Ids
  <2>2. new \in Items
    BY <1>2, <2>1 DEF Items
  <2>3. lastBorn'[pid] = now
    BY <1>1, <1>2
  <2>4. processes'[pid].lineage = new.lineage
    BY <1>1, <1>2
  <2>5. /\ new.pid = pid /\ new.born = now /\ new.start = now
        /\ [pid |-> pid, born |-> now] \in new.lineage
    OBVIOUS
  <2> HIDE DEF new
  <2>6. QED
    BY <1>2, <2>2, <2>3, <2>4, <2>5 DEF GoodItems, GoodItem, Id
<1>8. Inherits(Listed \cup {new})
  <2>1. ASSUME NEW i \in Listed, new.parent = i.pid
        PROVE  i.lineage \subseteq new.lineage
    BY <2>1 DEF Listed, ItemOf
  <2>2. ASSUME NEW j \in Listed
        PROVE  ~(new.born < j.born)
    <3>1. j \in GoodItems
      BY <2>2 DEF KernelInv
    <3>2. j.pid \in Pids /\ j.born \in Nat /\ j.born <= lastBorn[j.pid]
      BY <3>1 DEF GoodItems, GoodItem, Items
    <3>3. lastBorn[j.pid] <= clock /\ lastBorn[j.pid] \in Nat
      BY <1>2, <3>2 DEF KernelInv
    <3>4. QED
      BY <1>2, <3>2, <3>3
  <2>3. ~(new.born < new.born)
    BY <1>2
  <2> HIDE DEF new
  <2>4. QED
    BY <2>1, <2>2 DEF Inherits, KernelInv
<1>9. QED
  <2> HIDE DEF new
  <2>1. QED
    BY <1>4, <1>5, <1>6, <1>7, <1>8 DEF KernelInv

LEMMA ExitKernel ==
  ASSUME TypeInv, KernelInv, NEW pid, processes' = [processes EXCEPT ![pid] = None],
         UNCHANGED <<clock, lastBorn>>
  PROVE  KernelInv' /\ GoodItems \subseteq GoodItems'
<1>1. \A q \in Pids : processes'[q] # None =>
        processes'[q] = processes[q] /\ ItemOf(q)' = ItemOf(q)
  BY DEF TypeInv, TypeOK, ItemOf
<1>2. Listed' \subseteq Listed
  BY <1>1 DEF Listed
<1>3. GoodItems \subseteq GoodItems'
  BY DEF GoodItems, GoodItem, Running
<1>4. QED
  BY <1>2, <1>3 DEF KernelInv, Inherits

LEMMA KernelStep ==
  ASSUME TypeInv, KernelInv, [Next]_vars
  PROVE  KernelInv' /\ GoodItems \subseteq GoodItems'
<1>1. CASE UNCHANGED kernelVars
  BY <1>1 DEF kernelVars, KernelInv, Listed, ItemOf, GoodItems, GoodItem, Running
<1>2. QED
  BY <1>1, KernelChange, SpawnKernel, ExitKernel

LEMMA SeqMonotone ==
  ASSUME NEW S, NEW T, S \subseteq T, NEW s \in Seq(S)
  PROVE  s \in Seq(T)
OBVIOUS

\* The code's parent is an ancestor: the code compares start times, and those
\* of good items are births.
LEMMA ChildBelow ==
  ASSUME CommandInv, NEW item \in allProcesses, NEW child \in Children(item, allProcesses)
  PROVE  child \in GoodItems /\ item.lineage \subseteq child.lineage
<1>1. /\ child \in allProcesses
      /\ item.pid = child.parent /\ item.start # Unknown /\ child.start # Unknown
      /\ item.start < child.start
  BY DEF Children, IsParent, IsValidParentRelationship
<1>2. item.start = item.born /\ child.start = child.born
  BY <1>1 DEF CommandInv, GoodItems, GoodItem
<1>3. QED
  BY <1>1, <1>2 DEF CommandInv, Inherits

\* The process that OpenVerifiedProcess finds is the item's.
LEMMA VerifiedIsItem ==
  ASSUME NEW item \in GoodItems, Verified(item)
  PROVE  /\ Id(ItemOf(item.pid)) = Id(item)
         /\ ItemOf(item.pid).lineage = item.lineage
<1>1. item.start = item.born /\ Running(item)
  BY DEF GoodItems, GoodItem, Verified, Running
<1>2. QED
  BY <1>1 DEF GoodItems, GoodItem, Running, ItemOf, Id

LEMMA CommandStep ==
  ASSUME IInv, [Next]_vars
  PROVE  CommandInv'
<1> USE DEF IInv
<1>1. KernelInv' /\ GoodItems \subseteq GoodItems'
  BY KernelStep
<1>2. /\ Listed \subseteq GoodItems' /\ Inherits(Listed) /\ Inherits({})
      /\ allProcesses \subseteq GoodItems' /\ chosen \subseteq GoodItems'
  BY <1>1 DEF KernelInv, CommandInv, Inherits
<1>3. chosen' = chosen => GoodEntries \subseteq GoodEntries'
  BY <1>1 DEF GoodEntries
<1>4. chosen' = chosen => pending \in Seq(GoodEntries')
  BY <1>3, SeqMonotone DEF CommandInv
<1>5. NoCommand => /\ chosen' \subseteq GoodItems' /\ pending' \in Seq(GoodEntries')
                   /\ pending' = <<>> /\ touched' = {} /\ OnlyChosenTouched'
  BY DEF NoCommand, OnlyChosenTouched
<1>6. <<>> \in Seq(GoodEntries')
  OBVIOUS
<1>7. CASE Kernel
  <2>1. UNCHANGED <<allProcesses, commandVars>>
    BY <1>7 DEF Kernel, Exit, Spawn
  <2>2. QED
    BY <1>2, <1>4, <2>1 DEF CommandInv, commandVars, OnlyChosenTouched
<1>8. CASE Refresh
  <2>1. allProcesses' \subseteq GoodItems' /\ Inherits(allProcesses')
    BY <1>2, <1>8 DEF Refresh
  <2>2. QED
    BY <1>2, <1>8, <2>1 DEF Refresh, CommandInv, commandVars, OnlyChosenTouched
<1>9. CASE Choose
  <2>1. chosen' \subseteq GoodItems'
    BY <1>2, <1>9 DEF Choose
  <2>2. pending' = <<>> /\ touched' = {}
    BY <1>9 DEF Choose, CommandInv
  <2>3. QED
    BY <1>2, <1>9 DEF Choose, CommandInv, OnlyChosenTouched
<1>10. CASE Decline
  BY <1>2, <1>5, <1>10 DEF Decline, CommandInv
<1>11. CASE Confirm
  BY <1>2, <1>11 DEF Confirm, CommandInv, OnlyChosenTouched
<1>12. CASE NextProcess
  <2>1. PICK item \in left :
          \/ command = "process" /\ TerminateProcess(item)
          \/ command = "priority" /\ SetPriority(item)
    BY <1>12 DEF NextProcess
  <2>2. item \in chosen /\ item \in GoodItems
    BY DEF TypeInv, TypeOK, CommandInv
  <2>3. touched' = {} \/ (Verified(item) /\ touched' = {ItemOf(item.pid)})
        \/ touched' = touched
    BY <2>1 DEF TerminateProcess, SetPriority
  <2>4. OnlyChosenTouched'
    BY <1>12, <2>2, <2>3, VerifiedIsItem DEF NextProcess, OnlyChosenTouched, CommandInv
  <2>5. QED
    BY <1>2, <1>12, <2>4 DEF NextProcess, CommandInv
<1>13. CASE NextTree
  <2>1. PICK item \in left : pending' = <<[item |-> item, queued |-> FALSE]>>
    BY <1>13 DEF NextTree
  <2>2. item \in chosen /\ item \in GoodItems' /\ item \in Items /\ Id(item) \in item.lineage
    BY <1>2 DEF TypeInv, TypeOK, GoodItems, GoodItem
  <2>3. [item |-> item, queued |-> FALSE] \in GoodEntries'
    BY <1>13, <2>2 DEF NextTree, GoodEntries, Entries
  <2>4. pending' \in Seq(GoodEntries')
    BY <2>1, <2>3
  <2>5. QED
    BY <1>2, <1>13, <2>4 DEF NextTree, CommandInv, OnlyChosenTouched
<1>14. CASE Visit
  <2> DEFINE children == ListedChildren(Top.item)
             top == [item |-> Top.item, queued |-> TRUE]
  <2>1. pending \in Seq(GoodEntries') /\ pending # <<>> /\ Len(pending) \in Nat \ {0}
    BY <1>4, <1>14 DEF Visit
  <2>2. Top \in GoodEntries' /\ Rest \in Seq(GoodEntries')
    BY <2>1 DEF Top, Rest
  <2>3. chosen' = chosen
    BY <1>14 DEF Visit
  <2>4. PICK c \in chosen : Id(c) \in Top.item.lineage
    BY <2>2, <2>3 DEF GoodEntries
  <2>5. top \in GoodEntries'
    <3>1. Top \in Entries /\ Top.item \in GoodItems'
      BY <2>2 DEF GoodEntries
    <3>2. top \in Entries /\ top.item = Top.item
      BY <3>1 DEF Entries
    <3> HIDE DEF top
    <3>3. QED
      BY <2>3, <2>4, <3>1, <3>2 DEF GoodEntries
  <2>6. children \in SUBSET allProcesses /\ IsFiniteSet(children)
    BY ChildrenListed, FS_Subset DEF ListedChildren, TypeInv
  <2>7. Unqueued(children) \subseteq GoodEntries'
    <3> SUFFICES ASSUME NEW e \in Unqueued(children) PROVE e \in GoodEntries'
      OBVIOUS
    <3>1. PICK i \in children : e = [item |-> i, queued |-> FALSE]
      BY DEF Unqueued
    <3>2. i \in GoodItems /\ Top.item.lineage \subseteq i.lineage
      BY ChildBelow DEF ListedChildren
    <3>3. i \in Items /\ i \in GoodItems'
      BY <1>1, <3>2 DEF GoodItems
    <3> HIDE DEF children
    <3>4. e \in Entries /\ e.item = i
      BY <3>1, <3>3 DEF Entries
    <3>5. QED
      BY <2>3, <2>4, <3>2, <3>3, <3>4 DEF GoodEntries
  <2>8. pending' \in Seq(GoodEntries')
    <3>1. CASE Top.item.pid \in visited
      BY <1>14, <2>2, <3>1 DEF Visit
    <3>2. CASE Top.item.pid \notin visited
      <4>1. PICK order \in [1..Cardinality(children) -> Unqueued(children)] :
              pending' = Rest \o <<top>> \o order
        BY <1>14, <3>2 DEF Visit
      <4> HIDE DEF children
      <4>2. QED
        BY <2>1, <2>5, <2>6, <2>7, <4>1, StackType
    <3>3. QED
      BY <3>1, <3>2
  <2>9. pc = "run" /\ command = "tree"
    BY <1>14 DEF Visit, CommandInv
  <2>10. QED
    BY <1>2, <1>14, <2>8 DEF Visit, CommandInv, OnlyChosenTouched
<1>15. CASE EndTop
  <2>1. pending \in Seq(GoodEntries) /\ pending \in Seq(GoodEntries')
        /\ Len(pending) \in Nat \ {0}
    BY <1>4, <1>15 DEF EndTop, CommandInv
  <2>2. Top \in GoodEntries /\ Rest \in Seq(GoodEntries')
    BY <2>1 DEF Top, Rest
  <2>3. Top.item \in GoodItems /\ \E c \in chosen : Id(c) \in Top.item.lineage
    BY <2>2 DEF GoodEntries
  <2>4. pc = "run" /\ command = "tree"
    BY <1>15 DEF EndTop, CommandInv
  <2>5. touched' = {} \/ (Verified(Top.item) /\ touched' = {ItemOf(Top.item.pid)})
    BY <1>15 DEF EndTop, TerminateProcess
  <2>6. OnlyChosenTouched'
    BY <1>15, <2>3, <2>4, <2>5, VerifiedIsItem DEF EndTop, OnlyChosenTouched
  <2>7. QED
    BY <1>2, <1>15, <2>2, <2>6 DEF EndTop, CommandInv
<1>16. CASE Report
  <2>1. allProcesses' \subseteq GoodItems' /\ Inherits(allProcesses')
    BY <1>2, <1>16 DEF Report, CommandInv
  <2>2. QED
    BY <1>5, <1>16, <2>1 DEF Report, CommandInv
<1>17. CASE UNCHANGED vars
  BY <1>2, <1>4, <1>17 DEF vars, commandVars, CommandInv, OnlyChosenTouched
<1>18. QED
  BY <1>7, <1>8, <1>9, <1>10, <1>11, <1>12, <1>13, <1>14, <1>15, <1>16, <1>17 DEF Next

LEMMA InitIInv == Init => IInv
<1> SUFFICES ASSUME Init PROVE IInv
  OBVIOUS
<1>1. TypeInv
  BY TypeInit
<1>2. PICK pid \in Pids, parent \in Pids, start \in {0, Unknown} :
        processes = [q \in Pids |->
          IF q = pid THEN [born |-> 0, start |-> start, parent |-> parent,
                           lineage |-> {[pid |-> pid, born |-> 0]}]
                     ELSE None]
  BY DEF Init
<1>3. \A i \in Listed : i.pid = pid /\ i.born = 0 /\ i.start = start
                        /\ i.lineage = {[pid |-> pid, born |-> 0]}
                        /\ processes[i.pid].lineage = i.lineage
  BY <1>2 DEF Listed, ItemOf
<1>4. Listed \subseteq Items
  BY <1>1, ListedType DEF TypeInv, TypeOK
<1>5. \A q \in Pids : lastBorn[q] = 0 /\ clock = 0
  BY DEF Init
<1>6. KernelInv
  BY <1>3, <1>4, <1>5 DEF KernelInv, GoodItems, GoodItem, Inherits, Id
<1>7. CommandInv
  <2>1. <<>> \in Seq(GoodEntries)
    OBVIOUS
  <2>2. QED
    BY DEF Init, CommandInv, Inherits, OnlyChosenTouched
<1>8. QED
  BY <1>1, <1>6, <1>7 DEF IInv

\* However old the list and whatever became of the PIDs: a command reaches
\* only chosen processes and, for a tree, their descendants.
THEOREM OnlyChosen == Spec => []OnlyChosenTouched
<1>1. IInv /\ [Next]_vars => IInv'
  BY TypeStep, KernelStep, CommandStep DEF IInv
<1>2. IInv => OnlyChosenTouched
  BY DEF IInv, CommandInv
<1>3. QED
  BY InitIInv, <1>1, <1>2, PTL DEF Spec

-----------------------------------------------------------------------------
(* The tree view.  Every list has a process on a PID at most; a parent has *)
(* started earlier than its child, so that going up from any process ends  *)
(* at a root.                                                              *)

UniquePids == \A i, j \in allProcesses : i.pid = j.pid => i = j

LEMMA ListedUnique == \A i, j \in Listed : i.pid = j.pid => i = j
BY DEF Listed, ItemOf

LEMMA UniqueStep == UniquePids /\ [Next]_vars => UniquePids'
<1> SUFFICES ASSUME UniquePids, [Next]_vars PROVE UniquePids'
  OBVIOUS
<1>1. allProcesses' \in {allProcesses, Listed, {}}
  <2>1. CASE Kernel
    BY <2>1 DEF Kernel, Exit, Spawn
  <2>2. CASE Refresh \/ Report
    BY <2>2 DEF Refresh, Report
  <2>3. CASE Choose \/ Decline \/ Confirm \/ NextProcess \/ NextTree \/ Visit \/ EndTop
    BY <2>3 DEF Choose, Decline, Confirm, NextProcess, NextTree, Visit, EndTop
  <2>4. QED
    BY <2>1, <2>2, <2>3 DEF Next, vars
<1>2. QED
  BY <1>1, ListedUnique DEF UniquePids

LEMMA BelowSomeRoot ==
  ASSUME NEW items \in SUBSET Items
  PROVE  UNION {Subtree(root, items) : root \in Roots(items)} = items
<1> DEFINE below == UNION {Subtree(root, items) : root \in Roots(items)}
           Lost == {i \in items : i \notin below}
           starts == {n \in Nat : \E i \in Lost : i.start = n}
<1>1. ASSUME NEW i \in items, NEW root \in Roots(items)
      PROVE  root \in Subtree(root, items)
  BY DEF Subtree, Roots
<1>2. ASSUME NEW parent \in items, NEW child \in items, IsParent(parent, child, items),
             parent \in below
      PROVE  child \in below
  <2>1. PICK root \in Roots(items) : parent \in Subtree(root, items)
    BY <1>2
  <2>2. child \in Children(parent, items)
    BY <1>2 DEF Children
  <2>3. child \in Subtree(root, items)
    BY <2>1, <2>2 DEF Subtree
  <2>4. QED
    BY <2>3
<1>3. ASSUME NEW i \in Lost
      PROVE  \E parent \in Lost : /\ parent.start \in Nat /\ i.start \in Nat
                                 /\ parent.start < i.start
  <2>1. i \notin Roots(items)
    BY <1>1
  <2>2. PICK parent \in items : IsParent(parent, i, items)
    BY <2>1 DEF Roots
  <2>3. /\ parent.start # Unknown /\ i.start # Unknown /\ parent.start < i.start
        /\ parent.start \in Nat \cup {Unknown} /\ i.start \in Nat \cup {Unknown}
    BY <2>2 DEF IsParent, IsValidParentRelationship, Items
  <2>4. parent \in Lost
    BY <1>2, <2>2
  <2>5. QED
    BY <2>3, <2>4
<1>4. Lost = {}
  <2> SUFFICES ASSUME Lost # {} PROVE FALSE
    OBVIOUS
  <2>1. starts # {} /\ starts \subseteq Nat
    BY <1>3
  <2>2. PICK n \in starts : \A m \in starts : ~(<<m, n>> \in OpToRel(<, Nat))
    <3> HIDE DEF starts
    <3>1. QED
      BY <2>1, WFMin, NatLessThanWellFounded
  <2>3. PICK i \in Lost : i.start = n /\ n \in Nat
    OBVIOUS
  <2>4. PICK parent \in Lost : parent.start \in Nat /\ parent.start < n
    BY <1>3, <2>3
  <2>5. parent.start \in starts /\ <<parent.start, n>> \in OpToRel(<, Nat)
    BY <2>3, <2>4 DEF OpToRel
  <2>6. QED
    BY <2>2, <2>5
<1>5. below \subseteq items
  BY DEF Subtree
<1>6. QED
  BY <1>4, <1>5

\* BuildProcessTree puts every process of the list into the view once, however
\* long the chains of creators and whatever circles they run in.
THEOREM EveryProcessShown == Spec => []EveryProcessShownOnce
<1>1. TypeOK /\ UniquePids => EveryProcessShownOnce
  <2> SUFFICES ASSUME TypeOK, UniquePids PROVE EveryProcessShownOnce
    OBVIOUS
  <2>1. ASSUME NEW item \in allProcesses
        PROVE  Cardinality({parent \in allProcesses : IsParent(parent, item, allProcesses)}) <= 1
    <3> DEFINE parents == {parent \in allProcesses : IsParent(parent, item, allProcesses)}
    <3>1. \A p, q \in parents : p = q
      BY DEF IsParent, UniquePids
    <3>2. CASE parents = {}
      BY <3>2, FS_EmptySet
    <3>3. CASE parents # {}
      <4>1. PICK p : parents = {p}
        BY <3>1, <3>3
      <4>2. Cardinality(parents) = 1
        BY <4>1, FS_Singleton, Zenon
      <4>3. QED
        BY <4>2
    <3>4. QED
      BY <3>2, <3>3
  <2>2. allProcesses \in SUBSET Items
    BY DEF TypeOK
  <2>3. QED
    BY <2>1, <2>2, BelowSomeRoot DEF EveryProcessShownOnce, ShownOnce
<1>2. Init => UniquePids
  BY DEF Init, UniquePids
<1>3. QED
  BY <1>1, <1>2, UniqueStep, TypeCorrect, PTL DEF Spec

-----------------------------------------------------------------------------
(* Success means gone.  An item that has been seen to be gone stays gone.  *)
(* What the traversal has visited is closed under children but for those   *)
(* still on the stack, and gone but for those that wait on the stack for   *)
(* their turn, so that nothing is left of the tree when the stack is empty.*)

On(s) == {s[k] : k \in 1..Len(s)}

\* Items that are on the stack to be visited, or visited and to be ended.
ToVisit(item) == [item |-> item, queued |-> FALSE] \in On(pending)
ToEnd(item)   == [item |-> item, queued |-> TRUE] \in On(pending)

\* The chosen item of the call, and the items the call may come to.
Root  == pending[1].item
Reach == IF Root \in allProcesses THEN allProcesses ELSE {Root}

Shape ==
  /\ pc # "run" => left = chosen /\ ~failed
  /\ pending = <<>> => visited = {}
  /\ pending # <<>> =>
       /\ Root \in chosen \ left
       /\ pending[1].queued \/ (Len(pending) = 1 /\ visited = {})
       /\ \A e \in On(pending) : /\ e.item \in Reach
                                 /\ e.queued => e.item.pid \in visited

Settled(item) ==
  /\ ~Running(item) \/ ToEnd(item)
  /\ \A child \in ListedChildren(item) : child.pid \in visited \/ ToVisit(child)

Traversed ==
  pending # <<>> /\ ~failed =>
    \A item \in Reach : item.pid \in visited => Settled(item)

Ended ==
  ~failed /\ command # "priority" =>
    \A c \in chosen \ left :
      \/ pending # <<>> /\ c = Root
      \/ \A item \in Doomed(c) : ~Running(item)

SuccessInv == UniquePids /\ Shape /\ Traversed /\ Ended

LEMMA OnConcat ==
  ASSUME NEW T, NEW s \in Seq(T), NEW t \in Seq(T)
  PROVE  /\ On(s \o t) = On(s) \cup On(t)
         /\ s # <<>> => (s \o t)[1] = s[1]
         /\ s = <<>> => s \o t = t
<1>1. /\ Len(s) \in Nat /\ Len(t) \in Nat /\ Len(s \o t) = Len(s) + Len(t)
      /\ \A k \in 1..Len(s) : (s \o t)[k] = s[k]
      /\ \A k \in 1..Len(t) : (s \o t)[Len(s) + k] = t[k]
  OBVIOUS
<1>2. \A k \in 1..Len(s \o t) : \/ k \in 1..Len(s) /\ (s \o t)[k] = s[k]
                                \/ k - Len(s) \in 1..Len(t) /\ (s \o t)[k] = t[k - Len(s)]
  BY <1>1
<1>3. /\ \A k \in 1..Len(s) : k \in 1..Len(s \o t)
      /\ \A k \in 1..Len(t) : Len(s) + k \in 1..Len(s \o t)
  BY <1>1
<1>4. On(s \o t) \subseteq On(s) \cup On(t)
  BY <1>2 DEF On
<1>5. On(s) \subseteq On(s \o t)
  BY <1>1, <1>3 DEF On
<1>6. On(t) \subseteq On(s \o t)
  BY <1>1, <1>3 DEF On
<1>7. QED
  BY <1>4, <1>5, <1>6

LEMMA OnOne ==
  ASSUME NEW e
  PROVE  <<e>> # <<>> /\ Len(<<e>>) = 1 /\ <<e>>[1] = e /\ On(<<e>>) = {e}
<1>1. Len(<<e>>) = 1 /\ <<e>>[1] = e
  OBVIOUS
<1>2. On(<<e>>) = {e}
  BY <1>1 DEF On
<1>3. QED
  BY <1>1, <1>2

LEMMA TopAndRest ==
  ASSUME NEW T, pending \in Seq(T), pending # <<>>
  PROVE  /\ Top \in T /\ Top \in On(pending) /\ Rest \in Seq(T)
         /\ On(pending) = On(Rest) \cup {Top}
         /\ IF Len(pending) = 1 THEN Rest = <<>> /\ Top = pending[1]
                                ELSE Rest # <<>> /\ Rest[1] = pending[1]
<1>1. Len(pending) \in Nat \ {0}
  OBVIOUS
<1>2. /\ Rest \in Seq(T) /\ Len(Rest) = Len(pending) - 1
      /\ \A k \in 1..Len(pending) - 1 : Rest[k] = pending[k]
  <2> DEFINE n == Len(pending) - 1
  <2>1. n \in Nat /\ n <= Len(pending)
    BY <1>1
  <2>2. Rest = [k \in 1..n |-> pending[k]]
    <3>1. Rest = SubSeq(pending, 1, n)
      BY DEF Rest
    <3>2. DOMAIN SubSeq(pending, 1, n) = 1..n
          /\ \A k \in 1..n : SubSeq(pending, 1, n)[k] = pending[k]
      BY <2>1
    <3>3. QED
      BY <2>1, <3>1, <3>2
  <2>3. \A k \in 1..n : pending[k] \in T
    BY <2>1
  <2> HIDE DEF n
  <2>4. Rest \in Seq(T) /\ Len(Rest) = n
    BY <2>1, <2>2, <2>3
  <2>5. QED
    BY <2>2, <2>4 DEF n
<1>3. Top = pending[Len(pending)] /\ Top \in T
  BY <1>1 DEF Top
<1>4. 1..Len(pending) = 1..Len(Rest) \cup {Len(pending)}
  BY <1>1, <1>2
<1>5. On(pending) = On(Rest) \cup {Top}
  <2>1. On(pending) = {pending[k] : k \in 1..Len(Rest)} \cup {pending[Len(pending)]}
    BY <1>4 DEF On
  <2>2. {pending[k] : k \in 1..Len(Rest)} = On(Rest)
    BY <1>2 DEF On
  <2>3. QED
    BY <1>3, <2>1, <2>2
<1>6. CASE Len(pending) = 1
  BY <1>2, <1>3, <1>5, <1>6
<1>7. CASE Len(pending) # 1
  <2>1. Len(Rest) # 0 /\ 1 \in 1..Len(pending) - 1
    BY <1>1, <1>2, <1>7
  <2>2. QED
    BY <1>2, <1>3, <1>5, <1>7, <2>1
<1>8. QED
  BY <1>6, <1>7

\* A process that is gone does not come back, and another one on its PID is another.
LEMMA StaysGone ==
  ASSUME IInv, [Next]_vars, NEW item \in GoodItems, ~Running(item)
  PROVE  ~Running(item)'
<1>1. item.pid \in Pids /\ item.born \in Nat /\ item.born <= lastBorn[item.pid]
  BY DEF GoodItems, GoodItem, Items
<1>2. processes \in [Pids -> Processes \cup {None}] /\ lastBorn \in [Pids -> Nat] /\ clock \in Nat
  BY DEF IInv, TypeInv, TypeOK
<1>3. CASE UNCHANGED kernelVars
  BY <1>3 DEF kernelVars, Running
<1>4. ASSUME NEW pid \in Pids, NEW creator \in Pids, Spawn(pid, creator)
      PROVE  ~Running(item)'
  <2>1. PICK now \in {clock, clock + 1} :
          /\ now > lastBorn[pid]
          /\ processes' = [processes EXCEPT ![pid] =
               [born |-> now, start |-> now, parent |-> creator,
                lineage |-> processes[creator].lineage \cup {[pid |-> pid, born |-> now]}]]
    BY <1>4 DEF Spawn
  <2>2. CASE item.pid = pid
    <3>1. processes'[item.pid].born = now /\ now # item.born
      BY <1>1, <1>2, <2>1, <2>2
    <3>2. QED
      BY <3>1 DEF Running
  <2>3. CASE item.pid # pid
    BY <2>1, <2>3 DEF Running
  <2>4. QED
    BY <2>2, <2>3
<1>5. ASSUME NEW pid, processes' = [processes EXCEPT ![pid] = None]
      PROVE  ~Running(item)'
  BY <1>1, <1>2, <1>5 DEF Running
<1>6. QED
  BY <1>3, <1>4, <1>5, KernelChange

\* TerminateProcess fails or leaves nothing of the item.
LEMMA EndedOrFailed ==
  ASSUME IInv, NEW item \in Items, TerminateProcess(item), ~failed'
  PROVE  ~failed /\ ~Running(item)'
<1>1. failed \in BOOLEAN /\ processes \in [Pids -> Processes \cup {None}] /\ item.pid \in Pids
  BY DEF IInv, TypeInv, TypeOK, Items
<1>2. failed' = failed /\ processes' = [processes EXCEPT ![item.pid] = None]
  BY DEF TerminateProcess
<1>3. QED
  BY <1>1, <1>2 DEF Running

LEMMA DoomedGood ==
  ASSUME IInv, NEW c \in chosen
  PROVE  Doomed(c) \subseteq GoodItems
BY DEF IInv, CommandInv, Doomed, Subtree

LEMMA EndedStays ==
  ASSUME IInv, [Next]_vars, NEW c \in chosen, UNCHANGED <<command, allProcesses>>,
         \A item \in Doomed(c) : ~Running(item)
  PROVE  \A item \in Doomed(c)' : ~Running(item)'
<1>1. Doomed(c)' = Doomed(c)
  BY DEF Doomed
<1>2. QED
  BY <1>1, DoomedGood, StaysGone

LEMMA ReachGood ==
  ASSUME IInv, Shape, pending # <<>>
  PROVE  Reach \subseteq GoodItems /\ Reach \subseteq Items
BY DEF IInv, CommandInv, Shape, Reach, GoodItems

\* A command that is about to start, or none.
LEMMA Fresh ==
  ASSUME UniquePids', left' = chosen', ~failed', pending' = <<>>, visited' = {}
  PROVE  SuccessInv'
BY DEF SuccessInv, Shape, Traversed, Ended

LEMMA KernelKeeps ==
  ASSUME IInv, SuccessInv, [Next]_vars, UniquePids',
         UNCHANGED <<allProcesses, pc, command, chosen, left, pending, visited, failed>>
  PROVE  SuccessInv'
<1>1. Shape'
  BY DEF SuccessInv, Shape, On, Root, Reach
<1>2. Traversed'
  <2>1. ASSUME pending # <<>>, NEW item \in Reach, Settled(item)
        PROVE  Settled(item)'
    <3>1. item \in GoodItems
      BY <2>1, ReachGood DEF SuccessInv
    <3>2. ~Running(item) => ~Running(item)'
      BY <3>1, StaysGone
    <3>3. ToEnd(item)' <=> ToEnd(item)
      BY DEF ToEnd, On
    <3>4. \A child : ToVisit(child)' <=> ToVisit(child)
      BY DEF ToVisit, On
    <3>5. ListedChildren(item)' = ListedChildren(item)
      BY DEF ListedChildren
    <3>6. QED
      BY <2>1, <3>2, <3>3, <3>4, <3>5 DEF Settled
  <2>2. Reach' = Reach
    BY DEF Reach, Root
  <2>3. QED
    BY <2>1, <2>2 DEF SuccessInv, Traversed
<1>3. Ended'
  <2> SUFFICES ASSUME ~failed, command # "priority", NEW c \in chosen \ left,
                      ~(pending # <<>> /\ c = Root)
               PROVE  \A item \in Doomed(c)' : ~Running(item)'
    BY DEF Ended, Root
  <2>1. \A item \in Doomed(c) : ~Running(item)
    BY DEF SuccessInv, Ended
  <2>2. QED
    BY <2>1, EndedStays
<1>4. QED
  BY <1>1, <1>2, <1>3 DEF SuccessInv

LEMMA NextProcessKeeps ==
  ASSUME IInv, SuccessInv, [Next]_vars, UniquePids', NextProcess
  PROVE  SuccessInv'
<1>1. PICK item \in left :
        /\ left' = left \ {item}
        /\ \/ command = "process" /\ TerminateProcess(item)
           \/ command = "priority" /\ SetPriority(item)
  BY DEF NextProcess
<1>2. pending = <<>> /\ pending' = <<>> /\ command' = command /\ command # "tree"
      /\ pc' = "run" /\ visited' = {} /\ chosen' = chosen /\ allProcesses' = allProcesses
  BY <1>1 DEF NextProcess, IInv, CommandInv, SuccessInv, Shape
<1>3. item \in Items
  BY DEF IInv, TypeInv, TypeOK
<1>4. Shape' /\ Traversed'
  BY <1>2 DEF Shape, Traversed
<1>5. Ended'
  <2> SUFFICES ASSUME ~failed', command' # "priority", NEW c \in chosen' \ left'
               PROVE  \A i \in Doomed(c)' : ~Running(i)'
    BY DEF Ended
  <2>1. ~failed /\ ~Running(item)' /\ command = "process"
    BY <1>1, <1>2, <1>3, EndedOrFailed
  <2>2. CASE c = item
    BY <1>2, <2>1, <2>2 DEF Doomed
  <2>3. CASE c \in chosen \ left
    <3>1. \A i \in Doomed(c) : ~Running(i)
      BY <1>2, <2>1, <2>3 DEF SuccessInv, Ended
    <3>2. QED
      BY <1>2, <2>3, <3>1, EndedStays
  <2>4. QED
    BY <1>1, <1>2, <2>2, <2>3
<1>6. QED
  BY <1>4, <1>5 DEF SuccessInv

LEMMA NextTreeKeeps ==
  ASSUME IInv, SuccessInv, [Next]_vars, UniquePids', NextTree
  PROVE  SuccessInv'
<1>1. PICK item \in left :
        left' = left \ {item} /\ pending' = <<[item |-> item, queued |-> FALSE]>>
  BY DEF NextTree
<1>2. /\ pending = <<>> /\ visited = {} /\ visited' = {} /\ pc' = "run"
      /\ UNCHANGED <<chosen, command, allProcesses, failed>>
  BY DEF NextTree, SuccessInv, Shape
<1>3. item \in chosen
  BY DEF IInv, TypeInv, TypeOK
<1>4. /\ pending' # <<>> /\ Len(pending') = 1
      /\ pending'[1] = [item |-> item, queued |-> FALSE]
      /\ On(pending') = {[item |-> item, queued |-> FALSE]}
  BY <1>1, OnOne
<1>5. Root' = item /\ item \in Reach'
  BY <1>4 DEF Root, Reach
<1>6. Shape'
  <2>1. \A e \in On(pending') : e.item = item /\ ~e.queued
    BY <1>4
  <2>2. Root' \in chosen' \ left'
    BY <1>1, <1>2, <1>3, <1>5
  <2>3. QED
    BY <1>2, <1>4, <1>5, <2>1, <2>2 DEF Shape
<1>7. Traversed'
  BY <1>2 DEF Traversed
<1>8. Ended'
  <2> SUFFICES ASSUME ~failed', command' # "priority", NEW c \in chosen' \ left', c # item
               PROVE  \A i \in Doomed(c)' : ~Running(i)'
    BY <1>4, <1>5 DEF Ended
  <2>1. c \in chosen \ left
    BY <1>1, <1>2
  <2>2. \A i \in Doomed(c) : ~Running(i)
    BY <1>2, <2>1 DEF SuccessInv, Ended
  <2>3. QED
    BY <1>2, <2>1, <2>2, EndedStays
<1>9. QED
  BY <1>6, <1>7, <1>8 DEF SuccessInv

LEMMA UnqueuedMeans ==
  ASSUME NEW items, NEW item
  PROVE  [item |-> item, queued |-> FALSE] \in Unqueued(items) <=> item \in items
<1>1. ASSUME NEW i, [item |-> item, queued |-> FALSE] = [item |-> i, queued |-> FALSE]
      PROVE  item = i
  <2>1. [item |-> item, queued |-> FALSE].item = [item |-> i, queued |-> FALSE].item
    BY <1>1
  <2>2. QED
    BY <2>1
<1>2. QED
  BY <1>1 DEF Unqueued

LEMMA EntriesDiffer ==
  ASSUME NEW i, NEW j
  PROVE  /\ [item |-> i, queued |-> TRUE] # [item |-> j, queued |-> FALSE]
         /\ [item |-> i, queued |-> TRUE].queued /\ ~[item |-> j, queued |-> FALSE].queued
         /\ [item |-> i, queued |-> TRUE].item = i /\ [item |-> j, queued |-> FALSE].item = j
OBVIOUS

LEMMA OnPushed ==
  ASSUME NEW T, NEW s \in Seq(T), NEW e \in T, NEW t \in Seq(T)
  PROVE  /\ On(s \o <<e>> \o t) = On(s) \cup {e} \cup On(t)
         /\ s \o <<e>> \o t # <<>>
         /\ (s \o <<e>> \o t)[1] = IF s = <<>> THEN e ELSE s[1]
<1> DEFINE one == <<e>>
<1>1. one \in Seq(T) /\ one # <<>> /\ one[1] = e
  OBVIOUS
<1>2. On(one) = {e}
  BY OnOne
<1> HIDE DEF one
<1> DEFINE lower == s \o one
<1>3. lower \in Seq(T) /\ lower # <<>>
  BY <1>1
<1>4. On(lower) = On(s) \cup {e} /\ lower[1] = IF s = <<>> THEN e ELSE s[1]
  BY <1>1, <1>2, OnConcat
<1> HIDE DEF lower
<1>5. On(lower \o t) = On(lower) \cup On(t) /\ (lower \o t)[1] = lower[1]
  BY <1>3, OnConcat
<1>6. lower \o t # <<>>
  BY <1>3
<1>7. QED
  BY <1>4, <1>5, <1>6 DEF lower, one

\* What Visit leaves on the stack of an item it sees for the first time.
LEMMA VisitedStack ==
  ASSUME IInv, pending # <<>>, NEW children \in SUBSET Items, IsFiniteSet(children),
         NEW order \in [1..Cardinality(children) -> Unqueued(children)],
         \A c \in Unqueued(children) : \E i \in DOMAIN order : order[i] = c,
         pending' = Rest \o <<[item |-> Top.item, queued |-> TRUE]>> \o order
  PROVE  /\ On(pending') = On(Rest) \cup {[item |-> Top.item, queued |-> TRUE]}
                             \cup Unqueued(children)
         /\ pending' # <<>>
         /\ pending'[1] = IF Len(pending) = 1 THEN [item |-> Top.item, queued |-> TRUE]
                                            ELSE pending[1]
<1> DEFINE top == [item |-> Top.item, queued |-> TRUE]
<1>1. pending \in Seq(Entries)
  BY DEF IInv, TypeInv, TypeOK, Entries
<1>2. Rest \in Seq(Entries) /\ Top \in Entries
      /\ IF Len(pending) = 1 THEN Rest = <<>> ELSE Rest # <<>> /\ Rest[1] = pending[1]
  BY <1>1, TopAndRest
<1>4. Cardinality(children) \in Nat /\ Unqueued(children) \subseteq Entries
  BY FS_CardinalityType, UnqueuedEntries DEF Entries
<1>5. order \in Seq(Entries) /\ On(order) = Unqueued(children)
  <2>1. order \in [1..Cardinality(children) -> Entries]
    BY <1>4
  <2>2. order \in Seq(Entries) /\ Len(order) = Cardinality(children)
    BY <1>4, <2>1
  <2>3. QED
    BY <2>2 DEF On
<1>7. PICK rest \in Seq(Entries) : rest = Rest
  BY <1>2
<1>8. pending' = rest \o <<top>> \o order
  BY <1>7
<1>9. top \in Entries
  BY <1>2 DEF Entries
<1> HIDE DEF top
<1>10. /\ On(pending') = On(rest) \cup {top} \cup On(order)
       /\ pending' # <<>>
       /\ pending'[1] = IF rest = <<>> THEN top ELSE rest[1]
  <2>1. PICK e \in Entries : e = top
    BY <1>9
  <2>2. /\ On(rest \o <<e>> \o order) = On(rest) \cup {e} \cup On(order)
        /\ rest \o <<e>> \o order # <<>>
        /\ (rest \o <<e>> \o order)[1] = IF rest = <<>> THEN e ELSE rest[1]
    BY <1>5, OnPushed
  <2>3. pending' = rest \o <<e>> \o order
    BY <1>8, <2>1
  <2>4. QED
    BY <2>1, <2>2, <2>3
<1>11. QED
  BY <1>2, <1>5, <1>7, <1>10 DEF top

LEMMA VisitKeeps ==
  ASSUME IInv, SuccessInv, [Next]_vars, UniquePids', Visit
  PROVE  SuccessInv'
<1> DEFINE children == ListedChildren(Top.item)
           top == [item |-> Top.item, queued |-> TRUE]
<1>1. /\ pending # <<>> /\ ~Top.queued /\ pc' = "run"
      /\ UNCHANGED <<kernelVars, allProcesses, command, chosen, left, failed>>
  BY DEF Visit
<1>2. /\ pending \in Seq(Entries) /\ Top \in Entries /\ Top \in On(pending)
      /\ On(pending) = On(Rest) \cup {Top}
      /\ IF Len(pending) = 1 THEN Rest = <<>> /\ Top = pending[1]
                             ELSE Rest # <<>> /\ Rest[1] = pending[1]
  <2>1. pending \in Seq(Entries)
    BY DEF IInv, TypeInv, TypeOK, Entries
  <2>2. QED
    BY <1>1, <2>1, TopAndRest
<1>3. Shape /\ Traversed /\ Ended
  BY DEF SuccessInv
<1>4. Top.item \in Reach
  BY <1>1, <1>2, <1>3 DEF Shape
<1>5. \A i : Running(i)' <=> Running(i)
  BY <1>1 DEF Running, kernelVars
<1>6. \A i : ListedChildren(i)' = ListedChildren(i)
  BY <1>1 DEF ListedChildren
<1>7. ASSUME Root' = Root, pending' # <<>> PROVE Ended' /\ Reach' = Reach
  <2>1. \A c : Doomed(c)' = Doomed(c)
    BY <1>1 DEF Doomed
  <2>2. Reach' = Reach
    BY <1>1, <1>7 DEF Reach
  <2>3. QED
    BY <1>1, <1>3, <1>5, <1>7, <2>1, <2>2 DEF Ended
<1>8. CASE Top.item.pid \in visited
  <2>1. pending' = Rest /\ visited' = visited
    BY <1>8 DEF Visit
  <2>2. Len(pending) # 1
    BY <1>1, <1>2, <1>3, <1>8 DEF Shape
  <2>3. pending' # <<>> /\ pending'[1] = pending[1] /\ Root' = Root /\ pending[1].queued
    BY <1>1, <1>2, <1>3, <2>1, <2>2 DEF Shape, Root
  <2>4. On(pending') \subseteq On(pending) /\ On(pending) = On(pending') \cup {Top}
    BY <1>2, <2>1
  <2>5. Ended' /\ Reach' = Reach
    BY <1>7, <2>3
  <2>6. Shape'
    BY <1>1, <1>3, <2>1, <2>3, <2>4, <2>5 DEF Shape
  <2>7. ASSUME NEW i, Settled(i) PROVE Settled(i)'
    <3>1. ToEnd(i) => ToEnd(i)'
      BY <1>1, <2>4, EntriesDiffer DEF ToEnd
    <3>2. \A j : ToVisit(j) => ToVisit(j)' \/ j.pid \in visited
      BY <1>8, <2>4, EntriesDiffer DEF ToVisit
    <3>3. QED
      BY <1>5, <1>6, <2>1, <2>7, <3>1, <3>2 DEF Settled
  <2>8. Traversed'
    BY <1>1, <1>3, <2>1, <2>5, <2>7 DEF Traversed
  <2>9. QED
    BY <2>5, <2>6, <2>8 DEF SuccessInv
<1>9. CASE Top.item.pid \notin visited
  <2>1. visited' = visited \cup {Top.item.pid}
    BY <1>9 DEF Visit
  <2>2. children \in SUBSET Items /\ IsFiniteSet(children)
    <3>1. children \in SUBSET allProcesses
      BY ChildrenListed DEF ListedChildren
    <3>2. QED
      BY <3>1, FS_Subset DEF IInv, TypeInv, TypeOK
  <2>3. /\ On(pending') = On(Rest) \cup {top} \cup Unqueued(children)
        /\ pending' # <<>>
        /\ pending'[1] = IF Len(pending) = 1 THEN top ELSE pending[1]
    <3>1. PICK order \in [1..Cardinality(children) -> Unqueued(children)] :
            /\ \A c \in Unqueued(children) : \E i \in DOMAIN order : order[i] = c
            /\ pending' = Rest \o <<top>> \o order
      BY <1>9 DEF Visit
    <3> HIDE DEF children
    <3>2. QED
      BY <1>1, <2>2, <3>1, VisitedStack
  <2>4. top.queued /\ top.item = Top.item
    OBVIOUS
  <2>5. Root' = Root /\ pending'[1].queued
    BY <1>1, <1>2, <1>3, <2>3, <2>4 DEF Root, Shape
  <2>6. Ended' /\ Reach' = Reach
    BY <1>7, <2>3, <2>5
  <2>7. Shape'
    <3>1. ASSUME NEW e \in On(pending')
          PROVE  e.item \in Reach /\ (e.queued => e.item.pid \in visited')
      <4>1. CASE e \in On(Rest)
        BY <1>1, <1>2, <1>3, <2>1, <4>1 DEF Shape
      <4>2. CASE e = top
        BY <1>4, <2>1, <2>4, <4>2
      <4>3. CASE e \in Unqueued(children)
        <5>1. PICK i \in children : e = [item |-> i, queued |-> FALSE]
          BY <4>3 DEF Unqueued
        <5>2. Top.item \in allProcesses /\ i \in allProcesses
          BY <5>1, ChildrenListed DEF ListedChildren
        <5>3. i \in Reach
          BY <1>4, <5>2 DEF Reach
        <5>4. QED
          BY <5>1, <5>3
      <4>4. QED
        BY <2>3, <4>1, <4>2, <4>3
    <3>2. Root' \in chosen' \ left'
      BY <1>1, <1>3, <2>5 DEF Shape
    <3>3. QED
      BY <1>1, <2>3, <2>5, <2>6, <3>1, <3>2 DEF Shape
  <2>8. ASSUME NEW i, Settled(i) PROVE Settled(i)'
    <3>1. ToEnd(i) => ToEnd(i)'
      BY <1>1, <1>2, <2>3, EntriesDiffer DEF ToEnd
    <3>2. \A j : ToVisit(j) => ToVisit(j)' \/ j.pid \in visited'
      BY <1>2, <2>1, <2>3, EntriesDiffer DEF ToVisit
    <3>3. QED
      BY <1>5, <1>6, <2>1, <2>8, <3>1, <3>2 DEF Settled
  <2>9. ASSUME NEW i, i = Top.item PROVE Settled(i)'
    <3>1. ToEnd(i)'
      BY <2>3, <2>9 DEF ToEnd
    <3>2. \A j \in children : ToVisit(j)'
      BY <2>3, UnqueuedMeans DEF ToVisit
    <3>3. ListedChildren(i)' = children
      BY <1>6, <2>9
    <3> HIDE DEF children
    <3>4. QED
      BY <3>1, <3>2, <3>3 DEF Settled
  <2>10. Traversed'
    <3> SUFFICES ASSUME ~failed, NEW i \in Reach, i.pid \in visited'
                 PROVE  Settled(i)'
      BY <1>1, <2>6 DEF Traversed
    <3>1. CASE i.pid \in visited
      BY <1>1, <1>3, <2>8, <3>1 DEF Traversed
    <3>2. CASE i.pid = Top.item.pid
      <4>1. i = Top.item
        BY <1>4, <3>2 DEF Reach, SuccessInv, UniquePids
      <4>2. QED
        BY <2>9, <4>1
    <3>3. QED
      BY <2>1, <3>1, <3>2
  <2>11. QED
    BY <2>6, <2>7, <2>10 DEF SuccessInv
<1>10. QED
  BY <1>8, <1>9

\* When only the root is left on the stack, everything below it has been visited.
LEMMA AllVisited ==
  ASSUME IInv, SuccessInv, command = "tree", ~failed, pending # <<>>,
         On(pending) = {Top}, Top.queued, NEW root, root = Root, root = Top.item,
         NEW item \in Doomed(root)
  PROVE  item \in Reach /\ item.pid \in visited /\ (item = root \/ ~Running(item))
<1>1. \A i \in Reach : i.pid \in visited => Settled(i)
  BY DEF SuccessInv, Traversed
<1>2. root \in Reach /\ root.pid \in visited
  BY DEF SuccessInv, Shape
<1>3. \A i : ~ToVisit(i)
  BY EntriesDiffer DEF ToVisit
<1>4. ASSUME NEW i, ToEnd(i) PROVE i = root
  BY <1>4, EntriesDiffer DEF ToEnd
<1>5. CASE root \in allProcesses
  <2> DEFINE V == {i \in allProcesses : i.pid \in visited}
  <2>1. Reach = allProcesses
    BY <1>5 DEF Reach
  <2>2. ASSUME NEW j \in V PROVE Children(j, allProcesses) \subseteq V
    <3>1. Settled(j) /\ ListedChildren(j) = Children(j, allProcesses)
      BY <1>1, <2>1 DEF ListedChildren
    <3>2. \A c \in Children(j, allProcesses) : c.pid \in visited
      BY <1>3, <3>1 DEF Settled
    <3>3. QED
      BY <3>2, ChildrenListed
  <2>3. root \in V /\ V \in SUBSET allProcesses
    BY <1>2, <1>5
  <2>4. item \in Subtree(root, allProcesses)
    BY <1>5 DEF Doomed
  <2>5. item \in V
    <3> HIDE DEF V
    <3>1. QED
      BY <2>2, <2>3, <2>4 DEF Subtree
  <2>6. Settled(item)
    BY <1>1, <2>1, <2>5
  <2>7. QED
    BY <1>4, <2>1, <2>5, <2>6 DEF Settled
<1>6. CASE root \notin allProcesses
  BY <1>2, <1>6 DEF Doomed
<1>7. QED
  BY <1>5, <1>6

LEMMA EndTopKeeps ==
  ASSUME IInv, SuccessInv, [Next]_vars, UniquePids', EndTop
  PROVE  SuccessInv'
<1>1. /\ pending # <<>> /\ Top.queued /\ TerminateProcess(Top.item) /\ pending' = Rest
      /\ visited' = IF Rest = <<>> THEN {} ELSE visited
      /\ pc' = "run" /\ UNCHANGED <<allProcesses, command, chosen, left>>
  BY DEF EndTop
<1>2. /\ pending \in Seq(Entries) /\ Top \in Entries /\ Top \in On(pending)
      /\ On(pending) = On(Rest) \cup {Top}
      /\ IF Len(pending) = 1 THEN Rest = <<>> /\ Top = pending[1]
                             ELSE Rest # <<>> /\ Rest[1] = pending[1]
  <2>1. pending \in Seq(Entries)
    BY DEF IInv, TypeInv, TypeOK, Entries
  <2>2. QED
    BY <1>1, <2>1, TopAndRest
<1>3. Shape /\ Traversed /\ Ended /\ command = "tree"
  BY <1>1 DEF SuccessInv, IInv, CommandInv
<1>4. Top.item \in Items /\ Top.item \in Reach
  BY <1>1, <1>2, <1>3 DEF Shape, Entries
<1>5. PICK ended \in Items : ended = Top.item
  BY <1>4
<1>6. ~failed' => ~failed /\ ~Running(ended)'
  BY <1>1, <1>5, EndedOrFailed
<1>7. ASSUME NEW i \in Reach, ~Running(i) PROVE ~Running(i)'
  BY <1>1, <1>3, <1>7, ReachGood, StaysGone
<1>8. Root \in chosen \ left
  BY <1>1, <1>3 DEF Shape
<1>9. ASSUME NEW c \in chosen \ left, ~failed, c # Root
      PROVE  \A item \in Doomed(c)' : ~Running(item)'
  <2>1. \A item \in Doomed(c) : ~Running(item)
    BY <1>3, <1>9 DEF Ended
  <2>2. QED
    BY <1>1, <2>1, EndedStays
<1>10. CASE Rest = <<>>
  <2>1. pending' = <<>> /\ visited' = {} /\ On(pending) = {Top} /\ Root = Top.item
    <3>1. On(<<>>) = {}
      BY DEF On
    <3>2. QED
      BY <1>1, <1>2, <1>10, <3>1 DEF Root
  <2>2. Shape' /\ Traversed'
    BY <1>1, <2>1 DEF Shape, Traversed
  <2>3. ASSUME ~failed', NEW item \in Doomed(ended) PROVE ~Running(item)'
    <3>1. item \in Reach /\ (item = ended \/ ~Running(item))
      BY <1>1, <1>3, <1>5, <1>6, <2>1, <2>3, AllVisited
    <3>2. QED
      BY <1>6, <1>7, <2>3, <3>1
  <2>4. Doomed(ended)' = Doomed(ended)
    BY <1>1 DEF Doomed
  <2>5. Ended'
    <3> SUFFICES ASSUME ~failed', NEW c \in chosen \ left
                 PROVE  \A item \in Doomed(c)' : ~Running(item)'
      BY <1>1 DEF Ended
    <3>1. CASE c = ended
      BY <2>3, <2>4, <3>1
    <3>2. CASE c # ended
      BY <1>5, <1>6, <1>9, <2>1, <3>2
    <3>3. QED
      BY <3>1, <3>2
  <2>6. QED
    BY <2>2, <2>5 DEF SuccessInv
<1>11. CASE Rest # <<>>
  <2>1. /\ pending' # <<>> /\ visited' = visited /\ pending'[1] = pending[1]
        /\ On(pending) = On(pending') \cup {Top}
        /\ pending[1].queued
    BY <1>1, <1>2, <1>3, <1>11 DEF Shape
  <2>2. Root' = Root /\ Reach' = Reach
    BY <1>1, <2>1 DEF Root, Reach
  <2>3. Shape'
    BY <1>1, <1>3, <2>1, <2>2 DEF Shape
  <2>4. ASSUME ~failed', NEW i \in Reach, Settled(i) PROVE Settled(i)'
    <3>1. ToEnd(i) => ToEnd(i)' \/ i = ended
      BY <1>5, <2>1, EntriesDiffer DEF ToEnd
    <3>2. \A j : ToVisit(j) => ToVisit(j)'
      BY <1>1, <2>1, EntriesDiffer DEF ToVisit
    <3>3. ListedChildren(i)' = ListedChildren(i)
      BY <1>1 DEF ListedChildren
    <3>4. ~Running(i)' \/ ToEnd(i)'
      BY <1>6, <1>7, <2>4, <3>1 DEF Settled
    <3>5. QED
      BY <2>1, <2>4, <3>2, <3>3, <3>4 DEF Settled
  <2>5. Traversed'
    BY <1>1, <1>3, <1>6, <2>1, <2>2, <2>4 DEF Traversed
  <2>6. Ended'
    <3> SUFFICES ASSUME ~failed', NEW c \in chosen \ left, c # Root
                 PROVE  \A item \in Doomed(c)' : ~Running(item)'
      BY <1>1, <2>1, <2>2 DEF Ended
    <3>1. QED
      BY <1>6, <1>9
  <2>7. QED
    BY <2>3, <2>5, <2>6 DEF SuccessInv
<1>12. QED
  BY <1>10, <1>11

LEMMA SuccessStep == IInv /\ SuccessInv /\ [Next]_vars => SuccessInv'
<1> SUFFICES ASSUME IInv, SuccessInv, [Next]_vars PROVE SuccessInv'
  OBVIOUS
<1>1. UniquePids'
  BY UniqueStep DEF SuccessInv
<1>2. CASE Kernel \/ UNCHANGED vars
  BY <1>1, <1>2, KernelKeeps DEF Kernel, Exit, Spawn, vars, commandVars
<1>3. CASE Refresh \/ Choose \/ Confirm
  <2>1. /\ left = chosen /\ ~failed /\ pending = <<>> /\ visited = {}
    BY <1>3 DEF Refresh, Choose, Confirm, IInv, CommandInv, SuccessInv, Shape
  <2>2. left' = chosen' /\ UNCHANGED <<failed, pending, visited>>
    BY <1>3, <2>1 DEF Refresh, Choose, Confirm, commandVars
  <2>3. QED
    BY <1>1, <2>1, <2>2, Fresh
<1>4. CASE Decline \/ Report
  BY <1>1, <1>4, Fresh DEF Decline, Report, NoCommand
<1>5. QED
  BY <1>1, <1>2, <1>3, <1>4, NextProcessKeeps, NextTreeKeeps, VisitKeeps, EndTopKeeps
    DEF Next

\* A command that reports no failure has ended everything it was to end, for trees
\* of any size and shape, whatever starts and exits while it runs.
THEOREM SuccessIsComplete == Spec => []SuccessMeansGone
<1>1. Init => SuccessInv
  BY DEF Init, SuccessInv, UniquePids, Shape, Traversed, Ended
<1>2. IInv /\ [Next]_vars => IInv'
  BY TypeStep, KernelStep, CommandStep DEF IInv
<1>3. SuccessInv => SuccessMeansGone
  BY DEF SuccessInv, Ended, SuccessMeansGone, Done
<1>4. QED
  BY InitIInv, <1>1, <1>2, <1>3, SuccessStep, PTL DEF Spec
=============================================================================
