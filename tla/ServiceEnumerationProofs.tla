---------------------- MODULE ServiceEnumerationProofs ----------------------
(***************************************************************************)
(* A list handed back by EnumerateServiceStatusRecords is whole and a      *)
(* failure is empty, for every list, every size of the buffers and every   *)
(* number of pages.                                                        *)
(***************************************************************************)
EXTENDS ServiceEnumeration, SequenceTheorems, WellFoundedInduction, NaturalsInduction, TLAPS

UpTo(n) == [k \in 1..n |-> k]

\* What has been read is the list up to the handle.
Progress ==
  stable /\ result = "none" =>
    /\ resumeHandle <= Len(ends)
    /\ records = UpTo(resumeHandle)

IInv == TypeOK /\ Progress /\ WholeList /\ FailureIsEmpty

LEMMA ListsAreLists ==
  ASSUME NEW e \in Lists
  PROVE  e \in Seq(Nat) /\ Len(e) \in Nat
BY EnumerationAssumption DEF IsList

LEMMA UpToSeq ==
  ASSUME NEW n \in Nat
  PROVE  UpTo(n) \in Seq(Nat \cup {Junk}) /\ Len(UpTo(n)) = n
BY DEF UpTo

\* The records of a documented answer continue the ones before it.
LEMMA UpToContinues ==
  ASSUME NEW m \in Nat, NEW n \in Nat
  PROVE  UpTo(m) \o [k \in 1..n |-> m + k] = UpTo(m + n)
<1> DEFINE t == [k \in 1..n |-> m + k]
<1>1. UpTo(m) \in Seq(Nat) /\ Len(UpTo(m)) = m
  BY DEF UpTo
<1>2. t \in Seq(Nat) /\ Len(t) = n
  OBVIOUS
<1>3. UpTo(m + n) \in Seq(Nat) /\ Len(UpTo(m + n)) = m + n
  BY DEF UpTo
<1>4. Len(UpTo(m) \o t) = m + n /\ UpTo(m) \o t \in Seq(Nat)
  BY <1>1, <1>2
<1>5. ASSUME NEW k \in 1..(m + n) PROVE (UpTo(m) \o t)[k] = UpTo(m + n)[k]
  <2>1. k \in Nat /\ 1 <= k /\ k <= m + n
    OBVIOUS
  <2>2. UpTo(m + n)[k] = k
    BY DEF UpTo
  <2>3. (UpTo(m) \o t)[k] = IF k <= m THEN UpTo(m)[k] ELSE t[k - m]
    BY <1>1, <1>2, ConcatProperties
  <2>4. CASE k <= m
    BY DEF UpTo
  <2>5. CASE ~(k <= m)
    <3>1. k - m \in 1..n /\ m + (k - m) = k
      BY <2>1, <2>5
    <3> QED
      BY <2>2, <2>3, <2>5, <3>1
  <2> QED
    BY <2>4, <2>5
<1>6. UpTo(m) \o t = UpTo(m + n)
  <2> HIDE DEF t
  <2> QED
    BY <1>3, <1>4, <1>5, SeqEqual
<1> QED
  BY <1>6

LEMMA NextSizeBounded ==
  ASSUME TypeOK, NEW needed \in Nat
  PROVE  /\ NextSize(needed) \in Nat
         /\ NextSize(needed) <= MaximumBuffer
BY EnumerationAssumption DEF TypeOK, NextSize, Larger, Smaller

LEMMA AnswerTypes ==
  ASSUME NEW a \in Answers
  PROVE  /\ a.error \in {"ERROR_SUCCESS", "ERROR_MORE_DATA", "other"}
         /\ a.returned \in Nat
         /\ a.resume \in Nat
         /\ a.needed \in Nat
BY EnumerationAssumption DEF Answers

LEMMA ReceivedType ==
  ASSUME TypeOK, NEW a \in Answers
  PROVE  Received(a) \in Seq(Nat \cup {Junk})
BY AnswerTypes DEF TypeOK, Received

LEMMA TypeInit == ASSUME Init PROVE TypeOK
<1>1. <<>> \in Seq(Nat \cup {Junk})
  OBVIOUS
<1>2. InitialBuffer \in InitialBuffer..MaximumBuffer /\ 0 \in 0..MaximumPages
  BY EnumerationAssumption
<1> QED
  BY <1>1, <1>2 DEF Init, TypeOK

LEMMA TypeStep == ASSUME TypeOK, [Next]_vars PROVE TypeOK'
<1>0. <<>> \in Seq(Nat \cup {Junk})
  OBVIOUS
<1>1. CASE Cancel
  BY <1>1 DEF Cancel, TypeOK
<1>2. CASE GiveUp
  BY <1>2 DEF GiveUp, Fail, TypeOK
<1>3. ASSUME NEW a \in Answers, Page(a) PROVE TypeOK'
  <2>1. page' \in 0..MaximumPages
    BY <1>3, EnumerationAssumption DEF Page, TypeOK
  <2>2. stable' \in BOOLEAN
    BY <1>3 DEF Page
  <2>3. UNCHANGED <<ends, cancellation>>
    BY <1>3 DEF Page
  <2>4. CASE a.returned > buffer \/ Stuck(a)
    <3>1. Fail
      BY <1>3, <2>4 DEF Page
    <3> QED
      BY <2>1, <2>2, <2>3, <3>1 DEF Fail, TypeOK
  <2>5. CASE ~(a.returned > buffer \/ Stuck(a))
    <3>1. records' = records \o Received(a)
      BY <1>3, <2>5 DEF Page
    <3>2. records' \in Seq(Nat \cup {Junk})
      BY <3>1, ReceivedType DEF TypeOK
    <3>3. resumeHandle' \in Nat
      BY <1>3, <2>5, AnswerTypes DEF Page, NextHandle, TypeOK
    <3>4. result' \in {"none", "true", "false"}
      BY <1>3, <2>5 DEF Page
    <3>5. buffer' \in InitialBuffer..MaximumBuffer
      <4>1. buffer' = IF a.error = "ERROR_MORE_DATA" /\ NextSize(a.needed) > buffer
                      THEN NextSize(a.needed) ELSE buffer
        BY <1>3, <2>5 DEF Page
      <4>2. NextSize(a.needed) \in Nat /\ NextSize(a.needed) <= MaximumBuffer
        BY NextSizeBounded, AnswerTypes
      <4> QED
        BY <4>1, <4>2, EnumerationAssumption DEF TypeOK
    <3> QED
      BY <2>1, <2>2, <2>3, <3>2, <3>3, <3>4, <3>5 DEF TypeOK
  <2> QED
    BY <2>4, <2>5
<1>4. CASE UNCHANGED vars
  BY <1>4 DEF vars, TypeOK
<1> QED
  BY <1>1, <1>2, <1>3, <1>4 DEF Next

\* Buffer sizes, handle and page count stay in their ranges.
THEOREM TypeCorrect == Spec => []TypeOK
BY TypeInit, TypeStep, PTL DEF Spec

LEMMA InvInit == ASSUME Init PROVE IInv
<1>1. TypeOK
  BY TypeInit
<1>2. Len(ends) \in Nat
  BY ListsAreLists DEF Init
<1>3. UpTo(0) = <<>>
  BY DEF UpTo
<1> QED
  BY <1>1, <1>3 DEF Init, IInv, Progress, WholeList, FailureIsEmpty

LEMMA PageStep ==
  ASSUME IInv, NEW a \in Answers, Page(a)
  PROVE  Progress' /\ WholeList' /\ FailureIsEmpty'
<1>1. CASE a.returned > buffer \/ Stuck(a)
  <2>1. Fail
    BY <1>1 DEF Page
  <2> QED
    BY <2>1 DEF Fail, Progress, WholeList, FailureIsEmpty
<1>2. CASE ~(a.returned > buffer \/ Stuck(a))
  <2>1. /\ records' = records \o Received(a)
        /\ resumeHandle' = NextHandle(a)
        /\ result' = IF a.error = "ERROR_SUCCESS" /\ a.resume = 0 THEN "true" ELSE "none"
        /\ ends' = ends
        /\ stable' = (stable /\ Documented(a))
        /\ result = "none"
    BY <1>2 DEF Page
  <2>2. FailureIsEmpty'
    BY <2>1 DEF FailureIsEmpty
  <2>3. CASE ~stable'
    BY <2>2, <2>3 DEF Progress, WholeList
  <2>4. CASE stable'
    <3>1. stable /\ Documented(a)
      BY <2>1, <2>4
    <3>2. resumeHandle \in Nat /\ records = UpTo(resumeHandle) /\ Len(ends) \in Nat
      BY <2>1, <3>1 DEF IInv, Progress, TypeOK
    <3>3. a.returned \in Nat /\ a.resume \in Nat
      BY AnswerTypes
    <3>4. Received(a) = [k \in 1..a.returned |-> resumeHandle + k]
      BY <3>1 DEF Received
    <3>5. records' = UpTo(resumeHandle + a.returned)
      BY <2>1, <3>2, <3>3, <3>4, UpToContinues
    <3>6. CASE a.error = "ERROR_SUCCESS"
      <4>1. resumeHandle + a.returned = Len(ends) /\ a.resume = 0
        BY <3>1, <3>6 DEF Documented
      <4>2. result' = "true" /\ records' = [k \in 1..Len(ends') |-> k]
        BY <2>1, <3>5, <3>6, <4>1 DEF UpTo
      <4> QED
        BY <2>2, <4>2 DEF Progress, WholeList
    <3>7. CASE a.error # "ERROR_SUCCESS"
      <4>1. /\ a.error = "ERROR_MORE_DATA"
            /\ resumeHandle + a.returned < Len(ends)
            /\ a.returned > 0 => a.resume = resumeHandle + a.returned
        BY <3>1, <3>7 DEF Documented
      <4>2. resumeHandle' = resumeHandle + a.returned
        BY <2>1, <3>2, <3>3, <4>1 DEF NextHandle
      <4>3. result' = "none"
        BY <2>1, <3>7
      <4> QED
        BY <2>1, <2>2, <3>5, <4>1, <4>2 DEF Progress, WholeList
    <3> QED
      BY <3>6, <3>7
  <2> QED
    BY <2>3, <2>4 DEF Documented
<1> QED
  BY <1>1, <1>2

LEMMA InvStep == ASSUME IInv, [Next]_vars PROVE IInv'
<1>1. TypeOK'
  BY TypeStep DEF IInv
<1>2. CASE Cancel
  BY <1>1, <1>2 DEF Cancel, IInv, Progress, WholeList, FailureIsEmpty
<1>3. CASE GiveUp
  BY <1>1, <1>3 DEF GiveUp, Fail, IInv, Progress, WholeList, FailureIsEmpty
<1>4. ASSUME NEW a \in Answers, Page(a) PROVE IInv'
  BY <1>1, <1>4, PageStep DEF IInv
<1>5. CASE UNCHANGED vars
  BY <1>1, <1>5 DEF vars, IInv, Progress, WholeList, FailureIsEmpty
<1> QED
  BY <1>2, <1>3, <1>4, <1>5 DEF Next

\* An enumeration that succeeds against documented answers hands back every service once
\* and in order.
THEOREM SuccessIsWhole == Spec => []WholeList
<1>1. IInv => WholeList
  BY DEF IInv
<1> QED
  BY <1>1, InvInit, InvStep, PTL DEF Spec

\* An enumeration that fails hands back nothing, whatever the answers were.
THEOREM FailureHandsBackNothing == Spec => []FailureIsEmpty
<1>1. IInv => FailureIsEmpty
  BY DEF IInv
<1> QED
  BY <1>1, InvInit, InvStep, PTL DEF Spec

\* The enumeration hands back the whole list or nothing, for any list, any pages and any
\* limits of the buffer.
THEOREM WholeOrNothing == Spec => []AllOrNothing
<1>1. IInv => AllOrNothing
  BY DEF IInv, AllOrNothing
<1> QED
  BY <1>1, InvInit, InvStep, PTL DEF Spec
-----------------------------------------------------------------------------
(* No needless failure.                                                    *)

\* Every service takes some room.
LEMMA RoomGrows ==
  ASSUME ends \in Lists, NEW m \in 0..Len(ends)
  PROVE  \A n \in m..Len(ends) : Room(n) \in Nat /\ Room(n) - Room(m) >= n - m
<1>1. /\ ends \in Seq(Nat) /\ Len(ends) \in Nat
      /\ \A k \in 1..Len(ends) : ends[k] > IF k = 1 THEN 0 ELSE ends[k - 1]
  BY EnumerationAssumption DEF IsList
<1>2. \A k \in 0..Len(ends) : Room(k) \in Nat
  BY <1>1 DEF Room
<1>3. \A k \in 1..Len(ends) : Room(k) > Room(k - 1)
  BY <1>1 DEF Room
<1> DEFINE Bad == {n \in Nat : n \in m..Len(ends) /\ ~(Room(n) - Room(m) >= n - m)}
<1>4. SUFFICES ASSUME Bad # {} PROVE FALSE
  <2>1. \A n \in m..Len(ends) : n \in Nat /\ Room(n) \in Nat
    BY <1>1, <1>2
  <2> QED
    BY <2>1
<1>5. PICK n \in Bad : \A k \in Bad : <<k, n>> \notin OpToRel(<, Nat)
  BY <1>4, NatLessThanWellFounded, WFMin
<1>6. n \in Nat /\ m \in Nat /\ n \in m..Len(ends) /\ ~(Room(n) - Room(m) >= n - m)
  BY <1>1
<1>7. n # m
  BY <1>2, <1>6
<1>8. n - 1 \in Nat /\ n - 1 \in m..Len(ends) /\ n - 1 < n /\ n \in 1..Len(ends)
  BY <1>1, <1>6, <1>7
<1>9. <<n - 1, n>> \in OpToRel(<, Nat)
  BY <1>6, <1>8 DEF OpToRel
<1>10. Room(n - 1) - Room(m) >= (n - 1) - m
  BY <1>5, <1>8, <1>9
<1>11. Room(n) > Room(n - 1) /\ Room(n) \in Nat /\ Room(n - 1) \in Nat /\ Room(m) \in Nat
  BY <1>1, <1>2, <1>3, <1>6, <1>8
<1> HIDE DEF Bad
<1> QED
  BY <1>6, <1>8, <1>10, <1>11

\* Every page either brought a service or made the buffer grow.
PagesInv ==
  stable /\ ~cancellation /\ Feasible =>
    /\ result # "false"
    /\ result = "none" =>
         /\ resumeHandle < Len(ends)
         /\ \E grown \in 0..(Len(Sizes) - 1) :
              /\ page <= resumeHandle + grown
              /\ buffer >= Sizes[grown + 1] \/ buffer = MaximumBuffer

LEMMA SizesAreSizes ==
  /\ Len(Sizes) \in Nat \ {0} /\ \A k \in 1..Len(Sizes) : Sizes[k] \in Nat
  /\ InitialBuffer \in Nat \ {0} /\ MaximumBuffer \in Nat /\ MaximumPages \in Nat
BY EnumerationAssumption

LEMMA PagesGiveUp ==
  ASSUME TypeOK, PagesInv, GiveUp
  PROVE  PagesInv'
<1> SUFFICES ASSUME stable, ~cancellation, Feasible PROVE FALSE
  BY DEF GiveUp, PagesInv, Feasible, Room
<1>1. result = "none" /\ page = MaximumPages
  BY DEF GiveUp
<1>2. PICK grown \in 0..(Len(Sizes) - 1) : page <= resumeHandle + grown
  BY <1>1 DEF PagesInv
<1>3. resumeHandle < Len(ends) /\ Len(ends) + (Len(Sizes) - 1) <= MaximumPages
  BY <1>1 DEF PagesInv, Feasible
<1>4. resumeHandle \in Nat /\ Len(ends) \in Nat
  BY ListsAreLists DEF TypeOK
<1> QED
  BY <1>1, <1>2, <1>3, <1>4, SizesAreSizes

\* A documented answer without a service makes the buffer grow; any other gets the loop
\* further.
LEMMA PagesStep ==
  ASSUME TypeOK, PagesInv, NEW a \in Answers, Page(a)
  PROVE  PagesInv'
<1> SUFFICES ASSUME stable', ~cancellation', Feasible'
             PROVE  /\ result' # "false"
                    /\ result' = "none" =>
                         /\ resumeHandle' < Len(ends')
                         /\ \E grown \in 0..(Len(Sizes) - 1) :
                              /\ page' <= resumeHandle' + grown
                              /\ buffer' >= Sizes[grown + 1] \/ buffer' = MaximumBuffer
  BY DEF PagesInv
<1>1. /\ stable /\ Documented(a) /\ ~cancellation /\ result = "none"
      /\ ends' = ends /\ page' = page + 1
  BY DEF Page
<1>2. Feasible
  BY <1>1 DEF Feasible, Room
<1>3. resumeHandle < Len(ends)
  BY <1>1, <1>2 DEF PagesInv
<1>4. PICK grown \in 0..(Len(Sizes) - 1) :
        /\ page <= resumeHandle + grown
        /\ buffer >= Sizes[grown + 1] \/ buffer = MaximumBuffer
  BY <1>1, <1>2 DEF PagesInv
<1>5. /\ resumeHandle \in Nat /\ page \in Nat /\ buffer \in Nat /\ buffer > 0
      /\ buffer <= MaximumBuffer /\ Len(ends) \in Nat /\ ends \in Lists
  BY ListsAreLists, SizesAreSizes DEF TypeOK
<1>6. /\ a.error \in {"ERROR_SUCCESS", "ERROR_MORE_DATA", "other"}
      /\ a.returned \in Nat /\ a.resume \in Nat /\ a.needed \in Nat
  BY AnswerTypes
<1> DEFINE read == resumeHandle + a.returned
<1>7. read \in Nat /\ read \in resumeHandle..Len(ends) /\ resumeHandle \in 0..Len(ends)
  BY <1>1, <1>3, <1>5, <1>6 DEF Documented
<1>8. Room(read) \in Nat /\ Room(resumeHandle) \in Nat /\ Room(read) - Room(resumeHandle) >= a.returned
  <2>1. /\ Room(read) \in Nat
        /\ Room(read) - Room(resumeHandle) >= read - resumeHandle
    BY <1>5, <1>7, RoomGrows
  <2>2. Room(resumeHandle) \in Nat
    <3>1. resumeHandle \in resumeHandle..Len(ends)
      BY <1>3, <1>5
    <3> QED
      BY <1>5, <1>7, <3>1, RoomGrows
  <2> QED
    BY <1>5, <1>6, <2>1, <2>2
<1>9. ~(a.returned > buffer)
  BY <1>1, <1>5, <1>6, <1>8 DEF Documented
<1>10. CASE a.error = "ERROR_SUCCESS"
  <2>1. ~Stuck(a) /\ a.resume = 0
    BY <1>1, <1>10 DEF Documented, Stuck
  <2> QED
    BY <1>9, <1>10, <2>1 DEF Page
<1>11. CASE a.error = "ERROR_MORE_DATA" /\ a.returned > 0
  <2>1. read < Len(ends) /\ a.resume = read
    BY <1>1, <1>11 DEF Documented
  <2>2. ~Stuck(a)
    BY <1>5, <1>6, <1>11, <2>1 DEF Stuck
  <2>3. /\ resumeHandle' = read /\ result' = "none"
        /\ buffer' = IF NextSize(a.needed) > buffer THEN NextSize(a.needed) ELSE buffer
    BY <1>5, <1>6, <1>9, <1>11, <2>1, <2>2 DEF Page, NextHandle
  <2>4. buffer' \in Nat /\ buffer' >= buffer /\ buffer' <= MaximumBuffer
    <3>1. NextSize(a.needed) \in Nat /\ NextSize(a.needed) <= MaximumBuffer
      BY <1>6, NextSizeBounded
    <3> QED
      BY <1>5, <2>3, <3>1, SizesAreSizes
  <2>5. page' <= resumeHandle' + grown
    BY <1>1, <1>4, <1>5, <1>6, <1>11, <2>3, SizesAreSizes
  <2>6. buffer' >= Sizes[grown + 1] \/ buffer' = MaximumBuffer
    BY <1>4, <1>5, <2>4, SizesAreSizes
  <2> QED
    BY <1>1, <2>1, <2>3, <2>5, <2>6
<1>12. CASE a.error = "ERROR_MORE_DATA" /\ a.returned = 0
  <2>1. /\ Room(resumeHandle + 1) - Room(resumeHandle) > buffer
        /\ a.needed >= Room(Len(ends)) - Room(resumeHandle)
    BY <1>1, <1>5, <1>12 DEF Documented
  <2>2. resumeHandle + 1 \in 1..Len(ends) /\ resumeHandle + 1 \in 0..Len(ends)
        /\ Len(ends) \in (resumeHandle + 1)..Len(ends)
    BY <1>3, <1>5
  <2>3. Room(resumeHandle + 1) - Room(resumeHandle) <= MaximumBuffer
    <3>1. Room(resumeHandle + 1) - Room((resumeHandle + 1) - 1) <= MaximumBuffer
      BY <1>2, <2>2 DEF Feasible
    <3> QED
      BY <1>5, <3>1
  <2>4. /\ Room(resumeHandle + 1) \in Nat /\ Room(Len(ends)) \in Nat
        /\ Room(Len(ends)) >= Room(resumeHandle + 1)
    <3>1. resumeHandle + 1 \in resumeHandle..Len(ends)
      BY <1>5, <2>2
    <3>2. Room(resumeHandle + 1) \in Nat
      BY <1>5, <1>7, <3>1, RoomGrows
    <3>3. /\ Room(Len(ends)) \in Nat
          /\ Room(Len(ends)) - Room(resumeHandle + 1) >= Len(ends) - (resumeHandle + 1)
      BY <1>5, <2>2, RoomGrows
    <3> QED
      BY <1>3, <1>5, <3>2, <3>3
  <2>5. a.needed > buffer /\ buffer < MaximumBuffer
    BY <1>5, <1>6, <1>8, <2>1, <2>3, <2>4, SizesAreSizes
  <2>6. /\ NextSize(a.needed) \in Nat /\ NextSize(a.needed) > buffer
        /\ NextSize(a.needed) <= MaximumBuffer
        /\ NextSize(a.needed) >= 2 * buffer \/ NextSize(a.needed) = MaximumBuffer
    BY <1>5, <1>6, <2>5, SizesAreSizes DEF NextSize, Larger, Smaller
  <2>7. ~Stuck(a)
    BY <1>5, <1>6, <1>12, <2>5, <2>6 DEF Stuck
  <2>8. resumeHandle' = resumeHandle /\ result' = "none" /\ buffer' = NextSize(a.needed)
    BY <1>9, <1>12, <2>6, <2>7 DEF Page, NextHandle
  <2>9. buffer >= Sizes[grown + 1]
    BY <1>4, <2>5, <1>5, SizesAreSizes
  <2>10. grown + 1 \in 0..(Len(Sizes) - 1) /\ Sizes[(grown + 1) + 1] = 2 * Sizes[grown + 1]
    <3>1. Sizes[Len(Sizes)] >= MaximumBuffer /\ grown + 1 \in 1..Len(Sizes)
      BY SizesAreSizes, EnumerationAssumption
    <3>2. grown + 1 # Len(Sizes)
      BY <1>5, <2>5, <2>9, <3>1, SizesAreSizes
    <3>3. grown + 1 \in 1..(Len(Sizes) - 1)
      BY <3>1, <3>2, SizesAreSizes
    <3> QED
      BY <3>3, EnumerationAssumption, SizesAreSizes
  <2>11. buffer' >= Sizes[(grown + 1) + 1] \/ buffer' = MaximumBuffer
    <3>1. Sizes[grown + 1] \in Nat
      BY SizesAreSizes
    <3> QED
      BY <1>5, <2>6, <2>8, <2>9, <2>10, <3>1
  <2>12. page' <= resumeHandle' + (grown + 1)
    BY <1>1, <1>4, <1>5, <2>8, SizesAreSizes
  <2> QED
    BY <1>1, <1>3, <2>8, <2>10, <2>11, <2>12
<1> QED
  BY <1>1, <1>6, <1>10, <1>11, <1>12 DEF Documented

LEMMA PagesInit == ASSUME Init PROVE PagesInv
<1> SUFFICES ASSUME Feasible
             PROVE  /\ resumeHandle < Len(ends)
                    /\ \E grown \in 0..(Len(Sizes) - 1) :
                         page <= resumeHandle + grown /\ buffer >= Sizes[grown + 1]
  BY DEF Init, PagesInv
<1>1. resumeHandle < Len(ends)
  BY DEF Init, Feasible
<1>2. 0 \in 0..(Len(Sizes) - 1) /\ Sizes[0 + 1] = InitialBuffer
  BY SizesAreSizes, EnumerationAssumption
<1>3. page <= resumeHandle + 0 /\ buffer >= Sizes[0 + 1]
  BY <1>2, SizesAreSizes DEF Init
<1> QED
  BY <1>1, <1>2, <1>3

\* A list that fits the largest buffer and the pages is not given up while the SCM
\* answers as documented and nobody cancels: no answer leaves the loop stuck, and before
\* the pages run out every service has been read or the buffer has grown to its limit.
THEOREM NeverGivesUpNeedlessly == Spec => []NoNeedlessFailure
<1>1. Init => PagesInv
  BY PagesInit
<1>2. TypeOK /\ PagesInv /\ [Next]_vars => PagesInv'
  <2> SUFFICES ASSUME TypeOK, PagesInv, [Next]_vars PROVE PagesInv'
    OBVIOUS
  <2>1. CASE Cancel
    BY <2>1 DEF Cancel, PagesInv
  <2>2. CASE UNCHANGED vars
    BY <2>2 DEF vars, PagesInv, Feasible, Room
  <2> QED
    BY <2>1, <2>2, PagesGiveUp, PagesStep DEF Next
<1>3. PagesInv => NoNeedlessFailure
  BY DEF PagesInv, NoNeedlessFailure
<1> QED
  BY <1>1, <1>2, <1>3, TypeCorrect, PTL DEF Spec
=============================================================================
