------------------------- MODULE ServiceEnumeration -------------------------
(***************************************************************************)
(* EnumerateServiceStatusRecords (service_enumeration_helper.cc): the list *)
(* of services is fetched page by page, with a resume handle and a buffer  *)
(* that grows.  A page is what EnumServicesStatusExW answers; it may also  *)
(* be an answer that function is not documented to give, or one about a    *)
(* list that has changed since the page before.                            *)
(*                                                                         *)
(* A service is its place in the list, the resume handle the number of     *)
(* services already handed out.  ends[k] is the room the first k of them   *)
(* take in a buffer, so that the list is described without its names; the  *)
(* unit is the size of the fixed part of a record.                         *)
(***************************************************************************)
EXTENDS Naturals, Sequences

CONSTANTS
  Lists,          \* the lists of services there may be, each given as its ends
  InitialBuffer,  \* kInitialBufferSize
  MaximumBuffer,  \* kMaximumBufferSize
  Sizes,          \* the first buffer, its double, and so on until the second is reached
  MaximumPages,   \* kMaximumPageCount
  Handles,        \* resume handles an answer may carry
  Counts,         \* services_returned of an answer
  Needed,         \* bytes_needed of an answer
  Junk            \* a record of an answer that is not about the list

IsList(ends) ==
  /\ ends \in Seq(Nat)
  /\ \A k \in 1..Len(ends) : ends[k] > IF k = 1 THEN 0 ELSE ends[k - 1]

ASSUME EnumerationAssumption ==
  /\ \A ends \in Lists : IsList(ends)
  /\ InitialBuffer \in Nat \ {0}
  /\ MaximumBuffer \in Nat
  /\ InitialBuffer <= MaximumBuffer
  /\ Sizes \in Seq(Nat) /\ Sizes # <<>>
  /\ Sizes[1] = InitialBuffer
  /\ \A k \in 1..(Len(Sizes) - 1) : Sizes[k + 1] = 2 * Sizes[k]
  /\ Sizes[Len(Sizes)] >= MaximumBuffer
  /\ MaximumPages \in Nat
  /\ Handles \in SUBSET Nat
  /\ Counts \in SUBSET Nat
  /\ Needed \in SUBSET Nat
  /\ Junk \notin Nat

VARIABLES
  ends,          \* the list the Service Control Manager keeps
  cancellation,  \* *cancellation
  page,          \* pages asked for so far
  buffer,        \* buffer.size()
  resumeHandle,  \* resume_handle
  records,       \* *records
  result,        \* what the function returned; "none" before it returns
  stable         \* history: every answer was about this list, as documented

vars == <<ends, cancellation, page, buffer, resumeHandle, records, result, stable>>

Room(k) == IF k = 0 THEN 0 ELSE ends[k]

TypeOK ==
  /\ ends \in Lists
  /\ cancellation \in BOOLEAN
  /\ page \in 0..MaximumPages
  /\ buffer \in InitialBuffer..MaximumBuffer
  /\ resumeHandle \in Nat
  /\ records \in Seq(Nat \cup {Junk})
  /\ result \in {"none", "true", "false"}
  /\ stable \in BOOLEAN

Init ==
  /\ ends \in Lists
  /\ cancellation = FALSE
  /\ page = 0
  /\ buffer = InitialBuffer
  /\ resumeHandle = 0
  /\ records = <<>>
  /\ result = "none"
  /\ stable = TRUE

-----------------------------------------------------------------------------
(* EnumServicesStatusExW                                                   *)

Answers == [error : {"ERROR_SUCCESS", "ERROR_MORE_DATA", "other"},
            returned : Counts, resume : Handles, needed : Needed]

\* As many of the services after the handle as fit, and whether these are all. An
\* answer without a service may carry any handle.
Documented(a) ==
  /\ resumeHandle + a.returned <= Len(ends)
  /\ Room(resumeHandle + a.returned) - Room(resumeHandle) <= buffer
  /\ \/ /\ a.error = "ERROR_SUCCESS"
        /\ resumeHandle + a.returned = Len(ends)
        /\ a.resume = 0
     \/ /\ a.error = "ERROR_MORE_DATA"
        /\ resumeHandle + a.returned < Len(ends)
        /\ Room(resumeHandle + a.returned + 1) - Room(resumeHandle) > buffer
        /\ a.returned > 0 => a.resume = resumeHandle + a.returned
        /\ a.needed >= Room(Len(ends)) - Room(resumeHandle + a.returned)

Received(a) ==
  [k \in 1..a.returned |-> IF Documented(a) THEN resumeHandle + k ELSE Junk]

-----------------------------------------------------------------------------
(* The loop                                                                *)

\* StopServiceRefreshWorker, on the other thread.
Cancel ==
  /\ ~cancellation
  /\ cancellation' = TRUE
  /\ UNCHANGED <<ends, page, buffer, resumeHandle, records, result, stable>>

\* Every way out but the successful one clears the records.
Fail ==
  /\ records' = <<>>
  /\ result' = "false"
  /\ UNCHANGED <<buffer, resumeHandle>>

\* The number of pages is not limited.
GiveUpWhenCancelled ==
  /\ result = "none"
  /\ cancellation
  /\ Fail
  /\ UNCHANGED <<ends, cancellation, page, stable>>

GiveUp ==
  /\ result = "none"
  /\ cancellation \/ page = MaximumPages
  /\ Fail
  /\ UNCHANGED <<ends, cancellation, page, stable>>

Smaller(m, n) == IF m < n THEN m ELSE n
Larger(m, n) == IF m > n THEN m ELSE n

NextSize(needed) ==
  Larger(Smaller(2 * buffer, MaximumBuffer), Smaller(needed, MaximumBuffer))

\* A buffer that cannot grow any more counts as stuck, whatever the page held.
StuckAtMaximum(a) ==
  \/ a.error = "other"
  \/ a.error = "ERROR_SUCCESS" /\ a.resume # 0 /\ a.returned = 0 /\ a.resume = resumeHandle
  \/ a.error = "ERROR_MORE_DATA" /\ NextSize(a.needed) <= buffer

\* The answer does not get the loop any further.
Stuck(a) ==
  \/ a.error = "other"
  \/ a.error = "ERROR_SUCCESS" /\ a.resume # 0 /\ a.returned = 0 /\ a.resume = resumeHandle
  \/ a.error = "ERROR_MORE_DATA" /\ a.returned > 0 /\ a.resume = resumeHandle
  \/ /\ a.error = "ERROR_MORE_DATA"
     /\ a.returned = 0
     /\ a.needed <= buffer \/ NextSize(a.needed) <= buffer

\* The handle an answer carries is used, with or without a service.
NextHandleAsAnswered(a) == a.resume

\* The handle of an answer without a service is not used: the page is asked for again.
NextHandle(a) ==
  IF a.error = "ERROR_MORE_DATA" /\ a.returned = 0 THEN resumeHandle ELSE a.resume

\* One page: more services than the buffer can hold are refused, the others are kept.
Page(a) ==
  /\ result = "none"
  /\ ~cancellation
  /\ page < MaximumPages
  /\ page' = page + 1
  /\ stable' = (stable /\ Documented(a))
  /\ IF a.returned > buffer \/ Stuck(a)
     THEN Fail
     ELSE /\ records' = records \o Received(a)
          /\ resumeHandle' = NextHandle(a)
          /\ result' = IF a.error = "ERROR_SUCCESS" /\ a.resume = 0 THEN "true" ELSE "none"
          /\ buffer' = IF a.error = "ERROR_MORE_DATA" /\ NextSize(a.needed) > buffer
                       THEN NextSize(a.needed) ELSE buffer
  /\ UNCHANGED <<ends, cancellation>>

Next == Cancel \/ GiveUp \/ \E a \in Answers : Page(a)

Spec == Init /\ [][Next]_vars

FairSpec == Spec /\ WF_vars(GiveUp \/ \E a \in Answers : Page(a))

-----------------------------------------------------------------------------
(* Properties                                                              *)

\* A list that is handed back as complete has every service once and in order, whatever
\* pages it came in and however often a page had to be asked for again.
WholeList ==
  result = "true" /\ stable => records = [k \in 1..Len(ends) |-> k]

\* A failed enumeration hands back nothing, so that the caller never takes the first
\* pages of it for the list.
FailureIsEmpty == result = "false" => records = <<>>

\* So the caller gets the whole list or none, and can tell which.
AllOrNothing == WholeList /\ FailureIsEmpty

\* Every service fits the largest buffer, and the pages suffice.
Feasible ==
  /\ \A k \in 1..Len(ends) : Room(k) - Room(k - 1) <= MaximumBuffer
  /\ Len(ends) + (Len(Sizes) - 1) <= MaximumPages
  /\ Len(ends) > 0

\* As long as the SCM answers as documented and nobody cancels, the enumeration does not
\* give up on a list that can be had: a page that is too large for the buffer makes the
\* buffer grow, up to its limit.
NoNeedlessFailure == stable /\ ~cancellation /\ Feasible => result # "false"

\* Whatever the SCM answers, the enumeration returns.
Returns == <>(result # "none")
=============================================================================
