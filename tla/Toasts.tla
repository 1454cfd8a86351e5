------------------------------- MODULE Toasts -------------------------------
(***************************************************************************)
(* The toasts of monitor alerts (toast_window.cc): windows in a stack in   *)
(* the corner of the screen.  Each belongs to an object that goes with it: *)
(* ShowToast makes both, WM_NCDESTROY releases the object.  A toast closes *)
(* after five seconds or at a click, fades out by a second timer and then  *)
(* destroys its window.                                                    *)
(*                                                                         *)
(* A toast is its window handle, which Windows may give out again.         *)
(***************************************************************************)
EXTENDS Integers, FiniteSets, SequencesExt

CONSTANTS
  Handles,
  Opaque,   \* alpha_ of a new toast: 255
  FadeStep  \* what a tick takes off it: 25

ASSUME ToastsAssumption == Opaque \in Nat \ {0} /\ FadeStep \in Nat \ {0}

VARIABLES
  toasts,  \* per handle, the window of that handle and its object
  active   \* active_toasts, oldest first

stack == <<toasts, active>>

\* A window, what its object says, which of its timers run, where it is on the
\* screen counted from the bottom; and two notes: how many times the object has
\* been deleted, and whether a timer of its was refused.
Toast ==
  [window : BOOLEAN, alpha : 1..Opaque, closing : BOOLEAN, autoClose : BOOLEAN,
   fadeOut : BOOLEAN, place : Nat, deleted : Nat, refused : BOOLEAN]

Gone(deleted) ==
  [window |-> FALSE, alpha |-> Opaque, closing |-> FALSE, autoClose |-> FALSE,
   fadeOut |-> FALSE, place |-> 0, deleted |-> deleted, refused |-> FALSE]

\* The result of SetTimer is not looked at.
New(timer) ==
  [Gone(0) EXCEPT !.window = TRUE, !.autoClose = timer, !.refused = ~timer]

ToastsTypeOK ==
  /\ toasts \in [Handles -> Toast]
  /\ active \in Seq(Handles)

ToastsInit ==
  /\ toasts = [h \in Handles |-> Gone(1)]
  /\ active = <<>>

-----------------------------------------------------------------------------
\* The loop that copies members of s from its first to its last, and what it
\* has copied of those in S when it has seen i of them.
KeptUpTo(s, S) ==
  LET kept[i \in 0..Len(s)] ==
        IF i = 0 THEN <<>>
        ELSE IF s[i] \in S THEN Append(kept[i - 1], s[i]) ELSE kept[i - 1]
  IN kept

Keep(s, S) == KeptUpTo(s, S)[Len(s)]

\* The handles of what still is a window.
Valid(all, handles) == Keep(handles, {h \in Handles : all[h].window})

\* RepositionToasts: the newest at the bottom, the others above it.
RepositionToasts(all, handles) ==
  [h \in Handles |->
     IF Contains(handles, h)
     THEN [all[h] EXCEPT !.place = Len(handles) - SelectInSeq(handles, LAMBDA g : g = h)]
     ELSE all[h]]

\* WM_NCDESTROY: the window releases the object it was given.
NcDestroyAlways(toast, assigned) == Gone(toast.deleted + 1)

\* WM_NCDESTROY: the window releases the object if the object has its handle,
\* which it is assigned when CreateWindowExW returns.
NcDestroy(toast, assigned) ==
  IF assigned THEN Gone(toast.deleted + 1) ELSE Gone(toast.deleted)

\* ShowToast deletes the object of a window that could not be created: no message
\* got as far as WM_CREATE, or all did and the window was destroyed again.
Discarded == {Gone(1), Gone(NcDestroy(Gone(0), FALSE).deleted + 1)}

\* ShowToast for each of count alerts: shown are the windows that come up,
\* discarded handles of windows that do not.
ShowToasts(count) ==
  \E shown \in SeqOf({h \in Handles : ~toasts[h].window}, count) :
    /\ IsInjective(shown)
    /\ \E discarded \in SUBSET {h \in Handles \ ToSet(shown) : ~toasts[h].window} :
         /\ Len(shown) + Cardinality(discarded) <= count
         /\ \E timers \in [ToSet(shown) -> BOOLEAN], discards \in [discarded -> Discarded] :
              LET all == [h \in Handles |->
                            IF Contains(shown, h) THEN New(timers[h])
                            ELSE IF h \in discarded THEN discards[h]
                            ELSE toasts[h]]
              IN /\ active' = Valid(all, active \o shown)
                 /\ toasts' = RepositionToasts(all, active')

\* Close, killing the other timer as well.
CloseKillingBoth(toast, timer) ==
  IF toast.closing THEN toast
  ELSE [toast EXCEPT !.closing = TRUE, !.autoClose = FALSE, !.fadeOut = FALSE]

\* Close: only the first one does something.
Close(toast, timer) ==
  IF toast.closing THEN toast
  ELSE [toast EXCEPT !.closing = TRUE, !.autoClose = FALSE,
                     !.fadeOut = timer, !.refused = @ \/ ~timer]

Closes(h) ==
  /\ \E timer \in BOOLEAN : toasts' = [toasts EXCEPT ![h] = Close(@, timer)]
  /\ UNCHANGED active

AutoClose(h) ==
  /\ toasts[h].window /\ toasts[h].autoClose
  /\ Closes(h)

\* On the cross or anywhere else, which brings up the main window as well.
Click(h) ==
  /\ toasts[h].window
  /\ Closes(h)

\* WM_DESTROY, leaving the handle to the next RepositionToasts to clean up.
LeftForCleanup(h) == active

\* WM_DESTROY takes the handle off the list.
TakenOff(h) == Keep(active, Handles \ {h})

\* DestroyWindow: WM_DESTROY, while the window still is one, then WM_NCDESTROY.
DestroyWindow(h) ==
  /\ active' = Valid(toasts, TakenOff(h))
  /\ toasts' = [RepositionToasts(toasts, active') EXCEPT ![h] = NcDestroy(@, TRUE)]

\* A tick that ends it when alpha_ is 0, which it skips.
FadeOutAtZero(h) ==
  /\ toasts[h].window /\ toasts[h].fadeOut
  /\ IF toasts[h].alpha = FadeStep
     THEN DestroyWindow(h)
     ELSE /\ toasts' = [toasts EXCEPT ![h].alpha = @ - FadeStep]
          /\ UNCHANGED active

\* A tick of the second timer; one that would leave nothing is the last.
FadeOut(h) ==
  /\ toasts[h].window /\ toasts[h].fadeOut
  /\ IF toasts[h].alpha <= FadeStep
     THEN DestroyWindow(h)
     ELSE /\ toasts' = [toasts EXCEPT ![h].alpha = @ - FadeStep]
          /\ UNCHANGED active

-----------------------------------------------------------------------------
(* Properties                                                              *)

\* Every object is deleted once, and with its window: never while the window can
\* still call into it, never twice when its creation fails.
OneOwner == \A h \in Handles : toasts[h].deleted = IF toasts[h].window THEN 0 ELSE 1

\* The windows are those on the list, each in a place of its own, the newest at the
\* bottom and no place left out.
Stacked ==
  /\ ToSet(active) = {h \in Handles : toasts[h].window}
  /\ \A i \in DOMAIN active : toasts[active[i]].place = Len(active) - i

\* A toast on the screen has the timer of its stage running, whatever clicks and ticks
\* come in between, or it was refused one: five seconds opaque, then fading; it never
\* fades before it closes, never closes again once it fades, and goes before it could
\* not be seen any more.
RightTimerRuns ==
  \A h \in Handles :
    toasts[h].window =>
      /\ toasts[h].autoClose \/ toasts[h].fadeOut \/ toasts[h].refused
      /\ toasts[h].closing => ~toasts[h].autoClose
      /\ toasts[h].fadeOut \/ toasts[h].alpha < Opaque => toasts[h].closing
      /\ toasts[h].alpha > 0

\* Every toast goes away, unless it was refused a timer.
ToastsGo ==
  \A h \in Handles : toasts[h].window ~> (~toasts[h].window \/ toasts[h].refused)
=============================================================================
