--------------------------- MODULE SavedSettings ---------------------------
(***************************************************************************)
(* What is promised of the settings, however many handlers write them and  *)
(* through whatever dialogs, temporary files, mutexes and restarts: the    *)
(* next start finds what the user chose last, or the saving of it is still *)
(* to come or has failed.  A write never brings back anything else.        *)
(*                                                                         *)
(* A choice is forgotten while it is not saved, and what is on disk then   *)
(* takes its place; or it is replaced by an earlier one that was held back *)
(* until after it.  The user changes the theme or the filter, never both   *)
(* at once.  Nothing is promised while two instances work side by side.    *)
(***************************************************************************)
CONSTANTS
  ReadBack,  \* what becomes of a filter that is written and read
  Default    \* the settings where there is no file

VARIABLES
  chosen,  \* the theme and the filter the user chose last
  held,    \* choices made before it that are still to take its place
  stored,  \* what the next start would find
  dirty,   \* a save is pending, under way or failed
  mixed    \* two instances work side by side

savedVars == <<chosen, held, stored, dirty, mixed>>

IsFilter(f, g) == f \in {g, ReadBack[g]}

Agrees(s, c) == s.theme = c.theme /\ IsFilter(s.filter, c.filter)

SavedInit ==
  /\ stored = chosen
  /\ held = {}
  /\ dirty = FALSE
  /\ mixed = FALSE

\* What is held back from now on was accepted with the filter chosen so far.
HoldBack == \A c \in held' \ held : IsFilter(c.filter, chosen.filter)

\* The user chooses, or what is chosen is about to be written once more.
Choose ==
  /\ ~mixed
  /\ dirty'
  /\ chosen'.theme = chosen.theme \/ chosen'.filter = chosen.filter
  /\ HoldBack
  /\ UNCHANGED <<stored, mixed>>

\* What was held back takes the place of the choice made after it.
Revert ==
  /\ ~mixed
  /\ dirty'
  /\ chosen' \in held
  /\ HoldBack
  /\ UNCHANGED <<stored, mixed>>

\* The file cannot be read, and the defaults take the place of what is in it.
Unread ==
  /\ ~mixed
  /\ dirty'
  /\ chosen' = Default
  /\ UNCHANGED <<held, stored, mixed>>

\* What is held back is given up.
Drop ==
  /\ held' \subseteq held
  /\ UNCHANGED <<chosen, stored, dirty, mixed>>

Write ==
  /\ ~mixed
  /\ dirty
  /\ Agrees(stored', chosen)
  /\ UNCHANGED <<chosen, held, mixed>>

\* A save that failed may have removed the file.
Fail ==
  /\ ~mixed
  /\ dirty
  /\ stored' \in {stored, Default}
  /\ UNCHANGED <<chosen, held, dirty, mixed>>

\* The end of an instance that had something unsaved.
Forget ==
  /\ ~mixed
  /\ dirty
  /\ chosen' = stored
  /\ held' \subseteq held
  /\ dirty' = FALSE
  /\ UNCHANGED <<stored, mixed>>

\* Another instance comes to work, both work, and all have gone.
Meet == ~mixed /\ mixed' /\ UNCHANGED stored

Together == mixed /\ mixed'

Part ==
  /\ mixed
  /\ chosen' = stored
  /\ dirty' = FALSE
  /\ mixed' = FALSE
  /\ held' \subseteq held
  /\ UNCHANGED stored

SavedNext ==
  \/ Choose \/ Revert \/ Unread \/ Drop
  \/ Write \/ Fail \/ Forget
  \/ Meet \/ Together \/ Part

SavedSpec == SavedInit /\ [][SavedNext]_savedVars
=============================================================================
