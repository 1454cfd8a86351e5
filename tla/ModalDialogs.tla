---------------------------- MODULE ModalDialogs ----------------------------
(***************************************************************************)
(* What the program relies on Windows for when it opens a modal dialog     *)
(* (DialogBoxParamW, MessageBoxW): the call runs a message loop of its own *)
(* and returns when that loop ends.  Calls nest, so the dialogs form a     *)
(* stack, the last one being the one whose loop runs.                      *)
(*                                                                         *)
(* That loop delivers the messages of every window.  A modal dialog        *)
(* disables its owner against input, if the owner was enabled, and enables *)
(* it again when EndDialog is called; its call returns only when the loops *)
(* begun after it have ended.  Windows are numbered: 0 is the main window, *)
(* k the dialog at place k of the stack.                                   *)
(***************************************************************************)
EXTENDS Naturals, Sequences

Results == {"open", "ok", "cancel"}

\* The user can work with window w.
Enabled(dialogs, w) ==
  ~ \E k \in DOMAIN dialogs :
      /\ dialogs[k].owner = w
      /\ dialogs[k].disables
      /\ dialogs[k].result = "open"

\* The user can work with dialog k: it is of that kind, on screen and enabled.
InUse(dialogs, k, kind) ==
  /\ dialogs[k].kind = kind
  /\ dialogs[k].result = "open"
  /\ Enabled(dialogs, k)

\* A loop is running: no dialog that has ended waits on top for its call to
\* return, which it does before the next message.
Dispatching(dialogs) ==
  dialogs # <<>> => dialogs[Len(dialogs)].result = "open"

\* The stack with a dialog of that kind over window owner, and its own state.
Opened(dialogs, kind, owner, data) ==
  Append(dialogs, [kind |-> kind, owner |-> owner, result |-> "open",
                   disables |-> Enabled(dialogs, owner), data |-> data])

\* EndDialog.
Ended(dialogs, k, result) == [dialogs EXCEPT ![k].result = result]
=============================================================================
