------------------------ MODULE SettingsStoreProofs ------------------------
EXTENDS SettingsStore, SequenceTheorems, TLAPS

(***************************************************************************)
(* The safety properties of SettingsStore, for any number of instances,    *)
(* themes and filters.  The properties speak of one instance at work; what *)
(* makes them inductive is who can be at work: an instance gets there only *)
(* by way of the mutex, and one that still has something to write on its   *)
(* way out keeps the mutex until it is gone, unless it was refused it; and *)
(* a copy on the stack of dialogs is outdated, or agrees with the settings.*)
(***************************************************************************)

\* Phases in which the mutex is held, and those of an instance on its way out.
Holding == {"loading", "running", "restart", "runas"}
Going == {"leaving", "exiting"}

\* s is what the user wants.
Right(s) == s.theme = chosen.theme /\ Survives(s.filter)

\* Whoever works without a restart under way holds the mutex, or was refused it when it
\* was at work already.
Locked ==
  \A i \in Instances :
    /\ phase[i] \in Holding => i \in lock \cup refused
    /\ phase[i] = "loading" => i \in lock
    /\ i \in refused => phase[i] \in Serving \cup Going

\* No write under way, once it replaces the file, leaves a partial one.
Whole ==
  /\ file # Partial
  /\ \A i \in Instances : write[i] # None => write[i].contents \in Settings

\* Where something may be unsaved, and where the pending save has been flushed.
Clean ==
  \A i \in Instances :
    /\ Dirty(i) => phase[i] \in Serving \cup Going
    /\ phase[i] \in {"off", "launched", "loading"} => pendingTheme[i] = None
    /\ phase[i] \in {"restart", "spawn", "runas", "elevate"} \cup Going => ~savePending[i]
    /\ phase[i] \in {"spawn", "elevate"} => write[i] = None

\* At most one instance loads, and unless two have met, at most one is at work, and
\* none while another still has something to write on its way out; who was refused the
\* mutex keeps nobody from loading.
Alone ==
  \A i, j \in Instances :
    i # j =>
      /\ ~(phase[i] = "loading" /\ phase[j] = "loading")
      /\ ~mixed =>
           /\ ~(phase[i] \in Serving /\ phase[j] \in Serving)
           /\ phase[i] \in Serving \cap Holding /\ i \notin refused =>
                phase[j] # "loading"
           /\ Dirty(i) /\ phase[i] \in Going =>
                /\ phase[j] \notin Serving
                /\ ~Dirty(j)
                /\ i \notin refused => phase[j] # "loading"

\* An instance on its way out with something to write still holds the mutex.
LastHolds ==
  \A i \in Instances : Dirty(i) /\ phase[i] \in Going => i \in lock \cup refused

\* The stack of an instance with filter f: an options dialog disables the main window,
\* at most the last one opened is on screen, and that one has the settings as they are,
\* as does any that is not outdated.
StackOK(stack, f) ==
  /\ \A k \in DOMAIN stack :
       stack[k].kind = "options" =>
         /\ stack[k].disables
         /\ stack[k].result = "open" => ~stack[k].data.stale
         /\ ~stack[k].data.stale => stack[k].data.filter = f
  /\ \A j, k \in DOMAIN stack :
       j < k /\ stack[j].kind = "options" /\ stack[k].kind = "options" =>
         stack[j].result # "open"

Copied ==
  \A i \in Instances :
    /\ StackOK(dialogs[i], settings[i].filter)
    /\ dialogs[i] # <<>> => phase[i] \in Serving \cup Going

\* The memory of the instance at work, every write under way, and the file when no
\* write is, agree with what the user wants.
Intent ==
  ~mixed =>
    /\ \A i \in Instances : phase[i] \in Serving => Right(Persisted(i))
    /\ \A i \in Instances : write[i] # None => Right(write[i].contents)
    /\ (\A i \in Instances : Settled(i)) => OnDisk.theme = chosen.theme
    /\ (\A i \in Instances : ~Dirty(i)) => Survives(OnDisk.filter)

IInv ==
  TypeOK /\ Locked /\ Whole /\ Clean /\ Alone /\ LastHolds /\ Copied /\ Intent

-----------------------------------------------------------------------------
(* Stacks of dialogs.                                                      *)

LEMMA FrontOf ==
  ASSUME NEW T, NEW s \in Seq(T), s # <<>>
  PROVE  /\ Front(s) \in Seq(T)
         /\ Len(s) \in Nat \ {0}
         /\ DOMAIN Front(s) = 1..Len(s) - 1
         /\ \A k \in 1..Len(s) - 1 : Front(s)[k] = s[k]
         /\ Last(s) = s[Len(s)]
         /\ Last(s) \in T
<1> DEFINE n == Len(s) - 1
<1>1. Len(s) \in Nat \ {0} /\ s[Len(s)] \in T
  BY EmptySeq
<1>2. n \in Nat /\ \A k \in 1..n : s[k] \in T
  BY <1>1
<1> HIDE DEF n
<1>3. /\ SubSeq(s, 1, n) \in Seq(T)
      /\ Len(SubSeq(s, 1, n)) = n
      /\ \A k \in 1..n : SubSeq(s, 1, n)[k] = s[k]
  BY <1>2
<1>4. DOMAIN SubSeq(s, 1, n) = 1..n
  BY <1>2, <1>3
<1> QED
  BY <1>1, <1>3, <1>4 DEF n, Front, Last

\* What is held back on a stack all of whose dialogs are among those of another.
LEMMA HeldBackOf ==
  ASSUME NEW s, NEW t,
         \A k \in DOMAIN s :
           s[k].kind = "options" /\ s[k].data.stale =>
             \E j \in DOMAIN t : t[j] = s[k]
  PROVE  HeldBack(s) \subseteq HeldBack(t)
BY DEF HeldBack, ToSet

LEMMA OpenedStack ==
  ASSUME NEW s \in Seq(Frames), NEW f \in Filters, StackOK(s, f),
         NEW kind, NEW data,
         \/ kind \in {"restart", "other"} /\ data = None
         \/ /\ kind = "options" /\ data \in Copies /\ ~data.stale /\ data.filter = f
            /\ Enabled(s, 0)
  PROVE  /\ Opened(s, kind, 0, data) \in Seq(Frames)
         /\ StackOK(Opened(s, kind, 0, data), f)
         /\ HeldBack(Opened(s, kind, 0, data)) \subseteq HeldBack(s)
<1> DEFINE frame == [kind |-> kind, owner |-> 0, result |-> "open",
                     disables |-> Enabled(s, 0), data |-> data]
<1>1. frame \in Frames
  BY DEF Frames, Results, Enabled
<1>2. /\ frame.kind = kind /\ frame.result = "open" /\ frame.data = data
      /\ frame.disables = Enabled(s, 0)
  OBVIOUS
<1> HIDE DEF frame
<1>3. /\ Append(s, frame) \in Seq(Frames) /\ Len(s) \in Nat
      /\ DOMAIN Append(s, frame) = DOMAIN s \cup {Len(s) + 1}
      /\ DOMAIN s = 1..Len(s)
      /\ Append(s, frame)[Len(s) + 1] = frame
      /\ \A k \in DOMAIN s : Append(s, frame)[k] = s[k]
  BY <1>1
<1>4. Opened(s, kind, 0, data) = Append(s, frame)
  BY DEF Opened, frame
<1>5. kind = "options" => \A k \in DOMAIN s : s[k].kind = "options" => s[k].result # "open"
  <2> SUFFICES ASSUME Enabled(s, 0), NEW k \in DOMAIN s, s[k].kind = "options"
               PROVE  s[k].result # "open"
    OBVIOUS
  <2>1. s[k] \in Frames /\ s[k].disables
    BY DEF StackOK
  <2>2. s[k].owner = 0
    BY <2>1 DEF Frames
  <2> QED
    BY <2>1, <2>2 DEF Enabled
<1>6. StackOK(Append(s, frame), f)
  <2>1. ASSUME NEW k \in DOMAIN Append(s, frame), Append(s, frame)[k].kind = "options"
        PROVE  /\ Append(s, frame)[k].disables
               /\ Append(s, frame)[k].result = "open" => ~Append(s, frame)[k].data.stale
               /\ ~Append(s, frame)[k].data.stale => Append(s, frame)[k].data.filter = f
    <3>1. CASE k \in DOMAIN s
      BY <1>3, <2>1, <3>1 DEF StackOK
    <3>2. CASE k = Len(s) + 1
      BY <1>2, <1>3, <2>1, <3>2
    <3> QED
      BY <1>3, <3>1, <3>2
  <2>2. ASSUME NEW j \in DOMAIN Append(s, frame), NEW k \in DOMAIN Append(s, frame), j < k,
               Append(s, frame)[j].kind = "options", Append(s, frame)[k].kind = "options"
        PROVE  Append(s, frame)[j].result # "open"
    <3>1. j \in DOMAIN s
      BY <1>3, <2>2
    <3>2. CASE k \in DOMAIN s
      BY <1>3, <2>2, <3>1, <3>2 DEF StackOK
    <3>3. CASE k = Len(s) + 1
      BY <1>2, <1>3, <1>5, <2>2, <3>1, <3>3
    <3> QED
      BY <1>3, <3>2, <3>3
  <2> QED
    BY <2>1, <2>2 DEF StackOK
<1>7. HeldBack(Append(s, frame)) \subseteq HeldBack(s)
  <2>1. ASSUME NEW k \in DOMAIN Append(s, frame),
               Append(s, frame)[k].kind = "options" /\ Append(s, frame)[k].data.stale
        PROVE  \E j \in DOMAIN s : s[j] = Append(s, frame)[k]
    BY <1>2, <1>3, <2>1
  <2> QED
    BY <2>1, HeldBackOf, Zenon
<1> QED
  BY <1>3, <1>4, <1>6, <1>7

\* t is stack s after dialog k has ended; only the theme of its copy may be another.
EndedAs(s, k, end, t) ==
  /\ t \in Seq(Frames)
  /\ DOMAIN t = DOMAIN s
  /\ \A j \in DOMAIN s \ {k} : t[j] = s[j]
  /\ t[k].kind = s[k].kind
  /\ t[k].disables = s[k].disables
  /\ t[k].result = end
  /\ t[k].kind = "options" =>
       /\ t[k].data.stale = s[k].data.stale
       /\ t[k].data.filter = s[k].data.filter

LEMMA EndedStack ==
  ASSUME NEW s \in Seq(Frames), NEW f \in Filters, StackOK(s, f),
         NEW k \in DOMAIN s, s[k].result = "open", NEW end \in {"ok", "cancel"},
         NEW t, EndedAs(s, k, end, t)
  PROVE  t \in Seq(Frames) /\ StackOK(t, f) /\ HeldBack(t) \subseteq HeldBack(s)
<1> USE DEF EndedAs
<1>1. s[k].kind = "options" => ~s[k].data.stale
  BY DEF StackOK
<1>2. StackOK(t, f)
  <2>1. ASSUME NEW j \in DOMAIN t, t[j].kind = "options"
        PROVE  /\ t[j].disables
               /\ t[j].result = "open" => ~t[j].data.stale
               /\ ~t[j].data.stale => t[j].data.filter = f
    <3>1. CASE j = k
      BY <2>1, <3>1 DEF StackOK
    <3>2. CASE j # k
      BY <2>1, <3>2 DEF StackOK
    <3> QED
      BY <3>1, <3>2
  <2>2. ASSUME NEW j \in DOMAIN t, NEW l \in DOMAIN t, j < l,
               t[j].kind = "options", t[l].kind = "options"
        PROVE  t[j].result # "open"
    <3>1. CASE j = k
      BY <3>1
    <3>2. CASE j # k
      <4>1. s[j].kind = "options" /\ s[l].kind = "options"
        BY <2>2, <3>2
      <4> QED
        BY <2>2, <3>2, <4>1 DEF StackOK
    <3> QED
      BY <3>1, <3>2
  <2> QED
    BY <2>1, <2>2 DEF StackOK
<1>3. HeldBack(t) \subseteq HeldBack(s)
  <2>1. ASSUME NEW j \in DOMAIN t, t[j].kind = "options" /\ t[j].data.stale
        PROVE  \E l \in DOMAIN s : s[l] = t[j]
    BY <1>1, <2>1
  <2> QED
    BY <2>1, HeldBackOf, Zenon
<1> QED
  BY <1>2, <1>3

\* EndDialog changes the result of one dialog, and OnSave the theme of its copy.
LEMMA EndedFrames ==
  ASSUME NEW s \in Seq(Frames), NEW k \in DOMAIN s, NEW end \in {"ok", "cancel"}
  PROVE  EndedAs(s, k, end, Ended(s, k, end))
<1> DEFINE frame == [s[k] EXCEPT !.result = end]
<1>1. s[k] \in Frames
  OBVIOUS
<1>2. /\ frame \in Frames
      /\ frame.kind = s[k].kind /\ frame.disables = s[k].disables
      /\ frame.result = end /\ frame.data = s[k].data
  BY <1>1 DEF Frames, Results
<1>3. Ended(s, k, end) = [s EXCEPT ![k] = frame]
  BY DEF Ended
<1> HIDE DEF frame
<1>4. /\ Ended(s, k, end) \in Seq(Frames) /\ DOMAIN Ended(s, k, end) = DOMAIN s
      /\ Ended(s, k, end)[k] = frame
      /\ \A j \in DOMAIN s \ {k} : Ended(s, k, end)[j] = s[j]
  BY <1>2, <1>3
<1> QED
  BY <1>2, <1>4 DEF EndedAs

LEMMA AcceptedFrames ==
  ASSUME NEW s \in Seq(Frames), NEW k \in DOMAIN s, s[k].kind = "options",
         NEW t \in Themes
  PROVE  EndedAs(s, k, "ok", [Ended(s, k, "ok") EXCEPT ![k].data.theme = t])
<1> DEFINE frame == [[s[k] EXCEPT !.result = "ok"] EXCEPT !.data.theme = t]
           stack == [Ended(s, k, "ok") EXCEPT ![k].data.theme = t]
<1>1. s[k] \in [kind : {"options"}, owner : {0}, result : Results, disables : BOOLEAN,
                data : Copies]
  BY DEF Frames
<1>2. /\ frame \in Frames
      /\ frame.kind = s[k].kind /\ frame.disables = s[k].disables
      /\ frame.result = "ok" /\ frame.data.stale = s[k].data.stale
      /\ frame.data.filter = s[k].data.filter
  BY <1>1 DEF Frames, Results, Copies
<1>3. stack = [s EXCEPT ![k] = frame]
  BY DEF Ended
<1> HIDE DEF frame, stack
<1>4. /\ stack \in Seq(Frames) /\ DOMAIN stack = DOMAIN s /\ stack[k] = frame
      /\ \A j \in DOMAIN s \ {k} : stack[j] = s[j]
  BY <1>2, <1>3
<1>5. EndedAs(s, k, "ok", stack)
  BY <1>2, <1>4 DEF EndedAs
<1> QED
  BY <1>5 DEF stack

LEMMA FrontStack ==
  ASSUME NEW s \in Seq(Frames), s # <<>>, NEW f \in Filters, StackOK(s, f)
  PROVE  /\ Front(s) \in Seq(Frames)
         /\ StackOK(Front(s), f)
         /\ HeldBack(Front(s)) \subseteq HeldBack(s)
<1>1. /\ Front(s) \in Seq(Frames)
      /\ DOMAIN Front(s) \subseteq DOMAIN s
      /\ \A k \in DOMAIN Front(s) : Front(s)[k] = s[k]
  BY FrontOf
<1>2. StackOK(Front(s), f)
  BY <1>1 DEF StackOK
<1>3. HeldBack(Front(s)) \subseteq HeldBack(s)
  BY <1>1, HeldBackOf
<1> QED
  BY <1>1, <1>2, <1>3

\* Copies get old when none of them is on screen; what they have is then held back, and
\* it has the filter that was in force, or was so before.
LEMMA OutdatedStack ==
  ASSUME NEW s \in Seq(Frames), NEW f \in Filters, StackOK(s, f), NEW g \in Filters,
         \A k \in DOMAIN s : s[k].kind = "options" => s[k].result # "open"
  PROVE  /\ Outdated(s) \in Seq(Frames)
         /\ StackOK(Outdated(s), g)
         /\ \A c \in HeldBack(Outdated(s)) : c \in HeldBack(s) \/ c.filter = f
<1>1. ASSUME NEW k \in DOMAIN s, s[k].kind = "options"
      PROVE  /\ [s[k] EXCEPT !.data.stale = TRUE] \in Frames
             /\ [s[k] EXCEPT !.data.stale = TRUE].kind = "options"
             /\ [s[k] EXCEPT !.data.stale = TRUE].result = s[k].result
             /\ [s[k] EXCEPT !.data.stale = TRUE].disables = s[k].disables
             /\ [s[k] EXCEPT !.data.stale = TRUE].data.stale
             /\ [s[k] EXCEPT !.data.stale = TRUE].data.theme = s[k].data.theme
             /\ [s[k] EXCEPT !.data.stale = TRUE].data.filter = s[k].data.filter
  <2>1. s[k] \in Frames
    OBVIOUS
  <2>2. s[k] \in [kind : {"options"}, owner : {0}, result : Results, disables : BOOLEAN,
                  data : Copies]
    BY <1>1, <2>1 DEF Frames
  <2> QED
    BY <2>2 DEF Frames, Copies
<1>2. /\ DOMAIN Outdated(s) = DOMAIN s
      /\ \A k \in DOMAIN s :
           Outdated(s)[k] = IF s[k].kind = "options"
                            THEN [s[k] EXCEPT !.data.stale = TRUE] ELSE s[k]
  BY DEF Outdated
<1>3. ASSUME NEW k \in DOMAIN s PROVE Outdated(s)[k] \in Frames
  <2>1. CASE s[k].kind = "options"
    BY <1>1, <1>2, <2>1
  <2>2. CASE s[k].kind # "options"
    BY <1>2, <2>2
  <2> QED
    BY <2>1, <2>2
<1>4. Outdated(s) \in Seq(Frames)
  <2>1. Len(s) \in Nat /\ DOMAIN s = 1..Len(s)
    OBVIOUS
  <2>2. Outdated(s) = [k \in 1..Len(s) |-> Outdated(s)[k]]
    BY <2>1 DEF Outdated
  <2> QED
    BY <1>3, <2>1, <2>2, IsASeq
<1>5. ASSUME NEW k \in DOMAIN s, Outdated(s)[k].kind = "options"
      PROVE  /\ s[k].kind = "options" /\ s[k].disables
             /\ Outdated(s)[k].disables /\ Outdated(s)[k].result # "open"
             /\ Outdated(s)[k].data.stale
  <2>1. s[k].kind = "options"
    BY <1>2, <1>5
  <2>2. s[k].disables
    BY <2>1 DEF StackOK
  <2>3. Outdated(s)[k] = [s[k] EXCEPT !.data.stale = TRUE]
    BY <1>2, <2>1
  <2> QED
    BY <1>1, <2>1, <2>2, <2>3
<1>6. StackOK(Outdated(s), g)
  BY <1>2, <1>5 DEF StackOK
<1>7. ASSUME NEW c \in HeldBack(Outdated(s)) PROVE c \in HeldBack(s) \/ c.filter = f
  <2>1. PICK k \in DOMAIN s :
          /\ Outdated(s)[k].kind = "options"
          /\ c = [theme  |-> Outdated(s)[k].data.theme,
                  filter |-> Outdated(s)[k].data.filter]
    BY <1>2 DEF HeldBack, ToSet
  <2>2. s[k].kind = "options" /\ c = [theme |-> s[k].data.theme, filter |-> s[k].data.filter]
    BY <1>1, <1>2, <2>1
  <2>3. CASE s[k].data.stale
    BY <2>2, <2>3 DEF HeldBack, ToSet
  <2>4. CASE ~s[k].data.stale
    BY <2>2, <2>4 DEF StackOK
  <2> QED
    BY <2>3, <2>4
<1> QED
  BY <1>4, <1>6, <1>7

-----------------------------------------------------------------------------
(* Types.                                                                  *)

LEMMA PersistedType ==
  ASSUME TypeOK, NEW i \in Instances
  PROVE  Persisted(i) \in Settings
BY DEF TypeOK, Persisted, Settings

LEMMA OnDiskType ==
  ASSUME TypeOK
  PROVE  OnDisk \in Settings
BY StoreAssumption DEF TypeOK, OnDisk, Settings

LEMMA SaveType ==
  ASSUME TypeOK, NEW i \in Instances, NEW s \in Settings, Save(i, s)
  PROVE  write' \in [Instances -> Writes \cup {None}]
BY DEF TypeOK, Save, Writes

LEMMA FlushType ==
  ASSUME TypeOK, NEW i \in Instances, Flush(i)
  PROVE  /\ savePending' \in [Instances -> BOOLEAN]
         /\ write' \in [Instances -> Writes \cup {None}]
<1>1. savePending' \in [Instances -> BOOLEAN]
  BY DEF TypeOK, Flush
<1>2. CASE savePending[i]
  BY <1>1, <1>2, PersistedType, SaveType DEF Flush
<1>3. CASE ~savePending[i]
  BY <1>1, <1>3 DEF Flush, TypeOK
<1> QED
  BY <1>2, <1>3

LEMMA WriteTemporaryType ==
  ASSUME TypeOK, NEW i \in Instances, WriteTemporary(i)
  PROVE  TypeOK'
BY DEF WriteTemporary, memory, TypeOK, Writes

LEMMA ReplaceType ==
  ASSUME TypeOK, NEW i \in Instances, Replace(i)
  PROVE  TypeOK'
BY DEF Replace, memory, TypeOK, Writes

LEMMA LaunchType ==
  ASSUME TypeOK, NEW i \in Instances, Launch(i)
  PROVE  TypeOK'
BY DEF Launch, memory, TypeOK, Phases

LEMMA CreateMutexType ==
  ASSUME TypeOK, NEW i \in Instances, CreateMutex(i)
  PROVE  TypeOK'
BY DEF CreateMutex, memory, TypeOK, Phases

LEMMA LoadType ==
  ASSUME TypeOK, NEW i \in Instances, Load(i)
  PROVE  TypeOK'
BY OnDiskType, StoreAssumption DEF Load, SideBySide, TypeOK, Phases

LEMMA ExitType ==
  ASSUME TypeOK, NEW i \in Instances, Exit(i)
  PROVE  TypeOK'
BY OnDiskType, StoreAssumption DEF Exit, Depart, TypeOK, Phases

LEMMA CrashType ==
  ASSUME TypeOK, NEW i \in Instances, Crash(i)
  PROVE  TypeOK'
BY OnDiskType, StoreAssumption DEF Crash, Depart, TypeOK, Phases

\* The stack of an instance and its filter.
LEMMA StackType ==
  ASSUME TypeOK, Copied, NEW i \in Instances
  PROVE  /\ dialogs[i] \in Seq(Frames)
         /\ settings[i].filter \in Filters
         /\ settings[i].theme \in Themes
         /\ StackOK(dialogs[i], settings[i].filter)
BY DEF TypeOK, Copied, Settings

\* The copies an edit of the filter outdates.
LEMMA EditFilterStack ==
  ASSUME TypeOK, Copied, NEW i \in Instances, NEW f \in Filters, EditFilter(i, f)
  PROVE  /\ Outdated(dialogs[i]) \in Seq(Frames)
         /\ StackOK(Outdated(dialogs[i]), f)
         /\ \A c \in HeldBack(Outdated(dialogs[i])) :
              c \in HeldBack(dialogs[i]) \/ c.filter = settings[i].filter
<1>1. Enabled(dialogs[i], 0)
  BY DEF EditFilter, AtHand
<1>2. ASSUME NEW k \in DOMAIN dialogs[i], dialogs[i][k].kind = "options"
      PROVE  dialogs[i][k].result # "open"
  <2>1. dialogs[i][k] \in Frames /\ dialogs[i][k].disables
    BY <1>2, StackType DEF StackOK
  <2>2. dialogs[i][k].owner = 0
    BY <2>1 DEF Frames
  <2> QED
    BY <1>1, <2>1, <2>2 DEF Enabled
<1> QED
  BY <1>2, StackType, OutdatedStack

LEMMA EditFilterType ==
  ASSUME TypeOK, Copied, NEW i \in Instances, NEW f \in Filters, EditFilter(i, f)
  PROVE  TypeOK'
<1>1. settings' \in [Instances -> Settings] /\ chosen' \in Settings
  BY DEF EditFilter, TypeOK, Settings
<1>2. [theme |-> Persisted(i).theme, filter |-> f] \in Settings
  BY PersistedType DEF Settings
<1>3. /\ savePending' \in [Instances -> BOOLEAN]
      /\ write' \in [Instances -> Writes \cup {None}]
  BY <1>2, SaveType DEF EditFilter, TypeOK
<1>4. dialogs' \in [Instances -> Seq(Frames)]
  BY EditFilterStack DEF EditFilter, TypeOK
<1> QED
  BY <1>1, <1>3, <1>4 DEF EditFilter, TypeOK

LEMMA FlushFilterType ==
  ASSUME TypeOK, NEW i \in Instances, FlushFilter(i)
  PROVE  TypeOK'
BY FlushType DEF FlushFilter, TypeOK

LEMMA SaveOtherType ==
  ASSUME TypeOK, NEW i \in Instances, SaveOther(i)
  PROVE  TypeOK'
BY PersistedType DEF SaveOther, Save, memory, TypeOK, Writes

\* The options dialog that has ended on top of the stack, and what is left below it.
LEMMA TakenOver ==
  ASSUME TypeOK, Copied, NEW i \in Instances, Returning(i, {"options"}),
         Last(dialogs[i]).result = "ok"
  PROVE  /\ Last(dialogs[i]).data \in Copies
         /\ ~Last(dialogs[i]).data.stale =>
              Last(dialogs[i]).data.filter = settings[i].filter
         /\ Outdated(Front(dialogs[i])) \in Seq(Frames)
         /\ StackOK(Outdated(Front(dialogs[i])), Last(dialogs[i]).data.filter)
         /\ \A c \in HeldBack(Outdated(Front(dialogs[i]))) :
              c \in HeldBack(dialogs[i]) \/ c.filter = settings[i].filter
         /\ Last(dialogs[i]).data.stale =>
              [theme  |-> Last(dialogs[i]).data.theme,
               filter |-> Last(dialogs[i]).data.filter] \in HeldBack(dialogs[i])
<1> DEFINE s == dialogs[i]
           n == Len(s)
<1>1. s # <<>> /\ Last(s).kind = "options"
  BY DEF Returning, Dispatching
<1>2. s \in Seq(Frames) /\ StackOK(s, settings[i].filter)
  BY StackType
<1>3. /\ Front(s) \in Seq(Frames) /\ n \in Nat \ {0}
      /\ DOMAIN Front(s) = 1..n - 1
      /\ \A k \in 1..n - 1 : Front(s)[k] = s[k]
      /\ Last(s) = s[n] /\ Last(s) \in Frames
  BY <1>1, <1>2, FrontOf, Zenon
<1>4. n \in DOMAIN s /\ s[n].kind = "options" /\ s[n] = Last(s)
  BY <1>1, <1>2, <1>3
<1> HIDE DEF s, n
<1>5. Last(s).data \in Copies
  BY <1>1, <1>3 DEF Frames
<1>6. ~Last(s).data.stale => Last(s).data.filter = settings[i].filter
  BY <1>2, <1>4 DEF StackOK
<1>7. ASSUME NEW k \in DOMAIN Front(s), Front(s)[k].kind = "options"
      PROVE  Front(s)[k].result # "open"
  <2>1. k \in DOMAIN s /\ k < n /\ s[k] = Front(s)[k]
    BY <1>2, <1>3, <1>4, <1>7
  <2> QED
    BY <1>2, <1>4, <1>7, <2>1 DEF StackOK
<1>8. Last(s).data.filter \in Filters
  BY <1>5 DEF Copies
<1>9. StackOK(Front(s), settings[i].filter) /\ HeldBack(Front(s)) \subseteq HeldBack(s)
  BY <1>1, <1>2, FrontStack, StackType DEF s
<1>10. /\ Outdated(Front(s)) \in Seq(Frames)
       /\ StackOK(Outdated(Front(s)), Last(s).data.filter)
       /\ \A c \in HeldBack(Outdated(Front(s))) :
            c \in HeldBack(Front(s)) \/ c.filter = settings[i].filter
  BY <1>3, <1>7, <1>8, <1>9, OutdatedStack, StackType
<1>11. Last(s).data.stale =>
         [theme |-> Last(s).data.theme, filter |-> Last(s).data.filter] \in HeldBack(s)
  BY <1>4 DEF HeldBack, ToSet
<1> QED
  BY <1>5, <1>6, <1>9, <1>10, <1>11 DEF s

\* The stack after the settings have been taken over from its last dialog.
LEMMA TakeOverStack ==
  ASSUME TypeOK, Copied, NEW i \in Instances, TakeOver(i)
  PROVE  /\ dialogs' \in [Instances -> Seq(Frames)]
         /\ \A j \in Instances \ {i} : dialogs'[j] = dialogs[j]
         /\ StackOK(dialogs'[i], Last(dialogs[i]).data.filter)
         /\ \A c \in HeldBack(dialogs'[i]) :
              c \in HeldBack(dialogs[i]) \/ c.filter = settings[i].filter
<1> DEFINE rest == Outdated(Front(dialogs[i]))
           f    == Last(dialogs[i]).data.filter
<1>1. Returning(i, {"options"}) /\ Last(dialogs[i]).result = "ok"
  BY DEF TakeOver, PutInPlace
<1>2. /\ rest \in Seq(Frames) /\ StackOK(rest, f) /\ f \in Filters
      /\ \A c \in HeldBack(rest) : c \in HeldBack(dialogs[i]) \/ c.filter = settings[i].filter
  BY <1>1, TakenOver DEF Copies
<1>3. /\ dialogs \in [Instances -> Seq(Frames)]
      /\ dialogs' = [dialogs EXCEPT ![i] = IF NewTheme(i) THEN Opened(rest, "restart", 0, None)
                                           ELSE rest]
  BY DEF TakeOver, PutInPlace, TypeOK
<1> HIDE DEF rest, f
<1>4. /\ Opened(rest, "restart", 0, None) \in Seq(Frames)
      /\ StackOK(Opened(rest, "restart", 0, None), f)
      /\ HeldBack(Opened(rest, "restart", 0, None)) \subseteq HeldBack(rest)
  BY <1>2, OpenedStack
<1>5. /\ dialogs'[i] \in Seq(Frames) /\ StackOK(dialogs'[i], f)
      /\ HeldBack(dialogs'[i]) \subseteq HeldBack(rest)
  <2>1. CASE NewTheme(i)
    BY <1>3, <1>4, <2>1
  <2>2. CASE ~NewTheme(i)
    BY <1>2, <1>3, <2>2
  <2> QED
    BY <2>1, <2>2
<1>6. /\ dialogs' \in [Instances -> Seq(Frames)]
      /\ \A j \in Instances \ {i} : dialogs'[j] = dialogs[j]
  <2>1. CASE NewTheme(i)
    BY <1>3, <1>4, <2>1
  <2>2. CASE ~NewTheme(i)
    BY <1>2, <1>3, <2>2
  <2> QED
    BY <2>1, <2>2
<1> QED
  BY <1>2, <1>5, <1>6 DEF f

LEMMA TakeOverType ==
  ASSUME TypeOK, Copied, NEW i \in Instances, TakeOver(i)
  PROVE  TypeOK'
<1> DEFINE copy    == Last(dialogs[i]).data
           pending == IF NewTheme(i) THEN copy.theme ELSE None
           now     == [theme |-> settings[i].theme, filter |-> copy.filter]
<1>1. copy \in Copies /\ copy.theme \in Themes /\ copy.filter \in Filters
  BY TakenOver DEF TakeOver, PutInPlace, Copies
<1>2. now \in Settings /\ pending \in Themes \cup {None}
  BY <1>1, StackType DEF Settings
<1>3. /\ settings' = [settings EXCEPT ![i] = now]
      /\ pendingTheme' = [pendingTheme EXCEPT ![i] = pending]
      /\ Save(i, [now EXCEPT !.theme = IF pending = None THEN @ ELSE pending])
      /\ chosen' = [theme |-> copy.theme,
                    filter |-> IF copy.stale THEN copy.filter ELSE chosen.filter]
      /\ UNCHANGED <<lock, elevated, phase, savePending, file, unsaved, refused, mixed>>
  BY DEF TakeOver, PutInPlace
<1>4. [now EXCEPT !.theme = IF pending = None THEN @ ELSE pending] \in Settings
  BY <1>2 DEF Settings
<1> HIDE DEF copy, pending, now
<1>5. write' \in [Instances -> Writes \cup {None}]
  BY <1>3, <1>4, SaveType
<1>6. chosen' \in Settings
  BY <1>1, <1>3 DEF Settings, TypeOK
<1> QED
  BY <1>2, <1>3, <1>5, <1>6, TakeOverStack DEF TypeOK

LEMMA RestartApplicationType ==
  ASSUME TypeOK, Copied, NEW i \in Instances, RestartApplication(i)
  PROVE  TypeOK'
<1>1. phase' \in [Instances -> Phases]
  BY DEF RestartApplication, TypeOK, Phases
<1>2. /\ savePending' \in [Instances -> BOOLEAN]
      /\ write' \in [Instances -> Writes \cup {None}]
  BY FlushType DEF RestartApplication, TypeOK
<1>3. Front(dialogs[i]) \in Seq(Frames)
  BY StackType, FrontOf DEF RestartApplication, Returning, Dispatching
<1>4. dialogs' \in [Instances -> Seq(Frames)]
  BY <1>3 DEF RestartApplication, TypeOK
<1> QED
  BY <1>1, <1>2, <1>4 DEF RestartApplication, TypeOK

LEMMA RestartAsAdministratorType ==
  ASSUME TypeOK, NEW i \in Instances, RestartAsAdministrator(i)
  PROVE  TypeOK'
<1>1. phase' \in [Instances -> Phases]
  BY DEF RestartAsAdministrator, TypeOK, Phases
<1> QED
  BY <1>1, FlushType DEF RestartAsAdministrator, TypeOK

LEMMA NoExecutablePathType ==
  ASSUME TypeOK, NEW i \in Instances, NoExecutablePath(i)
  PROVE  TypeOK'
BY DEF NoExecutablePath, memory, TypeOK, Phases

LEMMA ReleaseSingleInstanceLockType ==
  ASSUME TypeOK, NEW i \in Instances, ReleaseSingleInstanceLock(i)
  PROVE  TypeOK'
BY DEF ReleaseSingleInstanceLock, memory, TypeOK, Phases

LEMMA SpawnSuccessorType ==
  ASSUME TypeOK, NEW i \in Instances, NEW j \in Instances \ {i}, SpawnSuccessor(i, j)
  PROVE  TypeOK'
BY OnDiskType DEF SpawnSuccessor, HandOver, memory, TypeOK, Phases

LEMMA ElevateSuccessorType ==
  ASSUME TypeOK, NEW i \in Instances, NEW j \in Instances \ {i}, ElevateSuccessor(i, j)
  PROVE  TypeOK'
BY OnDiskType DEF ElevateSuccessor, HandOver, memory, TypeOK, Phases

LEMMA RestoreSingleInstanceLockType ==
  ASSUME TypeOK, NEW i \in Instances, RestoreSingleInstanceLock(i)
  PROVE  TypeOK'
BY DEF RestoreSingleInstanceLock, SideBySide, memory, TypeOK, Phases

LEMMA CloseType ==
  ASSUME TypeOK, NEW i \in Instances, Close(i)
  PROVE  TypeOK'
BY PersistedType DEF Close, Save, TypeOK, Writes, Phases

LEMMA DestroyWindowType ==
  ASSUME TypeOK, NEW i \in Instances, DestroyWindow(i)
  PROVE  TypeOK'
<1>1. /\ savePending' \in [Instances -> BOOLEAN]
      /\ write' \in [Instances -> Writes \cup {None}]
  BY FlushType DEF DestroyWindow
<1>2. phase' \in [Instances -> Phases]
  BY DEF DestroyWindow, TypeOK, Phases
<1>3. dialogs' \in [Instances -> Seq(Frames)]
  BY DEF DestroyWindow, TypeOK
<1> QED
  BY <1>1, <1>2, <1>3 DEF DestroyWindow, TypeOK

-----------------------------------------------------------------------------
(* Every action keeps the inductive invariant.                             *)

LEMMA CopiedStep ==
  ASSUME Copied,
         \A j \in Instances :
           \/ dialogs'[j] = <<>>
           \/ /\ phase'[j] \in Serving \cup Going
              /\ \/ dialogs'[j] = dialogs[j] /\ settings'[j].filter = settings[j].filter
                 \/ StackOK(dialogs'[j], settings'[j].filter)
  PROVE  Copied'
<1> SUFFICES ASSUME NEW j \in Instances
             PROVE  /\ StackOK(dialogs'[j], settings'[j].filter)
                    /\ dialogs'[j] # <<>> => phase'[j] \in Serving \cup Going
  BY DEF Copied
<1>1. CASE dialogs'[j] = <<>>
  BY <1>1 DEF StackOK
<1>2. CASE dialogs'[j] # <<>>
  BY <1>2 DEF Copied
<1> QED
  BY <1>1, <1>2

LEMMA SavingUnsettles ==
  ASSUME TypeOK, NEW i \in Instances, NEW s \in Settings, Save(i, s)
  PROVE  write'[i].contents = s /\ ~Settled(i)' /\ Dirty(i)'
<1>1. write'[i] = [step |-> "write", contents |-> s]
  BY DEF Save, TypeOK
<1>2. write'[i] \in Writes
  BY <1>1 DEF Writes
<1>3. write'[i] # None
  BY <1>2, StoreAssumption DEF Writes
<1> QED
  BY <1>1, <1>3 DEF Settled, Dirty

\* An instance at work that is not one of two side by side is the only one with
\* anything unsaved.
LEMMA OnlyOneAtWork ==
  ASSUME IInv, ~mixed, NEW i \in Instances, phase[i] \in Serving
  PROVE  \A j \in Instances \ {i} : ~Dirty(j)
BY DEF IInv, Alone, Clean

LEMMA WriteTemporaryInv ==
  ASSUME IInv, NEW i \in Instances, WriteTemporary(i)
  PROVE  IInv'
<1>1. TypeOK'
  BY WriteTemporaryType DEF IInv
<1>2. Locked'
  BY DEF WriteTemporary, IInv, Locked
<1>3. Whole'
  <2>1. write \in [Instances -> Writes \cup {None}] /\ UNCHANGED file /\ Whole
    BY DEF WriteTemporary, IInv, TypeOK
  <2>2. \/ write' = [write EXCEPT
                     ![i] = [step |-> "replace", contents |-> write[i].contents]]
        \/ write' = [write EXCEPT ![i] = None]
    BY DEF WriteTemporary
  <2>3. write[i] # None
    BY DEF WriteTemporary
  <2> QED
    BY <2>1, <2>2, <2>3 DEF Whole
<1>4. Clean'
  BY DEF WriteTemporary, memory, IInv, TypeOK, Clean, Dirty
<1>5. Alone'
  BY DEF WriteTemporary, memory, IInv, TypeOK, Alone, Dirty
<1>6. LastHolds'
  BY DEF WriteTemporary, memory, IInv, TypeOK, LastHolds, Dirty
<1>7. Copied'
  BY CopiedStep DEF WriteTemporary, memory, IInv, TypeOK, Copied, Serving, Going
<1>8. Intent'
  <2>1. UNCHANGED <<phase, chosen, file, mixed, settings, pendingTheme, savePending>>
    BY DEF WriteTemporary, memory
  <2>2. \A j \in Instances :
          write'[j] # None => write[j] # None /\ write'[j].contents = write[j].contents
    <3>1. write \in [Instances -> Writes \cup {None}]
      BY DEF IInv, TypeOK
    <3>2. \/ write' = [write EXCEPT
                       ![i] = [step |-> "replace", contents |-> write[i].contents]]
          \/ write' = [write EXCEPT ![i] = None]
      BY DEF WriteTemporary
    <3>3. write[i] # None
      BY DEF WriteTemporary
    <3> QED
      BY <3>1, <3>2, <3>3
  <2>3. i \in Instances /\ (write'[i] # None \/ i \in unsaved')
    BY StoreAssumption DEF WriteTemporary, IInv, TypeOK, Writes
  <2>4. /\ OnDisk' = OnDisk
        /\ \A j \in Instances : Persisted(j)' = Persisted(j)
        /\ \A s \in Settings : Right(s)' = Right(s)
    BY <2>1 DEF OnDisk, Persisted, Right, Survives
  <2> QED
    BY <2>1, <2>2, <2>3, <2>4, PersistedType DEF IInv, Whole, Intent, Settled, Dirty
<1> QED
  BY <1>1, <1>2, <1>3, <1>4, <1>5, <1>6, <1>7, <1>8 DEF IInv

LEMMA ReplaceInv ==
  ASSUME IInv, NEW i \in Instances, Replace(i)
  PROVE  IInv'
<1>1. TypeOK'
  BY ReplaceType DEF IInv
<1>2. Locked'
  BY DEF Replace, IInv, Locked
<1>3. Whole'
  BY StoreAssumption DEF Replace, IInv, Whole
<1>4. Clean'
  BY DEF Replace, memory, IInv, Clean, Dirty
<1>5. Alone'
  BY DEF Replace, memory, IInv, Alone, Dirty
<1>6. LastHolds'
  BY DEF Replace, memory, IInv, LastHolds, Dirty
<1>7. Copied'
  BY CopiedStep DEF Replace, memory, IInv, TypeOK, Copied, Serving, Going
<1>8. Intent'
  <2> SUFFICES ASSUME ~mixed PROVE Intent'
    BY DEF Replace, Intent
  <2>1. UNCHANGED <<phase, chosen, mixed, settings, pendingTheme, savePending>>
    BY DEF Replace, memory
  <2>2. \A j \in Instances : write'[j] # None => write[j] # None /\ write'[j] = write[j]
    BY DEF Replace, IInv, TypeOK
  <2>3. \A j \in Instances : Persisted(j)' = Persisted(j)
    BY <2>1 DEF Persisted
  <2>5. ASSUME NEW j \in Instances, phase'[j] \in Serving PROVE Right(Persisted(j))'
    <3>1. Right(Persisted(j))
      BY <2>1, <2>5 DEF IInv, Intent
    <3> QED
      BY <2>1, <2>3, <3>1 DEF Right, Survives
  <2>6. ASSUME NEW j \in Instances, write'[j] # None PROVE Right(write[j].contents)'
    <3>1. Right(write[j].contents) /\ write'[j] = write[j]
      BY <2>2, <2>6 DEF IInv, Intent
    <3> QED
      BY <2>1, <3>1 DEF Right, Survives
  <2>7. CASE i \in unsaved'
    <3>1. ~Settled(i)' /\ Dirty(i)'
      BY <2>7 DEF Settled, Dirty
    <3> QED
      BY <2>5, <2>6, <3>1 DEF Intent
  <2>8. CASE i \notin unsaved'
    <3>1. file' = write[i].contents /\ write[i] # None
      BY <2>8 DEF Replace
    <3>2. file' \in Settings /\ Right(file')
      BY <3>1 DEF IInv, Whole, Intent
    <3>3. OnDisk' = [theme |-> file'.theme, filter |-> ReadBack[file'.filter]]
      BY <3>2 DEF OnDisk
    <3>4. OnDisk'.theme = chosen'.theme /\ Survives(OnDisk.filter)'
      BY <2>1, <3>2, <3>3, StoreAssumption DEF Right, Survives, IInv, TypeOK, Settings
    <3> QED
      BY <2>5, <2>6, <3>4 DEF Intent
  <2> QED
    BY <2>7, <2>8
<1> QED
  BY <1>1, <1>2, <1>3, <1>4, <1>5, <1>6, <1>7, <1>8 DEF IInv

LEMMA LaunchInv ==
  ASSUME IInv, NEW i \in Instances, Launch(i)
  PROVE  IInv'
<1>1. TypeOK'
  BY LaunchType DEF IInv
<1>2. Locked'
  BY DEF Launch, IInv, TypeOK, Locked, Holding, Serving, Going
<1>3. Whole'
  BY DEF Launch, IInv, Whole
<1>4. Clean'
  BY DEF Launch, memory, IInv, Clean, Dirty, Serving, Going
<1>5. Alone'
  BY DEF Launch, memory, IInv, Alone, Dirty, Serving, Going
<1>6. LastHolds'
  BY DEF Launch, memory, IInv, LastHolds, Dirty, Going
<1>7. Copied'
  BY CopiedStep DEF Launch, memory, IInv, TypeOK, Copied, Serving, Going
<1>8. Intent'
  BY DEF Launch, memory, IInv, Intent, Right, Survives, Settled, Dirty, Serving,
         Persisted, OnDisk
<1> QED
  BY <1>1, <1>2, <1>3, <1>4, <1>5, <1>6, <1>7, <1>8 DEF IInv

LEMMA CreateMutexInv ==
  ASSUME IInv, NEW i \in Instances, CreateMutex(i)
  PROVE  IInv'
<1>1. TypeOK'
  BY CreateMutexType DEF IInv
<1>2. Locked'
  BY DEF CreateMutex, IInv, TypeOK, Locked, Holding, Serving, Going
<1>3. Whole'
  BY DEF CreateMutex, IInv, Whole
<1>4. Clean'
  BY DEF CreateMutex, memory, IInv, TypeOK, Clean, Dirty, Serving, Going
<1>5. Alone'
  <2>1. /\ phase \in [Instances -> Phases] /\ UNCHANGED <<mixed, refused>>
        /\ \A j \in Instances : Dirty(j)' <=> Dirty(j)
    BY DEF CreateMutex, memory, IInv, TypeOK, Dirty
  <2>2. ~Dirty(i)
    BY DEF CreateMutex, IInv, Clean, Serving, Going
  <2>3. CASE lock = {} /\ phase' = [phase EXCEPT ![i] = "loading"]
    <3>1. \A j \in Instances : phase[j] \in Holding => j \in refused /\ phase[j] # "loading"
      BY <2>3 DEF IInv, Locked
    <3>2. \A j \in Instances : Dirty(j) /\ phase[j] \in Going => j \in refused
      BY <2>3 DEF IInv, LastHolds
    <3>3. \A j \in Instances : phase[j] # "loading"
      BY <3>1 DEF Holding
    <3> QED
      BY <2>1, <2>2, <2>3, <3>1, <3>2, <3>3 DEF IInv, Alone, Serving, Going, Holding
  <2>4. CASE phase' = [phase EXCEPT ![i] = "off"]
    BY <2>1, <2>2, <2>4 DEF IInv, Alone, Serving, Going, Holding
  <2> QED
    BY <2>3, <2>4 DEF CreateMutex
<1>6. LastHolds'
  BY DEF CreateMutex, memory, IInv, TypeOK, LastHolds, Dirty, Going
<1>7. Copied'
  BY CopiedStep DEF CreateMutex, memory, IInv, TypeOK, Copied, Serving, Going
<1>8. Intent'
  BY DEF CreateMutex, memory, IInv, TypeOK, Intent, Right, Survives, Settled, Dirty,
         Serving, Persisted, OnDisk
<1> QED
  BY <1>1, <1>2, <1>3, <1>4, <1>5, <1>6, <1>7, <1>8 DEF IInv

LEMMA LoadInv ==
  ASSUME IInv, NEW i \in Instances, Load(i)
  PROVE  IInv'
<1>1. TypeOK'
  BY LoadType DEF IInv
<1>2. Locked'
  BY DEF Load, IInv, TypeOK, Locked, Holding, Serving, Going
<1>3. Whole'
  BY DEF Load, IInv, Whole
<1>4. Clean'
  BY DEF Load, IInv, TypeOK, Clean, Dirty, Serving
<1>5. Alone'
  <2>1. CASE mixed'
    BY <2>1 DEF Load, IInv, Alone
  <2>2. CASE ~mixed'
    <3>1. /\ ~mixed
          /\ \A j \in Instances \ {i} :
               phase[j] \notin Serving \cup {"loading"} /\ j \notin refused
      BY <2>2 DEF Load, SideBySide
    <3>2. \A j \in Instances \ {i} : ~Dirty(j)
      <4>1. phase[i] = "loading"
        BY DEF Load
      <4> QED
        BY <3>1, <4>1 DEF IInv, Alone, Clean
    <3>3. \A j \in Instances \ {i} : Dirty(j)' => Dirty(j)
      BY DEF Load, Dirty, IInv, TypeOK
    <3>4. \A j \in Instances \ {i} : phase'[j] = phase[j]
      BY DEF Load, IInv, TypeOK
    <3>5. phase'[i] = "running"
      BY DEF Load, IInv, TypeOK
    <3> QED
      BY <3>1, <3>2, <3>3, <3>4 DEF Alone
  <2> QED
    BY <2>1, <2>2
<1>6. LastHolds'
  BY DEF Load, SideBySide, IInv, Locked, Clean, LastHolds, Dirty, Holding
<1>7. Copied'
  BY CopiedStep DEF Load, IInv, TypeOK, Copied, Serving, Going
<1>8. Intent'
  <2> SUFFICES ASSUME ~mixed' PROVE Intent'
    BY DEF Intent
  <2>1. /\ ~mixed
        /\ \A j \in Instances \ {i} :
             phase[j] \notin Serving \cup {"loading"} /\ j \notin refused
    BY DEF Load, SideBySide
  <2>2. phase[i] = "loading" /\ pendingTheme[i] = None /\ ~Dirty(i)
    BY DEF Load, IInv, Clean, Serving, Going
  <2>3. \A j \in Instances \ {i} : ~Dirty(j)
    BY <2>1, <2>2 DEF IInv, Alone, Clean
  <2>4. OnDisk.theme = chosen.theme /\ Survives(OnDisk.filter)
    BY <2>1, <2>2, <2>3 DEF IInv, Intent, Dirty, Settled
  <2>5. /\ \A j \in Instances : phase'[j] \in Serving => j = i
        /\ \A j \in Instances : write'[j] = None
        /\ UNCHANGED <<pendingTheme, file>>
    BY <2>1, <2>2, <2>3 DEF Load, Dirty
  <2>6. OnDisk' = OnDisk
    BY <2>5 DEF OnDisk
  <2>7. PICK readable \in BOOLEAN :
          /\ settings' = [settings EXCEPT ![i] = IF readable THEN OnDisk ELSE Default]
          /\ chosen' = IF readable THEN chosen ELSE Default
          /\ unsaved' = IF readable THEN unsaved ELSE unsaved \cup {i}
    BY DEF Load
  <2>8. Persisted(i)' = [theme |-> settings'[i].theme, filter |-> settings'[i].filter]
    BY <2>2, <2>5 DEF Persisted
  <2>9. CASE readable
    <3>1. settings'[i] = OnDisk /\ chosen' = chosen
      BY <2>7, <2>9 DEF IInv, TypeOK
    <3>2. Right(Persisted(i))'
      BY <2>4, <2>8, <3>1 DEF Right, Survives
    <3>3. OnDisk'.theme = chosen'.theme /\ Survives(OnDisk.filter)'
      BY <2>4, <2>6, <3>1 DEF Survives
    <3> QED
      BY <2>5, <3>2, <3>3 DEF Intent
  <2>10. CASE ~readable
    <3>1. settings'[i] = Default /\ chosen' = Default /\ i \in unsaved'
      BY <2>7, <2>10 DEF IInv, TypeOK
    <3>2. Right(Persisted(i))'
      BY <2>8, <3>1 DEF Right, Survives
    <3> QED
      BY <2>5, <3>1, <3>2 DEF Intent, Settled, Dirty
  <2> QED
    BY <2>9, <2>10
<1> QED
  BY <1>1, <1>2, <1>3, <1>4, <1>5, <1>6, <1>7, <1>8 DEF IInv

\* An instance that is gone leaves what was not saved; what the others agree with is
\* what the user wants, or there are no others at work.
LEMMA DepartIntent ==
  ASSUME IInv, NEW i \in Instances, phase[i] # "off", Depart(i)
  PROVE  Intent'
<1> SUFFICES ASSUME ~mixed' PROVE Intent'
  BY DEF Intent
<1>1. /\ UNCHANGED file
      /\ phase'[i] = "off" /\ write'[i] = None /\ ~savePending'[i] /\ i \notin unsaved'
      /\ \A j \in Instances \ {i} :
           /\ phase'[j] = phase[j] /\ write'[j] = write[j]
           /\ settings'[j] = settings[j] /\ pendingTheme'[j] = pendingTheme[j]
           /\ savePending'[j] = savePending[j] /\ (j \in unsaved' <=> j \in unsaved)
  BY DEF Depart, IInv, TypeOK
<1>2. /\ OnDisk' = OnDisk
      /\ ~Dirty(i)' /\ \A j \in Instances \ {i} : Dirty(j)' <=> Dirty(j)
      /\ \A j \in Instances \ {i} : Persisted(j)' = Persisted(j)
  BY <1>1 DEF OnDisk, Dirty, Persisted
<1>3. CASE mixed \/ Dirty(i)
  <2>1. chosen' = OnDisk
    BY <1>3 DEF Depart, Dirty
  <2>2. OnDisk'.theme = chosen'.theme /\ Survives(OnDisk.filter)'
    BY <1>2, <2>1 DEF Survives
  <2>3. \A j \in Instances \ {i} : phase[j] \notin Serving /\ write[j] = None
    <3>1. CASE mixed
      <4>1. \A j \in Instances \ {i} : phase[j] \in {"off", "launched"}
        BY <3>1 DEF Depart
      <4>2. QED
        BY <4>1 DEF IInv, Clean, Dirty, Serving, Going
    <3>2. CASE ~mixed /\ Dirty(i)
      <4>1. phase[i] \in Serving \cup Going
        BY <3>2 DEF IInv, Clean
      <4>2. CASE phase[i] \in Going
        BY <3>2, <4>2 DEF IInv, Alone, Dirty
      <4>3. CASE phase[i] \in Serving
        <5>1. \A j \in Instances \ {i} : phase[j] \notin Serving
          BY <3>2, <4>3 DEF IInv, Alone
        <5>2. \A j \in Instances \ {i} : phase[j] \in Going => ~Dirty(j)
          BY <3>2, <4>3 DEF IInv, Alone
        <5>3. QED
          BY <5>1, <5>2 DEF IInv, Clean, Dirty
      <4>4. QED
        BY <4>1, <4>2, <4>3
    <3>3. QED
      BY <1>3, <3>1, <3>2
  <2>4. \A j \in Instances : phase'[j] \notin Serving /\ write'[j] = None
    BY <1>1, <2>3 DEF Serving
  <2>5. QED
    BY <2>2, <2>4 DEF Intent
<1>4. CASE ~mixed /\ ~Dirty(i)
  <2>1. chosen' = chosen
    BY <1>4 DEF Depart, Dirty
  <2>2. \A j \in Instances : phase'[j] \in Serving => Right(Persisted(j))'
    <3>1. \A j \in Instances \ {i} : phase[j] \in Serving => Right(Persisted(j))
      BY <1>4 DEF IInv, Intent
    <3>2. QED
      BY <1>1, <1>2, <2>1, <3>1 DEF Right, Survives, Serving
  <2>3. \A j \in Instances : write'[j] # None => Right(write[j].contents)'
    <3>1. \A j \in Instances \ {i} : write[j] # None => Right(write[j].contents)
      BY <1>4 DEF IInv, Intent
    <3>2. QED
      BY <1>1, <2>1, <3>1 DEF Right, Survives
  <2>4. (\A j \in Instances : Settled(j)') => OnDisk'.theme = chosen'.theme
    <3>1. (\A j \in Instances : Settled(j)) => OnDisk.theme = chosen.theme
      BY <1>4 DEF IInv, Intent
    <3>2. \A j \in Instances : Settled(j)' => Settled(j)
      BY <1>1, <1>4 DEF Settled, Dirty
    <3>3. QED
      BY <1>2, <2>1, <3>1, <3>2
  <2>5. (\A j \in Instances : ~Dirty(j)') => Survives(OnDisk.filter)'
    <3>1. (\A j \in Instances : ~Dirty(j)) => Survives(OnDisk.filter)
      BY <1>4 DEF IInv, Intent
    <3>2. QED
      BY <1>2, <1>4, <2>1, <3>1 DEF Survives
  <2>6. QED
    BY <1>1, <2>2, <2>3, <2>4, <2>5 DEF Intent
<1>5. QED
  BY <1>3, <1>4

LEMMA DepartAlone ==
  ASSUME IInv, NEW i \in Instances, Depart(i)
  PROVE  Alone'
<1>1. /\ phase'[i] = "off" /\ ~Dirty(i)'
      /\ \A j \in Instances \ {i} :
           /\ phase'[j] = phase[j] /\ (Dirty(j)' <=> Dirty(j))
           /\ j \in refused' <=> j \in refused
  BY DEF Depart, IInv, TypeOK, Dirty
<1>2. CASE mixed'
  <2>1. \A j \in Instances \ {i} : phase'[j] = phase[j]
    BY <1>1
  <2> QED
    BY <1>1, <1>2, <2>1 DEF IInv, Alone
<1>3. CASE ~mixed' /\ ~mixed
  BY <1>1, <1>3 DEF IInv, Alone, Serving, Going
<1>4. CASE ~mixed' /\ mixed
  <2>1. \A j \in Instances \ {i} : phase[j] \in {"off", "launched"}
    BY <1>4 DEF Depart
  <2> QED
    BY <1>1, <2>1 DEF Alone, Serving, Going
<1> QED
  BY <1>2, <1>3, <1>4

LEMMA ExitInv ==
  ASSUME IInv, NEW i \in Instances, Exit(i)
  PROVE  IInv'
<1>1. TypeOK'
  BY ExitType DEF IInv
<1>2. Locked'
  BY DEF Exit, Depart, IInv, TypeOK, Locked, Holding, Serving, Going
<1>3. Whole'
  BY DEF Exit, Depart, IInv, Whole
<1>4. Clean'
  BY DEF Exit, Depart, IInv, TypeOK, Clean, Dirty
<1>5. Alone'
  BY DepartAlone DEF Exit
<1>6. LastHolds'
  BY DEF Exit, Depart, IInv, TypeOK, LastHolds, Dirty, Going
<1>7. Copied'
  BY CopiedStep DEF Exit, Depart, IInv, TypeOK, Copied, Serving, Going
<1>8. Intent'
  BY DepartIntent DEF Exit
<1> QED
  BY <1>1, <1>2, <1>3, <1>4, <1>5, <1>6, <1>7, <1>8 DEF IInv

LEMMA CrashInv ==
  ASSUME IInv, NEW i \in Instances, Crash(i)
  PROVE  IInv'
<1>1. TypeOK'
  BY CrashType DEF IInv
<1>2. Locked'
  BY DEF Crash, Depart, IInv, TypeOK, Locked, Holding, Serving, Going
<1>3. Whole'
  BY DEF Crash, Depart, IInv, Whole
<1>4. Clean'
  BY DEF Crash, Depart, IInv, TypeOK, Clean, Dirty
<1>5. Alone'
  BY DepartAlone DEF Crash
<1>6. LastHolds'
  BY DEF Crash, Depart, IInv, TypeOK, LastHolds, Dirty, Going
<1>7. Copied'
  BY CopiedStep DEF Crash, Depart, IInv, TypeOK, Copied, Serving, Going
<1>8. Intent'
  BY DepartIntent DEF Crash
<1> QED
  BY <1>1, <1>2, <1>3, <1>4, <1>5, <1>6, <1>7, <1>8 DEF IInv

\* A flush saves what the memory of the only instance at work has.
LEMMA FlushIntent ==
  ASSUME IInv, NEW i \in Instances, Flush(i), phase[i] \in Serving,
         \A j \in Instances : phase'[j] \in Serving => phase[j] \in Serving,
         UNCHANGED <<settings, pendingTheme, file, chosen, unsaved, mixed>>
  PROVE  Intent'
<1> SUFFICES ASSUME ~mixed PROVE Intent'
  BY DEF Intent
<1>1. /\ \A j \in Instances : Persisted(j)' = Persisted(j)
      /\ OnDisk' = OnDisk
  BY DEF Persisted, OnDisk
<1>2. \A j \in Instances : phase[j] \in Serving => Right(Persisted(j))
  BY DEF IInv, Intent
<1>3. \A j \in Instances : phase'[j] \in Serving => Right(Persisted(j))'
  BY <1>1, <1>2 DEF Right, Survives
<1>4. CASE savePending[i]
  <2>1. Save(i, Persisted(i)) /\ TypeOK
    BY <1>4 DEF Flush, IInv
  <2>2. \A j \in Instances \ {i} : write'[j] = write[j]
    BY <2>1 DEF Save, TypeOK
  <2>3. write'[i].contents = Persisted(i) /\ ~Settled(i)' /\ Dirty(i)'
    BY <2>1, PersistedType, SavingUnsettles
  <2>4. \A j \in Instances : write'[j] # None => Right(write[j].contents)'
    <3>1. Right(write[i].contents)'
      BY <1>1, <1>2, <2>3 DEF Right, Survives
    <3>2. \A j \in Instances \ {i} : write[j] # None => Right(write[j].contents)
      BY DEF IInv, Intent
    <3> QED
      BY <2>2, <3>1, <3>2 DEF Right, Survives
  <2> QED
    BY <1>3, <2>3, <2>4 DEF Intent
<1>5. CASE ~savePending[i]
  <2>1. UNCHANGED write /\ \A j \in Instances : savePending'[j] <=> savePending[j]
    BY <1>5 DEF Flush, IInv, TypeOK
  <2>2. \A j \in Instances : (Settled(j)' <=> Settled(j)) /\ (Dirty(j)' <=> Dirty(j))
    BY <2>1 DEF Settled, Dirty
  <2>3. /\ \A j \in Instances : write[j] # None => Right(write[j].contents)
        /\ (\A j \in Instances : Settled(j)) => OnDisk.theme = chosen.theme
        /\ (\A j \in Instances : ~Dirty(j)) => Survives(OnDisk.filter)
    BY DEF IInv, Intent
  <2>4. \A j \in Instances : write'[j] # None => Right(write[j].contents)'
    BY <2>1, <2>3 DEF Right, Survives
  <2>5. /\ (\A j \in Instances : Settled(j)') => OnDisk'.theme = chosen'.theme
        /\ (\A j \in Instances : ~Dirty(j)') => Survives(OnDisk.filter)'
    BY <1>1, <2>2, <2>3 DEF Survives
  <2> QED
    BY <1>3, <2>4, <2>5 DEF Intent
<1> QED
  BY <1>4, <1>5

LEMMA FlushWhole ==
  ASSUME IInv, NEW i \in Instances, Flush(i), UNCHANGED file
  PROVE  Whole'
<1>1. write \in [Instances -> Writes \cup {None}] /\ Whole
  BY DEF IInv, TypeOK
<1>2. UNCHANGED write \/ Save(i, Persisted(i))
  BY DEF Flush
<1>3. Persisted(i) \in Settings
  BY PersistedType DEF IInv
<1> QED
  BY <1>1, <1>2, <1>3 DEF Save, Whole

LEMMA EditFilterInv ==
  ASSUME IInv, NEW i \in Instances, NEW f \in Filters, EditFilter(i, f)
  PROVE  IInv'
<1>1. TypeOK'
  BY EditFilterType DEF IInv
<1>2. Locked'
  BY DEF EditFilter, IInv, Locked
<1>3. Whole'
  <2>1. [theme |-> Persisted(i).theme, filter |-> f] \in Settings
    BY PersistedType DEF IInv, Settings
  <2> QED
    BY <2>1 DEF EditFilter, Save, IInv, TypeOK, Whole
<1>4. Clean'
  BY DEF EditFilter, AtHand, Ready, Save, IInv, TypeOK, Clean, Dirty, Serving, Going
<1>5. Alone'
  BY DEF EditFilter, AtHand, Ready, Save, IInv, TypeOK, Alone, Dirty, Serving, Going
<1>6. LastHolds'
  BY DEF EditFilter, AtHand, Ready, Save, IInv, TypeOK, LastHolds, Dirty, Going
<1>7. Copied'
  <2>1. /\ StackOK(Outdated(dialogs[i]), f)
        /\ dialogs'[i] = Outdated(dialogs[i]) /\ settings'[i].filter = f
        /\ phase'[i] = "running"
    BY EditFilterStack DEF EditFilter, AtHand, Ready, IInv, TypeOK
  <2>2. \A j \in Instances \ {i} :
          dialogs'[j] = dialogs[j] /\ settings'[j] = settings[j] /\ phase'[j] = phase[j]
    BY DEF EditFilter, IInv, TypeOK
  <2>3. Copied
    BY DEF IInv
  <2> QED
    BY <2>1, <2>2, <2>3, CopiedStep DEF Copied, Serving
<1>8. Intent'
  <2> SUFFICES ASSUME ~mixed PROVE Intent'
    BY DEF EditFilter, Intent
  <2>1. phase[i] \in Serving
    BY DEF EditFilter, AtHand, Ready, Serving
  <2>2. Right(Persisted(i))
    BY <2>1 DEF IInv, Intent
  <2>3. /\ settings'[i] = [theme |-> settings[i].theme, filter |-> f]
        /\ chosen' = [theme |-> chosen.theme, filter |-> f]
        /\ UNCHANGED <<phase, pendingTheme>>
    BY DEF EditFilter, IInv, TypeOK
  <2>4. Persisted(i)' = [theme |-> Persisted(i).theme, filter |-> f]
    BY <2>3 DEF Persisted
  <2>5. Right(Persisted(i))'
    BY <2>2, <2>3, <2>4 DEF Right, Survives
  <2>6. \A j \in Instances \ {i} : phase'[j] \notin Serving /\ write'[j] = None
    <3>1. \A j \in Instances \ {i} : phase[j] \notin Serving /\ ~Dirty(j)
      BY <2>1 DEF IInv, Alone, Clean
    <3>2. \A j \in Instances \ {i} : write'[j] = write[j]
      BY DEF EditFilter, Save, IInv, TypeOK
    <3> QED
      BY <2>3, <3>1, <3>2 DEF Dirty
  <2>7. CASE UNCHANGED write /\ savePending' = [savePending EXCEPT ![i] = TRUE]
    <3>1. Dirty(i)' /\ write'[i] = None
      BY <2>7 DEF EditFilter, AtHand, Ready, IInv, TypeOK, Dirty
    <3>2. (\A j \in Instances : Settled(j)') => OnDisk'.theme = chosen'.theme
      <4>1. (\A j \in Instances : Settled(j)) => OnDisk.theme = chosen.theme
        BY DEF IInv, Intent
      <4>2. UNCHANGED <<file, unsaved>>
        BY DEF EditFilter
      <4>3. OnDisk' = OnDisk /\ \A j \in Instances : Settled(j)' <=> Settled(j)
        BY <2>7, <4>2 DEF OnDisk, Settled
      <4> QED
        BY <2>3, <4>1, <4>3
    <3> QED
      BY <2>5, <2>6, <3>1, <3>2 DEF Intent
  <2>8. CASE Save(i, [theme |-> Persisted(i).theme, filter |-> f])
    <3>1. [theme |-> Persisted(i).theme, filter |-> f] \in Settings
      BY PersistedType DEF IInv, Settings
    <3>2. /\ write'[i].contents = [theme |-> Persisted(i).theme, filter |-> f]
          /\ ~Settled(i)' /\ Dirty(i)'
      BY <2>8, <3>1, SavingUnsettles DEF IInv
    <3>3. Right(write[i].contents)'
      BY <2>4, <2>5, <3>2 DEF Right, Survives
    <3> QED
      BY <2>5, <2>6, <3>2, <3>3 DEF Intent
  <2> QED
    BY <2>7, <2>8 DEF EditFilter
<1> QED
  BY <1>1, <1>2, <1>3, <1>4, <1>5, <1>6, <1>7, <1>8 DEF IInv

LEMMA FlushFilterInv ==
  ASSUME IInv, NEW i \in Instances, FlushFilter(i)
  PROVE  IInv'
<1>1. TypeOK'
  BY FlushFilterType DEF IInv
<1>2. Locked'
  BY DEF FlushFilter, IInv, Locked
<1>3. Whole'
  BY FlushWhole DEF FlushFilter
<1>4. Clean'
  BY DEF FlushFilter, Flush, Save, IInv, TypeOK, Clean, Dirty
<1>5. Alone'
  BY DEF FlushFilter, Flush, Save, IInv, TypeOK, Alone, Dirty
<1>6. LastHolds'
  BY DEF FlushFilter, Flush, Save, IInv, TypeOK, LastHolds, Dirty
<1>7. Copied'
  BY CopiedStep DEF FlushFilter, Ready, IInv, TypeOK, Copied, Serving, Going
<1>8. Intent'
  BY FlushIntent DEF FlushFilter, Ready, IInv, TypeOK, Serving
<1> QED
  BY <1>1, <1>2, <1>3, <1>4, <1>5, <1>6, <1>7, <1>8 DEF IInv

LEMMA SaveOtherInv ==
  ASSUME IInv, NEW i \in Instances, SaveOther(i)
  PROVE  IInv'
<1>1. TypeOK'
  BY SaveOtherType DEF IInv
<1>2. Locked'
  BY DEF SaveOther, IInv, Locked
<1>3. Whole'
  BY PersistedType DEF SaveOther, Save, IInv, Whole
<1>4. Clean'
  BY DEF SaveOther, AtHand, Ready, Save, memory, IInv, Clean, Dirty, Serving
<1>5. Alone'
  BY DEF SaveOther, AtHand, Ready, Save, memory, IInv, Alone, Dirty, Serving, Going
<1>6. LastHolds'
  BY DEF SaveOther, AtHand, Ready, Save, memory, IInv, LastHolds, Dirty, Going
<1>7. Copied'
  BY CopiedStep
    DEF SaveOther, AtHand, Ready, memory, IInv, TypeOK, Copied, Serving, Going
<1>8. Intent'
  BY DEF SaveOther, AtHand, Ready, Save, memory, IInv, Intent, Right, Survives, Settled, Dirty,
         Serving, Persisted, OnDisk
<1> QED
  BY <1>1, <1>2, <1>3, <1>4, <1>5, <1>6, <1>7, <1>8 DEF IInv

\* Dialogs open, end and return; but for the options taken over and a restart, nothing
\* else changes, and nothing more is held back.
DialogStep(i) ==
  \/ OpenOptionsDialog(i)
  \/ OpenOther(i)
  \/ \E k \in DOMAIN dialogs[i] :
       \/ \E t \in Themes : AcceptOptions(i, k, t)
       \/ AgreeToRestart(i, k)
       \/ Cancel(i, k)
  \/ Return(i)

OnlyDialogs(i, stack) ==
  /\ phase[i] = "running"
  /\ dialogs' = [dialogs EXCEPT ![i] = stack]
  /\ UNCHANGED <<lock, elevated, phase, settings, pendingTheme, savePending, write, file,
                 chosen, unsaved, refused, mixed>>

LEMMA EndStep ==
  ASSUME TypeOK, Copied, NEW i \in Instances, NEW k \in DOMAIN dialogs[i],
         \/ \E t \in Themes : AcceptOptions(i, k, t)
         \/ AgreeToRestart(i, k)
         \/ Cancel(i, k)
  PROVE  \E stack \in Seq(Frames) :
           /\ OnlyDialogs(i, stack)
           /\ StackOK(stack, settings[i].filter)
           /\ HeldBack(stack) \subseteq HeldBack(dialogs[i])
<1>1. PICK stack : \E end \in {"ok", "cancel"} :
        End(i, k, stack) /\ EndedAs(dialogs[i], k, end, stack)
  <2>1. dialogs[i] \in Seq(Frames)
    BY StackType
  <2>2. ASSUME NEW t \in Themes, AcceptOptions(i, k, t)
        PROVE  \E stack : \E end \in {"ok", "cancel"} :
                 End(i, k, stack) /\ EndedAs(dialogs[i], k, end, stack)
    BY <2>1, <2>2, AcceptedFrames DEF AcceptOptions
  <2>3. ASSUME NEW end \in {"ok", "cancel"}, End(i, k, Ended(dialogs[i], k, end))
        PROVE  EndedAs(dialogs[i], k, end, Ended(dialogs[i], k, end))
    BY <2>1, EndedFrames
  <2> QED
    BY <2>2, <2>3 DEF AgreeToRestart, Cancel
<1>2. /\ dialogs[i] \in Seq(Frames) /\ settings[i].filter \in Filters
      /\ StackOK(dialogs[i], settings[i].filter)
  BY StackType
<1>3. OnlyDialogs(i, stack) /\ dialogs[i][k].result = "open"
  BY <1>1 DEF End, Ready, OnlyDialogs
<1>4. /\ stack \in Seq(Frames) /\ StackOK(stack, settings[i].filter)
      /\ HeldBack(stack) \subseteq HeldBack(dialogs[i])
  BY <1>1, <1>2, <1>3, EndedStack
<1> QED
  BY <1>3, <1>4

LEMMA DialogStack ==
  ASSUME TypeOK, Copied, NEW i \in Instances, DialogStep(i)
  PROVE  \E stack \in Seq(Frames) :
           /\ OnlyDialogs(i, stack)
           /\ StackOK(stack, settings[i].filter)
           /\ HeldBack(stack) \subseteq HeldBack(dialogs[i])
<1>1. CASE OpenOptionsDialog(i)
  <2> DEFINE data  == [theme |-> Persisted(i).theme, filter |-> settings[i].filter,
                       stale |-> FALSE]
             stack == Opened(dialogs[i], "options", 0, data)
  <2>1. OnlyDialogs(i, stack) /\ Enabled(dialogs[i], 0)
    BY <1>1 DEF OpenOptionsDialog, AtHand, Ready, Open, OnlyDialogs
  <2>2. data \in Copies /\ ~data.stale /\ data.filter = settings[i].filter
    BY PersistedType, StackType DEF Copies, Settings
  <2> HIDE DEF data
  <2>3. /\ stack \in Seq(Frames) /\ StackOK(stack, settings[i].filter)
        /\ HeldBack(stack) \subseteq HeldBack(dialogs[i])
    BY <2>1, <2>2, StackType, OpenedStack
  <2> QED
    BY <2>1, <2>3
<1>2. CASE OpenOther(i)
  <2> DEFINE stack == Opened(dialogs[i], "other", 0, None)
  <2>1. OnlyDialogs(i, stack)
    BY <1>2 DEF OpenOther, Ready, Open, OnlyDialogs
  <2>2. /\ stack \in Seq(Frames) /\ StackOK(stack, settings[i].filter)
        /\ HeldBack(stack) \subseteq HeldBack(dialogs[i])
    BY StackType, OpenedStack
  <2> QED
    BY <2>1, <2>2
<1>3. CASE Return(i)
  <2>1. OnlyDialogs(i, Front(dialogs[i])) /\ dialogs[i] # <<>>
    BY <1>3 DEF Return, Returning, Dispatching, OnlyDialogs
  <2>2. /\ Front(dialogs[i]) \in Seq(Frames)
        /\ StackOK(Front(dialogs[i]), settings[i].filter)
        /\ HeldBack(Front(dialogs[i])) \subseteq HeldBack(dialogs[i])
    BY <2>1, StackType, FrontStack
  <2> QED
    BY <2>1, <2>2
<1> QED
  BY <1>1, <1>2, <1>3, EndStep DEF DialogStep

LEMMA DialogStepInv ==
  ASSUME IInv, NEW i \in Instances, DialogStep(i)
  PROVE  IInv'
<1>1. PICK stack \in Seq(Frames) :
        OnlyDialogs(i, stack) /\ StackOK(stack, settings[i].filter)
  BY DialogStack DEF IInv
<1>2. /\ phase[i] = "running" /\ dialogs' = [dialogs EXCEPT ![i] = stack]
      /\ UNCHANGED <<lock, elevated, phase, settings, pendingTheme, savePending, write,
                     file, chosen, unsaved, refused, mixed>>
  BY <1>1 DEF OnlyDialogs
<1>3. TypeOK'
  BY <1>2 DEF IInv, TypeOK
<1>4. Locked' /\ Whole' /\ Clean' /\ Alone' /\ LastHolds'
  BY <1>2 DEF IInv, Locked, Whole, Clean, Alone, LastHolds, Dirty
<1>5. Copied'
  BY <1>1, <1>2, CopiedStep DEF IInv, TypeOK, Copied, Serving
<1>6. Intent'
  BY <1>2 DEF IInv, Intent, Right, Survives, Settled, Dirty, Persisted, OnDisk
<1> QED
  BY <1>3, <1>4, <1>5, <1>6 DEF IInv

LEMMA TakeOverInv ==
  ASSUME IInv, NEW i \in Instances, TakeOver(i)
  PROVE  IInv'
<1> DEFINE copy    == Last(dialogs[i]).data
           pending == IF NewTheme(i) THEN copy.theme ELSE None
           now     == [theme |-> settings[i].theme, filter |-> copy.filter]
           saved   == [theme |-> copy.theme, filter |-> copy.filter]
<1>0. TypeOK /\ Copied
  BY DEF IInv
<1>1. /\ phase[i] = "running"
      /\ Returning(i, {"options"}) /\ Last(dialogs[i]).result = "ok"
      /\ settings' = [settings EXCEPT ![i] = now]
      /\ pendingTheme' = [pendingTheme EXCEPT ![i] = pending]
      /\ Save(i, [now EXCEPT !.theme = IF pending = None THEN @ ELSE pending])
      /\ chosen' = [theme |-> copy.theme,
                    filter |-> IF copy.stale THEN copy.filter ELSE chosen.filter]
      /\ UNCHANGED <<lock, elevated, phase, savePending, file, unsaved, refused, mixed>>
  BY DEF TakeOver, PutInPlace, Returning
<1>2. /\ copy \in Copies /\ copy.theme \in Themes /\ copy.filter \in Filters
      /\ ~copy.stale => copy.filter = settings[i].filter
  BY <1>0, <1>1, TakenOver DEF Copies
<1>3. [now EXCEPT !.theme = IF pending = None THEN @ ELSE pending] = saved
  BY <1>2, StoreAssumption DEF NewTheme
<1>4. saved \in Settings
  BY <1>2 DEF Settings
<1>5. pending \in Themes => pending = copy.theme
  BY <1>2, StoreAssumption
<1>6. pending = None => copy.theme = settings[i].theme
  BY <1>2, StoreAssumption DEF NewTheme
<1>7. pending = None \/ pending \in Themes
  BY <1>2
<1>8. TypeOK'
  BY <1>0, TakeOverType
<1> HIDE DEF copy, pending
<1>9. write' = [write EXCEPT ![i] = [step |-> "write", contents |-> saved]]
  BY <1>1, <1>3 DEF Save
<1>10. write'[i] # None /\ write'[i].contents = saved
  <2>1. [step |-> "write", contents |-> saved] \in Writes
    BY <1>4 DEF Writes
  <2> HIDE DEF saved
  <2>2. [step |-> "write", contents |-> saved] # None
    BY <2>1, StoreAssumption DEF Writes
  <2> QED
    BY <1>0, <1>9, <2>2 DEF TypeOK
<1>11. ~Settled(i)' /\ Dirty(i)'
  BY <1>10 DEF Settled, Dirty
<1>12. \A j \in Instances \ {i} :
         /\ settings'[j] = settings[j] /\ pendingTheme'[j] = pendingTheme[j]
         /\ write'[j] = write[j] /\ (Dirty(j)' <=> Dirty(j))
  BY <1>0, <1>1, <1>9 DEF TypeOK, Dirty
<1>13. Locked'
  BY <1>1 DEF IInv, Locked
<1>14. Whole'
  BY <1>1, <1>4, <1>10, <1>12 DEF IInv, Whole
<1>15. Clean'
  BY <1>1, <1>12 DEF IInv, Clean, Serving, Going
<1>16. Alone'
  BY <1>1, <1>12 DEF IInv, Alone, Serving, Going
<1>17. LastHolds'
  BY <1>1, <1>12 DEF IInv, LastHolds, Going
<1>18. settings'[i] = now
  BY <1>0, <1>1 DEF TypeOK
<1>19. Copied'
  <2>1. /\ \A j \in Instances \ {i} : dialogs'[j] = dialogs[j]
        /\ StackOK(dialogs'[i], copy.filter)
    BY <1>0, TakeOverStack DEF copy
  <2> QED
    BY <1>0, <1>1, <1>12, <1>18, <2>1, CopiedStep DEF Copied, Serving
<1>20. Intent'
  <2> SUFFICES ASSUME ~mixed PROVE Intent'
    BY <1>1 DEF Intent
  <2>1. phase[i] \in Serving
    BY <1>1 DEF Serving
  <2>2. Survives(settings[i].filter)
    BY <2>1 DEF IInv, Intent, Right, Persisted
  <2>3. copy.filter \in {chosen'.filter, ReadBack[chosen'.filter]}
    <3>1. CASE copy.stale
      BY <1>1, <3>1
    <3>2. CASE ~copy.stale
      BY <1>1, <1>2, <2>2, <3>2 DEF Survives
    <3> QED
      BY <3>1, <3>2
  <2>4. chosen'.theme = copy.theme
    BY <1>1
  <2>5. Persisted(i)' = saved
    <3>1. pendingTheme'[i] = pending
      BY <1>0, <1>1 DEF TypeOK
    <3> QED
      BY <1>5, <1>6, <1>7, <1>18, <3>1, StoreAssumption DEF Persisted
  <2>6. Right(Persisted(i))' /\ Right(write[i].contents)'
    BY <1>10, <2>3, <2>4, <2>5 DEF Right, Survives
  <2>7. \A j \in Instances \ {i} : phase'[j] \notin Serving /\ write'[j] = None
    <3>1. \A j \in Instances \ {i} : phase[j] \notin Serving /\ ~Dirty(j)
      BY <2>1 DEF IInv, Alone, Clean
    <3> QED
      BY <1>1, <1>12, <3>1 DEF Dirty
  <2> QED
    BY <1>11, <2>6, <2>7 DEF Intent
<1> QED
  BY <1>8, <1>13, <1>14, <1>15, <1>16, <1>17, <1>19, <1>20 DEF IInv

LEMMA RestartApplicationInv ==
  ASSUME IInv, NEW i \in Instances, RestartApplication(i)
  PROVE  IInv'
<1>1. TypeOK'
  BY RestartApplicationType DEF IInv
<1>2. Locked'
  BY DEF RestartApplication, Returning, IInv, TypeOK, Locked, Holding, Serving
<1>3. Whole'
  BY FlushWhole DEF RestartApplication
<1>4. Clean'
  BY DEF RestartApplication, Flush, Save, IInv, TypeOK, Clean, Dirty, Serving, Going
<1>5. Alone'
  BY DEF RestartApplication, Returning, Flush, Save, IInv, TypeOK, Alone, Dirty,
         Serving, Going, Holding
<1>6. LastHolds'
  BY DEF RestartApplication, Flush, Save, IInv, TypeOK, LastHolds, Dirty, Going
<1>7. Copied'
  <2>1. dialogs[i] # <<>>
    BY DEF RestartApplication, Returning, Dispatching
  <2>2. StackOK(Front(dialogs[i]), settings[i].filter)
    BY <2>1, StackType, FrontStack DEF IInv
  <2>3. dialogs' = [dialogs EXCEPT ![i] = Front(dialogs[i])] /\ UNCHANGED settings
    BY DEF RestartApplication
  <2>4. /\ phase'[i] \in Serving
        /\ \A j \in Instances \ {i} : phase'[j] = phase[j]
    BY DEF RestartApplication, IInv, TypeOK, Serving
  <2> QED
    BY <2>2, <2>3, <2>4, CopiedStep DEF IInv, TypeOK, Copied
<1>8. Intent'
  BY FlushIntent DEF RestartApplication, Returning, IInv, TypeOK, Serving
<1> QED
  BY <1>1, <1>2, <1>3, <1>4, <1>5, <1>6, <1>7, <1>8 DEF IInv

LEMMA RestartAsAdministratorInv ==
  ASSUME IInv, NEW i \in Instances, RestartAsAdministrator(i)
  PROVE  IInv'
<1>1. TypeOK'
  BY RestartAsAdministratorType DEF IInv
<1>2. Locked'
  BY DEF RestartAsAdministrator, AtHand, Ready, IInv, TypeOK, Locked, Holding,
         Serving, Going
<1>3. Whole'
  BY FlushWhole DEF RestartAsAdministrator
<1>4. Clean'
  BY DEF RestartAsAdministrator, Flush, Save, IInv, TypeOK, Clean, Dirty, Serving
<1>5. Alone'
  BY DEF RestartAsAdministrator, AtHand, Ready, Flush, Save, IInv, TypeOK, Alone, Dirty,
         Serving, Going, Holding
<1>6. LastHolds'
  BY DEF RestartAsAdministrator, Flush, Save, IInv, TypeOK, LastHolds, Dirty, Going
<1>7. Copied'
  BY CopiedStep
    DEF RestartAsAdministrator, AtHand, Ready, IInv, TypeOK, Copied, Serving, Going
<1>8. Intent'
  BY FlushIntent DEF RestartAsAdministrator, AtHand, Ready, IInv, TypeOK, Serving
<1> QED
  BY <1>1, <1>2, <1>3, <1>4, <1>5, <1>6, <1>7, <1>8 DEF IInv

LEMMA NoExecutablePathInv ==
  ASSUME IInv, NEW i \in Instances, NoExecutablePath(i)
  PROVE  IInv'
<1>1. TypeOK'
  BY NoExecutablePathType DEF IInv
<1>2. Locked'
  BY DEF NoExecutablePath, Restarting, IInv, TypeOK, Locked, Holding, Serving, Going
<1>3. Whole'
  BY DEF NoExecutablePath, IInv, Whole
<1>4. Clean'
  BY DEF NoExecutablePath, memory, IInv, Clean, Dirty, Serving, Going
<1>5. Alone'
  BY DEF NoExecutablePath, Restarting, memory, IInv, Alone, Dirty, Serving, Going, Holding
<1>6. LastHolds'
  BY DEF NoExecutablePath, memory, IInv, LastHolds, Dirty, Going
<1>7. Copied'
  BY CopiedStep
    DEF NoExecutablePath, Restarting, memory, IInv, TypeOK, Copied, Serving, Going
<1>8. Intent'
  BY DEF NoExecutablePath, Restarting, memory, IInv, Intent, Right, Survives, Settled, Dirty,
         Serving, Persisted, OnDisk
<1> QED
  BY <1>1, <1>2, <1>3, <1>4, <1>5, <1>6, <1>7, <1>8 DEF IInv

LEMMA ReleaseSingleInstanceLockInv ==
  ASSUME IInv, NEW i \in Instances, ReleaseSingleInstanceLock(i)
  PROVE  IInv'
<1>1. TypeOK'
  BY ReleaseSingleInstanceLockType DEF IInv
<1>2. Locked'
  BY DEF ReleaseSingleInstanceLock, IInv, TypeOK, Locked, Holding, Serving, Going
<1>3. Whole'
  BY DEF ReleaseSingleInstanceLock, IInv, Whole
<1>4. Clean'
  BY DEF ReleaseSingleInstanceLock, Restarting, memory, IInv, Clean, Dirty, Serving
<1>5. Alone'
  BY DEF ReleaseSingleInstanceLock, Restarting, memory, IInv, Alone, Dirty, Serving, Going,
         Holding
<1>6. LastHolds'
  BY DEF ReleaseSingleInstanceLock, memory, IInv, TypeOK, LastHolds, Dirty, Going
<1>7. Copied'
  BY CopiedStep
    DEF ReleaseSingleInstanceLock, Restarting, memory, IInv, TypeOK, Copied, Serving, Going
<1>8. Intent'
  BY DEF ReleaseSingleInstanceLock, Restarting, memory, IInv, Intent, Right, Survives,
         Settled, Dirty, Serving, Persisted, OnDisk
<1> QED
  BY <1>1, <1>2, <1>3, <1>4, <1>5, <1>6, <1>7, <1>8 DEF IInv

LEMMA SpawnSuccessorInv ==
  ASSUME IInv, NEW i \in Instances, NEW j \in Instances \ {i}, SpawnSuccessor(i, j)
  PROVE  IInv'
<1>1. TypeOK'
  BY SpawnSuccessorType DEF IInv
<1>2. Locked'
  BY DEF SpawnSuccessor, IInv, TypeOK, Locked, Holding, Serving, Going
<1>3. Whole'
  BY DEF SpawnSuccessor, IInv, Whole
<1>4. Clean'
  BY DEF SpawnSuccessor, HandOver, memory, IInv, TypeOK, Clean, Dirty, Serving, Going
<1>5. Alone'
  BY DEF SpawnSuccessor, HandOver, memory, IInv, TypeOK, Clean, Alone, Dirty, Serving
<1>6. LastHolds'
  BY DEF SpawnSuccessor, HandOver, memory, IInv, TypeOK, Clean, LastHolds, Dirty, Serving
<1>7. Copied'
  BY CopiedStep DEF SpawnSuccessor, memory, IInv, TypeOK, Copied, Serving, Going
<1>8. Intent'
  BY DEF SpawnSuccessor, HandOver, IInv, TypeOK, Clean, Alone, Intent, Survives,
         Settled, Dirty, Serving, OnDisk
<1> QED
  BY <1>1, <1>2, <1>3, <1>4, <1>5, <1>6, <1>7, <1>8 DEF IInv

LEMMA ElevateSuccessorInv ==
  ASSUME IInv, NEW i \in Instances, NEW j \in Instances \ {i}, ElevateSuccessor(i, j)
  PROVE  IInv'
<1>1. TypeOK'
  BY ElevateSuccessorType DEF IInv
<1>2. Locked'
  BY DEF ElevateSuccessor, IInv, TypeOK, Locked, Holding, Serving, Going
<1>3. Whole'
  BY DEF ElevateSuccessor, IInv, Whole
<1>4. Clean'
  BY DEF ElevateSuccessor, HandOver, memory, IInv, TypeOK, Clean, Dirty, Serving, Going
<1>5. Alone'
  BY DEF ElevateSuccessor, HandOver, memory, IInv, TypeOK, Clean, Alone, Dirty, Serving
<1>6. LastHolds'
  BY DEF ElevateSuccessor, HandOver, memory, IInv, TypeOK, Clean, LastHolds, Dirty,
         Serving
<1>7. Copied'
  BY CopiedStep DEF ElevateSuccessor, memory, IInv, TypeOK, Copied, Serving, Going
<1>8. Intent'
  BY DEF ElevateSuccessor, HandOver, IInv, TypeOK, Clean, Alone, Intent, Survives,
         Settled, Dirty, Serving, OnDisk
<1> QED
  BY <1>1, <1>2, <1>3, <1>4, <1>5, <1>6, <1>7, <1>8 DEF IInv

LEMMA RestoreSingleInstanceLockInv ==
  ASSUME IInv, NEW i \in Instances, RestoreSingleInstanceLock(i)
  PROVE  IInv'
<1>1. TypeOK'
  BY RestoreSingleInstanceLockType DEF IInv
<1>2. Locked'
  BY DEF RestoreSingleInstanceLock, IInv, TypeOK, Locked, Holding, Serving, Going
<1>3. Whole'
  BY DEF RestoreSingleInstanceLock, IInv, Whole
<1>4. Clean'
  BY DEF RestoreSingleInstanceLock, memory, IInv, Clean, Dirty, Serving
<1>5. Alone'
  <2>1. /\ phase' = [phase EXCEPT ![i] = "running"] /\ phase \in [Instances -> Phases]
        /\ phase[i] \in {"spawn", "elevate"}
        /\ \A j \in Instances : Dirty(j)' <=> Dirty(j)
        /\ \A j \in Instances \ {i} : j \in refused' <=> j \in refused
    BY DEF RestoreSingleInstanceLock, memory, IInv, TypeOK, Dirty
  <2>2. CASE mixed'
    BY <2>1, <2>2 DEF IInv, Alone
  <2>3. CASE ~mixed'
    <3>1. ~mixed /\ \A j \in Instances \ {i} : phase[j] \notin Serving \cup {"loading"}
      BY <2>3 DEF RestoreSingleInstanceLock, SideBySide
    <3>2. \A j \in Instances \ {i} : ~Dirty(j)
      BY <2>1, <3>1, OnlyOneAtWork DEF Serving
    <3> QED
      BY <2>1, <3>1, <3>2 DEF Alone, Serving
  <2> QED
    BY <2>2, <2>3
<1>6. LastHolds'
  BY DEF RestoreSingleInstanceLock, SideBySide, memory, IInv, Clean, LastHolds, Dirty
<1>7. Copied'
  BY CopiedStep
    DEF RestoreSingleInstanceLock, memory, IInv, TypeOK, Copied, Serving, Going
<1>8. Intent'
  BY DEF RestoreSingleInstanceLock, SideBySide, memory, IInv, TypeOK, Intent, Right,
         Survives, Settled, Dirty, Serving, Persisted, OnDisk
<1> QED
  BY <1>1, <1>2, <1>3, <1>4, <1>5, <1>6, <1>7, <1>8 DEF IInv

LEMMA CloseInv ==
  ASSUME IInv, NEW i \in Instances, Close(i)
  PROVE  IInv'
<1>1. TypeOK'
  BY CloseType DEF IInv
<1>2. Locked'
  BY DEF Close, IInv, TypeOK, Locked, Holding, Serving, Going
<1>3. Whole'
  BY PersistedType DEF Close, Save, IInv, Whole
<1>4. Clean'
  BY DEF Close, Save, IInv, TypeOK, Clean, Dirty, Going
<1>5. Alone'
  BY DEF Close, Ready, Save, IInv, Clean, Alone, Dirty, Serving, Holding
<1>6. LastHolds'
  BY DEF Close, Ready, Save, IInv, Locked, LastHolds, Dirty, Holding
<1>7. Copied'
  BY CopiedStep DEF Close, Ready, Persisted, IInv, TypeOK, Copied, Serving, Going
<1>8. Intent'
  BY PersistedType, StoreAssumption
    DEF Close, Ready, Save, IInv, TypeOK, Intent, Right, Survives, Settled, Dirty,
        Serving, Persisted
<1> QED
  BY <1>1, <1>2, <1>3, <1>4, <1>5, <1>6, <1>7, <1>8 DEF IInv

LEMMA DestroyWindowInv ==
  ASSUME IInv, NEW i \in Instances, DestroyWindow(i)
  PROVE  IInv'
<1>1. TypeOK'
  BY DestroyWindowType DEF IInv
<1>2. Locked'
  BY DEF DestroyWindow, IInv, TypeOK, Locked, Holding, Serving, Going
<1>3. Whole'
  BY FlushWhole DEF DestroyWindow
<1>4. Clean'
  BY DEF DestroyWindow, Flush, Save, IInv, TypeOK, Clean, Dirty, Going
<1>5. Alone'
  BY DEF DestroyWindow, Flush, IInv, Clean, Alone, Dirty, Serving
<1>6. LastHolds'
  BY DEF DestroyWindow, Flush, IInv, Clean, LastHolds, Dirty, Going
<1>7. Copied'
  BY CopiedStep DEF DestroyWindow, IInv, TypeOK, Copied, Serving, Going
<1>8. Intent'
  BY DEF DestroyWindow, Flush, IInv, Clean, Intent, Right, Survives, Settled,
         Dirty, Serving, Persisted, OnDisk
<1> QED
  BY <1>1, <1>2, <1>3, <1>4, <1>5, <1>6, <1>7, <1>8 DEF IInv

-----------------------------------------------------------------------------
LEMMA InvInit ==
  ASSUME Init
  PROVE  IInv
<1>1. TypeOK
  <2>1. OnDisk \in Settings
    BY StoreAssumption DEF Init, OnDisk, Settings
  <2>2. dialogs \in [Instances -> Seq(Frames)]
    BY DEF Init
  <2> QED
    BY <2>1, <2>2, StoreAssumption DEF Init, TypeOK, Phases
<1>2. Locked /\ Whole /\ Clean /\ Alone /\ LastHolds /\ Copied
  BY StoreAssumption
    DEF Init, Locked, Whole, Clean, Alone, LastHolds, Copied, StackOK, Dirty, Serving,
        Holding
<1>3. OnDisk = chosen /\ \A i \in Instances : phase[i] = "off" /\ write[i] = None
  BY DEF Init
<1>4. Intent
  BY <1>3 DEF Intent, Survives, Serving
<1> QED
  BY <1>1, <1>2, <1>4 DEF IInv

LEMMA InvStep ==
  ASSUME IInv, [Next]_vars
  PROVE  IInv'
<1>1. CASE UNCHANGED vars
  BY <1>1
    DEF vars, memory, IInv, TypeOK, Locked, Whole, Clean, Alone, LastHolds, Copied,
        Intent, Dirty, Right, Survives, Settled, Persisted, OnDisk
<1>2. CASE Next
  <2> SUFFICES ASSUME NEW i \in Instances,
                      \/ WriteTemporary(i)
                      \/ Replace(i)
                      \/ Launch(i)
                      \/ CreateMutex(i)
                      \/ Load(i)
                      \/ Exit(i)
                      \/ Crash(i)
                      \/ \E f \in Filters : EditFilter(i, f)
                      \/ FlushFilter(i)
                      \/ SaveOther(i)
                      \/ DialogStep(i)
                      \/ TakeOver(i)
                      \/ RestartApplication(i)
                      \/ RestartAsAdministrator(i)
                      \/ NoExecutablePath(i)
                      \/ ReleaseSingleInstanceLock(i)
                      \/ \E j \in Instances \ {i} : SpawnSuccessor(i, j)
                      \/ \E j \in Instances \ {i} : ElevateSuccessor(i, j)
                      \/ RestoreSingleInstanceLock(i)
                      \/ Close(i)
                      \/ DestroyWindow(i)
               PROVE  IInv'
    BY <1>2 DEF Next, DialogStep
  <2>1. CASE WriteTemporary(i)
    BY <2>1, WriteTemporaryInv
  <2>2. CASE Replace(i)
    BY <2>2, ReplaceInv
  <2>3. CASE Launch(i)
    BY <2>3, LaunchInv
  <2>4. CASE CreateMutex(i)
    BY <2>4, CreateMutexInv
  <2>5. CASE Load(i)
    BY <2>5, LoadInv
  <2>6. CASE Exit(i)
    BY <2>6, ExitInv
  <2>7. CASE Crash(i)
    BY <2>7, CrashInv
  <2>8. CASE \E f \in Filters : EditFilter(i, f)
    BY <2>8, EditFilterInv
  <2>9. CASE FlushFilter(i)
    BY <2>9, FlushFilterInv
  <2>10. CASE SaveOther(i)
    BY <2>10, SaveOtherInv
  <2>11. CASE DialogStep(i)
    BY <2>11, DialogStepInv
  <2>12. CASE TakeOver(i)
    BY <2>12, TakeOverInv
  <2>13. CASE RestartApplication(i)
    BY <2>13, RestartApplicationInv
  <2>14. CASE RestartAsAdministrator(i)
    BY <2>14, RestartAsAdministratorInv
  <2>15. CASE NoExecutablePath(i)
    BY <2>15, NoExecutablePathInv
  <2>16. CASE ReleaseSingleInstanceLock(i)
    BY <2>16, ReleaseSingleInstanceLockInv
  <2>17. CASE \E j \in Instances \ {i} : SpawnSuccessor(i, j)
    BY <2>17, SpawnSuccessorInv
  <2>18. CASE \E j \in Instances \ {i} : ElevateSuccessor(i, j)
    BY <2>18, ElevateSuccessorInv
  <2>19. CASE RestoreSingleInstanceLock(i)
    BY <2>19, RestoreSingleInstanceLockInv
  <2>20. CASE Close(i)
    BY <2>20, CloseInv
  <2>21. CASE DestroyWindow(i)
    BY <2>21, DestroyWindowInv
  <2> QED
    BY <2>1, <2>2, <2>3, <2>4, <2>5, <2>6, <2>7, <2>8, <2>9, <2>10, <2>11, <2>12, <2>13,
       <2>14, <2>15, <2>16, <2>17, <2>18, <2>19, <2>20, <2>21
<1> QED
  BY <1>1, <1>2

-----------------------------------------------------------------------------
(* What the invariant says of the five properties.                         *)

LEMMA InvTheme ==
  ASSUME IInv
  PROVE  ThemeKept
<1> SUFFICES ASSUME ~mixed PROVE ThemeKept
  BY DEF ThemeKept
<1>1. ASSUME NEW i \in Instances, phase[i] \in Serving
      PROVE  /\ Persisted(i).theme = chosen.theme
             /\ Settled(i) => OnDisk.theme = chosen.theme
  <2>1. Persisted(i).theme = chosen.theme
    BY <1>1 DEF IInv, Intent, Right
  <2>2. Settled(i) => \A j \in Instances : Settled(j)
    BY <1>1, OnlyOneAtWork DEF Settled, Dirty
  <2> QED
    BY <2>1, <2>2 DEF IInv, Intent
<1>2. Idle => \A i \in Instances : Settled(i)
  BY DEF Idle, IInv, Clean, Dirty, Settled, Serving, Going
<1> QED
  BY <1>1, <1>2 DEF ThemeKept, IInv, Intent

LEMMA InvFilter ==
  ASSUME IInv
  PROVE  FilterKept
<1> SUFFICES ASSUME ~mixed PROVE FilterKept
  BY DEF FilterKept
<1>1. ASSUME NEW i \in Instances, phase[i] \in Serving
      PROVE  /\ Survives(settings[i].filter)
             /\ Settled(i) /\ ~savePending[i] => Survives(OnDisk.filter)
  <2>1. Survives(settings[i].filter)
    BY <1>1 DEF IInv, Intent, Right, Persisted
  <2>2. Settled(i) /\ ~savePending[i] => \A j \in Instances : ~Dirty(j)
    BY <1>1, OnlyOneAtWork DEF Settled, Dirty
  <2> QED
    BY <2>1, <2>2 DEF IInv, Intent
<1>2. Idle => \A i \in Instances : ~Dirty(i)
  BY DEF Idle, IInv, Clean, Serving, Going
<1> QED
  BY <1>1, <1>2 DEF FilterKept, IInv, Intent

\* The inductive invariant holds in every reachable state.
THEOREM Invariant == Spec => []IInv
<1>1. Init => IInv
  BY InvInit
<1>2. IInv /\ [Next]_vars => IInv'
  BY InvStep
<1> QED
  BY <1>1, <1>2, PTL DEF Spec

\* Every variable has its type: what is saved, pending or loaded is always a pair of a
\* theme and a filter, and the file is one, absent, or partly written.
THEOREM TypeCorrect == Spec => []TypeOK
<1>1. IInv => TypeOK
  BY DEF IInv
<1> QED
  BY <1>1, Invariant, PTL

\* The theme chosen last is never lost to another save, a restart, a cancelled
\* elevation or the next start, for any number of instances of which one is at work at
\* a time, and however dialogs nest: an options dialog that returns after another one
\* has the last word, whichever was accepted first, and its theme is then what is kept.
THEOREM ThemeNeverLost == Spec => []ThemeKept
<1>1. IInv => ThemeKept
  BY InvTheme
<1> QED
  BY <1>1, Invariant, PTL

\* The filter chosen last is in the file, or its save is pending, or the save failed; a
\* restart or a close never drops a pending one, and neither does an options dialog, but
\* for one that returns after an edit made since its copy was taken: it puts the copied
\* filter in the place of the edited one, and that is then what is kept.
THEOREM FilterNeverLost == Spec => []FilterKept
<1>1. IInv => FilterKept
  BY InvFilter
<1> QED
  BY <1>1, Invariant, PTL

\* The settings file is never one that was written in part, whatever step fails or is
\* cut short, even with instances side by side.
THEOREM NeverPartial == Spec => []FileWhole
<1>1. IInv => FileWhole
  BY DEF IInv, Whole, FileWhole
<1> QED
  BY <1>1, Invariant, PTL

\* A failed or declined restart leaves the instance with its handle of the mutex, and it
\* keeps that for as long as it has anything to write, unless CreateMutexW refused it
\* one when it asked for it again.
THEOREM AlwaysProtected == Spec => []StaysProtected
<1>1. IInv => StaysProtected
  <2> SUFFICES ASSUME IInv, NEW i \in Instances,
                      phase[i] \in {"loading", "running"} \/ savePending[i] \/ write[i] # None
               PROVE  i \in lock \cup refused
    BY DEF StaysProtected
  <2>1. CASE phase[i] \in Holding
    BY <2>1 DEF IInv, Locked
  <2>2. CASE phase[i] \notin Holding
    <3>1. Dirty(i)
      BY <2>2 DEF Dirty, Holding
    <3>2. phase[i] \in Going
      BY <2>2, <3>1 DEF IInv, Clean, Holding, Serving, Dirty
    <3> QED
      BY <3>1, <3>2 DEF IInv, LastHolds
  <2> QED
    BY <2>1, <2>2
<1> QED
  BY <1>1, Invariant, PTL

-----------------------------------------------------------------------------
(* The settings implement SavedSettings.                                   *)

SavedStep == Saved!SavedNext \/ UNCHANGED Saved!savedVars

\* What is held back on the stacks of dialogs when only that of i may have changed.
LEMMA HeldOf ==
  ASSUME NEW i \in Instances, \A j \in Instances \ {i} : dialogs'[j] = dialogs[j]
  PROVE  /\ \A c \in HeldBack(dialogs[i]) : c \in Held
         /\ \A c \in Held' : c \in Held \/ c \in HeldBack(dialogs'[i])
BY DEF Held

LEMMA HeldKept ==
  ASSUME \A j \in Instances : dialogs'[j] = dialogs[j] \/ dialogs'[j] = <<>>
  PROVE  Held' \subseteq Held
<1>1. HeldBack(<<>>) = {}
  BY DEF HeldBack, ToSet
<1> QED
  BY <1>1 DEF Held

\* A step that neither saves nor chooses.
LEMMA QuietStep ==
  ASSUME UNCHANGED <<file, chosen, mixed>>, \A j \in Instances : Dirty(j)' <=> Dirty(j),
         Held' \subseteq Held
  PROVE  SavedStep
<1>1. OnDisk' = OnDisk
  BY DEF OnDisk
<1>2. (\E j \in Instances : Dirty(j))' = (\E j \in Instances : Dirty(j))
  OBVIOUS
<1> QED
  BY <1>1, <1>2 DEF SavedStep, Saved!SavedNext, Saved!Drop

\* A step that leaves something to be saved.
LEMMA ChangingStep ==
  ASSUME ~mixed, UNCHANGED <<file, mixed>>, NEW i \in Instances, Dirty(i)',
         \/ chosen'.theme = chosen.theme
         \/ chosen'.filter = chosen.filter
         \/ chosen' \in Held,
         \A c \in Held' : c \in Held \/ Survives(c.filter)
  PROVE  SavedStep
<1>1. OnDisk' = OnDisk
  BY DEF OnDisk
<1>2. (\E j \in Instances : Dirty(j))' = TRUE
  OBVIOUS
<1>3. Saved!HoldBack
  BY DEF Saved!HoldBack, Saved!IsFilter, Survives
<1> QED
  BY <1>1, <1>2, <1>3 DEF SavedStep, Saved!SavedNext, Saved!Choose, Saved!Revert

\* A save that is under way is one of something not saved yet.
LEMMA WriteIsDirty ==
  ASSUME TypeOK, NEW i \in Instances, write[i] \in Writes
  PROVE  Dirty(i)
BY StoreAssumption DEF Dirty, Writes

\* A flush turns a pending save into one under way.
LEMMA FlushKeepsDirty ==
  ASSUME TypeOK, NEW i \in Instances, Flush(i), UNCHANGED unsaved
  PROVE  \A j \in Instances : Dirty(j)' <=> Dirty(j)
<1>1. CASE savePending[i]
  <2>1. Dirty(i) /\ Dirty(i)'
    BY <1>1, PersistedType, SavingUnsettles DEF Flush, Dirty
  <2>2. \A j \in Instances \ {i} : savePending'[j] = savePending[j] /\ write'[j] = write[j]
    BY <1>1 DEF Flush, Save, TypeOK
  <2>3. QED
    BY <2>1, <2>2 DEF Dirty
<1>2. CASE ~savePending[i]
  <2>1. UNCHANGED write /\ \A j \in Instances : savePending'[j] <=> savePending[j]
    BY <1>2 DEF Flush, TypeOK
  <2>2. QED
    BY <2>1 DEF Dirty
<1>3. QED
  BY <1>1, <1>2

\* Unless two instances work side by side, only one has something unsaved.
LEMMA OnlyOneDirty ==
  ASSUME IInv, ~mixed, NEW i \in Instances, Dirty(i)
  PROVE  \A j \in Instances \ {i} : ~Dirty(j)
<1>1. CASE phase[i] \in Serving
  BY <1>1, OnlyOneAtWork
<1>2. CASE phase[i] \in Going
  BY <1>2 DEF IInv, Alone
<1>3. QED
  BY <1>1, <1>2 DEF IInv, Clean

\* An instance that has nothing left to save gives up what it could not save.
LEMMA ForgettingStep ==
  ASSUME ~mixed, UNCHANGED <<file, mixed>>, NEW i \in Instances, Dirty(i), ~Dirty(i)',
         \A j \in Instances \ {i} : ~Dirty(j)', chosen' = OnDisk, Held' \subseteq Held
  PROVE  SavedStep
<1>1. OnDisk' = OnDisk
  BY DEF OnDisk
<1>2. (\E j \in Instances : Dirty(j))' = FALSE
  OBVIOUS
<1>3. QED
  BY <1>1, <1>2 DEF SavedStep, Saved!SavedNext, Saved!Forget

LEMMA ReplaceSaved ==
  ASSUME IInv, ~mixed, NEW i \in Instances, Replace(i)
  PROVE  SavedStep
<1>1. /\ UNCHANGED <<chosen, mixed, savePending>> /\ write[i] # None
      /\ write'[i] = None
      /\ \/ file' = write[i].contents
         \/ file' \in {file, Absent} /\ i \in unsaved'
      /\ Held' = Held
  BY DEF Replace, memory, Held, IInv, TypeOK
<1>2. \E j \in Instances : Dirty(j)
  BY <1>1 DEF Dirty
<1>3. CASE file' = write[i].contents
  <2>1. file' \in Settings /\ Right(file')
    BY <1>1, <1>3 DEF IInv, Whole, Intent
  <2>2. OnDisk' = [theme |-> file'.theme, filter |-> ReadBack[file'.filter]]
    BY <2>1 DEF OnDisk
  <2>3. OnDisk'.theme = chosen.theme /\ Survives(OnDisk'.filter)
    BY <2>1, <2>2, StoreAssumption DEF Right, Survives, IInv, TypeOK, Settings
  <2>4. QED
    BY <1>1, <1>2, <2>3 DEF SavedStep, Saved!SavedNext, Saved!Write, Saved!Agrees,
                Saved!IsFilter, Survives
<1>4. CASE file' \in {file, Absent} /\ i \in unsaved'
  <2>1. OnDisk' \in {OnDisk, Default}
    BY <1>4, StoreAssumption DEF OnDisk
  <2>2. (\E j \in Instances : Dirty(j))' /\ (\E j \in Instances : Dirty(j))
    BY <1>2, <1>4 DEF Dirty
  <2>3. (\E j \in Instances : Dirty(j))' = (\E j \in Instances : Dirty(j))
    BY <2>2
  <2>4. QED
    BY <1>1, <2>1, <2>2, <2>3 DEF SavedStep, Saved!SavedNext, Saved!Fail
<1>5. QED
  BY <1>1, <1>3, <1>4

LEMMA LoadSaved ==
  ASSUME IInv, ~mixed, ~mixed', NEW i \in Instances, Load(i)
  PROVE  SavedStep
<1>0. UNCHANGED mixed
  BY DEF Load, SideBySide, IInv, TypeOK
<1>1. /\ UNCHANGED <<file, savePending, write, mixed>>
      /\ \/ i \in unsaved' /\ chosen' = Default
         \/ UNCHANGED <<chosen, unsaved>>
      /\ Held' = Held
  BY <1>0 DEF Load, Held
<1>2. CASE i \in unsaved' /\ chosen' = Default
  <2>1. (\E j \in Instances : Dirty(j))' = TRUE
    BY <1>2 DEF Dirty
  <2>2. OnDisk' = OnDisk
    BY <1>1 DEF OnDisk
  <2> QED
    BY <1>1, <1>2, <2>1, <2>2 DEF SavedStep, Saved!SavedNext, Saved!Unread
<1>3. CASE UNCHANGED <<chosen, unsaved>>
  <2>1. \A j \in Instances : Dirty(j)' <=> Dirty(j)
    BY <1>1, <1>3 DEF Dirty
  <2>2. QED
    BY <1>1, <1>3, <2>1, QuietStep
<1>4. QED
  BY <1>1, <1>2, <1>3

LEMMA DepartSaved ==
  ASSUME IInv, NEW i \in Instances, phase[i] # "off", Depart(i), ~(mixed /\ mixed')
  PROVE  SavedStep
<1>1. /\ UNCHANGED file /\ ~mixed'
      /\ write'[i] = None /\ ~savePending'[i] /\ i \notin unsaved'
      /\ \A j \in Instances \ {i} :
           /\ write'[j] = write[j] /\ savePending'[j] = savePending[j]
           /\ j \in unsaved' <=> j \in unsaved
      /\ \A j \in Instances : dialogs'[j] = dialogs[j] \/ dialogs'[j] = <<>>
  BY DEF Depart, IInv, TypeOK
<1>2. Held' \subseteq Held
  BY <1>1, HeldKept
<1>3. ~Dirty(i)' /\ \A j \in Instances \ {i} : Dirty(j)' <=> Dirty(j)
  BY <1>1 DEF Dirty
<1>4. CASE mixed
  <2>1. \A j \in Instances \ {i} : phase[j] \in {"off", "launched"}
    BY <1>1, <1>4 DEF Depart
  <2>2. \A j \in Instances \ {i} : ~Dirty(j)
    BY <2>1 DEF IInv, Clean, Serving, Going
  <2>3. (\E j \in Instances : Dirty(j))' = FALSE
    BY <1>3, <2>2
  <2>4. chosen' = OnDisk /\ mixed' = FALSE /\ OnDisk' = OnDisk
    BY <1>1, <1>4 DEF Depart, OnDisk
  <2>5. QED
    BY <1>2, <1>4, <2>3, <2>4 DEF SavedStep, Saved!SavedNext, Saved!Part
<1>5. CASE ~mixed /\ Dirty(i)
  <2>1. chosen' = OnDisk /\ UNCHANGED mixed
    BY <1>5 DEF Depart, Dirty, IInv, TypeOK
  <2>2. \A j \in Instances \ {i} : ~Dirty(j)'
    BY <1>3, <1>5, OnlyOneDirty
  <2>3. QED
    BY <1>1, <1>2, <1>3, <1>5, <2>1, <2>2, ForgettingStep
<1>6. CASE ~mixed /\ ~Dirty(i)
  <2>1. UNCHANGED <<chosen, mixed>>
    BY <1>6 DEF Depart, Dirty, IInv, TypeOK
  <2>2. QED
    BY <1>1, <1>2, <1>3, <1>6, <2>1, QuietStep
<1>7. QED
  BY <1>4, <1>5, <1>6

\* A successor is started: what i could not save does not reach it.
LEMMA HandOverSaved ==
  ASSUME IInv, ~mixed, NEW i \in Instances, HandOver(i),
         phase[i] \in {"spawn", "elevate"}, UNCHANGED <<memory, write, file, mixed>>
  PROVE  SavedStep
<1>1. ~savePending[i] /\ write[i] = None /\ UNCHANGED savePending /\ Held' = Held
  BY DEF IInv, Clean, memory, Held
<1>2. ~Dirty(i)' /\ \A j \in Instances \ {i} : Dirty(j)' <=> Dirty(j)
  BY <1>1 DEF HandOver, Dirty
<1>3. CASE i \in unsaved
  <2>1. Dirty(i) /\ chosen' = OnDisk
    BY <1>3 DEF Dirty, HandOver
  <2>2. \A j \in Instances \ {i} : ~Dirty(j)'
    BY <1>2, <2>1, OnlyOneDirty
  <2>3. QED
    BY <1>1, <1>2, <2>1, <2>2, ForgettingStep
<1>4. CASE i \notin unsaved
  <2>1. ~Dirty(i) /\ UNCHANGED chosen
    BY <1>1, <1>4 DEF Dirty, HandOver
  <2>2. QED
    BY <1>1, <1>2, <2>1, QuietStep
<1>5. QED
  BY <1>3, <1>4

\* A save with what is chosen left as it is.
LEMMA SavingSaved ==
  ASSUME IInv, ~mixed, NEW i \in Instances,
         WriteTemporary(i) \/ SaveOther(i) \/ Close(i)
  PROVE  SavedStep
<1>1. UNCHANGED <<file, mixed, chosen>> /\ Held' = Held
  BY DEF WriteTemporary, SaveOther, Close, memory, Held
<1>2. Dirty(i)'
  <2>1. CASE WriteTemporary(i)
    <3>1. write'[i] # None \/ i \in unsaved'
      BY <2>1, StoreAssumption DEF WriteTemporary, IInv, TypeOK, Writes
    <3> QED
      BY <3>1 DEF Dirty
  <2>2. CASE SaveOther(i)
    BY <2>2, PersistedType, SavingUnsettles DEF SaveOther, IInv
  <2>3. CASE Close(i)
    BY <2>3, PersistedType, SavingUnsettles DEF Close, IInv
  <2> QED
    BY <2>1, <2>2, <2>3
<1> QED
  BY <1>1, <1>2, ChangingStep

\* An edit holds back what the dialogs have copied before it.
LEMMA EditFilterSaved ==
  ASSUME IInv, ~mixed, NEW i \in Instances, NEW f \in Filters, EditFilter(i, f)
  PROVE  SavedStep
<1>1. [theme |-> Persisted(i).theme, filter |-> f] \in Settings
  BY PersistedType DEF IInv, Settings
<1>2. ASSUME savePending' = [savePending EXCEPT ![i] = TRUE] PROVE Dirty(i)'
  BY <1>2 DEF IInv, TypeOK, Dirty
<1>3. ASSUME Save(i, [theme |-> Persisted(i).theme, filter |-> f]) PROVE Dirty(i)'
  BY <1>1, <1>3, SavingUnsettles DEF IInv
<1>4. Dirty(i)' /\ UNCHANGED <<file, mixed>> /\ chosen'.theme = chosen.theme
  BY <1>2, <1>3 DEF EditFilter
<1>5. /\ \A j \in Instances \ {i} : dialogs'[j] = dialogs[j]
      /\ dialogs'[i] = Outdated(dialogs[i])
  BY DEF EditFilter, IInv, TypeOK
<1>6. Survives(settings[i].filter)
  BY DEF EditFilter, AtHand, Ready, IInv, Intent, Right, Persisted, Serving
<1>7. \A c \in HeldBack(dialogs'[i]) :
        c \in HeldBack(dialogs[i]) \/ c.filter = settings[i].filter
  BY <1>5, EditFilterStack DEF IInv
<1>8. \A c \in Held' : c \in Held \/ Survives(c.filter)
  BY <1>5, <1>6, <1>7, HeldOf
<1> QED
  BY <1>4, <1>8, ChangingStep

\* What an options dialog puts in place is a choice, or what has been held back by it.
LEMMA TakeOverSaved ==
  ASSUME IInv, ~mixed, NEW i \in Instances, TakeOver(i)
  PROVE  SavedStep
<1> DEFINE copy    == Last(dialogs[i]).data
           pending == IF NewTheme(i) THEN copy.theme ELSE None
           now     == [theme |-> settings[i].theme, filter |-> copy.filter]
           saved   == [now EXCEPT !.theme = IF pending = None THEN @ ELSE pending]
<1>1. TypeOK /\ Copied
  BY DEF IInv
<1>2. /\ Returning(i, {"options"}) /\ Last(dialogs[i]).result = "ok"
      /\ phase[i] = "running" /\ Save(i, saved)
      /\ chosen' = [theme |-> copy.theme,
                    filter |-> IF copy.stale THEN copy.filter ELSE chosen.filter]
      /\ UNCHANGED <<file, mixed>>
  BY DEF TakeOver, PutInPlace, Returning
<1>3. /\ copy.theme \in Themes /\ copy.filter \in Filters
      /\ copy.stale =>
           [theme |-> copy.theme, filter |-> copy.filter] \in HeldBack(dialogs[i])
  BY <1>1, <1>2, TakenOver DEF Copies
<1>4. saved \in Settings
  BY <1>1, <1>3, StackType DEF Settings
<1> HIDE DEF copy, saved
<1>5. Dirty(i)'
  BY <1>1, <1>2, <1>4, SavingUnsettles
<1>6. /\ \A j \in Instances \ {i} : dialogs'[j] = dialogs[j]
      /\ \A c \in HeldBack(dialogs'[i]) :
           c \in HeldBack(dialogs[i]) \/ c.filter = settings[i].filter
  BY <1>1, TakeOverStack
<1>7. Survives(settings[i].filter)
  BY <1>2 DEF IInv, Intent, Right, Persisted, Serving
<1>8. /\ \A c \in HeldBack(dialogs[i]) : c \in Held
      /\ \A c \in Held' : c \in Held \/ Survives(c.filter)
  BY <1>6, <1>7, HeldOf
<1>9. chosen' \in Held \/ chosen'.filter = chosen.filter
  <2>1. CASE copy.stale
    BY <1>2, <1>3, <1>8, <2>1
  <2>2. CASE ~copy.stale
    BY <1>2, <2>2
  <2> QED
    BY <2>1, <2>2
<1> QED
  BY <1>2, <1>5, <1>8, <1>9, ChangingStep

LEMMA DialogStepSaved ==
  ASSUME IInv, NEW i \in Instances, DialogStep(i)
  PROVE  SavedStep
<1>1. PICK stack \in Seq(Frames) :
        OnlyDialogs(i, stack) /\ HeldBack(stack) \subseteq HeldBack(dialogs[i])
  BY DialogStack DEF IInv
<1>2. /\ UNCHANGED <<file, chosen, mixed, savePending, write, unsaved>>
      /\ dialogs'[i] = stack
      /\ \A j \in Instances \ {i} : dialogs'[j] = dialogs[j]
  BY <1>1 DEF OnlyDialogs, IInv, TypeOK
<1>3. Held' \subseteq Held
  BY <1>1, <1>2, HeldOf
<1>4. \A j \in Instances : Dirty(j)' <=> Dirty(j)
  BY <1>2 DEF Dirty
<1> QED
  BY <1>2, <1>3, <1>4, QuietStep

QuietActions(i) ==
  \/ Launch(i) \/ CreateMutex(i) \/ NoExecutablePath(i)
  \/ ReleaseSingleInstanceLock(i) \/ RestoreSingleInstanceLock(i)
  \/ FlushFilter(i) \/ RestartApplication(i) \/ RestartAsAdministrator(i)
  \/ DestroyWindow(i)

LEMMA QuietSaved ==
  ASSUME IInv, ~mixed, ~mixed', NEW i \in Instances, QuietActions(i)
  PROVE  SavedStep
<1>1. UNCHANGED <<file, chosen, mixed>>
  BY DEF QuietActions, Launch, CreateMutex, NoExecutablePath, ReleaseSingleInstanceLock,
         RestoreSingleInstanceLock, SideBySide, FlushFilter, RestartApplication,
         RestartAsAdministrator, DestroyWindow, IInv, TypeOK
<1>2. Held' \subseteq Held
  <2>1. CASE RestartApplication(i)
    <3>1. dialogs' = [dialogs EXCEPT ![i] = Front(dialogs[i])] /\ dialogs[i] # <<>>
      BY <2>1 DEF RestartApplication, Returning, Dispatching
    <3>2. HeldBack(Front(dialogs[i])) \subseteq HeldBack(dialogs[i])
      BY <3>1, StackType, FrontStack DEF IInv
    <3>3. /\ dialogs'[i] = Front(dialogs[i])
          /\ \A j \in Instances \ {i} : dialogs'[j] = dialogs[j]
      BY <3>1 DEF IInv, TypeOK
    <3> QED
      BY <3>2, <3>3, HeldOf
  <2>2. CASE DestroyWindow(i)
    BY <2>2, HeldKept DEF DestroyWindow, IInv, TypeOK
  <2>3. CASE ~RestartApplication(i) /\ ~DestroyWindow(i)
    <3>1. UNCHANGED dialogs
      BY <2>3
        DEF QuietActions, Launch, CreateMutex, NoExecutablePath,
            ReleaseSingleInstanceLock, RestoreSingleInstanceLock, FlushFilter,
            RestartAsAdministrator, memory
    <3> QED
      BY <3>1, HeldKept
  <2> QED
    BY <2>1, <2>2, <2>3
<1>3. CASE UNCHANGED <<savePending, write, unsaved>>
  <2>1. \A j \in Instances : Dirty(j)' <=> Dirty(j)
    BY <1>3 DEF Dirty
  <2> QED
    BY <1>1, <1>2, <2>1, QuietStep
<1>4. CASE Flush(i) /\ UNCHANGED unsaved
  <2>1. \A j \in Instances : Dirty(j)' <=> Dirty(j)
    BY <1>4, FlushKeepsDirty DEF IInv
  <2> QED
    BY <1>1, <1>2, <2>1, QuietStep
<1> QED
  BY <1>3, <1>4
    DEF QuietActions, Launch, CreateMutex, NoExecutablePath, ReleaseSingleInstanceLock,
        RestoreSingleInstanceLock, FlushFilter, RestartApplication,
        RestartAsAdministrator, DestroyWindow, memory

\* Every step is one of SavedSettings, or one that it does not see.
LEMMA StepIsSaved == IInv /\ [Next]_vars => [Saved!SavedNext]_Saved!savedVars
<1> SUFFICES ASSUME IInv, [Next]_vars PROVE SavedStep
  BY DEF SavedStep
<1>1. CASE mixed /\ mixed'
  BY <1>1 DEF SavedStep, Saved!SavedNext, Saved!Together
<1>2. CASE UNCHANGED vars
  <2>1. /\ UNCHANGED <<file, chosen, mixed>> /\ Held' = Held
        /\ \A j \in Instances : Dirty(j)' <=> Dirty(j)
    BY <1>2 DEF vars, memory, Dirty, Held
  <2> QED
    BY <2>1, QuietStep
<1>3. ASSUME NEW i \in Instances, Exit(i) \/ Crash(i), ~(mixed /\ mixed') PROVE SavedStep
  BY <1>3, DepartSaved DEF Exit, Crash
<1>4. ASSUME NEW i \in Instances,
             \/ WriteTemporary(i) \/ SaveOther(i) \/ Close(i)
             \/ \E f \in Filters : EditFilter(i, f)
             \/ TakeOver(i),
             ~(mixed /\ mixed')
      PROVE  SavedStep
  <2>1. UNCHANGED mixed
    BY <1>4
      DEF WriteTemporary, SaveOther, Close, EditFilter, TakeOver, PutInPlace
  <2> QED
    BY <1>4, <2>1, SavingSaved, EditFilterSaved, TakeOverSaved
<1>5. ASSUME NEW i \in Instances, Replace(i), ~(mixed /\ mixed') PROVE SavedStep
  <2>1. UNCHANGED mixed
    BY <1>5 DEF Replace
  <2> QED
    BY <1>5, <2>1, ReplaceSaved
<1>6. ASSUME NEW i \in Instances,
             \E j \in Instances \ {i} : SpawnSuccessor(i, j) \/ ElevateSuccessor(i, j),
             ~(mixed /\ mixed')
      PROVE  SavedStep
  <2>1. /\ HandOver(i) /\ phase[i] \in {"spawn", "elevate"}
        /\ UNCHANGED <<memory, write, file, mixed>>
    BY <1>6 DEF SpawnSuccessor, ElevateSuccessor
  <2> QED
    BY <1>6, <2>1, HandOverSaved
<1>7. ASSUME NEW i \in Instances, Load(i) \/ RestoreSingleInstanceLock(i), ~mixed, mixed'
      PROVE  SavedStep
  <2>1. OnDisk' = OnDisk
    BY <1>7 DEF Load, RestoreSingleInstanceLock, OnDisk
  <2> QED
    BY <1>7, <2>1 DEF SavedStep, Saved!SavedNext, Saved!Meet
<1>8. ASSUME NEW i \in Instances, Load(i), ~(mixed /\ mixed') PROVE SavedStep
  <2>1. mixed => mixed'
    BY <1>8 DEF Load, SideBySide
  <2> QED
    BY <1>7, <1>8, <2>1, LoadSaved
<1>9. ASSUME NEW i \in Instances, QuietActions(i), ~(mixed /\ mixed') PROVE SavedStep
  <2>1. \/ UNCHANGED mixed
        \/ RestoreSingleInstanceLock(i) /\ (mixed => mixed')
    BY <1>9
      DEF QuietActions, Launch, CreateMutex, NoExecutablePath,
          ReleaseSingleInstanceLock, RestoreSingleInstanceLock, SideBySide, FlushFilter,
          RestartApplication, RestartAsAdministrator, DestroyWindow
  <2> QED
    BY <1>7, <1>9, <2>1, QuietSaved
<1>10. ASSUME NEW i \in Instances, DialogStep(i) PROVE SavedStep
  BY <1>10, DialogStepSaved
<1> QED
  BY <1>1, <1>2, <1>3, <1>4, <1>5, <1>6, <1>8, <1>9, <1>10
    DEF Next, DialogStep, QuietActions

\* What is on disk is what the user chose last, or what an options dialog that returned
\* late has put in its place, or a save is still to come or has failed; a write never
\* brings back anything else, whatever handlers, dialogs, restarts and instances
\* interleave.
THEOREM ImplementsSaved == Spec => SavedSpec
<1>1. Init => Saved!SavedInit
  <2> SUFFICES ASSUME Init PROVE Saved!SavedInit
    OBVIOUS
  <2>1. (\E j \in Instances : Dirty(j)) = FALSE
    BY DEF Init, Dirty
  <2>2. Held = {}
    BY DEF Init, Held, HeldBack, ToSet
  <2>3. QED
    BY <2>1, <2>2 DEF Init, Saved!SavedInit
<1>2. QED
  BY <1>1, Invariant, StepIsSaved, PTL DEF Spec, SavedSpec, Saved!SavedSpec
=============================================================================
