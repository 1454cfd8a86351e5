----------------------- MODULE SettingsDialogsProofs -----------------------
(***************************************************************************)
(* Proofs about SettingsDialogs, for any rules, texts, columns and bounds, *)
(* that is for any number of dialogs over one another.                     *)
(*                                                                         *)
(* What makes the properties inductive is the stack: an editor or a prompt *)
(* disables the dialog it was opened over, so that no other is opened over *)
(* it and nothing in it changes before the editor ends; and every copy     *)
(* differs from the rules in force by no more than its history tells.      *)
(***************************************************************************)
EXTENDS SettingsDialogs, WellFoundedInduction, NaturalsInduction, SequenceTheorems,
        TLAPS

\* Dialogs that hold the row of another.
OverList(f) == f.kind \in {"edit", "delete"}

\* An editor or a prompt is over a monitor dialog further down, which it has
\* disabled; the row it was opened for held the rule it shows.
Owned ==
  \A k \in DOMAIN dialogs :
    OverList(dialogs[k]) =>
      /\ dialogs[k].owner \in 1..k - 1
      /\ dialogs[dialogs[k].owner].kind = "monitor"
      /\ dialogs[k].disables
      /\ dialogs[k].kind = "delete" => dialogs[k].data.row \in DOMAIN dialogs[k].data.seen
      /\ dialogs[k].kind = "edit" /\ dialogs[k].data.row # 0 =>
           /\ dialogs[k].data.row \in DOMAIN dialogs[k].data.seen
           /\ dialogs[k].data.seen[dialogs[k].data.row].id = dialogs[k].data.rule.id

\* Of those over one dialog, none but the last opened is still on screen.
OneAtATime ==
  \A j, k \in DOMAIN dialogs :
    /\ j < k
    /\ OverList(dialogs[j])
    /\ OverList(dialogs[k])
    /\ dialogs[j].owner = dialogs[k].owner
    => dialogs[j].result # "open"

\* What a copy has to do with the rules in force.
TellsOf(kind, data, inForce) ==
  /\ kind = "monitor" /\ data.strayed = {} =>
       Differing(inForce, data.rules) \subseteq data.touched \cup data.missed
  /\ kind = "options" /\ ~data.stale => data.rules = inForce

Copies == \A k \in DOMAIN dialogs : TellsOf(dialogs[k].kind, dialogs[k].data, engine)

ListShown == shown = VisibleIds(columns)

StackInv == Owned /\ OneAtATime /\ EditorsPointHome

IInv == TypeOK /\ StackInv /\ Copies /\ RulesInForce /\ ListShown

-----------------------------------------------------------------------------
(* Sequences                                                               *)

LEMMA FrontOf ==
  ASSUME NEW T, NEW s \in Seq(T), s # <<>>
  PROVE  /\ Front(s) \in Seq(T)
         /\ Len(s) \in Nat \ {0}
         /\ Len(Front(s)) = Len(s) - 1
         /\ DOMAIN Front(s) = 1..Len(s) - 1
         /\ \A i \in 1..Len(s) - 1 : Front(s)[i] = s[i]
         /\ Last(s) = s[Len(s)]
         /\ Last(s) \in T
<1>1. Len(s) \in Nat \ {0}
  BY EmptySeq
<1>2. /\ SubSeq(s, 1, Len(s) - 1) \in Seq(T)
      /\ Len(SubSeq(s, 1, Len(s) - 1)) = Len(s) - 1
      /\ \A i \in 1..Len(s) - 1 : SubSeq(s, 1, Len(s) - 1)[i] = s[i]
  <2> DEFINE n == Len(s) - 1
  <2>1. n \in Nat /\ \A i \in 1..n : s[i] \in T
    BY <1>1
  <2> HIDE DEF n
  <2>2. /\ SubSeq(s, 1, n) \in Seq(T)
        /\ Len(SubSeq(s, 1, n)) = n
        /\ \A i \in 1..n : SubSeq(s, 1, n)[i] = s[i]
    BY <2>1
  <2>3. QED
    BY <2>2 DEF n
<1>3. Len(s) - 1 \in Nat /\ s[Len(s)] \in T
  BY <1>1
<1>4. DOMAIN SubSeq(s, 1, Len(s) - 1) = 1..Len(s) - 1
  BY <1>2, <1>3
<1>5. QED
  BY <1>1, <1>2, <1>3, <1>4 DEF Front, Last

\* A sequence without its i-th member.
LEMMA RemovedAt ==
  ASSUME NEW T, NEW s \in Seq(T), NEW i \in 1..Len(s)
  PROVE  /\ RemoveAt(s, i) \in Seq(T)
         /\ Len(RemoveAt(s, i)) = Len(s) - 1
         /\ \A j \in 1..Len(s) - 1 :
              RemoveAt(s, i)[j] = IF j < i THEN s[j] ELSE s[j + 1]
<1> DEFINE a == SubSeq(s, 1, i - 1)
           b == SubSeq(s, i + 1, Len(s))
<1>1. Len(s) \in Nat /\ i \in Nat /\ i >= 1 /\ i <= Len(s)
  OBVIOUS
<1>2. a \in Seq(T) /\ Len(a) = i - 1 /\ \A j \in 1..i - 1 : a[j] = s[j]
  BY <1>1
<1>3. b \in Seq(T) /\ Len(b) = Len(s) - i /\ \A j \in 1..Len(s) - i : b[j] = s[i + j]
  BY <1>1
<1> HIDE DEF a, b
<1>4. /\ a \o b \in Seq(T)
      /\ Len(a \o b) = Len(s) - 1
      /\ \A j \in 1..Len(s) - 1 : (a \o b)[j] = IF j <= i - 1 THEN a[j] ELSE b[j - (i - 1)]
  <2>1. /\ a \o b \in Seq(T)
        /\ Len(a \o b) = Len(a) + Len(b)
        /\ \A j \in 1..Len(a) + Len(b) :
             (a \o b)[j] = IF j <= Len(a) THEN a[j] ELSE b[j - Len(a)]
    BY <1>2, <1>3, ConcatProperties, Zenon
  <2>2. Len(a) + Len(b) = Len(s) - 1 /\ Len(a) = i - 1
    BY <1>1, <1>2, <1>3
  <2>3. QED
    BY <2>1, <2>2
<1>5. \A j \in 1..Len(s) - 1 : (a \o b)[j] = IF j < i THEN s[j] ELSE s[j + 1]
  <2> SUFFICES ASSUME NEW j \in 1..Len(s) - 1
               PROVE  (a \o b)[j] = IF j < i THEN s[j] ELSE s[j + 1]
    OBVIOUS
  <2>1. CASE j < i
    BY <1>1, <1>2, <1>4, <2>1
  <2>2. CASE ~(j < i)
    <3>1. j - (i - 1) \in 1..Len(s) - i /\ i + (j - (i - 1)) = j + 1
      BY <1>1, <2>2
    <3>2. b[j - (i - 1)] = s[j + 1]
      BY <1>3, <3>1
    <3>3. QED
      BY <1>1, <1>4, <2>2, <3>2
  <2>3. QED
    BY <2>1, <2>2
<1>6. QED
  BY <1>4, <1>5 DEF RemoveAt, a, b

-----------------------------------------------------------------------------
(* On which rules two lists differ                                         *)

LEMMA DifferingIds ==
  ASSUME NEW a \in Seq(Rules), NEW b \in Seq(Rules)
  PROVE  Differing(a, b) \subseteq Ids
<1>1. ToSet(a) \subseteq Rules /\ ToSet(b) \subseteq Rules
  BY DEF ToSet
<1>2. QED
  BY <1>1 DEF Differing, Rules

LEMMA DifferingSymmetric ==
  ASSUME NEW a, NEW b
  PROVE  Differing(a, b) = Differing(b, a) /\ Differing(a, a) = {}
BY DEF Differing

LEMMA DifferingTriangle ==
  ASSUME NEW a, NEW b, NEW c
  PROVE  Differing(a, c) \subseteq Differing(a, b) \cup Differing(b, c)
BY DEF Differing

\* Appending, replacing or removing a rule changes that rule only.
LEMMA DifferingAppended ==
  ASSUME NEW a \in Seq(Rules), NEW r \in Rules
  PROVE  Append(a, r) \in Seq(Rules) /\ Differing(a, Append(a, r)) \subseteq {r.id}
<1>1. /\ Append(a, r) \in Seq(Rules) /\ Len(a) \in Nat
      /\ DOMAIN Append(a, r) = DOMAIN a \cup {Len(a) + 1}
      /\ Append(a, r)[Len(a) + 1] = r
      /\ \A i \in DOMAIN a : Append(a, r)[i] = a[i]
  OBVIOUS
<1>2. ToSet(Append(a, r)) = ToSet(a) \cup {r}
  BY <1>1 DEF ToSet
<1>3. QED
  BY <1>1, <1>2 DEF Differing

LEMMA DifferingReplaced ==
  ASSUME NEW a \in Seq(Rules), NEW i \in DOMAIN a, NEW r \in Rules, r.id = a[i].id
  PROVE  ReplaceAt(a, i, r) \in Seq(Rules) /\ Differing(a, ReplaceAt(a, i, r)) \subseteq {r.id}
<1> DEFINE b == ReplaceAt(a, i, r)
<1>1. /\ b \in Seq(Rules) /\ DOMAIN b = DOMAIN a
      /\ \A j \in DOMAIN a : b[j] = IF j = i THEN r ELSE a[j]
  BY DEF ReplaceAt
<1>2. \A x \in ToSet(a) \ ToSet(b) : x = a[i]
  BY <1>1 DEF ToSet
<1>3. \A x \in ToSet(b) \ ToSet(a) : x = r
  BY <1>1 DEF ToSet
<1>4. QED
  BY <1>1, <1>2, <1>3 DEF Differing

LEMMA DifferingErased ==
  ASSUME NEW a \in Seq(Rules), NEW i
  PROVE  /\ Erased(a, i) \in Seq(Rules)
         /\ Differing(a, Erased(a, i)) \subseteq {a[i].id}
<1>1. CASE i \notin DOMAIN a
  BY <1>1, DifferingSymmetric DEF Erased
<1>2. CASE i \in DOMAIN a
  <2> DEFINE b == RemoveAt(a, i)
  <2>1. i \in 1..Len(a) /\ Len(a) \in Nat
    BY <1>2
  <2>2. /\ b \in Seq(Rules)
        /\ Len(b) = Len(a) - 1
        /\ \A j \in 1..Len(a) - 1 : b[j] = IF j < i THEN a[j] ELSE a[j + 1]
    BY <2>1, RemovedAt
  <2> HIDE DEF b
  <2>3. \A x \in ToSet(b) : x \in ToSet(a)
    <3>1. ASSUME NEW j \in DOMAIN b PROVE b[j] \in ToSet(a)
      <4>1. j \in 1..Len(a) - 1 /\ j \in DOMAIN a /\ j + 1 \in DOMAIN a
        BY <2>1, <2>2
      <4>2. QED
        BY <2>2, <4>1 DEF ToSet
    <3>2. QED
      BY <3>1 DEF ToSet
  <2>4. ASSUME NEW j \in DOMAIN a, j # i PROVE a[j] \in ToSet(b)
    <3>1. CASE j < i
      <4>1. j \in DOMAIN b /\ b[j] = a[j]
        BY <2>1, <2>2, <3>1
      <4>2. QED
        BY <4>1 DEF ToSet
    <3>2. CASE j > i
      <4>1. j - 1 \in DOMAIN b /\ b[j - 1] = a[j]
        BY <2>1, <2>2, <3>2
      <4>2. QED
        BY <4>1 DEF ToSet
    <3>3. QED
      BY <2>1, <2>4, <3>1, <3>2
  <2>5. \A x \in ToSet(a) \ ToSet(b) : x = a[i]
    BY <2>4 DEF ToSet
  <2>6. Erased(a, i) = b
    BY <1>2 DEF Erased, b
  <2>7. QED
    BY <2>2, <2>3, <2>5, <2>6 DEF Differing
<1>3. QED
  BY <1>1, <1>2

-----------------------------------------------------------------------------
(* The stack of dialogs                                                    *)

\* What a dialog of each kind keeps.
Fits(kind, data) ==
  \/ kind = "monitor" /\ data \in MonitorData
  \/ kind = "edit" /\ data \in EditData
  \/ kind = "delete" /\ data \in DeleteData
  \/ kind = "add" /\ data \in AddData
  \/ kind = "options" /\ data \in OptionsData
  \/ kind = "columns" /\ data \in SelectData

LEMMA FrameFields ==
  ASSUME NEW f \in Frames
  PROVE  /\ Fits(f.kind, f.data)
         /\ f.owner \in 0..MaxDialogs
         /\ f.result \in Results
         /\ f.disables \in BOOLEAN
         /\ f = [kind |-> f.kind, owner |-> f.owner, result |-> f.result,
                 disables |-> f.disables, data |-> f.data]
BY DEF Frames, OfKind, Fits

LEMMA FrameMade ==
  ASSUME NEW kind, NEW data, Fits(kind, data), NEW owner \in 0..MaxDialogs,
         NEW result \in Results, NEW disables \in BOOLEAN
  PROVE  [kind |-> kind, owner |-> owner, result |-> result, disables |-> disables,
          data |-> data] \in Frames
BY DEF Frames, OfKind, Fits

LEMMA FrameChanged ==
  ASSUME NEW f \in Frames
  PROVE  /\ \A result \in Results : /\ [f EXCEPT !.result = result] \in Frames
                                   /\ [f EXCEPT !.result = result].result = result
         /\ \A data : Fits(f.kind, data) => /\ [f EXCEPT !.data = data] \in Frames
                                           /\ [f EXCEPT !.data = data].data = data
<1>1. ASSUME NEW result \in Results
      PROVE  /\ [f EXCEPT !.result = result] \in Frames
             /\ [f EXCEPT !.result = result].result = result
  <2>1. [f EXCEPT !.result = result] =
          [kind |-> f.kind, owner |-> f.owner, result |-> result,
           disables |-> f.disables, data |-> f.data]
    BY FrameFields
  <2>2. QED
    BY <2>1, FrameFields, FrameMade
<1>2. ASSUME NEW data, Fits(f.kind, data)
      PROVE  /\ [f EXCEPT !.data = data] \in Frames
             /\ [f EXCEPT !.data = data].data = data
  <2>1. [f EXCEPT !.data = data] =
          [kind |-> f.kind, owner |-> f.owner, result |-> f.result,
           disables |-> f.disables, data |-> data]
    BY FrameFields
  <2>2. QED
    BY <1>2, <2>1, FrameFields, FrameMade
<1>3. QED
  BY <1>1, <1>2

\* A dialog goes on to be what it was for those over it and under it.
Like(f, g) ==
  /\ g.kind = f.kind
  /\ g.owner = f.owner
  /\ g.disables = f.disables
  /\ g.result = "open" => f.result = "open"
  /\ OverList(f) =>
       /\ g.data.row = f.data.row
       /\ g.data.seen = f.data.seen
       /\ f.kind = "edit" => g.data.rule.id = f.data.rule.id

\* No editor and no prompt is on screen over dialog j.
Uncovered(j) ==
  \A k \in DOMAIN dialogs :
    OverList(dialogs[k]) /\ dialogs[k].owner = j => dialogs[k].result # "open"

\* Nothing changes for those on screen when dialogs at the top return and lists
\* change that none of them is over.
LEMMA StackKept ==
  ASSUME TypeOK, StackInv, NEW n \in 0..Len(dialogs), DOMAIN dialogs' = 1..n,
         \A j \in 1..n : Like(dialogs[j], dialogs'[j]),
         \A j \in 1..n :
           /\ dialogs[j].kind = "monitor"
           /\ dialogs'[j].data.rules # dialogs[j].data.rules
           => \A k \in 1..n : OverList(dialogs[k]) /\ dialogs[k].owner = j
                              => dialogs[k].result # "open"
  PROVE  StackInv'
<1>1. /\ DOMAIN dialogs = 1..Len(dialogs) /\ Len(dialogs) \in Nat /\ n \in Nat
      /\ 1..n \subseteq DOMAIN dialogs
  BY DEF TypeOK
<1>2. ASSUME NEW j \in 1..n PROVE OverList(dialogs'[j]) <=> OverList(dialogs[j])
  BY DEF Like, OverList
<1>3. Owned'
  <2> SUFFICES ASSUME NEW k \in 1..n, OverList(dialogs'[k])
               PROVE  /\ dialogs'[k].owner \in 1..k - 1
                      /\ dialogs'[dialogs'[k].owner].kind = "monitor"
                      /\ dialogs'[k].disables
                      /\ dialogs'[k].kind = "delete" =>
                           dialogs'[k].data.row \in DOMAIN dialogs'[k].data.seen
                      /\ dialogs'[k].kind = "edit" /\ dialogs'[k].data.row # 0 =>
                           /\ dialogs'[k].data.row \in DOMAIN dialogs'[k].data.seen
                           /\ dialogs'[k].data.seen[dialogs'[k].data.row].id
                                = dialogs'[k].data.rule.id
    BY DEF Owned, OverList
  <2>1. /\ OverList(dialogs[k]) /\ Like(dialogs[k], dialogs'[k]) /\ k \in DOMAIN dialogs
    BY <1>1, <1>2
  <2>2. /\ dialogs[k].owner \in 1..k - 1
        /\ dialogs[dialogs[k].owner].kind = "monitor"
        /\ dialogs[k].disables
        /\ dialogs[k].kind = "delete" => dialogs[k].data.row \in DOMAIN dialogs[k].data.seen
        /\ dialogs[k].kind = "edit" /\ dialogs[k].data.row # 0 =>
             /\ dialogs[k].data.row \in DOMAIN dialogs[k].data.seen
             /\ dialogs[k].data.seen[dialogs[k].data.row].id = dialogs[k].data.rule.id
    BY <2>1 DEF StackInv, Owned
  <2>3. dialogs[k].owner \in 1..n
    BY <1>1, <2>2
  <2>4. dialogs'[dialogs[k].owner].kind = "monitor"
    BY <2>2, <2>3 DEF Like
  <2>5. QED
    BY <2>1, <2>2, <2>4 DEF Like
<1>4. OneAtATime'
  <2> SUFFICES ASSUME NEW j \in 1..n, NEW k \in 1..n, j < k,
                      OverList(dialogs'[j]), OverList(dialogs'[k]),
                      dialogs'[j].owner = dialogs'[k].owner
               PROVE  dialogs'[j].result # "open"
    BY DEF OneAtATime, OverList
  <2>1. OverList(dialogs[j]) /\ OverList(dialogs[k]) /\ dialogs[j].owner = dialogs[k].owner
    BY <1>2 DEF Like
  <2>2. dialogs[j].result # "open"
    BY <1>1, <2>1 DEF StackInv, OneAtATime
  <2>3. QED
    BY <2>2 DEF Like
<1>5. EditorsPointHome'
  <2> SUFFICES ASSUME NEW k \in 1..n, dialogs'[k].kind \in {"edit", "delete"},
                      dialogs'[k].result = "open"
               PROVE  \E owner \in 1..n :
                        /\ owner = dialogs'[k].owner
                        /\ dialogs'[owner].kind = "monitor"
                        /\ dialogs'[owner].data.rules = dialogs'[k].data.seen
    BY DEF EditorsPointHome
  <2>1. /\ OverList(dialogs[k]) /\ dialogs[k].result = "open" /\ k \in DOMAIN dialogs
        /\ dialogs'[k].owner = dialogs[k].owner
        /\ dialogs'[k].data.seen = dialogs[k].data.seen
    BY <1>1 DEF Like, OverList
  <2>2. PICK owner \in DOMAIN dialogs : /\ owner = dialogs[k].owner
                                       /\ dialogs[owner].kind = "monitor"
                                       /\ dialogs[owner].data.rules = dialogs[k].data.seen
    BY <2>1 DEF StackInv, EditorsPointHome, OverList
  <2>3. owner \in 1..n
    BY <1>1, <2>1, <2>2 DEF StackInv, Owned
  <2>4. dialogs'[owner].kind = "monitor"
    BY <2>2, <2>3 DEF Like
  <2>5. dialogs'[owner].data.rules = dialogs[owner].data.rules
    BY <2>1, <2>2, <2>3
  <2>6. QED
    BY <2>1, <2>2, <2>3, <2>4, <2>5
<1>6. QED
  BY <1>3, <1>4, <1>5 DEF StackInv

\* What a dialog must be to be opened over a list.
OverNewList(f) ==
  /\ f.owner \in DOMAIN dialogs
  /\ InUse(dialogs, f.owner, "monitor")
  /\ f.disables
  /\ f.data.seen = dialogs[f.owner].data.rules
  /\ f.kind = "delete" => f.data.row \in DOMAIN f.data.seen
  /\ f.kind = "edit" /\ f.data.row # 0 =>
       /\ f.data.row \in DOMAIN f.data.seen
       /\ f.data.seen[f.data.row].id = f.data.rule.id

\* Whoever is in use is not covered.
LEMMA InUseUncovered ==
  ASSUME StackInv, NEW k, Enabled(dialogs, k)
  PROVE  Uncovered(k)
BY DEF StackInv, Owned, Enabled, Uncovered

LEMMA StackGrown ==
  ASSUME TypeOK, StackInv, NEW f \in Frames, dialogs' = Append(dialogs, f),
         f.owner <= Len(dialogs), OverList(f) => OverNewList(f)
  PROVE  /\ dialogs' \in Seq(Frames) /\ \A k \in DOMAIN dialogs' : dialogs'[k].owner < k
         /\ StackInv'
<1> DEFINE n == Len(dialogs)
<1>1. /\ dialogs \in Seq(Frames) /\ n \in Nat /\ DOMAIN dialogs = 1..n
      /\ \A k \in 1..n : dialogs[k].owner < k
  BY DEF TypeOK
<1>2. /\ dialogs' \in Seq(Frames) /\ DOMAIN dialogs' = 1..n + 1
      /\ dialogs'[n + 1] = f /\ \A k \in 1..n : dialogs'[k] = dialogs[k]
  BY <1>1
<1> HIDE DEF n
<1>3. 1..n + 1 = 1..n \cup {n + 1} /\ f.owner \in Nat
  BY <1>1, FrameFields
<1>4. \A k \in DOMAIN dialogs' : dialogs'[k].owner < k
  BY <1>1, <1>2, <1>3 DEF n
<1>5. OverList(f) => f.owner \in 1..n /\ Uncovered(f.owner)
                     /\ dialogs[f.owner].kind = "monitor"
  BY <1>1, InUseUncovered DEF OverNewList, InUse
<1>6. Owned'
  <2> SUFFICES ASSUME NEW k \in 1..n + 1, OverList(dialogs'[k])
               PROVE  /\ dialogs'[k].owner \in 1..k - 1
                      /\ dialogs'[dialogs'[k].owner].kind = "monitor"
                      /\ dialogs'[k].disables
                      /\ dialogs'[k].kind = "delete" =>
                           dialogs'[k].data.row \in DOMAIN dialogs'[k].data.seen
                      /\ dialogs'[k].kind = "edit" /\ dialogs'[k].data.row # 0 =>
                           /\ dialogs'[k].data.row \in DOMAIN dialogs'[k].data.seen
                           /\ dialogs'[k].data.seen[dialogs'[k].data.row].id
                                = dialogs'[k].data.rule.id
    BY <1>2 DEF Owned, OverList
  <2>1. CASE k = n + 1
    <3>1. dialogs'[k] = f /\ OverNewList(f) /\ f.owner \in 1..n
      BY <1>2, <1>5, <2>1
    <3>2. dialogs'[f.owner] = dialogs[f.owner] /\ dialogs[f.owner].kind = "monitor"
      BY <1>2, <1>5, <2>1, <3>1
    <3>3. f.owner \in 1..k - 1
      BY <1>1, <2>1, <3>1
    <3>4. QED
      BY <3>1, <3>2, <3>3 DEF OverNewList
  <2>2. CASE k \in 1..n
    <3>1. OverList(dialogs[k]) /\ dialogs'[k] = dialogs[k]
      BY <1>2, <2>2
    <3>2. /\ dialogs[k].owner \in 1..k - 1
          /\ dialogs[dialogs[k].owner].kind = "monitor"
          /\ dialogs[k].disables
          /\ dialogs[k].kind = "delete" =>
               dialogs[k].data.row \in DOMAIN dialogs[k].data.seen
          /\ dialogs[k].kind = "edit" /\ dialogs[k].data.row # 0 =>
               /\ dialogs[k].data.row \in DOMAIN dialogs[k].data.seen
               /\ dialogs[k].data.seen[dialogs[k].data.row].id = dialogs[k].data.rule.id
      BY <1>1, <2>2, <3>1 DEF StackInv, Owned
    <3>3. dialogs'[dialogs[k].owner] = dialogs[dialogs[k].owner]
      BY <1>1, <1>2, <2>2, <3>2
    <3>4. QED
      BY <3>1, <3>2, <3>3
  <2>3. QED
    BY <1>3, <2>1, <2>2
<1>7. OneAtATime'
  <2> SUFFICES ASSUME NEW j \in 1..n + 1, NEW k \in 1..n + 1, j < k,
                      OverList(dialogs'[j]), OverList(dialogs'[k]),
                      dialogs'[j].owner = dialogs'[k].owner
               PROVE  dialogs'[j].result # "open"
    BY <1>2 DEF OneAtATime, OverList
  <2>1. j \in 1..n /\ dialogs'[j] = dialogs[j]
    BY <1>1, <1>2
  <2>2. CASE k = n + 1
    BY <1>1, <1>2, <1>5, <2>1, <2>2 DEF Uncovered
  <2>3. CASE k \in 1..n
    BY <1>1, <1>2, <2>1, <2>3 DEF StackInv, OneAtATime
  <2>4. QED
    BY <1>3, <2>2, <2>3
<1>8. EditorsPointHome'
  <2> SUFFICES ASSUME NEW k \in DOMAIN dialogs', dialogs'[k].kind \in {"edit", "delete"},
                      dialogs'[k].result = "open"
               PROVE  \E owner \in DOMAIN dialogs' :
                        /\ owner = dialogs'[k].owner
                        /\ dialogs'[owner].kind = "monitor"
                        /\ dialogs'[owner].data.rules = dialogs'[k].data.seen
    BY DEF EditorsPointHome
  <2>1. CASE k = n + 1
    BY <1>2, <1>3, <1>5, <2>1 DEF OverNewList, OverList
  <2>2. CASE k \in 1..n
    <3>1. /\ k \in DOMAIN dialogs /\ dialogs'[k] = dialogs[k]
          /\ dialogs[k].kind \in {"edit", "delete"} /\ dialogs[k].result = "open"
      BY <1>1, <1>2, <2>2
    <3>2. PICK owner \in DOMAIN dialogs : /\ owner = dialogs[k].owner
                                         /\ dialogs[owner].kind = "monitor"
                                         /\ dialogs[owner].data.rules = dialogs[k].data.seen
      BY <3>1 DEF StackInv, EditorsPointHome
    <3>3. owner \in DOMAIN dialogs' /\ dialogs'[owner] = dialogs[owner]
      BY <1>1, <1>2, <1>3
    <3>4. QED
      BY <3>1, <3>2, <3>3
  <2>3. QED
    BY <1>2, <1>3, <2>1, <2>2
<1>9. QED
  BY <1>2, <1>4, <1>6, <1>7, <1>8 DEF StackInv

-----------------------------------------------------------------------------
(* What the actions do to the stack                                        *)

\* The stack is one of dialogs, as it has to be, with copies as they have to be.
StackOK ==
  /\ dialogs \in Seq(Frames)
  /\ \A k \in DOMAIN dialogs : dialogs[k].owner < k
  /\ StackInv
  /\ Copies

\* A dialog opens.
LEMMA Opening ==
  ASSUME TypeOK, StackInv, Copies, UNCHANGED engine, Len(dialogs) < MaxDialogs,
         NEW kind, NEW data, Fits(kind, data), NEW owner \in 0..Len(dialogs),
         dialogs' = Opened(dialogs, kind, owner, data),
         TellsOf(kind, data, engine),
         kind \in {"edit", "delete"} =>
           /\ owner \in DOMAIN dialogs
           /\ InUse(dialogs, owner, "monitor")
           /\ data.seen = dialogs[owner].data.rules
           /\ kind = "delete" => data.row \in DOMAIN data.seen
           /\ kind = "edit" /\ data.row # 0 =>
                data.row \in DOMAIN data.seen /\ data.seen[data.row].id = data.rule.id
  PROVE  StackOK'
<1> DEFINE f == [kind |-> kind, owner |-> owner, result |-> "open",
                 disables |-> Enabled(dialogs, owner), data |-> data]
           n == Len(dialogs)
<1>1. n \in Nat /\ dialogs \in Seq(Frames) /\ DOMAIN dialogs = 1..n /\ MaxDialogs \in Nat
  BY DialogsAssumption DEF TypeOK
<1>2. Enabled(dialogs, owner) \in BOOLEAN
  BY DEF Enabled
<1>3. f \in Frames
  <2>1. owner \in 0..MaxDialogs /\ "open" \in Results
    BY <1>1 DEF Results
  <2>2. QED
    BY <1>2, <2>1, FrameMade
<1>4. dialogs' = Append(dialogs, f)
  BY DEF Opened
<1>5. f.owner <= Len(dialogs)
  BY <1>1
<1>6. OverList(f) => OverNewList(f)
  BY DEF OverList, OverNewList, InUse
<1>7. f.kind = kind /\ f.data = data
  OBVIOUS
<1> HIDE DEF f
<1>8. /\ dialogs' \in Seq(Frames) /\ \A k \in DOMAIN dialogs' : dialogs'[k].owner < k
      /\ StackInv'
  BY <1>3, <1>4, <1>5, <1>6, StackGrown
<1>9. Copies'
  <2>1. /\ DOMAIN dialogs' = 1..n \cup {n + 1}
        /\ dialogs'[n + 1] = f /\ \A k \in 1..n : dialogs'[k] = dialogs[k]
    BY <1>1, <1>3, <1>4
  <2>2. QED
    BY <1>1, <1>7, <2>1 DEF Copies
<1>10. QED
  BY <1>8, <1>9 DEF StackOK

\* The user works with dialog k.
LEMMA Working ==
  ASSUME TypeOK, StackInv, Copies, UNCHANGED engine,
         NEW k \in DOMAIN dialogs, NEW g \in Frames,
         dialogs' = [dialogs EXCEPT ![k] = g], Like(dialogs[k], g),
         dialogs[k].kind = "monitor" /\ g.data.rules # dialogs[k].data.rules => Uncovered(k),
         TellsOf(g.kind, g.data, engine)
  PROVE  StackOK'
<1> DEFINE n == Len(dialogs)
<1>1. /\ n \in Nat /\ dialogs \in Seq(Frames) /\ DOMAIN dialogs = 1..n
      /\ \A j \in 1..n : dialogs[j].owner < j
  BY DEF TypeOK
<1>2. /\ dialogs' \in Seq(Frames) /\ DOMAIN dialogs' = 1..n
      /\ \A j \in 1..n : dialogs'[j] = IF j = k THEN g ELSE dialogs[j]
  BY <1>1
<1>3. \A j \in 1..n : Like(dialogs[j], dialogs'[j])
  BY <1>2 DEF Like
<1>4. ASSUME NEW j \in 1..n,
             dialogs[j].kind = "monitor",
             dialogs'[j].data.rules # dialogs[j].data.rules
      PROVE  \A i \in 1..n : OverList(dialogs[i]) /\ dialogs[i].owner = j
                             => dialogs[i].result # "open"
  BY <1>1, <1>2, <1>4 DEF Uncovered
<1>5. StackInv'
  <2>1. n \in 0..Len(dialogs)
    BY <1>1
  <2> HIDE DEF n
  <2>2. QED
    BY <1>2, <1>3, <1>4, <2>1, StackKept
<1>6. \A j \in 1..n : dialogs'[j].owner < j
  BY <1>1, <1>3 DEF Like
<1>7. Copies'
  BY <1>1, <1>2 DEF Copies
<1>8. QED
  BY <1>2, <1>5, <1>6, <1>7 DEF StackOK

\* The stack without the dialog on top.
LEMMA Top ==
  ASSUME TypeOK, dialogs # <<>>
  PROVE  /\ Len(dialogs) \in Nat \ {0}
         /\ DOMAIN dialogs = 1..Len(dialogs)
         /\ \A j \in DOMAIN dialogs : dialogs[j].owner < j
         /\ Front(dialogs) \in Seq(Frames)
         /\ Len(Front(dialogs)) = Len(dialogs) - 1
         /\ DOMAIN Front(dialogs) = 1..Len(dialogs) - 1
         /\ \A j \in 1..Len(dialogs) - 1 : Front(dialogs)[j] = dialogs[j]
         /\ Last(dialogs) = dialogs[Len(dialogs)]
         /\ Last(dialogs) \in Frames
<1>1. PICK s : s = dialogs
  OBVIOUS
<1>2. s \in Seq(Frames) /\ s # <<>> /\ \A j \in DOMAIN dialogs : dialogs[j].owner < j
  BY <1>1 DEF TypeOK
<1>3. /\ Front(s) \in Seq(Frames)
      /\ Len(s) \in Nat \ {0}
      /\ Len(Front(s)) = Len(s) - 1
      /\ DOMAIN Front(s) = 1..Len(s) - 1
      /\ \A i \in 1..Len(s) - 1 : Front(s)[i] = s[i]
      /\ Last(s) = s[Len(s)]
      /\ Last(s) \in Frames
  BY <1>2, FrontOf
<1>4. DOMAIN s = 1..Len(s)
  BY <1>2
<1>5. Front(s) = Front(dialogs) /\ Last(s) = Last(dialogs)
  BY <1>1 DEF Front, Last
<1>6. QED
  BY <1>1, <1>2, <1>3, <1>4, <1>5

\* The call of the dialog on top returns, and its caller may change the dialogs
\* below, of which only the one it was over gets another list.
LEMMA Below ==
  ASSUME TypeOK, StackInv, dialogs # <<>>, dialogs' \in Seq(Frames),
         Len(dialogs') = Len(dialogs) - 1,
         \A j \in 1..Len(dialogs) - 1 :
           /\ Like(dialogs[j], dialogs'[j])
           /\ TellsOf(dialogs'[j].kind, dialogs'[j].data, engine')
           /\ dialogs[j].kind = "monitor" /\ dialogs'[j].data.rules # dialogs[j].data.rules =>
                OverList(Last(dialogs)) /\ Last(dialogs).owner = j
  PROVE  StackOK'
<1> DEFINE n == Len(dialogs)
<1>1. /\ n \in Nat \ {0} /\ dialogs \in Seq(Frames) /\ DOMAIN dialogs = 1..n
      /\ \A j \in 1..n : dialogs[j].owner < j
      /\ Last(dialogs) = dialogs[n]
  BY Top DEF TypeOK
<1>2. DOMAIN dialogs' = 1..n - 1 /\ n - 1 \in 0..n
  BY <1>1
<1> HIDE DEF n
<1>3. ASSUME NEW j \in 1..n - 1, NEW i \in 1..n - 1,
             dialogs[j].kind = "monitor",
             dialogs'[j].data.rules # dialogs[j].data.rules,
             OverList(dialogs[i]), dialogs[i].owner = j
      PROVE  dialogs[i].result # "open"
  <2>1. OverList(dialogs[n]) /\ dialogs[n].owner = j
    BY <1>1, <1>3 DEF n
  <2>2. i \in DOMAIN dialogs /\ n \in DOMAIN dialogs /\ i < n
    BY <1>1
  <2>3. QED
    BY <1>3, <2>1, <2>2 DEF StackInv, OneAtATime
<1>4. \A j \in 1..n - 1 : Like(dialogs[j], dialogs'[j])
  BY DEF n
<1>5. StackInv'
  <2>1. n - 1 \in 0..Len(dialogs)
    BY <1>2 DEF n
  <2>2. QED
    BY <1>2, <1>3, <1>4, <2>1, StackKept
<1>6. \A j \in 1..n - 1 : dialogs'[j].owner < j
  BY <1>1, <1>4 DEF Like
<1>7. Copies'
  BY <1>2 DEF Copies, n
<1>8. QED
  BY <1>2, <1>5, <1>6, <1>7 DEF StackOK

LEMMA Popped ==
  ASSUME TypeOK, StackInv, Copies, UNCHANGED engine, dialogs # <<>>,
         dialogs' = Front(dialogs)
  PROVE  StackOK'
<1>1. /\ Len(dialogs) \in Nat \ {0} /\ dialogs' \in Seq(Frames)
      /\ Len(dialogs') = Len(dialogs) - 1
      /\ \A j \in 1..Len(dialogs) - 1 : dialogs'[j] = dialogs[j]
      /\ DOMAIN dialogs = 1..Len(dialogs)
  BY Top
<1>2. \A j \in 1..Len(dialogs) - 1 : j \in DOMAIN dialogs
  BY <1>1
<1>3. \A j \in 1..Len(dialogs) - 1 :
        /\ Like(dialogs[j], dialogs'[j])
        /\ TellsOf(dialogs'[j].kind, dialogs'[j].data, engine')
        /\ dialogs'[j].data.rules = dialogs[j].data.rules
  BY <1>1, <1>2 DEF Like, Copies
<1>4. QED
  BY <1>1, <1>3, Below

-----------------------------------------------------------------------------
(* The actions, one by one                                                 *)

StackBefore == TypeOK /\ StackInv /\ Copies

LEMMA NewRuleIsRule ==
  ASSUME FreshIds # {}
  PROVE  NewRule \in Rules
<1>1. (CHOOSE id \in FreshIds : TRUE) \in FreshIds
  OBVIOUS
<1>2. FreshIds \subseteq Ids
  BY DEF FreshIds
<1>3. QED
  BY <1>1, <1>2, DialogsAssumption DEF NewRule, Rules

LEMMA MonitorSettingsOpened ==
  ASSUME StackBefore, OpenMonitorSettings
  PROVE  StackOK'
<1> DEFINE data == [rules |-> rules, touched |-> {}, strayed |-> {},
                    missed |-> Differing(rules, engine)]
<1>1. /\ UNCHANGED engine /\ Len(dialogs) < MaxDialogs
      /\ dialogs' = Opened(dialogs, "monitor", 0, data)
  BY DEF OpenMonitorSettings, MayOpen, stored
<1>2. data \in MonitorData
  BY DifferingIds DEF StackBefore, TypeOK, MonitorData
<1>3. TellsOf("monitor", data, engine)
  BY DifferingSymmetric DEF TellsOf
<1>4. 0 \in 0..Len(dialogs)
  BY DEF StackBefore, TypeOK
<1> HIDE DEF data
<1>5. QED
  BY <1>1, <1>2, <1>3, <1>4, Opening DEF Fits, StackBefore

\* A dialog over a list that is in use.
LEMMA OpenedOverList ==
  ASSUME StackBefore, UNCHANGED engine, MayOpen,
         NEW k \in DOMAIN dialogs, InUse(dialogs, k, "monitor")
  PROVE  /\ \A row \in DOMAIN dialogs[k].data.rules :
              OpenEditor(k, row, dialogs[k].data.rules[row]) => StackOK'
         /\ \A rule \in Rules : OpenEditor(k, 0, rule) => StackOK'
         /\ \A row \in DOMAIN dialogs[k].data.rules :
              dialogs' = Opened(dialogs, "delete", k,
                                [row |-> row, seen |-> dialogs[k].data.rules])
              => StackOK'
<1>1. PICK list0 : list0 = dialogs[k].data.rules
  OBVIOUS
<1>2. list0 \in Seq(Rules) /\ k \in 0..Len(dialogs) /\ Len(dialogs) < MaxDialogs
  <2>1. dialogs[k] \in Frames /\ dialogs[k].kind = "monitor" /\ k \in 1..Len(dialogs)
    BY DEF StackBefore, TypeOK, InUse
  <2>2. dialogs[k].data \in MonitorData
    BY <2>1, FrameFields DEF Fits
  <2>3. QED
    BY <1>1, <2>1, <2>2 DEF MonitorData, MayOpen
<1>3. ASSUME NEW row \in Nat, NEW rule \in Rules, OpenEditor(k, row, rule),
             row # 0 => row \in DOMAIN list0 /\ list0[row].id = rule.id
      PROVE  StackOK'
  <2> DEFINE data == [row |-> row, rule |-> rule, seen |-> list0]
  <2>1. data \in EditData
    BY <1>2 DEF EditData
  <2>2. dialogs' = Opened(dialogs, "edit", k, data)
    BY <1>1, <1>3 DEF OpenEditor
  <2>3. data.row = row /\ data.rule = rule /\ data.seen = list0
    OBVIOUS
  <2> HIDE DEF data
  <2>4. Fits("edit", data) /\ TellsOf("edit", data, engine)
    BY <2>1 DEF Fits, TellsOf
  <2>5. QED
    BY <1>1, <1>2, <1>3, <2>2, <2>3, <2>4, Opening DEF StackBefore
<1>4. ASSUME NEW row \in DOMAIN list0,
             dialogs' = Opened(dialogs, "delete", k, [row |-> row, seen |-> list0])
      PROVE  StackOK'
  <2> DEFINE data == [row |-> row, seen |-> list0]
  <2>1. data \in DeleteData
    BY <1>2 DEF DeleteData
  <2>2. data.row = row /\ data.seen = list0
    OBVIOUS
  <2> HIDE DEF data
  <2>3. Fits("delete", data) /\ TellsOf("delete", data, engine)
    BY <2>1 DEF Fits, TellsOf
  <2>4. dialogs' = Opened(dialogs, "delete", k, data)
    BY <1>4 DEF data
  <2>5. QED
    BY <1>1, <1>2, <1>4, <2>2, <2>3, <2>4, Opening DEF StackBefore
<1>5. \A row \in DOMAIN list0 : row \in Nat /\ list0[row] \in Rules
  BY <1>2
<1>6. QED
  BY <1>1, <1>3, <1>4, <1>5

LEMMA RulesDialogStack ==
  ASSUME StackBefore, NEW k \in DOMAIN dialogs
  PROVE  /\ OnAddRule(k) => StackOK'
         /\ \A row \in DOMAIN dialogs[k].data.rules :
              OnEditRule(k, row) \/ OnDeleteRule(k, row) => StackOK'
<1>1. ASSUME OnAddRule(k) PROVE StackOK'
  BY <1>1, NewRuleIsRule, OpenedOverList DEF OnAddRule, stored
<1>2. ASSUME NEW row \in DOMAIN dialogs[k].data.rules, OnEditRule(k, row) PROVE StackOK'
  BY <1>2, OpenedOverList DEF OnEditRule, stored
<1>3. ASSUME NEW row \in DOMAIN dialogs[k].data.rules, OnDeleteRule(k, row) PROVE StackOK'
  BY <1>3, OpenedOverList DEF OnDeleteRule, stored
<1>4. QED
  BY <1>1, <1>2, <1>3

LEMMA OverMainOpened ==
  ASSUME StackBefore,
         AddSelectedProcessToMonitor \/ OpenOptionsDialog \/ OpenColumnSelectorDialog
  PROVE  StackOK'
<1>1. /\ UNCHANGED engine /\ Len(dialogs) < MaxDialogs /\ 0 \in 0..Len(dialogs)
      /\ rules \in Seq(Rules) /\ columns \in Seq(ColumnInfos)
  BY DEF AddSelectedProcessToMonitor, OpenOptionsDialog, OpenColumnSelectorDialog, MayOpen,
         stored, StackBefore, TypeOK
<1>2. CASE AddSelectedProcessToMonitor
  <2> DEFINE data == [rule |-> NewRule]
  <2>1. data \in AddData
    BY <1>2, NewRuleIsRule DEF AddSelectedProcessToMonitor, AddData
  <2> HIDE DEF data
  <2>2. Fits("add", data) /\ TellsOf("add", data, engine)
    BY <2>1 DEF Fits, TellsOf
  <2>3. dialogs' = Opened(dialogs, "add", 0, data)
    BY <1>2 DEF AddSelectedProcessToMonitor, data
  <2>4. QED
    BY <1>1, <2>2, <2>3, Opening DEF StackBefore
<1>3. CASE OpenOptionsDialog
  <2> DEFINE data == [rules |-> rules, columns |-> columns, stale |-> rules # engine]
  <2>1. data \in OptionsData
    BY <1>1 DEF OptionsData
  <2>2. TellsOf("options", data, engine)
    BY DEF TellsOf
  <2> HIDE DEF data
  <2>3. dialogs' = Opened(dialogs, "options", 0, data)
    BY <1>3 DEF OpenOptionsDialog, data
  <2>4. QED
    BY <1>1, <2>1, <2>2, <2>3, Opening DEF StackBefore, Fits
<1>4. CASE OpenColumnSelectorDialog
  <2> DEFINE data == [columns |-> columns]
  <2>1. data \in SelectData
    BY <1>1 DEF SelectData
  <2> HIDE DEF data
  <2>2. Fits("columns", data) /\ TellsOf("columns", data, engine)
    BY <2>1 DEF Fits, TellsOf
  <2>3. dialogs' = Opened(dialogs, "columns", 0, data)
    BY <1>4 DEF OpenColumnSelectorDialog, data
  <2>4. QED
    BY <1>1, <2>2, <2>3, Opening DEF StackBefore
<1>5. QED
  BY <1>2, <1>3, <1>4

\* Dialog k ends.
LEMMA EndedStack ==
  ASSUME StackBefore, UNCHANGED engine, NEW k \in DOMAIN dialogs,
         NEW result \in Results \ {"open"}, dialogs' = Ended(dialogs, k, result)
  PROVE  StackOK'
<1> DEFINE f == dialogs[k]
           g == [f EXCEPT !.result = result]
<1>1. f \in Frames
  BY DEF StackBefore, TypeOK
<1>2. g \in Frames /\ g.result = result
  BY <1>1, FrameChanged
<1>3. g.kind = f.kind /\ g.owner = f.owner /\ g.disables = f.disables /\ g.data = f.data
  BY <1>1, FrameFields
<1>4. dialogs' = [dialogs EXCEPT ![k] = g]
  BY DEF Ended
<1> HIDE DEF g
<1>5. Like(f, g) /\ g.data.rules = f.data.rules
  BY <1>2, <1>3 DEF Like
<1>6. TellsOf(g.kind, g.data, engine)
  BY <1>3 DEF StackBefore, Copies
<1>7. QED
  BY <1>2, <1>4, <1>5, <1>6, Working DEF StackBefore

LEMMA PressedStack ==
  ASSUME StackBefore, NEW k \in DOMAIN dialogs, PressOk(k) \/ PressYes(k) \/ PressCancel(k)
  PROVE  StackOK'
<1>1. UNCHANGED engine
  BY DEF PressOk, PressYes, PressCancel, stored
<1>2. dialogs' = Ended(dialogs, k, "ok") \/ dialogs' = Ended(dialogs, k, "cancel")
  BY DEF PressOk, PressYes, PressCancel, Press
<1>3. QED
  BY <1>1, <1>2, EndedStack DEF Results

LEMMA ToggledStack ==
  ASSUME StackBefore, NEW k \in DOMAIN dialogs, NEW row, OnToggleRuleEnabled(k, row)
  PROVE  StackOK'
<1>1. PICK f \in Frames : f = dialogs[k]
  BY DEF StackBefore, TypeOK
<1>2. /\ f.kind = "monitor" /\ Enabled(dialogs, k) /\ UNCHANGED engine
      /\ row \in DOMAIN f.data.rules
  BY <1>1 DEF OnToggleRuleEnabled, InUse, stored
<1>3. PICK d \in MonitorData : d = f.data
  BY <1>2, FrameFields DEF Fits
<1>4. PICK a \in Seq(Rules) : a = d.rules
  BY DEF MonitorData
<1>5. row \in DOMAIN a /\ a[row] \in Rules
  BY <1>2, <1>3, <1>4
<1>6. PICK r \in Rules : r = a[row]
  BY <1>5
<1> DEFINE toggled == [r EXCEPT !.enabled = ~@]
           new == [d EXCEPT !.rules = ReplaceAt(a, row, toggled), !.touched = @ \cup {r.id}]
           g == [f EXCEPT !.data = new]
<1>7. toggled \in Rules /\ toggled.id = r.id /\ r.id \in Ids
  BY DEF Rules
<1>8. /\ ReplaceAt(a, row, toggled) \in Seq(Rules)
      /\ Differing(a, ReplaceAt(a, row, toggled)) \subseteq {r.id}
  <2> HIDE DEF toggled
  <2>1. toggled.id = a[row].id
    BY <1>6, <1>7
  <2>2. /\ ReplaceAt(a, row, toggled) \in Seq(Rules)
        /\ Differing(a, ReplaceAt(a, row, toggled)) \subseteq {toggled.id}
    BY <1>5, <1>7, <2>1, DifferingReplaced
  <2>3. QED
    BY <1>7, <2>2
<1>9. /\ new \in MonitorData /\ new.touched = d.touched \cup {r.id}
      /\ new.missed = d.missed /\ new.strayed = d.strayed
      /\ new.rules = ReplaceAt(a, row, toggled)
  BY <1>7, <1>8 DEF MonitorData
<1>10. dialogs' = [dialogs EXCEPT ![k] = g]
  <2> DEFINE id == dialogs[k].data.rules[row].id
             u == [dialogs EXCEPT ![k].data.rules[row].enabled = ~@]
  <2>1. dialogs' = [u EXCEPT ![k].data.touched = @ \cup {id}]
    <3>1. dialogs' = [dialogs EXCEPT ![k].data.rules[row].enabled = ~@,
                                     ![k].data.touched = @ \cup {id}]
      BY DEF OnToggleRuleEnabled
    <3>2. QED
      BY <3>1
  <2>2. /\ k \in DOMAIN dialogs /\ "data" \in DOMAIN f
        /\ f = dialogs[k] /\ d = f.data /\ a = d.rules /\ r = a[row] /\ id = r.id
    BY <1>1, <1>3, <1>4, <1>6, FrameFields
  <2>3. PICK e : e = [d EXCEPT !.rules = [a EXCEPT ![row] = toggled]]
    OBVIOUS
  <2>4. PICK h : h = [f EXCEPT !.data = e]
    OBVIOUS
  <2>5. PICK t : t = [dialogs EXCEPT ![k] = h]
    OBVIOUS
  <2>6. t = u
    BY <2>2, <2>3, <2>4, <2>5
  <2> HIDE DEF id, u
  <2>7. t[k] = h /\ h.data = e
    BY <2>2, <2>4, <2>5
  <2>8. new = [e EXCEPT !.touched = @ \cup {id}]
    BY <2>2, <2>3 DEF ReplaceAt
  <2> HIDE DEF toggled, new
  <2>9. [h EXCEPT !.data.touched = @ \cup {id}] = g
    BY <2>4, <2>7, <2>8
  <2> HIDE DEF g
  <2>10. [t EXCEPT ![k].data.touched = @ \cup {id}] = [dialogs EXCEPT ![k] = g]
    BY <2>5, <2>7, <2>9
  <2>11. QED
    BY <2>1, <2>6, <2>10
<1> HIDE DEF toggled, new
<1>11. g \in Frames /\ g.data = new /\ g.kind = f.kind /\ Like(f, g)
  BY <1>2, <1>9, FrameChanged, FrameFields DEF Fits, Like, OverList
<1>12. TellsOf("monitor", d, engine)
  BY <1>1, <1>2, <1>3 DEF StackBefore, Copies
<1>13. TellsOf("monitor", new, engine)
  BY <1>4, <1>8, <1>9, <1>12, DifferingTriangle DEF TellsOf
<1>14. Uncovered(k)
  BY <1>2, InUseUncovered DEF StackBefore
<1> HIDE DEF g
<1>15. QED
  BY <1>1, <1>2, <1>10, <1>11, <1>13, <1>14, Working DEF StackBefore

LEMMA EditedStack ==
  ASSUME StackBefore, NEW k \in DOMAIN dialogs, NEW text \in Texts, RuleEditOk(k, text)
  PROVE  StackOK'
<1>1. PICK f \in Frames : f = dialogs[k]
  BY DEF StackBefore, TypeOK
<1>2. /\ f.kind = "edit" \/ f.kind = "add"
      /\ UNCHANGED engine
      /\ dialogs' = [dialogs EXCEPT ![k].result = "ok", ![k].data.rule.text = text]
  BY <1>1 DEF RuleEditOk, InUse, stored, Ended
<1>3. f.data.rule \in Rules
  BY <1>2, FrameFields DEF Fits, EditData, AddData
<1> DEFINE rule == [f.data.rule EXCEPT !.text = text]
           new == [f.data EXCEPT !.rule = rule]
           h == [f EXCEPT !.result = "ok"]
           g == [h EXCEPT !.data = new]
<1>4. rule \in Rules /\ rule.id = f.data.rule.id
  BY <1>3 DEF Rules
<1>5. dialogs' = [dialogs EXCEPT ![k] = g]
  BY <1>1, <1>2
<1> HIDE DEF rule
<1>6. /\ Fits(f.kind, new) /\ new.rule = rule
      /\ f.kind = "edit" => new.row = f.data.row /\ new.seen = f.data.seen
  BY <1>2, <1>4, FrameFields DEF Fits, EditData, AddData
<1> HIDE DEF new
<1>7. /\ h \in Frames /\ h.result = "ok" /\ h.kind = f.kind /\ h.owner = f.owner
      /\ h.disables = f.disables
  <2>1. "ok" \in Results
    BY DEF Results
  <2>2. h \in Frames /\ h.result = "ok"
    BY <2>1, FrameChanged
  <2>3. h.kind = f.kind /\ h.owner = f.owner /\ h.disables = f.disables
    BY FrameFields
  <2>4. QED
    BY <2>2, <2>3
<1> HIDE DEF h
<1>8. /\ g \in Frames /\ g.data = new /\ g.kind = f.kind /\ g.owner = f.owner
      /\ g.disables = f.disables /\ g.result = "ok"
  BY <1>6, <1>7, FrameChanged, FrameFields
<1> HIDE DEF g
<1>9. Like(f, g) /\ TellsOf(g.kind, g.data, engine)
  BY <1>2, <1>4, <1>6, <1>8 DEF Like, OverList, TellsOf
<1>10. QED
  BY <1>1, <1>2, <1>5, <1>8, <1>9, Working DEF StackBefore

\* What the column selector makes of columns are columns.
LEMMA SelectedColumns ==
  ASSUME NEW cols \in Seq(ColumnInfos)
  PROVE  /\ \A i \in 1..Len(cols) - 1 : Swapped(cols, i, i + 1) \in Seq(ColumnInfos)
         /\ \A i \in DOMAIN cols : Checked(cols, i) \in Seq(ColumnInfos)
         /\ AllSelected(cols) \in Seq(ColumnInfos)
<1>1. ASSUME NEW i \in 1..Len(cols) - 1 PROVE Swapped(cols, i, i + 1) \in Seq(ColumnInfos)
  <2>1. i \in 1..Len(cols) /\ i + 1 \in 1..Len(cols)
    OBVIOUS
  <2>2. QED
    BY <2>1 DEF Swapped
<1>2. ASSUME NEW c \in ColumnInfos
      PROVE  /\ [c EXCEPT !.visible = ~@] \in ColumnInfos
             /\ [c EXCEPT !.visible = TRUE] \in ColumnInfos
  BY DEF ColumnInfos
<1>3. ASSUME NEW i \in DOMAIN cols PROVE Checked(cols, i) \in Seq(ColumnInfos)
  <2>1. cols[i] \in ColumnInfos /\ i \in 1..Len(cols)
    OBVIOUS
  <2>2. Checked(cols, i) = [cols EXCEPT ![i] = [cols[i] EXCEPT !.visible = ~@]]
    BY DEF Checked
  <2>3. PICK c \in ColumnInfos : c = [cols[i] EXCEPT !.visible = ~@]
    BY <1>2, <2>1
  <2>4. QED
    BY <2>1, <2>2, <2>3
<1>4. AllSelected(cols) \in Seq(ColumnInfos)
  <2>1. DOMAIN cols = 1..Len(cols) /\ Len(cols) \in Nat
    OBVIOUS
  <2>2. ASSUME NEW i \in 1..Len(cols) PROVE [cols[i] EXCEPT !.visible = TRUE] \in ColumnInfos
    <3>1. cols[i] \in ColumnInfos
      OBVIOUS
    <3>2. QED
      BY <1>2, <3>1
  <2>3. QED
    BY <2>1, <2>2 DEF AllSelected
<1>5. QED
  BY <1>1, <1>3, <1>4

LEMMA SelectedStack ==
  ASSUME StackBefore, NEW k \in DOMAIN dialogs, SelectColumns(k)
  PROVE  StackOK'
<1>1. PICK f \in Frames : f = dialogs[k]
  BY DEF StackBefore, TypeOK
<1>2. f.kind = "columns" /\ UNCHANGED engine
  BY <1>1 DEF SelectColumns, InUse, stored
<1> DEFINE cols == dialogs[k].data.columns
<1>3. cols \in Seq(ColumnInfos) /\ f.data = [columns |-> cols]
  BY <1>1, <1>2, FrameFields DEF Fits, SelectData
<1>4. PICK new \in {Swapped(cols, i, i + 1) : i \in 1..Len(cols) - 1}
                   \cup {Checked(cols, i) : i \in DOMAIN cols}
                   \cup {AllSelected(cols), DefaultColumns} :
        dialogs' = [dialogs EXCEPT ![k].data.columns = new]
  BY Zenon DEF SelectColumns
<1> HIDE DEF cols
<1>5. new \in Seq(ColumnInfos)
  BY <1>3, SelectedColumns, DialogsAssumption
<1> DEFINE data == [columns |-> new]
           g == [f EXCEPT !.data = data]
<1>6. Fits(f.kind, data)
  BY <1>2, <1>5 DEF Fits, SelectData
<1>7. dialogs' = [dialogs EXCEPT ![k] = g]
  <2>1. [f.data EXCEPT !.columns = new] = data
    BY <1>3
  <2> HIDE DEF data
  <2>2. dialogs' = [dialogs EXCEPT ![k] = [dialogs[k] EXCEPT
                      !.data = [dialogs[k].data EXCEPT !.columns = new]]]
    BY <1>4
  <2>3. QED
    BY <1>1, <2>1, <2>2
<1> HIDE DEF data
<1>8. g \in Frames /\ g.kind = f.kind /\ Like(f, g)
  BY <1>2, <1>6, FrameChanged, FrameFields DEF Like, OverList
<1> HIDE DEF g
<1>9. TellsOf(g.kind, g.data, engine)
  BY <1>2, <1>8 DEF TellsOf
<1>10. QED
  BY <1>1, <1>2, <1>7, <1>8, <1>9, Working DEF StackBefore

\* The call of an editor or a prompt returns to the dialog it was over.
LEMMA ResumedStack ==
  ASSUME StackBefore, UNCHANGED engine, dialogs # <<>>, OverList(Last(dialogs)),
         NEW new \in Seq(Rules), NEW id \in Ids, NEW strayed \in SUBSET Ids,
         NEW owner, owner = Last(dialogs).owner,
         dialogs' = [Front(dialogs) EXCEPT
                       ![owner].data = [dialogs[owner].data EXCEPT
                                          !.rules = new,
                                          !.touched = @ \cup {id},
                                          !.strayed = strayed]],
         strayed = {} => /\ dialogs[owner].data.strayed = {}
                         /\ Differing(dialogs[owner].data.rules, new) \subseteq {id}
  PROVE  StackOK'
<1> DEFINE n == Len(dialogs)
<1>1. /\ n \in Nat \ {0} /\ DOMAIN dialogs = 1..n
      /\ Front(dialogs) \in Seq(Frames)
      /\ Len(Front(dialogs)) = n - 1 /\ DOMAIN Front(dialogs) = 1..n - 1
      /\ \A j \in 1..n - 1 : Front(dialogs)[j] = dialogs[j]
      /\ Last(dialogs) = dialogs[n]
  BY Top DEF StackBefore
<1>2. owner \in 1..n - 1 /\ owner \in DOMAIN dialogs /\ dialogs[owner].kind = "monitor"
  <2>1. n \in DOMAIN dialogs
    BY <1>1
  <2>2. owner \in 1..n - 1 /\ dialogs[owner].kind = "monitor"
    BY <1>1, <2>1 DEF StackBefore, StackInv, Owned
  <2>3. QED
    BY <1>1, <2>2
<1> HIDE DEF n
<1>3. PICK f \in Frames : f = dialogs[owner]
  BY <1>2 DEF StackBefore, TypeOK
<1>4. PICK d \in MonitorData : d = f.data
  BY <1>2, <1>3, FrameFields DEF Fits
<1> DEFINE data == [d EXCEPT !.rules = new, !.touched = @ \cup {id}, !.strayed = strayed]
           g == [f EXCEPT !.data = data]
<1>5. /\ data \in MonitorData
      /\ data.rules = new
      /\ data.touched = d.touched \cup {id}
      /\ data.missed = d.missed
      /\ data.strayed = strayed
  BY DEF MonitorData
<1>6a. PICK s \in Seq(Frames) : s = Front(dialogs)
  BY <1>1
<1>6b. /\ Len(s) = n - 1 /\ DOMAIN s = 1..n - 1
       /\ \A j \in 1..n - 1 : s[j] = dialogs[j]
       /\ s[owner] = f /\ owner \in DOMAIN s
  BY <1>1, <1>2, <1>3, <1>6a
<1>7. dialogs' = [s EXCEPT ![owner] = g]
  <2>1. dialogs[owner].data = d
    BY <1>3, <1>4
  <2>2. dialogs' = [s EXCEPT ![owner].data = data]
    BY <1>6a, <2>1, Zenon
  <2> HIDE DEF data
  <2>3. QED
    BY <1>6b, <2>2
<1>8. TellsOf("monitor", d, engine)
  BY <1>2, <1>3, <1>4 DEF StackBefore, Copies
<1>9. TellsOf("monitor", data, engine)
  <2> HIDE DEF data
  <2>1. CASE strayed # {}
    BY <1>5, <2>1 DEF TellsOf
  <2>2. CASE strayed = {}
    <3>1. d.strayed = {} /\ Differing(d.rules, new) \subseteq {id}
      BY <1>3, <1>4, <2>2
    <3>2. Differing(engine, d.rules) \subseteq d.touched \cup d.missed
      BY <1>8, <3>1 DEF TellsOf
    <3>3. Differing(engine, new) \subseteq Differing(engine, d.rules) \cup Differing(d.rules, new)
      BY DifferingTriangle
    <3>4. QED
      BY <1>5, <3>1, <3>2, <3>3 DEF TellsOf
  <2>3. QED
    BY <2>1, <2>2
<1> HIDE DEF data
<1>10. g \in Frames /\ g.data = data /\ g.kind = "monitor" /\ Like(f, g)
  BY <1>2, <1>3, <1>5, FrameChanged, FrameFields DEF Fits, Like, OverList
<1> HIDE DEF g
<1>11. /\ dialogs' \in Seq(Frames) /\ Len(dialogs') = n - 1
       /\ \A j \in 1..n - 1 : dialogs'[j] = IF j = owner THEN g ELSE dialogs[j]
  <2>1. n - 1 \in Nat /\ owner \in 1..Len(s)
    BY <1>1, <1>2, <1>6b
  <2>2. PICK t : t = [s EXCEPT ![owner] = g]
    OBVIOUS
  <2>3. t \in Seq(Frames) /\ Len(t) = Len(s)
        /\ \A j \in 1..Len(s) : t[j] = IF j = owner THEN g ELSE s[j]
    BY <1>10, <2>1, <2>2
  <2>4. dialogs' = t
    BY <1>7, <2>2, Zenon
  <2>5. QED
    BY <1>6b, <2>3, <2>4
<1>12. ASSUME NEW j \in 1..n - 1
       PROVE  /\ Like(dialogs[j], dialogs'[j])
              /\ TellsOf(dialogs'[j].kind, dialogs'[j].data, engine')
              /\ dialogs[j].kind = "monitor" /\ dialogs'[j].data.rules # dialogs[j].data.rules =>
                   OverList(Last(dialogs)) /\ Last(dialogs).owner = j
  <2>1. CASE j = owner
    BY <1>3, <1>9, <1>10, <1>11, <2>1
  <2>2. CASE j # owner
    <3>1. dialogs'[j] = dialogs[j]
      BY <1>11, <2>2
    <3>2. j \in DOMAIN dialogs
      BY <1>1
    <3>3. QED
      BY <3>1, <3>2 DEF Like, StackBefore, Copies
  <2>3. QED
    BY <2>1, <2>2
<1>13. QED
  BY <1>11, <1>12, Below DEF StackBefore, n

LEMMA EditReturnsStack ==
  ASSUME StackBefore, EditReturns
  PROVE  StackOK'
<1>1. /\ dialogs # <<>> /\ Last(dialogs).kind = "edit" /\ UNCHANGED engine
      /\ OverList(Last(dialogs))
  BY DEF EditReturns, Returning, Dispatching, stored, OverList
<1>2. CASE ~Accepted
  BY <1>1, <1>2, Popped DEF EditReturns, StackBefore
<1>3. CASE Accepted
  <2>1. PICK owner : owner = Last(dialogs).owner
    OBVIOUS
  <2>2. PICK edit \in EditData : edit = Last(dialogs).data
    BY <1>1, Top, FrameFields DEF StackBefore, Fits
  <2>3. /\ owner \in DOMAIN dialogs /\ dialogs[owner].kind = "monitor"
        /\ edit.row # 0 => edit.row \in DOMAIN edit.seen
                           /\ edit.seen[edit.row].id = edit.rule.id
    <3>1. Len(dialogs) \in DOMAIN dialogs /\ dialogs[Len(dialogs)] = Last(dialogs)
          /\ DOMAIN dialogs = 1..Len(dialogs) /\ Len(dialogs) \in Nat
      BY <1>1, Top DEF StackBefore
    <3>2. owner \in 1..Len(dialogs) - 1 /\ dialogs[owner].kind = "monitor"
          /\ (edit.row # 0 => edit.row \in DOMAIN edit.seen
                             /\ edit.seen[edit.row].id = edit.rule.id)
      BY <1>1, <2>1, <2>2, <3>1 DEF StackBefore, StackInv, Owned
    <3>3. QED
      BY <3>1, <3>2
  <2>4. PICK into \in Seq(Rules) : into = dialogs[owner].data.rules
    <3>1. dialogs[owner] \in Frames
      BY <2>3 DEF StackBefore, TypeOK
    <3>2. dialogs[owner].data \in MonitorData
      BY <2>3, <3>1, FrameFields DEF Fits
    <3>3. QED
      BY <3>2 DEF MonitorData
  <2>5. edit.rule \in Rules /\ edit.rule.id \in Ids
    BY DEF EditData, Rules
  <2> DEFINE moved == edit.row # 0 /\ Moved(owner, edit.seen)
  <2>6. PICK strayed : strayed = IF moved
                                 THEN dialogs[owner].data.strayed \cup {edit.rule.id}
                                 ELSE dialogs[owner].data.strayed
    OBVIOUS
  <2> DEFINE news == {x \in {Append(into, edit.rule)} : edit.row = 0}
                     \cup {ReplaceAt(into, row, edit.rule) : row \in DOMAIN into \cap {edit.row}}
                     \cup {old \in {into} : moved}
  <2>6a. Resume(owner, news, edit.rule.id, moved)
    BY <1>3, <2>1, <2>2, <2>4 DEF EditReturns
  <2>7. PICK new \in news :
          dialogs' = [Front(dialogs) EXCEPT
                        ![owner].data = [dialogs[owner].data EXCEPT
                                           !.rules = new,
                                           !.touched = @ \cup {edit.rule.id},
                                           !.strayed = strayed]]
    <3> HIDE DEF news, moved
    <3>1. QED
      BY <2>6, <2>6a DEF Resume
  <2>8. new \in Seq(Rules) /\ (~moved => Differing(into, new) \subseteq {edit.rule.id})
    <3>1. CASE new = Append(into, edit.rule)
      BY <2>5, <3>1, DifferingAppended
    <3>2. CASE new = ReplaceAt(into, edit.row, edit.rule) /\ edit.row \in DOMAIN into
      <4>1. new \in Seq(Rules)
        BY <2>5, <3>2 DEF ReplaceAt
      <4>2. ASSUME ~moved PROVE Differing(into, new) \subseteq {edit.rule.id}
        <5>1. edit.row # 0
          BY <3>2
        <5>2. into = edit.seen
          BY <2>4, <4>2, <5>1 DEF Moved
        <5>3. edit.rule.id = into[edit.row].id
          BY <2>3, <5>1, <5>2
        <5>4. QED
          BY <2>5, <3>2, <5>3, DifferingReplaced
      <4>3. QED
        BY <4>1, <4>2
    <3>3. CASE new = into /\ moved
      BY <3>3
    <3>4. QED
      BY <2>7, <3>1, <3>2, <3>3
  <2>9. QED
    <3>1. dialogs[owner].data.strayed \subseteq Ids
      <4>1. dialogs[owner] \in Frames
        BY <2>3 DEF StackBefore, TypeOK
      <4>2. dialogs[owner].data \in MonitorData
        BY <2>3, <4>1, FrameFields DEF Fits
      <4>3. QED
        BY <4>2 DEF MonitorData
    <3>2. strayed \in SUBSET Ids
      BY <2>5, <2>6, <3>1
    <3>3. strayed = {} => ~moved /\ dialogs[owner].data.strayed = {}
      BY <2>6
    <3>4. strayed = {} => /\ dialogs[owner].data.strayed = {}
                          /\ Differing(dialogs[owner].data.rules, new) \subseteq {edit.rule.id}
      BY <2>4, <2>8, <3>3
    <3>5. PICK id \in Ids : id = edit.rule.id
      BY <2>5
    <3> HIDE DEF moved, news
    <3>6. dialogs' = [Front(dialogs) EXCEPT
                        ![owner].data = [dialogs[owner].data EXCEPT
                                           !.rules = new,
                                           !.touched = @ \cup {id},
                                           !.strayed = strayed]]
      BY <2>7, <3>5
    <3>7. new \in Seq(Rules)
      BY <2>8
    <3>8. strayed = {} => /\ dialogs[owner].data.strayed = {}
                          /\ Differing(dialogs[owner].data.rules, new) \subseteq {id}
      BY <3>4, <3>5
    <3>9. QED
      BY <1>1, <2>1, <3>2, <3>6, <3>7, <3>8, ResumedStack
<1>4. QED
  BY <1>2, <1>3

LEMMA DeleteReturnsStack ==
  ASSUME StackBefore, DeleteReturns
  PROVE  StackOK'
<1>1. /\ dialogs # <<>> /\ Last(dialogs).kind = "delete" /\ UNCHANGED engine
      /\ OverList(Last(dialogs))
  BY DEF DeleteReturns, Returning, Dispatching, stored, OverList
<1>2. CASE ~Accepted
  BY <1>1, <1>2, Popped DEF DeleteReturns, StackBefore
<1>3. CASE Accepted
  <2>1. PICK owner : owner = Last(dialogs).owner
    OBVIOUS
  <2>2. PICK prompt \in DeleteData : prompt = Last(dialogs).data
    BY <1>1, Top, FrameFields DEF StackBefore, Fits
  <2>3. /\ owner \in DOMAIN dialogs /\ dialogs[owner].kind = "monitor"
        /\ prompt.row \in DOMAIN prompt.seen
    <3>1. Len(dialogs) \in DOMAIN dialogs /\ dialogs[Len(dialogs)] = Last(dialogs)
          /\ DOMAIN dialogs = 1..Len(dialogs) /\ Len(dialogs) \in Nat
      BY <1>1, Top DEF StackBefore
    <3>2. owner \in 1..Len(dialogs) - 1 /\ dialogs[owner].kind = "monitor"
          /\ prompt.row \in DOMAIN prompt.seen
      BY <1>1, <2>1, <2>2, <3>1 DEF StackBefore, StackInv, Owned
    <3>3. QED
      BY <3>1, <3>2
  <2>4. PICK into \in Seq(Rules) : into = dialogs[owner].data.rules
    <3>1. dialogs[owner] \in Frames
      BY <2>3 DEF StackBefore, TypeOK
    <3>2. dialogs[owner].data \in MonitorData
      BY <2>3, <3>1, FrameFields DEF Fits
    <3>3. QED
      BY <3>2 DEF MonitorData
  <2>5. PICK id \in Ids : id = prompt.seen[prompt.row].id
    <3>1. prompt.seen \in Seq(Rules)
      BY DEF DeleteData
    <3>2. prompt.seen[prompt.row] \in Rules
      BY <2>3, <3>1
    <3>3. QED
      BY <3>2 DEF Rules
  <2>6. PICK strayed : strayed = IF Moved(owner, prompt.seen)
                                 THEN dialogs[owner].data.strayed \cup {id}
                                 ELSE dialogs[owner].data.strayed
    OBVIOUS
  <2>7. PICK new : new = Erased(into, prompt.row)
    OBVIOUS
  <2>8. dialogs' = [Front(dialogs) EXCEPT
                      ![owner].data = [dialogs[owner].data EXCEPT
                                         !.rules = new,
                                         !.touched = @ \cup {id},
                                         !.strayed = strayed]]
    BY <1>3, <2>1, <2>2, <2>4, <2>5, <2>6, <2>7 DEF DeleteReturns, Resume
  <2>9. new \in Seq(Rules) /\ Differing(into, new) \subseteq {into[prompt.row].id}
    BY <2>7, DifferingErased
  <2>10. dialogs[owner].data.strayed \subseteq Ids
    <3>1. dialogs[owner] \in Frames
      BY <2>3 DEF StackBefore, TypeOK
    <3>2. dialogs[owner].data \in MonitorData
      BY <2>3, <3>1, FrameFields DEF Fits
    <3>3. QED
      BY <3>2 DEF MonitorData
  <2>11. strayed \in SUBSET Ids
    BY <2>6, <2>10
  <2>12. ASSUME strayed = {}
         PROVE  dialogs[owner].data.strayed = {} /\ Differing(into, new) \subseteq {id}
    <3>1. ~Moved(owner, prompt.seen) /\ dialogs[owner].data.strayed = {}
      BY <2>6, <2>12
    <3>2. into = prompt.seen
      BY <2>4, <3>1 DEF Moved
    <3>3. QED
      BY <2>5, <2>9, <3>1, <3>2
  <2>13. QED
    BY <1>1, <2>1, <2>4, <2>8, <2>9, <2>11, <2>12, ResumedStack
<1>4. QED
  BY <1>2, <1>3

\* A dialog over no list may get other data.
LEMMA LikeBefore ==
  ASSUME NEW f \in Frames, ~OverList(f), NEW data, Fits(f.kind, data),
         NEW g, g = [f EXCEPT !.data = data]
  PROVE  g \in Frames /\ g.data = data /\ g.kind = f.kind /\ Like(f, g)
<1>1. g \in Frames /\ g.data = data
  BY FrameChanged
<1>2. g.kind = f.kind /\ g.owner = f.owner /\ g.result = f.result /\ g.disables = f.disables
  BY FrameFields
<1>3. QED
  BY <1>1, <1>2 DEF Like

\* A dialog that misses a change tells of it.
LEMMA MissedFrame ==
  ASSUME engine \in Seq(Rules), NEW f \in Frames, NEW new \in Seq(Rules),
         TellsOf(f.kind, f.data, engine), NEW g, g = Missing(f, new)
  PROVE  /\ g \in Frames /\ Like(f, g) /\ TellsOf(g.kind, g.data, new)
         /\ f.kind = "monitor" => g.data.rules = f.data.rules
<1>1. CASE f.kind = "monitor"
  <2>1. PICK d \in MonitorData : d = f.data
    BY <1>1, FrameFields DEF Fits
  <2>2. PICK m \in SUBSET Ids : m = Differing(engine, new)
    BY DifferingIds
  <2>3. PICK data : data = [d EXCEPT !.missed = @ \cup m]
    OBVIOUS
  <2>4. /\ data \in MonitorData /\ data.rules = d.rules /\ data.touched = d.touched
        /\ data.strayed = d.strayed /\ data.missed = d.missed \cup m
    BY <2>3 DEF MonitorData
  <2>5. g = [f EXCEPT !.data = data]
    BY <1>1, <2>1, <2>2, <2>3 DEF Missing
  <2>6. Fits(f.kind, data) /\ ~OverList(f)
    BY <1>1, <2>4 DEF Fits, OverList
  <2>7. g \in Frames /\ g.data = data /\ g.kind = f.kind /\ Like(f, g)
    BY <2>5, <2>6, LikeBefore
  <2>8. ASSUME d.strayed = {}
        PROVE  Differing(new, d.rules) \subseteq data.touched \cup data.missed
    <3>1. Differing(engine, d.rules) \subseteq d.touched \cup d.missed
      BY <1>1, <2>1, <2>8 DEF TellsOf
    <3>2. Differing(new, d.rules) \subseteq Differing(engine, new) \cup Differing(engine, d.rules)
      BY DifferingTriangle, DifferingSymmetric
    <3>3. QED
      BY <2>2, <2>4, <3>1, <3>2
  <2>9. QED
    BY <1>1, <2>1, <2>4, <2>7, <2>8 DEF TellsOf
<1>2. CASE f.kind = "options" /\ engine # new
  <2>1. PICK d \in OptionsData : d = f.data
    BY <1>2, FrameFields DEF Fits
  <2>2. PICK data : data = [d EXCEPT !.stale = TRUE]
    OBVIOUS
  <2>3. data \in OptionsData /\ data.stale
    BY <2>2 DEF OptionsData
  <2>4. g = [f EXCEPT !.data = data]
    BY <1>2, <2>1, <2>2 DEF Missing
  <2>5. Fits(f.kind, data) /\ ~OverList(f)
    BY <1>2, <2>3 DEF Fits, OverList
  <2>6. g \in Frames /\ g.data = data /\ g.kind = f.kind /\ Like(f, g)
    BY <2>4, <2>5, LikeBefore
  <2>7. QED
    BY <1>2, <2>3, <2>6 DEF TellsOf
<1>3. CASE f.kind # "monitor" /\ ~(f.kind = "options" /\ engine # new)
  <2>1. g = f
    BY <1>3 DEF Missing
  <2>2. QED
    BY <1>3, <2>1 DEF Like, TellsOf
<1>4. QED
  BY <1>1, <1>2, <1>3

LEMMA TakenOverStack ==
  ASSUME StackBefore, dialogs # <<>>, NEW new \in Seq(Rules), TakeOver(new)
  PROVE  StackOK'
<1>1. /\ Len(dialogs) \in Nat \ {0} /\ DOMAIN dialogs = 1..Len(dialogs)
      /\ engine' = new /\ engine \in Seq(Rules)
  BY Top DEF TakeOver, StackBefore, TypeOK
<1>2. PICK n : n = Len(dialogs) - 1
  OBVIOUS
<1>2a. n \in Nat /\ n < Len(dialogs)
  BY <1>1, <1>2
<1>3. PICK d : d = dialogs'
  OBVIOUS
<1>4. d = [k \in 1..n |-> Missing(dialogs[k], new)]
  BY <1>2, <1>3 DEF TakeOver
<1>5. ASSUME NEW j \in 1..n
      PROVE  /\ d[j] \in Frames /\ Like(dialogs[j], d[j])
             /\ TellsOf(d[j].kind, d[j].data, new)
             /\ dialogs[j].kind = "monitor" => d[j].data.rules = dialogs[j].data.rules
  <2>1. j \in DOMAIN dialogs
    BY <1>1, <1>2
  <2>2. PICK f \in Frames : f = dialogs[j]
    BY <2>1 DEF StackBefore, TypeOK
  <2>3. TellsOf(f.kind, f.data, engine)
    BY <2>1, <2>2 DEF StackBefore, Copies
  <2>4. PICK g : g = Missing(f, new)
    OBVIOUS
  <2>5. g = d[j]
    BY <1>4, <2>2, <2>4
  <2>6. /\ g \in Frames /\ Like(f, g) /\ TellsOf(g.kind, g.data, new)
        /\ f.kind = "monitor" => g.data.rules = f.data.rules
    BY <1>1, <2>3, <2>4, MissedFrame
  <2>7. QED
    BY <2>2, <2>5, <2>6
<1>6. d \in Seq(Frames) /\ Len(d) = n
  <2>1. PICK e : e = [j \in 1..n |-> d[j]]
    OBVIOUS
  <2>2. e = d
    BY <1>4, <2>1
  <2>3. \A j \in 1..n : e[j] \in Frames
    BY <1>5, <2>2
  <2>4. e \in Seq(Frames) /\ Len(e) = n
    BY <1>2a, <2>1, <2>3
  <2>5. QED
    BY <2>2, <2>4
<1>7. QED
  BY <1>1, <1>2, <1>3, <1>5, <1>6, Below DEF StackBefore

LEMMA MonitorReturnsStack ==
  ASSUME StackBefore, MonitorReturns
  PROVE  StackOK'
<1>1. dialogs # <<>> /\ Last(dialogs).kind = "monitor"
  BY DEF MonitorReturns, Returning, Dispatching
<1>2. CASE ~Accepted
  BY <1>1, <1>2, Popped DEF MonitorReturns, StackBefore, stored
<1>3. CASE Accepted
  <2>1. Last(dialogs).data \in MonitorData
    BY <1>1, Top, FrameFields DEF StackBefore, Fits
  <2>2. PICK new \in Seq(Rules) : new = Last(dialogs).data.rules
    BY <2>1 DEF MonitorData
  <2>3. TakeOver(new)
    BY <1>3, <2>2 DEF MonitorReturns
  <2>4. QED
    BY <1>1, <2>3, TakenOverStack
<1>4. QED
  BY <1>2, <1>3

LEMMA AddReturnsStack ==
  ASSUME StackBefore, AddReturns
  PROVE  StackOK'
<1>1. dialogs # <<>> /\ Last(dialogs).kind = "add"
  BY DEF AddReturns, Returning, Dispatching
<1>2. CASE ~Accepted
  BY <1>1, <1>2, Popped DEF AddReturns, StackBefore, stored
<1>3. CASE Accepted
  <2>1. Last(dialogs).data \in AddData
    BY <1>1, Top, FrameFields DEF StackBefore, Fits
  <2>2. PICK rule \in Rules : rule = Last(dialogs).data.rule
    BY <2>1 DEF AddData
  <2>3. PICK old \in Seq(Rules) : old = rules
    BY DEF StackBefore, TypeOK
  <2>3a. PICK new : new = Append(old, rule)
    OBVIOUS
  <2>3b. new \in Seq(Rules)
    BY <2>3a
  <2>4. TakeOver(new)
    BY <1>3, <2>2, <2>3, <2>3a DEF AddReturns
  <2>5. QED
    BY <1>1, <2>3b, <2>4, TakenOverStack
<1>4. QED
  BY <1>2, <1>3

LEMMA OtherReturnsStack ==
  ASSUME StackBefore, OptionsReturns \/ ColumnsReturn
  PROVE  StackOK'
<1>1. dialogs # <<>> /\ dialogs' = Front(dialogs) /\ UNCHANGED engine
  BY DEF OptionsReturns, ColumnsReturn, Returning, Dispatching, stored
<1>2. QED
  BY <1>1, Popped DEF StackBefore

LEMMA SameStack ==
  ASSUME StackBefore, UNCHANGED <<engine, dialogs>>
  PROVE  StackOK'
BY DEF StackBefore, StackOK, TypeOK, StackInv, Owned, OneAtATime, EditorsPointHome, Copies,
       TellsOf, OverList

\* Every step leaves the stack as it has to be.
LEMMA StackStep == StackBefore /\ [Next]_vars => StackOK'
<1> SUFFICES ASSUME StackBefore, [Next]_vars PROVE StackOK'
  OBVIOUS
<1>1. ASSUME NEW k \in DOMAIN dialogs, dialogs[k].kind = "monitor", RulesDialog(k)
      PROVE  StackOK'
  BY <1>1, RulesDialogStack, ToggledStack DEF RulesDialog
<1>2. ASSUME NEW k \in DOMAIN dialogs,
             \/ \E text \in Texts : RuleEditOk(k, text)
             \/ SelectColumns(k)
             \/ PressOk(k)
             \/ PressYes(k)
             \/ PressCancel(k)
      PROVE  StackOK'
  BY <1>2, EditedStack, SelectedStack, PressedStack
<1>3. CASE \/ \E i \in 0..Cardinality(Columns) : ClickColumn(i) \/ OpenColumnMenu(i)
           \/ HideColumn
           \/ UNCHANGED vars
  <2>1. UNCHANGED <<engine, dialogs>>
    BY <1>3 DEF ClickColumn, OpenColumnMenu, HideColumn, HideColumnByIndex, vars, stored
  <2>2. QED
    BY <2>1, SameStack
<1>4. CASE AddSelectedProcessToMonitor \/ OpenOptionsDialog \/ OpenColumnSelectorDialog
  BY <1>4, OverMainOpened
<1>5. CASE OptionsReturns \/ ColumnsReturn
  BY <1>5, OtherReturnsStack
<1>6. QED
  BY <1>1, <1>2, <1>3, <1>4, <1>5, MonitorSettingsOpened, EditReturnsStack,
     DeleteReturnsStack, MonitorReturnsStack, AddReturnsStack
    DEF Next

-----------------------------------------------------------------------------
(* The visible columns, by induction on how many columns have been seen    *)

IsVisible(f, n, cols) ==
  f = [i \in 0..n |->
         IF i = 0 THEN <<>>
         ELSE IF cols[i].visible THEN Append(f[i - 1], i) ELSE f[i - 1]]

\* The recursion that VisibleIndices stands for has a solution.
LEMMA VisibleExists ==
  ASSUME NEW cols \in Seq(ColumnInfos)
  PROVE  IsVisible(VisibleUpTo(cols), Len(cols), cols)
<1> DEFINE Bad == {n \in Nat : ~\E f : IsVisible(f, n, cols)}
<1>1. SUFFICES Bad = {}
  <2>1. Len(cols) \in Nat
    OBVIOUS
  <2>2. PICK f : IsVisible(f, Len(cols), cols)
    BY <1>1, <2>1
  <2>3. QED
    BY <2>2 DEF IsVisible, VisibleUpTo
<1>2. SUFFICES ASSUME Bad # {} PROVE FALSE
  OBVIOUS
<1>3. PICK n \in Bad : \A m \in Bad : ~(<<m, n>> \in OpToRel(<, Nat))
  <2>1. Bad \subseteq Nat
    OBVIOUS
  <2> HIDE DEF Bad
  <2>2. QED
    BY <1>2, <2>1, WFMin, NatLessThanWellFounded
<1>4. n # 0
  <2>1. IsVisible([i \in 0..0 |-> <<>>], 0, cols)
    BY DEF IsVisible
  <2>2. QED
    BY <2>1
<1>5. n \in Nat /\ n - 1 \in Nat /\ n - 1 \notin Bad
  <2>1. n \in Nat
    OBVIOUS
  <2>2. n - 1 \in Nat /\ n - 1 < n
    BY <1>4, <2>1
  <2>3. <<n - 1, n>> \in OpToRel(<, Nat)
    BY <2>1, <2>2 DEF OpToRel
  <2>4. QED
    BY <1>3, <2>1, <2>2, <2>3
<1>6. PICK f : IsVisible(f, n - 1, cols)
  BY <1>5
<1> DEFINE g == [i \in 0..n |->
                   IF i < n THEN f[i]
                   ELSE IF cols[i].visible THEN Append(f[i - 1], i) ELSE f[i - 1]]
<1>7. \A i \in 0..n - 1 : g[i] = f[i]
  BY <1>5
<1>8. ASSUME NEW i \in 0..n
      PROVE  g[i] = IF i = 0 THEN <<>>
                    ELSE IF cols[i].visible THEN Append(g[i - 1], i) ELSE g[i - 1]
  <2>1. \A j \in 0..n - 1 : f[j] = IF j = 0 THEN <<>>
                                    ELSE IF cols[j].visible THEN Append(f[j - 1], j) ELSE f[j - 1]
    BY <1>6 DEF IsVisible
  <2>2. CASE i = n
    <3>1. n - 1 \in 0..n - 1
      BY <1>5
    <3>2. g[n - 1] = f[n - 1]
      BY <1>7, <3>1
    <3>3. g[n] = IF cols[n].visible THEN Append(f[n - 1], n) ELSE f[n - 1]
      BY <1>5
    <3>4. QED
      BY <1>4, <2>2, <3>2, <3>3
  <2>3. CASE i # n
    <3>1. i \in 0..n - 1 /\ (i # 0 => i - 1 \in 0..n - 1)
      BY <1>5, <2>3
    <3>2. g[i] = f[i] /\ (i # 0 => g[i - 1] = f[i - 1])
      BY <1>7, <3>1
    <3>3. QED
      BY <2>1, <3>1, <3>2
  <2>4. QED
    BY <2>2, <2>3
<1>9. IsVisible(g, n, cols)
  BY <1>8 DEF IsVisible
<1>10. QED
  BY <1>9

LEMMA VisibleStep ==
  ASSUME NEW cols \in Seq(ColumnInfos)
  PROVE  /\ VisibleUpTo(cols)[0] = <<>>
         /\ \A n \in 1..Len(cols) :
              VisibleUpTo(cols)[n] =
                IF cols[n].visible THEN Append(VisibleUpTo(cols)[n - 1], n)
                ELSE VisibleUpTo(cols)[n - 1]
<1> DEFINE f == VisibleUpTo(cols)
<1>1. f = [i \in 0..Len(cols) |->
             IF i = 0 THEN <<>>
             ELSE IF cols[i].visible THEN Append(f[i - 1], i) ELSE f[i - 1]]
  BY VisibleExists DEF IsVisible
<1>2. Len(cols) \in Nat
  OBVIOUS
<1> HIDE DEF f
<1>3. f[0] = <<>>
  BY <1>1, <1>2
<1>4. ASSUME NEW n \in 1..Len(cols)
      PROVE  f[n] = IF cols[n].visible THEN Append(f[n - 1], n) ELSE f[n - 1]
  <2>1. n \in 0..Len(cols) /\ n # 0
    BY <1>2
  <2>2. QED
    BY <1>1, <2>1
<1>5. QED
  BY <1>3, <1>4 DEF f

\* Indices of a set in their order, none above n.
Rising(s, n, S) ==
  /\ s \in Seq(Nat)
  /\ \A i \in 1..Len(s) : s[i] \in 1..n /\ s[i] \in S
  /\ \A i, j \in 1..Len(s) : i < j => s[i] < s[j]

LEMMA RisingAppended ==
  ASSUME NEW S, NEW n \in Nat, NEW s, Rising(s, n, S)
  PROVE  Rising(s, n + 1, S) /\ (n + 1 \in S => Rising(Append(s, n + 1), n + 1, S))
<1> DEFINE t == Append(s, n + 1)
<1>1. /\ s \in Seq(Nat) /\ \A i \in 1..Len(s) : s[i] \in 1..n /\ s[i] \in S
      /\ \A i, j \in 1..Len(s) : i < j => s[i] < s[j]
      /\ Len(s) \in Nat
  BY DEF Rising
<1>2. /\ t \in Seq(Nat) /\ Len(t) = Len(s) + 1
      /\ \A i \in 1..Len(s) : t[i] = s[i]
      /\ t[Len(s) + 1] = n + 1
  BY <1>1
<1> HIDE DEF t
<1>3. \A i \in 1..Len(t) : i \in 1..Len(s) \/ i = Len(s) + 1
  BY <1>1, <1>2
<1>4. n + 1 \in S => \A i \in 1..Len(t) : t[i] \in 1..n + 1 /\ t[i] \in S
  <2> SUFFICES ASSUME n + 1 \in S, NEW i \in 1..Len(t)
               PROVE  t[i] \in 1..n + 1 /\ t[i] \in S
    OBVIOUS
  <2>1. CASE i \in 1..Len(s)
    <3>1. t[i] = s[i] /\ s[i] \in 1..n /\ s[i] \in S
      BY <1>1, <1>2, <2>1
    <3>2. QED
      BY <3>1
  <2>2. CASE i = Len(s) + 1
    BY <1>2, <2>2
  <2>3. QED
    BY <1>3, <2>1, <2>2
<1>5. ASSUME NEW i \in 1..Len(t), NEW j \in 1..Len(t), i < j PROVE t[i] < t[j]
  <2>1. i \in 1..Len(s)
    BY <1>1, <1>2, <1>5
  <2>2. CASE j \in 1..Len(s)
    BY <1>1, <1>2, <1>5, <2>1, <2>2
  <2>3. CASE j = Len(s) + 1
    <3>1. t[i] \in 1..n /\ t[j] = n + 1
      BY <1>1, <1>2, <2>1, <2>3
    <3>2. QED
      BY <3>1
  <2>4. QED
    BY <1>3, <2>2, <2>3
<1>6. \A i \in 1..Len(s) : s[i] \in 1..n + 1
  BY <1>1
<1>7. QED
  BY <1>1, <1>2, <1>4, <1>5, <1>6 DEF Rising, t

VisibleAt(cols) == {i \in DOMAIN cols : cols[i].visible}

LEMMA VisibleRising ==
  ASSUME NEW cols \in Seq(ColumnInfos), NEW n \in 0..Len(cols)
  PROVE  Rising(VisibleUpTo(cols)[n], n, VisibleAt(cols))
<1> DEFINE f == VisibleUpTo(cols)
           Bad == {m \in Nat : m <= Len(cols) /\ ~Rising(f[m], m, VisibleAt(cols))}
<1>1. SUFFICES Bad = {}
  OBVIOUS
<1>2. SUFFICES ASSUME Bad # {} PROVE FALSE
  OBVIOUS
<1>3. PICK m \in Bad : \A j \in Bad : ~(<<j, m>> \in OpToRel(<, Nat))
  <2>1. Bad \subseteq Nat
    OBVIOUS
  <2> HIDE DEF Bad
  <2>2. QED
    BY <1>2, <2>1, WFMin, NatLessThanWellFounded
<1> HIDE DEF f
<1>4. m # 0
  <2>1. f[0] = <<>>
    BY VisibleStep DEF f
  <2>2. Rising(<<>>, 0, VisibleAt(cols))
    BY DEF Rising
  <2>3. Rising(f[0], 0, VisibleAt(cols))
    BY <2>1, <2>2
  <2>4. QED
    BY <2>3
<1>5. m \in Nat /\ m - 1 \in Nat /\ m \in 1..Len(cols) /\ m - 1 \notin Bad
  <2>1. m \in Nat /\ m <= Len(cols) /\ Len(cols) \in Nat
    OBVIOUS
  <2>2. m - 1 \in Nat /\ m - 1 < m
    BY <1>4, <2>1
  <2>3. <<m - 1, m>> \in OpToRel(<, Nat)
    BY <2>1, <2>2 DEF OpToRel
  <2>4. m - 1 \notin Bad
    <3> HIDE DEF Bad
    <3>1. QED
      BY <1>3, <2>3
  <2>5. m \in 1..Len(cols)
    BY <1>4, <2>1
  <2>6. QED
    BY <2>1, <2>2, <2>4, <2>5
<1>6. Rising(f[m - 1], m - 1, VisibleAt(cols))
  BY <1>5
<1>7. f[m] = IF cols[m].visible THEN Append(f[m - 1], m) ELSE f[m - 1]
  BY <1>5, VisibleStep DEF f
<1>8. /\ Rising(f[m - 1], m, VisibleAt(cols))
      /\ m \in VisibleAt(cols) => Rising(Append(f[m - 1], m), m, VisibleAt(cols))
  BY <1>5, <1>6, RisingAppended
<1>9. cols[m].visible => m \in VisibleAt(cols)
  BY <1>5 DEF VisibleAt
<1>10. QED
  BY <1>7, <1>8, <1>9

LEMMA VisibleTyped ==
  ASSUME NEW cols \in Seq(ColumnInfos)
  PROVE  /\ Rising(VisibleIndices(cols), Len(cols), VisibleAt(cols))
         /\ VisibleIds(cols) \in Seq(Columns)
         /\ Len(VisibleIds(cols)) = Len(VisibleIndices(cols))
         /\ DOMAIN VisibleIndices(cols) = 1..Len(VisibleIndices(cols))
         /\ DOMAIN VisibleIds(cols) = 1..Len(VisibleIndices(cols))
         /\ \A i \in 1..Len(VisibleIndices(cols)) :
              VisibleIds(cols)[i] = cols[VisibleIndices(cols)[i]].id
<1>1. PICK v : v = VisibleIndices(cols)
  OBVIOUS
<1>2. Rising(v, Len(cols), VisibleAt(cols))
  BY <1>1, VisibleRising DEF VisibleIndices
<1>3. /\ v \in Seq(Nat) /\ Len(v) \in Nat /\ DOMAIN v = 1..Len(v)
      /\ \A i \in 1..Len(v) : v[i] \in 1..Len(cols)
  BY <1>2 DEF Rising
<1>4. \A i \in 1..Len(v) : cols[v[i]].id \in Columns
  <2>1. ASSUME NEW j \in 1..Len(cols) PROVE cols[j].id \in Columns
    <3>1. cols[j] \in ColumnInfos
      OBVIOUS
    <3>2. QED
      BY <3>1 DEF ColumnInfos
  <2>2. QED
    BY <1>3, <2>1
<1>5. PICK ids : ids = [i \in 1..Len(v) |-> cols[v[i]].id]
  OBVIOUS
<1>6. ids \in Seq(Columns) /\ Len(ids) = Len(v) /\ DOMAIN ids = 1..Len(v)
  BY <1>3, <1>4, <1>5
<1>7. VisibleIds(cols) = ids
  BY <1>1, <1>3, <1>5 DEF VisibleIds
<1>8. QED
  BY <1>1, <1>2, <1>3, <1>5, <1>6, <1>7

-----------------------------------------------------------------------------
(* What hiding a column takes away                                         *)

LEMMA SameSequence ==
  ASSUME NEW T, NEW s \in Seq(T), NEW t \in Seq(T), Len(s) = Len(t),
         \A i \in 1..Len(s) : s[i] = t[i]
  PROVE  s = t
OBVIOUS

LEMMA RemovedFromAppended ==
  ASSUME NEW T, NEW s \in Seq(T), NEW x \in T
  PROVE  /\ RemoveAt(Append(s, x), Len(s) + 1) = s
         /\ \A i \in 1..Len(s) : RemoveAt(Append(s, x), i) = Append(RemoveAt(s, i), x)
<1>1. PICK a : a = Append(s, x)
  OBVIOUS
<1>2. /\ a \in Seq(T) /\ Len(a) = Len(s) + 1 /\ Len(s) \in Nat
      /\ \A j \in 1..Len(s) : a[j] = s[j]
      /\ a[Len(s) + 1] = x
  BY <1>1
<1>3. RemoveAt(a, Len(s) + 1) = s
  <2>1. PICK r : r = RemoveAt(a, Len(s) + 1)
    OBVIOUS
  <2>2. Len(s) + 1 \in 1..Len(a)
    BY <1>2
  <2>3. /\ r \in Seq(T) /\ Len(r) = Len(a) - 1
        /\ \A j \in 1..Len(a) - 1 : r[j] = IF j < Len(s) + 1 THEN a[j] ELSE a[j + 1]
    BY <1>2, <2>1, <2>2, RemovedAt
  <2>4. Len(r) = Len(s) /\ \A j \in 1..Len(r) : r[j] = s[j]
    BY <1>2, <2>3
  <2>5. r = s
    BY <2>3, <2>4, SameSequence
  <2>6. QED
    BY <2>1, <2>5
<1>4. ASSUME NEW i \in 1..Len(s) PROVE RemoveAt(a, i) = Append(RemoveAt(s, i), x)
  <2>1. PICK r : r = RemoveAt(a, i)
    OBVIOUS
  <2>2. PICK b : b = RemoveAt(s, i)
    OBVIOUS
  <2>3. i \in 1..Len(a)
    BY <1>2
  <2>4. /\ r \in Seq(T) /\ Len(r) = Len(s)
        /\ \A j \in 1..Len(s) : r[j] = IF j < i THEN a[j] ELSE a[j + 1]
    <3>1. /\ r \in Seq(T) /\ Len(r) = Len(a) - 1
          /\ \A j \in 1..Len(a) - 1 : r[j] = IF j < i THEN a[j] ELSE a[j + 1]
      BY <1>2, <2>1, <2>3, RemovedAt
    <3>2. QED
      BY <1>2, <3>1
  <2>5. /\ b \in Seq(T) /\ Len(b) = Len(s) - 1
        /\ \A j \in 1..Len(s) - 1 : b[j] = IF j < i THEN s[j] ELSE s[j + 1]
    BY <2>2, RemovedAt
  <2>6. PICK c : c = Append(b, x)
    OBVIOUS
  <2>7. /\ c \in Seq(T) /\ Len(c) = Len(s)
        /\ \A j \in 1..Len(s) - 1 : c[j] = b[j]
        /\ c[Len(s)] = x
    BY <1>2, <2>5, <2>6
  <2>8. ASSUME NEW j \in 1..Len(r) PROVE r[j] = c[j]
    <3>1. CASE j = Len(s)
      BY <1>2, <2>4, <2>7, <3>1
    <3>2. CASE j \in 1..Len(s) - 1
      <4>1. /\ j \in 1..Len(s) /\ j + 1 \in 1..Len(s)
        BY <1>2, <3>2
      <4>2. r[j] = IF j < i THEN s[j] ELSE s[j + 1]
        BY <1>2, <2>4, <4>1
      <4>3. QED
        BY <2>5, <2>7, <3>2, <4>2
    <3>3. QED
      BY <1>2, <2>4, <3>1, <3>2
  <2>9. r = c
    BY <2>4, <2>7, <2>8, SameSequence
  <2>10. QED
    BY <2>1, <2>2, <2>6, <2>9
<1>5. QED
  BY <1>1, <1>3, <1>4

\* Columns with the one at q hidden.
Hidden(cols, q) == [cols EXCEPT ![q].visible = FALSE]

LEMMA HiddenColumns ==
  ASSUME NEW cols \in Seq(ColumnInfos), NEW q \in 1..Len(cols)
  PROVE  /\ Hidden(cols, q) \in Seq(ColumnInfos)
         /\ Len(Hidden(cols, q)) = Len(cols)
         /\ \A i \in 1..Len(cols) : Hidden(cols, q)[i].id = cols[i].id
         /\ \A i \in 1..Len(cols) \ {q} : Hidden(cols, q)[i] = cols[i]
         /\ Hidden(cols, q)[q].visible = FALSE
<1>1. PICK c \in ColumnInfos : c = cols[q]
  OBVIOUS
<1>2. PICK d : d = [c EXCEPT !.visible = FALSE]
  OBVIOUS
<1>3. d \in ColumnInfos /\ d.id = c.id /\ d.visible = FALSE
  BY <1>2 DEF ColumnInfos
<1>4. Hidden(cols, q) = [cols EXCEPT ![q] = d]
  BY <1>1, <1>2 DEF Hidden
<1>5. QED
  BY <1>1, <1>3, <1>4

\* How far the visible ones of the first n columns and those without q agree, p
\* being the place of q among them.
Without(cols, q, p, n) ==
  IF n < q
  THEN VisibleUpTo(Hidden(cols, q))[n] = VisibleUpTo(cols)[n]
  ELSE /\ p \in 1..Len(VisibleUpTo(cols)[n])
       /\ VisibleUpTo(cols)[n][p] = q
       /\ VisibleUpTo(Hidden(cols, q))[n] = RemoveAt(VisibleUpTo(cols)[n], p)

LEMMA HiddenUpTo ==
  ASSUME NEW cols \in Seq(ColumnInfos), NEW q \in 1..Len(cols), cols[q].visible,
         NEW p, p = Len(VisibleUpTo(cols)[q - 1]) + 1
  PROVE  \A n \in 0..Len(cols) : Without(cols, q, p, n)
<1> DEFINE f == VisibleUpTo(cols)
           g == VisibleUpTo(Hidden(cols, q))
           Bad == {m \in Nat : m <= Len(cols) /\ ~Without(cols, q, p, m)}
<1>1. SUFFICES Bad = {}
  OBVIOUS
<1>2. SUFFICES ASSUME Bad # {} PROVE FALSE
  OBVIOUS
<1>3. PICK m \in Bad : \A j \in Bad : ~(<<j, m>> \in OpToRel(<, Nat))
  <2>1. Bad \subseteq Nat
    OBVIOUS
  <2> HIDE DEF Bad
  <2>2. QED
    BY <1>2, <2>1, WFMin, NatLessThanWellFounded
<1>4a. Len(cols) \in Nat /\ q \in Nat /\ q >= 1 /\ q <= Len(cols)
  OBVIOUS
<1>4b. /\ Hidden(cols, q) \in Seq(ColumnInfos)
       /\ Len(Hidden(cols, q)) = Len(cols)
       /\ \A i \in 1..Len(cols) \ {q} : Hidden(cols, q)[i] = cols[i]
       /\ Hidden(cols, q)[q].visible = FALSE
  BY HiddenColumns
<1>4. /\ Len(cols) \in Nat /\ q \in Nat /\ q >= 1 /\ q <= Len(cols)
      /\ Hidden(cols, q) \in Seq(ColumnInfos)
      /\ Len(Hidden(cols, q)) = Len(cols)
  BY <1>4a, <1>4b
<1>5. f[0] = <<>> /\ g[0] = <<>>
  BY <1>4, VisibleStep
<1>6. m \in Nat /\ m <= Len(cols) /\ ~Without(cols, q, p, m)
  OBVIOUS
<1>7. m # 0
  <2>1. Without(cols, q, p, 0)
    BY <1>4, <1>5 DEF Without
  <2>2. QED
    BY <1>6, <2>1
<1>8. m \in 1..Len(cols) /\ m - 1 \in Nat /\ Without(cols, q, p, m - 1)
  <2>1. m - 1 \in Nat /\ m - 1 < m /\ m \in 1..Len(cols) /\ m - 1 <= Len(cols)
    BY <1>4, <1>6, <1>7
  <2>2. <<m - 1, m>> \in OpToRel(<, Nat)
    BY <1>6, <2>1 DEF OpToRel
  <2>3. m - 1 \notin Bad
    <3> HIDE DEF Bad
    <3>1. QED
      BY <1>3, <2>2
  <2>4. QED
    BY <2>1, <2>3
<1>9. /\ f[m] = IF cols[m].visible THEN Append(f[m - 1], m) ELSE f[m - 1]
      /\ g[m] = IF Hidden(cols, q)[m].visible THEN Append(g[m - 1], m) ELSE g[m - 1]
  BY <1>4, <1>8, VisibleStep
<1>10. f[m - 1] \in Seq(Nat) /\ Len(f[m - 1]) \in Nat
  <2>1. m - 1 \in 0..Len(cols)
    BY <1>4, <1>8
  <2>2. Rising(f[m - 1], m - 1, VisibleAt(cols))
    BY <2>1, VisibleRising
  <2>3. f[m - 1] \in Seq(Nat)
    BY <2>2 DEF Rising
  <2>4. QED
    BY <2>3
<1> HIDE DEF f, g, Bad
<1>11. CASE m < q
  <2>1. Hidden(cols, q)[m] = cols[m] /\ m - 1 < q
    BY <1>4, <1>4b, <1>8, <1>11
  <2>2. g[m - 1] = f[m - 1]
    BY <1>8, <2>1 DEF Without, f, g
  <2>3. g[m] = f[m]
    BY <1>9, <2>1, <2>2
  <2>4. QED
    BY <1>6, <1>11, <2>3 DEF Without, f, g
<1>12. CASE m = q
  <2>1. Hidden(cols, q)[m].visible = FALSE /\ m - 1 < q
    BY <1>4, <1>4b, <1>12
  <2>2. g[m - 1] = f[m - 1]
    BY <1>8, <2>1 DEF Without, f, g
  <2>3. PICK s \in Seq(Nat) : s = f[m - 1]
    BY <1>10
  <2>4. f[m] = Append(s, m) /\ g[m] = s /\ p = Len(s) + 1
    BY <1>9, <1>12, <2>1, <2>2, <2>3 DEF f
  <2>5. RemoveAt(Append(s, m), Len(s) + 1) = s
    BY <1>6, RemovedFromAppended
  <2>6. p \in 1..Len(f[m]) /\ f[m][p] = q
    BY <1>6, <1>12, <2>4
  <2>7. ~(m < q)
    BY <1>4, <1>12
  <2>8. QED
    BY <1>6, <2>4, <2>5, <2>6, <2>7 DEF Without, f, g
<1>13. CASE m > q
  <2>1. Hidden(cols, q)[m] = cols[m] /\ ~(m - 1 < q) /\ ~(m < q)
    <3>1. m \in 1..Len(cols) /\ m # q
      BY <1>4, <1>8, <1>13
    <3>2. Hidden(cols, q)[m] = cols[m]
      BY <1>4b, <3>1
    <3>3. ~(m - 1 < q) /\ ~(m < q)
      BY <1>4, <1>6, <1>13
    <3>4. QED
      BY <3>2, <3>3
  <2>2. PICK s \in Seq(Nat) : s = f[m - 1]
    BY <1>10
  <2>3. p \in 1..Len(s) /\ s[p] = q /\ g[m - 1] = RemoveAt(s, p)
    BY <1>8, <2>1, <2>2 DEF Without, f, g
  <2>4. CASE ~cols[m].visible
    <3>1. f[m] = s /\ g[m] = RemoveAt(s, p)
      BY <1>9, <2>1, <2>2, <2>3, <2>4
    <3>2. QED
      BY <1>6, <2>1, <2>3, <3>1 DEF Without, f, g
  <2>5. CASE cols[m].visible
    <3>1. f[m] = Append(s, m) /\ g[m] = Append(RemoveAt(s, p), m)
      BY <1>9, <2>1, <2>2, <2>3, <2>5
    <3>2. RemoveAt(Append(s, m), p) = Append(RemoveAt(s, p), m)
      <4>1. m \in Nat /\ p \in 1..Len(s)
        BY <1>6, <2>3
      <4>2. \A i \in 1..Len(s) : RemoveAt(Append(s, m), i) = Append(RemoveAt(s, i), m)
        BY <4>1, RemovedFromAppended
      <4>3. QED
        BY <4>1, <4>2
    <3>3. p \in 1..Len(f[m]) /\ f[m][p] = q
      BY <1>6, <2>3, <3>1
    <3>4. QED
      BY <1>6, <2>1, <3>1, <3>2, <3>3 DEF Without, f, g
  <2>6. QED
    BY <2>4, <2>5
<1>14. QED
  BY <1>4, <1>6, <1>11, <1>12, <1>13

\* Hiding the column at place i of the list takes that one away from it, and leaves
\* one less than there were.
LEMMA HiddenTakenAway ==
  ASSUME NEW cols \in Seq(ColumnInfos), NEW i \in DOMAIN VisibleIndices(cols),
         NEW new, new = Hidden(cols, VisibleIndices(cols)[i])
  PROVE  /\ new \in Seq(ColumnInfos)
         /\ VisibleIds(new) = RemoveAt(VisibleIds(cols), i)
<1>1. PICK v : v = VisibleIndices(cols)
  OBVIOUS
<1>2. /\ v \in Seq(Nat) /\ Len(v) \in Nat /\ i \in 1..Len(v)
      /\ \A j \in 1..Len(v) : v[j] \in 1..Len(cols) /\ v[j] \in VisibleAt(cols)
      /\ \A j, k \in 1..Len(v) : j < k => v[j] < v[k]
  BY <1>1, VisibleTyped DEF Rising
<1>3. PICK q : q = v[i]
  OBVIOUS
<1>4. q \in 1..Len(cols) /\ cols[q].visible /\ Len(cols) \in Nat
  BY <1>2, <1>3 DEF VisibleAt
<1>5. /\ new \in Seq(ColumnInfos) /\ Len(new) = Len(cols)
      /\ new = Hidden(cols, q)
      /\ \A j \in 1..Len(cols) : new[j].id = cols[j].id
  <2>1. new = Hidden(cols, q)
    BY <1>1, <1>3
  <2>2. /\ Hidden(cols, q) \in Seq(ColumnInfos)
        /\ Len(Hidden(cols, q)) = Len(cols)
        /\ \A j \in 1..Len(cols) : Hidden(cols, q)[j].id = cols[j].id
    BY <1>4, HiddenColumns
  <2>3. QED
    BY <2>1, <2>2
<1>6. PICK p : p = Len(VisibleUpTo(cols)[q - 1]) + 1
  OBVIOUS
<1>7. Without(cols, q, p, Len(cols))
  BY <1>4, <1>6, HiddenUpTo
<1>8. p \in 1..Len(v) /\ v[p] = q /\ VisibleIndices(new) = RemoveAt(v, p)
  <2>1. ~(Len(cols) < q)
    BY <1>4
  <2>2. QED
    BY <1>1, <1>5, <1>7, <2>1 DEF Without, VisibleIndices
<1>9. p = i
  <2>1. ~(p < i) /\ ~(i < p)
    BY <1>2, <1>3, <1>4, <1>8
  <2>2. QED
    BY <1>2, <1>8, <2>1
<1>10. PICK w : w = VisibleIndices(new)
  OBVIOUS
<1>11. /\ w \in Seq(Nat) /\ Len(w) = Len(v) - 1
       /\ \A j \in 1..Len(v) - 1 : w[j] = IF j < i THEN v[j] ELSE v[j + 1]
  <2>1. w = RemoveAt(v, i)
    BY <1>8, <1>9, <1>10
  <2>2. /\ RemoveAt(v, i) \in Seq(Nat)
        /\ Len(RemoveAt(v, i)) = Len(v) - 1
        /\ \A j \in 1..Len(v) - 1 : RemoveAt(v, i)[j] = IF j < i THEN v[j] ELSE v[j + 1]
    <3>1. v \in Seq(Nat) /\ i \in 1..Len(v)
      BY <1>2
    <3>2. QED
      BY <3>1, RemovedAt
  <2>3. QED
    BY <2>1, <2>2
<1>12. PICK a : a = VisibleIds(cols)
  OBVIOUS
<1>13. /\ a \in Seq(Columns) /\ Len(a) = Len(v)
       /\ \A j \in 1..Len(v) : a[j] = cols[v[j]].id
  BY <1>1, <1>12, VisibleTyped
<1>14. PICK b : b = VisibleIds(new)
  OBVIOUS
<1>15. /\ b \in Seq(Columns) /\ Len(b) = Len(w)
       /\ \A j \in 1..Len(w) : b[j] = new[w[j]].id
  BY <1>5, <1>10, <1>14, VisibleTyped
<1>16. PICK r : r = RemoveAt(a, i)
  OBVIOUS
<1>17. /\ r \in Seq(Columns) /\ Len(r) = Len(v) - 1
       /\ \A j \in 1..Len(v) - 1 : r[j] = IF j < i THEN a[j] ELSE a[j + 1]
  <2>1. i \in 1..Len(a)
    BY <1>2, <1>13
  <2>2. QED
    BY <1>13, <1>16, <2>1, RemovedAt
<1>18. ASSUME NEW j \in 1..Len(b) PROVE b[j] = r[j]
  <2>1. j \in 1..Len(v) /\ j + 1 \in 1..Len(v) /\ j \in 1..Len(v) - 1
    BY <1>2, <1>11, <1>15
  <2>2. b[j] = new[w[j]].id
    BY <1>15
  <2>3. CASE j < i
    <3>1. w[j] = v[j] /\ r[j] = a[j]
      BY <1>11, <1>17, <2>1, <2>3
    <3>2. QED
      BY <1>2, <1>5, <1>13, <2>1, <2>2, <3>1
  <2>4. CASE ~(j < i)
    <3>1. w[j] = v[j + 1] /\ r[j] = a[j + 1]
      BY <1>11, <1>17, <2>1, <2>4
    <3>2. QED
      BY <1>2, <1>5, <1>13, <2>1, <2>2, <3>1
  <2>5. QED
    BY <2>3, <2>4
<1>19. b = r
  BY <1>11, <1>15, <1>17, <1>18, SameSequence
<1>20. QED
  BY <1>5, <1>12, <1>14, <1>16, <1>19

-----------------------------------------------------------------------------
(* The rules in force and the list                                         *)

\* What the invariant says of the rest of the state.
RestOK ==
  /\ rules \in Seq(Rules)
  /\ engine \in Seq(Rules)
  /\ rulesFile \in Seq(Rules) \cup {Absent}
  /\ columns \in Seq(ColumnInfos)
  /\ sortColumn \in Nat
  /\ headerIndex \in Nat
  /\ edits \in 0..MaxEdits
  /\ overwritten \in BOOLEAN
  /\ unsaved \in BOOLEAN
  /\ RulesInForce
  /\ ListShown

LEMMA Parted == IInv <=> StackOK /\ RestOK
<1>1. columns \in Seq(ColumnInfos) /\ ListShown => shown \in Seq(Columns)
  BY VisibleTyped DEF ListShown
<1>2. QED
  BY <1>1 DEF IInv, TypeOK, StackOK, RestOK

LEMMA MayStillChange ==
  ASSUME edits \in 0..MaxEdits, edits < MaxEdits, Changed
  PROVE  edits' \in 0..MaxEdits
BY DialogsAssumption DEF Changed

\* Taking over rules puts them in force, and in the file unless that fails.
LEMMA TakenOverRest ==
  ASSUME RestOK, NEW new \in Seq(Rules), TakeOver(new), UNCHANGED list
  PROVE  RestOK'
<1>1. /\ rules' = new /\ engine' = new /\ overwritten' = FALSE
      /\ UNCHANGED <<columns, shown, sortColumn, headerIndex>>
  BY DEF TakeOver, list
<1>2. CASE rulesFile' = new /\ unsaved' = FALSE /\ UNCHANGED edits
  BY <1>1, <1>2 DEF RestOK, RulesInForce, ListShown
<1>3. CASE edits < MaxEdits /\ rulesFile' \in {rulesFile, Absent} /\ unsaved' = TRUE /\ Changed
  BY <1>1, <1>3, MayStillChange DEF RestOK, RulesInForce, ListShown
<1>4. QED
  BY <1>2, <1>3 DEF TakeOver, SaveMonitorRules

\* Steps of the user in the dialogs change nothing else.
LEMMA DialogsRest ==
  ASSUME RestOK, UNCHANGED <<stored, list>>,
         \/ UNCHANGED edits
         \/ edits < MaxEdits /\ Changed
  PROVE  RestOK'
<1>1. edits' \in 0..MaxEdits
  BY MayStillChange DEF RestOK
<1>2. QED
  BY <1>1 DEF RestOK, RulesInForce, ListShown, stored, list

LEMMA ReturnsRest ==
  ASSUME StackBefore, RestOK, MonitorReturns \/ AddReturns
  PROVE  RestOK'
<1>1. CASE ~Accepted
  BY <1>1, DialogsRest DEF MonitorReturns, AddReturns
<1>2. CASE MonitorReturns /\ Accepted
  <2>1. dialogs # <<>> /\ Last(dialogs).kind = "monitor"
    BY <1>2 DEF MonitorReturns, Returning, Dispatching
  <2>2. Last(dialogs).data \in MonitorData
    BY <2>1, Top, FrameFields DEF StackBefore, Fits
  <2>3. PICK new \in Seq(Rules) : new = Last(dialogs).data.rules
    BY <2>2 DEF MonitorData
  <2>4. TakeOver(new) /\ UNCHANGED list
    BY <1>2, <2>3 DEF MonitorReturns
  <2>5. QED
    BY <2>4, TakenOverRest
<1>3. CASE AddReturns /\ Accepted
  <2>1. dialogs # <<>> /\ Last(dialogs).kind = "add"
    BY <1>3 DEF AddReturns, Returning, Dispatching
  <2>2. Last(dialogs).data \in AddData
    BY <2>1, Top, FrameFields DEF StackBefore, Fits
  <2>3. PICK rule \in Rules : rule = Last(dialogs).data.rule
    BY <2>2 DEF AddData
  <2>4. PICK old \in Seq(Rules) : old = rules
    BY DEF RestOK
  <2>5. PICK new : new = Append(old, rule)
    OBVIOUS
  <2>6. new \in Seq(Rules)
    BY <2>5
  <2>7. TakeOver(new) /\ UNCHANGED list
    BY <1>3, <2>3, <2>4, <2>5 DEF AddReturns
  <2>8. QED
    BY <2>6, <2>7, TakenOverRest
<1>4. QED
  BY <1>1, <1>2, <1>3

\* The rules an options dialog brings back are those in force, unless it says that
\* they are not.
LEMMA OptionsRest ==
  ASSUME StackBefore, RestOK, OptionsReturns
  PROVE  RestOK'
<1>1. /\ dialogs # <<>> /\ Last(dialogs).kind = "options"
      /\ UNCHANGED <<engine, rulesFile, unsaved, sortColumn, headerIndex, edits>>
  BY DEF OptionsReturns, Returning, Dispatching
<1>2. CASE ~Accepted
  <2>1. UNCHANGED <<rules, columns, shown, overwritten>>
    BY <1>2 DEF OptionsReturns
  <2>2. QED
    BY <1>1, <2>1 DEF RestOK, RulesInForce, ListShown
<1>3. CASE Accepted
  <2>1. Last(dialogs).data \in OptionsData
    BY <1>1, Top, FrameFields DEF StackBefore, Fits
  <2>2. PICK copy \in OptionsData : copy = Last(dialogs).data
    BY <2>1
  <2>3. /\ rules' = copy.rules /\ columns' = copy.columns
        /\ shown' = VisibleIds(copy.columns) /\ overwritten' = copy.stale
    BY <1>3, <2>2 DEF OptionsReturns
  <2>4. copy.rules \in Seq(Rules) /\ copy.columns \in Seq(ColumnInfos) /\ copy.stale \in BOOLEAN
    BY DEF OptionsData
  <2>5. ~copy.stale => copy.rules = engine
    <3>1. Len(dialogs) \in DOMAIN dialogs /\ Last(dialogs) = dialogs[Len(dialogs)]
      BY <1>1, Top DEF StackBefore
    <3>2. QED
      BY <1>1, <2>2, <3>1 DEF StackBefore, Copies, TellsOf
  <2>6. RulesInForce'
    BY <1>1, <2>3, <2>5 DEF RestOK, RulesInForce
  <2>7. ListShown'
    BY <2>3 DEF ListShown
  <2>8. QED
    BY <1>1, <2>3, <2>4, <2>6, <2>7 DEF RestOK
<1>4. QED
  BY <1>2, <1>3

LEMMA ColumnsRest ==
  ASSUME StackBefore, RestOK, ColumnsReturn
  PROVE  RestOK'
<1>1. /\ dialogs # <<>> /\ Last(dialogs).kind = "columns"
      /\ UNCHANGED <<stored, sortColumn, headerIndex, edits>>
  BY DEF ColumnsReturn, Returning, Dispatching
<1>2. Last(dialogs).data.columns \in Seq(ColumnInfos)
  BY <1>1, Top, FrameFields DEF StackBefore, Fits, SelectData
<1>3. \/ columns' = Last(dialogs).data.columns /\ shown' = VisibleIds(columns')
      \/ UNCHANGED <<columns, shown>>
  BY DEF ColumnsReturn
<1>4. columns' \in Seq(ColumnInfos)
  BY <1>2, <1>3 DEF RestOK
<1>5. ListShown'
  BY <1>3 DEF ListShown, RestOK
<1>6. QED
  BY <1>1, <1>4, <1>5 DEF RestOK, RulesInForce, stored

\* Clicks on the columns, and hiding one.
LEMMA ListRest ==
  ASSUME RestOK,
         \/ \E i \in 0..Cardinality(Columns) : ClickColumn(i) \/ OpenColumnMenu(i)
         \/ HideColumn
  PROVE  RestOK'
<1>1. ASSUME NEW i, ClickColumn(i) \/ OpenColumnMenu(i) PROVE RestOK'
  <2>1. /\ edits < MaxEdits /\ Changed /\ UNCHANGED <<stored, columns, shown>>
        /\ sortColumn' \in {sortColumn, i} /\ headerIndex' \in {headerIndex, i}
    BY <1>1 DEF ClickColumn, OpenColumnMenu, MayChange
  <2>2. sortColumn' \in Nat /\ headerIndex' \in Nat
    <3>1. shown \in Seq(Columns)
      BY VisibleTyped DEF RestOK, ListShown
    <3>2. CASE ClickColumn(i)
      BY <3>1, <3>2 DEF ClickColumn, RestOK
    <3>3. CASE OpenColumnMenu(i)
      BY <3>1, <3>3 DEF OpenColumnMenu, RestOK
    <3>4. QED
      BY <1>1, <3>2, <3>3
  <2>3. edits' \in 0..MaxEdits
    BY <2>1, MayStillChange DEF RestOK
  <2>4. QED
    BY <2>1, <2>2, <2>3 DEF RestOK, RulesInForce, ListShown, stored
<1>2. ASSUME HideColumn PROVE RestOK'
  <2>1. /\ edits < MaxEdits /\ Changed /\ UNCHANGED <<stored, headerIndex>>
        /\ headerIndex \in DOMAIN VisibleIndices(columns)
        /\ columns' = Hidden(columns, VisibleIndices(columns)[headerIndex])
        /\ shown' = VisibleIds(columns')
        /\ sortColumn' = SortAfterHiding(headerIndex)
    BY <1>2 DEF HideColumn, HideColumnByIndex, MayChange, Hidden
  <2>2. columns' \in Seq(ColumnInfos)
    BY <2>1, HiddenTakenAway DEF RestOK
  <2>3. sortColumn' \in Nat
    BY <2>1 DEF SortAfterHiding, RestOK
  <2>4. edits' \in 0..MaxEdits
    BY <2>1, MayStillChange DEF RestOK
  <2>5. QED
    BY <2>1, <2>2, <2>3, <2>4 DEF RestOK, RulesInForce, ListShown, stored
<1>3. QED
  BY <1>1, <1>2

LEMMA RestStep == StackBefore /\ RestOK /\ [Next]_vars => RestOK'
<1> SUFFICES ASSUME StackBefore, RestOK, [Next]_vars PROVE RestOK'
  OBVIOUS
<1>1. ASSUME NEW k \in DOMAIN dialogs, dialogs[k].kind = "monitor", RulesDialog(k)
      PROVE  RestOK'
  BY <1>1, DialogsRest
    DEF RulesDialog, OnAddRule, OnToggleRuleEnabled, OnEditRule, OnDeleteRule, MayChange
<1>2. ASSUME NEW k \in DOMAIN dialogs,
             \/ \E text \in Texts : RuleEditOk(k, text)
             \/ SelectColumns(k)
             \/ PressOk(k)
             \/ PressYes(k)
             \/ PressCancel(k)
      PROVE  RestOK'
  BY <1>2, DialogsRest
    DEF RuleEditOk, SelectColumns, PressOk, PressYes, PressCancel, MayChange
<1>3. CASE OpenMonitorSettings \/ EditReturns \/ DeleteReturns \/ AddSelectedProcessToMonitor
           \/ OpenOptionsDialog \/ OpenColumnSelectorDialog \/ UNCHANGED vars
  BY <1>3, DialogsRest
    DEF OpenMonitorSettings, EditReturns, DeleteReturns, AddSelectedProcessToMonitor,
        OpenOptionsDialog, OpenColumnSelectorDialog, vars
<1>4. QED
  BY <1>1, <1>2, <1>3, ReturnsRest, OptionsRest, ColumnsRest, ListRest DEF Next

-----------------------------------------------------------------------------
(* The theorems                                                            *)

LEMMA Initially == Init => IInv
<1> SUFFICES ASSUME Init PROVE IInv
  OBVIOUS
<1>1. rules \in Seq(Rules) /\ columns \in Seq(ColumnInfos)
  BY DialogsAssumption DEF Init
<1>2. dialogs = <<>> /\ DOMAIN dialogs = {}
  BY DEF Init
<1>3. StackOK
  BY <1>2 DEF StackOK, StackInv, Owned, OneAtATime, EditorsPointHome, Copies
<1>4. edits \in 0..MaxEdits
  BY DialogsAssumption DEF Init
<1>5. RestOK
  BY <1>1, <1>4 DEF Init, RestOK, RulesInForce, ListShown
<1>6. QED
  BY <1>3, <1>5, Parted

LEMMA InvariantStep == IInv /\ [Next]_vars => IInv'
<1> SUFFICES ASSUME IInv, [Next]_vars PROVE IInv'
  OBVIOUS
<1>1. StackBefore /\ RestOK
  BY Parted DEF IInv, StackBefore
<1>2. StackOK' /\ RestOK'
  BY <1>1, StackStep, RestStep
<1>3. (StackOK /\ RestOK => IInv)'
  <2>1. columns' \in Seq(ColumnInfos) /\ ListShown' => shown' \in Seq(Columns)
    BY VisibleTyped DEF ListShown
  <2>2. QED
    BY <2>1 DEF IInv, TypeOK, StackOK, RestOK
<1>4. QED
  BY <1>2, <1>3

\* The inductive invariant: types, the stack, what the copies tell of, the rules in
\* force and the columns of the list.
THEOREM Invariance == Spec => []IInv
<1>1. Init => IInv
  BY Initially
<1>2. IInv /\ [Next]_vars => IInv'
  BY InvariantStep
<1>3. QED
  BY <1>1, <1>2, PTL DEF Spec

\* Every variable keeps its type: a dialog has the data of its kind and an owner
\* that was opened before it, whichever way the dialogs over one another end.
THEOREM TypeCorrect == Spec => []TypeOK
<1>1. IInv => TypeOK
  BY DEF IInv
<1>2. QED
  BY <1>1, Invariance, PTL

\* ShowRuleEditModal and the prompt of OnDeleteRule: as long as one of them is on
\* screen, the list it will write to is the one it was opened over.
THEOREM RowsStayPut == Spec => []EditorsPointHome
<1>1. IInv => EditorsPointHome
  BY DEF IInv, StackInv
<1>2. QED
  BY <1>1, Invariance, PTL

\* The rules in settings_, in the monitor service and in the file are the same, but
\* for an options dialog that brought back older ones and a save that failed.
THEOREM SameRulesEverywhere == Spec => []RulesInForce
<1>1. IInv => RulesInForce
  BY DEF IInv
<1>2. QED
  BY <1>1, Invariance, PTL

\* Rules enter the monitor service by the OK of the monitor dialog or by a rule
\* added from the list.
LEMMA EngineChanges ==
  ASSUME IInv, [Next]_vars, engine' # engine
  PROVE  /\ dialogs # <<>> /\ Accepted
         /\ \/ Last(dialogs).kind = "monitor" /\ engine' = Last(dialogs).data.rules
            \/ Last(dialogs).kind = "add" /\ engine' = Append(rules, Last(dialogs).data.rule)
<1>1. MonitorReturns \/ AddReturns
  <2>1. ASSUME NEW k \in DOMAIN dialogs
        PROVE  /\ ~RulesDialog(k)
               /\ \A text \in Texts : ~RuleEditOk(k, text)
               /\ ~SelectColumns(k) /\ ~PressOk(k) /\ ~PressYes(k) /\ ~PressCancel(k)
    BY DEF RulesDialog, OnAddRule, OnToggleRuleEnabled, OnEditRule, OnDeleteRule,
           RuleEditOk, SelectColumns, PressOk, PressYes, PressCancel, stored
  <2>2. /\ ~OpenMonitorSettings /\ ~EditReturns /\ ~DeleteReturns
        /\ ~AddSelectedProcessToMonitor
    BY DEF OpenMonitorSettings, EditReturns, DeleteReturns, AddSelectedProcessToMonitor,
           stored
  <2>3. /\ ~OpenOptionsDialog /\ ~OpenColumnSelectorDialog
        /\ ~OptionsReturns /\ ~ColumnsReturn
    BY DEF OpenOptionsDialog, OpenColumnSelectorDialog, OptionsReturns, ColumnsReturn,
           stored
  <2>4. /\ ~HideColumn
        /\ \A i \in 0..Cardinality(Columns) : ~ClickColumn(i) /\ ~OpenColumnMenu(i)
    BY DEF ClickColumn, OpenColumnMenu, HideColumn, HideColumnByIndex, stored
  <2>5. ~UNCHANGED vars
    BY DEF vars, stored
  <2>6. QED
    BY <2>1, <2>2, <2>3, <2>4, <2>5 DEF Next
<1>2. dialogs # <<>>
  BY <1>1 DEF MonitorReturns, AddReturns, Returning, Dispatching
<1>3. Accepted
  BY <1>1 DEF MonitorReturns, AddReturns, stored
<1>4. QED
  BY <1>1, <1>2, <1>3 DEF MonitorReturns, AddReturns, Returning, TakeOver

\* No step of the dialogs changes a rule in force that the user has not worked on in
\* the dialog that ended or that had not changed meanwhile, unless an edit went to a
\* row that had moved.
THEOREM OnlyWhatWasWorkedOn == Spec => NothingElseChanges
<1>1. IInv /\ [Next]_vars =>
        [engine' # engine =>
           LET f == Last(dialogs)
               changed == Differing(engine, engine')
           IN \/ /\ f.kind = "monitor"
                 /\ f.data.strayed # {} \/ changed \subseteq f.data.touched \cup f.data.missed
              \/ /\ f.kind = "add"
                 /\ changed \subseteq {f.data.rule.id} \cup Differing(rules, engine)]_vars
  <2> SUFFICES ASSUME IInv, [Next]_vars, engine' # engine
               PROVE  \/ /\ Last(dialogs).kind = "monitor"
                         /\ \/ Last(dialogs).data.strayed # {}
                            \/ Differing(engine, engine')
                                 \subseteq Last(dialogs).data.touched \cup Last(dialogs).data.missed
                      \/ /\ Last(dialogs).kind = "add"
                         /\ Differing(engine, engine')
                              \subseteq {Last(dialogs).data.rule.id} \cup Differing(rules, engine)
    OBVIOUS
  <2>1. dialogs # <<>> /\ Last(dialogs) \in Frames
        /\ Len(dialogs) \in DOMAIN dialogs /\ Last(dialogs) = dialogs[Len(dialogs)]
    BY EngineChanges, Top DEF IInv
  <2>2. CASE Last(dialogs).kind = "monitor" /\ engine' = Last(dialogs).data.rules
    BY <2>1, <2>2 DEF IInv, Copies, TellsOf
  <2>3. CASE Last(dialogs).kind = "add" /\ engine' = Append(rules, Last(dialogs).data.rule)
    <3>1. PICK rule \in Rules : rule = Last(dialogs).data.rule
      BY <2>1, <2>3, FrameFields DEF Fits, AddData
    <3>2. PICK old \in Seq(Rules) : old = rules
      BY DEF IInv, TypeOK
    <3>3. Differing(old, Append(old, rule)) \subseteq {rule.id}
      BY DifferingAppended
    <3>4. Differing(engine, Append(old, rule))
            \subseteq Differing(engine, old) \cup Differing(old, Append(old, rule))
      BY DifferingTriangle
    <3>5. Differing(engine, old) = Differing(old, engine)
      BY DifferingSymmetric
    <3>6. QED
      BY <2>3, <3>1, <3>2, <3>3, <3>4, <3>5
  <2>4. QED
    BY <2>2, <2>3, EngineChanges
<1>2. QED
  BY <1>1, Invariance, PTL DEF NothingElseChanges, Spec

\* HideColumnByIndex leaves the list sorted by the column it was sorted by.
LEMMA SortKept ==
  ASSUME IInv, HideColumn
  PROVE  /\ headerIndex \in 1..Len(shown)
         /\ Len(shown) > 1
         /\ shown' = RemoveAt(shown, headerIndex)
         /\ SortedBy' = IF sortColumn = headerIndex THEN None ELSE SortedBy
<1>1. /\ headerIndex \in DOMAIN VisibleIndices(columns)
      /\ Len(VisibleIndices(columns)) > 1
      /\ columns' = Hidden(columns, VisibleIndices(columns)[headerIndex])
      /\ shown' = VisibleIds(columns')
      /\ sortColumn' = SortAfterHiding(headerIndex)
  BY DEF HideColumn, HideColumnByIndex, Hidden
<1>2. PICK cols \in Seq(ColumnInfos) : cols = columns
  BY DEF IInv, TypeOK
<1>3. PICK i : i = headerIndex
  OBVIOUS
<1>4. PICK a : a = VisibleIds(cols)
  OBVIOUS
<1>5. /\ a \in Seq(Columns) /\ i \in 1..Len(a) /\ Len(a) > 1 /\ a = shown /\ DOMAIN a = 1..Len(a)
  BY <1>1, <1>2, <1>3, <1>4, VisibleTyped DEF IInv, ListShown
<1>6. PICK b : b = VisibleIds(columns')
  OBVIOUS
<1>7. b = RemoveAt(a, i)
  BY <1>1, <1>2, <1>3, <1>4, <1>6, HiddenTakenAway
<1>8. /\ b \in Seq(Columns) /\ Len(b) = Len(a) - 1 /\ DOMAIN b = 1..Len(a) - 1
      /\ \A j \in 1..Len(a) - 1 : b[j] = IF j < i THEN a[j] ELSE a[j + 1]
  <2>1. /\ RemoveAt(a, i) \in Seq(Columns) /\ Len(RemoveAt(a, i)) = Len(a) - 1
        /\ \A j \in 1..Len(a) - 1 : RemoveAt(a, i)[j] = IF j < i THEN a[j] ELSE a[j + 1]
    BY <1>5, RemovedAt, Zenon
  <2>2. QED
    BY <1>7, <2>1
<1>9. PICK s \in Nat : s = sortColumn
  BY DEF IInv, TypeOK
<1>10. PICK t : t = sortColumn'
  OBVIOUS
<1>11. t = IF s = i THEN 0 ELSE IF s > i THEN s - 1 ELSE s
  BY <1>1, <1>3, <1>9, <1>10 DEF SortAfterHiding
<1>12. SortedBy = IF s \in DOMAIN a THEN a[s] ELSE None
  BY <1>2, <1>4, <1>9 DEF SortedBy
<1>13. SortedBy' = IF t \in DOMAIN b THEN b[t] ELSE None
  BY <1>6, <1>10 DEF SortedBy
<1>14. (IF t \in DOMAIN b THEN b[t] ELSE None)
         = IF s = i THEN None ELSE IF s \in DOMAIN a THEN a[s] ELSE None
  <2>1. i \in Nat /\ i >= 1 /\ i <= Len(a) /\ Len(a) \in Nat
    BY <1>5
  <2>2. CASE s = i
    <3>1. t \notin DOMAIN b
      BY <1>8, <1>11, <2>2
    <3>2. QED
      BY <2>2, <3>1
  <2>3. CASE s < i
    <3>1. t = s /\ (s \in DOMAIN b <=> s \in DOMAIN a)
      BY <1>5, <1>8, <1>11, <2>1, <2>3
    <3>2. s \in DOMAIN b => b[s] = a[s]
      BY <1>8, <2>3
    <3>3. QED
      BY <2>1, <2>3, <3>1, <3>2
  <2>4. CASE s > i
    <3>1. t = s - 1 /\ t \in Nat /\ t >= 1 /\ t + 1 = s /\ ~(t < i)
      BY <1>11, <2>1, <2>4
    <3>2. t \in DOMAIN b <=> s \in DOMAIN a
      BY <1>5, <1>8, <2>1, <3>1
    <3>3. t \in DOMAIN b => b[t] = a[s]
      BY <1>8, <3>1
    <3>4. QED
      BY <2>1, <2>4, <3>2, <3>3
  <2>5. QED
    BY <2>1, <2>2, <2>3, <2>4
<1>15. SortedBy' = IF sortColumn = headerIndex THEN None ELSE SortedBy
  BY <1>3, <1>9, <1>12, <1>13, <1>14
<1>16. QED
  BY <1>1, <1>3, <1>5, <1>6, <1>7, <1>15

\* The list view shows the visible columns in their order after every step; a hidden
\* column goes alone, it is not the last one, and the list stays sorted as it was.
THEOREM HidingKeepsTheRest == Spec => ColumnsKept
<1>1. IInv /\ [Next]_vars =>
        [/\ shown' = VisibleIds(columns')
         /\ headerIndex > 0 /\ columns' # columns /\ dialogs' = dialogs =>
              /\ shown' = RemoveAt(shown, headerIndex)
              /\ shown' # <<>>
              /\ SortedBy' = IF sortColumn = headerIndex THEN None ELSE SortedBy]_vars
  <2> SUFFICES ASSUME IInv, [Next]_vars
               PROVE  /\ shown' = VisibleIds(columns')
                      /\ headerIndex > 0 /\ columns' # columns /\ dialogs' = dialogs =>
                           /\ shown' = RemoveAt(shown, headerIndex)
                           /\ shown' # <<>>
                           /\ SortedBy' = IF sortColumn = headerIndex THEN None ELSE SortedBy
    OBVIOUS
  <2>1. shown' = VisibleIds(columns')
    BY InvariantStep DEF IInv, ListShown
  <2>2. ASSUME columns' # columns, dialogs' = dialogs PROVE HideColumn
    <3>1. ~(OptionsReturns \/ ColumnsReturn)
      <4>1. ASSUME OptionsReturns \/ ColumnsReturn PROVE FALSE
        <5>1. dialogs # <<>> /\ dialogs' = Front(dialogs)
          BY <4>1 DEF OptionsReturns, ColumnsReturn, Returning, Dispatching
        <5>2. Len(Front(dialogs)) = Len(dialogs) - 1 /\ Len(dialogs) \in Nat
          BY <5>1, Top DEF IInv
        <5>3. Front(dialogs) = dialogs
          BY <2>2, <5>1
        <5>4. Len(Front(dialogs)) # Len(dialogs)
          BY <5>2
        <5>5. QED
          BY <5>3, <5>4, Zenon
      <4>2. QED
        BY <4>1
    <3>2. QED
      <4>1. ASSUME NEW k \in DOMAIN dialogs
            PROVE  /\ ~RulesDialog(k)
                   /\ \A text \in Texts : ~RuleEditOk(k, text)
                   /\ ~SelectColumns(k) /\ ~PressOk(k) /\ ~PressYes(k) /\ ~PressCancel(k)
        BY <2>2
          DEF RulesDialog, OnAddRule, OnToggleRuleEnabled, OnEditRule, OnDeleteRule,
              RuleEditOk, SelectColumns, PressOk, PressYes, PressCancel, list
      <4>2. /\ ~OpenMonitorSettings /\ ~EditReturns /\ ~DeleteReturns
            /\ ~MonitorReturns /\ ~AddReturns /\ ~AddSelectedProcessToMonitor
        BY <2>2
          DEF OpenMonitorSettings, EditReturns, DeleteReturns, MonitorReturns, AddReturns,
              AddSelectedProcessToMonitor, list
      <4>3. /\ ~OpenOptionsDialog /\ ~OpenColumnSelectorDialog /\ ~UNCHANGED vars
            /\ \A i \in 0..Cardinality(Columns) : ~ClickColumn(i) /\ ~OpenColumnMenu(i)
        BY <2>2
          DEF OpenOptionsDialog, OpenColumnSelectorDialog, ClickColumn, OpenColumnMenu,
              list, vars
      <4>4. QED
        BY <3>1, <4>1, <4>2, <4>3 DEF Next
  <2>3. ASSUME HideColumn
        PROVE  /\ shown' = RemoveAt(shown, headerIndex)
               /\ shown' # <<>>
               /\ SortedBy' = IF sortColumn = headerIndex THEN None ELSE SortedBy
    <3>1. /\ shown' = RemoveAt(shown, headerIndex)
          /\ SortedBy' = IF sortColumn = headerIndex THEN None ELSE SortedBy
          /\ headerIndex \in 1..Len(shown) /\ Len(shown) > 1
      BY <2>3, SortKept
    <3>2. PICK a \in Seq(Columns) : a = shown
      BY DEF IInv, TypeOK
    <3>3. PICK i \in 1..Len(a) : i = headerIndex
      BY <3>1, <3>2
    <3>4. Len(RemoveAt(a, i)) = Len(a) - 1 /\ Len(a) > 1 /\ Len(a) \in Nat
      BY <3>1, <3>2, RemovedAt
    <3>5. RemoveAt(a, i) # <<>>
      BY <3>4
    <3>6. QED
      BY <3>1, <3>2, <3>3, <3>5
  <2>4. QED
    BY <2>1, <2>2, <2>3
<1>2. QED
  BY <1>1, Invariance, PTL DEF ColumnsKept, Spec
=============================================================================
