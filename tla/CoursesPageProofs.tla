------------------------- MODULE CoursesPageProofs --------------------------
(***************************************************************************)
(* What holds of the grade book for any registrations, names, templates    *)
(* and any number of clicks, classmates, failures and overlapping calls,   *)
(* of the numbers of an assignment for any assignments, of the degree audit *)
(* for any catalog, of the searched list for any reports and page size, and *)
(* of the comparison for any reports.                                      *)
(***************************************************************************)
EXTENDS GradeBook, AssignmentForm, AuditTab, InfiniteList,
        ListsProofs, SequenceTheorems

CONSTANTS Tabs, StatsTab, GradeReports, MaxSelections, PageClicks
VARIABLES activeTab, contentTab, deferred, address, going, clicked, compared, clicksLeft

\* The frame of the page, and the reports it compares.
C == INSTANCE CoursesPage
     WITH Reports <- GradeReports, Clicks <- PageClicks, selected <- compared, clicks <- clicksLeft

-----------------------------------------------------------------------------
(* Lists of calls. *)

\* What the list of calls holds when one is made, taken out or answered.
IsList(s) == s \in Seq(ToSet(s))

LEMMA ListOf ==
    ASSUME NEW S, NEW s \in Seq(S)
    PROVE  IsList(s) /\ ToSet(s) \subseteq S /\ DOMAIN s = 1 .. Len(s) /\ Len(s) \in Nat
BY DEF IsList, ToSet

LEMMA Appended ==
    ASSUME NEW s, IsList(s), NEW e
    PROVE  /\ IsList(Append(s, e)) /\ ToSet(Append(s, e)) = ToSet(s) \cup {e}
           /\ Len(Append(s, e)) = Len(s) + 1 /\ Append(s, e)[Len(s) + 1] = e
           /\ \A i \in DOMAIN s : Append(s, e)[i] = s[i]
<1> DEFINE S == ToSet(s) \cup {e}
           a == Append(s, e)
<1>1. s \in Seq(S) /\ e \in S
  BY DEF IsList
<1>2. /\ a \in Seq(S) /\ Len(a) = Len(s) + 1 /\ a[Len(s) + 1] = e
      /\ \A i \in 1 .. Len(s) : a[i] = s[i]
  BY <1>1, AppendProperties
<1>3. DOMAIN s = 1 .. Len(s) /\ Len(s) \in Nat /\ DOMAIN a = 1 .. Len(s) + 1
  BY <1>1, <1>2
<1> HIDE DEF a
<1>4. \A i \in DOMAIN a : i \in DOMAIN s \/ i = Len(s) + 1
  BY <1>3
<1>5. DOMAIN s \subseteq DOMAIN a /\ Len(s) + 1 \in DOMAIN a
  BY <1>3
<1>6. ToSet(a) = S
  BY <1>2, <1>3, <1>4, <1>5 DEF ToSet
<1> QED
  BY <1>2, <1>3, <1>6 DEF IsList, a

LEMMA EntryRemoved ==
    ASSUME NEW s, IsList(s), NEW i \in DOMAIN s
    PROVE  /\ IsList(RemoveAt(s, i)) /\ Len(RemoveAt(s, i)) = Len(s) - 1
           /\ ToSet(RemoveAt(s, i)) = {s[j] : j \in DOMAIN s \ {i}}
<1> DEFINE S == ToSet(s)
           b == SubSeq(s, 1, i - 1)
           c == SubSeq(s, i + 1, Len(s))
           n == Len(s)
<1>1. s \in Seq(S) /\ DOMAIN s = 1 .. n /\ n \in Nat /\ i \in 1 .. n
  BY DEF IsList
<1>2. b \in Seq(S) /\ Len(b) = i - 1 /\ \A j \in 1 .. i - 1 : b[j] = s[j]
  <2>1. \A j \in 1 .. i - 1 : s[j] \in S
    BY <1>1
  <2> QED
    BY <1>1, <2>1, SubSeqProperties
<1>3. c \in Seq(S) /\ Len(c) = n - i /\ \A j \in 1 .. n - i : c[j] = s[i + j]
  <2>1. \A j \in i + 1 .. n : s[j] \in S
    BY <1>1
  <2> QED
    BY <1>1, <2>1, SubSeqProperties
<1> HIDE DEF b, c, S, n
<1>4. /\ b \o c \in Seq(S) /\ Len(b \o c) = n - 1
      /\ \A j \in 1 .. n - 1 : (b \o c)[j] = IF j <= i - 1 THEN s[j] ELSE s[j + 1]
  <2>1. b \o c \in Seq(S) /\ Len(b \o c) = n - 1
    <3>1. b \o c \in Seq(S) /\ Len(b \o c) = Len(b) + Len(c)
      BY <1>2, <1>3, ConcatProperties
    <3>2. Len(b) + Len(c) = n - 1
      BY <1>1, <1>2, <1>3
    <3> QED
      BY <3>1, <3>2
  <2>2. ASSUME NEW j \in 1 .. n - 1
        PROVE  (b \o c)[j] = IF j <= i - 1 THEN s[j] ELSE s[j + 1]
    <3>1. j \in 1 .. Len(b) + Len(c)
      BY <1>1, <1>2, <1>3
    <3>2. (b \o c)[j] = IF j <= Len(b) THEN b[j] ELSE c[j - Len(b)]
      BY <3>1, <1>2, <1>3, ConcatProperties
    <3>3. CASE j <= i - 1
      BY <3>2, <3>3, <1>1, <1>2
    <3>4. CASE ~(j <= i - 1)
      <4>1. j - (i - 1) \in 1 .. n - i /\ i + (j - (i - 1)) = j + 1
        BY <3>4, <1>1
      <4> QED
        BY <3>2, <3>4, <4>1, <1>2, <1>3
    <3> QED
      BY <3>3, <3>4
  <2> QED
    BY <2>1, <2>2, <1>1
<1>5. RemoveAt(s, i) = b \o c
  BY DEF RemoveAt, b, c
<1> DEFINE r == RemoveAt(s, i)
<1> HIDE DEF r
<1>6. /\ r \in Seq(S) /\ DOMAIN r = 1 .. n - 1 /\ Len(r) = n - 1
      /\ \A j \in 1 .. n - 1 : r[j] = IF j <= i - 1 THEN s[j] ELSE s[j + 1]
  BY <1>1, <1>4, <1>5 DEF r
<1>7. \A j \in 1 .. n - 1 : \E k \in 1 .. n : k # i /\ r[j] = s[k]
  <2>1. ASSUME NEW j \in 1 .. n - 1
        PROVE  \E k \in 1 .. n : k # i /\ r[j] = s[k]
    <3>1. CASE j <= i - 1
      <4>1. j \in 1 .. n /\ j # i
        BY <3>1, <1>1
      <4> QED
        BY <4>1, <3>1, <1>6
    <3>2. CASE ~(j <= i - 1)
      <4>1. j + 1 \in 1 .. n /\ j + 1 # i
        BY <3>2, <1>1
      <4> QED
        BY <4>1, <3>2, <1>6
    <3> QED
      BY <3>1, <3>2
  <2> QED
    BY <2>1
<1>8. \A k \in 1 .. n : k # i => \E j \in 1 .. n - 1 : r[j] = s[k]
  <2>1. ASSUME NEW k \in 1 .. n, k # i
        PROVE  \E j \in 1 .. n - 1 : r[j] = s[k]
    <3>1. CASE k <= i - 1
      BY <3>1, <1>1, <1>6
    <3>2. CASE ~(k <= i - 1)
      <4>1. k - 1 \in 1 .. n - 1 /\ ~(k - 1 <= i - 1) /\ (k - 1) + 1 = k
        BY <2>1, <3>2, <1>1
      <4> QED
        BY <4>1, <1>6
    <3> QED
      BY <3>1, <3>2
  <2> QED
    BY <2>1
<1>9. ToSet(r) = {s[k] : k \in DOMAIN s \ {i}}
  <2>1. DOMAIN s = 1 .. n /\ DOMAIN r = 1 .. n - 1
    BY <1>1, <1>6
  <2>2. ToSet(r) = {r[j] : j \in DOMAIN r}
    BY DEF ToSet
  <2>3. \A j \in DOMAIN r : r[j] \in {s[k] : k \in DOMAIN s \ {i}}
    BY <2>1, <1>7
  <2>4. \A k \in DOMAIN s \ {i} : s[k] \in {r[j] : j \in DOMAIN r}
    BY <2>1, <1>8
  <2> QED
    BY <2>2, <2>3, <2>4
<1>10. r \in Seq(ToSet(r))
  BY <1>6 DEF ToSet
<1> QED
  BY <1>6, <1>9, <1>10 DEF r, n, IsList

Put(s, i, e) == [s EXCEPT ![i] = e]

LEMMA Replaced ==
    ASSUME NEW s, IsList(s), NEW i \in DOMAIN s, NEW e
    PROVE  /\ IsList(Put(s, i, e)) /\ Len(Put(s, i, e)) = Len(s)
           /\ ToSet(Put(s, i, e)) = {s[j] : j \in DOMAIN s \ {i}} \cup {e}
<1> DEFINE S == ToSet(s) \cup {e}
           r == Put(s, i, e)
<1>1. s \in Seq(S) /\ e \in S /\ i \in 1 .. Len(s) /\ DOMAIN s = 1 .. Len(s)
  BY DEF IsList
<1>2. r \in Seq(S) /\ Len(r) = Len(s)
  BY <1>1, ExceptSeq DEF Put
<1>3. DOMAIN r = DOMAIN s /\ \A j \in DOMAIN s : r[j] = IF j = i THEN e ELSE s[j]
  BY <1>1 DEF Put
<1> HIDE DEF r
<1>4. ToSet(r) = {s[j] : j \in DOMAIN s \ {i}} \cup {e}
  BY <1>3 DEF ToSet
<1>5. r \in Seq(ToSet(r))
  BY <1>2 DEF ToSet
<1> QED
  BY <1>2, <1>4, <1>5 DEF r, IsList

-----------------------------------------------------------------------------
(* The calls under way. *)
IsCall(c) == c = [op |-> c.op, arg |-> c.arg, stage |-> c.stage, res |-> c.res]
CallsOk == IsList(calls) /\ \A c \in ToSet(calls) : IsCall(c)

\* The call is still under way after the step, answered or not.
Alive(c) == \E d \in ToSet(calls') : d.op = c.op /\ d.arg = c.arg

LEMMA AskMakes ==
    ASSUME CallsOk, NEW op, NEW arg, Ask(op, arg)
    PROVE  /\ CallsOk' /\ Len(calls') = Len(calls) + 1
           /\ ToSet(calls') = ToSet(calls) \cup
                {[op |-> op, arg |-> arg, stage |-> "sent", res |-> {}]}
           /\ \A c \in ToSet(calls) : Alive(c)
<1> DEFINE e == [op |-> op, arg |-> arg, stage |-> "sent", res |-> {}]
<1>1. calls' = Append(calls, e) /\ IsCall(e)
  BY DEF Ask, IsCall
<1> HIDE DEF e
<1>2. /\ IsList(calls') /\ ToSet(calls') = ToSet(calls) \cup {e}
      /\ Len(calls') = Len(calls) + 1
  BY <1>1, Appended DEF CallsOk
<1> QED
  BY <1>1, <1>2 DEF CallsOk, Alive, e, IsList

LEMMA AnswerGives ==
    ASSUME CallsOk, NEW i \in DOMAIN calls, NEW stage, NEW res, Answer(i, stage, res)
    PROVE  /\ CallsOk' /\ Len(calls') = Len(calls)
           /\ ToSet(calls') = {calls[j] : j \in DOMAIN calls \ {i}} \cup
                {[op |-> calls[i].op, arg |-> calls[i].arg, stage |-> stage, res |-> res]}
           /\ \A c \in ToSet(calls) : Alive(c)
<1> DEFINE e == [op |-> calls[i].op, arg |-> calls[i].arg, stage |-> stage, res |-> res]
           rest == {calls[j] : j \in DOMAIN calls \ {i}}
<1>1. calls[i] \in ToSet(calls) /\ ToSet(calls) = rest \cup {calls[i]}
  BY DEF ToSet
<1>2. IsCall(calls[i]) /\ IsCall(e) /\ e.op = calls[i].op /\ e.arg = calls[i].arg
  BY <1>1 DEF CallsOk, IsCall
<1>3. [calls[i] EXCEPT !.stage = stage, !.res = res] = e
  BY <1>2 DEF IsCall
<1>4. calls' = [calls EXCEPT ![i] = e]
  BY <1>3 DEF Answer
<1>5. rest \subseteq ToSet(calls)
  BY <1>1
<1> HIDE DEF e, rest
<1>6. IsList(calls') /\ ToSet(calls') = rest \cup {e} /\ Len(calls') = Len(calls)
  <2>1. calls' = Put(calls, i, e)
    BY <1>4 DEF Put
  <2> QED
    BY <2>1, Replaced DEF CallsOk, rest, IsList
<1>7. CallsOk'
  BY <1>2, <1>5, <1>6 DEF CallsOk, IsList
<1>8. \A c \in ToSet(calls) : Alive(c)
  BY <1>1, <1>2, <1>6 DEF Alive
<1> QED
  BY <1>6, <1>7, <1>8 DEF e, rest

LEMMA TakeEnds ==
    ASSUME CallsOk, NEW i \in DOMAIN calls, Take(i)
    PROVE  /\ CallsOk' /\ Len(calls') = Len(calls) - 1
           /\ ToSet(calls') = {calls[j] : j \in DOMAIN calls \ {i}}
           /\ \A c \in ToSet(calls) : c # calls[i] => Alive(c)
<1> DEFINE rest == {calls[j] : j \in DOMAIN calls \ {i}}
<1>1. ToSet(calls) = rest \cup {calls[i]}
  BY DEF ToSet
<1> HIDE DEF rest
<1>2. IsList(calls') /\ ToSet(calls') = rest /\ Len(calls') = Len(calls) - 1
  BY EntryRemoved DEF CallsOk, Take, rest
<1> QED
  BY <1>1, <1>2 DEF CallsOk, Alive, rest, IsList

LEMMA ThenMakes ==
    ASSUME CallsOk, NEW i \in DOMAIN calls, NEW op, NEW arg, Then(i, op, arg)
    PROVE  /\ CallsOk' /\ Len(calls') = Len(calls)
           /\ ToSet(calls') = {calls[j] : j \in DOMAIN calls \ {i}} \cup
                {[op |-> op, arg |-> arg, stage |-> "sent", res |-> {}]}
           /\ \A c \in ToSet(calls) : c # calls[i] => Alive(c)
<1> DEFINE e == [op |-> op, arg |-> arg, stage |-> "sent", res |-> {}]
           rest == {calls[j] : j \in DOMAIN calls \ {i}}
           left == RemoveAt(calls, i)
<1>1. ToSet(calls) = rest \cup {calls[i]}
  BY DEF ToSet
<1>2. calls' = Append(left, e) /\ IsCall(e)
  BY DEF Then, IsCall
<1>3. Len(calls) \in Nat
  BY DEF CallsOk, IsList
<1> HIDE DEF e, rest, left
<1>4. IsList(left) /\ ToSet(left) = rest /\ Len(left) = Len(calls) - 1
  BY EntryRemoved DEF CallsOk, rest, left
<1>5. IsList(calls') /\ ToSet(calls') = rest \cup {e} /\ Len(calls') = Len(left) + 1
  <2>1. /\ IsList(Append(left, e)) /\ ToSet(Append(left, e)) = ToSet(left) \cup {e}
        /\ Len(Append(left, e)) = Len(left) + 1
    BY <1>4, Appended
  <2> QED
    BY <2>1, <1>2, <1>4
<1>6. Len(calls') = Len(calls)
  BY <1>3, <1>4, <1>5
<1>7. CallsOk'
  BY <1>1, <1>2, <1>5 DEF CallsOk, IsList
<1> QED
  BY <1>1, <1>5, <1>6, <1>7 DEF Alive, e, rest

LEMMA CallsStand ==
    ASSUME CallsOk, UNCHANGED calls
    PROVE  CallsOk' /\ \A c \in ToSet(calls) : Alive(c)
BY DEF CallsOk, Alive, IsList

\* A click adds at most one call, the service answers one, and an answer is taken by one
\* handler, which may make the next call in its place.
LEMMA ServeAnswers ==
    ASSUME NEW i, Serve(i)
    PROVE  \E stage, res : Answer(i, stage, res)
BY DEF Serve, AddRow, UpdateRow, DeleteRow, SyncRows, ImportRows, CreateTemplate,
       UpdateTemplate

-----------------------------------------------------------------------------
(* Nothing spins without its call.                                         *)
Dialogs == {"add", "edit", "del", "drawer", "share", "sync", "export"}
DialogsOk == open = [d \in Dialogs |-> open[d]]

Under(ops) == \E c \in ToSet(calls) : c.op \in ops
Waited(c) == c.op = "sync" \/ (c.op \in {"load", "schedule"} /\ c.arg = session)

\* What each spinner waits for.
Spins ==
    /\ scheduleLoading => \E c \in ToSet(calls) : Waited(c)
    /\ templatesLoading \/ initialFetch => Under({"templates"})
    /\ importing # {} => Under({"import"})
    /\ isSharing => Under({"create", "find", "patch"})
    /\ exporting => Under({"export"})
    /\ Syncing => Under({"sync"})

SpinInv == CallsOk /\ DialogsOk /\ Spins

LEMMA AskIsUnder ==
    ASSUME CallsOk, NEW op, NEW arg, Ask(op, arg), NEW ops, op \in ops
    PROVE  CallsOk' /\ Under(ops)' /\ \A c \in ToSet(calls) : Alive(c)
<1> DEFINE e == [op |-> op, arg |-> arg, stage |-> "sent", res |-> {}]
<1>1. CallsOk' /\ e \in ToSet(calls') /\ \A c \in ToSet(calls) : Alive(c)
  BY AskMakes
<1>2. e.op = op
  OBVIOUS
<1> HIDE DEF e
<1> QED
  BY <1>1, <1>2 DEF Under

\* A step that ends no call starts no spinner but with its call.
LEMMA SpinsOn ==
    ASSUME Spins, \A c \in ToSet(calls) : Alive(c),
           scheduleLoading' => \/ scheduleLoading /\ session' = session
                               \/ \E d \in ToSet(calls') : Waited(d)',
           templatesLoading' \/ initialFetch' =>
               templatesLoading \/ initialFetch \/ Under({"templates"})',
           importing' # {} => importing # {} \/ Under({"import"})',
           isSharing' => isSharing \/ Under({"create", "find", "patch"})',
           exporting' => exporting \/ Under({"export"})',
           Syncing' => Syncing \/ Under({"sync"})'
    PROVE  Spins'
<1>1. ASSUME scheduleLoading /\ session' = session
      PROVE  \E d \in ToSet(calls') : Waited(d)'
  <2>1. PICK c \in ToSet(calls) : Waited(c)
    BY <1>1 DEF Spins
  <2>2. PICK d \in ToSet(calls') : d.op = c.op /\ d.arg = c.arg
    BY DEF Alive
  <2> QED
    BY <1>1, <2>1, <2>2 DEF Waited
<1>2. ASSUME NEW ops, Under(ops)
      PROVE  Under(ops)'
  BY <1>2 DEF Under, Alive
<1> QED
  BY <1>1, <1>2 DEF Spins

\* The answer of a call that no spinner waits for, or whose spinner it stops.
LEMMA SpinsOff ==
    ASSUME SpinInv, NEW i \in DOMAIN calls,
           \A c \in ToSet(calls) : c # calls[i] => Alive(c),
           scheduleLoading' => \/ scheduleLoading /\ session' = session /\ ~Waited(calls[i])
                               \/ \E d \in ToSet(calls') : Waited(d)',
           templatesLoading' \/ initialFetch' =>
               \/ (templatesLoading \/ initialFetch) /\ calls[i].op # "templates"
               \/ Under({"templates"})',
           importing' # {} => importing # {} /\ calls[i].op # "import",
           isSharing' => \/ isSharing /\ calls[i].op \notin {"create", "find", "patch"}
                         \/ Under({"create", "find", "patch"})',
           exporting' => exporting /\ calls[i].op # "export",
           Syncing' => Syncing /\ calls[i].op # "sync"
    PROVE  Spins'
<1>1. ASSUME scheduleLoading /\ session' = session /\ ~Waited(calls[i])
      PROVE  \E d \in ToSet(calls') : Waited(d)'
  <2>1. PICK c \in ToSet(calls) : Waited(c)
    BY <1>1 DEF SpinInv, Spins
  <2>2. c # calls[i]
    BY <1>1, <2>1
  <2>3. PICK d \in ToSet(calls') : d.op = c.op /\ d.arg = c.arg
    BY <2>2 DEF Alive
  <2> QED
    BY <1>1, <2>1, <2>3 DEF Waited
<1>2. ASSUME NEW ops, Under(ops), calls[i].op \notin ops
      PROVE  Under(ops)'
  BY <1>2 DEF Under, Alive
<1> QED
  BY <1>1, <1>2 DEF SpinInv, Spins

LEMMA SpinInit ==
    Init => SpinInv
<1> SUFFICES ASSUME Init
             PROVE  SpinInv
  OBVIOUS
<1>1. calls = <<>> /\ ToSet(<<>>) = {} /\ <<>> \in Seq({})
  BY DEF Init, ToSet
<1>2. CallsOk
  BY <1>1 DEF CallsOk, IsList
<1>3. DialogsOk
  BY DEF Init, Closed, DialogsOk, Dialogs
<1>4. ~Syncing
  BY DEF Init, Closed, Syncing
<1> QED
  BY <1>2, <1>3, <1>4 DEF Init, SpinInv, Spins

\* Signing in and out, the clicks on the page and in its dialogs, the loading effect.
LEMMA SpinClicks ==
    ASSUME SpinInv, Load \/ Clicks
    PROVE  SpinInv'
<1> USE DEF SpinInv
<1>1. CASE Load
  <2>1. Ask("load", session)
    BY <1>1 DEF Load
  <2> DEFINE e == [op |-> "load", arg |-> session, stage |-> "sent", res |-> {}]
  <2>2. CallsOk' /\ e \in ToSet(calls') /\ \A c \in ToSet(calls) : Alive(c)
    BY <2>1, AskMakes
  <2>3. e.op = "load" /\ e.arg = session'
    BY <1>1 DEF Load
  <2> HIDE DEF e
  <2>4. \E d \in ToSet(calls') : Waited(d)'
    BY <2>2, <2>3 DEF Waited
  <2>5. UNCHANGED <<open, drawer, spinners>>
    BY <1>1 DEF Load
  <2> QED
    BY <2>2, <2>4, <2>5, SpinsOn DEF DialogsOk, drawer, spinners, Syncing
<1>2. CASE SignOut
  <2>1. CallsOk' /\ \A c \in ToSet(calls) : Alive(c)
    BY <1>2, CallsStand DEF SignOut
  <2>2. DialogsOk' /\ open'["sync"] = {}
    BY <1>2 DEF SignOut, DialogsOk, Dialogs
  <2>3. Spins'
    BY <1>2, <2>1, <2>2, SpinsOn DEF SignOut, Syncing
  <2> QED
    BY <2>1, <2>2, <2>3
<1>3. CASE SignIn \/ (\E r \in Regs : Select(r)) \/ ToggleExclusion
  <2>1. UNCHANGED <<scheduleLoading, session, drawer, spinners, open, calls>>
    BY <1>3 DEF SignIn, Select, ToggleExclusion, page, drawer, spinners
  <2>2. CallsOk' /\ \A c \in ToSet(calls) : Alive(c)
    BY <2>1, CallsStand
  <2> QED
    BY <2>1, <2>2, SpinsOn DEF DialogsOk, drawer, spinners, Syncing
<1>4. CASE OpenDialog \/ CloseDialog \/ FillSync
  <2>1. UNCHANGED <<page, drawer, spinners, calls>>
    BY <1>4 DEF OpenDialog, Open, CloseDialog, FillSync
  <2>2. CallsOk' /\ \A c \in ToSet(calls) : Alive(c)
    BY <2>1, CallsStand
  <2>3. DialogsOk' /\ (Syncing' => Syncing)
    <3>1. CASE OpenDialog
      <4>1. PICK dialog \in Dialogs :
              \E what : /\ open' = [open EXCEPT ![dialog] = {what}]
                        /\ dialog = "sync" => what = "blank"
        BY <3>1 DEF OpenDialog, Open, Dialogs
      <4> QED
        BY <4>1 DEF DialogsOk, Dialogs, Syncing
    <3>2. CASE CloseDialog
      BY <3>2 DEF CloseDialog, Closing, DialogsOk, Dialogs, Syncing
    <3>3. CASE FillSync
      BY <3>3 DEF FillSync, DialogsOk, Dialogs, Syncing
    <3> QED
      BY <1>4, <3>1, <3>2, <3>3
  <2> QED
    BY <2>1, <2>2, <2>3, SpinsOn DEF page, drawer, spinners
<1>5. CASE (\E n \in Names, done \in BOOLEAN : Submit(n, done)) \/ ConfirmDelete
  <2>1. PICK op, arg : Ask(op, arg)
    BY <1>5 DEF Submit, ConfirmDelete
  <2>2. CallsOk' /\ \A c \in ToSet(calls) : Alive(c)
    BY <2>1, AskMakes
  <2>3. UNCHANGED <<page, drawer, spinners>>
    BY <1>5 DEF Submit, ConfirmDelete
  <2>4. DialogsOk' /\ (Syncing' => Syncing)
    BY <1>5 DEF Submit, ConfirmDelete, Closing, DialogsOk, Dialogs, Syncing
  <2> QED
    BY <2>2, <2>3, <2>4, SpinsOn DEF page, drawer, spinners
<1>6. CASE SubmitSync
  <2>1. Ask("sync", {})
    BY <1>6 DEF SubmitSync
  <2>2. CallsOk' /\ Under({"sync"})' /\ \A c \in ToSet(calls) : Alive(c)
    BY <2>1, AskIsUnder
  <2>3. \E d \in ToSet(calls') : Waited(d)'
    BY <2>2 DEF Under, Waited
  <2>4. UNCHANGED <<drawer, spinners>> /\ DialogsOk'
    BY <1>6 DEF SubmitSync, DialogsOk, Dialogs
  <2> QED
    BY <2>2, <2>3, <2>4, SpinsOn DEF drawer, spinners
<1>7. CASE ExportClicked
  <2>1. Ask("export", {})
    BY <1>7 DEF ExportClicked
  <2>2. CallsOk' /\ Under({"export"})' /\ \A c \in ToSet(calls) : Alive(c)
    BY <2>1, AskIsUnder
  <2>3. UNCHANGED <<page, drawer, open, importing, isSharing>>
    BY <1>7 DEF ExportClicked
  <2> QED
    BY <2>2, <2>3, SpinsOn DEF page, drawer, DialogsOk, Syncing
<1>8. CASE OpenTemplates \/ LoadMore
  <2>1. PICK arg : Ask("templates", arg)
    BY <1>8 DEF OpenTemplates, LoadMore, LoadTemplates
  <2>2. CallsOk' /\ Under({"templates"})' /\ \A c \in ToSet(calls) : Alive(c)
    BY <2>1, AskIsUnder
  <2>3. UNCHANGED <<page, spinners>> /\ DialogsOk' /\ (Syncing' => Syncing)
    BY <1>8 DEF OpenTemplates, LoadMore, DialogsOk, Dialogs, Syncing
  <2> QED
    BY <2>2, <2>3, SpinsOn DEF page, spinners
<1>9. CASE CloseDrawer
  <2>1. CallsOk' /\ \A c \in ToSet(calls) : Alive(c)
    BY <1>9, CallsStand DEF CloseDrawer
  <2>2. /\ UNCHANGED <<page, templatesLoading, initialFetch, isSharing, exporting>>
        /\ DialogsOk' /\ (Syncing' => Syncing) /\ importing' = {}
    BY <1>9 DEF CloseDrawer, Closing, DialogsOk, Dialogs, Syncing
  <2> QED
    BY <2>1, <2>2, SpinsOn DEF page
<1>10. CASE \E t \in ToSet(templates) : Import(t)
  <2>1. PICK arg : Ask("import", arg)
    BY <1>10 DEF Import
  <2>2. CallsOk' /\ Under({"import"})' /\ \A c \in ToSet(calls) : Alive(c)
    BY <2>1, AskIsUnder
  <2>3. UNCHANGED <<page, drawer, open, isSharing, exporting>>
    BY <1>10 DEF Import
  <2> QED
    BY <2>2, <2>3, SpinsOn DEF page, drawer, DialogsOk, Syncing
<1>11. CASE Share
  <2>1. PICK arg : Ask("create", arg)
    BY <1>11 DEF Share
  <2>2. CallsOk' /\ Under({"create", "find", "patch"})' /\ \A c \in ToSet(calls) : Alive(c)
    BY <2>1, AskIsUnder
  <2>3. UNCHANGED <<page, drawer, open, importing, exporting>>
    BY <1>11 DEF Share
  <2> QED
    BY <2>2, <2>3, SpinsOn DEF page, drawer, DialogsOk, Syncing
<1> QED
  BY <1>1, <1>2, <1>3, <1>4, <1>5, <1>6, <1>7, <1>8, <1>9, <1>10, <1>11 DEF Clicks

\* The service, the network and the classmates leave the spinners alone.
LEMMA SpinService ==
    ASSUME SpinInv, \/ Service \/ (\E i \in DOMAIN calls : Fault(i))
                    \/ (\E c \in Regs : ClassmateShares(c)) \/ UNCHANGED vars
    PROVE  SpinInv'
<1> USE DEF SpinInv
<1>1. UNCHANGED <<page, open, drawer, spinners>>
  BY DEF Service, Serve, Fault, ClassmateShares, vars, page, drawer, spinners
<1>2. CallsOk' /\ \A c \in ToSet(calls) : Alive(c)
  <2>1. CASE Service \/ \E i \in DOMAIN calls : Fault(i)
    <3>1. PICK i \in DOMAIN calls : \E stage, res : Answer(i, stage, res)
      BY <2>1, ServeAnswers DEF Service, Fault
    <3> QED
      BY <3>1, AnswerGives
  <2>2. CASE (\E c \in Regs : ClassmateShares(c)) \/ UNCHANGED vars
    BY <2>2, CallsStand DEF ClassmateShares, vars
  <2> QED
    BY <2>1, <2>2
<1> QED
  BY <1>1, <1>2, SpinsOn DEF page, drawer, spinners, DialogsOk, Syncing

LEMMA ThenIsUnder ==
    ASSUME CallsOk, NEW i \in DOMAIN calls, NEW op, NEW arg, Then(i, op, arg),
           NEW ops, op \in ops
    PROVE  Under(ops)'
<1> DEFINE e == [op |-> op, arg |-> arg, stage |-> "sent", res |-> {}]
<1>1. e \in ToSet(calls') /\ e.op = op
  BY ThenMakes
<1> HIDE DEF e
<1> QED
  BY <1>1 DEF Under

\* Each handler stops the spinner its call was for, or makes the next call for it.
LEMMA SpinReturns ==
    ASSUME SpinInv, NEW i \in DOMAIN calls,
           \/ LoadReturns(i) \/ ScheduleReturns(i) \/ AddReturns(i) \/ UpdateReturns(i)
           \/ DeleteReturns(i) \/ SyncReturns(i) \/ ExportReturns(i) \/ TemplatesReturn(i)
           \/ ImportReturns(i) \/ CreateReturns(i) \/ FindReturns(i) \/ PatchReturns(i)
    PROVE  SpinInv'
<1> USE DEF SpinInv
<1>1. ASSUME \/ Take(i) \/ \E op, arg : Then(i, op, arg)
      PROVE  CallsOk' /\ \A c \in ToSet(calls) : c # calls[i] => Alive(c)
  BY <1>1, TakeEnds, ThenMakes
<1>2. CASE LoadReturns(i)
  <2>1. calls[i].op = "load" /\ UNCHANGED <<drawer, spinners, session>>
    BY <1>2 DEF LoadReturns, Is, page
  <2>2. DialogsOk' /\ (Syncing' => Syncing)
    BY <1>2 DEF LoadReturns, Remounted, DialogsOk, Dialogs, Syncing
  <2>3. CASE calls[i].arg # session
    <3>1. Take(i) /\ UNCHANGED page
      BY <1>2, <2>3 DEF LoadReturns
    <3>2. ~Waited(calls[i])
      BY <2>1, <2>3 DEF Waited
    <3> QED
      BY <1>1, <2>1, <2>2, <3>1, <3>2, SpinsOff DEF page, drawer, spinners
  <2>4. CASE calls[i].arg = session /\ Ok(i)
    <3>1. Then(i, "schedule", session) /\ UNCHANGED scheduleLoading
      BY <1>2, <2>4 DEF LoadReturns
    <3> DEFINE e == [op |-> "schedule", arg |-> session, stage |-> "sent", res |-> {}]
    <3>2. e \in ToSet(calls') /\ e.op = "schedule" /\ e.arg = session'
      BY <2>1, <3>1, ThenMakes
    <3> HIDE DEF e
    <3>3. \E d \in ToSet(calls') : Waited(d)'
      BY <3>2 DEF Waited
    <3> QED
      BY <1>1, <2>1, <2>2, <3>1, <3>3, SpinsOff DEF drawer, spinners
  <2>5. CASE calls[i].arg = session /\ ~Ok(i)
    <3>1. Take(i) /\ scheduleLoading' = FALSE
      BY <1>2, <2>5 DEF LoadReturns
    <3> QED
      BY <1>1, <2>1, <2>2, <3>1, SpinsOff DEF drawer, spinners
  <2> QED
    BY <2>3, <2>4, <2>5
<1>3. CASE ScheduleReturns(i)
  <2>1. /\ Take(i) /\ calls[i].op = "schedule"
        /\ UNCHANGED <<drawer, spinners, session, open>>
    BY <1>3 DEF ScheduleReturns, Is
  <2>2. scheduleLoading' => scheduleLoading /\ ~Waited(calls[i])
    BY <1>3, <2>1 DEF ScheduleReturns, Waited
  <2> QED
    BY <1>1, <2>1, <2>2, SpinsOff DEF drawer, spinners, DialogsOk, Syncing
<1>4. CASE AddReturns(i) \/ UpdateReturns(i) \/ DeleteReturns(i)
  <2>1. /\ Take(i) /\ calls[i].op \in {"add", "update", "delete"}
        /\ UNCHANGED <<page, drawer, spinners>>
    BY <1>4 DEF AddReturns, UpdateReturns, DeleteReturns, Is
  <2>2. DialogsOk' /\ (Syncing' => Syncing)
    BY <1>4 DEF AddReturns, UpdateReturns, DeleteReturns, Closing, DialogsOk, Dialogs, Syncing
  <2>3. ~Waited(calls[i])
    BY <2>1 DEF Waited
  <2> QED
    BY <1>1, <2>1, <2>2, <2>3, SpinsOff DEF page, drawer, spinners
<1>5. CASE SyncReturns(i)
  <2>1. /\ Take(i) /\ calls[i].op = "sync" /\ scheduleLoading' = FALSE
        /\ UNCHANGED <<drawer, spinners>>
    BY <1>5 DEF SyncReturns, Is
  <2>2. DialogsOk' /\ ~Syncing'
    BY <1>5 DEF SyncReturns, Remounted, DialogsOk, Dialogs, Syncing
  <2> QED
    BY <1>1, <2>1, <2>2, SpinsOff DEF drawer, spinners
<1>6. CASE ExportReturns(i)
  <2>1. /\ Take(i) /\ calls[i].op = "export" /\ exporting' = FALSE
        /\ UNCHANGED <<page, drawer, importing, isSharing>>
    BY <1>6 DEF ExportReturns, Is
  <2>2. DialogsOk' /\ (Syncing' => Syncing) /\ ~Waited(calls[i])
    BY <1>6, <2>1 DEF ExportReturns, Closing, DialogsOk, Dialogs, Syncing, Waited
  <2> QED
    BY <1>1, <2>1, <2>2, SpinsOff DEF page, drawer
<1>7. CASE TemplatesReturn(i)
  <2>1. /\ Take(i) /\ calls[i].op = "templates" /\ ~templatesLoading' /\ ~initialFetch'
        /\ UNCHANGED <<page, open, spinners>>
    BY <1>7 DEF TemplatesReturn, Is
  <2>2. ~Waited(calls[i])
    BY <2>1 DEF Waited
  <2> QED
    BY <1>1, <2>1, <2>2, SpinsOff DEF page, spinners, DialogsOk, Syncing
<1>8. CASE ImportReturns(i)
  <2>1. /\ Take(i) /\ calls[i].op = "import" /\ importing' = {}
        /\ UNCHANGED <<page, templatesLoading, initialFetch, isSharing, exporting>>
    BY <1>8 DEF ImportReturns, Is
  <2>2. DialogsOk' /\ (Syncing' => Syncing) /\ ~Waited(calls[i])
    BY <1>8, <2>1 DEF ImportReturns, Closing, DialogsOk, Dialogs, Syncing, Waited
  <2> QED
    BY <1>1, <2>1, <2>2, SpinsOff DEF page
<1>9. ASSUME Shared(i), calls[i].op \notin {"templates", "import", "export", "sync"}
      PROVE  /\ \/ Take(i) \/ \E op, arg : Then(i, op, arg)
             /\ DialogsOk' /\ (Syncing' => Syncing)
             /\ templatesLoading' \/ initialFetch' =>
                  \/ templatesLoading \/ initialFetch \/ Under({"templates"})'
  <2>1. DialogsOk' /\ (Syncing' => Syncing)
    BY <1>9 DEF Shared, Closing, DialogsOk, Dialogs, Syncing
  <2>2. CASE open.drawer = {calls[i].arg.reg}
    <3>1. PICK arg : Then(i, "templates", arg)
      BY <1>9, <2>2 DEF Shared
    <3>2. Under({"templates"})'
      BY <3>1, ThenIsUnder
    <3> QED
      BY <2>1, <3>1, <3>2
  <2>3. CASE open.drawer # {calls[i].arg.reg}
    <3>1. Take(i) /\ UNCHANGED drawer
      BY <1>9, <2>3 DEF Shared
    <3> QED
      BY <2>1, <3>1 DEF drawer
  <2> QED
    BY <2>2, <2>3
<1>10. CASE CreateReturns(i)
  <2>1. calls[i].op = "create" /\ UNCHANGED page /\ ~Waited(calls[i])
    BY <1>10 DEF CreateReturns, Is, Waited
  <2>2. CASE Ok(i) /\ Shared(i) /\ EndShare
    <3>1. UNCHANGED <<importing, exporting>> /\ isSharing' = FALSE
      BY <2>2 DEF EndShare
    <3> QED
      BY <1>1, <1>9, <2>1, <2>2, <3>1, SpinsOff DEF page
  <2>3. CASE /\ \/ \E arg : Then(i, "patch", arg)
                \/ \E arg : Then(i, "find", arg)
             /\ UNCHANGED <<open, drawer, spinners>>
    <3>1. Under({"create", "find", "patch"})'
      BY <2>3, ThenIsUnder
    <3> QED
      BY <1>1, <2>1, <2>3, <3>1, SpinsOff DEF page, drawer, spinners, DialogsOk, Syncing
  <2>4. CASE Take(i) /\ EndShare /\ UNCHANGED <<open, drawer>>
    <3>1. UNCHANGED <<importing, exporting>> /\ isSharing' = FALSE
      BY <2>4 DEF EndShare
    <3> QED
      BY <1>1, <2>1, <2>4, <3>1, SpinsOff DEF page, drawer, DialogsOk, Syncing
  <2> QED
    BY <1>10, <2>2, <2>3, <2>4 DEF CreateReturns
<1>11. CASE FindReturns(i)
  <2>1. /\ calls[i].op = "find" /\ UNCHANGED <<page, open, drawer>> /\ ~Waited(calls[i])
    BY <1>11 DEF FindReturns, Is, Waited
  <2>2. CASE (\E arg : Then(i, "patch", arg)) /\ UNCHANGED spinners
    <3>1. Under({"create", "find", "patch"})'
      BY <2>2, ThenIsUnder
    <3> QED
      BY <1>1, <2>1, <2>2, <3>1, SpinsOff DEF page, drawer, spinners, DialogsOk, Syncing
  <2>3. CASE Take(i) /\ EndShare
    <3>1. UNCHANGED <<importing, exporting>> /\ isSharing' = FALSE
      BY <2>3 DEF EndShare
    <3> QED
      BY <1>1, <2>1, <2>3, <3>1, SpinsOff DEF page, drawer, DialogsOk, Syncing
  <2> QED
    BY <1>11, <2>2, <2>3 DEF FindReturns
<1>12. CASE PatchReturns(i)
  <2>1. calls[i].op = "patch" /\ UNCHANGED page /\ ~Waited(calls[i])
    BY <1>12 DEF PatchReturns, Is, Waited
  <2>2. UNCHANGED <<importing, exporting>> /\ isSharing' = FALSE
    BY <1>12 DEF PatchReturns, EndShare
  <2>3. CASE Shared(i)
    BY <1>1, <1>9, <2>1, <2>2, <2>3, SpinsOff DEF page
  <2>4. CASE Take(i) /\ UNCHANGED <<open, drawer>>
    BY <1>1, <2>1, <2>2, <2>4, SpinsOff DEF page, drawer, DialogsOk, Syncing
  <2> QED
    BY <1>12, <2>3, <2>4 DEF PatchReturns
<1> QED
  BY <1>2, <1>3, <1>4, <1>5, <1>6, <1>7, <1>8, <1>10, <1>11, <1>12

\* With no call under way nothing spins: each button that was disabled for a call is
\* enabled again, whatever fails, is lost, overlaps or is answered after the sign-out
\* (the finally blocks of the view model and of the sync dialog).
THEOREM NothingSpinsForEver ==
    Spec => []NothingSpinsAlone
<1>1. Init => SpinInv
  BY SpinInit
<1>2. ASSUME SpinInv, [Next]_vars
      PROVE  SpinInv'
  <2>1. CASE Load \/ Clicks
    BY <1>2, <2>1, SpinClicks
  <2>2. CASE \/ Service \/ (\E i \in DOMAIN calls : Fault(i))
             \/ (\E c \in Regs : ClassmateShares(c)) \/ UNCHANGED vars
    BY <1>2, <2>2, SpinService
  <2>3. CASE Returns
    BY <1>2, <2>3, SpinReturns DEF Returns
  <2> QED
    BY <1>2, <2>1, <2>2, <2>3 DEF Next
<1>3. SpinInv => NothingSpinsAlone
  <2>1. ToSet(<<>>) = {}
    BY DEF ToSet
  <2> QED
    BY <2>1 DEF SpinInv, Spins, NothingSpinsAlone, Under
<1> QED
  BY <1>1, <1>2, <1>3, PTL DEF Spec

-----------------------------------------------------------------------------
(* Answers reach their course.                                             *)

\* Every key was given out for one registration: own says which. The items of r that
\* may be shown, stored or on their way.
Of(r, own, n) == {it \in Items : it.reg = r /\ own[it.id] = r /\ it.id < n}
Owned(rows, own, n) ==
    /\ DOMAIN rows \subseteq Regs /\ rows = [r \in DOMAIN rows |-> rows[r]]
    /\ \A r \in DOMAIN rows : rows[r] \in Seq(Of(r, own, n))

AskOk(c) ==
    /\ c.op \in {"add", "update"} => c.arg.name \in Names /\ c.arg.done \in BOOLEAN
    /\ c.op \in {"create", "find", "patch"} => c.arg.names \in Seq(Names)

\* What a call may bring, for the handlers that show it.
CallFits(c, own, n) ==
    c.stage = "ok" =>
        /\ c.op \in {"load", "sync"} => Owned(c.res, own, n)
        /\ c.op = "add" => c.res \in Of(c.arg.reg, own, n)
        /\ c.op = "update" => c.res \in Of(c.res.reg, own, n)
        /\ c.op = "import" => c.res.items \in Seq(Of(c.res.reg, own, n))

Fits(own) ==
    /\ Owned(courses, own, srv.next) /\ Owned(srv.rows, own, srv.next)
    /\ \A c \in ToSet(calls) : CallFits(c, own, srv.next)

Owners == [Nat -> Nat]
Agree(own, new, n) == \A k \in Nat : k < n => new[k] = own[k]

TypeInv ==
    /\ CallsOk /\ (\A c \in ToSet(calls) : AskOk(c)) /\ DialogsOk /\ Tables(srv)
    /\ \A s \in open["share"] : s.items \in Seq(Items)
    /\ selected \subseteq DOMAIN courses
FitInv == TypeInv /\ \E own \in Owners : Fits(own)

LEMMA OfGrows ==
    ASSUME NEW own, NEW new, NEW n \in Nat, NEW m \in Nat, n <= m, Agree(own, new, n), NEW r
    PROVE  Of(r, own, n) \subseteq Of(r, new, m)
<1> SUFFICES ASSUME NEW it \in Of(r, own, n)
             PROVE  it \in Of(r, new, m)
  OBVIOUS
<1>1. it \in Items /\ it.reg = r /\ own[it.id] = r /\ it.id < n /\ it.id \in Nat
  BY DEF Of, Items
<1>2. new[it.id] = r /\ it.id < m
  BY <1>1 DEF Agree
<1> QED
  BY <1>1, <1>2 DEF Of

LEMMA SeqOfGrows ==
    ASSUME NEW own, NEW new, NEW n \in Nat, NEW m \in Nat, n <= m, Agree(own, new, n),
           NEW r, NEW s \in Seq(Of(r, own, n))
    PROVE  s \in Seq(Of(r, new, m))
BY OfGrows

LEMMA OwnedGrows ==
    ASSUME NEW own, NEW new, NEW n \in Nat, NEW m \in Nat, n <= m, Agree(own, new, n),
           NEW rows, Owned(rows, own, n)
    PROVE  Owned(rows, new, m)
BY SeqOfGrows DEF Owned

LEMMA CallFitsGrows ==
    ASSUME NEW own, NEW new, NEW n \in Nat, NEW m \in Nat, n <= m, Agree(own, new, n),
           NEW c, CallFits(c, own, n)
    PROVE  CallFits(c, new, m)
<1>1. \A r : Of(r, own, n) \subseteq Of(r, new, m)
  BY OfGrows
<1>2. ASSUME NEW r, NEW s \in Seq(Of(r, own, n))
      PROVE  s \in Seq(Of(r, new, m))
  BY <1>2, SeqOfGrows
<1>3. ASSUME NEW rows, Owned(rows, own, n)
      PROVE  Owned(rows, new, m)
  BY <1>3, OwnedGrows
<1> QED
  BY <1>1, <1>2, <1>3 DEF CallFits

LEMMA FitInit ==
    Init => FitInv
<1> SUFFICES ASSUME Init
             PROVE  FitInv
  OBVIOUS
<1>1. calls = <<>> /\ ToSet(calls) = {} /\ <<>> \in Seq({})
  BY DEF Init, ToSet
<1>2. TypeInv
  BY <1>1, ServerAssumption, SpinInit DEF Init, SpinInv, Closed, TypeInv
<1> DEFINE own == [k \in Nat |->
                     IF \E r \in DOMAIN srv.rows : \E i \in DOMAIN srv.rows[r] :
                            srv.rows[r][i].id = k
                     THEN CHOOSE r \in DOMAIN srv.rows : \E i \in DOMAIN srv.rows[r] :
                            srv.rows[r][i].id = k
                     ELSE 0]
<1>3. DOMAIN srv.rows \subseteq Nat /\ DOMAIN srv.rows \subseteq Regs
  BY <1>2, GradeBookAssumption DEF TypeInv, Tables, ItemsBelong
<1>4. own \in Owners
  BY <1>3 DEF Owners
<1>5. ASSUME NEW r \in DOMAIN srv.rows, NEW i \in DOMAIN srv.rows[r]
      PROVE  srv.rows[r][i] \in Of(r, own, srv.next)
  <2> DEFINE it == srv.rows[r][i]
  <2>1. it \in Items /\ it.reg = r /\ it.id < srv.next
    <3> DEFINE S == {x \in Items : x.reg = r /\ x.from = r /\ x.id < srv.next}
    <3>1. srv.rows[r] \in Seq(S)
      BY <1>2 DEF TypeInv, Tables, ItemsBelong
    <3>2. it \in S
      <4> HIDE DEF S
      <4> QED
        BY <3>1
    <3> QED
      BY <3>2
  <2>2. it.id \in Nat
    BY <2>1 DEF Items
  <2>3. \A q \in DOMAIN srv.rows :
          (\E j \in DOMAIN srv.rows[q] : srv.rows[q][j].id = it.id) => q = r
    BY <1>2 DEF TypeInv, Tables, ItemKeysOnce
  <2>4. own[it.id] = r
    BY <2>2, <2>3
  <2> QED
    BY <2>1, <2>4 DEF Of
<1>6. Owned(srv.rows, own, srv.next)
  <2> HIDE DEF own
  <2>1. ASSUME NEW r \in DOMAIN srv.rows
        PROVE  srv.rows[r] \in Seq(Of(r, own, srv.next))
    <3>1. PICK S : srv.rows[r] \in Seq(S)
      BY <1>2 DEF TypeInv, Tables, ItemsBelong
    <3> QED
      BY <1>5, <3>1
  <2> QED
    BY <1>2, <1>3, <2>1 DEF TypeInv, Tables, ItemsBelong, Owned
<1>7. Owned(courses, own, srv.next)
  <2> HIDE DEF own
  <2> QED
    BY DEF Init, Owned
<1> HIDE DEF own
<1> QED
  BY <1>1, <1>2, <1>4, <1>6, <1>7 DEF FitInv, Fits

Belonging(r, n) == {it \in Items : it.reg = r /\ it.from = r /\ it.id < n}

LEMMA BelongAt ==
    ASSUME NEW rows, NEW n, ItemsBelong(rows, n), NEW r \in DOMAIN rows
    PROVE  /\ rows[r] \in Seq(Belonging(r, n)) /\ rows[r] \in Seq(Items)
           /\ r \in Regs /\ r \in Nat
           /\ \A i \in DOMAIN rows[r] : rows[r][i] \in Belonging(r, n) /\ rows[r][i].id \in Nat
<1> DEFINE S == Belonging(r, n)
<1>1. rows[r] \in Seq(S) /\ r \in Regs
  BY DEF ItemsBelong, Belonging
<1>2. S \subseteq Items /\ \A it \in S : it.id \in Nat
  BY DEF Belonging, Items
<1> HIDE DEF S
<1>3. rows[r] \in Seq(Items) /\ \A i \in DOMAIN rows[r] : rows[r][i] \in S
  BY <1>1, <1>2
<1> QED
  BY <1>1, <1>2, <1>3, GradeBookAssumption DEF S

\* A registration's items are replaced by some of its own and some under new keys.
LEMMA PutBelongs ==
    ASSUME NEW rows, NEW n \in Nat, NEW m \in Nat, n <= m, ItemsBelong(rows, n),
           ItemKeysOnce(rows), NEW r \in DOMAIN rows, NEW s \in Seq(Belonging(r, m)),
           \A i, j \in DOMAIN s : s[i].id = s[j].id => i = j,
           \A i \in DOMAIN s : \/ s[i].id >= n
                               \/ \E j \in DOMAIN rows[r] : s[i].id = rows[r][j].id
    PROVE  ItemsBelong(Put(rows, r, s), m) /\ ItemKeysOnce(Put(rows, r, s))
<1> DEFINE new == Put(rows, r, s)
<1>1. DOMAIN new = DOMAIN rows /\ new[r] = s /\ \A q \in DOMAIN rows : q # r => new[q] = rows[q]
  BY DEF Put, ItemsBelong
<1>2. new = [q \in DOMAIN new |-> new[q]] /\ DOMAIN new \subseteq Regs
  BY <1>1 DEF Put, ItemsBelong
<1> HIDE DEF new
<1>3. ASSUME NEW q \in DOMAIN rows
      PROVE  new[q] \in Seq(Belonging(q, m))
  <2>1. CASE q = r
    BY <1>1, <2>1
  <2>2. CASE q # r
    <3>1. rows[q] \in Seq(Belonging(q, n))
      BY BelongAt
    <3>2. ASSUME NEW it \in Belonging(q, n)
          PROVE  it \in Belonging(q, m)
      BY DEF Belonging, Items
    <3>3. Belonging(q, n) \subseteq Belonging(q, m)
      BY <3>2
    <3> QED
      BY <1>1, <2>2, <3>1, <3>3
  <2> QED
    BY <2>1, <2>2
<1>4. ItemsBelong(new, m)
  BY <1>1, <1>2, <1>3 DEF ItemsBelong, Belonging
<1>5. ASSUME NEW q \in DOMAIN rows, NEW p \in DOMAIN rows, NEW i \in DOMAIN new[q],
             NEW j \in DOMAIN new[p], new[q][i].id = new[p][j].id
      PROVE  q = p /\ i = j
  <2>1. ASSUME NEW o \in DOMAIN rows, NEW k \in DOMAIN s, NEW l \in DOMAIN rows[o],
               s[k].id = rows[o][l].id
        PROVE  o = r
    <3>1. rows[o][l].id < n /\ rows[o][l].id \in Nat
      BY BelongAt DEF Belonging
    <3>2. PICK h \in DOMAIN rows[r] : s[k].id = rows[r][h].id
      BY <2>1, <3>1
    <3>3. rows[o][l].id = rows[r][h].id
      BY <2>1, <3>2
    <3> QED
      BY <3>3 DEF ItemKeysOnce
  <2>2. CASE q = r /\ p = r
    BY <1>1, <1>5, <2>2
  <2>3. CASE q = r /\ p # r
    BY <1>1, <1>5, <2>1, <2>3
  <2>4. CASE q # r /\ p = r
    BY <1>1, <1>5, <2>1, <2>4
  <2>5. CASE q # r /\ p # r
    BY <1>1, <1>5, <2>5 DEF ItemKeysOnce
  <2> QED
    BY <2>2, <2>3, <2>4, <2>5
<1>6. ItemKeysOnce(new)
  BY <1>1, <1>5 DEF ItemKeysOnce
<1> QED
  BY <1>4, <1>6 DEF new

LEMMA PutOwned ==
    ASSUME NEW rows, NEW own, NEW n \in Nat, NEW m \in Nat, n <= m, NEW new,
           Agree(own, new, n), Owned(rows, own, n), NEW r \in DOMAIN rows,
           NEW s \in Seq(Of(r, new, m))
    PROVE  Owned(Put(rows, r, s), new, m)
<1> DEFINE next == Put(rows, r, s)
<1>1. Owned(rows, new, m)
  BY OwnedGrows
<1>2. /\ DOMAIN next = DOMAIN rows /\ next[r] = s /\ next = [q \in DOMAIN next |-> next[q]]
      /\ \A q \in DOMAIN rows : q # r => next[q] = rows[q]
  BY <1>1 DEF Put, Owned
<1> HIDE DEF next
<1>3. \A q \in DOMAIN rows : next[q] \in Seq(Of(q, new, m))
  BY <1>1, <1>2 DEF Owned
<1> QED
  BY <1>1, <1>2, <1>3 DEF Owned, next

Answered(i, stage, res) ==
    [op |-> calls[i].op, arg |-> calls[i].arg, stage |-> stage, res |-> res]

LEMMA AnswerFits ==
    ASSUME TypeInv, NEW own \in Owners, Fits(own), NEW i \in DOMAIN calls, NEW stage, NEW res,
           Answer(i, stage, res), NEW new \in Owners, Agree(own, new, srv.next),
           srv.next <= srv'.next, Tables(srv)', Owned(srv'.rows, new, srv'.next),
           UNCHANGED <<courses, selected, open>>, CallFits(Answered(i, stage, res), new, srv'.next)
    PROVE  FitInv'
<1> DEFINE e == Answered(i, stage, res)
           n == srv.next
           m == srv'.next
<1>1. n \in Nat /\ m \in Nat /\ n <= m
  BY DEF TypeInv, Tables
<1>2. CallsOk' /\ ToSet(calls') = {calls[j] : j \in DOMAIN calls \ {i}} \cup {e}
  BY AnswerGives DEF TypeInv, Answered
<1>3. calls[i] \in ToSet(calls) /\ \A j \in DOMAIN calls : calls[j] \in ToSet(calls)
  BY DEF ToSet
<1>4. AskOk(e)
  BY <1>3 DEF TypeInv, AskOk, Answered
<1> HIDE DEF e, n, m
<1>5. \A c \in ToSet(calls') : c \in ToSet(calls) \/ c = e
  BY <1>2, <1>3
<1>6. TypeInv'
  BY <1>2, <1>4, <1>5 DEF TypeInv, DialogsOk, AskOk
<1>7. Owned(courses', new, m)
  BY <1>1, OwnedGrows DEF Fits, n
<1>8. \A c \in ToSet(calls') : CallFits(c, new, m)
  BY <1>1, <1>5, CallFitsGrows DEF Fits, n, m, e
<1> QED
  BY <1>6, <1>7, <1>8 DEF FitInv, Fits, m, CallFits

\* The ops that read, or fail.
LEMMA ReadFits ==
    ASSUME TypeInv, NEW own \in Owners, Fits(own), NEW i \in DOMAIN calls, NEW stage, NEW res,
           Answer(i, stage, res), UNCHANGED <<srv, courses, selected, open>>,
           CallFits(Answered(i, stage, res), own, srv.next)
    PROVE  FitInv'
<1>1. srv.next \in Nat /\ srv.next <= srv'.next /\ Tables(srv)'
  BY DEF TypeInv, Tables
<1>2. Owned(srv'.rows, own, srv'.next) /\ CallFits(Answered(i, stage, res), own, srv'.next)
  BY DEF Fits
<1>3. Agree(own, own, srv.next)
  BY DEF Agree
<1> QED
  BY <1>1, <1>2, <1>3, AnswerFits

LEMMA AddFits ==
    ASSUME TypeInv, NEW own \in Owners, Fits(own), NEW i \in DOMAIN calls,
           calls[i].op = "add", AddRow(i, calls[i].arg), UNCHANGED <<courses, selected, open>>
    PROVE  FitInv'
<1> DEFINE a == calls[i].arg
           r == a.reg
           n == srv.next
           item == NewItem(n, r, a.name, a.done, r)
           row == Append(srv.rows[r], item)
           new == [k \in Nat |-> IF k < n THEN own[k] ELSE r]
<1>1. CASE r \notin DOMAIN srv.rows
  <2>1. srv' = srv /\ Answer(i, "failed", {})
    BY <1>1 DEF AddRow
  <2>2. CallFits(Answered(i, "failed", {}), own, srv.next)
    BY DEF CallFits, Answered
  <2> QED
    BY <2>1, <2>2, ReadFits
<1>2. CASE r \in DOMAIN srv.rows
  <2>1. n \in Nat /\ ItemsBelong(srv.rows, n) /\ ItemKeysOnce(srv.rows) /\ n <= n + 1
    BY DEF TypeInv, Tables
  <2>2. r \in Regs /\ r \in Nat /\ a.name \in Names /\ a.done \in BOOLEAN
    <3>1. calls[i] \in ToSet(calls)
      BY DEF ToSet
    <3> QED
      BY <1>2, <2>1, <3>1, BelongAt DEF TypeInv, AskOk
  <2>3. new \in Owners /\ Agree(own, new, n) /\ new[n] = r
    BY <2>1, <2>2 DEF Owners, Agree
  <2>4. item \in Items /\ item.id = n /\ item.reg = r /\ item.from = r
    BY <2>1, <2>2 DEF Items, NewItem
  <2>5. item \in Belonging(r, n + 1) /\ item \in Of(r, new, n + 1)
    BY <2>1, <2>3, <2>4 DEF Belonging, Of
  <2>6. srv' = [srv EXCEPT !.rows[r] = row, !.next = n + 1] /\ Answer(i, "ok", item)
    BY <1>2 DEF AddRow
  <2>7. /\ srv'.rows = Put(srv.rows, r, row) /\ srv'.next = n + 1 /\ srv'.tmpl = srv.tmpl
        /\ srv'.nextTmpl = srv.nextTmpl
        /\ srv' = [rows |-> srv'.rows, dropped |-> srv'.dropped, next |-> srv'.next,
                   tmpl |-> srv'.tmpl, nextTmpl |-> srv'.nextTmpl]
    BY <2>6 DEF TypeInv, Tables, Put
  <2> HIDE DEF item, new, a, r, n
  <2>8. row \in Seq(Belonging(r, n + 1))
    <3>1. srv.rows[r] \in Seq(Belonging(r, n))
      BY <1>2, <2>1, BelongAt
    <3>2. Belonging(r, n) \subseteq Belonging(r, n + 1)
      <4>1. \A k \in Nat : k < n => k < n + 1
        BY <2>1
      <4> QED
        BY <4>1 DEF Belonging, Items
    <3> QED
      BY <2>5, <3>1, <3>2
  <2>9. row \in Seq(Of(r, new, n + 1))
    <3>1. srv.rows[r] \in Seq(Of(r, own, n))
      BY <1>2 DEF Fits, Owned, n
    <3>2. srv.rows[r] \in Seq(Of(r, new, n + 1))
      <4>1. n + 1 \in Nat
        BY <2>1
      <4>2. Of(r, own, n) \subseteq Of(r, new, n + 1)
        BY <2>1, <2>3, <4>1, OfGrows
      <4> QED
        BY <3>1, <4>2
    <3> QED
      BY <2>5, <3>2
  <2>10. /\ DOMAIN srv.rows[r] = 1 .. Len(srv.rows[r]) /\ Len(srv.rows[r]) \in Nat
         /\ DOMAIN row = 1 .. Len(srv.rows[r]) + 1 /\ row[Len(srv.rows[r]) + 1] = item
         /\ \A j \in DOMAIN srv.rows[r] : row[j] = srv.rows[r][j]
    <3>1. srv.rows[r] \in Seq(Items)
      BY <1>2, <2>1, BelongAt
    <3> QED
      BY <2>4, <3>1
  <2>11. ItemsBelong(srv'.rows, n + 1) /\ ItemKeysOnce(srv'.rows)
    <3>1. \A j \in DOMAIN row : j \in DOMAIN srv.rows[r] \/ j = Len(srv.rows[r]) + 1
      BY <2>10
    <3>2. \A j \in DOMAIN srv.rows[r] : srv.rows[r][j].id < n /\ srv.rows[r][j].id \in Nat
      BY <1>2, <2>1, BelongAt DEF Belonging
    <3>3. \A j, k \in DOMAIN row : row[j].id = row[k].id => j = k
      <4>1. \A j, k \in DOMAIN srv.rows[r] :
              srv.rows[r][j].id = srv.rows[r][k].id => j = k
        BY <1>2, <2>1 DEF ItemKeysOnce
      <4>2. \A j \in DOMAIN srv.rows[r] : srv.rows[r][j].id # item.id
        BY <2>1, <2>4, <3>2
      <4> HIDE DEF row
      <4> QED
        BY <2>10, <3>1, <4>1, <4>2
    <3>4. \A j \in DOMAIN row : \/ row[j].id >= n
                                \/ \E k \in DOMAIN srv.rows[r] : row[j].id = srv.rows[r][k].id
      <4>1. item.id >= n
        BY <2>1, <2>4
      <4> HIDE DEF row
      <4> QED
        BY <2>10, <3>1, <4>1
    <3> HIDE DEF row
    <3> QED
      BY <1>2, <2>1, <2>7, <2>8, <3>3, <3>4, PutBelongs
  <2>12. Owned(srv'.rows, new, n + 1)
    <3> HIDE DEF row
    <3> QED
      BY <1>2, <2>1, <2>3, <2>7, <2>9, PutOwned DEF Fits, n
  <2>13. Tables(srv)'
    BY <2>1, <2>7, <2>11 DEF TypeInv, Tables
  <2>14. CallFits(Answered(i, "ok", item), new, n + 1)
    BY <2>5 DEF CallFits, Answered, a, r
  <2>15. /\ Agree(own, new, srv.next) /\ srv.next <= srv'.next /\ Owned(srv'.rows, new, srv'.next)
         /\ CallFits(Answered(i, "ok", item), new, srv'.next)
    BY <2>1, <2>3, <2>7, <2>12, <2>14 DEF n
  <2> QED
    BY <2>3, <2>6, <2>13, <2>15, AnswerFits
<1> QED
  BY <1>1, <1>2

LEMMA FunctionIsSeq ==
    ASSUME NEW S, NEW n \in Nat, NEW f, f = [k \in 1 .. n |-> f[k]], \A k \in 1 .. n : f[k] \in S
    PROVE  f \in Seq(S) /\ Len(f) = n
<1>1. f \in [1 .. n -> S]
  OBVIOUS
<1> QED
  BY <1>1

\* An update changes neither the key nor the registration of an item.
LEMMA ChangedStays ==
    ASSUME NEW it \in Items, NEW a, a.name \in Names, a.done \in BOOLEAN
    PROVE  /\ Changed(it, a) \in Items /\ Changed(it, a).id = it.id
           /\ Changed(it, a).reg = it.reg /\ Changed(it, a).from = it.from
BY DEF Changed, Items

\* The step replaces one registration's items by some of its own.
LEMMA PutFits ==
    ASSUME TypeInv, NEW own \in Owners, Fits(own), NEW i \in DOMAIN calls, NEW res,
           Answer(i, "ok", res), UNCHANGED <<courses, selected, open>>,
           NEW r \in DOMAIN srv.rows, NEW s \in Seq(Belonging(r, srv.next)),
           srv' = [srv EXCEPT !.rows[r] = s], s \in Seq(Of(r, own, srv.next)),
           \A j, k \in DOMAIN s : s[j].id = s[k].id => j = k,
           \A j \in DOMAIN s : \E k \in DOMAIN srv.rows[r] : s[j].id = srv.rows[r][k].id,
           CallFits(Answered(i, "ok", res), own, srv.next)
    PROVE  FitInv'
<1> DEFINE n == srv.next
<1>1. n \in Nat /\ n <= n /\ ItemsBelong(srv.rows, n) /\ ItemKeysOnce(srv.rows)
  BY DEF TypeInv, Tables
<1>2. /\ srv'.rows = Put(srv.rows, r, s) /\ srv'.next = n /\ srv'.tmpl = srv.tmpl
      /\ srv'.nextTmpl = srv.nextTmpl
      /\ srv' = [rows |-> srv'.rows, dropped |-> srv'.dropped, next |-> srv'.next,
                 tmpl |-> srv'.tmpl, nextTmpl |-> srv'.nextTmpl]
  BY DEF TypeInv, Tables, Put
<1>3. ItemsBelong(srv'.rows, n) /\ ItemKeysOnce(srv'.rows)
  <2> HIDE DEF n
  <2>1. s \in Seq(Belonging(r, n))
    BY DEF n
  <2> QED
    BY <1>1, <1>2, <2>1, PutBelongs
<1>4. Agree(own, own, n)
  BY DEF Agree
<1>5. Owned(srv'.rows, own, n)
  BY <1>1, <1>2, <1>4, PutOwned DEF Fits
<1>6. Tables(srv)'
  BY <1>1, <1>2, <1>3 DEF TypeInv, Tables
<1> QED
  BY <1>1, <1>2, <1>4, <1>5, <1>6, AnswerFits

LEMMA UpdateFits ==
    ASSUME TypeInv, NEW own \in Owners, Fits(own), NEW i \in DOMAIN calls,
           calls[i].op = "update", UpdateRow(i, calls[i].arg), UNCHANGED <<courses, selected, open>>
    PROVE  FitInv'
<1> DEFINE a == calls[i].arg
           n == srv.next
<1>1. CASE srv' = srv /\ Answer(i, "failed", {})
  <2>1. CallFits(Answered(i, "failed", {}), own, srv.next)
    BY DEF CallFits, Answered
  <2> QED
    BY <1>1, <2>1, ReadFits
<1>2. ASSUME NEW r \in Owner(a.id), NEW it \in ToSet(srv.rows[r]), it.id = a.id,
             Answer(i, "ok", Changed(it, a)),
             srv' = [srv EXCEPT !.rows[r] = [k \in DOMAIN @ |-> Changed(@[k], a)]]
      PROVE  FitInv'
  <2> DEFINE s == [k \in DOMAIN srv.rows[r] |-> Changed(srv.rows[r][k], a)]
  <2>1. r \in DOMAIN srv.rows
    BY DEF Owner
  <2>2. a.name \in Names /\ a.done \in BOOLEAN
    <3>1. calls[i] \in ToSet(calls)
      BY DEF ToSet
    <3> QED
      BY <3>1 DEF TypeInv, AskOk
  <2>3. /\ srv.rows[r] \in Seq(Items)
        /\ \A k \in DOMAIN srv.rows[r] : srv.rows[r][k] \in Belonging(r, n)
    BY <2>1, BelongAt DEF TypeInv, Tables
  <2>4. \A k \in DOMAIN srv.rows[r] : srv.rows[r][k] \in Of(r, own, n)
    BY <2>1, <2>3 DEF Fits, Owned
  <2>5. DOMAIN srv.rows[r] = 1 .. Len(srv.rows[r]) /\ Len(srv.rows[r]) \in Nat
    BY <2>3
  <2>6. ASSUME NEW k \in DOMAIN srv.rows[r]
        PROVE  /\ s[k] \in Belonging(r, n) /\ s[k] \in Of(r, own, n)
               /\ s[k].id = srv.rows[r][k].id
    <3>1. s[k] = Changed(srv.rows[r][k], a) /\ srv.rows[r][k] \in Items
      BY <2>3
    <3> HIDE DEF s, a
    <3>2. /\ s[k] \in Items /\ s[k].id = srv.rows[r][k].id
          /\ s[k].reg = srv.rows[r][k].reg /\ s[k].from = srv.rows[r][k].from
      BY <2>2, <3>1, ChangedStays
    <3> QED
      BY <2>3, <2>4, <3>2 DEF Belonging, Of
  <2>7. DOMAIN s = DOMAIN srv.rows[r]
    OBVIOUS
  <2>8. s \in Seq(Belonging(r, n)) /\ s \in Seq(Of(r, own, n))
    <3>1. s = [k \in 1 .. Len(srv.rows[r]) |-> s[k]]
      BY <2>5
    <3> HIDE DEF s, n
    <3>2. \A k \in 1 .. Len(srv.rows[r]) : s[k] \in Belonging(r, n) /\ s[k] \in Of(r, own, n)
      BY <2>5, <2>6
    <3> QED
      BY <2>5, <3>1, <3>2, FunctionIsSeq
  <2>9. srv' = [srv EXCEPT !.rows[r] = s]
    BY <1>2
  <2>10. CallFits(Answered(i, "ok", Changed(it, a)), own, n)
    <3>1. PICK k \in DOMAIN srv.rows[r] : it = srv.rows[r][k]
      BY DEF ToSet
    <3>2. Changed(it, a) = s[k] /\ s[k].reg = r
      BY <2>6, <3>1 DEF Belonging
    <3> HIDE DEF s
    <3> QED
      BY <2>6, <3>1, <3>2 DEF CallFits, Answered
  <2>11. \A j, k \in DOMAIN s : s[j].id = s[k].id => j = k
    <3>1. \A j, k \in DOMAIN srv.rows[r] : srv.rows[r][j].id = srv.rows[r][k].id => j = k
      BY <2>1 DEF TypeInv, Tables, ItemKeysOnce
    <3> HIDE DEF s
    <3> QED
      BY <2>6, <2>7, <3>1
  <2> HIDE DEF s
  <2>12. \A j \in DOMAIN s : \E k \in DOMAIN srv.rows[r] : s[j].id = srv.rows[r][k].id
    BY <2>6, <2>7
  <2> QED
    BY <1>2, <2>1, <2>8, <2>9, <2>10, <2>11, <2>12, PutFits
<1> QED
  BY <1>1, <1>2 DEF UpdateRow

LEMMA DeleteFits ==
    ASSUME TypeInv, NEW own \in Owners, Fits(own), NEW i \in DOMAIN calls,
           calls[i].op = "delete", DeleteRow(i, calls[i].arg), UNCHANGED <<courses, selected, open>>
    PROVE  FitInv'
<1> DEFINE id == calls[i].arg
           n == srv.next
<1>1. CASE srv' = srv /\ Answer(i, "failed", {})
  <2>1. CallFits(Answered(i, "failed", {}), own, srv.next)
    BY DEF CallFits, Answered
  <2> QED
    BY <1>1, <2>1, ReadFits
<1>2. ASSUME NEW r \in Owner(id), Answer(i, "ok", id),
             srv' = [srv EXCEPT !.rows[r] = Without(@, id)]
      PROVE  FitInv'
  <2> DEFINE row == srv.rows[r]
             s == Without(row, id)
             I == {k \in DOMAIN row : row[k].id # id}
  <2>1. r \in DOMAIN srv.rows /\ I \in SUBSET DOMAIN row /\ s = Entries(row, I)
    BY DEF Owner, Without
  <2>2. row \in Seq(Belonging(r, n)) /\ row \in Seq(Of(r, own, n))
    BY <2>1, BelongAt DEF TypeInv, Tables, Fits, Owned
  <2> HIDE DEF s, I
  <2>3. s \in Seq(Belonging(r, n)) /\ s \in Seq(Of(r, own, n))
    BY <2>1, <2>2, EntriesKept
  <2>4. /\ \A k \in DOMAIN s : Kth(I, k) \in DOMAIN row /\ s[k] = row[Kth(I, k)]
        /\ \A k, l \in DOMAIN s : Kth(I, k) = Kth(I, l) => k = l
    BY <2>1, <2>2, EntriesKept
  <2>5. \A j, k \in DOMAIN row : row[j].id = row[k].id => j = k
    BY <2>1 DEF TypeInv, Tables, ItemKeysOnce
  <2> HIDE DEF row
  <2>6. \A j, k \in DOMAIN s : s[j].id = s[k].id => j = k
    BY <2>4, <2>5
  <2>7. \A j \in DOMAIN s : \E k \in DOMAIN row : s[j].id = row[k].id
    BY <2>4
  <2>8. CallFits(Answered(i, "ok", id), own, n)
    BY DEF CallFits, Answered
  <2>9. srv' = [srv EXCEPT !.rows[r] = s]
    BY <1>2 DEF s, row
  <2> QED
    BY <1>2, <2>1, <2>3, <2>6, <2>7, <2>8, <2>9, PutFits DEF row
<1> QED
  BY <1>1, <1>2 DEF DeleteRow

LEMMA SyncFits ==
    ASSUME TypeInv, NEW own \in Owners, Fits(own), NEW i \in DOMAIN calls,
           calls[i].op = "sync", SyncRows(i), UNCHANGED <<courses, selected, open>>
    PROVE  FitInv'
<1> DEFINE n == srv.next
           Synced(named) == [r \in named |-> IF r \in DOMAIN srv.rows THEN srv.rows[r] ELSE <<>>]
<1>1. PICK named \in SUBSET (Regs \ srv.dropped) :
        /\ srv' = [srv EXCEPT !.rows = Synced(named),
                              !.dropped = @ \cup (DOMAIN srv.rows \ named)]
        /\ Answer(i, "ok", Synced(named))
  BY DEF SyncRows
<1> DEFINE rows == Synced(named)
<1>2. n \in Nat /\ ItemsBelong(srv.rows, n) /\ ItemKeysOnce(srv.rows)
  BY DEF TypeInv, Tables
<1>3. /\ srv'.rows = rows /\ srv'.next = n /\ srv'.tmpl = srv.tmpl
      /\ srv'.nextTmpl = srv.nextTmpl
      /\ srv' = [rows |-> srv'.rows, dropped |-> srv'.dropped, next |-> srv'.next,
                 tmpl |-> srv'.tmpl, nextTmpl |-> srv'.nextTmpl]
  BY <1>1 DEF TypeInv, Tables
<1>4. /\ DOMAIN rows = named /\ rows = [r \in DOMAIN rows |-> rows[r]] /\ named \subseteq Regs
      /\ \A r \in named : \/ r \in DOMAIN srv.rows /\ rows[r] = srv.rows[r]
                          \/ rows[r] = <<>>
  OBVIOUS
<1> HIDE DEF rows, Synced
<1>5. \A S : <<>> \in Seq(S)
  OBVIOUS
<1>6. ItemsBelong(rows, n)
  BY <1>2, <1>4, <1>5 DEF ItemsBelong
<1>7. Owned(rows, own, n)
  BY <1>4, <1>5 DEF Owned, Fits
<1>8. ItemKeysOnce(rows)
  <2>1. \A r \in named : DOMAIN rows[r] # {} => r \in DOMAIN srv.rows /\ rows[r] = srv.rows[r]
    BY <1>4
  <2> QED
    BY <1>2, <1>4, <2>1 DEF ItemKeysOnce
<1>9. Tables(srv)'
  BY <1>2, <1>3, <1>6, <1>8 DEF TypeInv, Tables
<1>10. CallFits(Answered(i, "ok", rows), own, n)
  BY <1>7 DEF CallFits, Answered
<1>11. Agree(own, own, n) /\ n <= n
  BY <1>2 DEF Agree
<1>12. Answer(i, "ok", rows)
  BY <1>1 DEF rows
<1> QED
  BY <1>3, <1>7, <1>9, <1>10, <1>11, <1>12, AnswerFits

LEMMA ImportFits ==
    ASSUME TypeInv, NEW own \in Owners, Fits(own), NEW i \in DOMAIN calls,
           calls[i].op = "import", ImportRows(i, calls[i].arg),
           UNCHANGED <<courses, selected, open>>
    PROVE  FitInv'
<1> DEFINE r == calls[i].arg.reg
           n == srv.next
<1>1. CASE srv' = srv /\ Answer(i, "failed", {})
  <2>1. CallFits(Answered(i, "failed", {}), own, srv.next)
    BY DEF CallFits, Answered
  <2> QED
    BY <1>1, <2>1, ReadFits
<1>2. ASSUME NEW t \in srv.tmpl, r \in DOMAIN srv.rows, MayImport(t, r),
             NEW items, items = [k \in DOMAIN t.names |->
                                   NewItem(n + k - 1, r, t.names[k], FALSE, t.course)],
             srv' = [srv EXCEPT !.rows[r] = items, !.next = @ + Len(t.names)],
             Answer(i, "ok", [reg |-> r, items |-> items])
      PROVE  FitInv'
  <2> DEFINE len == Len(t.names)
             m == n + len
             new == [k \in Nat |-> IF k < n THEN own[k] ELSE r]
  <2>1. n \in Nat /\ ItemsBelong(srv.rows, n) /\ ItemKeysOnce(srv.rows)
    BY DEF TypeInv, Tables
  <2>2. t.names \in Seq(Names) /\ t.course = r
    BY <1>2 DEF TypeInv, Tables, TemplateKeysOnce, MayImport
  <2>3. /\ DOMAIN t.names = 1 .. len /\ len \in Nat /\ m \in Nat /\ n <= m
        /\ \A k \in 1 .. len : t.names[k] \in Names
    BY <2>1, <2>2
  <2>4. r \in Regs /\ r \in Nat
    BY <1>2, <2>1, BelongAt
  <2>5. new \in Owners /\ Agree(own, new, n)
    BY <2>1, <2>4 DEF Owners, Agree
  <2>6. DOMAIN items = 1 .. len /\ items = [k \in 1 .. len |-> items[k]]
    BY <1>2, <2>3
  <2>7. ASSUME NEW k \in 1 .. len
        PROVE  /\ items[k].id = n + k - 1 /\ items[k] \in Belonging(r, m)
               /\ items[k] \in Of(r, new, m)
    <3>1. items[k] = NewItem(n + k - 1, r, t.names[k], FALSE, r)
      BY <1>2, <2>2, <2>3
    <3>2. n + k - 1 \in Nat /\ n + k - 1 < m /\ ~(n + k - 1 < n)
      BY <2>1, <2>3
    <3>3. items[k] \in Items
      BY <2>3, <2>4, <3>1, <3>2 DEF NewItem, Items
    <3>4. items[k].id = n + k - 1 /\ items[k].reg = r /\ items[k].from = r
      BY <3>1 DEF NewItem
    <3>5. new[n + k - 1] = r
      BY <3>2
    <3> QED
      BY <3>2, <3>3, <3>4, <3>5 DEF Belonging, Of
  <2> HIDE DEF new, len, m, r
  <2>8. items \in Seq(Belonging(r, m)) /\ items \in Seq(Of(r, new, m))
    BY <2>3, <2>6, <2>7
  <2>9. /\ srv'.rows = Put(srv.rows, r, items) /\ srv'.next = m /\ srv'.tmpl = srv.tmpl
        /\ srv'.nextTmpl = srv.nextTmpl
        /\ srv' = [rows |-> srv'.rows, dropped |-> srv'.dropped, next |-> srv'.next,
                   tmpl |-> srv'.tmpl, nextTmpl |-> srv'.nextTmpl]
    BY <1>2 DEF TypeInv, Tables, Put, m, len
  <2>10. \A j, k \in DOMAIN items : items[j].id = items[k].id => j = k
    BY <2>1, <2>3, <2>6, <2>7
  <2>11. \A j \in DOMAIN items : items[j].id >= n
    BY <2>1, <2>3, <2>6, <2>7
  <2> HIDE DEF n
  <2>12. ItemsBelong(srv'.rows, m) /\ ItemKeysOnce(srv'.rows)
    <3>1. n \in Nat /\ m \in Nat /\ n <= m /\ r \in DOMAIN srv.rows
      BY <1>2, <2>1, <2>3
    <3>2. \A j \in DOMAIN items :
            items[j].id >= n \/ \E k \in DOMAIN srv.rows[r] : items[j].id = srv.rows[r][k].id
      BY <2>11
    <3>3. /\ ItemsBelong(Put(srv.rows, r, items), m)
          /\ ItemKeysOnce(Put(srv.rows, r, items))
      BY <2>1, <2>8, <2>10, <3>1, <3>2, PutBelongs
    <3> QED
      BY <2>9, <3>3
  <2>13. Owned(srv'.rows, new, m)
    BY <1>2, <2>1, <2>3, <2>5, <2>8, <2>9, PutOwned DEF Fits, n
  <2>14. Tables(srv)'
    BY <2>3, <2>9, <2>12 DEF TypeInv, Tables
  <2>15. CallFits(Answered(i, "ok", [reg |-> r, items |-> items]), new, m)
    BY <2>8 DEF CallFits, Answered
  <2> QED
    BY <1>2, <2>3, <2>5, <2>9, <2>13, <2>14, <2>15, AnswerFits DEF n
<1> QED
  <2>1. PICK t \in srv.tmpl :
          /\ t.id = calls[i].arg.tmpl
          /\ IF r \in DOMAIN srv.rows /\ MayImport(t, r)
             THEN LET items == [k \in DOMAIN t.names |->
                                  NewItem(n + k - 1, r, t.names[k], FALSE, t.course)]
                  IN  /\ srv' = [srv EXCEPT !.rows[r] = items, !.next = @ + Len(t.names)]
                      /\ Answer(i, "ok", [reg |-> r, items |-> items])
             ELSE srv' = srv /\ Answer(i, "failed", {})
    BY DEF ImportRows
  <2>2. CASE r \in DOMAIN srv.rows /\ MayImport(t, r)
    BY <1>2, <2>1, <2>2
  <2>3. CASE ~(r \in DOMAIN srv.rows /\ MayImport(t, r))
    BY <1>1, <2>1, <2>3
  <2> QED
    BY <2>2, <2>3

\* A template is added under a new key, or its names are replaced.
LEMMA ShareFits ==
    ASSUME TypeInv, NEW own \in Owners, Fits(own), NEW i \in DOMAIN calls,
           \/ calls[i].op = "create" /\ CreateTemplate(i, calls[i].arg)
           \/ calls[i].op = "patch" /\ UpdateTemplate(i, calls[i].arg),
           UNCHANGED <<courses, selected, open>>
    PROVE  FitInv'
<1> DEFINE a == calls[i].arg
<1>1. \A stage, res : CallFits(Answered(i, stage, res), own, srv.next)
  BY DEF CallFits, Answered
<1>2. CASE srv' = srv /\ \E stage, res : Answer(i, stage, res)
  BY <1>1, <1>2, ReadFits
<1>3. a.names \in Seq(Names)
  <2>1. calls[i] \in ToSet(calls)
    BY DEF ToSet
  <2> QED
    BY <2>1 DEF TypeInv, AskOk
<1>4. ASSUME NEW tmpl, NEW next \in Nat, TemplateKeysOnce(tmpl, next),
             srv' = [srv EXCEPT !.tmpl = tmpl, !.nextTmpl = next], Answer(i, "ok", {})
      PROVE  FitInv'
  <2>1. /\ srv'.rows = srv.rows /\ srv'.next = srv.next /\ srv'.tmpl = tmpl
        /\ srv'.nextTmpl = next
        /\ srv' = [rows |-> srv'.rows, dropped |-> srv'.dropped, next |-> srv'.next,
                   tmpl |-> srv'.tmpl, nextTmpl |-> srv'.nextTmpl]
    BY <1>4 DEF TypeInv, Tables
  <2>2. Tables(srv)' /\ Owned(srv'.rows, own, srv'.next) /\ srv.next <= srv'.next
    BY <1>4, <2>1 DEF TypeInv, Tables, Fits
  <2>3. Agree(own, own, srv.next)
    BY DEF Agree
  <2> QED
    BY <1>1, <1>4, <2>1, <2>2, <2>3, AnswerFits
<1>5. TemplateKeysOnce(srv.tmpl, srv.nextTmpl) /\ srv.nextTmpl \in Nat
  BY DEF TypeInv, Tables
<1>6. CASE CreateTemplate(i, a) /\ srv' # srv
  <2> DEFINE t == [id |-> srv.nextTmpl, course |-> a.reg, own |-> TRUE, names |-> a.names]
             tmpl == srv.tmpl \cup {t}
             next == srv.nextTmpl + 1
  <2>1. srv' = [srv EXCEPT !.tmpl = tmpl, !.nextTmpl = next] /\ Answer(i, "ok", {})
    BY <1>6 DEF CreateTemplate
  <2>2. TemplateKeysOnce(tmpl, next) /\ next \in Nat
    <3>1. IsFiniteSet(tmpl)
      BY <1>5, FS_AddElement DEF TemplateKeysOnce
    <3>2. \A u \in srv.tmpl : u.id # t.id /\ u.id < next
      BY <1>5 DEF TemplateKeysOnce
    <3>3. /\ t = [id |-> t.id, course |-> t.course, own |-> t.own, names |-> t.names]
          /\ t.id \in Nat /\ t.id < next /\ t.names \in Seq(Names) /\ next \in Nat
      BY <1>3, <1>5
    <3> HIDE DEF t, next
    <3> QED
      BY <1>5, <3>1, <3>2, <3>3 DEF TemplateKeysOnce
  <2> HIDE DEF tmpl, next
  <2> QED
    BY <1>4, <2>1, <2>2
<1>7. CASE UpdateTemplate(i, a) /\ srv' # srv
  <2>1. PICK t \in srv.tmpl :
          /\ srv' = [srv EXCEPT !.tmpl = (@ \ {t}) \cup {[t EXCEPT !.names = a.names]}]
          /\ Answer(i, "ok", {})
    BY <1>7 DEF UpdateTemplate
  <2> DEFINE u == [t EXCEPT !.names = a.names]
             tmpl == (srv.tmpl \ {t}) \cup {u}
  <2>2. srv' = [srv EXCEPT !.tmpl = tmpl, !.nextTmpl = srv.nextTmpl]
    BY <2>1 DEF TypeInv, Tables
  <2>3. TemplateKeysOnce(tmpl, srv.nextTmpl)
    <3>1. IsFiniteSet(tmpl)
      BY <1>5, FS_AddElement, FS_RemoveElement DEF TemplateKeysOnce
    <3>2. /\ u = [id |-> u.id, course |-> u.course, own |-> u.own, names |-> u.names]
          /\ u.id = t.id /\ u.names \in Seq(Names)
      BY <1>3, <1>5 DEF TemplateKeysOnce
    <3>3. \A v \in srv.tmpl \ {t} : v.id # t.id
      BY <1>5 DEF TemplateKeysOnce
    <3> HIDE DEF u
    <3> QED
      BY <1>5, <3>1, <3>2, <3>3 DEF TemplateKeysOnce
  <2> HIDE DEF tmpl
  <2> QED
    BY <1>4, <1>5, <2>1, <2>2, <2>3
<1> QED
  <2>1. CreateTemplate(i, a) \/ UpdateTemplate(i, a) => \E stage, res : Answer(i, stage, res)
    BY DEF CreateTemplate, UpdateTemplate
  <2> QED
    BY <1>2, <1>6, <1>7, <2>1

\* What the service does for one call, the network to it, and a classmate meanwhile.
LEMMA ServeFits ==
    ASSUME FitInv, NEW i \in DOMAIN calls, Serve(i)
    PROVE  FitInv'
<1> USE DEF FitInv
<1>1. PICK own \in Owners : Fits(own)
  OBVIOUS
<1> DEFINE a == calls[i].arg
           op == calls[i].op
<1>2. UNCHANGED <<courses, selected, open>>
  BY DEF Serve, list
<1>3. CASE op = "load" /\ srv' = srv /\ Answer(i, "ok", srv.rows)
  <2>1. CallFits(Answered(i, "ok", srv.rows), own, srv.next)
    BY <1>1, <1>3 DEF CallFits, Answered, Fits
  <2> QED
    BY <1>1, <1>2, <1>3, <2>1, ReadFits
<1>4. ASSUME op \in {"schedule", "export", "templates", "find"}, srv' = srv,
             NEW res, Answer(i, "ok", res)
      PROVE  FitInv'
  <2>1. CallFits(Answered(i, "ok", res), own, srv.next)
    BY <1>4 DEF CallFits, Answered
  <2> QED
    BY <1>1, <1>2, <1>4, <2>1, ReadFits
<1>5. CASE \/ op = "create" /\ CreateTemplate(i, a)
           \/ op = "patch" /\ UpdateTemplate(i, a)
  BY <1>1, <1>2, <1>5, ShareFits
<1>6. CASE op = "add" /\ AddRow(i, a)
  BY <1>1, <1>2, <1>6, AddFits
<1>7. CASE op = "update" /\ UpdateRow(i, a)
  BY <1>1, <1>2, <1>7, UpdateFits
<1>8. CASE op = "delete" /\ DeleteRow(i, a)
  BY <1>1, <1>2, <1>8, DeleteFits
<1>9. CASE op = "sync" /\ SyncRows(i)
  BY <1>1, <1>2, <1>9, SyncFits
<1>10. CASE op = "import" /\ ImportRows(i, a)
  BY <1>1, <1>2, <1>10, ImportFits
<1>11. \/ op = "load" /\ srv' = srv /\ Answer(i, "ok", srv.rows)
       \/ op \in {"schedule", "export", "templates", "find"} /\ srv' = srv
            /\ \E res : Answer(i, "ok", res)
       \/ op = "create" /\ CreateTemplate(i, a)
       \/ op = "patch" /\ UpdateTemplate(i, a)
       \/ op = "add" /\ AddRow(i, a)
       \/ op = "update" /\ UpdateRow(i, a)
       \/ op = "delete" /\ DeleteRow(i, a)
       \/ op = "sync" /\ SyncRows(i)
       \/ op = "import" /\ ImportRows(i, a)
  BY DEF Serve
<1> HIDE DEF a, op
<1> QED
  BY <1>3, <1>4, <1>5, <1>6, <1>7, <1>8, <1>9, <1>10, <1>11

LEMMA FaultFits ==
    ASSUME FitInv, NEW i \in DOMAIN calls, Fault(i)
    PROVE  FitInv'
<1>1. PICK own \in Owners : Fits(own)
  BY DEF FitInv
<1>2. Answer(i, "failed", {}) /\ UNCHANGED <<srv, courses, selected, open>>
  BY DEF Fault, list
<1>3. CallFits(Answered(i, "failed", {}), own, srv.next)
  BY DEF CallFits, Answered
<1> QED
  BY <1>1, <1>2, <1>3, ReadFits DEF FitInv

LEMMA ClassmateFits ==
    ASSUME FitInv, NEW c \in Regs, ClassmateShares(c)
    PROVE  FitInv'
<1> DEFINE t == [id |-> srv.nextTmpl, course |-> c, own |-> FALSE, names |-> Setup]
           tmpl == srv.tmpl \cup {t}
           next == srv.nextTmpl + 1
<1>1. /\ srv' = [srv EXCEPT !.tmpl = tmpl, !.nextTmpl = next]
      /\ UNCHANGED <<courses, selected, open, calls>>
  BY DEF ClassmateShares, list
<1>2. TemplateKeysOnce(srv.tmpl, srv.nextTmpl) /\ srv.nextTmpl \in Nat
  BY DEF FitInv, TypeInv, Tables
<1>3. TemplateKeysOnce(tmpl, next) /\ next \in Nat
  <2>1. IsFiniteSet(tmpl)
    BY <1>2, FS_AddElement DEF TemplateKeysOnce
  <2>2. \A u \in srv.tmpl : u.id # t.id /\ u.id < next
    BY <1>2 DEF TemplateKeysOnce
  <2>3. /\ t = [id |-> t.id, course |-> t.course, own |-> t.own, names |-> t.names]
        /\ t.id \in Nat /\ t.id < next /\ t.names \in Seq(Names) /\ next \in Nat
    BY <1>2, GradeBookAssumption
  <2> HIDE DEF t, next
  <2> QED
    BY <1>2, <2>1, <2>2, <2>3 DEF TemplateKeysOnce
<1> HIDE DEF tmpl, next
<1>4. /\ srv'.rows = srv.rows /\ srv'.next = srv.next /\ srv'.tmpl = tmpl
      /\ srv'.nextTmpl = next
      /\ srv' = [rows |-> srv'.rows, dropped |-> srv'.dropped, next |-> srv'.next,
                 tmpl |-> srv'.tmpl, nextTmpl |-> srv'.nextTmpl]
  BY <1>1 DEF FitInv, TypeInv, Tables
<1>5. Tables(srv)'
  BY <1>3, <1>4 DEF FitInv, TypeInv, Tables
<1>6. TypeInv'
  BY <1>1, <1>5, CallsStand DEF FitInv, TypeInv, DialogsOk, AskOk
<1>7. \A own : Fits(own) => Fits(own)'
  BY <1>1, <1>4 DEF Fits, Owned, CallFits
<1> QED
  BY <1>6, <1>7 DEF FitInv

\* A step of the page: what it shows fits, its dialogs hold what was shown, and it makes
\* no call but for what a dialog holds.
LEMMA PageFits ==
    ASSUME FitInv, UNCHANGED srv, CallsOk', DialogsOk',
           \A c \in ToSet(calls') : c \in ToSet(calls) \/ (c.stage = "sent" /\ AskOk(c)),
           \A own \in Owners : Fits(own) => Owned(courses', own, srv.next),
           selected' \subseteq DOMAIN courses',
           \A s \in open'["share"] : s.items \in Seq(Items)
    PROVE  FitInv'
<1>1. TypeInv'
  BY DEF FitInv, TypeInv, AskOk
<1>2. PICK own \in Owners : Fits(own)
  BY DEF FitInv
<1>3. \A c \in ToSet(calls') : CallFits(c, own, srv.next)
  BY <1>2 DEF Fits, CallFits
<1>4. Fits(own)'
  BY <1>2, <1>3 DEF Fits, CallFits
<1> QED
  BY <1>1, <1>4 DEF FitInv

LEMMA LeastExists ==
    ASSUME NEW S \in SUBSET Nat, S # {}
    PROVE  Least(S) \in S /\ \A y \in S : Least(S) <= y
<1>1. PICK x \in S : \A y \in S : <<y, x>> \notin OpToRel(<, Nat)
  BY NatLessThanWellFounded, WFMin
<1>2. \A y \in S : ~(y < x)
  BY <1>1 DEF OpToRel
<1>3. \A y \in S : x <= y
  BY <1>2
<1> QED
  BY <1>3 DEF Least

\* The selected course is always one of the list.
LEMMA ShowSelects ==
    ASSUME NEW rows, DOMAIN rows \subseteq Regs, Show(rows)
    PROVE  courses' = rows /\ selected' \subseteq DOMAIN courses'
<1> DEFINE waiting == {r \in DOMAIN rows : \E i \in ToSet(rows[r]) : IsPending(i)}
<1>1. courses' = rows /\ selected' = Repaired(rows)
  BY DEF Show
<1>2. DOMAIN rows \in SUBSET Nat /\ waiting \in SUBSET Nat /\ waiting \subseteq DOMAIN rows
  BY GradeBookAssumption
<1>3. Default(rows) \subseteq DOMAIN rows
  <2>1. CASE DOMAIN rows = {}
    BY <2>1 DEF Default
  <2>2. CASE DOMAIN rows # {}
    <3>1. \/ waiting # {} /\ Default(rows) = {Least(waiting)}
          \/ Default(rows) = {Least(DOMAIN rows)}
      BY <2>2 DEF Default
    <3> HIDE DEF waiting
    <3>2. waiting # {} => Least(waiting) \in waiting
      BY <1>2, LeastExists
    <3>3. Least(DOMAIN rows) \in DOMAIN rows
      BY <1>2, <2>2, LeastExists
    <3>4. CASE waiting # {} /\ Default(rows) = {Least(waiting)}
      BY <1>2, <3>2, <3>4
    <3>5. CASE Default(rows) = {Least(DOMAIN rows)}
      BY <3>3, <3>5
    <3> QED
      BY <3>1, <3>4, <3>5
  <2> QED
    BY <2>1, <2>2
<1> QED
  BY <1>1, <1>3 DEF Repaired

\* The items of a listed course, in type.
LEMMA ShownItems ==
    ASSUME NEW own \in Owners, Fits(own), NEW r \in DOMAIN courses
    PROVE  courses[r] \in Seq(Of(r, own, srv.next)) /\ courses[r] \in Seq(Items) /\ r \in Regs
<1>1. courses[r] \in Seq(Of(r, own, srv.next)) /\ r \in Regs
  BY DEF Fits, Owned
<1>2. Of(r, own, srv.next) \subseteq Items
  BY DEF Of
<1> QED
  BY <1>1, <1>2

LEMMA NamesOfItems ==
    ASSUME NEW s \in Seq(Items)
    PROVE  NamesOf(s) \in Seq(Names)
<1> DEFINE f == NamesOf(s)
<1>1. DOMAIN s = 1 .. Len(s) /\ Len(s) \in Nat /\ \A k \in DOMAIN s : s[k].name \in Names
  <2>1. \A k \in DOMAIN s : s[k] \in Items
    OBVIOUS
  <2>2. \A it \in Items : it.name \in Names
    BY DEF Items
  <2> QED
    BY <2>1, <2>2
<1>2. f = [k \in 1 .. Len(s) |-> s[k].name]
  BY <1>1 DEF NamesOf
<1> HIDE DEF f
<1>3. f = [k \in 1 .. Len(s) |-> f[k]] /\ \A k \in 1 .. Len(s) : f[k] \in Names
  BY <1>1, <1>2
<1> QED
  BY <1>1, <1>3, FunctionIsSeq DEF f

LEMMA ClicksFit ==
    ASSUME FitInv, SpinInv, Load \/ Clicks
    PROVE  FitInv'
<1> DEFINE NewCalls == \A c \in ToSet(calls') :
                         c \in ToSet(calls) \/ (c.stage = "sent" /\ AskOk(c))
           Listed1 == \A own \in Owners : Fits(own) => Owned(courses', own, srv.next)
           Sharing == \A s \in open'["share"] : s.items \in Seq(Items)
<1>1. /\ CallsOk /\ DialogsOk /\ selected \subseteq DOMAIN courses
      /\ \A s \in open["share"] : s.items \in Seq(Items)
  BY DEF FitInv, TypeInv
<1>2. CallsOk' /\ DialogsOk'
  BY SpinClicks DEF SpinInv
<1>3. ASSUME NEW op, NEW arg, Ask(op, arg),
             AskOk([op |-> op, arg |-> arg, stage |-> "sent", res |-> {}])
      PROVE  NewCalls
  <2> DEFINE e == [op |-> op, arg |-> arg, stage |-> "sent", res |-> {}]
  <2>1. ToSet(calls') = ToSet(calls) \cup {e} /\ e.stage = "sent" /\ AskOk(e)
    BY <1>1, <1>3, AskMakes
  <2> HIDE DEF e
  <2> QED
    BY <2>1
<1>4. UNCHANGED calls => NewCalls
  OBVIOUS
<1>5. ASSUME NEW op \in {"load", "delete", "sync", "export", "templates", "import"}, NEW arg
      PROVE  AskOk([op |-> op, arg |-> arg, stage |-> "sent", res |-> {}])
  BY DEF AskOk
<1>6. UNCHANGED courses => Listed1
  BY DEF Fits
<1>7. UNCHANGED <<courses, selected>> => selected' \subseteq DOMAIN courses'
  BY <1>1
<1>8. open'["share"] \subseteq open["share"] => Sharing
  BY <1>1
<1> HIDE DEF NewCalls, Listed1, Sharing
<1>9. ASSUME NewCalls, Listed1, Sharing, selected' \subseteq DOMAIN courses', UNCHANGED srv
      PROVE  FitInv'
  BY <1>2, <1>9, PageFits DEF NewCalls, Listed1, Sharing
<1>10. CASE Load
  <2>1. Ask("load", session) /\ UNCHANGED <<srv, courses, selected, open>>
    BY <1>10 DEF Load, server, list
  <2> QED
    BY <2>1, <1>3, <1>5, <1>6, <1>7, <1>8, <1>9
<1>11. CASE SignOut
  <2>1. UNCHANGED <<srv, calls>> /\ courses' = <<>> /\ selected' = {} /\ open'["share"] = {}
    BY <1>1, <1>11 DEF SignOut, DialogsOk, Dialogs
  <2>2. Listed1
    BY <2>1 DEF Listed1, Owned
  <2> QED
    BY <2>1, <2>2, <1>4, <1>8, <1>9
<1>12. CASE SignIn \/ ToggleExclusion \/ CloseDialog \/ FillSync \/ CloseDrawer
  <2>1. UNCHANGED <<srv, courses, selected, calls>>
    BY <1>12 DEF SignIn, ToggleExclusion, CloseDialog, FillSync, CloseDrawer, Click, server, list
  <2>2. open'["share"] \subseteq open["share"]
    BY <1>1, <1>12 DEF SignIn, ToggleExclusion, CloseDialog, FillSync, CloseDrawer, Closing,
                       DialogsOk, Dialogs
  <2> QED
    BY <2>1, <2>2, <1>4, <1>6, <1>7, <1>8, <1>9
<1>13. CASE \E r \in Regs : Select(r)
  <2>1. UNCHANGED <<srv, courses, open, calls>> /\ selected' \subseteq DOMAIN courses'
    BY <1>13 DEF Select, Click, Listing
  <2> QED
    BY <2>1, <1>4, <1>6, <1>8, <1>9
<1>14. CASE OpenDialog
  <2>1. UNCHANGED <<srv, courses, selected, calls>>
    BY <1>14 DEF OpenDialog, Open, server, list
  <2>2. \/ open'["share"] \subseteq open["share"]
        \/ \E r \in selected : open'["share"] = {[reg |-> r, items |-> courses[r]]}
    BY <1>1, <1>14 DEF OpenDialog, Open, DialogsOk, Dialogs
  <2>3. \A r \in selected : courses[r] \in Seq(Items)
    BY <1>1, ShownItems DEF FitInv
  <2>4. Sharing
    BY <2>2, <2>3, <1>8 DEF Sharing
  <2> QED
    BY <2>1, <2>4, <1>4, <1>6, <1>7, <1>9
<1>15. CASE \E n \in Names, done \in BOOLEAN : Submit(n, done)
  <2>1. PICK n \in Names, done \in BOOLEAN : Submit(n, done)
    BY <1>15
  <2>2. UNCHANGED <<srv, courses, selected, open>>
    BY <2>1 DEF Submit, Click, list
  <2>3. \/ \E r : Ask("add", [reg |-> r, name |-> n, done |-> done])
        \/ \E i : Ask("update", [id |-> i.id, name |-> n, done |-> done])
    BY <2>1 DEF Submit
  <2>4. \A r : AskOk([op |-> "add", arg |-> [reg |-> r, name |-> n, done |-> done],
                      stage |-> "sent", res |-> {}])
    BY DEF AskOk
  <2>5. \A i : AskOk([op |-> "update", arg |-> [id |-> i.id, name |-> n, done |-> done],
                      stage |-> "sent", res |-> {}])
    BY DEF AskOk
  <2>6. NewCalls
    BY <2>3, <2>4, <2>5, <1>3
  <2> QED
    BY <2>2, <2>6, <1>6, <1>7, <1>8, <1>9
<1>16. CASE \/ ConfirmDelete \/ SubmitSync \/ ExportClicked \/ OpenTemplates \/ LoadMore
            \/ \E t \in ToSet(templates) : Import(t)
  <2>1. \E op \in {"load", "delete", "sync", "export", "templates", "import"} :
          \E arg : Ask(op, arg)
    BY <1>16 DEF ConfirmDelete, SubmitSync, ExportClicked, OpenTemplates, LoadMore, Import,
                 LoadTemplates
  <2>2. UNCHANGED <<srv, courses, selected>>
    BY <1>16 DEF ConfirmDelete, SubmitSync, ExportClicked, OpenTemplates, LoadMore, Import,
                 Click, list
  <2>3. open'["share"] \subseteq open["share"]
    BY <1>1, <1>16 DEF ConfirmDelete, SubmitSync, ExportClicked, OpenTemplates, LoadMore, Import,
                 Closing, DialogsOk, Dialogs
  <2> QED
    BY <2>1, <2>2, <2>3, <1>3, <1>5, <1>6, <1>7, <1>8, <1>9
<1>17. CASE Share
  <2>1. PICK s \in open["share"] :
          Ask("create", [reg |-> s.reg, names |-> NamesOf(s.items), seen |-> templates])
    BY <1>17, <1>1 DEF Share, DialogsOk, Dialogs
  <2>2. NamesOf(s.items) \in Seq(Names)
    BY <1>1, NamesOfItems
  <2>3. AskOk([op |-> "create", arg |-> [reg |-> s.reg, names |-> NamesOf(s.items),
                                         seen |-> templates], stage |-> "sent", res |-> {}])
    BY <2>2 DEF AskOk
  <2>4. UNCHANGED <<srv, courses, selected, open>>
    BY <1>17 DEF Share, Click, list
  <2> QED
    BY <2>1, <2>3, <2>4, <1>3, <1>6, <1>7, <1>8, <1>9
<1> QED
  BY <1>10, <1>11, <1>12, <1>13, <1>14, <1>15, <1>16, <1>17 DEF Clicks

\* A list made registration by registration from what is shown.
LEMMA MadeOwned ==
    ASSUME NEW own, NEW n, NEW D, NEW f, f = [r \in D |-> f[r]], D \subseteq Regs,
           \A r \in D : f[r] \in Seq(Of(r, own, n))
    PROVE  Owned(f, own, n)
BY DEF Owned

\* What the handlers make of the list, when the answer fits.
LEMMA AddShown ==
    ASSUME NEW own \in Owners, Fits(own), NEW i \in DOMAIN calls, Is(i, "add"), Ok(i),
           NEW rows, rows = [r \in DOMAIN courses |-> IF r \in Recipient(i)
                                THEN Append(courses[r], calls[i].res) ELSE courses[r]]
    PROVE  Owned(rows, own, srv.next)
<1>1. calls[i] \in ToSet(calls)
  BY DEF ToSet
<1>2. calls[i].res \in Of(calls[i].arg.reg, own, srv.next)
  BY <1>1 DEF Fits, CallFits, Is, Ok
<1>3. ASSUME NEW r \in DOMAIN courses
      PROVE  rows[r] \in Seq(Of(r, own, srv.next))
  <2>1. courses[r] \in Seq(Of(r, own, srv.next))
    BY ShownItems
  <2>2. CASE r = calls[i].arg.reg
    <3>1. rows[r] = Append(courses[r], calls[i].res)
      BY <2>2 DEF Recipient
    <3>2. calls[i].res \in Of(r, own, srv.next)
      BY <1>2, <2>2
    <3>3. Append(courses[r], calls[i].res) \in Seq(Of(r, own, srv.next))
      BY <2>1, <3>2, AppendProperties
    <3> QED
      BY <3>1, <3>3
  <2>3. CASE r # calls[i].arg.reg
    BY <2>1, <2>3 DEF Recipient
  <2> QED
    BY <2>2, <2>3
<1>4. DOMAIN courses \subseteq Regs
  BY DEF Fits, Owned
<1> QED
  BY <1>3, <1>4, MadeOwned

LEMMA UpdateShown ==
    ASSUME NEW own \in Owners, Fits(own), NEW i \in DOMAIN calls, Is(i, "update"), Ok(i),
           NEW rows, rows = [r \in DOMAIN courses |-> [k \in DOMAIN courses[r] |->
                                IF courses[r][k].id = calls[i].res.id THEN calls[i].res
                                ELSE courses[r][k]]]
    PROVE  Owned(rows, own, srv.next)
<1> DEFINE res == calls[i].res
           n == srv.next
<1>1. calls[i] \in ToSet(calls)
  BY DEF ToSet
<1>2. res \in Of(res.reg, own, n)
  BY <1>1 DEF Fits, CallFits, Is, Ok
<1> HIDE DEF res, n
<1>3. ASSUME NEW r \in DOMAIN courses
      PROVE  rows[r] \in Seq(Of(r, own, n))
  <2> DEFINE f == rows[r]
  <2>1. courses[r] \in Seq(Of(r, own, n))
    BY ShownItems DEF n
  <2>2. DOMAIN courses[r] = 1 .. Len(courses[r]) /\ Len(courses[r]) \in Nat
    BY <2>1
  <2>3. f = [k \in 1 .. Len(courses[r]) |->
               IF courses[r][k].id = res.id THEN res ELSE courses[r][k]]
    BY <2>2 DEF res
  <2> HIDE DEF f
  <2>4. ASSUME NEW k \in 1 .. Len(courses[r])
        PROVE  f[k] \in Of(r, own, n)
    <3>1. courses[r][k] \in Of(r, own, n)
      BY <2>1, <2>2
    <3>2. CASE courses[r][k].id = res.id
      <4>1. own[res.id] = r /\ own[res.id] = res.reg
        BY <1>2, <3>1, <3>2 DEF Of
      <4> QED
        BY <1>2, <2>3, <3>2, <4>1
    <3>3. CASE courses[r][k].id # res.id
      BY <2>3, <3>1, <3>3
    <3> QED
      BY <3>2, <3>3
  <2> QED
    BY <2>2, <2>3, <2>4, FunctionIsSeq DEF f
<1>4. DOMAIN courses \subseteq Regs
  BY DEF Fits, Owned
<1> QED
  BY <1>3, <1>4, MadeOwned DEF n

LEMMA DeleteShown ==
    ASSUME NEW own \in Owners, Fits(own), NEW id,
           NEW rows, rows = [r \in DOMAIN courses |-> Without(courses[r], id)]
    PROVE  Owned(rows, own, srv.next)
<1>1. ASSUME NEW r \in DOMAIN courses
      PROVE  rows[r] \in Seq(Of(r, own, srv.next))
  <2> DEFINE I == {k \in DOMAIN courses[r] : courses[r][k].id # id}
  <2>1. courses[r] \in Seq(Of(r, own, srv.next)) /\ I \in SUBSET DOMAIN courses[r]
    BY ShownItems
  <2>2. rows[r] = Entries(courses[r], I)
    BY DEF Without
  <2> HIDE DEF I
  <2> QED
    BY <2>1, <2>2, EntriesKept
<1>2. DOMAIN courses \subseteq Regs
  BY DEF Fits, Owned
<1> QED
  BY <1>1, <1>2, MadeOwned

LEMMA ImportShown ==
    ASSUME NEW own \in Owners, Fits(own), NEW i \in DOMAIN calls, Is(i, "import"), Ok(i),
           NEW rows, rows = SetItems(calls[i].res.reg, calls[i].res.items)
    PROVE  Owned(rows, own, srv.next)
<1> DEFINE q == calls[i].res.reg
           s == calls[i].res.items
<1>1. calls[i] \in ToSet(calls)
  BY DEF ToSet
<1>2. s \in Seq(Of(q, own, srv.next))
  BY <1>1 DEF Fits, CallFits, Is, Ok
<1> HIDE DEF q, s
<1>3. Owned(courses, own, srv.next)
  BY DEF Fits
<1>4. CASE q \notin DOMAIN courses
  BY <1>3, <1>4 DEF SetItems, q, s
<1>5. CASE q \in DOMAIN courses
  <2>1. rows = [courses EXCEPT ![q] = s]
    BY <1>5 DEF SetItems, q, s
  <2>2. \A r \in DOMAIN courses : rows[r] \in Seq(Of(r, own, srv.next))
    BY <1>2, <1>3, <2>1 DEF Owned
  <2>3. rows = [r \in DOMAIN courses |-> rows[r]]
    BY <2>1
  <2> QED
    BY <1>3, <2>2, <2>3, MadeOwned DEF Owned
<1> QED
  BY <1>4, <1>5

LEMMA ReturnsFit ==
    ASSUME FitInv, SpinInv, NEW i \in DOMAIN calls,
           \/ LoadReturns(i) \/ ScheduleReturns(i) \/ AddReturns(i) \/ UpdateReturns(i)
           \/ DeleteReturns(i) \/ SyncReturns(i) \/ ExportReturns(i) \/ TemplatesReturn(i)
           \/ ImportReturns(i) \/ CreateReturns(i) \/ FindReturns(i) \/ PatchReturns(i)
    PROVE  FitInv'
<1> DEFINE NewCalls == \A c \in ToSet(calls') :
                         c \in ToSet(calls) \/ (c.stage = "sent" /\ AskOk(c))
           Sharing == open'["share"] \subseteq open["share"]
           Fit(rows) == \A own \in Owners : Fits(own) => Owned(rows, own, srv.next)
           \* The two ways a handler leaves the list.
           ListStands == UNCHANGED <<courses, selected>>
           ListIs(rows) == Show(rows) /\ Fit(rows)
<1>1. /\ CallsOk /\ DialogsOk /\ selected \subseteq DOMAIN courses
      /\ \A s \in open["share"] : s.items \in Seq(Items)
  BY DEF FitInv, TypeInv
<1>2. CallsOk' /\ DialogsOk'
  BY SpinReturns DEF SpinInv
<1>3. calls[i] \in ToSet(calls) /\ \A j \in DOMAIN calls : calls[j] \in ToSet(calls)
  BY DEF ToSet
<1>4. Take(i) => NewCalls
  BY <1>1, <1>3, TakeEnds
<1>5. ASSUME NEW op, NEW arg, Then(i, op, arg),
             AskOk([op |-> op, arg |-> arg, stage |-> "sent", res |-> {}])
      PROVE  NewCalls
  <2> DEFINE e == [op |-> op, arg |-> arg, stage |-> "sent", res |-> {}]
             rest == {calls[j] : j \in DOMAIN calls \ {i}}
  <2>1. ToSet(calls') = rest \cup {e} /\ e.stage = "sent" /\ AskOk(e)
    BY <1>1, <1>5, ThenMakes
  <2>2. rest \subseteq ToSet(calls)
    BY <1>3
  <2> HIDE DEF e, rest
  <2> QED
    BY <2>1, <2>2
<1>6. UNCHANGED srv
  BY DEF LoadReturns, ScheduleReturns, AddReturns, UpdateReturns, DeleteReturns, SyncReturns,
         ExportReturns, TemplatesReturn, ImportReturns, CreateReturns, FindReturns, PatchReturns,
         server
<1>7. PICK own \in Owners : Fits(own)
  BY DEF FitInv
<1>8. ASSUME NewCalls, Sharing, ListStands
      PROVE  FitInv'
  <2>1. Fit(courses')
    BY <1>8 DEF Fits
  <2>2. selected' \subseteq DOMAIN courses' /\ \A s \in open'["share"] : s.items \in Seq(Items)
    BY <1>1, <1>8
  <2> QED
    BY <1>2, <1>6, <1>8, <2>1, <2>2, PageFits
<1>9. ASSUME NewCalls, Sharing, NEW rows, ListIs(rows)
      PROVE  FitInv'
  <2>1. DOMAIN rows \subseteq Regs
    BY <1>7, <1>9 DEF Owned
  <2>2. courses' = rows /\ selected' \subseteq DOMAIN courses'
    BY <1>9, <2>1, ShowSelects
  <2>3. \A s \in open'["share"] : s.items \in Seq(Items)
    BY <1>1, <1>9
  <2> QED
    BY <1>2, <1>6, <1>9, <2>2, <2>3, PageFits
<1> HIDE DEF NewCalls, Sharing, Fit, ListStands, ListIs
<1>10. CASE LoadReturns(i)
  <2>1. calls[i].op = "load" /\ calls[i].stage # "sent"
    BY <1>10 DEF LoadReturns, Is
  <2>2. Sharing
    BY <1>1, <1>10 DEF LoadReturns, Remounted, DialogsOk, Dialogs, Sharing
  <2>3. CASE calls[i].arg = session /\ Ok(i)
    <3>1. Show(calls[i].res) /\ Then(i, "schedule", session)
      BY <1>10, <2>3 DEF LoadReturns
    <3>2. Fit(calls[i].res)
      BY <1>3, <2>1, <2>3 DEF Fits, CallFits, Ok, Fit
    <3>3. AskOk([op |-> "schedule", arg |-> session, stage |-> "sent", res |-> {}])
      BY DEF AskOk
    <3> QED
      BY <1>5, <1>9, <2>2, <3>1, <3>2, <3>3 DEF ListIs
  <2>4. CASE ~(calls[i].arg = session /\ Ok(i))
    <3>1. Take(i) /\ ListStands
      BY <1>10, <2>4 DEF LoadReturns, list, ListStands
    <3> QED
      BY <1>4, <1>8, <2>2, <3>1
  <2> QED
    BY <2>3, <2>4
<1>11. CASE ScheduleReturns(i) \/ ExportReturns(i) \/ TemplatesReturn(i)
  <2>1. Take(i) /\ ListStands
    BY <1>11 DEF ScheduleReturns, ExportReturns, TemplatesReturn, list, ListStands
  <2>2. Sharing
    BY <1>1, <1>11 DEF ScheduleReturns, ExportReturns, TemplatesReturn, Closing, DialogsOk,
                       Dialogs, Sharing
  <2> QED
    BY <1>4, <1>8, <2>1, <2>2
<1>12. CASE \/ AddReturns(i) \/ UpdateReturns(i) \/ DeleteReturns(i)
            \/ SyncReturns(i) \/ ImportReturns(i)
  <2>1. Take(i) /\ calls[i].stage # "sent"
    BY <1>12 DEF AddReturns, UpdateReturns, DeleteReturns, SyncReturns, ImportReturns, Is
  <2>2. Sharing
    BY <1>1, <1>12 DEF AddReturns, UpdateReturns, DeleteReturns, SyncReturns, ImportReturns,
                       Closing, Remounted, DialogsOk, Dialogs, Sharing
  <2>3. CASE ~Ok(i)
    <3>1. ListStands
      BY <1>12, <2>3 DEF AddReturns, UpdateReturns, DeleteReturns, SyncReturns, ImportReturns,
                         list, ListStands
    <3> QED
      BY <1>4, <1>8, <2>1, <2>2, <3>1
  <2>4. CASE AddReturns(i) /\ Ok(i)
    <3> DEFINE rows == [r \in DOMAIN courses |-> IF r \in Recipient(i)
                          THEN Append(courses[r], calls[i].res) ELSE courses[r]]
    <3>1. Show(rows) /\ Is(i, "add")
      BY <2>4 DEF AddReturns
    <3>2. Fit(rows)
      BY <2>4, <3>1, AddShown DEF Fit
    <3> HIDE DEF rows
    <3> QED
      BY <1>4, <1>9, <2>1, <2>2, <3>1, <3>2 DEF ListIs
  <2>5. CASE UpdateReturns(i) /\ Ok(i)
    <3> DEFINE rows == [r \in DOMAIN courses |-> [k \in DOMAIN courses[r] |->
                          IF courses[r][k].id = calls[i].res.id THEN calls[i].res
                          ELSE courses[r][k]]]
    <3>1. Show(rows) /\ Is(i, "update")
      BY <2>5 DEF UpdateReturns
    <3>2. Fit(rows)
      BY <2>5, <3>1, UpdateShown DEF Fit
    <3> HIDE DEF rows
    <3> QED
      BY <1>4, <1>9, <2>1, <2>2, <3>1, <3>2 DEF ListIs
  <2>6. CASE DeleteReturns(i) /\ Ok(i)
    <3> DEFINE rows == [r \in DOMAIN courses |-> Without(courses[r], calls[i].res)]
    <3>1. Show(rows)
      BY <2>6 DEF DeleteReturns
    <3>2. Fit(rows)
      BY DeleteShown DEF Fit
    <3> HIDE DEF rows
    <3> QED
      BY <1>4, <1>9, <2>1, <2>2, <3>1, <3>2 DEF ListIs
  <2>7. CASE SyncReturns(i) /\ Ok(i)
    <3>1. Show(calls[i].res) /\ calls[i].op = "sync"
      BY <2>7 DEF SyncReturns, Is
    <3>2. Fit(calls[i].res)
      BY <1>3, <2>7, <3>1 DEF Fits, CallFits, Ok, Fit
    <3> QED
      BY <1>4, <1>9, <2>1, <2>2, <3>1, <3>2 DEF ListIs
  <2>8. CASE ImportReturns(i) /\ Ok(i)
    <3> DEFINE rows == SetItems(calls[i].res.reg, calls[i].res.items)
    <3>1. Show(rows) /\ Is(i, "import")
      BY <2>8 DEF ImportReturns
    <3>2. Fit(rows)
      BY <2>8, <3>1, ImportShown DEF Fit
    <3> HIDE DEF rows
    <3> QED
      BY <1>4, <1>9, <2>1, <2>2, <3>1, <3>2 DEF ListIs
  <2> QED
    BY <1>12, <2>3, <2>4, <2>5, <2>6, <2>7, <2>8
<1>13. CASE CreateReturns(i) \/ FindReturns(i) \/ PatchReturns(i)
  <2> DEFINE a == calls[i].arg
  <2>1. ListStands /\ calls[i].op \in {"create", "find", "patch"}
    BY <1>13 DEF CreateReturns, FindReturns, PatchReturns, list, ListStands, Is
  <2>2. a.names \in Seq(Names)
    BY <1>3, <2>1 DEF FitInv, TypeInv, AskOk
  <2>3. Sharing
    BY <1>1, <1>13 DEF CreateReturns, FindReturns, PatchReturns, Shared, Closing, DialogsOk,
                       Dialogs, Sharing
  <2>4. \/ Take(i)
        \/ \E arg : Then(i, "templates", arg)
        \/ \E k : Then(i, "patch", [reg |-> a.reg, names |-> a.names, tmpl |-> k])
        \/ Then(i, "find", a)
    BY <1>13 DEF CreateReturns, FindReturns, PatchReturns, Shared
  <2>5. \A arg : AskOk([op |-> "templates", arg |-> arg, stage |-> "sent", res |-> {}])
    BY DEF AskOk
  <2>6. \A k : AskOk([op |-> "patch", arg |-> [reg |-> a.reg, names |-> a.names, tmpl |-> k],
                      stage |-> "sent", res |-> {}])
    BY <2>2 DEF AskOk
  <2>7. AskOk([op |-> "find", arg |-> a, stage |-> "sent", res |-> {}])
    BY <2>2 DEF AskOk
  <2> HIDE DEF a
  <2>8. NewCalls
    BY <1>4, <1>5, <2>4, <2>5, <2>6, <2>7
  <2> QED
    BY <1>8, <2>1, <2>3, <2>8
<1> QED
  BY <1>10, <1>11, <1>12, <1>13

LEMMA StepsFit ==
    ASSUME SpinInv, FitInv, [Next]_vars
    PROVE  SpinInv' /\ FitInv'
<1>1. CASE Load \/ Clicks
  BY <1>1, SpinClicks, ClicksFit
<1>2. CASE Service
  BY <1>2, SpinService, ServeFits DEF Service
<1>3. CASE \E i \in DOMAIN calls : Fault(i)
  BY <1>3, SpinService, FaultFits
<1>4. CASE \E c \in Regs : ClassmateShares(c)
  BY <1>4, SpinService, ClassmateFits
<1>5. CASE Returns
  BY <1>5, SpinReturns, ReturnsFit DEF Returns
<1>6. CASE UNCHANGED vars
  <2>1. SpinInv'
    BY <1>6, SpinService
  <2>2. TypeInv'
    BY <1>6, <2>1 DEF FitInv, TypeInv, SpinInv, AskOk, vars
  <2>3. \A own : Fits(own) => Fits(own)'
    BY <1>6 DEF Fits, Owned, CallFits, vars
  <2> QED
    BY <2>1, <2>2, <2>3 DEF FitInv
<1> QED
  BY <1>1, <1>2, <1>3, <1>4, <1>5, <1>6 DEF Next

\* An answer changes the course it is for, and an import brings the setup of a template of
\* that course: whatever dialog or drawer is open by the time it arrives, whatever else is
\* under way, and also after the session changed (the setRegisteredCourses of each handler;
\* TemplatePolicy.check_import).
THEOREM AnswersReachTheirCourseForEver ==
    Spec => []AnswersReachTheirCourse
<1>1. Init => SpinInv /\ FitInv
  BY SpinInit, FitInit
<1>2. ASSUME SpinInv, FitInv, [Next]_vars
      PROVE  SpinInv' /\ FitInv'
  BY <1>2, StepsFit
<1>3. ASSUME FitInv
      PROVE  AnswersReachTheirCourse
  <2>1. PICK own \in Owners : Fits(own)
    BY <1>3 DEF FitInv
  <2>2. ASSUME NEW r \in DOMAIN courses, NEW it \in ToSet(courses[r])
        PROVE  it.reg = r
    <3>1. courses[r] \in Seq(Of(r, own, srv.next))
      BY <2>1, ShownItems
    <3>2. PICK k \in DOMAIN courses[r] : it = courses[r][k]
      BY <2>2 DEF ToSet
    <3>3. it \in Of(r, own, srv.next)
      BY <3>1, <3>2
    <3> QED
      BY <3>3 DEF Of
  <2>3. ASSUME NEW r \in DOMAIN srv.rows, NEW it \in ToSet(srv.rows[r])
        PROVE  it.from = r
    <3>1. PICK k \in DOMAIN srv.rows[r] : it = srv.rows[r][k]
      BY <2>3 DEF ToSet
    <3>2. it \in Belonging(r, srv.next)
      BY <1>3, <3>1, BelongAt DEF FitInv, TypeInv, Tables
    <3> QED
      BY <3>2 DEF Belonging
  <2> QED
    BY <2>2, <2>3 DEF AnswersReachTheirCourse, AnswersKeepTheirCourse, ImportsMatchTheCourse
<1> QED
  BY <1>1, <1>2, <1>3, PTL DEF Spec

-----------------------------------------------------------------------------
(* One click at a time.                                                    *)

Fetching == {"load", "schedule"}

\* The turns of a user who waits for every answer: one call, the loading effect before
\* any click, and none of it after the sign-out.
Turns ==
    /\ Len(calls) <= 1
    /\ ~user => calls = <<>> /\ ~hasFetched
    /\ \A c \in ToSet(calls) : /\ (c.op \in Fetching) = ~hasFetched
                               /\ c.op \in Fetching => c.arg = session

\* The list the handlers make of an answer.
Added(c) == [r \in DOMAIN courses |-> IF r \in {c.arg.reg} THEN Append(courses[r], c.res)
                                      ELSE courses[r]]
Updated(c) == [r \in DOMAIN courses |->
                 [k \in DOMAIN courses[r] |->
                    IF courses[r][k].id = c.res.id THEN c.res ELSE courses[r][k]]]
Deleted(c) == [r \in DOMAIN courses |-> Without(courses[r], c.res)]

\* The service has what the list becomes with the answer.
Becomes(c) ==
    /\ c.op = "load" => c.stage \in {"sent", "ok"}
    /\ c.stage = "ok" =>
         /\ c.op \in {"load", "sync"} => srv.rows = c.res
         /\ c.op = "add" => srv.rows = Added(c)
         /\ c.op = "update" => srv.rows = Updated(c)
         /\ c.op = "delete" => srv.rows = Deleted(c)
         /\ c.op = "import" => srv.rows = SetItems(c.res.reg, c.res.items)
    /\ \/ c.stage # "ok" /\ c.op # "load"
       \/ c.op \notin {"load", "sync", "add", "update", "delete", "import"}
       => srv.rows = courses
Same ==
    /\ calls = <<>> /\ hasFetched => courses = srv.rows
    /\ \A c \in ToSet(calls) : Becomes(c)

\* The pages of the drawer.
OnServer(t, r) == \E u \in srv.tmpl : u.id = t.id /\ u.course = r
Among(T, K) == \A t \in ToSet(T) : \E u \in K : u.id = t.id
Read(T, K, n, r) ==
    /\ IsList(T) /\ \A j, k \in DOMAIN T : T[j].id = T[k].id => j = k
    /\ IsFiniteSet(K) /\ \A t \in K : t.course = r
    /\ n \in Nat /\ Cardinality(K) <= PageSize * n
PageComes(c, r) ==
    /\ c.arg.reg = r /\ c.arg.page \in Nat \ {0}
    /\ c.stage = "ok" =>
         /\ Read(c.res.list, c.res.known, c.res.pages, r) /\ Among(c.res.list, c.res.known)
         /\ \A t \in c.res.known : OnServer(t, r)
         /\ ~c.arg.replace => Among(templates, c.res.known)
Shelf ==
    \A r \in open["drawer"] :
        /\ open["drawer"] = {r} /\ IsList(templates)
        /\ \A t \in ToSet(templates) : OnServer(t, r)
        /\ templates # <<>> => Read(templates, known, totalPages, r) /\ Among(templates, known)
        /\ \A c \in ToSet(calls) : c.op = "templates" => PageComes(c, r)

TurnsInv == habit.flight = 1 => Turns /\ Shelf
SameInv == habit.flight = 1 => habit.faults = 0 /\ Same

HabitOk == habit = [ops |-> habit.ops, flight |-> habit.flight, clicks |-> habit.clicks,
                    faults |-> habit.faults]

LEMMA Alone ==
    ASSUME CallsOk, Len(calls) <= 1
    PROVE  /\ calls = <<>> \/ Len(calls) = 1
           /\ calls = <<>> => ToSet(calls) = {} /\ DOMAIN calls = {}
           /\ \A i \in DOMAIN calls : ToSet(calls) = {calls[i]} /\ DOMAIN calls = {i}
<1>1. calls \in Seq(ToSet(calls)) /\ DOMAIN calls = 1 .. Len(calls) /\ Len(calls) \in Nat
  BY DEF CallsOk, IsList
<1>2. Len(calls) = 0 \/ Len(calls) = 1
  BY <1>1
<1>3. CASE Len(calls) = 0
  <2>1. calls = <<>> /\ DOMAIN calls = {}
    BY <1>1, <1>3
  <2> QED
    BY <2>1 DEF ToSet
<1>4. CASE Len(calls) = 1
  <2>1. DOMAIN calls = {1}
    BY <1>1, <1>4
  <2>2. calls # <<>>
    BY <1>4
  <2> QED
    BY <1>4, <2>1, <2>2 DEF ToSet
<1> QED
  BY <1>2, <1>3, <1>4

LEMMA NoCalls ==
    calls = <<>> => ToSet(calls) = {} /\ DOMAIN calls = {} /\ Len(calls) = 0
BY DEF ToSet

LEMMA AskAlone ==
    ASSUME CallsOk, calls = <<>>, NEW op, NEW arg, Ask(op, arg)
    PROVE  /\ Len(calls') = 1 /\ calls' # <<>>
           /\ ToSet(calls') = {[op |-> op, arg |-> arg, stage |-> "sent", res |-> {}]}
<1> DEFINE e == [op |-> op, arg |-> arg, stage |-> "sent", res |-> {}]
<1>1. ToSet(calls') = ToSet(calls) \cup {e}
  BY AskMakes
<1>2. ToSet(calls) = {}
  BY NoCalls
<1>3. calls' = <<e>>
  BY DEF Ask
<1> QED
  BY <1>1, <1>2, <1>3

LEMMA TakeAlone ==
    ASSUME CallsOk, Len(calls) <= 1, NEW i \in DOMAIN calls, Take(i)
    PROVE  calls' = <<>> /\ ToSet(calls') = {} /\ CallsOk'
<1>1. CallsOk' /\ Len(calls') = Len(calls) - 1 /\ Len(calls) = 1
  <2>1. calls # <<>>
    BY NoCalls
  <2> QED
    BY <2>1, Alone, TakeEnds
<1>2. CallsOk' /\ Len(calls') = 0
  BY <1>1
<1>3. calls' = <<>>
  BY <1>2 DEF CallsOk, IsList
<1> QED
  BY <1>2, <1>3 DEF ToSet

LEMMA ThenAlone ==
    ASSUME CallsOk, Len(calls) <= 1, NEW i \in DOMAIN calls, NEW op, NEW arg, Then(i, op, arg)
    PROVE  /\ Len(calls') = 1 /\ calls' # <<>>
           /\ ToSet(calls') = {[op |-> op, arg |-> arg, stage |-> "sent", res |-> {}]}
<1> DEFINE e == [op |-> op, arg |-> arg, stage |-> "sent", res |-> {}]
           rest == {calls[j] : j \in DOMAIN calls \ {i}}
<1>1. calls # <<>>
  BY NoCalls
<1>2. DOMAIN calls = {i} /\ Len(calls) = 1
  BY <1>1, Alone
<1>3. rest = {}
  BY <1>2
<1>4. ToSet(calls') = rest \cup {e} /\ Len(calls') = 1
  BY <1>2, ThenMakes
<1>5. calls' # <<>>
  BY <1>4
<1> QED
  BY <1>3, <1>4, <1>5

LEMMA AnswerAlone ==
    ASSUME CallsOk, Len(calls) <= 1, NEW i \in DOMAIN calls, NEW stage, NEW res,
           Answer(i, stage, res)
    PROVE  /\ Len(calls') = 1 /\ calls' # <<>> /\ ToSet(calls') = {Answered(i, stage, res)}
<1> DEFINE rest == {calls[j] : j \in DOMAIN calls \ {i}}
<1>1. DOMAIN calls = {i} /\ Len(calls) = 1
  <2>1. calls # <<>>
    BY NoCalls
  <2> QED
    BY <2>1, Alone
<1>2. rest = {}
  BY <1>1
<1>3. ToSet(calls') = rest \cup {Answered(i, stage, res)} /\ Len(calls') = Len(calls)
  BY AnswerGives DEF Answered
<1>4. calls' # <<>>
  BY <1>1, <1>3
<1> QED
  BY <1>1, <1>2, <1>3, <1>4

\* A click of a user who waits finds the list fetched and no call under way.
LEMMA ClickAlone ==
    ASSUME CallsOk, HabitOk, habit.flight = 1, Turns, NEW op, May(op)
    PROVE  calls = <<>> /\ user /\ hasFetched
<1>1. calls = <<>>
  <2>1. Len(calls) < 1 /\ Len(calls) <= 1
    BY DEF May, Turns
  <2> QED
    BY <2>1, Alone
<1>2. ~Loading
  BY <1>1 DEF Loading
<1> QED
  BY <1>1, <1>2 DEF May, MustLoad

\* habit.flight never changes, nor is a call lost that nobody loses.
LEMMA HabitStays ==
    ASSUME HabitOk, [Next]_vars
    PROVE  /\ HabitOk' /\ habit'.flight = habit.flight
           /\ habit'.faults = habit.faults
              \/ (habit.faults > 0 /\ \E i \in DOMAIN calls : Fault(i))
<1>1. CASE \E i \in DOMAIN calls : Fault(i)
  BY <1>1 DEF Fault, HabitOk
<1>2. CASE \E c \in Regs : ClassmateShares(c)
  BY <1>2 DEF ClassmateShares, HabitOk
<1>3. CASE UNCHANGED habit
  BY <1>3 DEF HabitOk
<1>4. CASE habit' = [habit EXCEPT !.clicks = @ - 1]
  BY <1>4 DEF HabitOk
<1>5. Load => UNCHANGED habit
  BY DEF Load, server
<1>6. Clicks => UNCHANGED habit \/ habit' = [habit EXCEPT !.clicks = @ - 1]
  BY DEF Clicks, Select, ToggleExclusion, OpenDialog, Open, CloseDialog, Submit, ConfirmDelete,
         FillSync, SubmitSync, ExportClicked, OpenTemplates, LoadMore, CloseDrawer, Import, Share,
         SignOut, SignIn, Click, server
<1>7. Service => UNCHANGED habit
  BY DEF Service, Serve
<1>8. Returns => UNCHANGED habit
  BY DEF Returns, LoadReturns, ScheduleReturns, AddReturns, UpdateReturns, DeleteReturns,
         SyncReturns, ExportReturns, TemplatesReturn, ImportReturns, CreateReturns, FindReturns,
         PatchReturns, server
<1> QED
  BY <1>1, <1>2, <1>3, <1>4, <1>5, <1>6, <1>7, <1>8 DEF Next, vars

\* The clicks that make no call, and the others.
Quiet ==
    \/ \E r \in Regs : Select(r)
    \/ ToggleExclusion \/ OpenDialog \/ CloseDialog \/ FillSync \/ CloseDrawer
Asking ==
    \/ \E n \in Names, done \in BOOLEAN : Submit(n, done)
    \/ ConfirmDelete \/ SubmitSync \/ ExportClicked \/ OpenTemplates \/ LoadMore
    \/ \E t \in ToSet(templates) : Import(t)
    \/ Share

LEMMA ClicksAre ==
    Clicks => Quiet \/ Asking \/ SignOut \/ SignIn
BY DEF Clicks, Quiet, Asking

LEMMA QuietStays ==
    Quiet => UNCHANGED <<srv, user, session, courses, hasFetched, calls, known>>
BY DEF Quiet, Select, ToggleExclusion, OpenDialog, Open, CloseDialog, FillSync, CloseDrawer,
       Click, server, page, list, drawer

Sendable == {"add", "update", "delete", "sync", "export", "templates", "import", "create"}

LEMMA AskingStays ==
    Asking => /\ UNCHANGED <<srv, user, session, courses, hasFetched, known>>
              /\ \E op : May(op)
              /\ \E op \in Sendable : \E arg : Ask(op, arg)
<1>1. Asking => UNCHANGED <<srv, user, session, courses, hasFetched, known>>
  BY DEF Asking, Submit, ConfirmDelete, SubmitSync, ExportClicked, OpenTemplates, LoadMore,
         Import, Share, Click, page, list, drawer
<1>2. Asking => \E op : May(op)
  BY DEF Asking, Submit, ConfirmDelete, SubmitSync, ExportClicked, OpenTemplates, LoadMore,
         Import, Share, OnPage
<1>3. Asking => \E op \in Sendable : \E arg : Ask(op, arg)
  BY DEF Asking, Submit, ConfirmDelete, SubmitSync, ExportClicked, OpenTemplates, LoadMore,
         Import, Share, LoadTemplates, Sendable
<1> QED
  BY <1>1, <1>2, <1>3

\* A handler takes its call from the list, or puts the next one in its place.
LEMMA ReturnsAre ==
    ASSUME NEW i \in DOMAIN calls,
           \/ LoadReturns(i) \/ ScheduleReturns(i) \/ AddReturns(i) \/ UpdateReturns(i)
           \/ DeleteReturns(i) \/ SyncReturns(i) \/ ExportReturns(i) \/ TemplatesReturn(i)
           \/ ImportReturns(i) \/ CreateReturns(i) \/ FindReturns(i) \/ PatchReturns(i)
    PROVE  /\ UNCHANGED <<srv, user, session>> /\ calls[i].stage # "sent"
           /\ UNCHANGED hasFetched \/ (hasFetched' = TRUE /\ Take(i))
           /\ \/ Take(i)
              \/ \E op \in {"patch", "find", "templates"} : \E arg :
                   Then(i, op, arg) /\ calls[i].op \in {"create", "find", "patch"}
              \/ Then(i, "schedule", session) /\ LoadReturns(i)
<1>1. CASE LoadReturns(i)
  BY <1>1 DEF LoadReturns, Is, server, page
<1>2. CASE ScheduleReturns(i)
  BY <1>2 DEF ScheduleReturns, Is, server
<1>3. CASE \/ AddReturns(i) \/ UpdateReturns(i) \/ DeleteReturns(i) \/ SyncReturns(i)
           \/ ExportReturns(i) \/ TemplatesReturn(i) \/ ImportReturns(i)
  BY <1>3 DEF AddReturns, UpdateReturns, DeleteReturns, SyncReturns, ExportReturns,
              TemplatesReturn, ImportReturns, Is, server, page
<1>4. CASE CreateReturns(i) \/ FindReturns(i) \/ PatchReturns(i)
  <2>1. UNCHANGED <<srv, user, session, hasFetched>> /\ calls[i].stage # "sent"
    BY <1>4 DEF CreateReturns, FindReturns, PatchReturns, Is, server, page
  <2>2. calls[i].op \in {"create", "find", "patch"}
    BY <1>4 DEF CreateReturns, FindReturns, PatchReturns, Is
  <2>3. Take(i) \/ \E op \in {"patch", "find", "templates"} : \E arg : Then(i, op, arg)
    BY <1>4 DEF CreateReturns, FindReturns, PatchReturns, Shared
  <2> QED
    BY <2>1, <2>2, <2>3
<1> QED
  BY <1>1, <1>2, <1>3, <1>4

LEMMA ServiceAnswers ==
    ASSUME NEW i \in DOMAIN calls, Serve(i) \/ Fault(i)
    PROVE  /\ \E stage, res : Answer(i, stage, res)
           /\ UNCHANGED <<user, session, hasFetched, courses, open, templates, totalPages, known>>
<1>1. \E stage, res : Answer(i, stage, res)
  BY DEF Serve, Fault, AddRow, UpdateRow, DeleteRow, SyncRows, ImportRows, CreateTemplate,
         UpdateTemplate
<1> QED
  BY <1>1 DEF Serve, Fault, page, list, drawer

LEMMA TurnsStay ==
    ASSUME CallsOk, HabitOk, habit.flight = 1, Turns, [Next]_vars
    PROVE  Turns'
<1>1. Len(calls) <= 1
  BY DEF Turns
<1>2. ASSUME UNCHANGED <<user, hasFetched, session, calls>>
      PROVE  Turns'
  BY <1>2 DEF Turns
<1>3. CASE Load
  <2>1. calls = <<>> /\ user /\ ~hasFetched
    <3>1. user /\ ~hasFetched /\ ~Loading
      BY <1>3 DEF Load, MustLoad
    <3>2. ASSUME NEW i \in DOMAIN calls
          PROVE  FALSE
      <4>1. calls[i] \in ToSet(calls)
        BY DEF ToSet
      <4>2. calls[i].op \in Fetching /\ calls[i].arg = session
        BY <3>1, <4>1 DEF Turns
      <4> QED
        BY <3>1, <4>2 DEF Loading, Fetching
    <3> QED
      <4>1. CASE Len(calls) = 1
        <5>1. 1 \in DOMAIN calls
          BY <4>1 DEF CallsOk, IsList
        <5> QED
          BY <3>2, <5>1
      <4> QED
        BY <1>1, <3>1, <4>1, Alone
  <2>2. Ask("load", session) /\ UNCHANGED <<user, session, hasFetched>>
    BY <1>3 DEF Load
  <2> DEFINE e == [op |-> "load", arg |-> session, stage |-> "sent", res |-> {}]
  <2>3. Len(calls') = 1 /\ ToSet(calls') = {e} /\ e.op \in Fetching /\ e.arg = session
    BY <2>1, <2>2, AskAlone DEF Fetching
  <2> HIDE DEF e
  <2> QED
    BY <2>1, <2>2, <2>3 DEF Turns
<1>4. CASE Quiet
  BY <1>2, <1>4, QuietStays
<1>5. CASE Asking
  <2>1. calls = <<>> /\ user /\ hasFetched
    BY <1>5, AskingStays, ClickAlone
  <2>2. PICK op, arg : op \in Sendable /\ Ask(op, arg)
    BY <1>5, AskingStays
  <2> DEFINE e == [op |-> op, arg |-> arg, stage |-> "sent", res |-> {}]
  <2>3. Len(calls') = 1 /\ ToSet(calls') = {e} /\ e.op \notin Fetching
    BY <2>1, <2>2, AskAlone DEF Fetching, Sendable
  <2>4. UNCHANGED <<user, session, hasFetched>>
    BY <1>5, AskingStays
  <2> HIDE DEF e
  <2> QED
    BY <2>1, <2>3, <2>4 DEF Turns
<1>6. CASE SignOut
  <2>1. calls = <<>> /\ calls' = calls /\ ~hasFetched'
    BY <1>6, ClickAlone DEF SignOut
  <2> QED
    BY <2>1, NoCalls DEF Turns
<1>7. CASE SignIn
  <2>1. calls = <<>> /\ calls' = calls /\ user'
    BY <1>7 DEF SignIn, Turns
  <2> QED
    BY <2>1, NoCalls DEF Turns
<1>8. CASE \E i \in DOMAIN calls : Serve(i) \/ Fault(i)
  <2>1. PICK i \in DOMAIN calls : Serve(i) \/ Fault(i)
    BY <1>8
  <2>2. PICK stage, res : Answer(i, stage, res)
    BY <2>1, ServiceAnswers
  <2>3. ToSet(calls') = {Answered(i, stage, res)} /\ Len(calls') = 1
    BY <1>1, <2>2, AnswerAlone
  <2>4. calls[i] \in ToSet(calls) /\ calls # <<>>
    BY NoCalls DEF ToSet
  <2>5. UNCHANGED <<user, session, hasFetched>>
    BY <2>1, ServiceAnswers
  <2> QED
    BY <2>3, <2>4, <2>5 DEF Turns, Answered
<1>9. CASE \E c \in Regs : ClassmateShares(c)
  BY <1>2, <1>9 DEF ClassmateShares, page
<1>10. CASE Returns
  <2>1. PICK i \in DOMAIN calls :
          \/ LoadReturns(i) \/ ScheduleReturns(i) \/ AddReturns(i) \/ UpdateReturns(i)
          \/ DeleteReturns(i) \/ SyncReturns(i) \/ ExportReturns(i) \/ TemplatesReturn(i)
          \/ ImportReturns(i) \/ CreateReturns(i) \/ FindReturns(i) \/ PatchReturns(i)
    BY <1>10 DEF Returns
  <2>2. calls[i] \in ToSet(calls) /\ user /\ user' /\ session' = session
    BY <2>1, NoCalls, ReturnsAre DEF ToSet, Turns
  <2>3. CASE Take(i)
    <3>1. ToSet(calls') = {} /\ calls' = <<>>
      BY <1>1, <2>3, TakeAlone
    <3> QED
      BY <2>2, <3>1 DEF Turns
  <2>4. CASE \E op \in {"patch", "find", "templates"} : \E arg :
               Then(i, op, arg) /\ calls[i].op \in {"create", "find", "patch"}
    <3>1. PICK op, arg : /\ op \in {"patch", "find", "templates"} /\ Then(i, op, arg)
                         /\ calls[i].op \in {"create", "find", "patch"}
      BY <2>4
    <3> DEFINE e == [op |-> op, arg |-> arg, stage |-> "sent", res |-> {}]
    <3>2. Len(calls') = 1 /\ calls' # <<>> /\ ToSet(calls') = {e} /\ e.op \notin Fetching
      BY <1>1, <3>1, ThenAlone DEF Fetching
    <3>3. hasFetched
      BY <2>2, <3>1 DEF Turns, Fetching
    <3>4. hasFetched'
      BY <2>1, <3>3, ReturnsAre
    <3> HIDE DEF e
    <3> QED
      BY <2>2, <3>2, <3>4 DEF Turns
  <2>5. CASE Then(i, "schedule", session) /\ LoadReturns(i)
    <3> DEFINE e == [op |-> "schedule", arg |-> session, stage |-> "sent", res |-> {}]
    <3>1. /\ Len(calls') = 1 /\ calls' # <<>> /\ ToSet(calls') = {e}
          /\ e.op \in Fetching /\ e.arg = session
      BY <1>1, <2>5, ThenAlone DEF Fetching
    <3>2. ~hasFetched
      BY <2>2, <2>5 DEF Turns, Fetching, LoadReturns, Is
    <3>3. ~Take(i)
      BY <1>1, <3>1, TakeAlone
    <3>4. ~hasFetched'
      BY <2>1, <3>2, <3>3, ReturnsAre
    <3> HIDE DEF e
    <3> QED
      BY <2>2, <3>1, <3>4 DEF Turns
  <2> QED
    BY <2>1, <2>3, <2>4, <2>5, ReturnsAre
<1>11. CASE UNCHANGED vars
  BY <1>2, <1>11 DEF vars
<1> QED
  BY <1>3, <1>4, <1>5, <1>6, <1>7, <1>8, <1>9, <1>10, <1>11, ClicksAre DEF Next, Service

\* The pages of the service.
LEMMA PagesCover ==
    ASSUME NEW n \in Nat
    PROVE  /\ (n + PageSize - 1) \div PageSize \in Nat
           /\ n <= PageSize * ((n + PageSize - 1) \div PageSize)
<1> DEFINE a == n + PageSize - 1
           q == a \div PageSize
<1>1. PageSize \in Nat /\ PageSize >= 1 /\ a \in Nat
  BY GradeBookAssumption
<1>2. q \in Nat /\ PageSize * q <= a /\ a < PageSize * q + PageSize
  <2>1. \A x \in Nat, y \in Nat : y >= 1 => /\ x \div y \in Nat /\ y * (x \div y) <= x
                                            /\ x < y * (x \div y) + y
    OBVIOUS
  <2> HIDE DEF a
  <2> QED
    BY <1>1, <2>1
<1>3. PageSize * q \in Nat
  <2> HIDE DEF q
  <2> QED
    BY <1>1, <1>2
<1>4. n <= PageSize * q
  <2> HIDE DEF q
  <2> QED
    BY <1>1, <1>2, <1>3
<1> QED
  BY <1>2, <1>4

LEMMA PastTheEnd ==
    ASSUME NEW m \in Nat, NEW n \in Nat, m \div PageSize + 1 > n
    PROVE  PageSize * n <= m
<1> DEFINE q == m \div PageSize
<1>1. PageSize \in Nat /\ PageSize >= 1
  BY GradeBookAssumption
<1>2. q \in Nat /\ PageSize * q <= m
  <2>1. \A x \in Nat, y \in Nat : y >= 1 => x \div y \in Nat /\ y * (x \div y) <= x
    OBVIOUS
  <2> QED
    BY <1>1, <2>1
<1>3. n <= q
  <2> HIDE DEF q
  <2>1. q + 1 > n
    BY DEF q
  <2> QED
    BY <1>2, <2>1
<1>4. PageSize * n <= PageSize * q
  <2> HIDE DEF q
  <2>1. \A x, y, z \in Nat : y <= z => x * y <= x * z
    OBVIOUS
  <2> QED
    BY <1>1, <1>2, <1>3, <2>1
<1>5. PageSize * n \in Nat /\ PageSize * q \in Nat
  <2> HIDE DEF q
  <2> QED
    BY <1>1, <1>2
<1> HIDE DEF q
<1> QED
  BY <1>2, <1>4, <1>5

LEMMA PageListed ==
    ASSUME Tables(srv), NEW r, NEW p \in Nat \ {0}
    PROVE  /\ Read(Listed(r, p, PageSize), TemplatesOf(r), Pages(r, PageSize), r)
           /\ Among(Listed(r, p, PageSize), TemplatesOf(r))
<1> DEFINE K == TemplatesOf(r)
           all == NewestFirst(K)
           m == (p - 1) * PageSize + 1
           last == IF p * PageSize < Len(all) THEN p * PageSize ELSE Len(all)
           s == SubSeq(all, m, last)
<1>1. /\ IsFiniteSet(K) /\ (\A t, u \in K : t.id = u.id => t = u)
      /\ \A t \in K : t.id \in Nat /\ t.course = r
  <2>1. TemplateKeysOnce(srv.tmpl, srv.nextTmpl) /\ K \subseteq srv.tmpl
    BY DEF Tables, TemplatesOf
  <2>2. IsFiniteSet(K)
    BY <2>1, FS_Subset DEF TemplateKeysOnce
  <2> QED
    BY <2>1, <2>2 DEF TemplateKeysOnce, TemplatesOf
<1> HIDE DEF K
<1>2. /\ all \in Seq(K) /\ Len(all) = Cardinality(K) /\ Len(all) \in Nat
      /\ \A j, k \in 1 .. Len(all) : all[j] = all[k] => j = k
  <2>1. \A t \in K : t.id \in Int
    BY <1>1
  <2> QED
    BY <1>1, <2>1, NewestFirstLists
<1> HIDE DEF all
<1>3. m \in Int /\ m >= 1 /\ last \in Int /\ last <= Len(all)
  <2>1. p - 1 \in Nat /\ PageSize \in Nat /\ p \in Nat
    BY GradeBookAssumption
  <2>2. (p - 1) * PageSize \in Nat /\ p * PageSize \in Nat
    BY <2>1
  <2> QED
    BY <1>2, <2>2
<1> HIDE DEF m, last
<1>4. \A k \in m .. last : k \in 1 .. Len(all) /\ all[k] \in K
  <2>1. \A k \in m .. last : k \in 1 .. Len(all)
    BY <1>2, <1>3
  <2> QED
    BY <1>2, <2>1
<1>5. /\ s \in Seq(K) /\ DOMAIN s = 1 .. Len(s) /\ Len(s) \in Nat
      /\ \A k \in 1 .. Len(s) : s[k] = all[m + k - 1] /\ m + k - 1 \in m .. last
  <2>1. /\ s \in Seq(K) /\ Len(s) = IF m <= last THEN last - m + 1 ELSE 0
        /\ \A k \in 1 .. last - m + 1 : s[k] = all[m + k - 1]
    BY <1>3, <1>4, SubSeqProperties
  <2> HIDE DEF s
  <2>2. \A k \in 1 .. Len(s) : k \in 1 .. last - m + 1
    BY <1>3, <2>1
  <2>3. \A k \in 1 .. Len(s) : m + k - 1 \in m .. last
    BY <1>3, <2>1
  <2>4. DOMAIN s = 1 .. Len(s) /\ Len(s) \in Nat
    BY <2>1
  <2> QED
    BY <2>1, <2>2, <2>3, <2>4
<1> HIDE DEF s
<1>6. ASSUME NEW j \in DOMAIN s, NEW k \in DOMAIN s, s[j].id = s[k].id
      PROVE  j = k
  <2>1. s[j] \in K /\ s[k] \in K /\ j \in Int /\ k \in Int
    BY <1>5
  <2>2. all[m + j - 1] = all[m + k - 1]
    BY <1>1, <1>5, <1>6, <2>1
  <2>3. m + j - 1 \in 1 .. Len(all) /\ m + k - 1 \in 1 .. Len(all)
    BY <1>4, <1>5
  <2>4. m + j - 1 = m + k - 1
    BY <1>2, <2>2, <2>3
  <2> QED
    BY <1>3, <2>1, <2>4
<1>7. IsList(s) /\ Among(s, K)
  <2>1. \A t \in ToSet(s) : t \in K
    BY <1>5 DEF ToSet
  <2>2. s \in Seq(ToSet(s))
    BY <1>5, ListOf DEF IsList
  <2> QED
    BY <2>1, <2>2 DEF IsList, Among
<1>8. Pages(r, PageSize) \in Nat /\ Cardinality(K) <= PageSize * Pages(r, PageSize)
  <2>1. Cardinality(K) \in Nat
    BY <1>1, FS_CardinalityType
  <2>2. Pages(r, PageSize) = (Cardinality(K) + PageSize - 1) \div PageSize
    BY DEF Pages, K
  <2> QED
    BY <2>1, <2>2, PagesCover
<1>9. s = Listed(r, p, PageSize)
  BY DEF Listed, s, all, m, last, K
<1> QED
  BY <1>1, <1>6, <1>7, <1>8, <1>9 DEF Read, K

\* A template keeps its key and its course.
LEMMA TemplatesStay ==
    ASSUME Tables(srv), [Next]_vars, NEW t, NEW r, OnServer(t, r)
    PROVE  OnServer(t, r)'
<1>1. PICK u \in srv.tmpl : u.id = t.id /\ u.course = r
  BY DEF OnServer
<1>2. ASSUME UNCHANGED srv \/ srv.tmpl \subseteq srv'.tmpl
      PROVE  OnServer(t, r)'
  BY <1>1, <1>2 DEF OnServer
<1>3. CASE \E i \in DOMAIN calls : Serve(i)
  <2>1. PICK i \in DOMAIN calls : Serve(i)
    BY <1>3
  <2>2. \/ UNCHANGED srv
        \/ AddRow(i, calls[i].arg) \/ UpdateRow(i, calls[i].arg) \/ DeleteRow(i, calls[i].arg)
        \/ SyncRows(i) \/ ImportRows(i, calls[i].arg) \/ CreateTemplate(i, calls[i].arg)
        \/ UpdateTemplate(i, calls[i].arg)
    BY <2>1 DEF Serve
  <2>3. CASE \/ AddRow(i, calls[i].arg) \/ UpdateRow(i, calls[i].arg)
             \/ DeleteRow(i, calls[i].arg) \/ SyncRows(i) \/ ImportRows(i, calls[i].arg)
    <3>1. srv'.tmpl = srv.tmpl
      BY <2>3 DEF AddRow, UpdateRow, DeleteRow, SyncRows, ImportRows, Tables
    <3> QED
      BY <1>2, <3>1
  <2>4. CASE CreateTemplate(i, calls[i].arg)
    <3>1. srv.tmpl \subseteq srv'.tmpl
      BY <2>4 DEF CreateTemplate, Tables
    <3> QED
      BY <1>2, <3>1
  <2>5. CASE UpdateTemplate(i, calls[i].arg)
    <3>1. CASE srv' = srv
      BY <1>2, <3>1
    <3>2. CASE srv' # srv
      <4>1. PICK v \in srv.tmpl : srv' = [srv EXCEPT !.tmpl = (@ \ {v}) \cup
                                            {[v EXCEPT !.names = calls[i].arg.names]}]
        BY <2>5, <3>2 DEF UpdateTemplate
      <4> DEFINE w == [v EXCEPT !.names = calls[i].arg.names]
      <4>2. srv'.tmpl = (srv.tmpl \ {v}) \cup {w}
        BY <4>1 DEF Tables
      <4>3. w.id = v.id /\ w.course = v.course
        BY DEF Tables, TemplateKeysOnce
      <4> HIDE DEF w
      <4>4. CASE u = v
        BY <1>1, <4>2, <4>3, <4>4 DEF OnServer
      <4>5. CASE u # v
        BY <1>1, <4>2, <4>5 DEF OnServer
      <4> QED
        BY <4>4, <4>5
    <3> QED
      BY <3>1, <3>2
  <2> QED
    BY <1>2, <2>2, <2>3, <2>4, <2>5
<1>4. CASE \E c \in Regs : ClassmateShares(c)
  <2>1. srv.tmpl \subseteq srv'.tmpl
    BY <1>4 DEF ClassmateShares, Tables
  <2> QED
    BY <1>2, <2>1
<1>5. CASE \E i \in DOMAIN calls : Fault(i)
  BY <1>2, <1>5 DEF Fault
<1>6. CASE Load \/ SignOut \/ SignIn \/ UNCHANGED vars
  BY <1>2, <1>6 DEF Load, SignOut, SignIn, server, vars
<1>7. CASE Quiet \/ Asking
  BY <1>2, <1>7, QuietStays, AskingStays
<1>8. CASE Returns
  BY <1>2, <1>8, ReturnsAre DEF Returns
<1> QED
  BY <1>3, <1>4, <1>5, <1>6, <1>7, <1>8, ClicksAre DEF Next, Service

\* When the list is as long as the pages the course had, it has every template of it.
LEMMA AllListed ==
    ASSUME NEW T, NEW K, NEW n, NEW r, Read(T, K, n, r), Among(T, K),
           Len(T) \div PageSize + 1 > n
    PROVE  \A t \in K : t.course = r /\ \E u \in ToSet(T) : u.id = t.id
<1> DEFINE D == 1 .. Len(T)
           f == [k \in D |-> CHOOSE u \in K : u.id = T[k].id]
<1>1. Len(T) \in Nat /\ DOMAIN T = D /\ n \in Nat /\ IsFiniteSet(K)
  BY DEF Read, IsList
<1> HIDE DEF f
<1>2. IsFiniteSet(D) /\ Cardinality(D) = Len(T) /\ Cardinality(K) \in Nat
  <2>1. Len(T) \in Nat
    BY <1>1
  <2>2. IsFiniteSet(D) /\ Cardinality(D) = Len(T)
    BY <2>1, FS_Interval
  <2> QED
    BY <1>1, <2>2, FS_CardinalityType
<1>3. ASSUME NEW k \in D
      PROVE  f[k] \in K /\ f[k].id = T[k].id /\ T[k] \in ToSet(T)
  <2> USE DEF f
  <2>1. T[k] \in ToSet(T)
    BY <1>1 DEF ToSet
  <2>2. \E u \in K : u.id = T[k].id
    BY <2>1 DEF Among
  <2> QED
    BY <2>1, <2>2
<1> HIDE DEF D
<1>4. f \in [D -> K] /\ \A j, k \in D : f[j] = f[k] => j = k
  <2>1. f \in [D -> K]
    BY <1>3 DEF f
  <2>2. \A j, k \in D : f[j] = f[k] => j = k
    BY <1>1, <1>3 DEF Read
  <2> QED
    BY <2>1, <2>2
<1>5. f \in Injection(D, K)
  BY <1>4 DEF Injection, IsInjective
<1>6. /\ Cardinality(D) <= Cardinality(K)
      /\ Cardinality(D) = Cardinality(K) => f \in Surjection(D, K)
  BY <1>1, <1>5, FS_Injection
<1>7. Cardinality(K) <= Cardinality(D)
  <2>1. PageSize * n <= Len(T) /\ Cardinality(K) <= PageSize * n
    BY <1>1, PastTheEnd DEF Read
  <2>2. PageSize * n \in Nat
    <3>1. PageSize \in Nat
      BY GradeBookAssumption
    <3> QED
      BY <1>1, <3>1
  <2> QED
    BY <1>1, <1>2, <2>1, <2>2
<1>8. f \in Surjection(D, K)
  BY <1>1, <1>2, <1>6, <1>7
<1>9. \A t \in K : \E k \in D : f[k] = t
  BY <1>8 DEF Surjection
<1> QED
  BY <1>3, <1>9 DEF Read

LEMMA ShelfStands ==
    ASSUME Tables(srv), Shelf, [Next]_vars, open'["drawer"] \subseteq open["drawer"],
           open'["drawer"] # {} => UNCHANGED <<templates, totalPages, known>>,
           \A c \in ToSet(calls') : c.op = "templates" =>
               c \in ToSet(calls) \/ \A r \in open'["drawer"] : PageComes(c, r)
    PROVE  Shelf'
<1> SUFFICES ASSUME NEW r \in open'["drawer"]
             PROVE  /\ open'["drawer"] = {r} /\ IsList(templates')
                    /\ \A t \in ToSet(templates') : OnServer(t, r)'
                    /\ templates' # <<>> => /\ Read(templates', known', totalPages', r)
                                            /\ Among(templates', known')
                    /\ \A c \in ToSet(calls') : c.op = "templates" => PageComes(c, r)'
  BY DEF Shelf, IsList, Read, Among, PageComes, OnServer
<1>1. /\ r \in open["drawer"] /\ open["drawer"] = {r} /\ IsList(templates)
      /\ \A t \in ToSet(templates) : OnServer(t, r)
      /\ templates # <<>> => Read(templates, known, totalPages, r) /\ Among(templates, known)
      /\ \A c \in ToSet(calls) : c.op = "templates" => PageComes(c, r)
  BY DEF Shelf
<1>2. UNCHANGED <<templates, totalPages, known>>
  OBVIOUS
<1>3. \A t : OnServer(t, r) => OnServer(t, r)'
  BY TemplatesStay
<1>4. open'["drawer"] = {r}
  BY <1>1
<1>5. \A t \in ToSet(templates') : OnServer(t, r)'
  BY <1>1, <1>2, <1>3
<1>6. ASSUME NEW c \in ToSet(calls'), c.op = "templates"
      PROVE  PageComes(c, r)'
  <2>1. PageComes(c, r)
    BY <1>1, <1>6
  <2> QED
    BY <1>2, <1>3, <2>1 DEF PageComes, Read, Among, IsList
<1> QED
  BY <1>1, <1>2, <1>4, <1>5, <1>6

\* The drawer opens, or starts over, on a course whose first page was just asked for.
LEMMA ShelfOpens ==
    ASSUME NEW r, open'["drawer"] = {r}, templates' = <<>>, NEW e, ToSet(calls') = {e},
           e.stage = "sent", e.arg.reg = r, e.arg.page = 1
    PROVE  Shelf'
<1>1. ToSet(templates') = {} /\ IsList(templates')
  BY DEF ToSet, IsList
<1>2. PageComes(e, r)'
  BY DEF PageComes
<1> QED
  BY <1>1, <1>2 DEF Shelf

\* What a page read adds to the list of the drawer.
LEMMA PageJoins ==
    ASSUME NEW T, NEW L, NEW K, NEW n, NEW r, IsList(T),
           \A j, k \in DOMAIN T : T[j].id = T[k].id => j = k,
           Among(T, K), Read(L, K, n, r), Among(L, K), NEW I \in SUBSET DOMAIN L,
           \A k \in I : \A p \in ToSet(T) : p.id # L[k].id
    PROVE  Read(T \o Entries(L, I), K, n, r) /\ Among(T \o Entries(L, I), K)
           /\ ToSet(T \o Entries(L, I)) \subseteq ToSet(T) \cup ToSet(L)
<1> DEFINE F == Entries(L, I)
           S == ToSet(T) \cup ToSet(L)
           J == T \o F
           a == Len(T)
           b == Len(F)
           M == ToSet(L)
<1> HIDE DEF F, J, S, a, b
<1>1. L \in Seq(M) /\ I \in SUBSET DOMAIN L
  BY DEF Read, IsList
<1>2. /\ F \in Seq(M)
      /\ \A k \in DOMAIN F : Kth(I, k) \in I /\ F[k] = L[Kth(I, k)]
      /\ \A k, l \in DOMAIN F : Kth(I, k) = Kth(I, l) => k = l
  <2> HIDE DEF M
  <2>1. F = Entries(L, I)
    BY DEF F
  <2>2. F \in Seq(M)
    BY <1>1, <2>1, EntriesKept
  <2>3. \A k \in DOMAIN F : Kth(I, k) \in I /\ F[k] = L[Kth(I, k)]
    BY <1>1, <2>1, EntriesKept
  <2>4. \A k, l \in DOMAIN F : Kth(I, k) = Kth(I, l) => k = l
    BY <1>1, <2>1, EntriesKept
  <2> QED
    BY <2>2, <2>3, <2>4
<1> USE DEF S, a, b
<1>3. /\ T \in Seq(S) /\ F \in Seq(S) /\ a \in Nat /\ b \in Nat
      /\ DOMAIN T = 1 .. a /\ DOMAIN F = 1 .. b
  BY <1>2 DEF IsList
<1>4. /\ J \in Seq(S) /\ Len(J) = a + b /\ DOMAIN J = 1 .. a + b
      /\ \A k \in 1 .. a + b : J[k] = IF k <= a THEN T[k] ELSE F[k - a]
  <2>1. /\ J \in Seq(S) /\ Len(J) = a + b
        /\ \A k \in 1 .. a + b : J[k] = IF k <= a THEN T[k] ELSE F[k - a]
    BY <1>3, ConcatProperties DEF J
  <2> HIDE DEF J
  <2>2. DOMAIN J = 1 .. a + b
    BY <2>1
  <2> QED
    BY <2>1, <2>2
<1> HIDE DEF J, a, b, S
<1>5. \A k \in DOMAIN J :
        \/ k \in DOMAIN T /\ J[k] = T[k]
        \/ k \notin DOMAIN T /\ k - a \in DOMAIN F /\ J[k] = F[k - a]
  <2> SUFFICES ASSUME NEW k \in DOMAIN J
               PROVE  \/ k \in DOMAIN T /\ J[k] = T[k]
                      \/ k \notin DOMAIN T /\ k - a \in DOMAIN F /\ J[k] = F[k - a]
    OBVIOUS
  <2>1. k \in Int /\ 1 <= k /\ k <= a + b /\ a \in Nat /\ b \in Nat
    BY <1>3, <1>4
  <2>2. CASE k <= a
    BY <1>3, <1>4, <2>1, <2>2
  <2>3. CASE ~(k <= a)
    <3>1. k \notin 1 .. a /\ k - a \in 1 .. b
      BY <2>1, <2>3
    <3> QED
      BY <1>3, <1>4, <2>3, <3>1
  <2> QED
    BY <2>2, <2>3
<1>6. ASSUME NEW k \in DOMAIN F, NEW j \in DOMAIN T
      PROVE  F[k].id # T[j].id
  <2>1. T[j] \in ToSet(T)
    BY DEF ToSet
  <2> QED
    BY <1>2, <2>1
<1>7. \A k, l \in DOMAIN F : F[k].id = F[l].id => k = l
  <2>1. \A j, k \in DOMAIN L : L[j].id = L[k].id => j = k
    BY DEF Read
  <2> SUFFICES ASSUME NEW k \in DOMAIN F, NEW l \in DOMAIN F, F[k].id = F[l].id
               PROVE  k = l
    OBVIOUS
  <2>2. Kth(I, k) \in DOMAIN L /\ Kth(I, l) \in DOMAIN L
    BY <1>1, <1>2
  <2>3. L[Kth(I, k)].id = L[Kth(I, l)].id
    BY <1>2
  <2>4. Kth(I, k) = Kth(I, l)
    BY <2>1, <2>2, <2>3
  <2> QED
    BY <1>2, <2>4
<1>8. ASSUME NEW k \in DOMAIN J, NEW l \in DOMAIN J, J[k].id = J[l].id
      PROVE  k = l
  <2>1. k \in Int /\ l \in Int /\ a \in Int
    BY <1>3, <1>4
  <2>2. CASE k \in DOMAIN T /\ l \in DOMAIN T
    BY <1>5, <1>8, <2>2
  <2>3. CASE k \in DOMAIN T /\ l \notin DOMAIN T
    BY <1>5, <1>6, <1>8, <2>3
  <2>4. CASE k \notin DOMAIN T /\ l \in DOMAIN T
    BY <1>5, <1>6, <1>8, <2>4
  <2>5. CASE k \notin DOMAIN T /\ l \notin DOMAIN T
    <3>1. k - a \in DOMAIN F /\ l - a \in DOMAIN F /\ F[k - a].id = F[l - a].id
      BY <1>5, <1>8, <2>5
    <3>2. k - a = l - a
      BY <1>7, <3>1
    <3> QED
      BY <2>1, <3>2
  <2> QED
    BY <2>2, <2>3, <2>4, <2>5
<1>9. IsList(J) /\ ToSet(J) \subseteq S
  BY <1>4, ListOf
<1>10. Among(J, K)
  <2>1. \A t \in ToSet(T) \cup ToSet(L) : \E u \in K : u.id = t.id
    BY DEF Among
  <2> QED
    BY <1>9, <2>1 DEF Among, S
<1> QED
  BY <1>8, <1>9, <1>10 DEF Read, J, F, S

LEMMA TemplatesReturnShelf ==
    ASSUME Tables(srv), CallsOk, Turns, Shelf, [Next]_vars, NEW i \in DOMAIN calls,
           TemplatesReturn(i)
    PROVE  Shelf'
<1>1. calls' = <<>> /\ ToSet(calls') = {} /\ UNCHANGED open
  <2>1. Take(i) /\ Len(calls) <= 1 /\ UNCHANGED open
    BY DEF TemplatesReturn, Turns
  <2> QED
    BY <2>1, TakeAlone
<1>2. CASE ~Ok(i)
  <2>1. UNCHANGED <<templates, totalPages, known>>
    BY <1>2 DEF TemplatesReturn
  <2> QED
    BY <1>1, <2>1, ShelfStands
<1>3. CASE Ok(i)
  <2> DEFINE res == calls[i].res
             I == {k \in DOMAIN res.list : \A p \in ToSet(templates) : p.id # res.list[k].id}
             J == templates \o Entries(res.list, I)
  <2>1. /\ templates' = IF calls[i].arg.replace THEN res.list ELSE J
        /\ totalPages' = res.pages /\ known' = res.known
    BY <1>3 DEF TemplatesReturn
  <2> SUFFICES ASSUME NEW r \in open["drawer"]
               PROVE  /\ open["drawer"] = {r} /\ IsList(templates')
                      /\ \A t \in ToSet(templates') : OnServer(t, r)'
                      /\ Read(templates', known', totalPages', r) /\ Among(templates', known')
    BY <1>1 DEF Shelf, IsList, Read, Among, OnServer
  <2>2. calls[i] \in ToSet(calls) /\ calls[i].op = "templates"
    BY DEF ToSet, TemplatesReturn, Is
  <2>3. /\ open["drawer"] = {r} /\ IsList(templates)
        /\ \A t \in ToSet(templates) : OnServer(t, r)
        /\ templates # <<>> => Read(templates, known, totalPages, r)
        /\ PageComes(calls[i], r)
    BY <2>2 DEF Shelf
  <2>4. /\ Read(res.list, res.known, res.pages, r) /\ Among(res.list, res.known)
        /\ \A t \in res.known : OnServer(t, r)
        /\ ~calls[i].arg.replace => Among(templates, res.known)
    BY <1>3, <2>3 DEF PageComes, Ok
  <2>5. \A t \in ToSet(res.list) : OnServer(t, r)
    <3>1. \A t \in ToSet(res.list) : \E u \in res.known : u.id = t.id /\ OnServer(u, r)
      BY <2>4 DEF Among
    <3> QED
      BY <3>1 DEF OnServer
  <2>6. \A t : OnServer(t, r) => OnServer(t, r)'
    BY TemplatesStay
  <2> HIDE DEF res, I
  <2>7. CASE calls[i].arg.replace
    <3>1. templates' = res.list
      BY <2>1, <2>7
    <3> QED
      BY <2>1, <2>3, <2>4, <2>5, <2>6, <3>1 DEF Read
  <2>8. CASE ~calls[i].arg.replace
    <3>1. templates' = J
      BY <2>1, <2>8
    <3>2. \A j, k \in DOMAIN templates : templates[j].id = templates[k].id => j = k
      <4>1. CASE templates = <<>>
        BY <4>1
      <4>2. CASE templates # <<>>
        BY <2>3, <4>2 DEF Read
      <4> QED
        BY <4>1, <4>2
    <3>3. /\ Read(J, res.known, res.pages, r) /\ Among(J, res.known)
          /\ ToSet(J) \subseteq ToSet(templates) \cup ToSet(res.list)
      <4>1. /\ I \in SUBSET DOMAIN res.list
            /\ \A k \in I : \A p \in ToSet(templates) : p.id # res.list[k].id
        BY DEF I
      <4> QED
        BY <2>3, <2>4, <2>8, <3>2, <4>1, PageJoins
    <3> HIDE DEF J
    <3> QED
      BY <2>1, <2>3, <2>5, <2>6, <3>1, <3>3 DEF Read
  <2> QED
    BY <2>7, <2>8
<1> QED
  BY <1>2, <1>3

LEMMA ServeShelf ==
    ASSUME Tables(srv), CallsOk, Turns, Shelf, [Next]_vars, NEW i \in DOMAIN calls,
           Serve(i) \/ Fault(i)
    PROVE  Shelf'
<1>1. UNCHANGED <<open, templates, totalPages, known>>
  BY ServiceAnswers
<1>2. Len(calls) <= 1 /\ calls[i] \in ToSet(calls)
  BY DEF Turns, ToSet
<1>3. CASE calls[i].op = "templates" /\ Serve(i)
  <2> DEFINE a == calls[i].arg
             res == [list |-> Listed(a.reg, a.page, PageSize), pages |-> Pages(a.reg, PageSize),
                     known |-> TemplatesOf(a.reg)]
             e == Answered(i, "ok", res)
  <2>1. Answer(i, "ok", res)
    BY <1>3 DEF Serve
  <2>2. ToSet(calls') = {e} /\ e.op = "templates" /\ e.arg = a /\ e.res = res
    BY <1>2, <1>3, <2>1, AnswerAlone DEF Answered
  <2>3. ASSUME NEW r \in open["drawer"]
        PROVE  PageComes(e, r)
    <3>1. PageComes(calls[i], r) /\ \A t \in ToSet(templates) : OnServer(t, r)
      BY <1>2, <1>3 DEF Shelf
    <3>2. a.reg = r /\ a.page \in Nat \ {0}
      BY <3>1 DEF PageComes
    <3>3. Read(res.list, res.known, res.pages, r) /\ Among(res.list, res.known)
      BY <3>2, PageListed
    <3>4. (\A t \in res.known : OnServer(t, r)) /\ Among(templates, res.known)
      BY <3>1, <3>2 DEF TemplatesOf, OnServer, Among
    <3> HIDE DEF res, e
    <3> QED
      BY <2>2, <3>2, <3>3, <3>4 DEF PageComes
  <2> HIDE DEF e, res
  <2> QED
    BY <1>1, <2>2, <2>3, ShelfStands
<1>4. CASE calls[i].op # "templates" /\ Serve(i)
  <2>1. PICK stage, res : Answer(i, stage, res)
    BY <1>4, ServiceAnswers
  <2>2. \A c \in ToSet(calls') : c.op # "templates"
    BY <1>2, <1>4, <2>1, AnswerAlone DEF Answered
  <2> QED
    BY <1>1, <2>2, ShelfStands
<1>5. CASE Fault(i)
  <2> DEFINE e == Answered(i, "failed", {})
  <2>1. Answer(i, "failed", {})
    BY <1>5 DEF Fault
  <2>2. ToSet(calls') = {e} /\ e.op = calls[i].op /\ e.arg = calls[i].arg /\ e.stage = "failed"
    BY <1>2, <2>1, AnswerAlone DEF Answered
  <2>3. ASSUME NEW r \in open["drawer"], calls[i].op = "templates"
        PROVE  PageComes(e, r)
    <3>1. PageComes(calls[i], r)
      BY <1>2, <2>3 DEF Shelf
    <3> HIDE DEF e
    <3> QED
      BY <2>2, <3>1 DEF PageComes
  <2> HIDE DEF e
  <2> QED
    BY <1>1, <2>2, <2>3, ShelfStands
<1> QED
  BY <1>3, <1>4, <1>5

LEMMA ReturnsShelf ==
    ASSUME Tables(srv), CallsOk, DialogsOk, Turns, Shelf, [Next]_vars, NEW i \in DOMAIN calls,
           \/ LoadReturns(i) \/ ScheduleReturns(i) \/ AddReturns(i) \/ UpdateReturns(i)
           \/ DeleteReturns(i) \/ SyncReturns(i) \/ ExportReturns(i) \/ TemplatesReturn(i)
           \/ ImportReturns(i) \/ CreateReturns(i) \/ FindReturns(i) \/ PatchReturns(i)
    PROVE  Shelf'
<1>1. Len(calls) <= 1
  BY DEF Turns
<1>2. Take(i) => \A c \in ToSet(calls') : c.op # "templates"
  BY <1>1, TakeAlone
<1>3. ASSUME NEW op, NEW arg, Then(i, op, arg), op # "templates"
      PROVE  \A c \in ToSet(calls') : c.op # "templates"
  BY <1>1, <1>3, ThenAlone
<1>4. CASE LoadReturns(i)
  <2>1. open'["drawer"] = open["drawer"] /\ UNCHANGED <<templates, totalPages, known>>
    BY <1>4 DEF LoadReturns, Remounted, DialogsOk, Dialogs, drawer
  <2>2. Take(i) \/ Then(i, "schedule", session)
    BY <1>4 DEF LoadReturns
  <2> QED
    BY <1>2, <1>3, <2>1, <2>2, ShelfStands
<1>5. CASE \/ ScheduleReturns(i) \/ AddReturns(i) \/ UpdateReturns(i) \/ DeleteReturns(i)
           \/ SyncReturns(i) \/ ExportReturns(i)
  <2>1. Take(i) /\ UNCHANGED <<templates, totalPages, known>>
    BY <1>5 DEF ScheduleReturns, AddReturns, UpdateReturns, DeleteReturns, SyncReturns,
                ExportReturns, drawer
  <2>2. open'["drawer"] = open["drawer"]
    BY <1>5 DEF ScheduleReturns, AddReturns, UpdateReturns, DeleteReturns, SyncReturns,
                ExportReturns, Closing, Remounted, DialogsOk, Dialogs
  <2> QED
    BY <1>2, <2>1, <2>2, ShelfStands
<1>6. CASE TemplatesReturn(i)
  BY <1>6, TemplatesReturnShelf
<1>7. CASE ImportReturns(i)
  <2>1. Take(i) /\ UNCHANGED known
    BY <1>7 DEF ImportReturns
  <2>2. \/ open'["drawer"] = {}
        \/ open' = open /\ UNCHANGED <<templates, totalPages>>
    BY <1>7 DEF ImportReturns, Closing, DialogsOk, Dialogs
  <2> QED
    BY <1>2, <2>1, <2>2, ShelfStands
<1>8. CASE CreateReturns(i) \/ FindReturns(i) \/ PatchReturns(i)
  <2>1. \/ Shared(i)
        \/ /\ Take(i) \/ \E op \in {"patch", "find"} : \E arg : Then(i, op, arg)
           /\ UNCHANGED <<open, templates, totalPages, known>>
    BY <1>8 DEF CreateReturns, FindReturns, PatchReturns, drawer
  <2>2. CASE Shared(i) /\ open["drawer"] = {calls[i].arg.reg}
    <3> DEFINE r == calls[i].arg.reg
               arg == [reg |-> r, page |-> 1, replace |-> TRUE]
               e == [op |-> "templates", arg |-> arg, stage |-> "sent", res |-> {}]
    <3>1. Then(i, "templates", arg) /\ templates' = <<>>
      BY <2>2 DEF Shared
    <3>2. open'["drawer"] = {r}
      BY <2>2 DEF Shared, Closing, DialogsOk, Dialogs
    <3>3. ToSet(calls') = {e} /\ e.stage = "sent" /\ e.arg.reg = r /\ e.arg.page = 1
      BY <1>1, <3>1, ThenAlone
    <3> HIDE DEF e, arg, r
    <3> QED
      BY <3>1, <3>2, <3>3, ShelfOpens
  <2>3. CASE Shared(i) /\ open["drawer"] # {calls[i].arg.reg}
    <3>1. Take(i) /\ UNCHANGED <<templates, totalPages, known>>
      BY <2>3 DEF Shared, drawer
    <3>2. open'["drawer"] = open["drawer"]
      BY <2>3 DEF Shared, Closing, DialogsOk, Dialogs
    <3> QED
      BY <1>2, <3>1, <3>2, ShelfStands
  <2>4. CASE /\ Take(i) \/ \E op \in {"patch", "find"} : \E arg : Then(i, op, arg)
             /\ UNCHANGED <<open, templates, totalPages, known>>
    <3>1. \A c \in ToSet(calls') : c.op # "templates"
      BY <1>2, <1>3, <2>4
    <3> QED
      BY <2>4, <3>1, ShelfStands
  <2> QED
    BY <2>1, <2>2, <2>3, <2>4
<1> QED
  BY <1>4, <1>5, <1>6, <1>7, <1>8

LEMMA ShelfStays ==
    ASSUME Tables(srv), CallsOk, DialogsOk, HabitOk, habit.flight = 1, Turns, Shelf, [Next]_vars
    PROVE  Shelf'
<1>1. CASE Load
  <2>1. Ask("load", session) /\ UNCHANGED <<open, templates, totalPages, known>>
    BY <1>1 DEF Load, drawer
  <2>2. \A c \in ToSet(calls') : c \in ToSet(calls) \/ c.op = "load"
    BY <2>1, AskMakes
  <2> QED
    BY <2>1, <2>2, ShelfStands
<1>2. CASE Quiet
  <2>1. UNCHANGED <<calls, known>>
    BY <1>2, QuietStays
  <2>2. \/ open'["drawer"] = open["drawer"] /\ UNCHANGED <<templates, totalPages>>
        \/ open'["drawer"] = {}
    <3>1. CASE CloseDrawer
      BY <3>1 DEF CloseDrawer, Closing, DialogsOk, Dialogs
    <3>2. CASE \/ \E r \in Regs : Select(r)
               \/ ToggleExclusion \/ OpenDialog \/ CloseDialog \/ FillSync
      <4>1. UNCHANGED <<templates, totalPages>>
        BY <3>2 DEF Select, ToggleExclusion, OpenDialog, Open, CloseDialog, FillSync, drawer
      <4>2. open'["drawer"] = open["drawer"]
        BY <3>2 DEF Select, ToggleExclusion, OpenDialog, Open, CloseDialog, FillSync, Closing,
                    DialogsOk, Dialogs
      <4> QED
        BY <4>1, <4>2
    <3> QED
      BY <1>2, <3>1, <3>2 DEF Quiet
  <2> QED
    BY <2>1, <2>2, ShelfStands
<1>3. CASE Asking
  <2>1. calls = <<>>
    BY <1>3, AskingStays, ClickAlone
  <2>2. CASE OpenTemplates
    <3>1. PICK r \in selected : /\ LoadTemplates(r, 1, TRUE)
                                /\ open' = [open EXCEPT !.drawer = {r}]
      BY <2>2 DEF OpenTemplates
    <3> DEFINE arg == [reg |-> r, page |-> 1, replace |-> TRUE]
               e == [op |-> "templates", arg |-> arg, stage |-> "sent", res |-> {}]
    <3>2. Ask("templates", arg)
      BY <3>1 DEF LoadTemplates
    <3>3. ToSet(calls') = {e} /\ e.stage = "sent" /\ e.arg.reg = r /\ e.arg.page = 1
      BY <2>1, <3>2, AskAlone
    <3>4. open'["drawer"] = {r} /\ templates' = <<>>
      BY <2>2, <3>1 DEF OpenTemplates, DialogsOk, Dialogs
    <3> HIDE DEF e, arg
    <3> QED
      BY <3>3, <3>4, ShelfOpens
  <2>3. CASE LoadMore
    <3>1. PICK r \in open.drawer : LoadTemplates(r, NextPage, FALSE)
      BY <2>3 DEF LoadMore
    <3> DEFINE arg == [reg |-> r, page |-> NextPage, replace |-> FALSE]
               e == [op |-> "templates", arg |-> arg, stage |-> "sent", res |-> {}]
    <3>2. Ask("templates", arg) /\ UNCHANGED <<open, templates, totalPages, known>>
      BY <2>3, <3>1 DEF LoadTemplates, LoadMore
    <3>3. ToSet(calls') = {e} /\ e.stage = "sent" /\ e.arg.reg = r /\ e.arg.page = NextPage
      BY <2>1, <3>2, AskAlone
    <3>4. open["drawer"] = {r} /\ IsList(templates)
      BY <3>1 DEF Shelf
    <3>5. NextPage \in Nat \ {0}
      <4>1. Len(templates) \in Nat /\ PageSize \in Nat /\ PageSize >= 1
        BY <3>4, GradeBookAssumption DEF IsList
      <4>2. \A x, y \in Nat : y >= 1 => x \div y \in Nat
        OBVIOUS
      <4>3. Len(templates) \div PageSize \in Nat
        BY <4>1, <4>2
      <4> QED
        BY <4>3 DEF NextPage
    <3> HIDE DEF e, arg
    <3>6. PageComes(e, r)
      BY <3>3, <3>5 DEF PageComes
    <3> QED
      BY <3>2, <3>3, <3>4, <3>6, ShelfStands
  <2>4. CASE \/ \E n \in Names, done \in BOOLEAN : Submit(n, done)
             \/ ConfirmDelete \/ SubmitSync \/ ExportClicked
             \/ \E t \in ToSet(templates) : Import(t)
             \/ Share
    <3>1. PICK op, arg : op \in Sendable \ {"templates"} /\ Ask(op, arg)
      BY <2>4 DEF Submit, ConfirmDelete, SubmitSync, ExportClicked, Import, Share, Sendable
    <3>2. \A c \in ToSet(calls') : c.op # "templates"
      BY <2>1, <3>1, AskAlone
    <3>3. UNCHANGED <<templates, totalPages, known>>
      BY <2>4 DEF Submit, ConfirmDelete, SubmitSync, ExportClicked, Import, Share, drawer
    <3>4. open'["drawer"] = open["drawer"]
      BY <2>4 DEF Submit, ConfirmDelete, SubmitSync, ExportClicked, Import, Share, Closing,
                  DialogsOk, Dialogs
    <3> QED
      BY <3>2, <3>3, <3>4, ShelfStands
  <2> QED
    BY <1>3, <2>2, <2>3, <2>4 DEF Asking
<1>4. CASE SignOut
  <2>1. open'["drawer"] = {}
    BY <1>4 DEF SignOut, DialogsOk, Dialogs
  <2> QED
    BY <2>1 DEF Shelf
<1>5. CASE SignIn \/ (\E c \in Regs : ClassmateShares(c)) \/ UNCHANGED vars
  <2>1. UNCHANGED <<open, templates, totalPages, known, calls>>
    BY <1>5 DEF SignIn, ClassmateShares, vars, drawer
  <2> QED
    BY <2>1, ShelfStands
<1>6. CASE \E i \in DOMAIN calls : Serve(i) \/ Fault(i)
  BY <1>6, ServeShelf
<1>7. CASE Returns
  BY <1>7, ReturnsShelf DEF Returns
<1> QED
  BY <1>1, <1>2, <1>3, <1>4, <1>5, <1>6, <1>7, ClicksAre DEF Next, Service

\* What the service has, as a function of its registrations.
LEMMA RowsAre ==
    ASSUME Tables(srv)
    PROVE  /\ srv.rows = [r \in DOMAIN srv.rows |-> srv.rows[r]]
           /\ \A r \in DOMAIN srv.rows :
                /\ srv.rows[r] \in Seq(Items) /\ DOMAIN srv.rows[r] = 1 .. Len(srv.rows[r])
                /\ srv.rows[r] = [k \in DOMAIN srv.rows[r] |-> srv.rows[r][k]]
<1>1. ItemsBelong(srv.rows, srv.next)
  BY DEF Tables
<1>2. ASSUME NEW r \in DOMAIN srv.rows
      PROVE  /\ srv.rows[r] \in Seq(Items) /\ DOMAIN srv.rows[r] = 1 .. Len(srv.rows[r])
             /\ srv.rows[r] = [k \in DOMAIN srv.rows[r] |-> srv.rows[r][k]]
  <2>1. srv.rows[r] \in Seq(Items)
    BY <1>1, BelongAt
  <2> QED
    BY <2>1
<1> QED
  BY <1>1, <1>2 DEF ItemsBelong

\* A list put together registration by registration is the one after a change to one.
LEMMA PutIs ==
    ASSUME NEW rows, rows = [r \in DOMAIN rows |-> rows[r]], NEW q \in DOMAIN rows, NEW s,
           NEW f, f = [r \in DOMAIN rows |-> f[r]], f[q] = s,
           \A r \in DOMAIN rows : r # q => f[r] = rows[r]
    PROVE  f = Put(rows, q, s)
<1> DEFINE new == Put(rows, q, s)
<1>1. new = [r \in DOMAIN rows |-> IF r = q THEN s ELSE rows[r]]
  BY DEF Put
<1>2. \A r \in DOMAIN rows : f[r] = new[r]
  BY <1>1
<1> HIDE DEF new
<1>3. new = [r \in DOMAIN rows |-> new[r]]
  BY <1>1
<1>4. f = new
  BY <1>2, <1>3
<1> QED
  BY <1>4 DEF new

LEMMA AddSame ==
    ASSUME Tables(srv), NEW i \in DOMAIN calls, srv.rows = courses, UNCHANGED courses,
           NEW item, NEW r, r = calls[i].arg.reg, r \in DOMAIN srv.rows,
           srv'.rows = Put(srv.rows, r, Append(srv.rows[r], item)),
           NEW c, c.arg.reg = r, c.res = item
    PROVE  srv'.rows = Added(c)'
<1> DEFINE f == [q \in DOMAIN courses |-> IF q \in {c.arg.reg} THEN Append(courses[q], c.res)
                                          ELSE courses[q]]
<1>1. f = Added(c)'
  BY DEF Added
<1> DEFINE s == Append(srv.rows[r], item)
<1>2. /\ f = [q \in DOMAIN srv.rows |-> f[q]] /\ f[r] = s
      /\ \A q \in DOMAIN srv.rows : q # r => f[q] = srv.rows[q]
  OBVIOUS
<1> HIDE DEF f, s
<1>3. f = Put(srv.rows, r, s)
  BY <1>2, RowsAre, PutIs
<1> QED
  BY <1>1, <1>3 DEF s

LEMMA UpdateSame ==
    ASSUME Tables(srv), srv.rows = courses, UNCHANGED courses,
           NEW r \in DOMAIN srv.rows, NEW it \in ToSet(srv.rows[r]), NEW a, it.id = a.id,
           srv'.rows = Put(srv.rows, r,
                           [k \in DOMAIN srv.rows[r] |-> Changed(srv.rows[r][k], a)]),
           a.name \in Names, a.done \in BOOLEAN, NEW c, c.res = Changed(it, a)
    PROVE  srv'.rows = Updated(c)'
<1> DEFINE Row(q) == [k \in DOMAIN courses[q] |->
                        IF courses[q][k].id = c.res.id THEN c.res ELSE courses[q][k]]
           f == [q \in DOMAIN courses |-> Row(q)]
           s == [k \in DOMAIN srv.rows[r] |-> Changed(srv.rows[r][k], a)]
<1>1. f = Updated(c)'
  BY DEF Updated
<1>2. PICK j \in DOMAIN srv.rows[r] : it = srv.rows[r][j]
  BY DEF ToSet
<1>3. it \in Items /\ c.res.id = a.id
  <2>1. it \in Items
    BY <1>2, RowsAre
  <2> QED
    BY <2>1, ChangedStays
<1>4. \A q \in DOMAIN srv.rows : \A k \in DOMAIN srv.rows[q] :
        srv.rows[q][k].id = a.id => q = r /\ k = j
  BY <1>2 DEF Tables, ItemKeysOnce
<1>5. Row(r) = s
  <2>1. ASSUME NEW k \in DOMAIN srv.rows[r]
        PROVE  Changed(srv.rows[r][k], a) =
                 IF courses[r][k].id = c.res.id THEN c.res ELSE courses[r][k]
    <3>1. CASE srv.rows[r][k].id = a.id
      <4>1. srv.rows[r][k] = it
        BY <1>2, <1>4, <3>1
      <4> QED
        BY <1>3, <3>1, <4>1
    <3>2. CASE srv.rows[r][k].id # a.id
      BY <1>3, <3>2 DEF Changed
    <3> QED
      BY <3>1, <3>2
  <2> QED
    BY <2>1
<1>6. ASSUME NEW q \in DOMAIN srv.rows, q # r
      PROVE  Row(q) = srv.rows[q]
  <2>1. \A k \in DOMAIN srv.rows[q] : courses[q][k].id # c.res.id
    BY <1>3, <1>4, <1>6
  <2>2. Row(q) = [k \in DOMAIN srv.rows[q] |-> srv.rows[q][k]]
    BY <2>1
  <2> QED
    BY <2>2, RowsAre
<1>7. /\ f = [q \in DOMAIN srv.rows |-> f[q]] /\ f[r] = s
      /\ \A q \in DOMAIN srv.rows : q # r => f[q] = srv.rows[q]
  <2> HIDE DEF Row, s
  <2> QED
    BY <1>5, <1>6
<1> HIDE DEF f, s, Row
<1>8. f = Put(srv.rows, r, s)
  BY <1>7, RowsAre, PutIs
<1> QED
  BY <1>1, <1>8 DEF s

LEMMA DeleteSame ==
    ASSUME Tables(srv), srv.rows = courses, UNCHANGED courses, NEW id, NEW r \in Owner(id),
           srv'.rows = Put(srv.rows, r, Without(srv.rows[r], id)),
           NEW c, c.res = id
    PROVE  srv'.rows = Deleted(c)'
<1> DEFINE f == [q \in DOMAIN courses |-> Without(courses[q], c.res)]
<1>1. f = Deleted(c)'
  BY DEF Deleted
<1>2. PICK j \in DOMAIN srv.rows[r] : srv.rows[r][j].id = id
  BY DEF Owner, ToSet
<1>3. r \in DOMAIN srv.rows
  BY DEF Owner
<1>4. ASSUME NEW q \in DOMAIN srv.rows, q # r
      PROVE  Without(srv.rows[q], id) = srv.rows[q]
  <2>1. \A k \in DOMAIN srv.rows[q] : srv.rows[q][k].id # id
    BY <1>2, <1>3, <1>4 DEF Tables, ItemKeysOnce
  <2>2. {k \in DOMAIN srv.rows[q] : srv.rows[q][k].id # id} = DOMAIN srv.rows[q]
    BY <2>1
  <2>3. srv.rows[q] \in Seq(Items)
    BY RowsAre
  <2> QED
    BY <2>2, <2>3, EntriesOfAll DEF Without
<1>5. /\ f = [q \in DOMAIN srv.rows |-> f[q]] /\ f[r] = Without(srv.rows[r], id)
      /\ \A q \in DOMAIN srv.rows : q # r => f[q] = srv.rows[q]
  BY <1>3, <1>4
<1> HIDE DEF f
<1>6. f = Put(srv.rows, r, Without(srv.rows[r], id))
  BY <1>3, <1>5, RowsAre, PutIs
<1> QED
  BY <1>1, <1>6

LEMMA ServeSame ==
    ASSUME TypeInv, Turns, Same, NEW i \in DOMAIN calls, Serve(i)
    PROVE  Same'
<1> DEFINE a == calls[i].arg
           op == calls[i].op
<1>1. UNCHANGED courses
  BY ServiceAnswers
<1>2. /\ Len(calls) <= 1 /\ calls[i] \in ToSet(calls) /\ calls[i].stage = "sent"
      /\ CallsOk /\ Tables(srv) /\ AskOk(calls[i])
  BY DEF Turns, ToSet, Serve, TypeInv
<1>3. Becomes(calls[i])
  BY <1>2 DEF Same
<1>4. op # "load" => srv.rows = courses
  BY <1>2, <1>3 DEF Becomes
<1>5. ASSUME NEW stage, NEW res, Answer(i, stage, res), NEW c, c = Answered(i, stage, res),
             Becomes(c)'
      PROVE  Same'
  <2>1. calls' # <<>> /\ ToSet(calls') = {c}
    BY <1>2, <1>5, AnswerAlone
  <2> QED
    BY <1>5, <2>1 DEF Same
\* Nothing was done.
<1>6. ASSUME op # "load", srv' = srv, NEW stage, NEW res, Answer(i, stage, res), stage # "ok"
      PROVE  Same'
  <2>0. PICK c : c = Answered(i, stage, res)
    OBVIOUS
  <2>1. Becomes(c)'
    BY <2>0, <1>1, <1>4, <1>6 DEF Becomes, Answered
  <2> QED
    BY <1>5, <2>0, <1>6, <2>1
\* Nothing on the list was touched.
<1>7. ASSUME op \in {"schedule", "export", "templates", "find", "create", "patch"},
             srv'.rows = srv.rows, NEW stage, NEW res, Answer(i, stage, res)
      PROVE  Same'
  <2>0. PICK c : c = Answered(i, stage, res)
    OBVIOUS
  <2>1. Becomes(c)'
    BY <2>0, <1>1, <1>4, <1>7 DEF Becomes, Answered
  <2> QED
    BY <1>5, <2>0, <1>7, <2>1
<1>8. CASE op = "load" /\ srv' = srv /\ Answer(i, "ok", srv.rows)
  <2>0. PICK c : c = Answered(i, "ok", srv.rows)
    OBVIOUS
  <2>1. Becomes(c)'
    BY <2>0, <1>8 DEF Becomes, Answered
  <2> QED
    BY <1>5, <2>0, <1>8, <2>1
<1>9. CASE /\ op \in {"schedule", "export", "templates", "find", "create", "patch"}
           /\ Serve(i)
  <2>1. srv'.rows = srv.rows /\ \E stage, res : Answer(i, stage, res)
    BY <1>2, <1>9 DEF Serve, CreateTemplate, UpdateTemplate, Tables
  <2> QED
    BY <1>7, <1>9, <2>1
<1>10. CASE op = "add" /\ AddRow(i, a)
  <2>1. CASE a.reg \notin DOMAIN srv.rows
    BY <1>6, <1>10, <2>1 DEF AddRow
  <2>2. CASE a.reg \in DOMAIN srv.rows
    <3> DEFINE r == a.reg
               item == NewItem(srv.next, r, a.name, a.done, r)
               row == Append(srv.rows[r], item)
    <3>0. PICK c : c = Answered(i, "ok", item)
      OBVIOUS
    <3>1. /\ srv' = [srv EXCEPT !.rows[r] = row, !.next = srv.next + 1]
          /\ Answer(i, "ok", item)
      BY <1>10, <2>2 DEF AddRow
    <3>2. srv'.rows = Put(srv.rows, r, row)
      BY <1>2, <3>1 DEF Tables, Put
    <3>3. c.op = "add" /\ c.arg.reg = r /\ c.res = item /\ c.stage = "ok"
      BY <3>0, <1>10 DEF Answered
    <3> HIDE DEF item
    <3>4. srv'.rows = Added(c)'
      BY <1>1, <1>2, <1>4, <1>10, <2>2, <3>2, <3>3, AddSame
    <3>5. Becomes(c)'
      BY <3>3, <3>4 DEF Becomes
    <3> QED
      BY <1>5, <3>0, <3>1, <3>5
  <2> QED
    BY <2>1, <2>2
<1>11. CASE op = "update" /\ UpdateRow(i, a)
  <2>1. CASE srv' = srv /\ Answer(i, "failed", {})
    BY <1>6, <1>11, <2>1
  <2>2. ASSUME NEW r \in Owner(a.id), NEW it \in ToSet(srv.rows[r]), it.id = a.id,
               Answer(i, "ok", Changed(it, a)),
               srv' = [srv EXCEPT !.rows[r] = [k \in DOMAIN @ |-> Changed(@[k], a)]]
        PROVE  Same'
    <3> DEFINE row == [k \in DOMAIN srv.rows[r] |-> Changed(srv.rows[r][k], a)]
    <3>0. PICK c : c = Answered(i, "ok", Changed(it, a))
      OBVIOUS
    <3>1. r \in DOMAIN srv.rows
      BY DEF Owner
    <3>2. srv'.rows = Put(srv.rows, r, row)
      BY <1>2, <2>2, <3>1 DEF Tables, Put
    <3>3. c.op = "update" /\ c.res = Changed(it, a) /\ c.stage = "ok"
      BY <3>0, <1>11 DEF Answered
    <3>4. a.name \in Names /\ a.done \in BOOLEAN
      BY <1>2, <1>11 DEF AskOk
    <3> HIDE DEF op, a
    <3>5. srv.rows = courses
      BY <1>4, <1>11
    <3>6. srv'.rows = Updated(c)'
      BY <1>1, <1>2, <2>2, <3>1, <3>2, <3>3, <3>4, <3>5, UpdateSame
    <3>7. Becomes(c)'
      BY <3>3, <3>6 DEF Becomes
    <3> QED
      BY <1>5, <3>0, <2>2, <3>7
  <2> QED
    BY <1>11, <2>1, <2>2 DEF UpdateRow
<1>12. CASE op = "delete" /\ DeleteRow(i, a)
  <2>1. CASE srv' = srv /\ Answer(i, "failed", {})
    BY <1>6, <1>12, <2>1
  <2>2. ASSUME NEW r \in Owner(a), Answer(i, "ok", a),
               srv' = [srv EXCEPT !.rows[r] = Without(@, a)]
        PROVE  Same'
    <3>0. PICK c : c = Answered(i, "ok", a)
      OBVIOUS
    <3>1. r \in DOMAIN srv.rows
      BY DEF Owner
    <3>2. srv'.rows = Put(srv.rows, r, Without(srv.rows[r], a))
      BY <1>2, <2>2, <3>1 DEF Tables, Put
    <3>3. c.op = "delete" /\ c.res = a /\ c.stage = "ok"
      BY <3>0, <1>12 DEF Answered
    <3> HIDE DEF op, a
    <3>4. srv.rows = courses
      BY <1>4, <1>12
    <3>5. srv'.rows = Deleted(c)'
      BY <1>1, <1>2, <2>2, <3>2, <3>3, <3>4, DeleteSame
    <3>6. Becomes(c)'
      BY <3>3, <3>5 DEF Becomes
    <3> QED
      BY <1>5, <3>0, <2>2, <3>6
  <2> QED
    BY <1>12, <2>1, <2>2 DEF DeleteRow
<1>13. CASE op = "sync" /\ SyncRows(i)
  <2>1. PICK res : srv'.rows = res /\ Answer(i, "ok", res)
    BY <1>2, <1>13 DEF SyncRows, Tables
  <2>0. PICK c : c = Answered(i, "ok", res)
    OBVIOUS
  <2>2. Becomes(c)'
    BY <2>0, <1>13, <2>1 DEF Becomes, Answered
  <2> QED
    BY <1>5, <2>0, <2>1, <2>2
<1>14. CASE op = "import" /\ ImportRows(i, a)
  <2>1. CASE srv' = srv /\ Answer(i, "failed", {})
    BY <1>6, <1>14, <2>1
  <2>2. ASSUME NEW items, NEW n, a.reg \in DOMAIN srv.rows,
               srv' = [srv EXCEPT !.rows[a.reg] = items, !.next = n],
               Answer(i, "ok", [reg |-> a.reg, items |-> items])
        PROVE  Same'
    <3>0. PICK c : c = Answered(i, "ok", [reg |-> a.reg, items |-> items])
      OBVIOUS
    <3>1. srv'.rows = [srv.rows EXCEPT ![a.reg] = items]
      BY <1>2, <2>2 DEF Tables
    <3>2. c.op = "import" /\ c.stage = "ok" /\ c.res.reg = a.reg /\ c.res.items = items
      BY <3>0, <1>14 DEF Answered
    <3>3. srv.rows = courses
      BY <1>4, <1>14
    <3>4. srv'.rows = SetItems(c.res.reg, c.res.items)'
      BY <1>1, <2>2, <3>1, <3>2, <3>3 DEF SetItems
    <3>5. Becomes(c)'
      BY <3>2, <3>4 DEF Becomes
    <3> QED
      BY <1>5, <3>0, <2>2, <3>5
  <2> QED
    BY <1>14, <2>1, <2>2 DEF ImportRows
<1> QED
  BY <1>8, <1>9, <1>10, <1>11, <1>12, <1>13, <1>14 DEF Serve

LEMMA ReturnsSame ==
    ASSUME CallsOk, Turns, Same, NEW i \in DOMAIN calls,
           \/ LoadReturns(i) \/ ScheduleReturns(i) \/ AddReturns(i) \/ UpdateReturns(i)
           \/ DeleteReturns(i) \/ SyncReturns(i) \/ ExportReturns(i) \/ TemplatesReturn(i)
           \/ ImportReturns(i) \/ CreateReturns(i) \/ FindReturns(i) \/ PatchReturns(i)
    PROVE  Same'
<1> DEFINE op == calls[i].op
           c == calls[i]
<1>1. Len(calls) <= 1 /\ c \in ToSet(calls)
  BY DEF Turns, ToSet
<1>2. Becomes(c) /\ (op \in Fetching => c.arg = session)
  BY <1>1 DEF Same, Turns
<1>3. UNCHANGED srv /\ c.stage # "sent"
  BY ReturnsAre
<1>4. ASSUME Take(i), courses' = srv.rows
      PROVE  Same'
  <2>1. ToSet(calls') = {}
    BY <1>1, <1>4, TakeAlone
  <2> QED
    BY <1>3, <1>4, <2>1 DEF Same
<1>5. ASSUME NEW o \in {"schedule", "patch", "find", "templates"}, NEW arg, Then(i, o, arg),
             courses' = srv.rows
      PROVE  Same'
  <2>1. PICK e : e = [op |-> o, arg |-> arg, stage |-> "sent", res |-> {}]
    OBVIOUS
  <2>2. ToSet(calls') = {e} /\ calls' # <<>> /\ e.op = o
    BY <1>1, <1>5, <2>1, ThenAlone
  <2>3. e.op \notin {"load", "sync", "add", "update", "delete", "import"} /\ e.stage = "sent"
    BY <2>1
  <2>4. Becomes(e)'
    BY <1>3, <1>5, <2>3 DEF Becomes
  <2> QED
    BY <2>2, <2>4 DEF Same
<1>6. CASE LoadReturns(i)
  <2>1. op = "load" /\ Ok(i) /\ c.arg = session
    BY <1>2, <1>3, <1>6 DEF LoadReturns, Is, Becomes, Ok, Fetching
  <2>2. Then(i, "schedule", session) /\ courses' = c.res
    BY <1>6, <2>1 DEF LoadReturns, Show
  <2>3. srv.rows = c.res
    BY <1>2, <2>1 DEF Becomes, Ok
  <2> QED
    BY <1>5, <2>2, <2>3
<1>7. CASE ScheduleReturns(i) \/ ExportReturns(i) \/ TemplatesReturn(i)
  <2>1. Take(i) /\ courses' = courses /\ op \in {"schedule", "export", "templates"}
    BY <1>7 DEF ScheduleReturns, ExportReturns, TemplatesReturn, Is, list
  <2>2. srv.rows = courses
    BY <1>2, <2>1 DEF Becomes
  <2> QED
    BY <1>4, <2>1, <2>2
<1>8. CASE \/ AddReturns(i) \/ UpdateReturns(i) \/ DeleteReturns(i)
           \/ SyncReturns(i) \/ ImportReturns(i)
  <2>1. Take(i) /\ op \in {"add", "update", "delete", "sync", "import"}
    BY <1>8 DEF AddReturns, UpdateReturns, DeleteReturns, SyncReturns, ImportReturns, Is
  <2>2. CASE ~Ok(i)
    <3>1. courses' = courses
      BY <1>8, <2>2 DEF AddReturns, UpdateReturns, DeleteReturns, SyncReturns, ImportReturns, list
    <3>2. srv.rows = courses
      BY <1>2, <2>1, <2>2 DEF Becomes, Ok
    <3> QED
      BY <1>4, <2>1, <3>1, <3>2
  <2>3. CASE Ok(i)
    <3>1. c.stage = "ok"
      BY <2>3 DEF Ok
    <3>2. CASE AddReturns(i)
      <4>1. courses' = Added(c)
        BY <2>3, <3>2 DEF AddReturns, Show, Added, Recipient
      <4>2. op = "add"
        BY <3>2 DEF AddReturns, Is
      <4> QED
        BY <1>2, <1>4, <2>1, <3>1, <4>1, <4>2 DEF Becomes
    <3>3. CASE UpdateReturns(i)
      <4>1. courses' = Updated(c)
        BY <2>3, <3>3 DEF UpdateReturns, Show, Updated
      <4>2. op = "update"
        BY <3>3 DEF UpdateReturns, Is
      <4> QED
        BY <1>2, <1>4, <2>1, <3>1, <4>1, <4>2 DEF Becomes
    <3>4. CASE DeleteReturns(i)
      <4>1. courses' = Deleted(c)
        BY <2>3, <3>4 DEF DeleteReturns, Show, Deleted
      <4>2. op = "delete"
        BY <3>4 DEF DeleteReturns, Is
      <4> QED
        BY <1>2, <1>4, <2>1, <3>1, <4>1, <4>2 DEF Becomes
    <3>5. CASE SyncReturns(i)
      <4>1. courses' = c.res /\ op = "sync"
        BY <2>3, <3>5 DEF SyncReturns, Show, Is
      <4> QED
        BY <1>2, <1>4, <2>1, <3>1, <4>1 DEF Becomes
    <3>6. CASE ImportReturns(i)
      <4>1. courses' = SetItems(c.res.reg, c.res.items) /\ op = "import"
        BY <2>3, <3>6 DEF ImportReturns, Show, Is
      <4> QED
        BY <1>2, <1>4, <2>1, <3>1, <4>1 DEF Becomes
    <3> QED
      BY <1>8, <3>2, <3>3, <3>4, <3>5, <3>6
  <2> QED
    BY <2>2, <2>3
<1>9. CASE CreateReturns(i) \/ FindReturns(i) \/ PatchReturns(i)
  <2>1. courses' = courses /\ op \in {"create", "find", "patch"}
    BY <1>9 DEF CreateReturns, FindReturns, PatchReturns, Is, list
  <2>2. srv.rows = courses
    BY <1>2, <2>1 DEF Becomes
  <2>3. Take(i) \/ \E o \in {"patch", "find", "templates"} : \E arg : Then(i, o, arg)
    BY <1>9 DEF CreateReturns, FindReturns, PatchReturns, Shared
  <2> QED
    BY <1>4, <1>5, <2>1, <2>2, <2>3
<1> QED
  BY <1>6, <1>7, <1>8, <1>9

LEMMA SameStays ==
    ASSUME TypeInv, HabitOk, habit.flight = 1, habit.faults = 0, Turns, Same, [Next]_vars
    PROVE  Same'
<1>1. CallsOk /\ Tables(srv)
  BY DEF TypeInv
<1>2. ASSUME UNCHANGED <<courses, hasFetched, calls>>, srv'.rows = srv.rows
      PROVE  Same'
  <2>1. \A c : Becomes(c) => Becomes(c)'
    BY <1>2 DEF Becomes, Added, Updated, Deleted, SetItems
  <2> QED
    BY <1>2, <2>1 DEF Same
<1>3. CASE Load
  <2>1. Ask("load", session) /\ UNCHANGED <<srv, courses, hasFetched>> /\ ~hasFetched
    BY <1>3 DEF Load, MustLoad, server, list
  <2>2. PICK e : e = [op |-> "load", arg |-> session, stage |-> "sent", res |-> {}]
    OBVIOUS
  <2>3. ToSet(calls') = ToSet(calls) \cup {e}
    BY <1>1, <2>1, <2>2, AskMakes
  <2>4. Becomes(e)'
    BY <2>2 DEF Becomes
  <2>5. \A c : Becomes(c) => Becomes(c)'
    BY <2>1 DEF Becomes, Added, Updated, Deleted, SetItems
  <2> QED
    BY <2>1, <2>3, <2>4, <2>5 DEF Same
<1>4. CASE Quiet
  BY <1>2, <1>4, QuietStays
<1>5. CASE Asking
  <2>1. calls = <<>> /\ hasFetched
    BY <1>1, <1>5, AskingStays, ClickAlone
  <2>2. PICK o, arg : o \in Sendable /\ Ask(o, arg)
    BY <1>5, AskingStays
  <2>3. PICK e : e = [op |-> o, arg |-> arg, stage |-> "sent", res |-> {}]
    OBVIOUS
  <2>4. ToSet(calls') = {e} /\ calls' # <<>>
    BY <1>1, <2>1, <2>2, <2>3, AskAlone
  <2>5. srv'.rows = courses'
    BY <1>5, <2>1, AskingStays DEF Same
  <2>6. Becomes(e)'
    BY <2>3, <2>5 DEF Becomes, Sendable
  <2> QED
    BY <2>4, <2>6 DEF Same
<1>6. CASE SignOut
  <2>1. calls = <<>> /\ calls' = calls /\ ~hasFetched'
    BY <1>1, <1>6, ClickAlone DEF SignOut
  <2> QED
    BY <2>1, NoCalls DEF Same
<1>7. CASE SignIn \/ UNCHANGED vars
  BY <1>2, <1>7 DEF SignIn, vars, server, list
<1>8. CASE \E c \in Regs : ClassmateShares(c)
  <2>1. UNCHANGED <<courses, hasFetched, calls>> /\ srv'.rows = srv.rows
    BY <1>1, <1>8 DEF ClassmateShares, page, list, Tables
  <2> QED
    BY <1>2, <2>1
<1>9. CASE \E i \in DOMAIN calls : Serve(i)
  BY <1>9, ServeSame
<1>10. CASE \E i \in DOMAIN calls : Fault(i)
  BY <1>10 DEF Fault
<1>11. CASE Returns
  BY <1>1, <1>11, ReturnsSame DEF Returns
<1> QED
  BY <1>3, <1>4, <1>5, <1>6, <1>7, <1>8, <1>9, <1>10, <1>11, ClicksAre DEF Next, Service

\* Who waits for every answer loses none.
Undisturbed == \A h \in Habits : h.flight = 1 => h.faults = 0

Ordered ==
    /\ SpinInv /\ FitInv /\ HabitOk
    /\ habit.flight = 1 => Turns /\ Shelf
    /\ Undisturbed /\ habit.flight = 1 => habit.faults = 0 /\ Same

LEMMA OrderedInit ==
    ASSUME Init
    PROVE  Ordered
<1>1. SpinInv /\ FitInv
  BY SpinInit, FitInit
<1>2. HabitOk /\ (Undisturbed /\ habit.flight = 1 => habit.faults = 0)
  BY GradeBookAssumption DEF Init, HabitOk, Undisturbed
<1>3. calls = <<>> /\ user /\ ~hasFetched /\ open["drawer"] = {}
  BY DEF Init, Closed
<1>4. Turns /\ Shelf /\ Same
  BY <1>3, NoCalls DEF Turns, Shelf, Same
<1> QED
  BY <1>1, <1>2, <1>4 DEF Ordered

LEMMA OrderedStays ==
    ASSUME Ordered, [Next]_vars
    PROVE  Ordered'
<1>1. SpinInv /\ FitInv /\ HabitOk /\ SpinInv' /\ FitInv'
  BY StepsFit DEF Ordered
<1>2. HabitOk' /\ habit'.flight = habit.flight
  BY <1>1, HabitStays
<1>3. CallsOk /\ DialogsOk /\ Tables(srv) /\ TypeInv
  BY <1>1 DEF FitInv, TypeInv
<1>4. ASSUME habit.flight = 1
      PROVE  Turns' /\ Shelf'
  BY <1>1, <1>3, <1>4, TurnsStay, ShelfStays DEF Ordered
<1>5. ASSUME Undisturbed, habit.flight = 1
      PROVE  habit'.faults = 0 /\ Same'
  <2>1. habit.faults = 0 /\ Turns /\ Same
    BY <1>5 DEF Ordered
  <2>2. habit'.faults = 0
    BY <1>1, <2>1, HabitStays
  <2>3. Same'
    BY <1>1, <1>3, <1>5, <2>1, SameStays
  <2> QED
    BY <2>2, <2>3
<1> QED
  BY <1>1, <1>2, <1>4, <1>5 DEF Ordered, Undisturbed

LEMMA OrderedListsAll ==
    Ordered => NoMoreMeansAll
<1> SUFFICES ASSUME Ordered, habit.flight = 1, open["drawer"] # {}, templates # <<>>,
                    NextPage > totalPages, NEW t \in known
             PROVE  t.course \in open["drawer"] /\ \E u \in ToSet(templates) : u.id = t.id
  BY DEF NoMoreMeansAll
<1>1. PICK r : r \in open["drawer"]
  OBVIOUS
<1>2. Read(templates, known, totalPages, r) /\ Among(templates, known)
  BY <1>1 DEF Ordered, Shelf
<1>3. Len(templates) \div PageSize + 1 > totalPages
  BY DEF NextPage
<1> QED
  BY <1>1, <1>2, <1>3, AllListed

\* Read page after page, each read or its failure awaited before the next, "Load more"
\* ends only when every template of the course is listed, however many classmates shift the
\* pages in between and whatever fails (loadTemplates and handleLoadMore).
THEOREM NoMoreAlwaysMeansAll ==
    Spec => []NoMoreMeansAll
BY OrderedInit, OrderedStays, OrderedListsAll, PTL DEF Spec

\* After calls made one by one, none of their answers lost, the screen shows what the
\* service has, and "Load more" has listed everything when it ends (the
\* setRegisteredCourses of each handler).
THEOREM ScreenAlwaysCatchesUp ==
    Undisturbed /\ Spec => []ScreenCatchesUp
<1> SUFFICES ASSUME Undisturbed
             PROVE  Spec => []ScreenCatchesUp
  OBVIOUS
<1>1. Ordered => ScreenCatchesUp
  BY OrderedListsAll DEF Ordered, Same, ScreenIsServer, ScreenCatchesUp
<1> QED
  BY <1>1, OrderedInit, OrderedStays, PTL DEF Spec

\* A template a classmate shared is never changed nor taken away: sharing again updates a
\* template the service finds to be one's own, although the tab picks it by its course
\* alone (handleShareTemplate, TemplatePolicy.check_update).
LEMMA ServeStands ==
    ASSUME Tables(srv), NEW i \in DOMAIN calls, Serve(i)
    PROVE  \A t \in srv.tmpl : ~t.own => t \in srv'.tmpl
<1> DEFINE a == calls[i].arg
           Stand == \A t \in srv.tmpl : ~t.own => t \in srv'.tmpl
<1>1. srv = [rows |-> srv.rows, dropped |-> srv.dropped, next |-> srv.next,
             tmpl |-> srv.tmpl, nextTmpl |-> srv.nextTmpl]
  BY DEF Tables
<1>2. \/ srv' = srv
      \/ AddRow(i, a) \/ UpdateRow(i, a) \/ DeleteRow(i, a) \/ SyncRows(i) \/ ImportRows(i, a)
      \/ CreateTemplate(i, a) \/ UpdateTemplate(i, a)
  BY DEF Serve
<1>3. ASSUME NEW r, NEW row, NEW next,
             \/ srv' = [srv EXCEPT !.rows[r] = row]
             \/ srv' = [srv EXCEPT !.rows[r] = row, !.next = next]
      PROVE  srv'.tmpl = srv.tmpl
  BY <1>1, <1>3
<1>4. CASE srv' = srv
  BY <1>4
<1>5. CASE AddRow(i, a) /\ srv' # srv
  <2> DEFINE row == Append(srv.rows[a.reg], NewItem(srv.next, a.reg, a.name, a.done, a.reg))
  <2>1. srv' = [srv EXCEPT !.rows[a.reg] = row, !.next = srv.next + 1]
    BY <1>5 DEF AddRow
  <2> HIDE DEF row, a
  <2> QED
    BY <1>3, <2>1
<1>6. CASE UpdateRow(i, a) /\ srv' # srv
  <2>1. PICK r \in Owner(a.id) :
          srv' = [srv EXCEPT !.rows[r] = [k \in DOMAIN @ |-> Changed(@[k], a)]]
    BY <1>6 DEF UpdateRow
  <2> DEFINE row == [k \in DOMAIN srv.rows[r] |-> Changed(srv.rows[r][k], a)]
  <2>2. srv' = [srv EXCEPT !.rows[r] = row]
    BY <2>1
  <2> HIDE DEF row
  <2> QED
    BY <1>3, <2>2
<1>7. CASE DeleteRow(i, a) /\ srv' # srv
  <2>1. PICK r \in Owner(a) : srv' = [srv EXCEPT !.rows[r] = Without(@, a)]
    BY <1>7 DEF DeleteRow
  <2> DEFINE row == Without(srv.rows[r], a)
  <2>2. srv' = [srv EXCEPT !.rows[r] = row]
    BY <2>1
  <2> HIDE DEF row
  <2> QED
    BY <1>3, <2>2
<1>8. CASE SyncRows(i)
  <2> DEFINE Synced(named) ==
               [r \in named |-> IF r \in DOMAIN srv.rows THEN srv.rows[r] ELSE <<>>]
  <2>1. PICK named \in SUBSET (Regs \ srv.dropped) :
          /\ srv' = [srv EXCEPT !.rows = Synced(named),
                                !.dropped = @ \cup (DOMAIN srv.rows \ named)]
          /\ Answer(i, "ok", Synced(named))
    BY <1>8, Zenon DEF SyncRows
  <2> HIDE DEF Synced
  <2>2. srv'.tmpl = srv.tmpl
    BY <1>1, <2>1
  <2> QED
    BY <2>2
<1>9. CASE ImportRows(i, a) /\ srv' # srv
  <2>1. PICK t \in srv.tmpl :
          /\ t.id = a.tmpl
          /\ IF a.reg \in DOMAIN srv.rows /\ MayImport(t, a.reg)
             THEN LET items == [k \in DOMAIN t.names |->
                                  NewItem(srv.next + k - 1, a.reg, t.names[k], FALSE, t.course)]
                  IN  /\ srv' = [srv EXCEPT !.rows[a.reg] = items, !.next = @ + Len(t.names)]
                      /\ Answer(i, "ok", [reg |-> a.reg, items |-> items])
             ELSE srv' = srv /\ Answer(i, "failed", {})
    BY <1>9, Zenon DEF ImportRows
  <2> DEFINE row == [k \in DOMAIN t.names |->
                       NewItem(srv.next + k - 1, a.reg, t.names[k], FALSE, t.course)]
             next == srv.next + Len(t.names)
  <2>2. srv' = [srv EXCEPT !.rows[a.reg] = row, !.next = next]
    BY <1>9, <2>1
  <2> HIDE DEF row, next, a
  <2> QED
    BY <1>3, <2>2
<1>10. CASE CreateTemplate(i, a) /\ srv' # srv
  <2> DEFINE t == [id |-> srv.nextTmpl, course |-> a.reg, own |-> TRUE, names |-> a.names]
             tmpl == srv.tmpl \cup {t}
  <2>1. srv' = [srv EXCEPT !.tmpl = tmpl, !.nextTmpl = srv.nextTmpl + 1]
    BY <1>10 DEF CreateTemplate
  <2>2. srv.tmpl \subseteq tmpl
    OBVIOUS
  <2> HIDE DEF tmpl
  <2>3. srv'.tmpl = tmpl
    BY <1>1, <2>1
  <2> QED
    BY <2>2, <2>3
<1>11. CASE UpdateTemplate(i, a) /\ srv' # srv
  <2>1. PICK t \in srv.tmpl :
          t.own /\ srv' = [srv EXCEPT !.tmpl = (@ \ {t}) \cup {[t EXCEPT !.names = a.names]}]
    BY <1>11 DEF UpdateTemplate, MayUpdate
  <2> DEFINE tmpl == (srv.tmpl \ {t}) \cup {[t EXCEPT !.names = a.names]}
  <2>2. srv.tmpl \ {t} \subseteq tmpl
    OBVIOUS
  <2>3. srv' = [srv EXCEPT !.tmpl = tmpl]
    BY <2>1
  <2> HIDE DEF tmpl
  <2>4. srv'.tmpl = tmpl
    BY <1>1, <2>3
  <2> QED
    BY <2>1, <2>2, <2>4
<1> QED
  BY <1>2, <1>4, <1>5, <1>6, <1>7, <1>8, <1>9, <1>10, <1>11

LEMMA OthersStand ==
    ASSUME Tables(srv), [Next]_vars
    PROVE  \A t \in srv.tmpl : ~t.own => t \in srv'.tmpl
<1>1. CASE Service
  BY <1>1, ServeStands DEF Service
<1>2. CASE \E c \in Regs : ClassmateShares(c)
  <2>1. PICK c \in Regs : ClassmateShares(c)
    BY <1>2
  <2> DEFINE t == [id |-> srv.nextTmpl, course |-> c, own |-> FALSE, names |-> Setup]
             tmpl == srv.tmpl \cup {t}
             next == srv.nextTmpl + 1
  <2>2. srv' = [srv EXCEPT !.tmpl = tmpl, !.nextTmpl = next]
    BY <2>1 DEF ClassmateShares
  <2>3. srv.tmpl \subseteq tmpl
    OBVIOUS
  <2> HIDE DEF tmpl, next
  <2>4. srv'.tmpl = tmpl
    BY <2>2 DEF Tables
  <2> QED
    BY <2>3, <2>4
<1>3. CASE Load \/ Clicks \/ UNCHANGED vars
  <2>1. srv' = srv
    <3>1. CASE \E r \in Regs : Select(r)
      BY <3>1 DEF Select, Click
    <3>2. CASE OpenDialog
      BY <3>2 DEF OpenDialog, Open, server
    <3>3. CASE \E n \in Names, done \in BOOLEAN : Submit(n, done)
      BY <3>3 DEF Submit, Click
    <3>4. CASE \E t \in ToSet(templates) : Import(t)
      BY <3>4 DEF Import, Click
    <3>5. CASE Load \/ CloseDialog \/ FillSync \/ CloseDrawer \/ SignOut \/ SignIn
      BY <3>5 DEF Load, CloseDialog, FillSync, CloseDrawer, SignOut, SignIn, server
    <3>6. CASE ToggleExclusion \/ ConfirmDelete \/ SubmitSync \/ ExportClicked
      BY <3>6 DEF ToggleExclusion, ConfirmDelete, SubmitSync, ExportClicked, Click
    <3>7. CASE OpenTemplates \/ LoadMore \/ Share
      BY <3>7 DEF OpenTemplates, LoadMore, Share, Click
    <3>8. CASE UNCHANGED vars
      BY <3>8 DEF vars
    <3> QED
      BY <1>3, <3>1, <3>2, <3>3, <3>4, <3>5, <3>6, <3>7, <3>8 DEF Clicks
  <2> QED
    BY <2>1
<1>4. CASE Returns \/ \E i \in DOMAIN calls : Fault(i)
  <2>1. PICK i \in DOMAIN calls : Fault(i)
          \/ LoadReturns(i) \/ ScheduleReturns(i) \/ AddReturns(i) \/ UpdateReturns(i)
          \/ DeleteReturns(i) \/ SyncReturns(i) \/ ExportReturns(i) \/ TemplatesReturn(i)
          \/ ImportReturns(i) \/ CreateReturns(i) \/ FindReturns(i) \/ PatchReturns(i)
    BY <1>4 DEF Returns
  <2>2. srv' = srv
    <3>1. CASE LoadReturns(i) \/ ScheduleReturns(i) \/ AddReturns(i) \/ UpdateReturns(i)
      BY <3>1 DEF LoadReturns, ScheduleReturns, AddReturns, UpdateReturns, server
    <3>2. CASE DeleteReturns(i) \/ SyncReturns(i) \/ ExportReturns(i) \/ TemplatesReturn(i)
      BY <3>2 DEF DeleteReturns, SyncReturns, ExportReturns, TemplatesReturn, server
    <3>3. CASE ImportReturns(i) \/ CreateReturns(i) \/ FindReturns(i) \/ PatchReturns(i)
      BY <3>3 DEF ImportReturns, CreateReturns, FindReturns, PatchReturns, server
    <3>4. CASE Fault(i)
      BY <3>4 DEF Fault
    <3> QED
      BY <2>1, <3>1, <3>2, <3>3, <3>4
  <2> QED
    BY <2>2
<1> QED
  BY <1>1, <1>2, <1>3, <1>4 DEF Next

\* Whatever is clicked, shared or answered in any order, what a classmate shared stays as it
\* is (TemplatePolicy.check_update; handleShareTemplate picks the template of the course).
THEOREM ClassmatesAlwaysStand ==
    Spec => ClassmatesTemplatesStand
<1>1. Init => SpinInv /\ FitInv
  BY SpinInit, FitInit
<1>2. SpinInv /\ FitInv /\ [Next]_vars => SpinInv' /\ FitInv'
  BY StepsFit
<1>3. ASSUME FitInv, [Next]_vars
      PROVE  [\A t \in srv.tmpl : ~t.own => t \in srv'.tmpl]_vars
  BY <1>3, OthersStand DEF FitInv, TypeInv
<1> QED
  BY <1>1, <1>2, <1>3, PTL DEF Spec, ClassmatesTemplatesStand

-----------------------------------------------------------------------------
(* The degree audit. *)
TabTypes ==
    /\ majors \in Seq(Programs)
    /\ year = {} \/ \E y : year = {y}
    /\ audit = {} \/ mapping = {}

\* Nothing is picked before the catalog, and nothing but the first offer before the
\* stored result, unless the dialog was opened too early.
BeforeAnswers ==
    /\ ~catalog => year = {} /\ audit = {} /\ mapping = {} /\ request = {}
    /\ cached.data = {} \/ (cached.known /\ cached.data \in Stored)
    /\ ~cached.known /\ ~early =>
         audit = {} /\ mapping = {} /\ request = {} /\ (catalog => year = {FirstYear})

PicksAreOffered ==
    ~early => \A y \in year : \A k \in DOMAIN majors :
        majors[k] = Unpicked \/ majors[k] \in ToSet(Offered(y))

\* A major was picked when the dialog was submitted; it stays while the audit and the
\* mapping of its transfer credits go on.
MajorStays ==
    ~early /\ (request # {} \/ mapping # {}) =>
        year # {} /\ \E k \in DOMAIN majors : majors[k] # Unpicked

AuditInDialog ==
    /\ request # {} => audit # {} \/ mapping # {}
    /\ pendingAudit # {} => mapping # {}

ReadsAreKeyed == \A a \in requirements \cup reading : a.key = a.program

AuditInv ==
    /\ TabTypes /\ BeforeAnswers /\ PicksAreOffered /\ MajorStays /\ AuditInDialog
    /\ ReadsAreKeyed /\ AuditedMajorsAreOffered

LEMMA KeptPicks ==
    ASSUME NEW picks \in Seq(Programs), NEW S
    PROVE  /\ Kept(picks, S) \in Seq(Programs)
           /\ \A k \in DOMAIN Kept(picks, S) : Kept(picks, S)[k] \in S
<1> DEFINE I == {k \in DOMAIN picks : picks[k] \in S}
<1>1. I \in SUBSET DOMAIN picks /\ Kept(picks, S) = Entries(picks, I)
  BY DEF Kept
<1>2. \A k \in I : picks[k] \in S
  OBVIOUS
<1> HIDE DEF I
<1> QED
  BY <1>1, <1>2, EntriesKept

LEMMA ChosenPicks ==
    ASSUME NEW picks \in Seq(Programs)
    PROVE  /\ Chosen(picks) \in Seq(Programs)
           /\ \A m \in ToSet(Chosen(picks)) : m # Unpicked /\ \E k \in DOMAIN picks : picks[k] = m
           /\ (\E k \in DOMAIN picks : picks[k] # Unpicked) => Chosen(picks) # <<>>
<1> DEFINE I == {k \in DOMAIN picks : picks[k] # Unpicked}
<1>1. I \in SUBSET DOMAIN picks /\ Chosen(picks) = Entries(picks, I)
  BY DEF Chosen
<1>2. \A k \in I : picks[k] # Unpicked
  OBVIOUS
<1>3. ASSUME I # {}
      PROVE  Cardinality(I) # 0
  <2> HIDE DEF I
  <2>1. DOMAIN picks = 1 .. Len(picks) /\ Len(picks) \in Nat
    OBVIOUS
  <2>2. IsFiniteSet(I)
    <3>1. IsFiniteSet(1 .. Len(picks))
      BY <2>1, FS_Interval
    <3> QED
      BY <2>1, <3>1, <1>1, FS_Subset
  <2> QED
    BY <2>2, <1>3, FS_EmptySet
<1>4. (\E k \in DOMAIN picks : picks[k] # Unpicked) => I # {}
  OBVIOUS
<1> HIDE DEF I
<1>5. /\ Chosen(picks) \in Seq(Programs) /\ Len(Chosen(picks)) = Cardinality(I)
      /\ \A k \in DOMAIN Chosen(picks) : Kth(I, k) \in I /\ Chosen(picks)[k] = picks[Kth(I, k)]
  BY <1>1, EntriesKept
<1> QED
  BY <1>1, <1>2, <1>3, <1>4, <1>5 DEF ToSet

LEMMA FirstOffered ==
    ASSUME NEW y
    PROVE  /\ Offered(y) \in Seq(Programs) /\ <<First(Offered(y))>> \in Seq(Programs)
           /\ First(Offered(y)) = Unpicked \/ First(Offered(y)) \in ToSet(Offered(y))
<1>1. Offered(y) \in Seq(Programs)
  <2>1. CASE y \in DOMAIN Majors
    <3>1. Offered(y) \in Seq(Programs)
      BY <2>1, AuditAssumption DEF Offered
    <3> QED
      BY <3>1
  <2>2. CASE y \notin DOMAIN Majors
    BY <2>2 DEF Offered
  <2> QED
    BY <2>1, <2>2
<1>2. CASE Offered(y) = <<>>
  BY <1>1, <1>2, AuditAssumption DEF First
<1>3. CASE Offered(y) # <<>>
  <2>1. 1 \in DOMAIN Offered(y) /\ Head(Offered(y)) = Offered(y)[1] /\ Offered(y)[1] \in Programs
    BY <1>1, <1>3
  <2>2. First(Offered(y)) = Offered(y)[1]
    BY <2>1, <1>3 DEF First
  <2> QED
    BY <1>1, <2>1, <2>2 DEF ToSet
<1> QED
  BY <1>2, <1>3

LEMMA ForYearIsOffered ==
    ASSUME NEW y, NEW picks \in Seq(Programs)
    PROVE  /\ ForYear(y, picks) \in Seq(Programs)
           /\ \A k \in DOMAIN ForYear(y, picks) :
                ForYear(y, picks)[k] = Unpicked \/ ForYear(y, picks)[k] \in ToSet(Offered(y))
<1> DEFINE valid == Kept(picks, ToSet(Offered(y)))
<1>1. valid \in Seq(Programs) /\ \A k \in DOMAIN valid : valid[k] \in ToSet(Offered(y))
  BY KeptPicks
<1>2. ForYear(y, picks) = IF valid = <<>> THEN <<First(Offered(y))>> ELSE valid
  BY DEF ForYear
<1> HIDE DEF valid
<1>3. \A k \in DOMAIN <<First(Offered(y))>> : <<First(Offered(y))>>[k] = First(Offered(y))
  OBVIOUS
<1> QED
  BY <1>1, <1>2, <1>3, FirstOffered

\* The effect of an answer, for what may have been picked by then.
LEMMA ApplyOffers ==
    ASSUME AuditInv, NEW data, data = {} \/ data \in Stored, Apply(data)
    PROVE  /\ majors' \in Seq(Programs) /\ year' # {} /\ \E y : year' = {y}
           /\ data = {} => year' = IF year = {} THEN {FirstYear} ELSE year
           /\ \/ ~early /\ (year = {} \/ year = {FirstYear})
              \/ data # {}
              => \A y \in year' : \A k \in DOMAIN majors' :
                    majors'[k] = Unpicked \/ majors'[k] \in ToSet(Offered(y))
<1>1. majors \in Seq(Programs) /\ (year = {} \/ \E y : year = {y})
  BY DEF AuditInv, TabTypes
<1>2. year' = Defaults(data).year
      /\ majors' = IF Defaults(data).year = year THEN Defaults(data).majors
                   ELSE ForYear(CHOOSE y \in Defaults(data).year : TRUE, Defaults(data).majors)
  BY DEF Apply
<1>3. CASE data # {}
  <2>1. PICK d : d = CHOOSE e \in data : TRUE
    OBVIOUS
  <2>2. d \in data /\ d.majors \in Seq(Programs)
    BY <1>3, <2>1, AuditAssumption
  <2> DEFINE kept == Kept(d.majors, ToSet(Offered(d.year)))
  <2>3. Defaults(data).year = {d.year} /\ Defaults(data).majors = kept
    BY <1>3, <2>1 DEF Defaults
  <2>4. kept \in Seq(Programs) /\ \A k \in DOMAIN kept : kept[k] \in ToSet(Offered(d.year))
    BY <2>2, KeptPicks
  <2> HIDE DEF kept
  <2>5. (CHOOSE y \in {d.year} : TRUE) = d.year
    OBVIOUS
  <2>6. CASE {d.year} = year
    BY <1>2, <1>3, <2>3, <2>4, <2>6
  <2>7. CASE {d.year} # year
    <3>1. majors' = ForYear(d.year, kept) /\ year' = {d.year}
      BY <1>2, <2>3, <2>5, <2>7
    <3> QED
      BY <1>3, <2>4, <3>1, ForYearIsOffered
  <2> QED
    BY <2>6, <2>7
<1>4. CASE data = {}
  <2> DEFINE o == Offered(FirstYear)
             start == IF First(majors) \in ToSet(o) THEN majors ELSE <<First(o)>>
             next == IF year = {} THEN {FirstYear} ELSE year
  <2>1. Defaults(data).year = next /\ Defaults(data).majors = start
    BY <1>4 DEF Defaults
  <2>2. start \in Seq(Programs)
    BY <1>1, FirstOffered
  <2>3. \E y : next = {y}
    BY <1>1
  <2> HIDE DEF start
  <2>4. CASE year = {}
    <3>1. next = {FirstYear} /\ next # year
      BY <2>4
    <3>2. (CHOOSE y \in {FirstYear} : TRUE) = FirstYear
      OBVIOUS
    <3>3. majors' = ForYear(FirstYear, start) /\ year' = {FirstYear}
      BY <1>2, <2>1, <3>1, <3>2
    <3> QED
      BY <1>4, <2>2, <2>4, <3>3, ForYearIsOffered
  <2>5. CASE year # {}
    <3>1. year' = year /\ majors' = start
      BY <1>2, <2>1, <2>5
    <3>2. ASSUME ~early, year = {FirstYear}, NEW k \in DOMAIN start
          PROVE  start[k] = Unpicked \/ start[k] \in ToSet(o)
      <4>1. \A j \in DOMAIN majors : majors[j] = Unpicked \/ majors[j] \in ToSet(o)
        BY <3>2 DEF AuditInv, PicksAreOffered
      <4>2. start = majors \/ (start = <<First(o)>> /\ start[k] = First(o))
        BY <3>2 DEF start
      <4> QED
        BY <3>2, <4>1, <4>2, FirstOffered
    <3> QED
      BY <1>1, <1>4, <2>2, <2>5, <3>1, <3>2
  <2> QED
    BY <2>4, <2>5
<1> QED
  BY <1>3, <1>4

LEMMA AuditInitInv == AuditInit => AuditInv
<1> SUFFICES ASSUME AuditInit PROVE AuditInv
  OBVIOUS
<1>1. <<Unpicked>> \in Seq(Programs)
  BY AuditAssumption
<1>2. TabTypes
  BY <1>1 DEF AuditInit, TabTypes
<1> QED
  BY <1>2 DEF AuditInit, AuditInv, BeforeAnswers, PicksAreOffered, MajorStays, AuditInDialog,
              ReadsAreKeyed, AuditedMajorsAreOffered

\* An answer of the catalog or the stored result.
LEMMA AnswersKeepAudit ==
    ASSUME AuditInv, CatalogArrives \/ \E data \in Stored : CachedArrives(data)
    PROVE  AuditInv'
<1>1. UNCHANGED <<early, audit, mapping, pendingAudit, request, requirements, reading>>
  BY DEF CatalogArrives, CachedArrives, card, dialogs
<1>2. AuditInDialog' /\ ReadsAreKeyed' /\ AuditedMajorsAreOffered'
  BY <1>1 DEF AuditInv, AuditInDialog, ReadsAreKeyed, AuditedMajorsAreOffered
<1>3. CASE CatalogArrives
  <2>1. ~catalog /\ catalog' = TRUE /\ cached' = cached /\ Apply(cached.data)
    BY <1>3 DEF CatalogArrives
  <2>2. year = {} /\ audit = {} /\ mapping = {} /\ request = {}
        /\ (cached.data = {} \/ (cached.known /\ cached.data \in Stored))
    BY <2>1 DEF AuditInv, BeforeAnswers
  <2>3. /\ majors' \in Seq(Programs) /\ \E y : year' = {y}
        /\ cached.data = {} => year' = {FirstYear}
        /\ ~early => \A y \in year' : \A k \in DOMAIN majors' :
             majors'[k] = Unpicked \/ majors'[k] \in ToSet(Offered(y))
    BY <2>1, <2>2, ApplyOffers
  <2> QED
    BY <1>1, <1>2, <2>1, <2>2, <2>3
       DEF AuditInv, TabTypes, BeforeAnswers, PicksAreOffered, MajorStays
<1>4. ASSUME NEW data \in Stored, CachedArrives(data)
      PROVE  AuditInv'
  <2>1. ~cached.known /\ cached' = [known |-> TRUE, data |-> data] /\ catalog' = catalog
    BY <1>4 DEF CachedArrives
  <2>2. CASE catalog
    <3>1. Apply(data)
      BY <1>4, <2>2 DEF CachedArrives
    <3>2. ~early => audit = {} /\ mapping = {} /\ request = {} /\ year = {FirstYear}
      BY <2>1, <2>2 DEF AuditInv, BeforeAnswers
    <3> QED
      BY <1>1, <1>2, <1>4, <2>1, <2>2, <3>1, <3>2, ApplyOffers
         DEF AuditInv, TabTypes, BeforeAnswers, PicksAreOffered, MajorStays
  <2>3. CASE ~catalog
    BY <1>1, <1>2, <1>4, <2>1, <2>3
       DEF CachedArrives, program, AuditInv, TabTypes, BeforeAnswers, PicksAreOffered, MajorStays
  <2> QED
    BY <2>2, <2>3
<1> QED
  BY <1>3, <1>4

\* A choice in the dialog: nothing is under way then.
LEMMA PickKeepsAudit ==
    ASSUME AuditInv, NEW y, NEW ms \in Seq(Programs), NEW ns, Pick(y, ms, ns), catalog,
           y = {} \/ \E x : y = {x},
           ~early => \A x \in y : \A k \in DOMAIN ms : ms[k] = Unpicked \/ ms[k] \in ToSet(Offered(x))
    PROVE  AuditInv'
<1>1. /\ audit # {} /\ request = {} /\ year' = y /\ majors' = ms
      /\ UNCHANGED <<catalog, cached, early, audit, mapping, pendingAudit, request,
                     requirements, reading>>
  BY DEF Pick, Editing, isPending, card, queries, dialogs
<1>2. mapping = {} /\ (cached.known \/ early)
  BY <1>1 DEF AuditInv, TabTypes, BeforeAnswers
<1> QED
  BY <1>1, <1>2 DEF AuditInv, TabTypes, BeforeAnswers, PicksAreOffered, MajorStays,
                    AuditInDialog, ReadsAreKeyed, AuditedMajorsAreOffered

LEMMA ChoicesKeepAudit ==
    ASSUME AuditInv,
           (\E y \in ToSet(YearList) : PickYear(y)) \/ ChangeMajors \/ ChangeMinors
    PROVE  AuditInv'
<1>1. /\ majors \in Seq(Programs) /\ DOMAIN majors = 1 .. Len(majors) /\ Len(majors) \in Nat
      /\ year = {} \/ \E y : year = {y}
      /\ audit # {} => catalog
      /\ ~early => \A y \in year : \A k \in DOMAIN majors :
                     majors[k] = Unpicked \/ majors[k] \in ToSet(Offered(y))
  BY DEF AuditInv, TabTypes, BeforeAnswers, PicksAreOffered
<1>2. catalog
  BY <1>1 DEF PickYear, ChangeMajors, ChangeMinors, Pick, Editing
<1>3. ASSUME NEW y, PickYear(y)
      PROVE  AuditInv'
  <2>1. Pick({y}, ForYear(y, majors), minors)
    BY <1>3 DEF PickYear
  <2>2. /\ ForYear(y, majors) \in Seq(Programs)
        /\ \A k \in DOMAIN ForYear(y, majors) :
             ForYear(y, majors)[k] = Unpicked \/ ForYear(y, majors)[k] \in ToSet(Offered(y))
    BY <1>1, ForYearIsOffered
  <2>3. PICK ms : ms = ForYear(y, majors)
    OBVIOUS
  <2> QED
    BY <1>2, <2>1, <2>2, <2>3, PickKeepsAudit
<1>4. ASSUME NEW ms \in Seq(Programs), NEW ns, Pick(year, ms, ns),
             \A k \in DOMAIN ms :
                 \/ ms[k] = Unpicked
                 \/ \E j \in DOMAIN majors : ms[k] = majors[j]
                 \/ \E y \in year : ms[k] \in ToSet(Offered(y))
      PROVE  AuditInv'
  <2>1. ASSUME ~early, NEW x \in year, NEW k \in DOMAIN ms
        PROVE  ms[k] = Unpicked \/ ms[k] \in ToSet(Offered(x))
    BY <1>1, <1>4, <2>1
  <2> QED
    BY <1>1, <1>2, <1>4, <2>1, PickKeepsAudit
<1>5. CASE ChangeMajors
  <2>1. CASE Pick(year, Append(majors, Unpicked), minors)
    <3>1. Append(majors, Unpicked) \in Seq(Programs)
          /\ \A k \in DOMAIN Append(majors, Unpicked) :
               \/ Append(majors, Unpicked)[k] = Unpicked
               \/ k \in DOMAIN majors /\ Append(majors, Unpicked)[k] = majors[k]
      BY <1>1, AuditAssumption
    <3> QED
      BY <1>4, <2>1, <3>1
  <2>2. ASSUME NEW i \in DOMAIN majors, Len(majors) > 1, Pick(year, Removed(majors, i), minors)
        PROVE  AuditInv'
    <3>1. ASSUME NEW k \in 1 .. (Len(majors) - 1)
          PROVE  (IF k < i THEN k ELSE k + 1) \in DOMAIN majors
      BY <1>1, <2>2
    <3>2. Len(majors) - 1 \in Nat
      BY <1>1, <2>2
    <3>3. /\ Removed(majors, i) \in Seq(Programs)
          /\ \A k \in DOMAIN Removed(majors, i) :
               \E j \in DOMAIN majors : Removed(majors, i)[k] = majors[j]
      BY <1>1, <3>1, <3>2 DEF Removed
    <3> QED
      BY <1>4, <2>2, <3>3
  <2>3. ASSUME NEW i \in DOMAIN majors, NEW y \in year, NEW m \in ToSet(Offered(y)),
               Pick(year, [majors EXCEPT ![i] = m], minors)
        PROVE  AuditInv'
    <3>1. m \in Programs
      BY FirstOffered DEF ToSet
    <3>2. [majors EXCEPT ![i] = m] \in Seq(Programs)
          /\ \A k \in DOMAIN [majors EXCEPT ![i] = m] :
               \/ [majors EXCEPT ![i] = m][k] = m
               \/ k \in DOMAIN majors /\ [majors EXCEPT ![i] = m][k] = majors[k]
      BY <1>1, <3>1
    <3> QED
      BY <1>4, <2>3, <3>2
  <2> QED
    BY <1>5, <2>1, <2>2, <2>3 DEF ChangeMajors
<1>6. CASE ChangeMinors
  <2>1. PICK ns : Pick(year, majors, ns)
    BY <1>6 DEF ChangeMinors
  <2> QED
    BY <1>1, <1>4, <2>1
<1> QED
  BY <1>3, <1>5, <1>6

\* The audit is asked for with what is picked, and its dialog stays.
LEMMA AskKeepsAudit ==
    ASSUME AuditInv, NEW mode, NEW mapped, NEW rerun, AskAudit(mode, mapped, rerun),
           audit # {} \/ mapping # {},
           ~early => year # {} /\ \E k \in DOMAIN majors : majors[k] # Unpicked,
           UNCHANGED <<card, queries, program, dialogs>>
    PROVE  AuditInv'
<1>1. UNCHANGED <<catalog, cached, early, year, majors, audit, mapping, pendingAudit,
                  requirements, reading>>
  BY DEF card, queries, program, dialogs
<1>2. catalog /\ (cached.known \/ early) /\ majors \in Seq(Programs)
  BY DEF AuditInv, BeforeAnswers, TabTypes
<1>3. \A r \in request' : r.year = year /\ r.majors = Chosen(majors)
  BY DEF AskAudit
<1>4. AuditedMajorsAreOffered'
  <2> SUFFICES ASSUME ~early, NEW r \in request'
               PROVE  \E y \in r.year : /\ r.majors # <<>>
                                        /\ ToSet(r.majors) \subseteq ToSet(Offered(y))
    BY <1>1 DEF AuditedMajorsAreOffered
  <2>1. PICK y \in year : TRUE
    OBVIOUS
  <2>2. Chosen(majors) # <<>>
    BY <1>2, ChosenPicks
  <2>3. ASSUME NEW m \in ToSet(Chosen(majors))
        PROVE  m \in ToSet(Offered(y))
    <3>1. m # Unpicked /\ \E k \in DOMAIN majors : majors[k] = m
      BY <1>2, ChosenPicks
    <3> QED
      BY <3>1 DEF AuditInv, PicksAreOffered
  <2> QED
    BY <1>3, <2>1, <2>2, <2>3
<1>5. TabTypes' /\ PicksAreOffered' /\ ReadsAreKeyed'
  BY <1>1 DEF AuditInv, TabTypes, PicksAreOffered, ReadsAreKeyed
<1>6. BeforeAnswers' /\ MajorStays' /\ AuditInDialog'
  BY <1>1, <1>2 DEF AuditInv, BeforeAnswers, MajorStays, AuditInDialog
<1> QED
  BY <1>4, <1>5, <1>6 DEF AuditInv

LEMMA RunsKeepAudit ==
    ASSUME AuditInv, RunAudit \/ ApplyMappings
    PROVE  AuditInv'
<1>1. CASE RunAudit
  <2>1. PICK a \in audit : /\ canSubmitAudit(a) /\ AskAudit(a.mode, {}, FALSE)
                           /\ UNCHANGED <<card, queries, program, dialogs>>
    BY <1>1 DEF RunAudit
  <2>2. year # {} /\ majors # <<>> /\ Head(majors) # Unpicked /\ majors \in Seq(Programs)
    BY <2>1 DEF canSubmitAudit, First, AuditInv, TabTypes
  <2>3. 1 \in DOMAIN majors /\ majors[1] # Unpicked
    BY <2>2
  <2> QED
    BY <2>1, <2>2, <2>3, AskKeepsAudit
<1>2. CASE ApplyMappings
  <2>1. PICK mode, mapped : /\ AskAudit(mode, mapped, TRUE) /\ mapping # {}
                            /\ UNCHANGED <<card, queries, program, dialogs>>
    BY <1>2 DEF ApplyMappings
  <2>2. ~early => year # {} /\ \E k \in DOMAIN majors : majors[k] # Unpicked
    BY <2>1 DEF AuditInv, MajorStays
  <2> QED
    BY <2>1, <2>2, AskKeepsAudit
<1> QED
  BY <1>1, <1>2

\* What the two dialogs do besides, the answers, and the results card.
LEMMA DialogsKeepAudit ==
    ASSUME AuditInv,
           \/ \E mode \in {"registrar", "pdf"} : OpenAuditModal(mode)
           \/ FillIn \/ CloseAuditModal \/ Skip \/ \E l \in Lines : MapLine(l)
           \/ AuditFails \/ AuditReturns
    PROVE  AuditInv'
<1>1. UNCHANGED <<catalog, cached, year, majors, requirements, reading>>
  BY DEF OpenAuditModal, FillIn, CloseAuditModal, Skip, MapLine, AuditFails, AuditReturns,
         card, queries, program
<1>2. ReadsAreKeyed'
  BY <1>1 DEF AuditInv, ReadsAreKeyed
<1>3. CASE \E mode \in {"registrar", "pdf"} : OpenAuditModal(mode)
  <2>1. /\ catalog /\ request = {} /\ request' = {} /\ early' = (early \/ ~cached.known)
        /\ mapping' = {} /\ pendingAudit' = {} /\ audit' # {}
    BY <1>3 DEF OpenAuditModal, isPending
  <2> QED
    BY <1>1, <1>2, <2>1 DEF AuditInv, TabTypes, BeforeAnswers, PicksAreOffered, MajorStays,
                            AuditInDialog, AuditedMajorsAreOffered
<1>4. CASE FillIn \/ CloseAuditModal
  <2>1. /\ audit # {} /\ request = {}
        /\ UNCHANGED <<early, mapping, pendingAudit, request>>
    BY <1>4 DEF FillIn, CloseAuditModal, Editing, isPending, queries
  <2>2. mapping = {} /\ catalog /\ (cached.known \/ early)
    BY <2>1 DEF AuditInv, TabTypes, BeforeAnswers
  <2> QED
    BY <1>1, <1>2, <2>1, <2>2 DEF AuditInv, TabTypes, BeforeAnswers, PicksAreOffered,
          MajorStays, AuditInDialog, AuditedMajorsAreOffered
<1>5. CASE Skip \/ \E l \in Lines : MapLine(l)
  <2>1. /\ mapping # {} /\ request = {}
        /\ UNCHANGED <<early, audit, request>>
        /\ \/ mapping' = {} /\ pendingAudit' = {}
           \/ mapping' # {} /\ pendingAudit' = pendingAudit
    BY <1>5 DEF Skip, MapLine, isPending, queries
  <2>2. audit = {} /\ catalog /\ (cached.known \/ early)
    BY <2>1 DEF AuditInv, TabTypes, BeforeAnswers
  <2> QED
    BY <1>1, <1>2, <2>1, <2>2 DEF AuditInv, TabTypes, BeforeAnswers, PicksAreOffered,
          MajorStays, AuditInDialog, AuditedMajorsAreOffered
<1>6. CASE AuditFails
  <2>1. request # {} /\ request' = {} /\ UNCHANGED <<early, audit, mapping, pendingAudit>>
    BY <1>6 DEF AuditFails, isPending, queries, dialogs
  <2> QED
    BY <1>1, <1>2, <2>1 DEF AuditInv, TabTypes, BeforeAnswers, PicksAreOffered, MajorStays,
                            AuditInDialog, AuditedMajorsAreOffered
<1>7. CASE AuditReturns
  <2>1. /\ request # {} /\ request' = {} /\ audit' = {} /\ early' = early
        /\ mapping' # {} \/ pendingAudit' = {}
    BY <1>7 DEF AuditReturns, queries
  <2>2. catalog /\ (cached.known \/ early)
        /\ (~early => year # {} /\ \E k \in DOMAIN majors : majors[k] # Unpicked)
    BY <2>1 DEF AuditInv, BeforeAnswers, MajorStays
  <2> QED
    BY <1>1, <1>2, <2>1, <2>2 DEF AuditInv, TabTypes, BeforeAnswers, PicksAreOffered,
          MajorStays, AuditInDialog, AuditedMajorsAreOffered
<1> QED
  BY <1>3, <1>4, <1>5, <1>6, <1>7

LEMMA CardKeepsAudit ==
    ASSUME AuditInv,
           \/ \E i \in 1..MaxPicks : SelectAudit(i)
           \/ ViewRequirements \/ RequirementsReturn \/ CloseRequirements
    PROVE  AuditInv'
<1>1. UNCHANGED <<catalog, cached, early, year, majors, audit, mapping, pendingAudit, request>>
  BY DEF SelectAudit, ViewRequirements, RequirementsReturn, CloseRequirements, queries, program,
         dialogs
<1>2. ReadsAreKeyed'
  <2>1. CASE (\E i \in 1..MaxPicks : SelectAudit(i)) \/ CloseRequirements
    BY <2>1 DEF SelectAudit, CloseRequirements, AuditInv, ReadsAreKeyed
  <2>2. CASE ViewRequirements
    BY <2>2 DEF ViewRequirements, reqKey, AuditInv, ReadsAreKeyed
  <2>3. CASE RequirementsReturn
    BY <2>3 DEF RequirementsReturn, AuditInv, ReadsAreKeyed
  <2> QED
    BY <2>1, <2>2, <2>3
<1> QED
  BY <1>1, <1>2 DEF AuditInv, TabTypes, BeforeAnswers, PicksAreOffered, MajorStays,
                    AuditInDialog, AuditedMajorsAreOffered

LEMMA AuditStays == AuditInv /\ [AuditNext]_auditVars => AuditInv'
<1> SUFFICES ASSUME AuditInv, [AuditNext]_auditVars PROVE AuditInv'
  OBVIOUS
<1>1. CASE UNCHANGED auditVars
  BY <1>1 DEF auditVars, AuditInv, TabTypes, BeforeAnswers, PicksAreOffered, MajorStays,
              AuditInDialog, ReadsAreKeyed, AuditedMajorsAreOffered
<1>2. CASE AuditNext
  BY <1>2, AnswersKeepAudit, ChoicesKeepAudit, RunsKeepAudit, DialogsKeepAudit, CardKeepsAudit
     DEF AuditNext
<1> QED
  BY <1>1, <1>2

\* What is audited was offered for the year it names and no dialog leaves a password or
\* an audit behind (degree-audit-tab.tsx: the two effects, the mutation and the mapping
\* of transfer credits), for any catalog, stored result and number of runs.
THEOREM AuditIsAlwaysOfItsPicks == AuditSpec => []AuditIsOfItsPicks
<1>1. AuditInv => AuditIsOfItsPicks
  BY DEF AuditInv, AuditInDialog, ReadsAreKeyed, AuditIsOfItsPicks, RequirementsMatchTitle,
         PasswordForgotten, reqKey
<1> QED
  BY <1>1, AuditInitInv, AuditStays, PTL DEF AuditSpec

-----------------------------------------------------------------------------
(* The searched and paged list. *)

\* Every row of a table listed newest first stands behind the newer ones.
LEMMA StandsAt ==
    ASSUME NEW T, IsFiniteSet(T), \A t \in T : t.id \in Int, \A t, u \in T : t.id = u.id => t = u,
           NEW t \in T
    PROVE  /\ Cardinality({u \in T : u.id > t.id}) + 1 \in 1 .. Cardinality(T)
           /\ NewestFirst(T)[Cardinality({u \in T : u.id > t.id}) + 1] = t
<1> DEFINE n == Cardinality(T)
           D == 1 .. n
           rows == NewestFirst(T)
           Newer(r) == {u \in T : u.id > r.id}
<1>1. n \in Nat /\ IsFiniteSet(D) /\ Cardinality(D) = n
  <2>1. n \in Nat
    BY FS_CardinalityType
  <2> HIDE DEF n
  <2> QED
    BY <2>1, FS_Interval
<1>2. \A k \in D : Cardinality(Newer(rows[k])) = k - 1
  <2>1. TAKE k \in D
  <2>2. \E r \in T : Cardinality(Newer(r)) = k - 1
    BY RowAtPlace
  <2>3. rows[k] = CHOOSE r \in T : Cardinality(Newer(r)) = k - 1
    BY DEF NewestFirst
  <2> HIDE DEF Newer, rows
  <2> QED
    BY <2>2, <2>3
<1> HIDE DEF Newer
<1>3. rows \in [D -> T] /\ \A k, l \in D : rows[k] = rows[l] => k = l
  <2>1. /\ rows \in Seq(T) /\ Len(rows) = n
        /\ \A k, l \in D : rows[k] = rows[l] => k = l
    BY NewestFirstLists
  <2> HIDE DEF rows, n
  <2> QED
    BY <2>1
<1> HIDE DEF rows, n
<1>4. rows \in Surjection(D, T)
  <2>1. rows \in Injection(D, T)
    BY <1>3 DEF Injection, IsInjective
  <2> HIDE DEF D
  <2> QED
    BY <1>1, <2>1, FS_Injection DEF n
<1>5. PICK k \in D : rows[k] = t
  BY <1>4 DEF Surjection
<1>6. Cardinality(Newer(t)) = k - 1
  BY <1>2, <1>5
<1>7. Cardinality(Newer(t)) + 1 = k
  BY <1>1, <1>6
<1> QED
  BY <1>5, <1>7 DEF n, rows, Newer

\* As many pages as the service counts hold all rows.
LEMMA PagesHold ==
    ASSUME NEW n \in Nat
    PROVE  /\ (n + Size - 1) \div Size \in Nat
           /\ n <= ((n + Size - 1) \div Size) * Size
<1> DEFINE a == n + Size - 1
           q == a \div Size
<1>1. Size \in Nat /\ Size >= 1 /\ a \in Nat
  BY ListAssumption
<1>2. q \in Nat /\ a < Size * q + Size
  <2>1. \A x \in Nat, y \in Nat : y >= 1 => x \div y \in Nat /\ x < y * (x \div y) + y
    OBVIOUS
  <2> HIDE DEF a
  <2> QED
    BY <1>1, <2>1
<1>3. q * Size \in Nat /\ q * Size = Size * q
  <2> HIDE DEF q
  <2> QED
    BY <1>1, <1>2
<1>4. n <= q * Size
  <2> HIDE DEF q
  <2> QED
    BY <1>1, <1>2, <1>3
<1> QED
  BY <1>2, <1>4

\* What a page holds, of rows listed without one another.
LEMMA PageHolds ==
    ASSUME NEW S, NEW found \in Seq(S), NEW n \in Nat
    PROVE  /\ Page(found, n + 1) \in Seq(S)
           /\ ToSet(Page(found, n + 1)) \subseteq ToSet(found)
           /\ \A p \in 1 .. Len(found) :
                n * Size < p /\ p <= (n + 1) * Size => found[p] \in ToSet(Page(found, n + 1))
<1> DEFINE m == n * Size
           last == IF (n + 1) * Size < Len(found) THEN (n + 1) * Size ELSE Len(found)
           s == SubSeq(found, m + 1, last)
<1>1. Size \in Nat /\ Size >= 1 /\ Len(found) \in Nat /\ DOMAIN found = 1 .. Len(found)
  BY ListAssumption
<1>2. m \in Nat /\ (n + 1) * Size = m + Size /\ (n + 1) * Size \in Nat
  <2>1. \A x, y \in Nat : x * y \in Nat /\ (x + 1) * y = x * y + y
    OBVIOUS
  <2> QED
    BY <1>1, <2>1
<1>3. Page(found, n + 1) = s
  <2>1. (n + 1) - 1 = n
    OBVIOUS
  <2> QED
    BY <2>1 DEF Page
<1> HIDE DEF m
<1>4. last \in Nat /\ last <= Len(found) /\ last <= (n + 1) * Size
  BY <1>1, <1>2
<1>5. \A p \in 1 .. Len(found) : p <= (n + 1) * Size => p <= last
  BY <1>1, <1>2
<1> HIDE DEF last
<1>6. /\ s \in Seq(S) /\ Len(s) = IF m + 1 <= last THEN last - (m + 1) + 1 ELSE 0
      /\ \A i \in 1 .. last - (m + 1) + 1 : s[i] = found[m + 1 + i - 1]
  <2>1. m + 1 \in Int /\ last \in Int
    BY <1>2, <1>4
  <2>2. \A i \in m + 1 .. last : found[i] \in S
    BY <1>1, <1>2, <1>4
  <2> QED
    BY <2>1, <2>2, SubSeqProperties
<1> HIDE DEF s
<1>7. /\ DOMAIN s = 1 .. Len(s) /\ Len(s) \in Nat
      /\ \A i \in 1 .. Len(s) : s[i] = found[m + i] /\ m + i \in 1 .. Len(found)
  <2>1. DOMAIN s = 1 .. Len(s) /\ Len(s) \in Nat
    BY <1>6
  <2>2. ASSUME NEW i \in 1 .. Len(s)
        PROVE  s[i] = found[m + i] /\ m + i \in 1 .. Len(found)
    <3>1. i \in 1 .. last - (m + 1) + 1 /\ m + 1 + i - 1 = m + i /\ m + i \in 1 .. Len(found)
      BY <1>1, <1>2, <1>4, <1>6, <2>1
    <3> QED
      BY <1>6, <3>1
  <2> QED
    BY <2>1, <2>2
<1>8. ToSet(s) \subseteq ToSet(found)
  BY <1>1, <1>7 DEF ToSet
<1>9. ASSUME NEW p \in 1 .. Len(found), m < p, p <= (n + 1) * Size
      PROVE  found[p] \in ToSet(s)
  <2>1. p <= last /\ p - m \in 1 .. Len(s) /\ m + (p - m) = p
    BY <1>1, <1>2, <1>4, <1>5, <1>6, <1>9
  <2>2. s[p - m] = found[p]
    BY <1>7, <2>1
  <2> QED
    BY <1>7, <2>1, <2>2 DEF ToSet
<1> QED
  BY <1>3, <1>6, <1>8, <1>9 DEF m

\* The rows shown: those loaded, each once.
LEMMA UniqueShows ==
    ASSUME NEW loaded \in Seq(Reports)
    PROVE  /\ ToSet(Unique(loaded)) = ToSet(loaded)
           /\ Cardinality(ToSet(Unique(loaded))) = Len(Unique(loaded))
<1> DEFINE I == {i \in DOMAIN loaded : \A j \in 1..(i - 1) : loaded[j].id # loaded[i].id}
           shown == Unique(loaded)
<1>1. DOMAIN loaded = 1 .. Len(loaded) /\ Len(loaded) \in Nat /\ \A i \in DOMAIN loaded : loaded[i] \in Reports
  OBVIOUS
<1>2. shown = Entries(loaded, I)
  BY DEF Unique
<1>3. I \in SUBSET DOMAIN loaded /\ \A i \in I : \A j \in 1..(i - 1) : loaded[j].id # loaded[i].id
  OBVIOUS
<1>4. ASSUME NEW i \in DOMAIN loaded
      PROVE  \E k \in I : loaded[k] = loaded[i]
  <2> DEFINE J == {j \in DOMAIN loaded : loaded[j].id = loaded[i].id}
             k == Least(J)
  <2>1. J \in SUBSET Nat /\ J # {}
    BY <1>1
  <2>2. k \in J /\ \A j \in J : k <= j
    <3> HIDE DEF J
    <3> QED
      BY <2>1, LeastExists
  <2>3. k \in DOMAIN loaded /\ loaded[k].id = loaded[i].id
    BY <2>2
  <2>4. loaded[k] = loaded[i]
    BY <1>1, <2>3, ListAssumption
  <2>5. ASSUME NEW j \in 1..(k - 1), loaded[j].id = loaded[k].id
        PROVE  FALSE
    <3>1. j \in DOMAIN loaded /\ j < k
      BY <1>1, <2>3
    <3>2. j \in J
      BY <3>1, <2>3, <2>5
    <3>3. k <= j /\ j \in Nat /\ k \in Nat
      BY <1>1, <2>2, <2>3, <3>1, <3>2
    <3> QED
      BY <3>1, <3>3
  <2> HIDE DEF k, J
  <2> QED
    BY <2>3, <2>4, <2>5
<1>5. \A i, j \in I : loaded[i].id = loaded[j].id => i = j
  <2>1. ASSUME NEW i \in I, NEW j \in I, loaded[i].id = loaded[j].id, i < j
        PROVE  FALSE
    <3>1. i \in 1..(j - 1)
      BY <1>1, <1>3, <2>1
    <3> QED
      BY <1>3, <2>1, <3>1
  <2>2. \A i, j \in I : i < j \/ j < i \/ i = j
    BY <1>1
  <2> HIDE DEF I
  <2> QED
    BY <2>1, <2>2
<1> HIDE DEF I
<1>6. /\ shown \in Seq(Reports) /\ Len(shown) = Cardinality(I)
      /\ \A k \in DOMAIN shown : Kth(I, k) \in I /\ shown[k] = loaded[Kth(I, k)]
      /\ \A k, l \in DOMAIN shown : Kth(I, k) = Kth(I, l) => k = l
  BY <1>2, <1>3, EntriesKept
<1> HIDE DEF shown
<1> DEFINE D == 1 .. Len(shown)
<1>7. DOMAIN shown = D /\ Len(shown) \in Nat /\ IsFiniteSet(D) /\ Cardinality(D) = Len(shown)
  <2>1. DOMAIN shown = D /\ Len(shown) \in Nat
    BY <1>6
  <2>2. \A n \in Nat : IsFiniteSet(1 .. n) /\ Cardinality(1 .. n) = n
    BY FS_Interval
  <2> QED
    BY <2>1, <2>2
<1>8. IsFiniteSet(I)
  <2>1. IsFiniteSet(DOMAIN loaded)
    BY <1>1, FS_Interval
  <2> QED
    BY <1>3, <2>1, FS_Subset
<1>9. \A i \in I : \E k \in D : Kth(I, k) = i
  <2> DEFINE place == [k \in D |-> Kth(I, k)]
  <2>1. place \in [D -> I] /\ \A k \in D : place[k] = Kth(I, k)
    BY <1>6, <1>7
  <2> HIDE DEF place
  <2>2. place \in Injection(D, I)
    BY <1>6, <1>7, <2>1 DEF Injection, IsInjective
  <2> HIDE DEF D
  <2>3. place \in Surjection(D, I)
    BY <1>6, <1>7, <1>8, <2>2, FS_Injection
  <2> QED
    BY <2>1, <2>3 DEF Surjection
<1> HIDE DEF D
<1>10. \A k, l \in D : shown[k] = shown[l] => k = l
  BY <1>5, <1>6, <1>7
<1>11. ToSet(shown) = ToSet(loaded)
  <2>1. ASSUME NEW r \in ToSet(loaded)
        PROVE  r \in ToSet(shown)
    <3>1. PICK i \in DOMAIN loaded : loaded[i] = r
      BY DEF ToSet
    <3>2. PICK k \in I : loaded[k] = r
      BY <1>4, <3>1
    <3>3. PICK l \in D : Kth(I, l) = k
      BY <1>9
    <3> QED
      BY <1>6, <1>7, <3>2, <3>3 DEF ToSet
  <2>2. ASSUME NEW r \in ToSet(shown)
        PROVE  r \in ToSet(loaded)
    <3>1. PICK k \in D : shown[k] = r
      BY <1>7 DEF ToSet
    <3> QED
      BY <1>3, <1>6, <1>7, <3>1 DEF ToSet
  <2> QED
    BY <2>1, <2>2
<1>12. Cardinality(ToSet(shown)) = Len(shown)
  <2>1. shown \in [D -> ToSet(shown)]
    BY <1>6, <1>7 DEF ToSet
  <2>2. shown \in Injection(D, ToSet(shown))
    BY <1>10, <2>1 DEF Injection, IsInjective
  <2>3. \A r \in ToSet(shown) : \E k \in D : shown[k] = r
    BY <1>7 DEF ToSet
  <2>4. shown \in Surjection(D, ToSet(shown))
    BY <2>1, <2>3 DEF Surjection
  <2>5. shown \in Bijection(D, ToSet(shown))
    BY <2>2, <2>4 DEF Bijection
  <2> QED
    BY <1>7, <2>5, FS_Bijection DEF ExistsBijection
<1> QED
  BY <1>11, <1>12 DEF shown

Ahead(key, r) == {u \in Matches(key) : u.id > r.id}

EntryTypes(e) ==
    /\ e.n \in Nat /\ e.total \in Int /\ e.loaded \in Seq(Reports)
    /\ e = [n |-> e.n, loaded |-> e.loaded, total |-> e.total, known |-> e.known,
            failed |-> e.failed]
    /\ e.n = 0 => e.known = {}

\* What was loaded for a key matches it, and what was known matches it still.
EntryMatches(key, e) ==
    /\ \A r \in ToSet(e.loaded) : Match(key[1], key[2], r)
    /\ e.known \subseteq Matches(key)

\* A known report is loaded unless so many stand before it by now that it moved behind
\* the pages read, and it cannot have when no page is left.
EntryReaches(key, e) ==
    e.n # 0 =>
        /\ \A r \in e.known :
             Cardinality(Ahead(key, r)) < e.n * Size => r \in ToSet(e.loaded)
        /\ e.n >= e.total => e.known \subseteq ToSet(e.loaded)

EntryHolds(key, e) == EntryTypes(e) /\ EntryMatches(key, e) /\ EntryReaches(key, e)

ListInv ==
    /\ reports \cup toAdd \subseteq Reports
    /\ \A key \in DOMAIN cache : EntryHolds(key, cache[key])

\* Matches are finitely many reports, no two with one id.
LEMMA MatchesAre ==
    ASSUME reports \subseteq Reports, NEW key
    PROVE  /\ Matches(key) \subseteq Reports /\ IsFiniteSet(Matches(key))
           /\ \A r \in Matches(key) : r.id \in Int
           /\ \A r, q \in Matches(key) : r.id = q.id => r = q
<1>1. Matches(key) \subseteq Reports
  BY DEF Matches
<1>2. IsFiniteSet(Matches(key))
  BY <1>1, ListAssumption, FS_Subset
<1> QED
  BY <1>1, <1>2, ListAssumption

\* A query without data holds what is asked of one.
LEMMA CachedHolds ==
    ASSUME ListInv, NEW key
    PROVE  EntryHolds(key, Cached(key))
<1>1. EntryHolds(key, Nothing)
  <2>1. Nothing.loaded \in Seq(Reports) /\ ToSet(Nothing.loaded) = {}
    BY DEF Nothing, ToSet
  <2> QED
    BY <2>1 DEF Nothing, EntryHolds, EntryTypes, EntryMatches, EntryReaches
<1> QED
  BY <1>1 DEF Cached, ListInv

LEMMA ListStarts ==
    ASSUME ListInit
    PROVE  ListInv
<1>1. DOMAIN cache = {}
  BY DEF ListInit
<1> QED
  BY <1>1 DEF ListInit, ListInv, Reports

\* A page more, whatever came in between.
LEMMA PageAdds ==
    ASSUME ListInv, NEW key
    PROVE  EntryHolds(key, PageOf(Found(key), Cached(key)))
<1> DEFINE e == Cached(key)
           M == Matches(key)
           found == Found(key)
           added == Page(found, e.n + 1)
           new == PageOf(found, e)
<1>1. EntryTypes(e) /\ EntryMatches(key, e) /\ EntryReaches(key, e)
  BY CachedHolds DEF EntryHolds
<1>2. /\ M \subseteq Reports /\ IsFiniteSet(M) /\ Cardinality(M) \in Nat
      /\ \A r \in M : r.id \in Int
      /\ \A r, q \in M : r.id = q.id => r = q
  BY MatchesAre, FS_CardinalityType DEF ListInv
<1>3. \A r \in M : Match(key[1], key[2], r)
  BY DEF Matches
<1>4. found = NewestFirst(M)
  BY DEF Found
<1> HIDE DEF e, M, found
<1>5. found \in Seq(M) /\ Len(found) = Cardinality(M) /\ DOMAIN found = 1 .. Cardinality(M)
  <2>1. found \in Seq(M) /\ Len(found) = Cardinality(M)
    BY <1>2, <1>4, NewestFirstLists
  <2> QED
    BY <2>1
<1>6. ToSet(found) \subseteq M
  BY <1>5 DEF ToSet
<1>7. \A r \in M : /\ Cardinality(Ahead(key, r)) + 1 \in 1 .. Cardinality(M)
                    /\ found[Cardinality(Ahead(key, r)) + 1] = r
  BY <1>2, <1>4, StandsAt DEF Ahead, M
<1>8. /\ added \in Seq(M) /\ ToSet(added) \subseteq M
      /\ \A p \in 1 .. Len(found) :
           e.n * Size < p /\ p <= (e.n + 1) * Size => found[p] \in ToSet(added)
  <2>1. e.n \in Nat
    BY <1>1 DEF EntryTypes
  <2> QED
    BY <1>5, <1>6, <2>1, PageHolds
<1> HIDE DEF added
<1>9. /\ new.n = e.n + 1 /\ new.loaded = e.loaded \o added /\ new.total = TotalPages(found)
      /\ new.known = (IF e.n = 0 THEN ToSet(found) ELSE e.known) /\ new.failed = e.failed
      /\ new = [n |-> new.n, loaded |-> new.loaded, total |-> new.total, known |-> new.known,
                failed |-> new.failed]
  BY DEF PageOf, added
<1> HIDE DEF new
<1>10. e.loaded \o added \in Seq(Reports) /\ ToSet(new.loaded) = ToSet(e.loaded) \cup ToSet(added)
  <2>1. e.loaded \in Seq(Reports) /\ added \in Seq(Reports)
    BY <1>1, <1>2, <1>8 DEF EntryTypes
  <2>2. \A a, b \in Seq(Reports) : a \o b \in Seq(Reports) /\ ToSet(a \o b) = ToSet(a) \cup ToSet(b)
    <3>1. TAKE a, b \in Seq(Reports)
    <3>2. /\ Len(a) \in Nat /\ Len(b) \in Nat /\ DOMAIN a = 1 .. Len(a) /\ DOMAIN b = 1 .. Len(b)
          /\ a \o b \in Seq(Reports) /\ DOMAIN (a \o b) = 1 .. Len(a) + Len(b)
          /\ \A i \in 1 .. Len(a) + Len(b) :
               (a \o b)[i] = IF i <= Len(a) THEN a[i] ELSE b[i - Len(a)]
      OBVIOUS
    <3>3. \A i \in 1 .. Len(b) : /\ Len(a) + i \in 1 .. Len(a) + Len(b)
                                 /\ ~(Len(a) + i <= Len(a)) /\ (Len(a) + i) - Len(a) = i
      BY <3>2
    <3>4. ToSet(b) \subseteq ToSet(a \o b)
      BY <3>2, <3>3 DEF ToSet
    <3>5. ToSet(a) \subseteq ToSet(a \o b)
      BY <3>2 DEF ToSet
    <3>6. ToSet(a \o b) \subseteq ToSet(a) \cup ToSet(b)
      BY <3>2 DEF ToSet
    <3> QED
      BY <3>2, <3>4, <3>5, <3>6
  <2> QED
    BY <1>9, <2>1, <2>2
<1>11. TotalPages(found) \in Nat /\ Cardinality(M) <= TotalPages(found) * Size
  <2>1. TotalPages(found) = (Cardinality(M) + Size - 1) \div Size
    BY <1>5 DEF TotalPages
  <2> QED
    BY <1>2, <2>1, PagesHold
<1>12. EntryTypes(new)
  BY <1>1, <1>9, <1>10, <1>11 DEF EntryTypes
<1>13. EntryMatches(key, new)
  <2>1. \A r \in ToSet(new.loaded) : Match(key[1], key[2], r)
    BY <1>1, <1>3, <1>8, <1>10 DEF EntryMatches
  <2>2. new.known \subseteq M
    BY <1>1, <1>6, <1>9 DEF EntryMatches, M
  <2> QED
    BY <2>1, <2>2 DEF EntryMatches, M
<1>14. ASSUME NEW r \in new.known, Cardinality(Ahead(key, r)) < new.n * Size
       PROVE  r \in ToSet(new.loaded)
  <2> DEFINE p == Cardinality(Ahead(key, r)) + 1
  <2>1. r \in M
    BY <1>13 DEF EntryMatches, M
  <2>2. p \in 1 .. Len(found) /\ found[p] = r
    BY <1>5, <1>7, <2>1
  <2>3. Cardinality(Ahead(key, r)) \in Int
    <3>1. IsFiniteSet(Ahead(key, r))
      BY <1>2, FS_Subset DEF Ahead, M
    <3> QED
      BY <3>1, FS_CardinalityType
  <2>4. e.n * Size \in Int /\ new.n * Size \in Int /\ e.n \in Nat /\ new.n = e.n + 1
    <3>1. e.n \in Nat /\ Size \in Nat /\ new.n = e.n + 1
      BY <1>1, <1>9, ListAssumption DEF EntryTypes
    <3> QED
      BY <3>1
  <2>5. CASE e.n * Size < p
    <3>1. p <= new.n * Size
      BY <2>3, <2>4, <1>14
    <3>2. r \in ToSet(added)
      BY <1>8, <2>2, <2>4, <2>5, <3>1
    <3> QED
      BY <1>10, <3>2
  <2>6. CASE ~(e.n * Size < p)
    <3>1. Cardinality(Ahead(key, r)) < e.n * Size
      BY <2>3, <2>4, <2>6
    <3>2. e.n # 0
      <4>1. 0 * Size = 0 /\ 1 <= p
        BY <2>2, ListAssumption
      <4> QED
        BY <4>1, <2>3, <2>6
    <3>3. r \in ToSet(e.loaded)
      BY <1>1, <1>9, <3>1, <3>2 DEF EntryReaches
    <3> QED
      BY <1>10, <3>3
  <2> QED
    BY <2>5, <2>6
<1>15. ASSUME new.n >= new.total, NEW r \in new.known
       PROVE  r \in ToSet(new.loaded)
  <2>1. r \in M
    BY <1>13 DEF EntryMatches, M
  <2>2. Cardinality(Ahead(key, r)) + 1 \in 1 .. Cardinality(M)
    BY <1>7, <2>1
  <2>3. Cardinality(Ahead(key, r)) \in Int
    <3>1. IsFiniteSet(Ahead(key, r))
      BY <1>2, FS_Subset DEF Ahead, M
    <3> QED
      BY <3>1, FS_CardinalityType
  <2>4. Cardinality(M) <= new.n * Size /\ new.n * Size \in Int
    <3>1. new.n \in Nat /\ TotalPages(found) <= new.n /\ Size \in Nat
      BY <1>9, <1>11, <1>12, <1>15, ListAssumption DEF EntryTypes
    <3>2. \A x, y, z \in Nat : x <= y => x * z <= y * z /\ x * z \in Nat /\ y * z \in Nat
      OBVIOUS
    <3>3. /\ TotalPages(found) * Size <= new.n * Size
          /\ TotalPages(found) * Size \in Nat /\ new.n * Size \in Nat
      BY <1>11, <3>1, <3>2
    <3> QED
      BY <1>2, <1>11, <3>3
  <2>5. Cardinality(Ahead(key, r)) < new.n * Size
    BY <1>2, <2>2, <2>3, <2>4
  <2> QED
    BY <1>14, <2>5
<1>16. EntryReaches(key, new)
  BY <1>14, <1>15 DEF EntryReaches
<1> QED
  BY <1>12, <1>13, <1>16 DEF EntryHolds, new, found, e

\* More reports come behind as many as before, or more.
LEMMA ReportsGrow ==
    ASSUME ListInv, NEW r \in toAdd, NewReport(r)
    PROVE  ListInv'
<1>1. /\ reports' = reports \cup {r} /\ cache' = cache
      /\ (reports \cup toAdd)' \subseteq Reports /\ reports' \subseteq Reports
  BY DEF NewReport, ListInv, service
<1>2. ASSUME NEW key \in DOMAIN cache
      PROVE  EntryHolds(key, cache[key])'
  <2> DEFINE e == cache[key]
  <2>1. EntryTypes(e) /\ EntryMatches(key, e) /\ EntryReaches(key, e)
    BY DEF ListInv, EntryHolds
  <2>2. e' = e
    BY <1>1
  <2> HIDE DEF e
  <2>3. Matches(key) \subseteq Matches(key)'
    BY <1>1 DEF Matches
  <2>4. EntryTypes(e)'
    BY <2>1, <2>2 DEF EntryTypes
  <2>5. EntryMatches(key, e)'
    BY <2>1, <2>2, <2>3 DEF EntryMatches
  <2>6. ASSUME NEW q
        PROVE  /\ Cardinality(Ahead(key, q)) \in Nat /\ Cardinality(Ahead(key, q)') \in Nat
               /\ Cardinality(Ahead(key, q)) <= Cardinality(Ahead(key, q)')
    <3>1. Ahead(key, q) \subseteq Ahead(key, q)'
      BY <2>3 DEF Ahead
    <3>2. IsFiniteSet(Ahead(key, q)')
      <4>1. Ahead(key, q)' \subseteq Reports
        BY <1>1 DEF Ahead, Matches
      <4> QED
        BY <4>1, ListAssumption, FS_Subset
    <3> QED
      BY <3>1, <3>2, FS_Subset, FS_CardinalityType
  <2>7. EntryReaches(key, e)'
    <3>1. SUFFICES ASSUME e.n # 0
                   PROVE  /\ \A q \in e.known :
                               Cardinality(Ahead(key, q)') < e.n * Size => q \in ToSet(e.loaded)
                          /\ e.n >= e.total => e.known \subseteq ToSet(e.loaded)
      BY <2>2 DEF EntryReaches
    <3>2. e.n * Size \in Int
      BY <2>1, ListAssumption DEF EntryTypes
    <3>3. ASSUME NEW q \in e.known, Cardinality(Ahead(key, q)') < e.n * Size
          PROVE  q \in ToSet(e.loaded)
      <4>1. Cardinality(Ahead(key, q)) < e.n * Size
        BY <2>6, <3>2, <3>3
      <4> QED
        BY <2>1, <3>1, <4>1 DEF EntryReaches
    <3> QED
      BY <2>1, <3>1, <3>3 DEF EntryReaches
  <2> QED
    BY <2>4, <2>5, <2>7 DEF EntryHolds, e
<1> QED
  BY <1>1, <1>2 DEF ListInv

LEMMA ListStays ==
    ASSUME ListInv, [ListNext]_listVars
    PROVE  ListInv'
<1> DEFINE Holds(c) == \A key \in DOMAIN c : EntryHolds(key, c[key])
<1>1. ASSUME UNCHANGED service, NEW c, cache' = c, Holds(c)
      PROVE  ListInv'
  <2>1. reports' = reports /\ toAdd' = toAdd
    BY <1>1 DEF service
  <2>2. \A key : Matches(key)' = Matches(key)
    BY <2>1 DEF Matches
  <2>3. \A key, r : Ahead(key, r)' = Ahead(key, r)
    BY <2>2 DEF Ahead
  <2>4. \A key, e : EntryHolds(key, e) => EntryHolds(key, e)'
    BY <2>2, <2>3 DEF EntryHolds, EntryTypes, EntryMatches, EntryReaches
  <2>5. \A key \in DOMAIN c : EntryHolds(key, c[key])'
    BY <1>1, <2>4
  <2> QED
    BY <1>1, <2>1, <2>5 DEF ListInv
<1>2. Holds(cache)
  BY DEF ListInv
<1>3. ASSUME NEW key, Revisit(key)
      PROVE  \E c : cache' = c /\ Holds(c)
  BY <1>2, <1>3 DEF Revisit
<1>4. ASSUME NEW key, NEW e, EntryHolds(key, e), Keep(key, e)
      PROVE  \E c : cache' = c /\ Holds(c)
  BY <1>2, <1>4 DEF Keep
<1> HIDE DEF Holds
<1>5. ASSUME UNCHANGED <<cache, service>>
      PROVE  ListInv'
  <2>1. cache' = cache /\ UNCHANGED service
    BY <1>5
  <2>2. \E c : cache' = c /\ Holds(c)
    BY <1>2, <2>1
  <2> QED
    BY <1>1, <2>1, <2>2
<1>6. ASSUME NEW t \in Typed, Type(t)
      PROVE  ListInv'
  BY <1>5, <1>6 DEF Type
<1>7. CASE HintTimer
  BY <1>5, <1>7 DEF HintTimer
<1>8. ASSUME NEW step, Arrow(step)
      PROVE  ListInv'
  BY <1>5, <1>8 DEF Arrow
<1>9. ASSUME NEW text, Search(text)
      PROVE  ListInv'
  BY <1>5, <1>9 DEF Search
<1>10. CASE Enter
  BY <1>9, <1>10 DEF Enter
<1>11. ASSUME NEW i \in DOMAIN Suggestions, PickSuggestion(i) \/ Hover(i)
       PROVE  ListInv'
  <2>1. CASE PickSuggestion(i)
    BY <1>9, <2>1 DEF PickSuggestion
  <2>2. CASE Hover(i)
    BY <1>5, <2>2 DEF Hover
  <2> QED
    BY <1>11, <2>1, <2>2
<1>12. ASSUME NEW shown \in BOOLEAN, Focus(shown)
       PROVE  ListInv'
  BY <1>5, <1>12 DEF Focus
<1>13. ASSUME NEW text, Hide(text)
       PROVE  ListInv'
  BY <1>5, <1>13 DEF Hide
<1>14. ASSUME NEW t \in Terms, PickTerm(t)
       PROVE  ListInv'
  BY <1>1, <1>3, <1>14 DEF PickTerm
<1>15. CASE KeywordTimer
  BY <1>1, <1>3, <1>15 DEF KeywordTimer
<1>16. CASE Fetch
  BY <1>5, <1>16 DEF Fetch
<1>17. ASSUME NEW key \in fetching, PageArrives(key)
       PROVE  ListInv'
  <2>1. EntryHolds(key, PageOf(Found(key), Cached(key)))
    BY PageAdds
  <2> QED
    BY <1>1, <1>4, <1>17, <2>1 DEF PageArrives
<1>18. ASSUME NEW key \in fetching, PageFails(key)
       PROVE  ListInv'
  <2>1. EntryHolds(key, [Cached(key) EXCEPT !.failed = TRUE])
    <3> DEFINE e == Cached(key)
               new == [e EXCEPT !.failed = TRUE]
    <3>1. EntryHolds(key, e)
      BY CachedHolds
    <3> HIDE DEF e
    <3>2. PICK n, l, t, k, f :
               e = [n |-> n, loaded |-> l, total |-> t, known |-> k, failed |-> f]
      BY <3>1 DEF EntryHolds, EntryTypes
    <3> DEFINE old == [n |-> n, loaded |-> l, total |-> t, known |-> k, failed |-> f]
    <3>3. \E b : new = [n |-> n, loaded |-> l, total |-> t, known |-> k, failed |-> b]
      <4>1. \A b : [old EXCEPT !.failed = b] =
              [n |-> n, loaded |-> l, total |-> t, known |-> k, failed |-> b]
        OBVIOUS
      <4>2. new = [old EXCEPT !.failed = TRUE]
        BY <3>2
      <4> HIDE DEF new, old
      <4> QED
        BY <4>1, <4>2
    <3> HIDE DEF old
    <3> HIDE DEF new
    <3>4. /\ new.n = e.n /\ new.loaded = e.loaded /\ new.total = e.total
          /\ new.known = e.known
          /\ new = [n |-> new.n, loaded |-> new.loaded, total |-> new.total,
                    known |-> new.known, failed |-> new.failed]
      BY <3>2, <3>3
    <3>5. EntryHolds(key, new)
      BY <3>1, <3>4 DEF EntryHolds, EntryTypes, EntryMatches, EntryReaches
    <3> QED
      BY <3>5 DEF e, new
  <2> QED
    BY <1>1, <1>4, <1>18, <2>1 DEF PageFails
<1>19. ASSUME NEW r \in toAdd, NewReport(r)
       PROVE  ListInv'
  BY <1>19, ReportsGrow
<1>20. CASE UNCHANGED listVars
  BY <1>5, <1>20 DEF listVars, service
<1> QED
  BY <1>6, <1>7, <1>8, <1>10, <1>11, <1>12, <1>13, <1>14, <1>15, <1>16, <1>17, <1>18, <1>19,
     <1>20 DEF ListNext

LEMMA InvShowsSearch ==
    ASSUME ListInv
    PROVE  ListIsItsSearch
<1>1. EntryTypes(Query) /\ EntryMatches(Key, Query) /\ EntryReaches(Key, Query)
  BY CachedHolds DEF EntryHolds, Query
<1>2. /\ ToSet(Results) = ToSet(Query.loaded)
      /\ Cardinality(ToSet(Results)) = Len(Results)
  BY <1>1, UniqueShows DEF EntryTypes, Results
<1>3. Key[1] = debounced /\ Key[2] = term
  BY DEF Key
<1>4. ListIsOneSearch
  BY <1>1, <1>2, <1>3 DEF ListIsOneSearch, EntryMatches, Match
<1>5. ASSUME Screen \in {"rows", "empty"}, ~HasNextPage
      PROVE  Query.known \subseteq ToSet(Results)
  <2>1. Screen = "rows" \/ Screen = "empty"
    BY <1>5
  <2>2. Query.n # 0
    BY <2>1 DEF Screen, isLoading
  <2>3. Query.n >= Query.total
    BY <1>1, <1>5, <2>2 DEF HasNextPage, EntryTypes
  <2> QED
    BY <1>1, <1>2, <2>2, <2>3 DEF EntryReaches
<1> QED
  BY <1>2, <1>4, <1>5 DEF ListIsItsSearch, EndShowsAll

\* The searched list, for any reports, keywords, terms and page size: late answers of an
\* older keyword or term never mix in, and scrolled to the end the list has each match
\* that was there when it was opened once, however many reports came in between.
THEOREM ListIsAlwaysItsSearch == ListSpec => []ListIsItsSearch
<1>1. ListInit => ListInv
  BY ListStarts
<1>2. ListInv /\ [ListNext]_listVars => ListInv'
  BY ListStays
<1>3. ListInv => ListIsItsSearch
  BY InvShowsSearch
<1> QED
  BY <1>1, <1>2, <1>3, PTL DEF ListSpec

-----------------------------------------------------------------------------
(* The assignment dialog. *)
FormOf(on, name, weight, max, obtained) ==
    [on |-> on, name |-> name, weight |-> weight, max |-> max, obtained |-> obtained]
Made(name, weight, max, obtained) ==
    [name |-> name, weight |-> weight, max |-> max, obtained |-> obtained]

\* A field of the form holds nothing, a dot or a number; an amount is missing or a number.
Amount(x) == x \subseteq Nat /\ \A m, n \in x : m = n
Field(x) == x \subseteq Nat \cup {Dot} /\ \A m, n \in x : m = n
FormTyped(f) == \E on, name, weight, max, obtained :
    /\ Field(weight) /\ Field(max) /\ Field(obtained)
    /\ f = FormOf(on, name, weight, max, obtained)

\* Until a key is pressed the dialog opened on an assignment holds what the assignment is.
FormInv ==
    /\ IsList(assignments) /\ \A it \in ToSet(assignments) : WellMade(it)
    /\ FormTyped(form)
    /\ form.on # {} /\ form.on # {0} /\ ~typed =>
         \E k \in DOMAIN assignments : form = Prefilled(k)

LEMMA WellMadeIs ==
    ASSUME NEW it
    PROVE  WellMade(it) <=>
           /\ it = Made(it.name, it.weight, it.max, it.obtained)
           /\ Amount(it.weight) /\ Amount(it.max) /\ Amount(it.obtained)
           /\ \A m \in it.max : m > 0 /\ \A o \in it.obtained : o <= m
  BY DEF WellMade, Made, Fields, Amount

LEMMA MadeIs ==
    ASSUME NEW name, NEW weight, NEW max, NEW obtained
    PROVE  LET it == Made(name, weight, max, obtained)
           IN  it.name = name /\ it.weight = weight /\ it.max = max /\ it.obtained = obtained
  BY DEF Made

LEMMA FormIs ==
    ASSUME NEW on, NEW name, NEW weight, NEW max, NEW obtained
    PROVE  LET f == FormOf(on, name, weight, max, obtained)
           IN  /\ f.on = on /\ f.name = name /\ f.weight = weight /\ f.max = max
               /\ f.obtained = obtained
  BY DEF FormOf

\* What is saved is well made again.
LEMMA PayloadWellMade ==
    ASSUME NEW f, FormTyped(f)
    PROVE  WellMade(Payload(f))
<1>1. PICK on, name, weight, max, obtained :
        /\ Field(weight) /\ Field(max) /\ Field(obtained)
        /\ f = FormOf(on, name, weight, max, obtained)
  BY DEF FormTyped
<1> DEFINE some == {m \in Number(max) : m > 0}
           kept == {IF \E m \in some : o > m THEN CHOOSE m \in some : TRUE ELSE o :
                    o \in Number(obtained)}
<1>2. f.name = name /\ f.weight = weight /\ f.max = max /\ f.obtained = obtained
  BY <1>1, FormIs
<1>3. Payload(f) = Made(name, Number(weight), some, kept)
  BY <1>2 DEF Payload, Made
<1>4. Amount(Number(weight)) /\ Amount(some) /\ Amount(Number(obtained))
  BY <1>1 DEF Amount, Field, Number
<1>5. \A m \in some : m \in Nat /\ m > 0 /\ some = {m}
  BY <1>4 DEF Amount
<1>6. ASSUME NEW o \in Number(obtained)
      PROVE  LET x == IF \E m \in some : o > m THEN CHOOSE m \in some : TRUE ELSE o
             IN  x \in Nat /\ \A m \in some : x <= m
  <2>1. o \in Nat
    BY <1>4 DEF Amount
  <2> HIDE DEF some
  <2>2. CASE \E m \in some : o > m
    <3>1. PICK m \in some : o > m
      BY <2>2
    <3>2. (CHOOSE n \in some : TRUE) = m /\ m \in Nat /\ m <= m
      BY <1>5
    <3> QED
      BY <2>2, <3>2, <1>5
  <2>3. CASE ~ \E m \in some : o > m
    BY <2>1, <2>3, <1>5
  <2> QED
    BY <2>2, <2>3
<1>7. Amount(kept) /\ \A m \in some, x \in kept : x <= m
  <2> HIDE DEF some
  <2>1. \A x \in kept : x \in Nat /\ \A m \in some : x <= m
    BY <1>6
  <2>2. \A x, y \in kept : x = y
    BY <1>4 DEF Amount
  <2> QED
    BY <2>1, <2>2 DEF Amount
<1> HIDE DEF some, kept
<1> QED
  BY <1>3, <1>4, <1>5, <1>7, WellMadeIs, MadeIs

\* An assignment shown in the form and saved is the assignment.
LEMMA PayloadOfShown ==
    ASSUME NEW it, WellMade(it), NEW on
    PROVE  /\ Payload(FormOf(on, it.name, it.weight, it.max, it.obtained)) = it
           /\ Clamped(FormOf(on, it.name, it.weight, it.max, it.obtained))
                = FormOf(on, it.name, it.weight, it.max, it.obtained)
<1> DEFINE f == FormOf(on, it.name, it.weight, it.max, it.obtained)
<1>1. /\ it = Made(it.name, it.weight, it.max, it.obtained)
      /\ Amount(it.weight) /\ Amount(it.max) /\ Amount(it.obtained)
      /\ \A m \in it.max : m > 0 /\ \A o \in it.obtained : o <= m
  BY WellMadeIs
<1>2. /\ f.name = it.name /\ f.weight = it.weight /\ f.max = it.max /\ f.obtained = it.obtained
  BY FormIs
<1>3. Number(it.weight) = it.weight /\ Number(it.max) = it.max /\ Number(it.obtained) = it.obtained
  BY <1>1 DEF Amount, Number, Dot
<1>4. ~ \E m \in it.max, o \in it.obtained : o > m
  BY <1>1 DEF Amount
<1> HIDE DEF f
<1>5. Clamped(f) = f
  BY <1>2, <1>3, <1>4 DEF Clamped
<1>6. {m \in Number(f.max) : m > 0} = it.max
  BY <1>1, <1>2, <1>3
<1>7. {IF \E m \in it.max : o > m THEN CHOOSE m \in it.max : TRUE ELSE o : o \in Number(f.obtained)}
        = it.obtained
  BY <1>2, <1>3, <1>4
<1>8. Payload(f) = Made(it.name, it.weight, it.max, it.obtained)
  BY <1>2, <1>3, <1>6, <1>7 DEF Payload, Made
<1> QED
  BY <1>1, <1>5, <1>8 DEF f

LEMMA ClampedTyped ==
    ASSUME NEW f, FormTyped(f)
    PROVE  FormTyped(Clamped(f))
<1>1. PICK on, name, weight, max, obtained :
        /\ Field(weight) /\ Field(max) /\ Field(obtained)
        /\ f = FormOf(on, name, weight, max, obtained)
  BY DEF FormTyped
<1>2. [f EXCEPT !.obtained = f.max] = FormOf(on, name, weight, max, max)
  BY <1>1 DEF FormOf
<1>3. FormTyped([f EXCEPT !.obtained = f.max])
  BY <1>1, <1>2 DEF FormTyped
<1> QED
  BY <1>3 DEF Clamped

LEMMA PressedTyped ==
    ASSUME NEW f, FormTyped(f), NEW x \in Fields, NEW text, Field(text), NEW n
    PROVE  FormTyped([f EXCEPT ![x] = text]) /\ FormTyped([f EXCEPT !.name = n])
<1>1. PICK on, name, weight, max, obtained :
        /\ Field(weight) /\ Field(max) /\ Field(obtained)
        /\ f = FormOf(on, name, weight, max, obtained)
  BY DEF FormTyped
<1>2. \/ [f EXCEPT ![x] = text] = FormOf(on, name, text, max, obtained)
      \/ [f EXCEPT ![x] = text] = FormOf(on, name, weight, text, obtained)
      \/ [f EXCEPT ![x] = text] = FormOf(on, name, weight, max, text)
  BY <1>1 DEF FormOf, Fields
<1>3. [f EXCEPT !.name = n] = FormOf(on, n, weight, max, obtained)
  BY <1>1 DEF FormOf
<1> QED
  BY <1>1, <1>2, <1>3 DEF FormTyped

LEMMA BlankTyped ==
    ASSUME NEW on
    PROVE  /\ FormTyped([BlankForm EXCEPT !.on = on]) /\ [BlankForm EXCEPT !.on = on].on = on
           /\ FormTyped(BlankForm) /\ BlankForm.on = {}
<1> DEFINE e == {}
<1>1. Field(e)
  BY DEF Field
<1>2. PICK name : BlankForm = FormOf(e, name, e, e, e)
  BY DEF BlankForm, FormOf
<1> HIDE DEF e
<1>3. [BlankForm EXCEPT !.on = on] = FormOf(on, name, e, e, e)
  BY <1>2 DEF FormOf
<1>4. BlankForm.on = e /\ [BlankForm EXCEPT !.on = on].on = on
  BY <1>2, <1>3, FormIs
<1> QED
  BY <1>1, <1>2, <1>3, <1>4 DEF FormTyped, e

LEMMA FormStarts == FormInit => FormInv
<1> SUFFICES ASSUME FormInit PROVE FormInv
  OBVIOUS
<1>1. IsList(assignments) /\ \A it \in ToSet(assignments) : WellMade(it)
  BY FormAssumption DEF FormInit, IsList, MadeList
<1>2. FormTyped(form) /\ form.on = {}
  BY BlankTyped DEF FormInit
<1> QED
  BY <1>1, <1>2 DEF FormInv

LEMMA ShownTyped ==
    ASSUME FormInv, NEW k \in DOMAIN assignments
    PROVE  /\ WellMade(assignments[k]) /\ FormTyped(Prefilled(k)) /\ Clamped(Prefilled(k)) = Prefilled(k)
           /\ Payload(Prefilled(k)) = assignments[k] /\ Prefilled(k).on = {k}
<1> DEFINE it == assignments[k]
<1>1. WellMade(it)
  BY DEF FormInv, ToSet
<1>2. Prefilled(k) = FormOf({k}, it.name, it.weight, it.max, it.obtained)
  BY DEF Prefilled, FormOf
<1>3. Field(it.weight) /\ Field(it.max) /\ Field(it.obtained)
  BY <1>1, WellMadeIs DEF Amount, Field
<1> HIDE DEF it
<1>4. FormTyped(Prefilled(k)) /\ Prefilled(k).on = {k}
  BY <1>2, <1>3, FormIs DEF FormTyped
<1>5. Clamped(Prefilled(k)) = Prefilled(k) /\ Payload(Prefilled(k)) = it
  BY <1>1, <1>2, PayloadOfShown
<1> QED
  BY <1>1, <1>4, <1>5 DEF it

\* A submission that adds, replaces, or writes back.
LEMMA SubmitFormKeeps ==
    ASSUME FormInv, SubmitForm
    PROVE  FormInv' /\ (~typed /\ form.on # {0} => assignments' = assignments)
<1> DEFINE s == assignments
           p == Payload(form)
<1>1. WellMade(p) /\ IsList(s) /\ \A it \in ToSet(s) : WellMade(it)
  BY PayloadWellMade DEF FormInv
<1>2. FormTyped(form)' /\ form'.on = {}
  BY BlankTyped DEF SubmitForm
<1>3. CASE form.on = {0}
  <2>1. assignments' = Append(s, p)
    BY <1>3 DEF SubmitForm
  <2> HIDE DEF p
  <2>2. IsList(assignments') /\ ToSet(assignments') = ToSet(s) \cup {p}
    BY <1>1, <2>1, Appended
  <2> QED
    BY <1>1, <1>2, <1>3, <2>2 DEF FormInv
<1>4. CASE form.on # {0}
  <2> DEFINE t == [k \in DOMAIN s |-> IF k \in form.on THEN p ELSE s[k]]
  <2>1. assignments' = t
    BY <1>4 DEF SubmitForm
  <2>2. DOMAIN s = 1 .. Len(s) /\ Len(s) \in Nat /\ s = [k \in DOMAIN s |-> s[k]]
    BY <1>1 DEF IsList
  <2> HIDE DEF p
  <2>3. \A k \in DOMAIN t : WellMade(t[k])
    BY <1>1 DEF ToSet
  <2>4. IsList(t) /\ \A it \in ToSet(t) : WellMade(it)
    BY <2>2, <2>3 DEF IsList, ToSet
  <2>5. FormInv'
    <3> HIDE DEF t
    <3> QED
      BY <1>2, <2>1, <2>4 DEF FormInv
  <2>6. ASSUME ~typed
        PROVE  t = s
    <3>1. PICK k \in DOMAIN s : form = Prefilled(k)
      BY <1>4, <2>6 DEF FormInv, SubmitForm, IsFormOpen
    <3>2. form.on = {k} /\ p = s[k]
      BY <3>1, ShownTyped DEF p
    <3> QED
      BY <2>2, <3>2
  <2> QED
    BY <2>1, <2>5, <2>6
<1> QED
  BY <1>3, <1>4

LEMMA FormStays == FormInv /\ [FormNext]_formVars => FormInv'
<1> SUFFICES ASSUME FormInv, [FormNext]_formVars PROVE FormInv'
  OBVIOUS
<1> DEFINE Listed1 == IsList(assignments) /\ \A it \in ToSet(assignments) : WellMade(it)
<1>1. FormTyped(form)
  BY DEF FormInv
<1>2. ASSUME UNCHANGED assignments, FormTyped(form'), form'.on = {} \/ form'.on = {0} \/ typed'
      PROVE  FormInv'
  BY <1>2 DEF FormInv
<1>3. CASE OpenAdd
  BY <1>2, <1>3, BlankTyped DEF OpenAdd, OpenForm
<1>4. CASE Cancel
  BY <1>2, <1>4, BlankTyped DEF Cancel
<1>5. CASE SubmitForm
  BY <1>5, SubmitFormKeeps
<1>6. ASSUME NEW k \in DOMAIN assignments, OpenEdit(k)
      PROVE  FormInv'
  <2>1. form' = Prefilled(k) /\ FormTyped(form') /\ UNCHANGED assignments
    BY <1>6, ShownTyped DEF OpenEdit, OpenForm
  <2>2. Prefilled(k)' = Prefilled(k)
    BY <2>1 DEF Prefilled
  <2> QED
    BY <2>1, <2>2 DEF FormInv
<1>7. ASSUME NEW n, TypeName(n)
      PROVE  FormInv'
  <2>1. Field({})
    BY DEF Field
  <2>2. FormTyped(form')
    BY <1>1, <1>7, <2>1, PressedTyped DEF TypeName, Fields
  <2> QED
    BY <1>2, <1>7, <2>2 DEF TypeName
<1>8. ASSUME NEW f \in Fields, NEW text, Press(f, text)
      PROVE  FormInv'
  <2>1. Field(text)
    BY <1>8, FormAssumption DEF Press, Texts, Field
  <2>2. FormTyped(form')
    BY <1>1, <1>8, <2>1, PressedTyped, ClampedTyped DEF Press
  <2> QED
    BY <1>2, <1>8, <2>2 DEF Press
<1>9. CASE UNCHANGED formVars
  BY <1>9 DEF formVars, FormInv, Prefilled
<1> QED
  BY <1>3, <1>4, <1>5, <1>6, <1>7, <1>8, <1>9 DEF FormNext

\* Opening an assignment and saving it untouched writes back what it was, whatever the
\* assignments (handleEditItem, the clamping effect and handleUpdateItem).
THEOREM UntouchedSaves == FormInit /\ [][FormNext]_formVars => UntouchedSaveChangesNothing
<1>1. FormInv /\ [FormNext]_formVars =>
        [submits' # submits /\ ~typed /\ form.on # {0} => assignments' = assignments]_formVars
  <2> SUFFICES ASSUME FormInv, [FormNext]_formVars, submits' # submits, ~typed, form.on # {0}
               PROVE  assignments' = assignments
    OBVIOUS
  <2>1. SubmitForm \/ UNCHANGED assignments
    BY DEF FormNext, formVars, OpenAdd, OpenEdit, OpenForm, Cancel, TypeName, Press
  <2> QED
    BY <2>1, SubmitFormKeeps
<1> QED
  BY <1>1, FormStarts, FormStays, PTL DEF UntouchedSaveChangesNothing
-----------------------------------------------------------------------------
(* The numbers of the assignments. *)

\* A sum is a tally that starts at nothing and takes in one place at a time.
Nats(values) == \A k \in DOMAIN values : values[k] \in Nat
At(values, k) == IF k \in DOMAIN values THEN values[k] ELSE 0
Tally(s, values, n) == s[0] = 0 /\ \A k \in 1 .. n : s[k] = s[k - 1] + At(values, k)

LEMMA AtIsNat ==
    ASSUME NEW values, Nats(values), NEW k
    PROVE  At(values, k) \in Nat
  BY DEF Nats, At

LEMMA SumTallies ==
    ASSUME NEW n \in Nat, NEW values, Nats(values)
    PROVE  \E s : /\ Tally(s, values, n) /\ Sum(values, n) = s[n]
                  /\ \A k \in 0 .. n : s[k] \in Nat
<1> DEFINE F == [k \in 1 .. n |-> [x \in Nat |-> x + At(values, k)]]
           s == CHOOSE h : h = [k \in 0 .. n |-> IF k = 0 THEN 0
                                  ELSE h[k - 1] + (IF k \in DOMAIN values THEN values[k] ELSE 0)]
<1>1. Sum(values, n) = s[n]
  BY DEF Sum
<1>2. \A k \in 1 .. n : \A x \in Nat : F[k][x] \in Nat /\ F[k][x] = x + At(values, k)
  BY AtIsNat
<1>3. PICK g \in [0 .. n -> Nat] :
        \A k \in 0 .. n : g[k] = IF k = 0 THEN 0 ELSE F[k][g[k - 1]]
  <2> HIDE DEF F
  <2>1. \A k \in 1 .. n : \A x \in Nat : F[k][x] \in Nat
    BY <1>2
  <2>2. \E g \in [0 .. n -> Nat] : Steps(g, n, 0, F)
    BY <2>1, StepsExist
  <2> QED
    BY <2>2 DEF Steps
<1>4. \A k \in 0 .. n : g[k] = IF k = 0 THEN 0 ELSE g[k - 1] + At(values, k)
  <2>1. \A k \in 0 .. n : k # 0 => k \in 1 .. n /\ k - 1 \in 0 .. n
    OBVIOUS
  <2> HIDE DEF F
  <2> QED
    BY <2>1, <1>2, <1>3
<1>5. g = [k \in 0 .. n |-> IF k = 0 THEN 0
                            ELSE g[k - 1] + (IF k \in DOMAIN values THEN values[k] ELSE 0)]
  BY <1>3, <1>4 DEF At
<1>6. s = [k \in 0 .. n |-> IF k = 0 THEN 0
                            ELSE s[k - 1] + (IF k \in DOMAIN values THEN values[k] ELSE 0)]
  BY <1>5
<1> HIDE DEF s
<1>7. Tally(s, values, n)
  <2>1. 0 \in 0 .. n /\ \A k \in 1 .. n : k \in 0 .. n /\ k # 0
    OBVIOUS
  <2>2. \A k \in 0 .. n : s[k] = IF k = 0 THEN 0 ELSE s[k - 1] + At(values, k)
    BY <1>6 DEF At
  <2> QED
    BY <2>1, <2>2 DEF Tally
<1>8. \A k \in 0 .. n : s[k] \in Nat
  <2> DEFINE P == {k \in 0 .. n : s[k] \in Nat}
  <2>1. 0 \in P
    BY <1>7 DEF Tally
  <2>2. \A k \in 1 .. n : k - 1 \in P => k \in P
    BY <1>7, AtIsNat DEF Tally
  <2> HIDE DEF P
  <2>3. \A k \in 0 .. n : k \in P
    BY <2>1, <2>2, StepByStep
  <2> QED
    BY <2>3 DEF P
<1> QED
  BY <1>1, <1>7, <1>8

LEMMA SumIsNat ==
    ASSUME NEW n \in Nat, NEW values, Nats(values)
    PROVE  Sum(values, n) \in Nat
<1>1. n \in 0 .. n
  OBVIOUS
<1> QED
  BY <1>1, SumTallies

LEMMA ProductGrows ==
    ASSUME NEW a \in Nat, NEW b \in Nat, NEW c \in Nat
    PROVE  /\ (a + b) * c = a * c + b * c /\ a * c \in Nat /\ c * a = a * c
           /\ a <= b => a * c <= b * c
<1>1. a <= b => a * c <= b * c
  <2> SUFFICES ASSUME a <= b PROVE a * c <= b * c
    OBVIOUS
  <2>1. PICK d \in Nat : b = a + d
    <3>1. b - a \in Nat /\ b = a + (b - a)
      OBVIOUS
    <3> QED
      BY <3>1
  <2>2. (a + d) * c = a * c + d * c /\ d * c >= 0 /\ d * c \in Nat /\ a * c \in Nat
    OBVIOUS
  <2> QED
    BY <2>1, <2>2
<1> QED
  BY <1>1

\* Sums of places that are at most so many times the places of another.
LEMMA SumsCompare ==
    ASSUME NEW n \in Nat, NEW c \in Nat, NEW v, Nats(v), NEW w, Nats(w),
           \A k \in 1 .. n : At(v, k) <= At(w, k) * c
    PROVE  Sum(v, n) <= Sum(w, n) * c
<1>1. PICK s : /\ Tally(s, v, n) /\ Sum(v, n) = s[n] /\ \A k \in 0 .. n : s[k] \in Nat
  BY SumTallies
<1>2. PICK t : /\ Tally(t, w, n) /\ Sum(w, n) = t[n] /\ \A k \in 0 .. n : t[k] \in Nat
  BY SumTallies
<1> DEFINE P == {k \in 0 .. n : s[k] <= t[k] * c}
<1>3. 0 \in P
  BY <1>1, <1>2 DEF Tally
<1>4. ASSUME NEW k \in 1 .. n, k - 1 \in P
      PROVE  k \in P
  <2>1. /\ s[k] = s[k - 1] + At(v, k) /\ t[k] = t[k - 1] + At(w, k)
        /\ k - 1 \in 0 .. n /\ k \in 0 .. n
    BY <1>1, <1>2 DEF Tally
  <2>2. s[k - 1] \in Nat /\ t[k - 1] \in Nat /\ At(v, k) \in Nat /\ At(w, k) \in Nat
    BY <2>1, <1>1, <1>2, AtIsNat
  <2>3. (t[k - 1] + At(w, k)) * c = t[k - 1] * c + At(w, k) * c
        /\ t[k - 1] * c \in Nat /\ At(w, k) * c \in Nat
    BY <2>2, ProductGrows
  <2>4. s[k - 1] <= t[k - 1] * c
    BY <1>4
  <2> HIDE DEF P
  <2>5. s[k] <= t[k] * c
    BY <2>1, <2>2, <2>3, <2>4
  <2> QED
    BY <2>1, <2>5 DEF P
<1> HIDE DEF P
<1>5. \A k \in 0 .. n : k \in P
  BY <1>3, <1>4, StepByStep
<1>6. n \in P
  BY <1>5
<1> QED
  BY <1>1, <1>2, <1>6 DEF P

\* What two sums share out between them.
LEMMA SumsAdd ==
    ASSUME NEW n \in Nat, NEW u, Nats(u), NEW v, Nats(v), NEW w, Nats(w),
           \A k \in 1 .. n : At(u, k) = At(v, k) + At(w, k)
    PROVE  Sum(u, n) = Sum(v, n) + Sum(w, n)
<1>1. PICK r : /\ Tally(r, u, n) /\ Sum(u, n) = r[n] /\ \A k \in 0 .. n : r[k] \in Nat
  BY SumTallies
<1>2. PICK s : /\ Tally(s, v, n) /\ Sum(v, n) = s[n] /\ \A k \in 0 .. n : s[k] \in Nat
  BY SumTallies
<1>3. PICK t : /\ Tally(t, w, n) /\ Sum(w, n) = t[n] /\ \A k \in 0 .. n : t[k] \in Nat
  BY SumTallies
<1> DEFINE P == {k \in 0 .. n : r[k] = s[k] + t[k]}
<1>4. 0 \in P
  BY <1>1, <1>2, <1>3 DEF Tally
<1>5. ASSUME NEW k \in 1 .. n, k - 1 \in P
      PROVE  k \in P
  <2>1. /\ r[k] = r[k - 1] + At(u, k) /\ s[k] = s[k - 1] + At(v, k) /\ t[k] = t[k - 1] + At(w, k)
        /\ k - 1 \in 0 .. n /\ k \in 0 .. n
    BY <1>1, <1>2, <1>3 DEF Tally
  <2>2. /\ r[k - 1] \in Nat /\ s[k - 1] \in Nat /\ t[k - 1] \in Nat
        /\ At(v, k) \in Nat /\ At(w, k) \in Nat /\ At(u, k) \in Nat
    BY <2>1, <1>1, <1>2, <1>3, AtIsNat
  <2>3. r[k - 1] = s[k - 1] + t[k - 1]
    BY <1>5
  <2> HIDE DEF P
  <2>4. r[k] = s[k] + t[k]
    BY <2>1, <2>2, <2>3
  <2> QED
    BY <2>1, <2>4 DEF P
<1> HIDE DEF P
<1>6. \A k \in 0 .. n : k \in P
  BY <1>4, <1>5, StepByStep
<1>7. n \in P
  BY <1>6
<1> QED
  BY <1>1, <1>2, <1>3, <1>7 DEF P

\* A sum of so many places, none of them above c.
LEMMA SumBounded ==
    ASSUME NEW n \in Nat, NEW c \in Nat, NEW v, Nats(v), DOMAIN v \subseteq 1 .. n,
           \A k \in DOMAIN v : v[k] <= c
    PROVE  IsFiniteSet(DOMAIN v) /\ Sum(v, n) <= Cardinality(DOMAIN v) * c
<1> DEFINE D == DOMAIN v
           Upto(k) == D \cap (1 .. k)
<1>1. PICK s : /\ Tally(s, v, n) /\ Sum(v, n) = s[n] /\ \A k \in 0 .. n : s[k] \in Nat
  BY SumTallies
<1>2. \A k \in 0 .. n : IsFiniteSet(Upto(k)) /\ Cardinality(Upto(k)) \in Nat
  <2>1. ASSUME NEW k \in 0 .. n
        PROVE  IsFiniteSet(Upto(k))
    <3>1. IsFiniteSet(1 .. k)
      BY FS_Interval
    <3> QED
      BY <3>1, FS_Subset
  <2> QED
    BY <2>1, FS_CardinalityType
<1> DEFINE P == {k \in 0 .. n : s[k] <= Cardinality(Upto(k)) * c}
<1>3. 0 \in P
  <2>1. s[0] = 0 /\ 0 \in 0 .. n
    BY <1>1 DEF Tally
  <2>2. Cardinality(Upto(0)) * c \in Nat
    BY <1>2, <2>1, ProductGrows
  <2> HIDE DEF Upto
  <2> QED
    BY <2>1, <2>2
<1>4. ASSUME NEW k \in 1 .. n, k - 1 \in P
      PROVE  k \in P
  <2>1. s[k] = s[k - 1] + At(v, k) /\ k - 1 \in 0 .. n /\ k \in 0 .. n
    BY <1>1 DEF Tally
  <2>2. s[k - 1] \in Nat /\ At(v, k) \in Nat /\ IsFiniteSet(Upto(k - 1))
        /\ Cardinality(Upto(k - 1)) \in Nat
    BY <2>1, <1>1, <1>2, AtIsNat
  <2>3. s[k - 1] <= Cardinality(Upto(k - 1)) * c
    BY <1>4
  <2>4. CASE k \in D
    <3>1. Upto(k) = Upto(k - 1) \cup {k} /\ k \notin Upto(k - 1)
      BY <2>4
    <3>2. At(v, k) <= c
      BY <2>4 DEF At
    <3> HIDE DEF Upto, P
    <3>3. Cardinality(Upto(k)) = Cardinality(Upto(k - 1)) + 1
      BY <3>1, <2>2, FS_AddElement
    <3>4. (Cardinality(Upto(k - 1)) + 1) * c = Cardinality(Upto(k - 1)) * c + 1 * c
          /\ Cardinality(Upto(k - 1)) * c \in Nat
      BY <2>2, ProductGrows
    <3>5. s[k] <= Cardinality(Upto(k)) * c
      BY <2>1, <2>2, <2>3, <3>2, <3>3, <3>4
    <3> QED
      BY <2>1, <3>5 DEF P
  <2>5. CASE k \notin D
    <3>1. Upto(k) = Upto(k - 1)
      BY <2>5
    <3>2. At(v, k) = 0
      BY <2>5 DEF At
    <3> HIDE DEF Upto, P
    <3>3. s[k] <= Cardinality(Upto(k)) * c
      BY <2>1, <2>2, <2>3, <3>1, <3>2
    <3> QED
      BY <2>1, <3>3 DEF P
  <2> QED
    BY <2>4, <2>5
<1>5. \A k \in 0 .. n : k \in P
  <2> HIDE DEF P
  <2> QED
    BY <1>3, <1>4, StepByStep
<1>6. n \in 0 .. n /\ n \in P /\ Upto(n) = D
  BY <1>5
<1> QED
  BY <1>1, <1>2, <1>6

\* An assignment weighs something or nothing, and its score is a part of the scale.
LEMMA TheIs ==
    ASSUME NEW x, Amount(x)
    PROVE  The(x) \in Nat /\ (x # {} => The(x) \in x)
<1>1. CASE x = {}
  <2>1. The(x) \in {0}
    BY <1>1 DEF The
  <2> QED
    BY <1>1, <2>1
<1>2. CASE x # {}
  <2>1. \E n \in x \cup {0} : x # {} => n \in x
    BY <1>2
  <2>2. The(x) \in x
    BY <1>2, <2>1 DEF The
  <2> QED
    BY <2>2 DEF Amount
<1> QED
  BY <1>1, <1>2

LEMMA PartOfScale ==
    ASSUME NEW c \in Nat, NEW m \in Nat, m > 0, NEW o \in Nat, o <= m
    PROVE  (c \div m) * o \in Nat /\ (c \div m) * o <= c
<1> DEFINE d == c \div m
<1>1. d \in Nat /\ d * m <= c
  OBVIOUS
<1> HIDE DEF d
<1>2. o * d <= m * d /\ o * d \in Nat /\ d * o = o * d /\ d * m = m * d
  BY <1>1, ProductGrows
<1> QED
  BY <1>1, <1>2 DEF d

LEMMA ScoreInScale ==
    ASSUME NEW it, WellMade(it)
    PROVE  /\ WeightOf(it) \in Nat
           /\ HasCompleteScore(it) => Ratio(it) \in Nat /\ Ratio(it) <= Scale
<1>1. /\ Amount(it.weight) /\ Amount(it.max) /\ Amount(it.obtained)
      /\ \A m \in it.max : m > 0 /\ \A o \in it.obtained : o <= m
  BY WellMadeIs
<1>2. WeightOf(it) \in Nat
  BY <1>1, TheIs DEF WeightOf
<1>3. ASSUME HasCompleteScore(it)
      PROVE  Ratio(it) \in Nat /\ Ratio(it) <= Scale
  <2>1. /\ The(it.max) \in Nat /\ The(it.max) > 0
        /\ The(it.obtained) \in Nat /\ The(it.obtained) <= The(it.max)
    BY <1>1, <1>3, TheIs DEF HasCompleteScore
  <2> QED
    BY <2>1, PartOfScale, FormAssumption DEF Ratio
<1> QED
  BY <1>2, <1>3

\* Of a list of such assignments: what was earned is at most what was weighed.
LEMMA ListIs ==
    ASSUME NEW its, MadeList(its)
    PROVE  /\ Len(its) \in Nat /\ DOMAIN its = 1 .. Len(its)
           /\ \A i \in DOMAIN its : WellMade(its[i])
  BY DEF MadeList, ToSet

LEMMA WeightsAreNats ==
    ASSUME NEW its, MadeList(its), NEW I \in SUBSET DOMAIN its
    PROVE  Nats([i \in I |-> WeightOf(its[i])]) /\ Weight(its, I) \in Nat
<1>1. Nats([i \in I |-> WeightOf(its[i])])
  BY ListIs, ScoreInScale DEF Nats
<1> QED
  BY <1>1, ListIs, SumIsNat DEF Weight

Parts(its) == [i \in Scored(its) |-> WeightOf(its[i]) * Ratio(its[i])]
LEMMA PartsAreNats ==
    ASSUME NEW its, MadeList(its)
    PROVE  Nats(Parts(its)) /\ Earned(its) \in Nat
<1>1. ASSUME NEW i \in Scored(its)
      PROVE  WeightOf(its[i]) * Ratio(its[i]) \in Nat
  <2>1. WeightOf(its[i]) \in Nat /\ Ratio(its[i]) \in Nat
    BY ListIs, ScoreInScale DEF Scored
  <2> QED
    BY <2>1, ProductGrows
<1>2. Nats(Parts(its))
  BY <1>1 DEF Nats, Parts
<1> QED
  BY <1>2, ListIs, SumIsNat DEF Earned, Parts

LEMMA EarnedIsWeighed ==
    ASSUME NEW its, MadeList(its)
    PROVE  Earned(its) <= Weight(its, Scored(its)) * Scale
<1> DEFINE v == Parts(its)
           w == [i \in Scored(its) |-> WeightOf(its[i])]
           n == Len(its)
<1>1. Scored(its) \in SUBSET DOMAIN its
  BY DEF Scored
<1>2. Nats(v) /\ Nats(w) /\ n \in Nat /\ Scale \in Nat
  BY <1>1, PartsAreNats, WeightsAreNats, ListIs, FormAssumption
<1>3. ASSUME NEW k \in 1 .. n
      PROVE  At(v, k) <= At(w, k) * Scale
  <2>1. CASE k \in Scored(its)
    <3>1. At(v, k) = WeightOf(its[k]) * Ratio(its[k]) /\ At(w, k) = WeightOf(its[k])
      BY <2>1 DEF At, Parts
    <3>2. WeightOf(its[k]) \in Nat /\ Ratio(its[k]) \in Nat /\ Ratio(its[k]) <= Scale
      BY <2>1, ListIs, ScoreInScale DEF Scored
    <3>3. Ratio(its[k]) * WeightOf(its[k]) <= Scale * WeightOf(its[k])
          /\ WeightOf(its[k]) * Ratio(its[k]) = Ratio(its[k]) * WeightOf(its[k])
          /\ WeightOf(its[k]) * Scale = Scale * WeightOf(its[k])
      BY <3>2, <1>2, ProductGrows
    <3> HIDE DEF v, w
    <3> QED
      BY <3>1, <3>3
  <2>2. CASE k \notin Scored(its)
    <3>1. At(v, k) = 0 /\ At(w, k) = 0
      BY <2>2 DEF At, Parts
    <3> HIDE DEF v, w
    <3> QED
      BY <3>1, <1>2
  <2> QED
    BY <2>1, <2>2
<1>4. Sum(v, n) <= Sum(w, n) * Scale
  <2> HIDE DEF v, w, n
  <2> QED
    BY <1>2, <1>3, SumsCompare
<1> QED
  BY <1>4 DEF Earned, Weight, Parts

LEMMA MeanInScale ==
    ASSUME NEW its, MadeList(its), Scored(its) # {}
    PROVE  Mean(its) \in Nat /\ Mean(its) <= Scale
<1> DEFINE v == [i \in Scored(its) |-> Ratio(its[i])]
           n == Len(its)
           c == Cardinality(Scored(its))
<1>1. /\ DOMAIN v = Scored(its) /\ Scored(its) \subseteq 1 .. n /\ n \in Nat
      /\ \A k \in DOMAIN v : v[k] \in Nat /\ v[k] <= Scale
  BY ListIs, ScoreInScale DEF Scored
<1>2. Mean(its) = Sum(v, n) \div c
  BY DEF Mean
<1>3. Nats(v) /\ Scale \in Nat
  BY <1>1, FormAssumption DEF Nats
<1> HIDE DEF v, n
<1>4. IsFiniteSet(Scored(its)) /\ Sum(v, n) <= c * Scale
  BY <1>1, <1>3, SumBounded
<1>5. c \in Nat /\ c > 0
  BY <1>4, FS_CardinalityType, FS_EmptySet
<1>6. Sum(v, n) \in Nat
  BY <1>1, <1>3, SumIsNat
<1> HIDE DEF c
<1>7. ASSUME NEW s \in Nat, s <= c * Scale
      PROVE  s \div c \in Nat /\ s \div c <= Scale
  <2> DEFINE d == s \div c
  <2>1. d \in Nat /\ d * c <= s
    BY <1>5
  <2> HIDE DEF d
  <2>2. SUFFICES ASSUME Scale + 1 <= d
                 PROVE  FALSE
    BY <2>1, <1>3 DEF d
  <2>3. (Scale + 1) * c <= d * c /\ (Scale + 1) * c = Scale * c + 1 * c /\ Scale * c = c * Scale
    BY <2>1, <2>2, <1>3, <1>5, ProductGrows
  <2> QED
    BY <2>1, <2>3, <1>3, <1>5, <1>7
<1> QED
  BY <1>2, <1>4, <1>6, <1>7

\* The rungs reached by a score, the highest of which is its grade.
RungsReached(s) == {q[2] : q \in {r \in Ladder : s >= r[1] * Scale}}

Points == 0 .. 400
LEMMA Rungs == \A q \in Ladder : q[1] \in Nat /\ q[2] \in Points
  BY DEF Ladder, Points

LEMMA GradeIsHighest ==
    ASSUME NEW s \in Nat
    PROVE  /\ ScoreToGPA(s) \in RungsReached(s) /\ ScoreToGPA(s) \in Nat
           /\ \A h \in RungsReached(s) : h <= ScoreToGPA(s)
<1>1. RungsReached(s) \in SUBSET Points
  BY Rungs DEF RungsReached
<1>2. RungsReached(s) # {}
  <2>1. <<0, 0>> \in Ladder
    BY DEF Ladder
  <2>2. <<0, 0>>[1] * Scale = 0
    BY FormAssumption
  <2>3. <<0, 0>> \in {r \in Ladder : s >= r[1] * Scale}
    BY <2>1, <2>2
  <2> QED
    BY <2>3 DEF RungsReached
<1>3. IsFiniteSet(RungsReached(s)) /\ RungsReached(s) \in SUBSET Int
  <2>1. IsFiniteSet(Points) /\ Points \in SUBSET Int
    <3>1. \A n \in Nat : IsFiniteSet(0 .. n) /\ 0 .. n \in SUBSET Int
      BY FS_Interval
    <3>2. PICK n \in Nat : n = 400
      OBVIOUS
    <3>3. Points = 0 .. n
      BY <3>2, Zenon DEF Points
    <3> QED
      BY <3>1, <3>3
  <2> QED
    BY <1>1, <2>1, FS_Subset
<1>4. \E g \in RungsReached(s) : \A h \in RungsReached(s) : h <= g
  BY <1>2, <1>3, GreatestExists
<1>5. ScoreToGPA(s) = CHOOSE g \in RungsReached(s) : \A h \in RungsReached(s) : h <= g
  BY DEF ScoreToGPA, RungsReached
<1> QED
  BY <1>1, <1>3, <1>4, <1>5 DEF Points

LEMMA BetterScoreBetterGrade ==
    ASSUME NEW s \in Nat, NEW t \in Nat, s <= t
    PROVE  ScoreToGPA(s) <= ScoreToGPA(t)
<1>1. \A q \in Ladder : q[1] * Scale \in Nat
  BY Rungs, FormAssumption, ProductGrows
<1>2. RungsReached(s) \subseteq RungsReached(t)
  BY <1>1 DEF RungsReached
<1> QED
  BY <1>2, GradeIsHighest

\* Above the highest rung there is nothing to gain.
LEMMA HighestRung ==
    ASSUME NEW s \in Nat
    PROVE  ScoreToGPA(s) <= ScoreToGPA(Lesser(100 * Scale, s))
<1>1. Scale \in Nat /\ 100 * Scale \in Nat
  BY FormAssumption
<1>2. CASE 100 * Scale < s
  <2>1. Lesser(100 * Scale, s) = 100 * Scale
    BY <1>1, <1>2 DEF Lesser
  <2>2. \A q \in Ladder : q[1] * Scale <= 100 * Scale
    <3>1. \A q \in Ladder : q[1] \in Nat /\ q[1] <= 100
      BY DEF Ladder
    <3> QED
      BY <3>1, <1>1, ProductGrows
  <2>3. RungsReached(s) \subseteq RungsReached(100 * Scale)
    BY <2>2 DEF RungsReached
  <2> QED
    BY <1>1, <2>1, <2>3, GradeIsHighest
<1>3. CASE ~(100 * Scale < s)
  <2>1. Lesser(100 * Scale, s) \in Nat /\ s <= Lesser(100 * Scale, s)
    BY <1>1, <1>3 DEF Lesser
  <2> QED
    BY <2>1, BetterScoreBetterGrade
<1> QED
  BY <1>2, <1>3

\* The three grades of a list with a score.
LEMMA GradesInOrder ==
    ASSUME NEW its, MadeList(its), Scored(its) # {}
    PROVE  /\ ScoreToGPA(Earned(its)) \in Nat /\ ScoreToGPA(Projected(its)) \in Nat
           /\ ScoreToGPA(MaxPossible(its)) \in Nat
           /\ ScoreToGPA(Earned(its)) <= ScoreToGPA(Projected(its))
           /\ ScoreToGPA(Projected(its)) <= ScoreToGPA(MaxPossible(its))
<1> DEFINE e == Earned(its)
           m == Mean(its)
           r == Remaining(its)
<1>1. e \in Nat /\ m \in Nat /\ m <= Scale /\ Scale \in Nat
  BY PartsAreNats, MeanInScale, FormAssumption
<1>2. r \in Nat
  <2>1. Scored(its) \in SUBSET DOMAIN its
    BY DEF Scored
  <2>2. Weight(its, Scored(its)) \in Nat
    BY <2>1, WeightsAreNats
  <2> QED
    BY <2>2 DEF Remaining
<1>3. /\ Projected(its) = Lesser(100 * Scale, e + m * r)
      /\ MaxPossible(its) = Lesser(100 * Scale, e + r * Scale)
  BY DEF Projected, MaxPossible
<1> HIDE DEF e, m, r
<1>4. m * r \in Nat /\ m * r <= Scale * r /\ r * Scale = Scale * r /\ Scale * r \in Nat
      /\ 100 * Scale \in Nat
  BY <1>1, <1>2, ProductGrows
<1> DEFINE p == Lesser(100 * Scale, e + m * r)
           x == Lesser(100 * Scale, e + r * Scale)
<1>5. p \in Nat /\ x \in Nat /\ p <= x
  BY <1>1, <1>4 DEF Lesser
<1>6. ScoreToGPA(e) <= ScoreToGPA(e + m * r) /\ ScoreToGPA(e + m * r) <= ScoreToGPA(p)
  <2>1. e + m * r \in Nat /\ e <= e + m * r
    BY <1>1, <1>4
  <2> QED
    BY <1>1, <2>1, BetterScoreBetterGrade, HighestRung
<1>7. ScoreToGPA(p) <= ScoreToGPA(x)
  BY <1>5, BetterScoreBetterGrade
<1>8. /\ ScoreToGPA(e) \in Nat /\ ScoreToGPA(p) \in Nat /\ ScoreToGPA(x) \in Nat
      /\ ScoreToGPA(e + m * r) \in Nat
  <2>1. e + m * r \in Nat
    BY <1>1, <1>4
  <2> QED
    BY <2>1, <1>1, <1>5, GradeIsHighest
<1> QED
  <2> HIDE DEF p, x
  <2>1. ScoreToGPA(e) <= ScoreToGPA(p)
    BY <1>6, <1>8
  <2> QED
    BY <1>3, <1>7, <1>8, <2>1 DEF e, p, x

\* The totals of courses, by what each of its courses has.
Grades(cs, grade) == [i \in Counting(cs) |-> grade[i] * cs[i].credits]
Course(c) == c.credits \in Nat /\ MadeList(c.items)

LEMMA TotalsCompare ==
    ASSUME NEW cs, Len(cs) \in Nat, \A i \in DOMAIN cs : Course(cs[i]),
           NEW f, NEW g, \A i \in Counting(cs) : f[i] \in Nat /\ g[i] \in Nat /\ f[i] <= g[i]
    PROVE  Sum(Grades(cs, f), Len(cs)) <= Sum(Grades(cs, g), Len(cs))
<1> DEFINE v == Grades(cs, f)
           w == Grades(cs, g)
           n == Len(cs)
<1>1. ASSUME NEW i \in Counting(cs)
      PROVE  v[i] \in Nat /\ w[i] \in Nat /\ v[i] <= w[i]
  <2>1. cs[i].credits \in Nat /\ f[i] \in Nat /\ g[i] \in Nat /\ f[i] <= g[i]
    BY DEF Counting, Course
  <2>2. v[i] = f[i] * cs[i].credits /\ w[i] = g[i] * cs[i].credits
    BY DEF Grades
  <2> HIDE DEF v, w
  <2> QED
    BY <2>1, <2>2, ProductGrows
<1>2. DOMAIN v = Counting(cs) /\ DOMAIN w = Counting(cs)
  BY DEF Grades
<1> HIDE DEF v, w, n
<1>3. Nats(v) /\ Nats(w) /\ n \in Nat
  BY <1>1, <1>2 DEF Nats, n
<1>4. \A k \in 1 .. n : At(v, k) <= At(w, k) * 1
  <2>1. ASSUME NEW k \in 1 .. n
        PROVE  At(v, k) <= At(w, k)
    BY <1>1, <1>2 DEF At
  <2> QED
    BY <2>1, <1>3, AtIsNat
<1>5. Sum(v, n) <= Sum(w, n) * 1 /\ Sum(w, n) \in Nat
  BY <1>3, <1>4, SumsCompare, SumIsNat
<1> QED
  BY <1>5 DEF v, w, n

LEMMA TotalsInOrder ==
    ASSUME NEW cs, Len(cs) \in Nat, \A i \in DOMAIN cs : Course(cs[i])
    PROVE  /\ Total(cs, Earned) <= Total(cs, Projected)
           /\ Total(cs, Projected) <= Total(cs, MaxPossible)
<1> DEFINE f == [i \in Counting(cs) |-> ScoreToGPA(Earned(cs[i].items))]
           g == [i \in Counting(cs) |-> ScoreToGPA(Projected(cs[i].items))]
           h == [i \in Counting(cs) |-> ScoreToGPA(MaxPossible(cs[i].items))]
<1>1. /\ Total(cs, Earned) = Sum(Grades(cs, f), Len(cs))
      /\ Total(cs, Projected) = Sum(Grades(cs, g), Len(cs))
      /\ Total(cs, MaxPossible) = Sum(Grades(cs, h), Len(cs))
  <2>1. /\ Grades(cs, f) = [i \in Counting(cs) |-> ScoreToGPA(Earned(cs[i].items)) * cs[i].credits]
        /\ Grades(cs, g) = [i \in Counting(cs) |-> ScoreToGPA(Projected(cs[i].items)) * cs[i].credits]
        /\ Grades(cs, h) = [i \in Counting(cs) |-> ScoreToGPA(MaxPossible(cs[i].items)) * cs[i].credits]
    BY DEF Grades
  <2> QED
    BY <2>1 DEF Total
<1>2. \A i \in Counting(cs) : MadeList(cs[i].items) /\ Scored(cs[i].items) # {}
  BY DEF Counting, Course
<1>3. \A i \in Counting(cs) : /\ f[i] \in Nat /\ g[i] \in Nat /\ h[i] \in Nat
                                   /\ f[i] <= g[i] /\ g[i] <= h[i]
  BY <1>2, GradesInOrder
<1> HIDE DEF f, g, h
<1> QED
  BY <1>1, <1>3, TotalsCompare

LEMMA CoursesAreMade ==
    ASSUME NEW c \in Credits, MadeList(assignments)
    PROVE  Len(Courses(c)) \in Nat /\ \A i \in DOMAIN Courses(c) : Course(Courses(c)[i])
<1> DEFINE last == [credits |-> c, items |-> assignments]
<1>1. Course(last)
  BY FormAssumption DEF Course
<1>2. /\ Others \in Seq(ToSet(Others)) /\ \A i \in DOMAIN Others : Course(Others[i])
  BY FormAssumption DEF Course, ToSet
<1> HIDE DEF last
<1>3. ASSUME NEW S, NEW q \in Seq(S), NEW x
      PROVE  /\ Len(Append(q, x)) \in Nat
             /\ \A i \in DOMAIN Append(q, x) : Append(q, x)[i] = x \/ (i \in DOMAIN q /\ Append(q, x)[i] = q[i])
  <2> DEFINE T == S \cup {x}
  <2>1. q \in Seq(T) /\ x \in T
    OBVIOUS
  <2> HIDE DEF T
  <2> QED
    BY <2>1
<1>4. /\ Len(Append(Others, last)) \in Nat
      /\ \A i \in DOMAIN Append(Others, last) :
           Append(Others, last)[i] = last \/ (i \in DOMAIN Others /\ Append(Others, last)[i] = Others[i])
  BY <1>2, <1>3
<1>5. Courses(c) = Append(Others, last)
  BY DEF Courses, last
<1> QED
  BY <1>1, <1>2, <1>4, <1>5

LEMMA OrderHolds == MadeList(assignments) => GPAsOrdered
<1> SUFFICES ASSUME MadeList(assignments),
                    NEW gpas \in {SummaryGPAs(Courses(c)) : c \in Credits}
                                   \cup (IF Scored(assignments) # {} THEN {CourseGPAs} ELSE {})
             PROVE  gpas[1] <= gpas[2] /\ gpas[2] <= gpas[3]
  BY DEF GPAsOrdered
<1>1. ASSUME NEW c \in Credits, gpas = SummaryGPAs(Courses(c))
      PROVE  gpas[1] <= gpas[2] /\ gpas[2] <= gpas[3]
  <2> DEFINE q == Courses(c)
  <2>1. Total(q, Earned) <= Total(q, Projected) /\ Total(q, Projected) <= Total(q, MaxPossible)
    BY CoursesAreMade, TotalsInOrder
  <2>2. gpas = <<Total(q, Earned), Total(q, Projected), Total(q, MaxPossible)>>
    BY <1>1 DEF SummaryGPAs
  <2> QED
    BY <2>1, <2>2
<1>2. ASSUME Scored(assignments) # {}, gpas = CourseGPAs
      PROVE  gpas[1] <= gpas[2] /\ gpas[2] <= gpas[3]
  BY <1>2, GradesInOrder DEF CourseGPAs
<1> QED
  BY <1>1, <1>2

LEMMA BarIsFull == MadeList(assignments) => BreakdownFills
<1> SUFFICES ASSUME MadeList(assignments), AllWeight > 0
             PROVE  Earned(assignments) + BelowMax + (Pending + Unassigned) * Scale = BarScale * Scale
  BY DEF BreakdownFills
<1> DEFINE its == assignments
           D == DOMAIN its
           I == Scored(its)
           e == Earned(its)
<1>1. I \in SUBSET D /\ D \ I \in SUBSET D /\ D \in SUBSET D
  BY DEF Scored
<1>2. /\ AllWeight \in Nat /\ ScoredWeight \in Nat /\ Pending \in Nat /\ e \in Nat /\ Scale \in Nat
  BY <1>1, WeightsAreNats, PartsAreNats, FormAssumption DEF AllWeight, ScoredWeight, Pending
<1>3. AllWeight = ScoredWeight + Pending
  <2> DEFINE u == [i \in D |-> WeightOf(its[i])]
             v == [i \in I |-> WeightOf(its[i])]
             w == [i \in D \ I |-> WeightOf(its[i])]
  <2>1. Nats(u) /\ Nats(v) /\ Nats(w) /\ Len(its) \in Nat
    BY <1>1, WeightsAreNats, ListIs
  <2>2. ASSUME NEW k \in 1 .. Len(its)
        PROVE  At(u, k) = At(v, k) + At(w, k)
    <3>1. k \in D /\ WeightOf(its[k]) \in Nat
      BY ListIs, ScoreInScale
    <3>2. At(u, k) = WeightOf(its[k])
      BY <3>1 DEF At
    <3>3. CASE k \in I
      <4>1. At(v, k) = WeightOf(its[k]) /\ At(w, k) = 0
        BY <3>3 DEF At
      <4> HIDE DEF u, v, w
      <4> QED
        BY <3>1, <3>2, <4>1
    <3>4. CASE k \notin I
      <4>1. At(w, k) = WeightOf(its[k]) /\ At(v, k) = 0
        BY <3>1, <3>4 DEF At
      <4> HIDE DEF u, v, w
      <4> QED
        BY <3>1, <3>2, <4>1
    <3> QED
      BY <3>3, <3>4
  <2>3. Sum(u, Len(its)) = Sum(v, Len(its)) + Sum(w, Len(its))
    <3> HIDE DEF u, v, w
    <3> QED
      BY <2>1, <2>2, SumsAdd
  <2> QED
    BY <2>3 DEF AllWeight, ScoredWeight, Pending, Weight
<1>4. e <= ScoredWeight * Scale
  BY EarnedIsWeighed DEF ScoredWeight
<1> HIDE DEF e
<1>5. ScoredWeight * Scale \in Nat
  BY <1>2, ProductGrows
<1>6. e + BelowMax = ScoredWeight * Scale
  <2>1. BelowMax = IF ScoredWeight * Scale > e THEN ScoredWeight * Scale - e ELSE 0
    BY DEF BelowMax, e
  <2> QED
    BY <2>1, <1>2, <1>4, <1>5
<1>7. /\ Unassigned \in Nat /\ BarScale = ScoredWeight + (Pending + Unassigned)
  BY <1>2, <1>3 DEF Unassigned, BarScale, TotalWeight
<1>8. (ScoredWeight + (Pending + Unassigned)) * Scale = ScoredWeight * Scale + (Pending + Unassigned) * Scale
  BY <1>2, <1>7, ProductGrows
<1> QED
  BY <1>6, <1>7, <1>8 DEF e

\* Whatever is typed, saved and edited, for any assignments and any other courses: the GPA
\* earned is at most the one projected, and that at most the one still possible, per course
\* and in total (grade-utils.ts); and the segments of the grade breakdown fill its bar
\* (course-grade-utils.tsx).
THEOREM NumbersAlwaysAddUp == FormInit /\ [][FormNext]_formVars => []NumbersAddUp
<1>1. FormInv => MadeList(assignments)
  BY DEF FormInv, MadeList, IsList
<1>2. FormInv => NumbersAddUp
  BY <1>1, OrderHolds, BarIsFull DEF NumbersAddUp
<1> QED
  BY <1>2, FormStarts, FormStays, PTL

-----------------------------------------------------------------------------
(* Comparing reports. *)

\* A number of a report is known or not, and none is below zero.
Numbers(field) == field = {} \/ \E n \in Nat : field = {n}
ReportNumbers == \A r \in GradeReports : Numbers(r.gpa) /\ Numbers(r.std) /\ Numbers(r.withdrawn)

ComparedInv == compared \in Seq(GradeReports)

LEMMA KnownIs ==
    ASSUME NEW field, Numbers(field)
    PROVE  C!Known(field) \in Nat /\ IF field = {} THEN C!Known(field) = 0 ELSE field = {C!Known(field)}
<1>1. C!Known(field) \in field \cup {0} /\ (field # {} => C!Known(field) \in field)
  BY DEF C!Known
<1> QED
  BY <1>1 DEF Numbers

LEMMA ComparedStays == ComparedInv /\ [C!PageNext]_(C!pageVars) => ComparedInv'
<1> SUFFICES ASSUME ComparedInv, [C!PageNext]_(C!pageVars)
             PROVE  ComparedInv'
  OBVIOUS
<1>1. CASE UNCHANGED C!pageVars
  BY <1>1 DEF C!pageVars, ComparedInv
<1>2. CASE C!Follow \/ C!Navigated \/ \E t \in C!ToSet(Tabs) : C!ClickTab(t)
  BY <1>2 DEF C!Follow, C!Navigated, C!ClickTab, ComparedInv
<1>3. CASE C!Transition \/ C!Clear
  <2>1. compared' \in {compared, << >>}
    BY <1>3 DEF C!Transition, C!Clear, C!Choose
  <2>2. << >> \in Seq(GradeReports)
    OBVIOUS
  <2> QED
    BY <2>1, <2>2 DEF ComparedInv
<1>4. ASSUME NEW r \in GradeReports, C!ToggleSelect(r)
      PROVE  ComparedInv'
  <2> DEFINE I == {i \in DOMAIN compared : compared[i] # r}
  <2>1. compared' \in {C!Entries(compared, I), Append(compared, r)}
    BY <1>4 DEF C!ToggleSelect, C!Choose
  <2>2. C!Entries(compared, I) = Entries(compared, I)
    <3>1. \A S : C!Cardinality(S) = Cardinality(S)
      BY DEF C!Cardinality, Cardinality, C!IsFiniteSet, IsFiniteSet
    <3>2. \A k : C!Kth(I, k) = Kth(I, k)
      BY <3>1 DEF C!Kth, Kth
    <3> HIDE DEF I
    <3> QED
      BY <3>1, <3>2 DEF C!Entries, Entries
  <2>3. Entries(compared, I) \in Seq(GradeReports)
    BY EntriesKept DEF ComparedInv
  <2> QED
    BY <2>1, <2>2, <2>3 DEF ComparedInv
<1> QED
  BY <1>1, <1>2, <1>3, <1>4 DEF C!PageNext

LEMMA MarksHold == ReportNumbers /\ ComparedInv => C!MarkedIsBetter
<1> SUFFICES ASSUME ReportNumbers, ComparedInv
             PROVE  C!MarkedIsBetter
  OBVIOUS
<1> DEFINE Places == DOMAIN compared
<1>1. \A i \in Places : /\ compared[i] \in GradeReports
                       /\ Numbers(compared[i].gpa) /\ Numbers(compared[i].withdrawn)
  BY DEF ComparedInv, ReportNumbers
<1>2. \A i \in Places :
        /\ C!GPAs[i] = C!Known(compared[i].gpa) /\ C!Withdrawals[i] = C!Known(compared[i].withdrawn)
        /\ C!GPAs[i] \in Nat /\ C!Withdrawals[i] \in Nat
  BY <1>1, KnownIs DEF C!GPAs, C!Withdrawals
<1>3. \A i \in Places : C!Ranks[i] \in Int
  BY DEF C!Ranks, C!Difficulty
<1>4. DOMAIN C!GPAs = Places /\ DOMAIN C!Withdrawals = Places /\ DOMAIN C!Ranks = Places
  BY DEF C!GPAs, C!Withdrawals, C!Ranks
<1>5. ASSUME NEW i \in C!Marked.gpa
      PROVE  /\ compared[i].gpa # {}
             /\ \A j \in Places : \A g \in compared[j].gpa : \A h \in compared[i].gpa : g <= h
             /\ \E j \in Places : C!GPAs[j] # C!GPAs[i]
  <2>1. /\ i \in Places /\ \A j \in Places : C!GPAs[j] <= C!GPAs[i]
        /\ \E j \in Places : C!GPAs[j] < C!GPAs[i]
    BY <1>4 DEF C!Marked, C!BestHigher
  <2>2. C!GPAs[i] # 0
    BY <1>2, <2>1
  <2> QED
    BY <1>1, <1>2, <2>1, <2>2, KnownIs
<1>6. ASSUME NEW values, DOMAIN values = Places, \A i \in Places : values[i] \in Int,
             NEW i \in C!BestLower(values)
      PROVE  /\ i \in Places /\ \A j \in Places : values[i] <= values[j]
             /\ \E j \in Places : values[i] < values[j]
  BY <1>6 DEF C!BestLower, C!BestHigher
<1>7. ASSUME NEW i \in C!Marked.difficulty
      PROVE  \E j \in Places : C!Ranks[i] < C!Ranks[j]
  BY <1>3, <1>4, <1>6 DEF C!Marked
<1>8. ASSUME NEW i \in C!Marked.withdrawal, NEW j \in Places,
             NEW w \in compared[i].withdrawn, NEW x \in compared[j].withdrawn
      PROVE  w <= x
  <2>1. i \in Places /\ C!Withdrawals[i] <= C!Withdrawals[j]
    BY <1>2, <1>4, <1>6 DEF C!Marked
  <2> QED
    BY <1>1, <1>2, <2>1, KnownIs
<1> QED
  BY <1>5, <1>7, <1>8 DEF C!MarkedIsBetter

\* However reports are added, taken out and forgotten with the tab, for any reports with
\* known and unknown numbers: what the table marks as better is known, and no report in it
\* is better yet (grade-compare-tray.tsx).
THEOREM MarksAreAlwaysBetter ==
    ReportNumbers /\ C!PageInit /\ [][C!PageNext]_(C!pageVars) => []C!MarkedIsBetter
<1>1. C!PageInit => ComparedInv
  BY DEF C!PageInit, ComparedInv
<1>2. ASSUME ReportNumbers
      PROVE  C!PageInit /\ [][C!PageNext]_(C!pageVars) => []C!MarkedIsBetter
  <2>1. ComparedInv => C!MarkedIsBetter
    BY <1>2, MarksHold
  <2> QED
    BY <1>1, <2>1, ComparedStays, PTL
<1> QED
  BY <1>2
=============================================================================
