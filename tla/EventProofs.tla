----------------------------- MODULE EventProofs ------------------------------
(***************************************************************************)
(* Proofs that the rows of an event agree whatever the number of users,    *)
(* links and requests at work, that requests made one at a time hand the   *)
(* event over once per link and answer what the table says, and that the   *)
(* page of the event tells one story with the service, for any people,     *)
(* links, page size and calls under way; and that the dialog of an event   *)
(* or a community stores what it shows and deletes only what it was told   *)
(* to, for any pictures and any form and images stored before; and that    *)
(* the digest of opportunities lists what its filters ask for and stores   *)
(* what its dialog shows.                                                  *)
(***************************************************************************)
EXTENDS EventAccess, EventPage, EntityEditor, OpportunitiesPage, ListsProofs, SequenceTheorems

Ops == {"none", "transfer", "co_view", "revoke", "accept", "going", "notGoing"}
Link == [purpose : {"none", "transfer", "co_view"}, by : Users \cup {None}, revoked : BOOLEAN,
         acceptedBy : Users \cup {None}]
Run == [op : Ops, user : Users \cup {None}, link : Links \cup {None}, found : BOOLEAN,
        first : BOOLEAN]

TypeOK ==
    /\ owner \in Users
    /\ links \in [Links -> Link]
    /\ run \in [Requests -> Run]
    /\ left \subseteq Users
    /\ answered \in [Goers -> SUBSET BOOLEAN]

\* What a request holds while it waits to write.
RunsAreWhole ==
    \A r \in Requests :
        /\ run[r].op # "none" => run[r].user \in Users
        /\ run[r].op \in {"accept", "revoke"} => run[r].link \in Links
        /\ run[r].op \in {"going", "notGoing"} => run[r].user \in Goers

\* A row found is not lost before it is counted on, unless the user asked not to go; and
\* whoever is about to remove a row has asked for it.
RunsAreBacked ==
    \A r \in Requests :
        /\ run[r].op = "going" /\ run[r].found /\ run[r].user \notin left => run[r].user \in going
        /\ run[r].op = "notGoing" => run[r].user \in left

IInv == TypeOK /\ RunsAreWhole /\ RunsAreBacked /\ OwnerHoldsALink /\ TapsKeepTheRow

-----------------------------------------------------------------------------
(* The invariant holds at first. *)
LEMMA InitIInv == AccessInit => IInv
<1> SUFFICES ASSUME AccessInit PROVE IInv
  OBVIOUS
<1> USE DEF AccessInit
<1>1. TypeOK
  BY AccessAssumption DEF TypeOK, Link, Run, Ops, Idle, Uncreated
<1>2. RunsAreWhole /\ RunsAreBacked
  BY DEF RunsAreWhole, RunsAreBacked, Idle
<1>3. OwnerHoldsALink
  BY DEF OwnerHoldsALink
<1>4. TapsKeepTheRow
  BY DEF TapsKeepTheRow
<1> QED
  BY <1>1, <1>2, <1>3, <1>4 DEF IInv

(* A request that reads changes only what it holds, and who asked not to go. *)
LEMMA ReadKeeps ==
    ASSUME IInv, NEW r \in Requests, NEW u \in Users, NEW op \in Ops \ {"none"},
           NEW l \in Links \cup {None}, NEW found \in BOOLEAN, NEW first \in BOOLEAN,
           op \in {"accept", "revoke"} => l \in Links,
           op \in {"going", "notGoing"} => u \in Goers,
           op = "going" => found = (u \in going),
           op = "notGoing" => u \in left',
           left' \in {left, left \cup {u}},
           Begin(r, u, op, l, found, first)
    PROVE  IInv'
<1> USE DEF IInv, Begin
<1>1. TypeOK'
  BY DEF TypeOK, Run
<1>2. /\ run'[r] = [op |-> op, user |-> u, link |-> l, found |-> found, first |-> first]
      /\ \A q \in Requests \ {r} : run'[q] = run[q]
  BY DEF TypeOK
<1>3. RunsAreWhole'
  BY <1>2 DEF RunsAreWhole
<1>4. RunsAreBacked'
  BY <1>2 DEF RunsAreBacked
<1>5. OwnerHoldsALink' /\ TapsKeepTheRow'
  BY DEF OwnerHoldsALink, TapsKeepTheRow
<1> QED
  BY <1>1, <1>3, <1>4, <1>5

(* A request that is over holds nothing. *)
LEMMA OverKeepsRuns ==
    ASSUME TypeOK, RunsAreWhole, NEW r \in Requests, run' = [run EXCEPT ![r] = Idle]
    PROVE  /\ run' \in [Requests -> Run] /\ RunsAreWhole'
           /\ \A q \in Requests : run'[q].op # "none" => run'[q] = run[q]
<1>1. Idle \in Run /\ Idle.op = "none"
  BY DEF Idle, Run, Ops
<1> QED
  BY <1>1 DEF TypeOK, RunsAreWhole

(* Every step keeps the invariant. *)
LEMMA Inductive == IInv /\ [AccessNext]_accessVars => IInv'
<1> SUFFICES ASSUME IInv, [AccessNext]_accessVars PROVE IInv'
  OBVIOUS
<1> USE AccessAssumption
<1>t. /\ TypeOK /\ RunsAreWhole /\ RunsAreBacked /\ OwnerHoldsALink /\ TapsKeepTheRow
  BY DEF IInv
<1>o. /\ \A r \in Requests : run[r] \in Run
      /\ \A l \in Links : links[l] \in Link
      /\ None \notin Users
  BY <1>t DEF TypeOK
<1>1. ASSUME NEW r \in Requests, NEW u \in Users, NEW p \in Purposes, ReadCreate(r, u, p)
      PROVE  IInv'
  <2>1. Begin(r, u, p, None, FALSE, FALSE) /\ left' = left
    BY <1>1 DEF ReadCreate
  <2>2. p \in Ops \ {"none"} /\ p \notin {"accept", "revoke", "going", "notGoing"}
    BY DEF Purposes, Ops
  <2> QED
    BY <2>1, <2>2, ReadKeeps
<1>2. ASSUME NEW r \in Requests, NEW u \in Users, NEW l \in Links, ReadRevoke(r, u, l)
      PROVE  IInv'
  <2>1. Begin(r, u, "revoke", l, links[l].revoked, FALSE) /\ left' = left
    BY <1>2 DEF ReadRevoke
  <2>2. links[l].revoked \in BOOLEAN /\ "revoke" \in Ops \ {"none"}
    BY <1>o DEF Link, Ops
  <2> QED
    BY <2>1, <2>2, ReadKeeps, ZenonT(40)
<1>3. ASSUME NEW r \in Requests, NEW u \in Users, NEW l \in Links, ReadAccept(r, u, l)
      PROVE  IInv'
  <2> DEFINE found == u \in viewers
             first == links[l].acceptedBy = None
  <2>1. Begin(r, u, "accept", l, found, first) /\ left' = left
    BY <1>3 DEF ReadAccept
  <2>2. found \in BOOLEAN /\ first \in BOOLEAN /\ "accept" \in Ops \ {"none"}
    BY DEF Ops
  <2> HIDE DEF found, first
  <2> QED
    BY <2>1, <2>2, ReadKeeps
<1>4. ASSUME NEW r \in Requests, NEW u \in Goers, ReadGoing(r, u)
      PROVE  IInv'
  <2> DEFINE found == u \in going
  <2>1. Begin(r, u, "going", None, found, FALSE) /\ left' = left
    BY <1>4 DEF ReadGoing
  <2>2. found \in BOOLEAN /\ found = (u \in going) /\ "going" \in Ops \ {"none"} /\ u \in Users
    BY DEF Ops
  <2> HIDE DEF found
  <2> QED
    BY <2>1, <2>2, ReadKeeps, ZenonT(40)
<1>5. ASSUME NEW r \in Requests, NEW u \in Goers, ReadNotGoing(r, u)
      PROVE  IInv'
  <2> DEFINE found == u \in going
  <2>1. Begin(r, u, "notGoing", None, found, FALSE) /\ left' = left \cup {u}
    BY <1>5 DEF ReadNotGoing
  <2>2. found \in BOOLEAN /\ "notGoing" \in Ops \ {"none"} /\ u \in Users
    BY DEF Ops
  <2> HIDE DEF found
  <2> QED
    BY <2>1, <2>2, ReadKeeps
<1>6. ASSUME NEW r \in Requests, NEW l \in Links, Create(r, l)
      PROVE  IInv'
  <2>1. /\ run' = [run EXCEPT ![r] = Idle] /\ left' = left
        /\ run[r].op \in Purposes /\ links[l].purpose = "none"
        /\ links' = [links EXCEPT ![l] = [Uncreated EXCEPT !.purpose = run[r].op,
                                                          !.by = run[r].user]]
        /\ owner' = owner /\ going' = going /\ answered' = answered
    BY <1>6 DEF Create, Finish, Made
  <2>2. [Uncreated EXCEPT !.purpose = run[r].op, !.by = run[r].user] \in Link
    BY <2>1, <1>o DEF Uncreated, Link, Run, Purposes
  <2>3. TypeOK' /\ RunsAreWhole'
    BY <1>t, <2>1, <2>2, OverKeepsRuns DEF TypeOK
  <2>4. RunsAreBacked'
    BY <1>t, <2>1, OverKeepsRuns DEF RunsAreBacked
  <2>5. OwnerHoldsALink'
    BY <1>t, <2>1 DEF OwnerHoldsALink, TypeOK
  <2>6. TapsKeepTheRow'
    BY <1>t, <2>1 DEF TapsKeepTheRow
  <2> QED
    BY <2>3, <2>4, <2>5, <2>6 DEF IInv
<1>7. ASSUME NEW r \in Requests, Revoke(r)
      PROVE  IInv'
  <2>1. /\ run' = [run EXCEPT ![r] = Idle] /\ left' = left /\ run[r].op = "revoke"
        /\ links' = IF run[r].found THEN links
                    ELSE [links EXCEPT ![run[r].link].revoked = TRUE]
        /\ owner' = owner /\ going' = going /\ answered' = answered
    BY <1>7 DEF Revoke, Finish
  <2>2. run[r].link \in Links
    BY <1>t, <2>1 DEF RunsAreWhole
  <2>3. /\ links' \in [Links -> Link]
        /\ \A l \in Links : /\ links'[l].purpose = links[l].purpose
                            /\ links'[l].acceptedBy = links[l].acceptedBy
    <3> DEFINE k == run[r].link
    <3>1. /\ [links[k] EXCEPT !.revoked = TRUE] \in Link
          /\ [links[k] EXCEPT !.revoked = TRUE].purpose = links[k].purpose
          /\ [links[k] EXCEPT !.revoked = TRUE].acceptedBy = links[k].acceptedBy
      BY <1>o, <2>2, ZenonT(40) DEF Link
    <3> HIDE DEF k
    <3>2. CASE run[r].found
      BY <1>t, <2>1, <3>2 DEF TypeOK
    <3>3. CASE ~run[r].found
      <4>1. links' = [links EXCEPT ![k] = [links[k] EXCEPT !.revoked = TRUE]] /\ k \in Links
        BY <2>1, <2>2, <3>3 DEF k
      <4> QED
        BY <1>t, <3>1, <4>1 DEF TypeOK
    <3> QED
      BY <3>2, <3>3
  <2>4. TypeOK' /\ RunsAreWhole'
    BY <1>t, <2>1, <2>3, OverKeepsRuns DEF TypeOK
  <2>5. RunsAreBacked'
    BY <1>t, <2>1, OverKeepsRuns DEF RunsAreBacked
  <2>6. OwnerHoldsALink' /\ TapsKeepTheRow'
    BY <1>t, <2>1, <2>3 DEF OwnerHoldsALink, TapsKeepTheRow
  <2> QED
    BY <2>4, <2>5, <2>6 DEF IInv
<1>8. ASSUME NEW r \in Requests, AcceptTransfer(r)
      PROVE  IInv'
  <2> DEFINE l == run[r].link
             u == run[r].user
  <2>1. /\ run' = [run EXCEPT ![r] = Idle] /\ left' = left /\ run[r].op = "accept"
        /\ links[l].purpose = "transfer" /\ owner' = u
        /\ links' = [links EXCEPT ![l].acceptedBy = u]
        /\ going' = going /\ answered' = answered
    BY <1>8 DEF AcceptTransfer, Finish, Accepted
  <2>2. l \in Links /\ u \in Users
    BY <1>t, <2>1 DEF RunsAreWhole
  <2>3. /\ links' \in [Links -> Link]
        /\ links'[l].purpose = "transfer" /\ links'[l].acceptedBy = u
    BY <1>t, <2>1, <2>2 DEF TypeOK, Link
  <2>4. TypeOK' /\ RunsAreWhole'
    BY <1>t, <2>1, <2>2, <2>3, OverKeepsRuns DEF TypeOK
  <2>5. RunsAreBacked'
    BY <1>t, <2>1, OverKeepsRuns DEF RunsAreBacked
  <2>6. OwnerHoldsALink' /\ TapsKeepTheRow'
    BY <1>t, <2>1, <2>2, <2>3 DEF OwnerHoldsALink, TapsKeepTheRow
  <2> QED
    BY <2>4, <2>5, <2>6 DEF IInv
<1>9. ASSUME NEW r \in Requests, AcceptView(r)
      PROVE  IInv'
  <2> DEFINE l == run[r].link
             u == run[r].user
  <2>1. /\ run' = [run EXCEPT ![r] = Idle] /\ left' = left /\ run[r].op = "accept"
        /\ links[l].purpose = "co_view" /\ owner' = owner
        /\ links' = links \/ links' = [links EXCEPT ![l].acceptedBy = u]
        /\ going' = going /\ answered' = answered
    BY <1>9 DEF AcceptView, Finish, Accepted
  <2>2. l \in Links /\ u \in Users
    BY <1>t, <2>1 DEF RunsAreWhole
  <2>3. /\ links' \in [Links -> Link]
        /\ \A k \in Links : links[k].purpose = "transfer" => links'[k] = links[k]
    BY <1>t, <2>1, <2>2 DEF TypeOK, Link
  <2>4. TypeOK' /\ RunsAreWhole'
    BY <1>t, <2>1, <2>3, OverKeepsRuns DEF TypeOK
  <2>5. RunsAreBacked'
    BY <1>t, <2>1, OverKeepsRuns DEF RunsAreBacked
  <2>6. OwnerHoldsALink' /\ TapsKeepTheRow'
    BY <1>t, <2>1, <2>3 DEF OwnerHoldsALink, TapsKeepTheRow
  <2> QED
    BY <2>4, <2>5, <2>6 DEF IInv
<1>10. ASSUME NEW r \in Requests, Going(r)
       PROVE  IInv'
  <2> DEFINE u == run[r].user
  <2>1. /\ run' = [run EXCEPT ![r] = Idle] /\ left' = left /\ run[r].op = "going"
        /\ going' = IF run[r].found THEN going ELSE going \cup {u}
        /\ answered' = answered \/ answered' = [answered EXCEPT ![u] = {TRUE}]
        /\ owner' = owner /\ links' = links
    BY <1>10 DEF Going, Finish
  <2>2. u \in Goers /\ going \subseteq going'
    BY <1>t, <2>1 DEF RunsAreWhole
  <2>3. u \notin left => u \in going'
    BY <1>t, <2>1 DEF RunsAreBacked
  <2>4. TypeOK' /\ RunsAreWhole'
    <3>1. answered' \in [Goers -> SUBSET BOOLEAN]
      <4>1. [answered EXCEPT ![u] = {TRUE}] \in [Goers -> SUBSET BOOLEAN]
        BY <1>t, <2>2 DEF TypeOK
      <4> QED
        BY <1>t, <2>1, <4>1 DEF TypeOK
    <3> QED
      BY <1>t, <2>1, <3>1, OverKeepsRuns DEF TypeOK
  <2>5. RunsAreBacked'
    BY <1>t, <2>1, <2>2, OverKeepsRuns DEF RunsAreBacked
  <2>6. OwnerHoldsALink'
    BY <1>t, <2>1 DEF OwnerHoldsALink
  <2>7. TapsKeepTheRow'
    BY <1>t, <2>1, <2>2, <2>3 DEF TapsKeepTheRow, TypeOK
  <2> QED
    BY <2>4, <2>5, <2>6, <2>7 DEF IInv
<1>11. ASSUME NEW r \in Requests, NotGoing(r)
       PROVE  IInv'
  <2> DEFINE u == run[r].user
  <2>1. /\ run' = [run EXCEPT ![r] = Idle] /\ left' = left /\ run[r].op = "notGoing"
        /\ going' = IF run[r].found THEN going \ {u} ELSE going
        /\ answered' = [answered EXCEPT ![u] = {FALSE}]
        /\ owner' = owner /\ links' = links
    BY <1>11 DEF NotGoing, Finish
  <2>2. u \in Goers /\ u \in left
    BY <1>t, <2>1 DEF RunsAreWhole, RunsAreBacked
  <2>3. going \ left \subseteq going'
    BY <2>1, <2>2
  <2>4. TypeOK' /\ RunsAreWhole'
    <3>1. answered' \in [Goers -> SUBSET BOOLEAN]
      BY <1>t, <2>1, <2>2 DEF TypeOK
    <3> QED
      BY <1>t, <2>1, <3>1, OverKeepsRuns DEF TypeOK
  <2>5. RunsAreBacked'
    BY <1>t, <2>1, <2>3, OverKeepsRuns DEF RunsAreBacked
  <2>6. OwnerHoldsALink'
    BY <1>t, <2>1 DEF OwnerHoldsALink
  <2>7. TapsKeepTheRow'
    BY <1>t, <2>1, <2>2, <2>3 DEF TapsKeepTheRow, TypeOK
  <2> QED
    BY <2>4, <2>5, <2>6, <2>7 DEF IInv
<1>12. ASSUME NEW r \in Requests, Cut(r)
       PROVE  IInv'
  <2>1. run' = [run EXCEPT ![r] = Idle]
        /\ UNCHANGED <<owner, viewers, going, links, told, left, answered, atOnce>>
    BY <1>12 DEF Cut
  <2>2. TypeOK' /\ RunsAreWhole'
    BY <1>t, <2>1, OverKeepsRuns DEF TypeOK
  <2>3. RunsAreBacked'
    BY <1>t, <2>1, OverKeepsRuns DEF RunsAreBacked
  <2>4. OwnerHoldsALink' /\ TapsKeepTheRow'
    BY <1>t, <2>1 DEF OwnerHoldsALink, TapsKeepTheRow
  <2> QED
    BY <2>2, <2>3, <2>4 DEF IInv
<1>13. CASE UNCHANGED accessVars
  BY <1>t, <1>13 DEF accessVars, IInv, TypeOK, RunsAreWhole, RunsAreBacked, OwnerHoldsALink,
                     TapsKeepTheRow
<1>14. CASE AccessNext
  BY <1>14, <1>1, <1>2, <1>3, <1>4, <1>5, <1>6, <1>7, <1>8, <1>9, <1>10, <1>11, <1>12
     DEF AccessNext
<1> QED
  BY <1>13, <1>14

\* In every reachable state of any number of users, links and requests the owner is on
\* record as having accepted a transfer link, and taps on "I'm going" keep their row.
THEOREM RowsAlwaysAgree == AccessSpec => []RowsAgree
<1>1. IInv => RowsAgree
  BY DEF IInv, RowsAgree
<1> QED
  BY <1>1, InitIInv, Inductive, PTL DEF AccessSpec
-----------------------------------------------------------------------------
(* Requests made one at a time. *)
SoleRun == \A r1, r2 \in Requests : run[r1] # Idle /\ run[r2] # Idle => r1 = r2

\* Nobody is told to be the owner whom the link does not record.
ToldAreRecorded ==
    /\ told \subseteq Users \X Links
    /\ \A t \in told : links[t[2]].purpose = "transfer" /\ links[t[2]].acceptedBy = t[1]

\* What a request looked at is still so when it writes.
LooksHold ==
    \A r \in Requests :
        /\ run[r].op = "accept" /\ links[run[r].link].purpose = "transfer"
               => links[run[r].link].acceptedBy = None
        /\ run[r].op \in {"going", "notGoing"} => run[r].found = (run[r].user \in going)

AnswersHold == \A u \in Goers : answered[u] # {} => answered[u] = {(u \in going)}

Alone == atOnce = 1 => SoleRun /\ ToldAreRecorded /\ LooksHold /\ AnswersHold

LEMMA InitAlone == AccessInit => Alone
<1> SUFFICES ASSUME AccessInit PROVE Alone
  OBVIOUS
<1>1. SoleRun /\ LooksHold
  BY DEF AccessInit, SoleRun, LooksHold, Idle
<1>2. ToldAreRecorded /\ AnswersHold
  BY DEF AccessInit, ToldAreRecorded, AnswersHold
<1> QED
  BY <1>1, <1>2 DEF Alone

(* The bound of one request is kept by the guard of Begin. *)
LEMMA FreeToBegin ==
    ASSUME atOnce = 1, Cardinality(Busy) < atOnce
    PROVE  \A q \in Requests : run[q] = Idle
<1>1. IsFiniteSet(Busy)
  BY AccessAssumption, FS_Subset DEF Busy
<1>2. Cardinality(Busy) = 0
  BY <1>1, FS_CardinalityType
<1>3. Busy = {}
  BY <1>1, <1>2, FS_EmptySet
<1> QED
  BY <1>3 DEF Busy

LEMMA ReadKeepsAlone ==
    ASSUME IInv, Alone, NEW r \in Requests, NEW u \in Users, NEW op \in Ops \ {"none"},
           NEW l \in Links \cup {None}, NEW found \in BOOLEAN, NEW first \in BOOLEAN,
           op = "accept" /\ links[l].purpose = "transfer" => links[l].acceptedBy = None,
           op \in {"going", "notGoing"} => found = (u \in going),
           Begin(r, u, op, l, found, first)
    PROVE  Alone'
<1> SUFFICES ASSUME atOnce' = 1
             PROVE  SoleRun' /\ ToldAreRecorded' /\ LooksHold' /\ AnswersHold'
  BY DEF Alone
<1>1. atOnce = 1 /\ SoleRun /\ ToldAreRecorded /\ LooksHold /\ AnswersHold
  BY DEF Alone, Begin
<1>2. \A q \in Requests : run[q] = Idle
  BY <1>1, FreeToBegin DEF Begin
<1>3. /\ run'[r] = [op |-> op, user |-> u, link |-> l, found |-> found, first |-> first]
      /\ \A q \in Requests \ {r} : run'[q] = Idle
  BY <1>2 DEF IInv, TypeOK, Begin
<1>4. SoleRun'
  BY <1>3 DEF SoleRun
<1>5. ToldAreRecorded' /\ AnswersHold'
  BY <1>1 DEF ToldAreRecorded, AnswersHold, Begin
<1>6. LooksHold'
  <2> SUFFICES ASSUME NEW q \in Requests
               PROVE  /\ run'[q].op = "accept" /\ links[run'[q].link].purpose = "transfer"
                              => links[run'[q].link].acceptedBy = None
                      /\ run'[q].op \in {"going", "notGoing"}
                              => run'[q].found = (run'[q].user \in going)
    BY DEF LooksHold, Begin
  <2>1. CASE q = r
    BY <1>3, <2>1
  <2>2. CASE q # r
    BY <1>3, <2>2 DEF Idle
  <2> QED
    BY <2>1, <2>2
<1> QED
  BY <1>4, <1>5, <1>6

(* When the only request at work is over, none is. *)
LEMMA WriteLeavesNobody ==
    ASSUME IInv, SoleRun, NEW r \in Requests, run[r].op # "none",
           run' = [run EXCEPT ![r] = Idle]
    PROVE  SoleRun' /\ LooksHold'
<1>1. run[r] # Idle
  BY DEF Idle
<1>2. \A q \in Requests : run'[q] = Idle
  BY <1>1 DEF IInv, TypeOK, SoleRun
<1>3. \A q \in Requests : run'[q].op = "none"
  BY <1>2 DEF Idle
<1> QED
  BY <1>2, <1>3, ZenonT(40) DEF SoleRun, LooksHold

LEMMA InductiveAlone == IInv /\ Alone /\ [AccessNext]_accessVars => Alone'
<1> SUFFICES ASSUME IInv, Alone, [AccessNext]_accessVars PROVE Alone'
  OBVIOUS
<1> USE AccessAssumption
<1>t. TypeOK /\ RunsAreWhole
  BY DEF IInv
<1>o. /\ \A r \in Requests : run[r] \in Run
      /\ \A l \in Links : links[l] \in Link
  BY <1>t DEF TypeOK
<1>1. ASSUME NEW r \in Requests, NEW u \in Users, NEW p \in Purposes, ReadCreate(r, u, p)
      PROVE  Alone'
  <2>1. p \in Ops \ {"none"} /\ p \notin {"accept", "revoke", "going", "notGoing"}
    BY DEF Purposes, Ops
  <2> QED
    BY <1>1, <2>1, ReadKeepsAlone DEF ReadCreate
<1>2. ASSUME NEW r \in Requests, NEW u \in Users, NEW l \in Links, ReadRevoke(r, u, l)
      PROVE  Alone'
  <2>1. Begin(r, u, "revoke", l, links[l].revoked, FALSE)
    BY <1>2 DEF ReadRevoke
  <2>2. links[l].revoked \in BOOLEAN /\ "revoke" \in Ops \ {"none"}
    BY <1>o DEF Link, Ops
  <2> QED
    BY <2>1, <2>2, ReadKeepsAlone, ZenonT(40)
<1>3. ASSUME NEW r \in Requests, NEW u \in Users, NEW l \in Links, ReadAccept(r, u, l)
      PROVE  Alone'
  <2> DEFINE found == u \in viewers
             first == links[l].acceptedBy = None
  <2>1. Begin(r, u, "accept", l, found, first)
    BY <1>3 DEF ReadAccept
  <2>2. found \in BOOLEAN /\ first \in BOOLEAN /\ "accept" \in Ops \ {"none"}
    BY DEF Ops
  <2>3. links[l].purpose = "transfer" => links[l].acceptedBy = None
    BY <1>3 DEF ReadAccept, MayAccept, IsActive
  <2> HIDE DEF found, first
  <2> QED
    BY <2>1, <2>2, <2>3, ReadKeepsAlone
<1>4. ASSUME NEW r \in Requests, NEW u \in Goers, ReadGoing(r, u)
      PROVE  Alone'
  <2> DEFINE found == u \in going
  <2>1. Begin(r, u, "going", None, found, FALSE)
    BY <1>4 DEF ReadGoing
  <2>2. found \in BOOLEAN /\ found = (u \in going) /\ "going" \in Ops \ {"none"} /\ u \in Users
    BY DEF Ops
  <2> HIDE DEF found
  <2> QED
    BY <2>1, <2>2, ReadKeepsAlone, ZenonT(40)
<1>5. ASSUME NEW r \in Requests, NEW u \in Goers, ReadNotGoing(r, u)
      PROVE  Alone'
  <2> DEFINE found == u \in going
  <2>1. Begin(r, u, "notGoing", None, found, FALSE)
    BY <1>5 DEF ReadNotGoing
  <2>2. found \in BOOLEAN /\ found = (u \in going) /\ "notGoing" \in Ops \ {"none"} /\ u \in Users
    BY DEF Ops
  <2> HIDE DEF found
  <2> QED
    BY <2>1, <2>2, ReadKeepsAlone, ZenonT(40)
<1>w. ASSUME NEW r \in Requests, run[r].op # "none", run' = [run EXCEPT ![r] = Idle],
             atOnce' = atOnce,
             atOnce = 1 /\ SoleRun /\ ToldAreRecorded /\ LooksHold /\ AnswersHold
                 => ToldAreRecorded' /\ AnswersHold'
      PROVE  Alone'
  BY <1>w, WriteLeavesNobody DEF Alone
<1>6. ASSUME NEW r \in Requests, NEW l \in Links, Create(r, l)
      PROVE  Alone'
  <2>1. /\ run' = [run EXCEPT ![r] = Idle] /\ run[r].op # "none" /\ atOnce' = atOnce
        /\ links[l].purpose = "none"
        /\ \A k \in Links \ {l} : links'[k] = links[k]
        /\ going' = going /\ answered' = answered /\ told' = told
    BY <1>6, <1>t DEF Create, Finish, Made, Purposes, TypeOK
  <2> QED
    BY <2>1, <1>w DEF ToldAreRecorded, AnswersHold
<1>7. ASSUME NEW r \in Requests, Revoke(r)
      PROVE  Alone'
  <2>1. /\ run' = [run EXCEPT ![r] = Idle] /\ run[r].op = "revoke" /\ atOnce' = atOnce
        /\ links' = IF run[r].found THEN links
                    ELSE [links EXCEPT ![run[r].link].revoked = TRUE]
        /\ going' = going /\ answered' = answered /\ told' = told
    BY <1>7 DEF Revoke, Finish
  <2>2. \A l \in Links : /\ links'[l].purpose = links[l].purpose
                         /\ links'[l].acceptedBy = links[l].acceptedBy
    <3>1. run[r].link \in Links
      BY <1>t, <2>1 DEF RunsAreWhole
    <3>2. \A l \in Links : DOMAIN links[l] = {"purpose", "by", "revoked", "acceptedBy"}
      BY <1>o DEF Link
    <3> QED
      BY <1>t, <2>1, <3>1, <3>2 DEF TypeOK
  <2>3. ToldAreRecorded /\ AnswersHold => ToldAreRecorded' /\ AnswersHold'
    BY <2>1, <2>2 DEF ToldAreRecorded, AnswersHold
  <2> QED
    BY <2>1, <2>3, <1>w
<1>8. ASSUME NEW r \in Requests, AcceptTransfer(r)
      PROVE  Alone'
  <2> DEFINE l == run[r].link
             u == run[r].user
  <2>1. /\ run' = [run EXCEPT ![r] = Idle] /\ run[r].op = "accept" /\ atOnce' = atOnce
        /\ links[l].purpose = "transfer" /\ links' = [links EXCEPT ![l].acceptedBy = u]
        /\ told' = told \cup {<<u, l>>} /\ going' = going /\ answered' = answered
    BY <1>8 DEF AcceptTransfer, Finish, Accepted
  <2>2. l \in Links /\ u \in Users
    BY <1>t, <2>1 DEF RunsAreWhole
  <2>3. /\ links'[l].purpose = "transfer" /\ links'[l].acceptedBy = u
        /\ \A k \in Links \ {l} : links'[k] = links[k]
    BY <1>t, <2>1, <2>2 DEF TypeOK, Link
  <2>4. LooksHold => links[l].acceptedBy = None
    BY <2>1 DEF LooksHold
  <2>5. LooksHold /\ ToldAreRecorded => \A t \in told : t[2] # l
    BY <2>4 DEF ToldAreRecorded
  <2>6. LooksHold /\ ToldAreRecorded => ToldAreRecorded'
    BY <2>1, <2>2, <2>3, <2>5 DEF ToldAreRecorded
  <2>7. AnswersHold => AnswersHold'
    BY <2>1 DEF AnswersHold
  <2> QED
    BY <2>1, <2>6, <2>7, <1>w
<1>9. ASSUME NEW r \in Requests, AcceptView(r)
      PROVE  Alone'
  <2> DEFINE l == run[r].link
             u == run[r].user
  <2>1. /\ run' = [run EXCEPT ![r] = Idle] /\ run[r].op = "accept" /\ atOnce' = atOnce
        /\ links[l].purpose = "co_view"
        /\ links' = links \/ links' = [links EXCEPT ![l].acceptedBy = u]
        /\ told' = told /\ going' = going /\ answered' = answered
    BY <1>9 DEF AcceptView, Finish, Accepted
  <2>2. l \in Links /\ \A k \in Links : links[k].purpose = "transfer" => links'[k] = links[k]
    BY <1>t, <2>1 DEF TypeOK, RunsAreWhole
  <2>3. ToldAreRecorded => ToldAreRecorded'
    BY <2>1, <2>2 DEF ToldAreRecorded
  <2>4. AnswersHold => AnswersHold'
    BY <2>1 DEF AnswersHold
  <2> QED
    BY <2>1, <2>3, <2>4, <1>w
<1>10. ASSUME NEW r \in Requests, Going(r)
       PROVE  Alone'
  <2> DEFINE u == run[r].user
  <2>1. /\ run' = [run EXCEPT ![r] = Idle] /\ run[r].op = "going" /\ atOnce' = atOnce
        /\ going' = IF run[r].found THEN going ELSE going \cup {u}
        /\ answered' = IF ~run[r].found /\ u \in going THEN answered
                       ELSE [answered EXCEPT ![u] = {TRUE}]
        /\ told' = told /\ links' = links
    BY <1>10 DEF Going, Finish
  <2>2. u \in Goers
    BY <1>t, <2>1 DEF RunsAreWhole
  <2>3. LooksHold => u \in going' /\ (\A v \in Goers \ {u} : (v \in going') = (v \in going))
                     /\ answered' = [answered EXCEPT ![u] = {TRUE}]
    <3>1. run[r].op \in {"going", "notGoing"}
      BY <2>1
    <3>2. LooksHold => (run[r].found <=> u \in going)
      BY <3>1, ZenonT(40) DEF LooksHold
    <3> QED
      BY <2>1, <3>2
  <2>4. LooksHold /\ AnswersHold => AnswersHold'
    <3> SUFFICES ASSUME LooksHold, AnswersHold, NEW v \in Goers, answered'[v] # {}
                 PROVE  answered'[v] = {(v \in going')}
      BY DEF AnswersHold
    <3>1. CASE v = u
      <4>1. answered'[v] = {TRUE} /\ v \in going'
        BY <1>t, <2>2, <2>3, <3>1 DEF TypeOK
      <4>2. (v \in going') = TRUE
        BY <4>1
      <4> QED
        BY <4>1, <4>2, ZenonT(40)
    <3>2. CASE v # u
      <4>1. answered'[v] = answered[v] /\ (v \in going') = (v \in going)
        BY <1>t, <2>2, <2>3, <3>2 DEF TypeOK
      <4>2. answered[v] = {(v \in going)}
        BY <4>1 DEF AnswersHold
      <4> QED
        BY <4>1, <4>2, ZenonT(40)
    <3> QED
      BY <3>1, <3>2
  <2>5. ToldAreRecorded => ToldAreRecorded'
    BY <2>1 DEF ToldAreRecorded
  <2> QED
    BY <2>1, <2>4, <2>5, <1>w
<1>11. ASSUME NEW r \in Requests, NotGoing(r)
       PROVE  Alone'
  <2> DEFINE u == run[r].user
  <2>1. /\ run' = [run EXCEPT ![r] = Idle] /\ run[r].op = "notGoing" /\ atOnce' = atOnce
        /\ going' = IF run[r].found THEN going \ {u} ELSE going
        /\ answered' = [answered EXCEPT ![u] = {FALSE}]
        /\ told' = told /\ links' = links
    BY <1>11 DEF NotGoing, Finish
  <2>2. u \in Goers
    BY <1>t, <2>1 DEF RunsAreWhole
  <2>3. LooksHold => u \notin going' /\ (\A v \in Goers \ {u} : (v \in going') = (v \in going))
    <3>1. run[r].op \in {"going", "notGoing"}
      BY <2>1
    <3>2. LooksHold => (run[r].found <=> u \in going)
      BY <3>1, ZenonT(40) DEF LooksHold
    <3> QED
      BY <2>1, <3>2
  <2>4. LooksHold /\ AnswersHold => AnswersHold'
    <3> SUFFICES ASSUME LooksHold, AnswersHold, NEW v \in Goers, answered'[v] # {}
                 PROVE  answered'[v] = {(v \in going')}
      BY DEF AnswersHold
    <3>1. CASE v = u
      <4>1. answered'[v] = {FALSE} /\ v \notin going'
        BY <1>t, <2>1, <2>2, <2>3, <3>1 DEF TypeOK
      <4>2. (v \in going') = FALSE
        BY <4>1
      <4> QED
        BY <4>1, <4>2, ZenonT(40)
    <3>2. CASE v # u
      <4>1. answered'[v] = answered[v] /\ (v \in going') = (v \in going)
        BY <1>t, <2>1, <2>2, <2>3, <3>2 DEF TypeOK
      <4>2. answered[v] = {(v \in going)}
        BY <4>1 DEF AnswersHold
      <4> QED
        BY <4>1, <4>2, ZenonT(40)
    <3> QED
      BY <3>1, <3>2
  <2>5. ToldAreRecorded => ToldAreRecorded'
    BY <2>1 DEF ToldAreRecorded
  <2> QED
    BY <2>1, <2>4, <2>5, <1>w
<1>12. ASSUME NEW r \in Requests, Cut(r)
       PROVE  Alone'
  <2>1. /\ run[r] # Idle /\ run' = [run EXCEPT ![r] = Idle]
        /\ UNCHANGED <<going, links, told, answered, atOnce>>
    BY <1>12 DEF Cut
  <2>2. SoleRun => \A q \in Requests : run'[q] = Idle
    BY <1>t, <2>1 DEF TypeOK, SoleRun
  <2>3. SoleRun => \A q \in Requests : run'[q].op = "none"
    BY <2>2 DEF Idle
  <2>5. SoleRun => SoleRun' /\ LooksHold'
    BY <2>2, <2>3, ZenonT(40) DEF SoleRun, LooksHold
  <2>4. ToldAreRecorded /\ AnswersHold => ToldAreRecorded' /\ AnswersHold'
    BY <2>1 DEF ToldAreRecorded, AnswersHold
  <2> QED
    BY <2>1, <2>4, <2>5 DEF Alone
<1>13. CASE UNCHANGED accessVars
  BY <1>13 DEF accessVars, Alone, SoleRun, ToldAreRecorded, LooksHold, AnswersHold
<1>14. CASE AccessNext
  BY <1>14, <1>1, <1>2, <1>3, <1>4, <1>5, <1>6, <1>7, <1>8, <1>9, <1>10, <1>11, <1>12
     DEF AccessNext
<1> QED
  BY <1>13, <1>14

\* One request at a time, for any number of users, links and requests: a transfer link
\* makes one user owner, and the answer about going is what the table holds.
THEOREM OneByOneHolds == AccessSpec => []OneByOne
<1>1. Alone => OneByOne
  <2> SUFFICES ASSUME Alone, atOnce = 1
               PROVE  /\ \A t1, t2 \in told : t1[2] = t2[2] => t1 = t2
                      /\ \A u \in Goers : answered[u] # {} => answered[u] = {(u \in going)}
    BY DEF OneByOne
  <2>1. ToldAreRecorded /\ AnswersHold
    BY DEF Alone
  <2>2. \A t \in told : t = <<t[1], t[2]>>
    BY <2>1 DEF ToldAreRecorded
  <2>3. \A t1, t2 \in told : t1[2] = t2[2] => t1[1] = t2[1]
    BY <2>1 DEF ToldAreRecorded
  <2> QED
    BY <2>1, <2>2, <2>3 DEF AnswersHold
<1>2. AccessInit => IInv /\ Alone
  BY InitIInv, InitAlone
<1>3. IInv /\ Alone /\ [AccessNext]_accessVars => (IInv /\ Alone)'
  BY Inductive, InductiveAlone
<1> QED
  BY <1>1, <1>2, <1>3, PTL DEF AccessSpec

-----------------------------------------------------------------------------
(* The page of the event. *)
PageRow == [items : Seq(People), total : Nat, hasNext : BOOLEAN]
PageOps == {"event", "going", "notGoing", "export", "links", "relist", "create", "revoke"}

PanelSet == [pages : Seq(PageRow), fetch : {"no", "all", "next"}, got : Seq(PageRow),
             failed : BOOLEAN, cut : BOOLEAN]
DialogSet == [open : BOOLEAN, purpose : {"none"} \cup InvitePurposes, created : SUBSET Invites,
              invites : SUBSET Invites]
GoingSet == [isGoing : BOOLEAN, count : Nat]
EventSet == [isGoing : BOOLEAN, count : Nat,
             may : [edit : BOOLEAN, share : BOOLEAN, attendees : BOOLEAN]]
CallOf(op, on, state, answer) == [op |-> op, on |-> on, state |-> state, answer |-> answer]

\* What the service answers to a call.
Answers(op, answer) ==
    /\ op = "event" => answer \in EventSet
    /\ op \in {"going", "notGoing"} => answer \in GoingSet
    /\ op \in {"links", "relist"} => answer \in SUBSET Invites
    /\ op = "create" => answer \in Invites

ServiceTypes ==
    /\ attending \in Seq(People) /\ joined \in Seq(People \ {Me})
    /\ DOMAIN offered = Invites
    /\ visit.flight \in Nat /\ visit.faults \in Nat
    /\ visit.faults = 0 => faults = 0
CallTyped(c) ==
    \E o, x, s, a : /\ c = CallOf(o, x, s, a) /\ o \in PageOps
                    /\ s \in {"sent", "done", "refused"}
                    /\ s = "done" => \E b : a = {b} /\ Answers(o, b)
CallTypes == IsFiniteSet(DOMAIN calls) /\ \A i \in DOMAIN calls : CallTyped(calls[i])
EventTypes == event \subseteq EventSet /\ \A d, e \in event : d = e
PageTypes ==
    /\ ServiceTypes /\ panel \in PanelSet /\ dialog \in DialogSet /\ CallTypes /\ EventTypes

\* The panel is idle between fetches, and a refetch needs something to fetch again.
PanelRests ==
    /\ panel.fetch # "all" => panel.got = <<>>
    /\ panel.pages = <<>> => panel.got = <<>> /\ panel.fetch # "next"
    /\ panel.fetch = "next" => ~panel.failed

Done(i, ops) == i \in DOMAIN calls /\ calls[i].op \in ops /\ calls[i].state = "done"
Toggles == {"going", "notGoing"}
\* No answer about me is on its way: who attends is what the pages were read of.
Settled == \A i \in DOMAIN calls : ~Done(i, Toggles)

\* Pages read one after another while my answer stood.
ReadsMe(pages) ==
    /\ \A i \in DOMAIN pages : Me \in ToSet(pages[i].items) => IsGoing
    /\ \A k \in DOMAIN attending :
         attending[k] = Me /\ k <= Len(pages) * PageSize =>
             \E i \in DOMAIN pages : Me \in ToSet(pages[i].items)
    /\ pages # <<>> /\ ~pages[Len(pages)].hasNext =>
         \A k \in DOMAIN attending : attending[k] = Me => k <= Len(pages) * PageSize

Undisturbed == visit.faults = 0 /\ "edit" \notin visit.ops

\* Until the event is there only the event is asked for, once.
EventComesFirst ==
    Undisturbed =>
        /\ event = {} => \A i \in DOMAIN calls : calls[i].op = "event"
        /\ event # {} => ~stale /\ Of({"event"}) = {}
        /\ stale => Of({"event"}) = {}
        /\ \A i, j \in Of({"event"}) : i = j
        /\ \A i, j \in Of(Toggles) : i = j
        /\ event = {} => ~dialog.open

GoingIsKnown ==
    Undisturbed =>
        /\ \A i \in DOMAIN calls : Done(i, {"event", "going", "notGoing"}) =>
             \A a \in calls[i].answer : a.isGoing = IsGoing
        /\ Settled => \A e \in event : e.isGoing = IsGoing

PanelIsKnown ==
    Undisturbed /\ Settled =>
        /\ panel.fetch = "all" => ReadsMe(panel.got)
        /\ panel.fetch # "all" /\ ~panel.cut /\ ~panel.failed => ReadsMe(panel.pages)

Single == visit.flight = 1 /\ visit.faults = 0
Clicked == DOMAIN calls \ Of({"event"})
Offers(invites) ==
    /\ Live \subseteq invites /\ invites \subseteq Invites
    /\ \A l \in invites : offered[l] # "revoked"
\* A call is under way after which the invites on screen change.
Relisting ==
    \E i \in DOMAIN calls : \/ calls[i].op \in {"links", "relist"}
                            \/ Done(i, {"create", "revoke"})
InvitesAreKnown ==
    Single =>
        /\ \A i, j \in Clicked : i = j
        /\ dialog.open /\ role = "owner" =>
             /\ \A i \in DOMAIN calls : Done(i, {"links", "relist"}) =>
                  \A a \in calls[i].answer : Offers(a)
             /\ \A i \in DOMAIN calls : Done(i, {"revoke"}) =>
                  \A a \in calls[i].answer : Offers(dialog.invites \ {a})
             /\ ~Relisting => Offers(dialog.invites)

\* What the page knows of my permissions, and asks for on account of it.
MayKnown ==
    /\ role # visit.role => role = "guest" /\ visit.role = "owner"
    /\ role = visit.role =>
         /\ \A e \in event : e.may = Permissions(role)
         /\ \A i \in DOMAIN calls :
              /\ calls[i].state # "refused"
              /\ Done(i, {"event"}) =>
                   \A a \in calls[i].answer : a.may = Permissions(role)
              /\ calls[i].op \in {"links", "relist", "create", "revoke"} => role = "owner"
              /\ calls[i].op = "export" => MayViewAttendees
         /\ dialog.open => role = "owner"
         /\ panel.fetch # "no" \/ panel.pages # <<>> => MayViewAttendees
         /\ ~panel.failed

PageInv ==
    /\ PageTypes /\ PanelRests /\ EventComesFirst /\ GoingIsKnown /\ PanelIsKnown
    /\ InvitesAreKnown /\ MayKnown

-----------------------------------------------------------------------------
(* Fields. *)
LEMMA CallFields ==
    ASSUME NEW o, NEW x, NEW s, NEW a
    PROVE  /\ CallOf(o, x, s, a).op = o /\ CallOf(o, x, s, a).on = x
           /\ CallOf(o, x, s, a).state = s /\ CallOf(o, x, s, a).answer = a
  BY DEF CallOf

LEMMA CallEdited ==
    ASSUME NEW o, NEW x, NEW s, NEW a, NEW t, NEW b
    PROVE  /\ [CallOf(o, x, s, a) EXCEPT !.state = t] = CallOf(o, x, t, a)
           /\ [CallOf(o, x, s, a) EXCEPT !.answer = b] = CallOf(o, x, s, b)
  BY DEF CallOf

LEMMA PermissionsAre ==
    ASSUME NEW who
    PROVE  /\ Permissions(who).edit <=> who = "owner"
           /\ Permissions(who).share <=> who = "owner"
           /\ Permissions(who).attendees <=> who \in {"owner", "viewer"}
           /\ Permissions(who) \in [edit : BOOLEAN, share : BOOLEAN, attendees : BOOLEAN]
<1> DEFINE may(b, c, d) == [edit |-> b, share |-> c, attendees |-> d]
           owns == who = "owner"
           view == who \in {"owner", "viewer"}
<1>1. \A b, c, d \in BOOLEAN :
        /\ may(b, c, d).edit = b /\ may(b, c, d).share = c /\ may(b, c, d).attendees = d
        /\ may(b, c, d) \in [edit : BOOLEAN, share : BOOLEAN, attendees : BOOLEAN]
  OBVIOUS
<1>2. owns \in BOOLEAN /\ view \in BOOLEAN
  OBVIOUS
<1> HIDE DEF may, owns, view
<1>3. /\ may(owns, owns, view).edit = owns /\ may(owns, owns, view).share = owns
      /\ may(owns, owns, view).attendees = view
      /\ may(owns, owns, view) \in [edit : BOOLEAN, share : BOOLEAN, attendees : BOOLEAN]
  BY <1>1, <1>2
<1>4. Permissions(who) = may(owns, owns, view)
  BY DEF Permissions, may, owns, view
<1> QED  BY <1>3, <1>4 DEF owns, view

LEMMA DescribedIs ==
    ASSUME attending \in Seq(People)
    PROVE  Described \in EventSet /\ Described.isGoing = IsGoing /\ Described.may = Permissions(role)
<1> DEFINE may == Permissions(role)
           of(b) == [isGoing |-> b, count |-> Len(attending), may |-> may]
<1>1. may \in [edit : BOOLEAN, share : BOOLEAN, attendees : BOOLEAN] /\ Len(attending) \in Nat
  BY PermissionsAre
<1> HIDE DEF may
<1>2. \A b \in BOOLEAN : of(b) \in EventSet /\ of(b).isGoing = b /\ of(b).may = may
  BY <1>1 DEF EventSet
<1>3. IsGoing \in BOOLEAN
  BY DEF IsGoing
<1> HIDE DEF of
<1>4. of(IsGoing) \in EventSet /\ of(IsGoing).isGoing = IsGoing /\ of(IsGoing).may = may
  BY <1>2, <1>3
<1> QED  BY <1>4 DEF of, may, Described

LEMMA GoingIs ==
    ASSUME NEW b \in BOOLEAN, NEW n \in Nat
    PROVE  [isGoing |-> b, count |-> n] \in GoingSet /\ [isGoing |-> b, count |-> n].isGoing = b
  BY DEF GoingSet

-----------------------------------------------------------------------------
(* What the types say of the variables. *)
LEMMA CallIs ==
    ASSUME CallTypes, NEW i \in DOMAIN calls
    PROVE  /\ calls[i] = CallOf(calls[i].op, calls[i].on, calls[i].state, calls[i].answer)
           /\ calls[i].op \in PageOps /\ calls[i].state \in {"sent", "done", "refused"}
           /\ calls[i].state = "done" =>
                \E b : calls[i].answer = {b} /\ Answers(calls[i].op, b)
<1>1. PICK o, x, s, a : /\ calls[i] = CallOf(o, x, s, a) /\ o \in PageOps
                        /\ s \in {"sent", "done", "refused"}
                        /\ s = "done" => \E b : a = {b} /\ Answers(o, b)
  BY DEF CallTypes, CallTyped
<1> QED  BY <1>1, CallFields

-----------------------------------------------------------------------------
(* Calls under way. *)
Asked(n, o) ==
    /\ n \notin DOMAIN calls /\ DOMAIN calls' = DOMAIN calls \cup {n}
    /\ calls'[n].op = o /\ calls'[n].state = "sent" /\ \A j \in DOMAIN calls : calls'[j] = calls[j]
Ended(i) ==
    /\ i \in DOMAIN calls /\ DOMAIN calls' = DOMAIN calls \ {i}
    /\ \A j \in DOMAIN calls \ {i} : calls'[j] = calls[j]
Became(i, o, s) ==
    /\ i \in DOMAIN calls /\ DOMAIN calls' = DOMAIN calls
    /\ calls'[i].op = o /\ calls'[i].state = s
    /\ \A j \in DOMAIN calls \ {i} : calls'[j] = calls[j]

LEMMA CallAsks ==
    ASSUME CallTypes, NEW o \in PageOps, NEW x, Call(o, x)
    PROVE  CallTypes' /\ \E n : Asked(n, o)
<1> DEFINE n == Free
           d == Cardinality(DOMAIN calls)
<1>1. IsFiniteSet(DOMAIN calls) /\ d \in Nat
  BY FS_CardinalityType DEF CallTypes
<1>2. Free \notin DOMAIN calls
  <2>1. \E k \in 1..(d + 1) : k \notin DOMAIN calls
    <3>1. SUFFICES ASSUME 1..(d + 1) \subseteq DOMAIN calls PROVE FALSE
      OBVIOUS
    <3>2. Cardinality(1..(d + 1)) = d + 1
      BY <1>1, FS_Interval
    <3> QED  BY <1>1, <3>1, <3>2, FS_Subset
  <2> QED  BY <2>1 DEF Free
<1>3. calls' = [j \in DOMAIN calls \cup {n} |-> IF j = n THEN CallOf(o, x, "sent", {}) ELSE calls[j]]
  BY DEF Call, Sent, CallOf
<1> HIDE DEF n
<1>4. /\ DOMAIN calls' = DOMAIN calls \cup {n} /\ calls'[n] = CallOf(o, x, "sent", {})
      /\ \A j \in DOMAIN calls : calls'[j] = calls[j]
  BY <1>2, <1>3 DEF n
<1>5. Asked(n, o)
  BY <1>2, <1>4, CallFields DEF Asked, n
<1>6. IsFiniteSet(DOMAIN calls')
  BY <1>1, <1>4, FS_AddElement
<1>7. CallTyped(CallOf(o, x, "sent", {}))
  BY DEF CallTyped
<1>8. CallTypes'
  BY <1>4, <1>6, <1>7 DEF CallTypes
<1> QED  BY <1>5, <1>8

LEMMA CallEnds ==
    ASSUME CallTypes, NEW i \in DOMAIN calls, Over(i)
    PROVE  CallTypes' /\ Ended(i)
<1>1. Ended(i)
  BY DEF Over, Ended
<1>2. IsFiniteSet(DOMAIN calls')
  BY <1>1, FS_Subset DEF Ended, CallTypes
<1>3. CallTypes'
  BY <1>1, <1>2 DEF Ended, CallTypes
<1> QED  BY <1>1, <1>3

LEMMA CallBecomes ==
    ASSUME CallTypes, NEW i \in DOMAIN calls, NEW o, NEW x, NEW s, NEW a,
           CallTyped(CallOf(o, x, s, a)), calls' = [calls EXCEPT ![i] = CallOf(o, x, s, a)]
    PROVE  CallTypes' /\ Became(i, o, s) /\ calls'[i].answer = a
<1>1. /\ DOMAIN calls' = DOMAIN calls /\ calls'[i] = CallOf(o, x, s, a)
      /\ \A j \in DOMAIN calls \ {i} : calls'[j] = calls[j]
  OBVIOUS
<1>2. Became(i, o, s) /\ calls'[i].answer = a
  BY <1>1, CallFields DEF Became
<1>3. CallTypes'
  BY <1>1 DEF CallTypes
<1> QED  BY <1>2, <1>3

LEMMA CallServed ==
    ASSUME CallTypes, NEW i \in DOMAIN calls, NEW b, Answers(calls[i].op, b)
    PROVE  calls' = [calls EXCEPT ![i].state = "done", ![i].answer = {b}] =>
             CallTypes' /\ Became(i, calls[i].op, "done") /\ calls'[i].answer = {b}
<1> DEFINE a == {b}
           c == CallOf(calls[i].op, calls[i].on, "done", a)
           became == calls' = [calls EXCEPT ![i] = c]
           served == calls' = [calls EXCEPT ![i].state = "done", ![i].answer = {b}]
<1>1. CallTyped(c)
  <2>1. calls[i].op \in PageOps
    BY CallIs
  <2>2. \E d : a = {d} /\ Answers(calls[i].op, d)
    OBVIOUS
  <2> HIDE DEF a
  <2> QED  BY <2>1, <2>2 DEF CallTyped
<1>2. calls' = [calls EXCEPT ![i].state = "done", ![i].answer = {b}] =>
        calls' = [calls EXCEPT ![i] = [[calls[i] EXCEPT !.state = "done"] EXCEPT !.answer = a]]
  OBVIOUS
<1> HIDE DEF a
<1>3. [CallOf(calls[i].op, calls[i].on, calls[i].state, calls[i].answer) EXCEPT !.state = "done"]
        = CallOf(calls[i].op, calls[i].on, "done", calls[i].answer)
  BY CallEdited
<1>4. [CallOf(calls[i].op, calls[i].on, "done", calls[i].answer) EXCEPT !.answer = a] = c
  BY CallEdited
<1>5. [[calls[i] EXCEPT !.state = "done"] EXCEPT !.answer = a] = c
  BY <1>3, <1>4, CallIs
<1>6. ASSUME NEW d, CallTyped(CallOf(calls[i].op, calls[i].on, "done", d)),
             calls' = [calls EXCEPT ![i] = CallOf(calls[i].op, calls[i].on, "done", d)]
      PROVE  CallTypes' /\ Became(i, calls[i].op, "done") /\ calls'[i].answer = d
  BY <1>6, CallBecomes
<1>7. calls' = [calls EXCEPT ![i].state = "done", ![i].answer = {b}] =>
        calls' = [calls EXCEPT ![i] = c]
  BY <1>2, <1>5
<1>8. /\ calls' = [calls EXCEPT ![i] = c] <=> became
      /\ calls' = [calls EXCEPT ![i].state = "done", ![i].answer = {b}] <=> served
      /\ calls'[i].answer = a <=> calls'[i].answer = {b}
  BY DEF a
<1> HIDE DEF became, served
<1>9. ASSUME served
      PROVE  CallTypes' /\ Became(i, calls[i].op, "done") /\ calls'[i].answer = {b}
  <2>1. calls' = [calls EXCEPT ![i] = c]
    BY <1>7, <1>8, <1>9
  <2>2. CallTypes' /\ Became(i, calls[i].op, "done") /\ calls'[i].answer = a
    BY <2>1, <1>1, <1>6
  <2> QED  BY <1>8, <2>2
<1> QED  BY <1>9 DEF served

LEMMA CallRefused ==
    ASSUME CallTypes, NEW i \in DOMAIN calls, calls' = [calls EXCEPT ![i].state = "refused"]
    PROVE  CallTypes' /\ Became(i, calls[i].op, "refused")
<1> DEFINE c == CallOf(calls[i].op, calls[i].on, "refused", calls[i].answer)
<1>1. [CallOf(calls[i].op, calls[i].on, calls[i].state, calls[i].answer) EXCEPT !.state = "refused"] = c
  BY CallEdited
<1>2. [calls[i] EXCEPT !.state = "refused"] = c
  BY <1>1, CallIs
<1>3. calls' = [calls EXCEPT ![i] = c]
  BY <1>2
<1>4. CallTyped(c)
  <2>1. calls[i].op \in PageOps
    BY CallIs
  <2> QED  BY <2>1 DEF CallTyped
<1> QED  BY <1>3, <1>4, CallBecomes

LEMMA CallRelisted ==
    ASSUME CallTypes, NEW i \in DOMAIN calls, Relisted(i)
    PROVE  CallTypes' /\ Became(i, "relist", "sent")
<1>1. calls' = [calls EXCEPT ![i] = CallOf("relist", 0, "sent", {})]
  BY DEF Relisted, Sent, CallOf
<1>2. CallTyped(CallOf("relist", 0, "sent", {}))
  BY DEF CallTyped, PageOps
<1> QED  BY <1>1, <1>2, CallBecomes

-----------------------------------------------------------------------------
(* The pages of the panel. *)

\* As many pages as the service counts hold everybody who goes.
LEMMA PagesHoldAll ==
    ASSUME PageAssumption, attending \in Seq(People)
    PROVE  TotalPages \in Nat /\ Len(attending) <= TotalPages * PageSize
<1> DEFINE a == Len(attending) + PageSize - 1
           q == a \div PageSize
<1>1. PageSize \in Nat /\ PageSize >= 1 /\ Len(attending) \in Nat /\ a \in Nat
  BY DEF PageAssumption
<1>2. q \in Nat /\ a < PageSize * q + PageSize
  <2>1. \A x \in Nat, y \in Nat : y >= 1 => x \div y \in Nat /\ x < y * (x \div y) + y
    OBVIOUS
  <2> HIDE DEF a
  <2> QED  BY <1>1, <2>1
<1>3. q * PageSize \in Nat /\ q * PageSize = PageSize * q
  <2> HIDE DEF q
  <2> QED  BY <1>1, <1>2
<1>4. Len(attending) <= q * PageSize
  <2> HIDE DEF q
  <2> QED  BY <1>1, <1>2, <1>3
<1> QED  BY <1>2, <1>4 DEF TotalPages

\* What a page of attendees holds.
LEMMA PageIs ==
    ASSUME PageAssumption, attending \in Seq(People), NEW n \in Nat
    PROVE  /\ Answered(n + 1) \in PageRow /\ (n + 1) * PageSize \in Nat /\ n * PageSize \in Nat
           /\ ToSet(Answered(n + 1).items) \subseteq ToSet(attending)
           /\ \A k \in DOMAIN attending :
                n * PageSize < k /\ k <= (n + 1) * PageSize =>
                    attending[k] \in ToSet(Answered(n + 1).items)
           /\ ~Answered(n + 1).hasNext => Len(attending) <= (n + 1) * PageSize
<1> DEFINE m == n * PageSize
           h == (n + 1) * PageSize
           last == IF h < Len(attending) THEN h ELSE Len(attending)
           s == SubSeq(attending, m + 1, last)
<1>1. /\ PageSize \in Nat /\ PageSize >= 1 /\ Len(attending) \in Nat
      /\ DOMAIN attending = 1 .. Len(attending)
  BY DEF PageAssumption
<1>2. m \in Nat /\ h = m + PageSize /\ h \in Nat
  <2>1. \A x, y \in Nat : x * y \in Nat /\ (x + 1) * y = x * y + y
    OBVIOUS
  <2> QED  BY <1>1, <2>1
<1>3. AttendeesPage(n + 1) = s
  <2>1. (n + 1) - 1 = n
    OBVIOUS
  <2> QED  BY <2>1 DEF AttendeesPage
<1>4. ~(n + 1 < TotalPages) => Len(attending) <= h
  <2>1. TotalPages \in Nat /\ Len(attending) <= TotalPages * PageSize
    BY PagesHoldAll
  <2>2. \A x, y, z \in Nat : x <= y => x * z <= y * z
    OBVIOUS
  <2>3. \A x, y \in Nat : x * y \in Nat
    OBVIOUS
  <2>4. TotalPages <= n + 1 => TotalPages * PageSize <= h
    BY <1>1, <2>1, <2>2
  <2>5. TotalPages * PageSize \in Nat
    BY <1>1, <2>1, <2>3
  <2> QED  BY <1>1, <1>2, <2>1, <2>4, <2>5
<1> HIDE DEF m, h
<1>5. last \in Nat /\ last <= Len(attending) /\ last <= h
  BY <1>1, <1>2
<1>6. \A k \in DOMAIN attending : k <= h => k <= last
  BY <1>1, <1>2
<1> HIDE DEF last
<1>7. /\ s \in Seq(People) /\ Len(s) = IF m + 1 <= last THEN last - (m + 1) + 1 ELSE 0
      /\ \A i \in 1 .. last - (m + 1) + 1 : s[i] = attending[m + 1 + i - 1]
  <2>1. m + 1 \in Int /\ last \in Int
    BY <1>2, <1>5
  <2>2. \A i \in m + 1 .. last : attending[i] \in People
    BY <1>1, <1>2, <1>5
  <2> QED  BY <2>1, <2>2, SubSeqProperties
<1> HIDE DEF s
<1>8. /\ DOMAIN s = 1 .. Len(s) /\ Len(s) \in Nat
      /\ \A i \in 1 .. Len(s) : s[i] = attending[m + i] /\ m + i \in DOMAIN attending
  <2>1. DOMAIN s = 1 .. Len(s) /\ Len(s) \in Nat
    BY <1>7
  <2>2. ASSUME NEW i \in 1 .. Len(s)
        PROVE  s[i] = attending[m + i] /\ m + i \in DOMAIN attending
    <3>1. i \in 1 .. last - (m + 1) + 1 /\ m + 1 + i - 1 = m + i /\ m + i \in 1 .. Len(attending)
      BY <1>1, <1>2, <1>5, <1>7, <2>1
    <3> QED  BY <1>1, <1>7, <3>1
  <2> QED  BY <2>1, <2>2
<1>9. ToSet(s) \subseteq ToSet(attending)
  BY <1>8 DEF ToSet
<1>10. ASSUME NEW k \in DOMAIN attending, m < k, k <= h
       PROVE  attending[k] \in ToSet(s)
  <2>1. k - m \in 1 .. last - (m + 1) + 1 /\ m + (k - m) = k
    BY <1>1, <1>2, <1>5, <1>6, <1>10
  <2>2. k - m \in 1 .. Len(s)
    BY <1>2, <1>5, <1>7, <2>1
  <2>3. s[k - m] = attending[k]
    BY <1>8, <2>1, <2>2
  <2> QED  BY <1>8, <2>2, <2>3 DEF ToSet
<1>11. /\ Answered(n + 1).items = s /\ Answered(n + 1).hasNext = (n + 1 < TotalPages)
       /\ Answered(n + 1) \in PageRow
  <2>1. Answered(n + 1) = [items |-> s, total |-> Len(attending), hasNext |-> n + 1 < TotalPages]
    BY <1>3 DEF Answered
  <2>2. \A b \in BOOLEAN :
          LET r == [items |-> s, total |-> Len(attending), hasNext |-> b]
          IN  r.items = s /\ r.hasNext = b /\ r \in PageRow
    BY <1>1, <1>7 DEF PageRow
  <2> DEFINE b == n + 1 < TotalPages
  <2>3. b \in BOOLEAN
    OBVIOUS
  <2> HIDE DEF b
  <2>4. LET r == [items |-> s, total |-> Len(attending), hasNext |-> b]
        IN  r.items = s /\ r.hasNext = b /\ r \in PageRow
    BY <2>2, <2>3
  <2> QED  BY <2>1, <2>4 DEF b
<1>12. /\ Answered(n + 1) \in PageRow /\ h \in Nat /\ m \in Nat
       /\ ToSet(Answered(n + 1).items) \subseteq ToSet(attending)
       /\ \A k \in DOMAIN attending :
            m < k /\ k <= h => attending[k] \in ToSet(Answered(n + 1).items)
       /\ ~Answered(n + 1).hasNext => Len(attending) <= h
  BY <1>2, <1>4, <1>9, <1>10, <1>11
<1> QED  BY <1>12 DEF m, h

LEMMA ReadsNothing ==
    ASSUME PageAssumption, attending \in Seq(People)
    PROVE  ReadsMe(<<>>)
<1>1. /\ PageSize \in Nat /\ DOMAIN attending = 1 .. Len(attending) /\ Len(attending) \in Nat
      /\ Len(<<>>) = 0 /\ DOMAIN <<>> = {}
  BY DEF PageAssumption
<1>2. Len(<<>>) * PageSize = 0
  BY <1>1
<1> QED  BY <1>1, <1>2 DEF ReadsMe

\* The next page, read while the same people go, makes the story longer.
LEMMA ReadsOneMore ==
    ASSUME PageAssumption, attending \in Seq(People), NEW pages \in Seq(PageRow)
    PROVE  /\ Answered(Len(pages) + 1) \in PageRow
           /\ Append(pages, Answered(Len(pages) + 1)) \in Seq(PageRow)
           /\ ReadsMe(pages) => ReadsMe(Append(pages, Answered(Len(pages) + 1)))
<1> DEFINE n == Len(pages)
           row == Answered(n + 1)
           more == Append(pages, row)
           m == n * PageSize
           h == (n + 1) * PageSize
<1>1. n \in Nat /\ DOMAIN pages = 1 .. n /\ Len(attending) \in Nat
      /\ DOMAIN attending = 1 .. Len(attending)
  OBVIOUS
<1>2. /\ row \in PageRow /\ h \in Nat /\ m \in Nat
      /\ ToSet(row.items) \subseteq ToSet(attending)
      /\ \A k \in DOMAIN attending : m < k /\ k <= h => attending[k] \in ToSet(row.items)
      /\ ~row.hasNext => Len(attending) <= h
  BY <1>1, PageIs
<1> HIDE DEF row
<1>3. /\ more \in Seq(PageRow) /\ Len(more) = n + 1 /\ DOMAIN more = 1 .. n + 1
      /\ more[n + 1] = row /\ \A i \in 1 .. n : more[i] = pages[i]
  BY <1>1, <1>2
<1> HIDE DEF more, n
<1>4. ASSUME ReadsMe(pages) PROVE ReadsMe(more)
  <2>1. /\ \A i \in DOMAIN pages : Me \in ToSet(pages[i].items) => IsGoing
        /\ \A k \in DOMAIN attending :
             attending[k] = Me /\ k <= m => \E i \in DOMAIN pages : Me \in ToSet(pages[i].items)
    BY <1>4 DEF ReadsMe, n
  <2> HIDE DEF m, h
  <2>2. ASSUME NEW i \in DOMAIN more, Me \in ToSet(more[i].items)
        PROVE  IsGoing
    <3>1. CASE i = n + 1
      BY <1>2, <1>3, <2>2, <3>1 DEF IsGoing
    <3>2. CASE i # n + 1
      <4>1. i \in 1 .. n
        BY <1>1, <1>3, <3>2
      <4> QED  BY <1>1, <1>3, <2>1, <2>2, <4>1
    <3> QED  BY <3>1, <3>2
  <2>3. ASSUME NEW k \in DOMAIN attending, attending[k] = Me, k <= h
        PROVE  \E i \in DOMAIN more : Me \in ToSet(more[i].items)
    <3>1. CASE k <= m
      <4>1. PICK i \in DOMAIN pages : Me \in ToSet(pages[i].items)
        BY <2>1, <2>3, <3>1
      <4>2. i \in DOMAIN more /\ more[i] = pages[i]
        BY <1>1, <1>3
      <4> QED  BY <4>1, <4>2
    <3>2. CASE m < k
      <4>1. n + 1 \in DOMAIN more /\ Me \in ToSet(more[n + 1].items)
        BY <1>1, <1>2, <1>3, <2>3, <3>2
      <4> QED  BY <4>1
    <3> QED  BY <1>1, <1>2, <3>1, <3>2
  <2>4. ~more[Len(more)].hasNext => \A k \in DOMAIN attending : attending[k] = Me => k <= h
    BY <1>1, <1>2, <1>3
  <2> QED  BY <1>3, <2>2, <2>3, <2>4 DEF ReadsMe, h
<1> QED  BY <1>2, <1>3, <1>4 DEF more, row, n

\* Others who come to go do not change what is read of me.
LEMMA OthersComeToGo ==
    ASSUME attending \in Seq(People), NEW x \in People, x # Me,
           attending' = Append(attending, x)
    PROVE  /\ IsGoing' = IsGoing
           /\ \A pages : ReadsMe(pages) => ReadsMe(pages)'
<1>1. /\ DOMAIN attending = 1 .. Len(attending) /\ Len(attending) \in Nat
      /\ DOMAIN attending' = 1 .. Len(attending) + 1
      /\ attending'[Len(attending) + 1] = x
      /\ \A k \in DOMAIN attending : attending'[k] = attending[k]
  OBVIOUS
<1>2. \A k : k \in DOMAIN attending' /\ attending'[k] = Me <=> k \in DOMAIN attending /\ attending[k] = Me
  BY <1>1
<1>3. IsGoing' = IsGoing
  BY <1>2 DEF IsGoing, ToSet
<1>4. ASSUME NEW pages, ReadsMe(pages)
      PROVE  ReadsMe(pages)'
  BY <1>2, <1>3, <1>4 DEF ReadsMe
<1> QED  BY <1>3, <1>4

\* The pages loaded to their end show me just when I go.
LEMMA ReadsToTheEnd ==
    ASSUME attending \in Seq(People), PageAssumption, NEW pages \in Seq(PageRow), ReadsMe(pages),
           pages # <<>>, ~pages[Len(pages)].hasNext
    PROVE  IsGoing <=> \E i \in DOMAIN pages : Me \in ToSet(pages[i].items)
<1>1. IsGoing => \E k \in DOMAIN attending : attending[k] = Me
  BY DEF IsGoing, ToSet
<1> QED  BY <1>1 DEF ReadsMe

\* Who does not go is nobody who goes.
LEMMA WithoutMe ==
    ASSUME attending \in Seq(People), attending' = Without(Me)
    PROVE  attending' \in Seq(People) /\ IsGoing' = FALSE
<1> DEFINE I == {k \in DOMAIN attending : attending[k] # Me}
           s == Entries(attending, I)
<1>1. attending' = s
  BY DEF Without
<1>2. s \in Seq(People) /\ \A k \in DOMAIN s : Kth(I, k) \in I /\ s[k] = attending[Kth(I, k)]
  <2>1. I \in SUBSET DOMAIN attending
    OBVIOUS
  <2> HIDE DEF I
  <2> QED  BY <2>1, EntriesKept
<1> HIDE DEF s
<1>3. \A k \in DOMAIN s : s[k] # Me
  BY <1>2
<1> QED  BY <1>1, <1>2, <1>3 DEF IsGoing, ToSet

-----------------------------------------------------------------------------
(* What the calls under way mean after a step. *)
LEMMA AskedMeans ==
    ASSUME NEW n, NEW o, Asked(n, o)
    PROVE  /\ \A i, ops : Done(i, ops)' <=> Done(i, ops)
           /\ \A i \in DOMAIN calls : calls'[i] = calls[i]
           /\ Settled' <=> Settled
           /\ \A ops : Of(ops)' = IF o \in ops THEN Of(ops) \cup {n} ELSE Of(ops)
<1>1. \A i, ops : Done(i, ops)' <=> Done(i, ops)
  BY DEF Asked, Done
<1>2. Settled' <=> Settled
  BY <1>1 DEF Settled, Asked, Done
<1>3. \A ops : Of(ops)' = IF o \in ops THEN Of(ops) \cup {n} ELSE Of(ops)
  BY DEF Asked, Of
<1> QED  BY <1>1, <1>2, <1>3 DEF Asked

LEMMA EndedMeans ==
    ASSUME NEW i, Ended(i)
    PROVE  /\ \A j, ops : Done(j, ops)' <=> Done(j, ops) /\ j # i
           /\ \A j \in DOMAIN calls' : j # i /\ j \in DOMAIN calls /\ calls'[j] = calls[j]
           /\ Settled => Settled'
           /\ ~Done(i, Toggles) /\ Settled' => Settled
           /\ \A ops : Of(ops)' = Of(ops) \ {i}
<1>1. \A j, ops : Done(j, ops)' <=> Done(j, ops) /\ j # i
  BY DEF Ended, Done
<1>2. Settled => Settled'
  BY <1>1 DEF Settled, Ended
<1>3. ~Done(i, Toggles) /\ Settled' => Settled
  BY <1>1 DEF Settled, Ended, Done
<1>4. \A ops : Of(ops)' = Of(ops) \ {i}
  BY DEF Ended, Of
<1> QED  BY <1>1, <1>2, <1>3, <1>4 DEF Ended

LEMMA BecameMeans ==
    ASSUME NEW i, NEW o, NEW s, Became(i, o, s)
    PROVE  /\ \A j, ops : j # i => (Done(j, ops)' <=> Done(j, ops))
           /\ \A ops : Done(i, ops)' <=> o \in ops /\ s = "done"
           /\ \A j \in DOMAIN calls' : j \in DOMAIN calls /\ (j # i => calls'[j] = calls[j])
           /\ \A ops : Of(ops)' = IF o \in ops THEN Of(ops) \cup {i} ELSE Of(ops) \ {i}
<1>1. \A j, ops : j # i => (Done(j, ops)' <=> Done(j, ops))
  BY DEF Became, Done
<1>2. \A ops : Done(i, ops)' <=> o \in ops /\ s = "done"
  BY DEF Became, Done
<1>3. \A ops : Of(ops)' = IF o \in ops THEN Of(ops) \cup {i} ELSE Of(ops) \ {i}
  BY DEF Became, Of
<1> QED  BY <1>1, <1>2, <1>3 DEF Became

-----------------------------------------------------------------------------
(* The parts of the invariant a step leaves alone. *)
LEMMA FirstKept ==
    ASSUME EventComesFirst, UNCHANGED <<visit, event, stale, calls, dialog>>
    PROVE  EventComesFirst'
  BY DEF EventComesFirst, Undisturbed, Of, Toggles

LEMMA GoingKept ==
    ASSUME GoingIsKnown, UNCHANGED <<visit, event, calls>>, IsGoing' = IsGoing
    PROVE  GoingIsKnown'
  BY DEF GoingIsKnown, Undisturbed, Settled, Done

LEMMA PanelKept ==
    ASSUME PanelIsKnown, UNCHANGED <<visit, attending, calls, panel>>
    PROVE  PanelIsKnown'
  BY DEF PanelIsKnown, Undisturbed, Settled, Done, ReadsMe, IsGoing

LEMMA InvitesKept ==
    ASSUME InvitesAreKnown, UNCHANGED <<visit, role, offered, calls, dialog>>
    PROVE  InvitesAreKnown'
  BY DEF InvitesAreKnown, Single, Clicked, Of, Done, Relisting, Offers, Live

LEMMA MayKept ==
    ASSUME MayKnown, UNCHANGED <<visit, role, event, calls, dialog>>,
           role = visit.role =>
             /\ panel'.fetch # "no" \/ panel'.pages # <<>> => MayViewAttendees
             /\ ~panel'.failed
    PROVE  MayKnown'
  BY DEF MayKnown, Done, MayViewAttendees

\* What is on screen of the event is what is known of it.
LEMMA ShownIs ==
    ASSUME EventTypes, event # {}
    PROVE  Shown \in event /\ event = {Shown}
  BY DEF EventTypes, Shown

-----------------------------------------------------------------------------
(* Steps of the panel. *)
LEMMA PanelIs ==
    ASSUME panel \in PanelSet
    PROVE  /\ panel.pages \in Seq(PageRow) /\ panel.got \in Seq(PageRow)
           /\ panel.fetch \in {"no", "all", "next"}
           /\ panel.failed \in BOOLEAN /\ panel.cut \in BOOLEAN
  BY DEF PanelSet

LEMMA PanelRestarts ==
    ASSUME panel \in PanelSet, NEW h \in {"no", "all", "next"}, NEW b \in BOOLEAN,
           panel' = [panel EXCEPT !.fetch = h, !.got = <<>>, !.cut = b]
    PROVE  /\ panel' \in PanelSet /\ panel'.pages = panel.pages /\ panel'.fetch = h
           /\ panel'.got = <<>> /\ panel'.failed = panel.failed /\ panel'.cut = b
<1> DEFINE k == <<>>
<1>1. k \in Seq(PageRow) /\ panel' = [panel EXCEPT !.fetch = h, !.got = k, !.cut = b]
  OBVIOUS
<1> HIDE DEF k
<1>2. /\ panel' \in PanelSet /\ panel'.pages = panel.pages /\ panel'.fetch = h
      /\ panel'.got = k /\ panel'.failed = panel.failed /\ panel'.cut = b
  BY <1>1 DEF PanelSet
<1> QED  BY <1>2 DEF k

LEMMA PanelStops ==
    ASSUME panel \in PanelSet, NEW q \in Seq(PageRow), NEW b \in BOOLEAN,
           panel' = [panel EXCEPT !.pages = q, !.fetch = "no", !.got = <<>>, !.failed = b]
    PROVE  /\ panel' \in PanelSet /\ panel'.pages = q /\ panel'.fetch = "no"
           /\ panel'.got = <<>> /\ panel'.failed = b /\ panel'.cut = panel.cut
<1> DEFINE k == <<>>
<1>1. k \in Seq(PageRow) /\ panel' = [panel EXCEPT !.pages = q, !.fetch = "no", !.got = k, !.failed = b]
  OBVIOUS
<1> HIDE DEF k
<1>2. /\ panel' \in PanelSet /\ panel'.pages = q /\ panel'.fetch = "no"
      /\ panel'.got = k /\ panel'.failed = b /\ panel'.cut = panel.cut
  BY <1>1 DEF PanelSet
<1> QED  BY <1>2 DEF k

LEMMA RefetchedIs ==
    ASSUME panel \in PanelSet, PanelRests, panel' = Refetched(panel)
    PROVE  /\ panel' \in PanelSet /\ PanelRests'
           /\ panel'.pages = panel.pages /\ panel'.failed = panel.failed
           /\ panel.pages = <<>> => panel' = panel
           /\ panel.pages # <<>> => panel'.fetch = "all" /\ panel'.got = <<>>
<1>1. CASE panel.pages = <<>>
  <2>1. panel' = panel
    BY <1>1 DEF Refetched
  <2> QED  BY <1>1, <2>1 DEF PanelRests
<1>2. CASE panel.pages # <<>>
  <2> DEFINE b == FALSE
  <2>1. b \in BOOLEAN /\ panel' = [panel EXCEPT !.fetch = "all", !.got = <<>>, !.cut = b]
    BY <1>2 DEF Refetched
  <2> HIDE DEF b
  <2>2. /\ panel' \in PanelSet /\ panel'.pages = panel.pages /\ panel'.fetch = "all"
        /\ panel'.got = <<>> /\ panel'.failed = panel.failed
    BY <2>1, PanelRestarts
  <2> QED  BY <1>2, <2>2 DEF PanelRests
<1> QED  BY <1>1, <1>2

LEMMA FetchPanelKeeps ==
    ASSUME PageAssumption, PageInv, FetchPanel
    PROVE  PageInv'
<1>1. /\ panel.pages = <<>> /\ ~panel.failed /\ panel.fetch = "no" /\ event # {}
      /\ Shown.may.attendees
  BY DEF FetchPanel, CanViewAttendees
<1>2. panel \in PanelSet /\ panel' = [panel EXCEPT !.fetch = "all"]
  BY DEF FetchPanel, PageInv, PageTypes
<1>4. /\ panel' \in PanelSet /\ panel'.pages = panel.pages /\ panel'.fetch = "all"
      /\ panel'.got = panel.got /\ panel'.failed = panel.failed
  BY <1>2 DEF PanelSet
<1>5. UNCHANGED <<visit, role, attending, joined, offered, event, stale, dialog, calls, faults>>
  BY DEF FetchPanel, service
<1>6. PageTypes'
  BY <1>4, <1>5 DEF PageInv, PageTypes, ServiceTypes, CallTypes, EventTypes
<1>7. PanelRests'
  BY <1>1, <1>4 DEF PageInv, PanelRests
<1>8. IsGoing' = IsGoing
  BY <1>5 DEF IsGoing
<1>9. PanelIsKnown'
  <2>1. panel'.got = <<>> /\ attending \in Seq(People)
    BY <1>1, <1>4 DEF PageInv, PanelRests, PageTypes, ServiceTypes
  <2>2. ReadsMe(panel'.got)
    BY <2>1, ReadsNothing
  <2>3. \A p : ReadsMe(p) => ReadsMe(p)'
    BY <1>5 DEF ReadsMe, IsGoing
  <2> QED  BY <1>4, <2>2, <2>3 DEF PanelIsKnown
<1>10. role = visit.role => MayViewAttendees
  <2>1. role = visit.role => Shown.may = Permissions(role)
    BY <1>1, ShownIs DEF PageInv, PageTypes, MayKnown
  <2> QED  BY <1>1, <2>1, PermissionsAre DEF MayViewAttendees
<1>11. MayKnown'
  BY <1>1, <1>4, <1>5, <1>10, MayKept DEF PageInv
<1> QED  BY <1>5, <1>6, <1>7, <1>8, <1>9, <1>11, FirstKept, GoingKept, InvitesKept DEF PageInv

LEMMA ScrollKeeps ==
    ASSUME PageAssumption, PageInv, ScrollToEnd
    PROVE  PageInv'
<1>1. panel.pages # <<>> /\ ~panel.failed
  BY DEF ScrollToEnd, HasNextPage, PanelShows
<1> DEFINE cut == panel.cut \/ panel.fetch = "all"
<1>2. panel \in PanelSet /\ cut \in BOOLEAN
  BY PanelIs DEF PageInv, PageTypes
<1>3. panel' = [panel EXCEPT !.fetch = "next", !.got = <<>>, !.cut = cut]
  BY DEF ScrollToEnd
<1> HIDE DEF cut
<1>4. /\ panel' \in PanelSet /\ panel'.pages = panel.pages /\ panel'.fetch = "next"
      /\ panel'.got = <<>> /\ panel'.failed = panel.failed /\ panel'.cut = cut
  BY <1>2, <1>3, PanelRestarts
<1>5. UNCHANGED <<visit, role, attending, joined, offered, event, stale, dialog, calls, faults>>
  BY DEF ScrollToEnd, service
<1>6. PageTypes'
  BY <1>4, <1>5 DEF PageInv, PageTypes, ServiceTypes, CallTypes, EventTypes
<1>7. PanelRests'
  BY <1>1, <1>4 DEF PanelRests
<1>8. IsGoing' = IsGoing
  BY <1>5 DEF IsGoing
<1>9. PanelIsKnown'
  <2>1. (Undisturbed /\ Settled)' => Undisturbed /\ Settled
    BY <1>5 DEF Undisturbed, Settled, Done
  <2>2. Undisturbed /\ Settled /\ ~cut => ReadsMe(panel.pages)
    BY <1>1 DEF PageInv, PanelIsKnown, cut
  <2>3. \A p : ReadsMe(p) => ReadsMe(p)'
    BY <1>5 DEF ReadsMe, IsGoing
  <2> QED  BY <1>4, <2>1, <2>2, <2>3 DEF PanelIsKnown
<1>10. role = visit.role => MayViewAttendees
  BY <1>1 DEF PageInv, MayKnown
<1>11. MayKnown'
  BY <1>1, <1>4, <1>5, <1>10, MayKept DEF PageInv
<1> QED  BY <1>5, <1>6, <1>7, <1>8, <1>9, <1>11, FirstKept, GoingKept, InvitesKept DEF PageInv

LEMMA PageArrivesKeeps ==
    ASSUME PageAssumption, PageInv, PageArrives
    PROVE  PageInv'
<1> DEFINE next == Answered(Len(panel.pages) + 1)
           got == Append(panel.got, Answered(Len(panel.got) + 1))
           done == Len(got) >= Len(panel.pages) \/ ~Last(got).hasNext
           pages == Append(panel.pages, next)
<1>0. panel \in PanelSet
  BY DEF PageInv, PageTypes
<1>1. /\ panel.pages \in Seq(PageRow) /\ panel.got \in Seq(PageRow)
      /\ panel.fetch \in {"no", "all", "next"} /\ panel.failed \in BOOLEAN /\ panel.cut \in BOOLEAN
  BY PanelIs DEF PageInv, PageTypes
<1>2. UNCHANGED <<visit, role, attending, joined, offered, event, stale, dialog, calls, faults>>
  BY DEF PageArrives, service
<1>3. /\ pages \in Seq(PageRow) /\ got \in Seq(PageRow)
      /\ ReadsMe(panel.pages) => ReadsMe(pages)
      /\ ReadsMe(panel.got) => ReadsMe(got)
      /\ Len(got) = Len(panel.got) + 1
  <2>1. attending \in Seq(People)
    BY DEF PageInv, PageTypes, ServiceTypes
  <2>2. pages \in Seq(PageRow) /\ (ReadsMe(panel.pages) => ReadsMe(pages))
    BY <1>1, <2>1, ReadsOneMore
  <2>3. got \in Seq(PageRow) /\ (ReadsMe(panel.got) => ReadsMe(got)) /\ Answered(Len(panel.got) + 1) \in PageRow
    BY <1>1, <2>1, ReadsOneMore
  <2>4. Len(got) = Len(panel.got) + 1
    BY <1>1, <2>3
  <2> QED  BY <2>2, <2>3, <2>4
<1>4. panel' = CASE ~MayViewAttendees -> [panel EXCEPT !.fetch = "no", !.got = <<>>, !.failed = TRUE]
                 [] MayViewAttendees /\ panel.fetch = "next" ->
                      [panel EXCEPT !.pages = pages, !.fetch = "no", !.failed = FALSE]
                 [] MayViewAttendees /\ panel.fetch = "all" /\ done ->
                      [panel EXCEPT !.pages = got, !.fetch = "no", !.got = <<>>, !.failed = FALSE]
                 [] OTHER -> [panel EXCEPT !.got = got]
  BY DEF PageArrives
<1>5. panel.fetch # "no"
  BY DEF PageArrives
<1> HIDE DEF next, got, done, pages
<1>6. \A p : ReadsMe(p) => ReadsMe(p)'
  BY <1>2 DEF ReadsMe, IsGoing
<1>7. Undisturbed' /\ Settled' => Undisturbed /\ Settled
  BY <1>2 DEF Undisturbed, Settled, Done
<1>8. ASSUME panel' \in PanelSet, PanelRests', PanelIsKnown',
             role = visit.role =>
               /\ panel'.fetch # "no" \/ panel'.pages # <<>> => MayViewAttendees
               /\ ~panel'.failed
      PROVE  PageInv'
  <2>1. PageTypes'
    BY <1>2, <1>8 DEF PageInv, PageTypes, ServiceTypes, CallTypes, EventTypes
  <2>2. IsGoing' = IsGoing
    BY <1>2 DEF IsGoing
  <2>3. MayKnown'
    BY <1>2, <1>8, MayKept DEF PageInv
  <2> QED  BY <1>2, <1>8, <2>1, <2>2, <2>3, FirstKept, GoingKept, InvitesKept DEF PageInv
<1>9. role = visit.role => MayViewAttendees /\ ~panel.failed
  BY <1>5 DEF PageInv, MayKnown
<1>10. CASE ~MayViewAttendees
  <2> DEFINE b == TRUE
             q == panel.pages
  <2>1. b \in BOOLEAN /\ q \in Seq(PageRow)
        /\ panel' = [panel EXCEPT !.pages = q, !.fetch = "no", !.got = <<>>, !.failed = b]
    <3>1. panel' = [panel EXCEPT !.fetch = "no", !.got = <<>>, !.failed = b]
      BY <1>4, <1>10
    <3> HIDE DEF b
    <3>2. panel = [panel EXCEPT !.pages = panel.pages]
      BY <1>0 DEF PanelSet
    <3> QED  BY <1>1, <3>1, <3>2 DEF b
  <2> HIDE DEF b, q
  <2>2. panel' \in PanelSet /\ panel'.fetch = "no" /\ panel'.got = <<>> /\ panel'.failed
    BY <1>0, <2>1, PanelStops DEF b
  <2> QED  BY <1>8, <1>9, <1>10, <2>2 DEF PanelRests, PanelIsKnown
<1>11. CASE MayViewAttendees /\ panel.fetch = "next"
  <2> DEFINE b == FALSE
  <2>1. b \in BOOLEAN /\ panel' = [panel EXCEPT !.pages = pages, !.fetch = "no", !.failed = b]
    BY <1>4, <1>11
  <2> HIDE DEF b
  <2>2. /\ panel' \in PanelSet /\ panel'.pages = pages /\ panel'.fetch = "no" /\ panel'.got = panel.got
        /\ panel'.failed = b /\ panel'.cut = panel.cut
    BY <1>0, <1>3, <2>1 DEF PanelSet
  <2> USE DEF b
  <2>3. panel.got = <<>> /\ ~panel.failed
    BY <1>11 DEF PageInv, PanelRests
  <2>4. PanelRests'
    BY <2>2, <2>3 DEF PanelRests
  <2>5. PanelIsKnown'
    <3>1. Undisturbed /\ Settled /\ ~panel.cut => ReadsMe(panel.pages)
      BY <1>11, <2>3 DEF PageInv, PanelIsKnown
    <3> QED  BY <1>3, <1>6, <1>7, <2>2, <3>1 DEF PanelIsKnown
  <2> QED  BY <1>8, <1>11, <2>2, <2>4, <2>5
<1>12. CASE MayViewAttendees /\ panel.fetch = "all" /\ done
  <2> DEFINE b == FALSE
  <2>1. b \in BOOLEAN
        /\ panel' = [panel EXCEPT !.pages = got, !.fetch = "no", !.got = <<>>, !.failed = b]
    BY <1>4, <1>12
  <2> HIDE DEF b
  <2>2. /\ panel' \in PanelSet /\ panel'.pages = got /\ panel'.fetch = "no" /\ panel'.got = <<>>
        /\ panel'.failed = b
    BY <1>0, <1>3, <2>1, PanelStops
  <2> USE DEF b
  <2>3. PanelRests'
    BY <2>2 DEF PanelRests
  <2>4. PanelIsKnown'
    <3>1. Undisturbed /\ Settled => ReadsMe(panel.got)
      BY <1>12 DEF PageInv, PanelIsKnown
    <3> QED  BY <1>3, <1>6, <1>7, <2>2, <3>1 DEF PanelIsKnown
  <2> QED  BY <1>8, <1>12, <2>2, <2>3, <2>4
<1>13. CASE MayViewAttendees /\ panel.fetch = "all" /\ ~done
  <2>1. panel' = [panel EXCEPT !.got = got]
    BY <1>4, <1>13
  <2>2. /\ panel' \in PanelSet /\ panel'.pages = panel.pages /\ panel'.fetch = "all" /\ panel'.got = got
        /\ panel'.failed = panel.failed
    BY <1>0, <1>3, <1>13, <2>1 DEF PanelSet
  <2>3. panel.pages # <<>>
    <3>1. Len(got) \in Nat /\ ~(Len(got) >= Len(panel.pages))
      BY <1>3, <1>13 DEF done
    <3> QED  BY <3>1
  <2>4. PanelRests'
    BY <2>2, <2>3 DEF PanelRests
  <2>5. PanelIsKnown'
    <3>1. Undisturbed /\ Settled => ReadsMe(panel.got)
      BY <1>13 DEF PageInv, PanelIsKnown
    <3> QED  BY <1>3, <1>6, <1>7, <2>2, <3>1 DEF PanelIsKnown
  <2> QED  BY <1>8, <1>9, <1>13, <2>2, <2>4, <2>5
<1> QED  BY <1>1, <1>5, <1>10, <1>11, <1>12, <1>13

LEMMA RefreshKeeps ==
    ASSUME PageAssumption, PageInv, Refresh
    PROVE  PageInv'
<1>1. /\ panel' \in PanelSet /\ PanelRests' /\ panel'.pages = panel.pages /\ panel'.failed = panel.failed
      /\ panel.pages = <<>> => panel' = panel
  BY RefetchedIs DEF Refresh, PageInv, PageTypes
<1>2. UNCHANGED <<visit, role, attending, joined, offered, event, dialog, calls, faults>>
  BY DEF Refresh, service
<1>3. ~Undisturbed'
  BY <1>2 DEF Refresh, Click, Undisturbed
<1>4. PageTypes'
  BY <1>1, <1>2 DEF PageInv, PageTypes, ServiceTypes, CallTypes, EventTypes
<1>5. EventComesFirst' /\ GoingIsKnown' /\ PanelIsKnown'
  BY <1>3 DEF EventComesFirst, GoingIsKnown, PanelIsKnown
<1>6. MayKnown'
  <2>1. role = visit.role =>
          /\ panel'.fetch # "no" \/ panel'.pages # <<>> => MayViewAttendees
          /\ ~panel'.failed
    BY <1>1 DEF PageInv, MayKnown
  <2> QED  BY <1>2, <2>1, MayKept DEF PageInv
<1> QED  BY <1>1, <1>2, <1>4, <1>5, <1>6, InvitesKept DEF PageInv

-----------------------------------------------------------------------------
(* Steps that ask the service. *)
LEMMA AskKeeps ==
    ASSUME PageInv, NEW o \in PageOps, NEW n, Asked(n, o), CallTypes',
           UNCHANGED <<visit, role, attending, joined, offered, event, panel, faults>>,
           dialog' \in DialogSet, dialog' = dialog \/ o = "links",
           o = "event" => stale /\ ~stale' /\ Of({"event"}) = {},
           o # "event" => stale' = stale /\ Cardinality(DOMAIN calls) < visit.flight,
           o # "event" /\ Undisturbed => event # {},
           o \in Toggles => Of(Toggles) = {},
           role = visit.role =>
             /\ o \in {"links", "relist", "create", "revoke"} \/ dialog'.open => role = "owner"
             /\ o = "export" => MayViewAttendees
    PROVE  PageInv'
<1>1. /\ \A i, ops : Done(i, ops)' <=> Done(i, ops)
      /\ \A i \in DOMAIN calls : calls'[i] = calls[i]
      /\ Settled' <=> Settled
      /\ \A ops : Of(ops)' = IF o \in ops THEN Of(ops) \cup {n} ELSE Of(ops)
  BY AskedMeans
<1>2. DOMAIN calls' = DOMAIN calls \cup {n} /\ calls'[n].op = o /\ calls'[n].state = "sent"
  BY DEF Asked
<1>3. IsGoing' = IsGoing /\ Undisturbed' = Undisturbed /\ \A p : ReadsMe(p)' <=> ReadsMe(p)
  BY DEF IsGoing, Undisturbed, ReadsMe
<1>4. PageTypes'
  BY DEF PageInv, PageTypes, ServiceTypes, EventTypes
<1>5. PanelRests'
  BY DEF PageInv, PanelRests
<1>6. EventComesFirst'
  <2>1. SUFFICES ASSUME Undisturbed PROVE EventComesFirst'
    BY <1>3 DEF EventComesFirst
  <2>2. /\ event = {} => \A i \in DOMAIN calls : calls[i].op = "event"
        /\ event # {} => ~stale /\ Of({"event"}) = {}
        /\ stale => Of({"event"}) = {}
        /\ \A i, j \in Of({"event"}) : i = j
        /\ \A i, j \in Of(Toggles) : i = j
        /\ event = {} => ~dialog.open
    BY <2>1 DEF PageInv, EventComesFirst
  <2>3. CASE o = "event"
    <3>1. Of({"event"})' = {n} /\ Of(Toggles)' = Of(Toggles)
      BY <1>1, <2>3 DEF Toggles
    <3>2. event' = {}
      BY <2>2, <2>3
    <3>3. \A i \in DOMAIN calls' : calls'[i].op = "event"
      BY <1>1, <1>2, <2>2, <2>3, <3>2
    <3>4. ~dialog'.open
      BY <2>2, <2>3, <3>2
    <3> QED  BY <2>2, <2>3, <3>1, <3>2, <3>3, <3>4 DEF EventComesFirst
  <2>4. CASE o # "event"
    <3>1. Of({"event"})' = {}
      BY <1>1, <2>1, <2>2, <2>4
    <3>2. \A i, j \in Of(Toggles)' : i = j
      BY <1>1, <2>2
    <3> QED  BY <2>1, <2>2, <2>4, <3>1, <3>2 DEF EventComesFirst
  <2> QED  BY <2>3, <2>4
<1>7. GoingIsKnown'
  <2>1. \A i, ops : Done(i, ops)' => calls'[i] = calls[i] /\ i \in DOMAIN calls
    BY <1>1 DEF Done
  <2> QED  BY <1>1, <1>3, <2>1 DEF PageInv, GoingIsKnown
<1>8. PanelIsKnown'
  BY <1>1, <1>3 DEF PageInv, PanelIsKnown
<1>9. InvitesAreKnown'
  <2>1. Single' = Single /\ (\A v : Offers(v)' <=> Offers(v)) /\ role' = role
    BY DEF Single, Offers, Live
  <2>2. SUFFICES ASSUME Single PROVE InvitesAreKnown'
    BY <2>1 DEF InvitesAreKnown
  <2>3. /\ \A i, j \in Clicked : i = j
        /\ dialog.open /\ role = "owner" =>
             /\ \A i \in DOMAIN calls : Done(i, {"links", "relist"}) =>
                  \A a \in calls[i].answer : Offers(a)
             /\ \A i \in DOMAIN calls : Done(i, {"revoke"}) =>
                  \A a \in calls[i].answer : Offers(dialog.invites \ {a})
             /\ ~Relisting => Offers(dialog.invites)
    BY <2>2 DEF PageInv, InvitesAreKnown
  <2>4. CASE o = "event"
    <3>1. Clicked' = Clicked
      BY <1>1, <1>2, <2>4 DEF Clicked, Asked
    <3>2. Relisting => Relisting'
      BY <1>1, <1>2 DEF Relisting
    <3>3. \A i, ops : Done(i, ops)' => calls'[i] = calls[i] /\ i \in DOMAIN calls
      BY <1>1 DEF Done
    <3> QED  BY <1>1, <2>1, <2>3, <2>4, <3>1, <3>2, <3>3 DEF InvitesAreKnown
  <2>5. CASE o # "event"
    <3>1. DOMAIN calls = {}
      <4>1. IsFiniteSet(DOMAIN calls) /\ Cardinality(DOMAIN calls) \in Nat
        BY FS_CardinalityType DEF PageInv, PageTypes, CallTypes
      <4>2. Cardinality(DOMAIN calls) = 0
        BY <2>2, <2>5, <4>1 DEF Single
      <4> QED  BY <4>1, <4>2, FS_EmptySet
    <3>2. DOMAIN calls' = {n} /\ \A i, ops : ~Done(i, ops)'
      BY <1>1, <1>2, <3>1 DEF Done
    <3>3. \A i, j \in Clicked' : i = j
      BY <3>2 DEF Clicked
    <3>4. o = "links" => Relisting'
      BY <1>2 DEF Relisting
    <3>5. ~Relisting
      BY <3>1 DEF Relisting, Done
    <3> QED  BY <2>1, <2>3, <3>2, <3>3, <3>4, <3>5 DEF InvitesAreKnown
  <2> QED  BY <2>4, <2>5
<1>10. MayKnown'
  <2>1. \A i, ops : Done(i, ops)' => calls'[i] = calls[i] /\ i \in DOMAIN calls
    BY <1>1 DEF Done
  <2>2. MayViewAttendees' = MayViewAttendees
    BY DEF MayViewAttendees
  <2> QED  BY <1>1, <1>2, <2>1, <2>2 DEF PageInv, MayKnown
<1> QED  BY <1>4, <1>5, <1>6, <1>7, <1>8, <1>9, <1>10 DEF PageInv

\* What is shown of the event is what the service allows, as long as nothing was lost.
LEMMA ShownIsKnown ==
    ASSUME PageInv, event # {}, role = visit.role
    PROVE  Shown.may = Permissions(role)
  BY ShownIs DEF PageInv, PageTypes, MayKnown

LEMMA FetchEventKeeps ==
    ASSUME PageInv, FetchEvent
    PROVE  PageInv'
<1>1. "event" \in PageOps /\ Call("event", 0) /\ CallTypes
  BY DEF FetchEvent, PageOps, PageInv, PageTypes
<1>2. PICK n : Asked(n, "event") /\ CallTypes'
  BY <1>1, CallAsks
<1>3. /\ UNCHANGED <<visit, role, attending, joined, offered, event, panel, faults, dialog>>
      /\ stale /\ ~stale' /\ Of({"event"}) = {}
  BY DEF FetchEvent, service
<1>4. dialog' \in DialogSet /\ (role = visit.role /\ dialog'.open => role = "owner")
  BY <1>3 DEF PageInv, PageTypes, MayKnown
<1> QED  BY <1>1, <1>2, <1>3, <1>4, AskKeeps DEF Toggles

LEMMA ToggleGoingKeeps ==
    ASSUME PageInv, ToggleGoing
    PROVE  PageInv'
<1>1. /\ UNCHANGED <<visit, role, attending, joined, offered, event, panel, faults, dialog, stale>>
      /\ event # {} /\ Of(Toggles) = {} /\ Cardinality(DOMAIN calls) < visit.flight
  BY DEF ToggleGoing, service, OffersGoing, IsToggling, Click, Toggles
<1>2. CASE visit.signedIn
  <2> DEFINE o == IF Shown.isGoing THEN "notGoing" ELSE "going"
  <2>1. Call(o, 0) /\ o \in Toggles /\ CallTypes
    BY <1>2 DEF ToggleGoing, Toggles, PageInv, PageTypes
  <2>2. o \in PageOps /\ o \notin {"event", "links", "relist", "create", "revoke", "export"}
    BY DEF PageOps
  <2> HIDE DEF o
  <2>3. PICK n : Asked(n, o) /\ CallTypes'
    BY <2>1, <2>2, CallAsks
  <2>4. dialog' \in DialogSet /\ (role = visit.role /\ dialog'.open => role = "owner")
    BY <1>1 DEF PageInv, PageTypes, MayKnown
  <2> QED  BY <1>1, <2>1, <2>2, <2>3, <2>4, AskKeeps
<1>3. CASE ~visit.signedIn
  <2>1. calls' = calls
    BY <1>3 DEF ToggleGoing
  <2> QED  BY <1>1, <2>1 DEF PageInv, PageTypes, ServiceTypes, CallTypes, EventTypes, PanelRests,
              EventComesFirst, GoingIsKnown, PanelIsKnown, InvitesAreKnown, MayKnown, Undisturbed,
              Of, Toggles, Done, Settled, IsGoing, ReadsMe, Single, Clicked, Offers, Live,
              Relisting, MayViewAttendees
<1> QED  BY <1>2, <1>3

LEMMA CloseAuthKeeps ==
    ASSUME PageInv, CloseAuthModal
    PROVE  PageInv'
<1>1. UNCHANGED <<visit, role, attending, joined, offered, event, panel, faults, dialog, stale, calls>>
  BY DEF CloseAuthModal, service
<1> QED  BY <1>1 DEF PageInv, PageTypes, ServiceTypes, CallTypes, EventTypes, PanelRests,
              EventComesFirst, GoingIsKnown, PanelIsKnown, InvitesAreKnown, MayKnown, Undisturbed,
              Of, Toggles, Done, Settled, IsGoing, ReadsMe, Single, Clicked, Offers, Live,
              Relisting, MayViewAttendees

LEMMA ExportKeeps ==
    ASSUME PageInv, Export
    PROVE  PageInv'
<1>1. "export" \in PageOps /\ Call("export", 0) /\ CallTypes
  BY DEF Export, PageOps, PageInv, PageTypes
<1>2. PICK n : Asked(n, "export") /\ CallTypes'
  BY <1>1, CallAsks
<1>3. /\ UNCHANGED <<visit, role, attending, joined, offered, event, panel, faults, dialog, stale>>
      /\ event # {} /\ Shown.may.attendees /\ Cardinality(DOMAIN calls) < visit.flight
  BY DEF Export, service, OffersExport, CanViewAttendees, Click
<1>4. dialog' \in DialogSet /\ (role = visit.role /\ dialog'.open => role = "owner")
  BY <1>3 DEF PageInv, PageTypes, MayKnown
<1>5. role = visit.role => MayViewAttendees
  BY <1>3, ShownIsKnown, PermissionsAre DEF MayViewAttendees
<1> QED  BY <1>1, <1>2, <1>3, <1>4, <1>5, AskKeeps DEF Toggles

LEMMA OpenShareKeeps ==
    ASSUME PageInv, OpenShare
    PROVE  PageInv'
<1>1. "links" \in PageOps /\ Call("links", 0) /\ CallTypes
  BY DEF OpenShare, PageOps, PageInv, PageTypes
<1>2. PICK n : Asked(n, "links") /\ CallTypes'
  BY <1>1, CallAsks
<1>3. /\ UNCHANGED <<visit, role, attending, joined, offered, event, panel, faults, stale>>
      /\ event # {} /\ Shown.may.share /\ Cardinality(DOMAIN calls) < visit.flight
  BY DEF OpenShare, service, Actions, Click
<1>4. dialog' \in DialogSet
  <2> DEFINE b == TRUE
             c == {}
             p == "none"
  <2>1. /\ b \in BOOLEAN /\ c \in SUBSET Invites /\ p \in {"none"} \cup InvitePurposes
        /\ dialog' = [dialog EXCEPT !.open = b, !.purpose = p, !.created = c] /\ dialog \in DialogSet
    BY DEF OpenShare, PageInv, PageTypes
  <2> HIDE DEF b, c, p
  <2> QED  BY <2>1 DEF DialogSet
<1>5. role = visit.role => role = "owner"
  BY <1>3, ShownIsKnown, PermissionsAre
<1> QED  BY <1>1, <1>2, <1>3, <1>4, <1>5, AskKeeps DEF Toggles

LEMMA AskMoreKeeps ==
    ASSUME PageInv, dialog.open, NEW o \in {"create", "revoke"}, NEW x, Ask(o, x)
    PROVE  PageInv'
<1>1. o \in PageOps /\ Call(o, x) /\ CallTypes
  BY DEF Ask, PageOps, PageInv, PageTypes
<1>2. PICK n : Asked(n, o) /\ CallTypes'
  BY <1>1, CallAsks
<1>3. /\ UNCHANGED <<visit, role, attending, joined, offered, event, panel, faults, stale, dialog>>
      /\ Cardinality(DOMAIN calls) < visit.flight
  BY DEF Ask, service, Click
<1>4. dialog' \in DialogSet /\ (role = visit.role => role = "owner")
  BY <1>3 DEF PageInv, PageTypes, MayKnown
<1>5. Undisturbed => event # {}
  BY DEF PageInv, EventComesFirst
<1> QED  BY <1>1, <1>2, <1>3, <1>4, <1>5, AskKeeps DEF Toggles

-----------------------------------------------------------------------------
(* Steps of the dialog, and of others. *)
LEMMA EditKeeps ==
    ASSUME PageInv, NEW d \in DialogSet, Edit(d), d.invites = dialog.invites, d.open => dialog.open
    PROVE  PageInv'
<1>1. /\ UNCHANGED <<visit, role, attending, joined, offered, event, panel, faults, stale, calls>>
      /\ dialog' = d
  BY DEF Edit, service
<1>2. IsGoing' = IsGoing
  BY <1>1 DEF IsGoing
<1>3. PageTypes' /\ PanelRests'
  BY <1>1 DEF PageInv, PageTypes, ServiceTypes, CallTypes, EventTypes, PanelRests
<1>4. EventComesFirst'
  BY <1>1 DEF PageInv, EventComesFirst, Undisturbed, Of, Toggles
<1>5. InvitesAreKnown'
  <2>1. /\ Single' = Single /\ Clicked' = Clicked /\ Relisting' = Relisting /\ role' = role
        /\ \A v : Offers(v)' <=> Offers(v)
        /\ \A i, ops : Done(i, ops)' <=> Done(i, ops)
    BY <1>1 DEF Single, Clicked, Of, Relisting, Offers, Live, Done
  <2> QED  BY <1>1, <2>1 DEF PageInv, InvitesAreKnown
<1>6. MayKnown'
  BY <1>1 DEF PageInv, MayKnown, Done, MayViewAttendees
<1> QED  BY <1>1, <1>2, <1>3, <1>4, <1>5, <1>6, GoingKept, PanelKept DEF PageInv

LEMMA CloseShareKeeps ==
    ASSUME PageInv, CloseShare
    PROVE  PageInv'
<1> DEFINE b == FALSE
           d == [dialog EXCEPT !.open = b]
<1>1. b \in BOOLEAN /\ dialog \in DialogSet /\ Edit(d) /\ ~b
  BY DEF CloseShare, PageInv, PageTypes
<1> HIDE DEF b
<1>2. d \in DialogSet /\ d.invites = dialog.invites /\ d.open = b
  BY <1>1 DEF DialogSet
<1> HIDE DEF d
<1> QED  BY <1>1, <1>2, EditKeeps

LEMMA PickPurposeKeeps ==
    ASSUME PageInv, NEW p \in InvitePurposes, PickPurpose(p)
    PROVE  PageInv'
<1> DEFINE d == [dialog EXCEPT !.purpose = p]
<1>1. dialog \in DialogSet /\ Edit(d)
  BY DEF PickPurpose, PageInv, PageTypes
<1>2. d \in DialogSet /\ d.invites = dialog.invites /\ d.open = dialog.open
  BY <1>1 DEF DialogSet
<1> HIDE DEF d
<1> QED  BY <1>1, <1>2, EditKeeps

LEMMA CreateAnotherKeeps ==
    ASSUME PageInv, CreateAnother
    PROVE  PageInv'
<1> DEFINE c == {}
           p == "none"
           d == [dialog EXCEPT !.created = c, !.purpose = p]
<1>1. /\ c \in SUBSET Invites /\ p \in {"none"} \cup InvitePurposes
      /\ dialog \in DialogSet /\ Edit(d)
  BY DEF CreateAnother, PageInv, PageTypes
<1> HIDE DEF c, p
<1>2. d \in DialogSet /\ d.invites = dialog.invites /\ d.open = dialog.open
  BY <1>1 DEF DialogSet
<1> HIDE DEF d
<1> QED  BY <1>1, <1>2, EditKeeps

LEMMA JoinKeeps ==
    ASSUME PageAssumption, PageInv, Join
    PROVE  PageInv'
<1>1. /\ UNCHANGED <<visit, role, offered, event, panel, faults, stale, calls, dialog>>
      /\ joined # <<>> /\ attending' = Append(attending, Head(joined)) /\ joined' = Tail(joined)
      /\ attending \in Seq(People) /\ joined \in Seq(People \ {Me})
  BY DEF Join, PageInv, PageTypes, ServiceTypes
<1>2. Head(joined) \in People /\ Head(joined) # Me /\ joined' \in Seq(People \ {Me})
  BY <1>1
<1>3. IsGoing' = IsGoing /\ \A p : ReadsMe(p) => ReadsMe(p)'
  BY <1>1, <1>2, OthersComeToGo
<1>4. PageTypes' /\ PanelRests'
  <2>1. attending' \in Seq(People)
    BY <1>1, <1>2
  <2> QED  BY <1>1, <1>2, <2>1 DEF PageInv, PageTypes, ServiceTypes, CallTypes, EventTypes, PanelRests
<1>5. PanelIsKnown'
  <2>1. Undisturbed' = Undisturbed /\ Settled' = Settled
    BY <1>1 DEF Undisturbed, Settled, Done
  <2> QED  BY <1>1, <1>3, <2>1 DEF PageInv, PanelIsKnown
<1>6. MayKnown'
  BY <1>1, MayKept DEF PageInv, MayKnown
<1> QED  BY <1>1, <1>3, <1>4, <1>5, <1>6, FirstKept, GoingKept, InvitesKept DEF PageInv

LEMMA TransferKeeps ==
    ASSUME PageInv, TransferAccepted
    PROVE  PageInv'
<1>1. /\ UNCHANGED <<visit, attending, joined, event, panel, faults, stale, calls, dialog>>
      /\ role = "owner" /\ role' = "guest" /\ DOMAIN offered' = DOMAIN offered
  BY DEF TransferAccepted
<1>2. role = visit.role
  BY <1>1 DEF PageInv, MayKnown
<1>3. IsGoing' = IsGoing
  BY <1>1 DEF IsGoing
<1>4. PageTypes' /\ PanelRests'
  BY <1>1 DEF PageInv, PageTypes, ServiceTypes, CallTypes, EventTypes, PanelRests
<1>5. InvitesAreKnown'
  <2>1. /\ Single' = Single /\ Clicked' = Clicked /\ role' # "owner"
    BY <1>1 DEF Single, Clicked, Of
  <2> QED  BY <2>1 DEF PageInv, InvitesAreKnown
<1>6. MayKnown'
  BY <1>1, <1>2 DEF MayKnown
<1> QED  BY <1>1, <1>3, <1>4, <1>5, <1>6, FirstKept, GoingKept, PanelKept DEF PageInv

-----------------------------------------------------------------------------
(* Answers, and calls that come to nothing. *)
LEMMA EndKeepsFirst ==
    ASSUME EventComesFirst, NEW i, Ended(i), UNCHANGED <<visit, stale>>,
           dialog'.open = dialog.open, event' = {} <=> event = {}
    PROVE  EventComesFirst'
<1>1. /\ \A j \in DOMAIN calls' : j \in DOMAIN calls /\ calls'[j] = calls[j]
      /\ \A ops : Of(ops)' = Of(ops) \ {i}
  BY EndedMeans
<1>2. Of({"event"})' = Of({"event"}) \ {i} /\ Of(Toggles)' = Of(Toggles) \ {i}
  BY <1>1 DEF Toggles
<1> QED  BY <1>1, <1>2 DEF EventComesFirst, Undisturbed

LEMMA EndKeepsGoing ==
    ASSUME GoingIsKnown, NEW i, Ended(i), UNCHANGED <<visit, attending, event>>,
           Undisturbed => ~Done(i, Toggles)
    PROVE  GoingIsKnown'
<1>1. /\ \A j, ops : Done(j, ops)' => Done(j, ops)
      /\ \A j \in DOMAIN calls' : j \in DOMAIN calls /\ calls'[j] = calls[j]
      /\ Undisturbed /\ Settled' => Settled
  BY EndedMeans
<1>2. IsGoing' = IsGoing /\ Undisturbed' = Undisturbed
  BY DEF IsGoing, Undisturbed
<1> QED  BY <1>1, <1>2 DEF GoingIsKnown

LEMMA EndKeepsPanel ==
    ASSUME PanelIsKnown, NEW i, Ended(i), UNCHANGED <<visit, attending, panel>>,
           Undisturbed => ~Done(i, Toggles)
    PROVE  PanelIsKnown'
<1>1. Undisturbed /\ Settled' => Settled
  BY EndedMeans
<1>2. Undisturbed' = Undisturbed /\ \A p : ReadsMe(p)' <=> ReadsMe(p)
  BY DEF Undisturbed, ReadsMe, IsGoing
<1> QED  BY <1>1, <1>2 DEF PanelIsKnown

LEMMA EndKeepsInvites ==
    ASSUME InvitesAreKnown, NEW i, Ended(i), UNCHANGED <<visit, role, offered, dialog>>,
           calls[i].op \notin {"links", "relist", "create", "revoke"}
    PROVE  InvitesAreKnown'
<1>1. /\ \A j, ops : Done(j, ops)' <=> Done(j, ops) /\ j # i
      /\ \A j \in DOMAIN calls' : j \in DOMAIN calls /\ calls'[j] = calls[j]
      /\ \A ops : Of(ops)' = Of(ops) \ {i}
  BY EndedMeans
<1>2. Clicked' \subseteq Clicked
  BY <1>1 DEF Clicked, Ended
<1>3. Relisting => Relisting'
  <2>1. ASSUME NEW j \in DOMAIN calls,
               calls[j].op \in {"links", "relist"} \/ Done(j, {"create", "revoke"})
        PROVE  Relisting'
    <3>1. j # i
      BY <2>1 DEF Done
    <3>2. j \in DOMAIN calls' /\ calls'[j] = calls[j]
      BY <1>1, <3>1 DEF Ended
    <3>3. Done(j, {"create", "revoke"})' <=> Done(j, {"create", "revoke"})
      BY <1>1, <3>1
    <3> QED  BY <2>1, <3>2, <3>3 DEF Relisting
  <2> QED  BY <2>1 DEF Relisting
<1>4. Single' = Single /\ (\A v : Offers(v)' <=> Offers(v))
  BY DEF Single, Offers, Live
<1>5. SUFFICES ASSUME Single PROVE InvitesAreKnown'
  BY <1>4 DEF InvitesAreKnown
<1>6. \A j, k \in Clicked' : j = k
  BY <1>2, <1>5 DEF InvitesAreKnown
<1> QED  BY <1>1, <1>3, <1>4, <1>5, <1>6 DEF InvitesAreKnown

LEMMA EndKeepsMay ==
    ASSUME MayKnown, NEW i, Ended(i), UNCHANGED <<visit, role, event, panel>>,
           dialog'.open = dialog.open
    PROVE  MayKnown'
<1>1. /\ \A j, ops : Done(j, ops)' => Done(j, ops)
      /\ \A j \in DOMAIN calls' : j \in DOMAIN calls /\ calls'[j] = calls[j]
  BY EndedMeans
<1> QED  BY <1>1 DEF MayKnown, MayViewAttendees

LEMMA FailsKeeps ==
    ASSUME PageInv, NEW i \in DOMAIN calls, Fails(i)
    PROVE  PageInv'
<1>1. Ended(i) /\ CallTypes'
  BY CallEnds DEF Fails, PageInv, PageTypes
<1>2. UNCHANGED <<visit, role, attending, joined, offered, event, stale, panel>>
  BY DEF Fails, service
<1>3. visit.faults = 0 => faults' = 0 /\ calls[i].state = "refused"
  BY DEF Fails, PageInv, PageTypes, ServiceTypes
<1>4. dialog' \in DialogSet /\ dialog'.open = dialog.open
  <2>1. dialog \in DialogSet
    BY DEF PageInv, PageTypes
  <2>2. CASE calls[i].op = "links"
    <3> DEFINE v == {}
    <3>1. v \in SUBSET Invites /\ dialog' = [dialog EXCEPT !.invites = v]
      BY <2>2 DEF Fails
    <3> HIDE DEF v
    <3> QED  BY <2>1, <3>1 DEF DialogSet
  <2>3. CASE calls[i].op # "links"
    BY <2>1, <2>3 DEF Fails
  <2> QED  BY <2>2, <2>3
<1>5. PageTypes' /\ PanelRests'
  BY <1>1, <1>2, <1>3, <1>4 DEF PageInv, PageTypes, ServiceTypes, EventTypes, PanelRests
<1>6. Undisturbed => ~Done(i, Toggles)
  BY <1>3 DEF Undisturbed, Done
<1>7. InvitesAreKnown'
  <2>1. SUFFICES ASSUME Single PROVE InvitesAreKnown'
    BY <1>2 DEF InvitesAreKnown, Single
  <2>2. role # "owner"
    BY <1>3, <2>1 DEF PageInv, MayKnown, Single
  <2>3. Clicked' \subseteq Clicked
    BY <1>1, EndedMeans DEF Clicked, Ended
  <2>4. \A j, k \in Clicked' : j = k
    BY <2>1, <2>3 DEF PageInv, InvitesAreKnown
  <2> QED  BY <1>2, <2>2, <2>4 DEF InvitesAreKnown
<1> QED  BY <1>1, <1>2, <1>4, <1>5, <1>6, <1>7, EndKeepsFirst, EndKeepsGoing, EndKeepsPanel,
            EndKeepsMay DEF PageInv

\* The answer a call is done with.
LEMMA AnswerIs ==
    ASSUME PageInv, NEW i \in DOMAIN calls, calls[i].state = "done"
    PROVE  /\ calls[i].answer = {CHOOSE a \in calls[i].answer : TRUE}
           /\ Answers(calls[i].op, CHOOSE a \in calls[i].answer : TRUE)
<1>1. PICK b : calls[i].answer = {b} /\ Answers(calls[i].op, b)
  BY CallIs DEF PageInv, PageTypes
<1>2. (CHOOSE a \in calls[i].answer : TRUE) = b
  BY <1>1
<1> QED  BY <1>1, <1>2

LEMMA EventAnswered ==
    ASSUME PageInv, NEW i \in DOMAIN calls, calls[i].state = "done", calls[i].op = "event",
           NEW b, calls[i].answer = {b}, b \in EventSet, event' = {b}, Over(i),
           UNCHANGED <<service, stale, panel, dialog, faults>>
    PROVE  PageInv'
<1>1. Ended(i) /\ CallTypes'
  BY CallEnds DEF PageInv, PageTypes
<1>2. UNCHANGED <<visit, role, attending, joined, offered>>
  BY DEF service
<1>3. /\ \A j, ops : Done(j, ops)' <=> Done(j, ops) /\ j # i
      /\ \A j \in DOMAIN calls' : j \in DOMAIN calls /\ calls'[j] = calls[j]
      /\ \A ops : Of(ops)' = Of(ops) \ {i}
  BY <1>1, EndedMeans
<1>4. Done(i, {"event"}) /\ Done(i, {"event", "going", "notGoing"}) /\ ~Done(i, Toggles)
  BY DEF Done, Toggles
<1>5. PageTypes' /\ PanelRests'
  BY <1>1, <1>2 DEF PageInv, PageTypes, ServiceTypes, EventTypes, PanelRests
<1>6. EventComesFirst'
  <2>1. SUFFICES ASSUME Undisturbed PROVE EventComesFirst'
    BY <1>2 DEF EventComesFirst, Undisturbed
  <2>2. i \in Of({"event"})
    BY DEF Of
  <2>3. Of({"event"})' = {}
    BY <1>3, <2>1, <2>2 DEF PageInv, EventComesFirst
  <2>4. ~stale
    BY <2>1, <2>2 DEF PageInv, EventComesFirst
  <2>5. \A j, k \in Of(Toggles)' : j = k
    <3>1. Of(Toggles)' \subseteq Of(Toggles)
      BY <1>3 DEF Toggles
    <3> QED  BY <2>1, <3>1 DEF PageInv, EventComesFirst
  <2> QED  BY <2>3, <2>4, <2>5 DEF EventComesFirst
<1>7. GoingIsKnown'
  <2>1. IsGoing' = IsGoing /\ Undisturbed' = Undisturbed
    BY <1>2 DEF IsGoing, Undisturbed
  <2>2. Undisturbed => b.isGoing = IsGoing
    BY <1>4 DEF PageInv, GoingIsKnown
  <2> QED  BY <1>3, <2>1, <2>2 DEF PageInv, GoingIsKnown
<1>8. MayKnown'
  <2>1. role = visit.role => b.may = Permissions(role)
    BY <1>4 DEF PageInv, MayKnown
  <2> QED  BY <1>2, <1>3, <2>1 DEF PageInv, MayKnown, MayViewAttendees
<1> QED  BY <1>1, <1>2, <1>4, <1>5, <1>6, <1>7, <1>8, EndKeepsPanel, EndKeepsInvites DEF PageInv

LEMMA GoingAnswered ==
    ASSUME PageAssumption, PageInv, NEW i \in DOMAIN calls, calls[i].state = "done",
           calls[i].op \in Toggles, NEW b, calls[i].answer = {b}, b \in GoingSet,
           ApplyGoingState(b), Over(i), UNCHANGED <<service, stale, dialog, faults>>
    PROVE  PageInv'
<1>1. Ended(i) /\ CallTypes'
  BY CallEnds DEF PageInv, PageTypes
<1>2. UNCHANGED <<visit, role, attending, joined, offered>>
  BY DEF service
<1>3. /\ \A j, ops : Done(j, ops)' <=> Done(j, ops) /\ j # i
      /\ \A j \in DOMAIN calls' : j \in DOMAIN calls /\ calls'[j] = calls[j]
  BY <1>1, EndedMeans
<1>4. /\ panel' \in PanelSet /\ PanelRests' /\ panel'.pages = panel.pages
      /\ panel'.failed = panel.failed
      /\ panel.pages = <<>> => panel' = panel
  BY RefetchedIs DEF ApplyGoingState, PageInv, PageTypes
<1>5. panel.pages # <<>> => panel'.fetch = "all" /\ panel'.got = <<>>
  BY RefetchedIs DEF ApplyGoingState, PageInv, PageTypes
<1> DEFINE f(d) == [d EXCEPT !.isGoing = b.isGoing, !.count = b.count]
<1>6. /\ event' = {f(d) : d \in event} /\ event \subseteq EventSet
      /\ \A d \in EventSet : f(d) \in EventSet /\ f(d).isGoing = b.isGoing /\ f(d).may = d.may
  <2>1. b.isGoing \in BOOLEAN /\ b.count \in Nat
    BY DEF GoingSet
  <2>2. \A d \in EventSet : f(d) \in EventSet /\ f(d).isGoing = b.isGoing /\ f(d).may = d.may
    BY <2>1 DEF EventSet
  <2> QED  BY <2>2 DEF ApplyGoingState, PageInv, PageTypes, EventTypes
<1> HIDE DEF f
<1>7. event' = {} <=> event = {}
  BY <1>6
<1>8. PageTypes'
  <2>1. EventTypes'
    BY <1>6 DEF PageInv, PageTypes, EventTypes
  <2> QED  BY <1>1, <1>2, <1>4, <2>1 DEF PageInv, PageTypes, ServiceTypes
<1>9. IsGoing' = IsGoing /\ Undisturbed' = Undisturbed
  BY <1>2 DEF IsGoing, Undisturbed
<1>10. GoingIsKnown'
  <2>1. Undisturbed => b.isGoing = IsGoing
    BY DEF PageInv, GoingIsKnown, Done, Toggles
  <2> QED  BY <1>3, <1>6, <1>9, <2>1 DEF PageInv, GoingIsKnown
<1>11. PanelIsKnown'
  <2>1. ReadsMe(<<>>)
    BY ReadsNothing DEF PageInv, PageTypes, ServiceTypes
  <2>2. ReadsMe(<<>>)'
    BY <2>1, <1>2 DEF ReadsMe, IsGoing
  <2>3. CASE panel.pages = <<>>
    <3>1. panel' = panel /\ panel.got = <<>>
      BY <1>4, <2>3 DEF PageInv, PanelRests
    <3> QED  BY <2>2, <2>3, <3>1 DEF PanelIsKnown
  <2>4. CASE panel.pages # <<>>
    BY <1>5, <2>2, <2>4 DEF PanelIsKnown
  <2> QED  BY <2>3, <2>4
<1>12. MayKnown'
  <2>1. role = visit.role => \A e \in event' : e.may = Permissions(role)
    BY <1>6 DEF PageInv, MayKnown
  <2> QED  BY <1>2, <1>3, <1>4, <2>1 DEF PageInv, MayKnown, MayViewAttendees
<1>13. InvitesAreKnown'
  <2>1. calls[i].op \notin {"links", "relist", "create", "revoke"}
    BY DEF Toggles
  <2> QED  BY <1>1, <1>2, <2>1, EndKeepsInvites DEF PageInv
<1> QED  BY <1>1, <1>2, <1>4, <1>7, <1>8, <1>10, <1>11, <1>12, <1>13, EndKeepsFirst DEF PageInv

LEMMA ExportAnswered ==
    ASSUME PageInv, NEW i \in DOMAIN calls, calls[i].op = "export", Over(i),
           UNCHANGED <<service, event, stale, panel, dialog, faults>>
    PROVE  PageInv'
<1>1. Ended(i) /\ CallTypes'
  BY CallEnds DEF PageInv, PageTypes
<1>2. UNCHANGED <<visit, role, attending, joined, offered>>
  BY DEF service
<1>3. ~Done(i, Toggles)
  BY DEF Done, Toggles
<1>4. PageTypes' /\ PanelRests'
  BY <1>1, <1>2 DEF PageInv, PageTypes, ServiceTypes, EventTypes, PanelRests
<1> QED  BY <1>1, <1>2, <1>3, <1>4, EndKeepsFirst, EndKeepsGoing, EndKeepsPanel, EndKeepsInvites,
            EndKeepsMay DEF PageInv

\* The invites are listed, or one of them is gone.
LEMMA InvitesAnswered ==
    ASSUME PageInv, NEW i \in DOMAIN calls, calls[i].state = "done",
           calls[i].op \in {"links", "relist", "revoke"}, NEW v \in SUBSET Invites,
           dialog' = [dialog EXCEPT !.invites = v], Over(i),
           Single /\ dialog.open /\ role = "owner" => Offers(v),
           UNCHANGED <<service, event, stale, panel, faults>>
    PROVE  PageInv'
<1>1. Ended(i) /\ CallTypes'
  BY CallEnds DEF PageInv, PageTypes
<1>2. UNCHANGED <<visit, role, attending, joined, offered>>
  BY DEF service
<1>3. ~Done(i, Toggles)
  BY DEF Done, Toggles
<1>4. dialog' \in DialogSet /\ dialog'.open = dialog.open /\ dialog'.invites = v
  <2>1. dialog \in DialogSet
    BY DEF PageInv, PageTypes
  <2> QED  BY <2>1 DEF DialogSet
<1>5. PageTypes' /\ PanelRests'
  BY <1>1, <1>2, <1>4 DEF PageInv, PageTypes, ServiceTypes, EventTypes, PanelRests
<1>6. InvitesAreKnown'
  <2>1. Single' = Single /\ \A w : Offers(w)' <=> Offers(w)
    BY <1>2 DEF Single, Offers, Live
  <2>2. SUFFICES ASSUME Single PROVE InvitesAreKnown'
    BY <2>1 DEF InvitesAreKnown
  <2>3. i \in Clicked
    BY DEF Clicked, Of
  <2>4. Clicked' = {}
    <3>1. Clicked \subseteq {i}
      BY <2>2, <2>3 DEF PageInv, InvitesAreKnown
    <3> QED  BY <1>1, <3>1 DEF Clicked, Of, Ended
  <2>5. \A j : ~Done(j, {"links", "relist"})' /\ ~Done(j, {"revoke"})'
    BY <2>4 DEF Clicked, Of, Done
  <2> QED  BY <1>2, <1>4, <2>1, <2>2, <2>4, <2>5 DEF InvitesAreKnown
<1> QED  BY <1>1, <1>2, <1>3, <1>4, <1>5, <1>6, EndKeepsFirst, EndKeepsGoing, EndKeepsPanel,
            EndKeepsMay DEF PageInv

\* An invite was created, and the list of them is read again.
LEMMA CreateAnswered ==
    ASSUME PageInv, NEW i \in DOMAIN calls, calls[i].state = "done", calls[i].op = "create",
           NEW l \in Invites, dialog' = [dialog EXCEPT !.created = {l}], Relisted(i),
           UNCHANGED <<service, event, stale, panel, faults>>
    PROVE  PageInv'
<1>1. Became(i, "relist", "sent") /\ CallTypes'
  BY CallRelisted DEF PageInv, PageTypes
<1>2. UNCHANGED <<visit, role, attending, joined, offered>>
  BY DEF service
<1>3. dialog' \in DialogSet /\ dialog'.open = dialog.open /\ dialog'.invites = dialog.invites
  <2> DEFINE c == {l}
  <2>1. dialog \in DialogSet /\ c \in SUBSET Invites /\ dialog' = [dialog EXCEPT !.created = c]
    BY DEF PageInv, PageTypes
  <2> HIDE DEF c
  <2> QED  BY <2>1 DEF DialogSet
<1>4. /\ \A j, ops : Done(j, ops)' => Done(j, ops) /\ j # i
      /\ \A j, ops : Done(j, ops) /\ j # i => Done(j, ops)'
      /\ \A j \in DOMAIN calls' : j \in DOMAIN calls /\ (j # i => calls'[j] = calls[j])
      /\ Of({"event"})' = Of({"event"}) /\ Of(Toggles)' = Of(Toggles)
  <2>1. /\ \A j, ops : j # i => (Done(j, ops)' <=> Done(j, ops))
        /\ \A ops : Done(i, ops)' <=> "relist" \in ops /\ "sent" = "done"
        /\ \A j \in DOMAIN calls' : j \in DOMAIN calls /\ (j # i => calls'[j] = calls[j])
        /\ \A ops : Of(ops)' = IF "relist" \in ops THEN Of(ops) \cup {i} ELSE Of(ops) \ {i}
    BY <1>1, BecameMeans
  <2>2. Of({"event"})' = Of({"event"}) \ {i} /\ Of(Toggles)' = Of(Toggles) \ {i}
    BY <2>1 DEF Toggles
  <2>3. i \notin Of({"event"}) /\ i \notin Of(Toggles)
    BY DEF Of, Toggles
  <2> QED  BY <2>1, <2>2, <2>3
<1>5. PageTypes' /\ PanelRests'
  BY <1>1, <1>2, <1>3 DEF PageInv, PageTypes, ServiceTypes, EventTypes, PanelRests
<1>6. Settled' <=> Settled
  BY <1>4 DEF Settled, Done, Became, Toggles
<1>7. IsGoing' = IsGoing /\ Undisturbed' = Undisturbed /\ \A p : ReadsMe(p)' <=> ReadsMe(p)
  BY <1>2 DEF IsGoing, Undisturbed, ReadsMe
<1>8. EventComesFirst'
  <2>1. Undisturbed => event # {}
    BY DEF PageInv, EventComesFirst
  <2> QED  BY <1>3, <1>4, <1>7, <2>1 DEF PageInv, EventComesFirst
<1>9. GoingIsKnown'
  BY <1>4, <1>6, <1>7 DEF PageInv, GoingIsKnown
<1>10. PanelIsKnown'
  BY <1>6, <1>7 DEF PageInv, PanelIsKnown
<1>11. InvitesAreKnown'
  <2>1. Single' = Single
    BY <1>2 DEF Single
  <2>2. SUFFICES ASSUME Single PROVE InvitesAreKnown'
    BY <2>1 DEF InvitesAreKnown
  <2>3. Relisting'
    BY <1>1 DEF Relisting, Became
  <2>4. Clicked' = Clicked
    BY <1>1, <1>4 DEF Clicked, Became
  <2>5. \A j, k \in Clicked : j = k
    BY <2>2 DEF PageInv, InvitesAreKnown
  <2>6. i \in Clicked
    BY DEF Clicked, Of
  <2>7. \A j : ~Done(j, {"links", "relist"})' /\ ~Done(j, {"revoke"})'
    BY <1>4, <2>4, <2>5, <2>6 DEF Clicked, Of, Done
  <2> QED  BY <2>3, <2>4, <2>5, <2>7 DEF InvitesAreKnown
<1>12. MayKnown'
  <2>1. calls'[i].op = "relist" /\ calls'[i].state = "sent"
    BY <1>1 DEF Became
  <2> QED  BY <1>2, <1>3, <1>4, <2>1 DEF PageInv, MayKnown, MayViewAttendees
<1> QED  BY <1>5, <1>8, <1>9, <1>10, <1>11, <1>12 DEF PageInv

LEMMA SucceedsKeeps ==
    ASSUME PageAssumption, PageInv, NEW i \in DOMAIN calls, Succeeds(i)
    PROVE  PageInv'
<1> DEFINE answer == CHOOSE a \in calls[i].answer : TRUE
<1>1. /\ calls[i].state = "done" /\ calls[i].op \in PageOps
      /\ calls[i].answer = {answer} /\ Answers(calls[i].op, answer)
  BY AnswerIs, CallIs DEF Succeeds, PageInv, PageTypes
<1>2. /\ UNCHANGED <<service, stale, faults>>
      /\ CASE calls[i].op = "event" ->
                event' = {answer} /\ Over(i) /\ UNCHANGED <<panel, dialog, isExporting>>
           [] calls[i].op \in {"going", "notGoing"} ->
                ApplyGoingState(answer) /\ Over(i) /\ UNCHANGED <<dialog, isExporting>>
           [] calls[i].op = "export" ->
                isExporting' = FALSE /\ Over(i) /\ UNCHANGED <<event, panel, dialog>>
           [] calls[i].op \in {"links", "relist"} ->
                /\ dialog' = [dialog EXCEPT !.invites = answer] /\ Over(i)
                /\ UNCHANGED <<event, panel, isExporting>>
           [] calls[i].op = "create" ->
                /\ dialog' = [dialog EXCEPT !.created = {answer}]
                /\ Relisted(i)
                /\ UNCHANGED <<event, panel, isExporting>>
           [] calls[i].op = "revoke" ->
                /\ dialog' = [dialog EXCEPT !.invites = @ \ {answer}] /\ Over(i)
                /\ UNCHANGED <<event, panel, isExporting>>
  BY DEF Succeeds
<1> HIDE DEF answer
<1>3. CASE calls[i].op = "event"
  <2>1. event' = {answer} /\ Over(i) /\ UNCHANGED <<panel, dialog>>
    BY <1>2, <1>3
  <2>2. answer \in EventSet
    BY <1>1, <1>3 DEF Answers
  <2> QED  BY <1>1, <1>2, <1>3, <2>1, <2>2, EventAnswered
<1>4. CASE calls[i].op \in Toggles
  <2>1. ApplyGoingState(answer) /\ Over(i) /\ UNCHANGED dialog
    BY <1>2, <1>4 DEF Toggles
  <2>2. answer \in GoingSet
    BY <1>1, <1>4 DEF Answers, Toggles
  <2> QED  BY <1>1, <1>2, <1>4, <2>1, <2>2, GoingAnswered
<1>5. CASE calls[i].op = "export"
  <2>1. Over(i) /\ UNCHANGED <<event, panel, dialog>>
    BY <1>2, <1>5
  <2> QED  BY <1>2, <1>5, <2>1, ExportAnswered
<1>6. CASE calls[i].op \in {"links", "relist"}
  <2>1. dialog' = [dialog EXCEPT !.invites = answer] /\ Over(i) /\ UNCHANGED <<event, panel>>
    BY <1>2, <1>6
  <2>2. answer \in SUBSET Invites
    BY <1>1, <1>6 DEF Answers
  <2>3. Single /\ dialog.open /\ role = "owner" => Offers(answer)
    BY <1>1, <1>6 DEF PageInv, InvitesAreKnown, Done
  <2> QED  BY <1>1, <1>2, <1>6, <2>1, <2>2, <2>3, InvitesAnswered
<1>7. CASE calls[i].op = "create"
  <2>1. dialog' = [dialog EXCEPT !.created = {answer}] /\ Relisted(i) /\ UNCHANGED <<event, panel>>
    BY <1>2, <1>7
  <2>2. answer \in Invites
    BY <1>1, <1>7 DEF Answers
  <2> QED  BY <1>1, <1>2, <1>7, <2>1, <2>2, CreateAnswered
<1>8. CASE calls[i].op = "revoke"
  <2> DEFINE v == dialog.invites \ {answer}
  <2>1. dialog' = [dialog EXCEPT !.invites = v] /\ Over(i) /\ UNCHANGED <<event, panel>>
    BY <1>2, <1>8
  <2>2. v \in SUBSET Invites
    BY DEF PageInv, PageTypes, DialogSet
  <2>3. Single /\ dialog.open /\ role = "owner" => Offers(v)
    BY <1>1, <1>8 DEF PageInv, InvitesAreKnown, Done
  <2> HIDE DEF v
  <2> QED  BY <1>1, <1>2, <1>8, <2>1, <2>2, <2>3, InvitesAnswered
<1> QED  BY <1>1, <1>3, <1>4, <1>5, <1>6, <1>7, <1>8 DEF PageOps, Toggles

-----------------------------------------------------------------------------
(* The service answers or refuses. *)
LEMMA ServedMeans ==
    ASSUME NEW i \in DOMAIN calls, NEW s, Became(i, calls[i].op, s), calls[i].state = "sent"
    PROVE  /\ \A j, ops : Done(j, ops) => j # i /\ Done(j, ops)'
           /\ \A j, ops : Done(j, ops)' /\ j # i => Done(j, ops)
           /\ \A ops : Done(i, ops)' <=> calls[i].op \in ops /\ s = "done"
           /\ \A j \in DOMAIN calls : /\ j \in DOMAIN calls' /\ calls'[j].op = calls[j].op
                                      /\ j # i => calls'[j] = calls[j]
           /\ DOMAIN calls' = DOMAIN calls
           /\ \A ops : Of(ops)' = Of(ops)
<1>1. \A j, ops : Done(j, ops) => j # i
  BY DEF Done
<1>2. \A ops : Of(ops)' = Of(ops)
  BY DEF Of, Became
<1> QED  BY <1>1, <1>2, BecameMeans DEF Became

LEMMA ServeKeeps ==
    ASSUME PageInv, NEW i \in DOMAIN calls, calls[i].state = "sent", NEW s \in {"done", "refused"},
           Became(i, calls[i].op, s), CallTypes', attending' \in Seq(People),
           DOMAIN offered' = DOMAIN offered,
           UNCHANGED <<visit, role, joined, event, stale, panel, dialog, faults>>,
           calls[i].op \in Toggles => s = "done",
           calls[i].op \notin Toggles => attending' = attending,
           s = "done" /\ calls[i].op \in {"event", "going", "notGoing"} =>
             \A a \in calls'[i].answer : a.isGoing = IsGoing',
           s = "done" /\ calls[i].op = "event" =>
             \A a \in calls'[i].answer : a.may = Permissions(role),
           s = "refused" => role # visit.role, InvitesAreKnown'
    PROVE  PageInv'
<1>1. /\ \A j, ops : Done(j, ops) => j # i /\ Done(j, ops)'
      /\ \A j, ops : Done(j, ops)' /\ j # i => Done(j, ops)
      /\ \A ops : Done(i, ops)' <=> calls[i].op \in ops /\ s = "done"
      /\ \A j \in DOMAIN calls : /\ j \in DOMAIN calls' /\ calls'[j].op = calls[j].op
                                 /\ j # i => calls'[j] = calls[j]
      /\ DOMAIN calls' = DOMAIN calls
      /\ \A ops : Of(ops)' = Of(ops)
  BY ServedMeans
<1>2. PageTypes' /\ PanelRests'
  BY DEF PageInv, PageTypes, ServiceTypes, EventTypes, PanelRests
<1>3. Of({"event"})' = Of({"event"}) /\ Of(Toggles)' = Of(Toggles) /\ Undisturbed' = Undisturbed
  BY <1>1 DEF Undisturbed, Toggles
<1>4. EventComesFirst'
  BY <1>1, <1>3 DEF PageInv, EventComesFirst
<1>5. calls[i].op \notin Toggles => Settled' = Settled /\ IsGoing' = IsGoing
  BY <1>1 DEF Settled, Done, IsGoing
<1>6. calls[i].op \in Toggles => ~Settled'
  BY <1>1 DEF Settled
<1>7. GoingIsKnown'
  <2>1. SUFFICES ASSUME Undisturbed PROVE GoingIsKnown'
    BY <1>3 DEF GoingIsKnown
  <2>2. ASSUME NEW j \in DOMAIN calls', Done(j, {"event", "going", "notGoing"})',
               NEW a \in calls'[j].answer
        PROVE  a.isGoing = IsGoing'
    <3>1. CASE j = i
      BY <1>1, <2>2, <3>1
    <3>2. CASE j # i
      <4>1. Done(j, {"event", "going", "notGoing"}) /\ calls'[j] = calls[j] /\ j \in DOMAIN calls
        BY <1>1, <2>2, <3>2
      <4>2. a.isGoing = IsGoing
        BY <2>1, <2>2, <4>1 DEF PageInv, GoingIsKnown
      <4>3. calls[i].op \notin Toggles
        <5>1. SUFFICES ASSUME i \in Of(Toggles) PROVE FALSE
          BY DEF Of
        <5>2. event # {} /\ Of({"event"}) = {}
          BY <2>1, <5>1 DEF PageInv, EventComesFirst, Of, Toggles
        <5>3. j \notin Of(Toggles)
          BY <2>1, <3>2, <5>1 DEF PageInv, EventComesFirst
        <5> QED  BY <4>1, <5>2, <5>3 DEF Of, Done, Toggles
      <4> QED  BY <1>5, <4>2, <4>3
    <3> QED  BY <3>1, <3>2
  <2>3. Settled' => \A e \in event' : e.isGoing = IsGoing'
    BY <1>5, <1>6, <2>1 DEF PageInv, GoingIsKnown
  <2> QED  BY <2>2, <2>3 DEF GoingIsKnown
<1>8. PanelIsKnown'
  <2>1. CASE calls[i].op \in Toggles
    BY <1>6, <2>1 DEF PanelIsKnown
  <2>2. CASE calls[i].op \notin Toggles
    <3>1. \A p : ReadsMe(p)' <=> ReadsMe(p)
      BY <2>2 DEF ReadsMe, IsGoing
    <3> QED  BY <1>3, <1>5, <2>2, <3>1 DEF PageInv, PanelIsKnown
  <2> QED  BY <2>1, <2>2
<1>9. MayKnown'
  <2>1. SUFFICES ASSUME role = visit.role PROVE MayKnown'
    BY DEF PageInv, MayKnown
  <2>2. s = "done"
    BY <2>1
  <2>3. calls'[i].state = "done"
    BY <2>2 DEF Became
  <2>4. ASSUME NEW j \in DOMAIN calls'
        PROVE  /\ calls'[j].state # "refused"
               /\ Done(j, {"event"})' => \A a \in calls'[j].answer : a.may = Permissions(role)
               /\ calls'[j].op \in {"links", "relist", "create", "revoke"} => role = "owner"
               /\ calls'[j].op = "export" => MayViewAttendees
    <3>1. /\ calls[j].state # "refused"
          /\ Done(j, {"event"}) => \A a \in calls[j].answer : a.may = Permissions(role)
          /\ calls[j].op \in {"links", "relist", "create", "revoke"} => role = "owner"
          /\ calls[j].op = "export" => MayViewAttendees
      BY <1>1, <2>1 DEF PageInv, MayKnown
    <3>2. CASE j = i
      BY <1>1, <2>2, <2>3, <3>1, <3>2
    <3>3. CASE j # i
      BY <1>1, <3>1, <3>3
    <3> QED  BY <3>2, <3>3
  <2>5. MayViewAttendees' = MayViewAttendees
    BY DEF MayViewAttendees
  <2> QED  BY <2>1, <2>4, <2>5 DEF PageInv, MayKnown
<1> QED  BY <1>2, <1>4, <1>7, <1>8, <1>9 DEF PageInv

\* The invites stay known when the call is not one that changes them.
LEMMA ServedKeepsInvites ==
    ASSUME InvitesAreKnown, NEW i \in DOMAIN calls, calls[i].state = "sent",
           NEW s \in {"done", "refused"}, Became(i, calls[i].op, s),
           s = "refused" \/ calls[i].op \notin {"links", "relist", "create", "revoke"},
           UNCHANGED <<visit, role, offered, dialog>>
    PROVE  InvitesAreKnown'
<1>1. /\ \A j, ops : Done(j, ops) => j # i /\ Done(j, ops)'
      /\ \A j, ops : Done(j, ops)' /\ j # i => Done(j, ops)
      /\ \A ops : Done(i, ops)' <=> calls[i].op \in ops /\ s = "done"
      /\ \A j \in DOMAIN calls : /\ j \in DOMAIN calls' /\ calls'[j].op = calls[j].op
                                 /\ j # i => calls'[j] = calls[j]
      /\ DOMAIN calls' = DOMAIN calls
      /\ \A ops : Of(ops)' = Of(ops)
  BY ServedMeans
<1>2. /\ Single' = Single /\ Clicked' = Clicked
      /\ \A v : Offers(v)' <=> Offers(v)
  BY <1>1 DEF Single, Clicked, Offers, Live
<1>3. ~Done(i, {"links", "relist"})' /\ ~Done(i, {"revoke"})' /\ ~Done(i, {"create", "revoke"})'
  BY <1>1
<1>4. \A j : /\ Done(j, {"links", "relist"})' => Done(j, {"links", "relist"}) /\ calls'[j] = calls[j]
             /\ Done(j, {"revoke"})' => Done(j, {"revoke"}) /\ calls'[j] = calls[j]
  BY <1>1, <1>3 DEF Done
<1>5. Relisting => Relisting'
  BY <1>1 DEF Relisting
<1> QED  BY <1>1, <1>2, <1>4, <1>5 DEF InvitesAreKnown

\* The only call made by a click, once it is answered.
LEMMA ServedAlone ==
    ASSUME InvitesAreKnown, NEW i \in DOMAIN calls, calls[i].state = "sent",
           Became(i, calls[i].op, "done"), calls[i].op # "event", Single,
           UNCHANGED <<visit, role, dialog>>
    PROVE  /\ \A j, k \in Clicked' : j = k
           /\ \A j, ops : Done(j, ops)' => j = i \/ calls'[j].op = "event"
           /\ ~Relisting \/ calls[i].op \in {"links", "relist"}
<1>1. /\ \A j, ops : Done(j, ops) => j # i /\ Done(j, ops)'
      /\ \A j, ops : Done(j, ops)' /\ j # i => Done(j, ops)
      /\ \A j \in DOMAIN calls : /\ j \in DOMAIN calls' /\ calls'[j].op = calls[j].op
                                 /\ j # i => calls'[j] = calls[j]
      /\ DOMAIN calls' = DOMAIN calls
      /\ \A ops : Of(ops)' = Of(ops)
  BY ServedMeans
<1>2. Clicked' = Clicked /\ i \in Clicked /\ \A j, k \in Clicked : j = k
  BY <1>1 DEF Clicked, Of, InvitesAreKnown
<1>3. \A j \in DOMAIN calls : j = i \/ calls[j].op = "event"
  BY <1>2 DEF Clicked, Of
<1>4. \A j, ops : Done(j, ops)' => j = i \/ calls'[j].op = "event"
  BY <1>1, <1>3 DEF Done
<1>5. ~Relisting \/ calls[i].op \in {"links", "relist"}
  BY <1>1, <1>3 DEF Relisting, Done
<1> QED  BY <1>2, <1>4, <1>5

LEMMA ServesKeeps ==
    ASSUME PageAssumption, PageInv, NEW i \in DOMAIN calls, Serve(i)
    PROVE  PageInv'
<1> DEFINE c == calls[i]
           is(answer) == calls' = [calls EXCEPT ![i].state = "done", ![i].answer = {answer}]
           refused == calls' = [calls EXCEPT ![i].state = "refused"]
<1>1. /\ c.state = "sent" /\ c.op \in PageOps /\ CallTypes /\ attending \in Seq(People)
      /\ UNCHANGED <<visit, role, joined, event, stale, panel, dialog, faults>>
  BY CallIs DEF Serve, PageInv, PageTypes, ServiceTypes
<1>2. \/ c.op = "event" /\ is(Described) /\ UNCHANGED <<attending, offered>>
      \/ /\ c.op = "going" /\ attending' = (IF IsGoing THEN attending ELSE Append(attending, Me))
         /\ is([isGoing |-> TRUE, count |-> Len(attending')]) /\ UNCHANGED offered
      \/ /\ c.op = "notGoing" /\ attending' = Without(Me)
         /\ is([isGoing |-> FALSE, count |-> Len(attending')]) /\ UNCHANGED offered
      \/ /\ c.op = "export" /\ (IF MayViewAttendees THEN is("file") ELSE refused)
         /\ UNCHANGED <<attending, offered>>
      \/ /\ c.op \in {"links", "relist"} /\ (IF role = "owner" THEN is(Live) ELSE refused)
         /\ UNCHANGED <<attending, offered>>
      \/ /\ c.op = "create" /\ role = "owner"
         /\ \E l \in Invites : /\ offered[l] = "no" /\ offered' = [offered EXCEPT ![l] = c.on]
                               /\ is(l)
         /\ UNCHANGED attending
      \/ /\ c.op = "revoke" /\ role = "owner" /\ offered' = [offered EXCEPT ![c.on] = "revoked"]
         /\ is(c.on) /\ UNCHANGED attending
      \/ /\ c.op \in {"create", "revoke"} /\ role # "owner" /\ refused
         /\ UNCHANGED <<attending, offered>>
  BY DEF Serve
<1>3. ASSUME NEW b, Answers(c.op, b), is(b)
      PROVE  CallTypes' /\ Became(i, c.op, "done") /\ calls'[i].answer = {b}
  BY <1>1, <1>3, CallServed
<1>4. refused => CallTypes' /\ Became(i, c.op, "refused")
  BY <1>1, CallRefused
<1> HIDE DEF is, refused
<1>5. CASE c.op = "event" /\ is(Described) /\ UNCHANGED <<attending, offered>>
  <2>1. Described \in EventSet /\ Described.isGoing = IsGoing /\ Described.may = Permissions(role)
    BY <1>1, DescribedIs
  <2>2. CallTypes' /\ Became(i, c.op, "done") /\ calls'[i].answer = {Described}
    <3>1. Answers(c.op, Described)
      BY <1>5, <2>1 DEF Answers
    <3> QED  BY <1>3, <1>5, <3>1
  <2>3. InvitesAreKnown'
    BY <1>1, <1>5, <2>2, ServedKeepsInvites DEF PageInv
  <2>4. IsGoing' = IsGoing /\ attending' \in Seq(People) /\ c.op \notin Toggles
    BY <1>1, <1>5 DEF IsGoing, Toggles
  <2> QED  BY <1>1, <1>5, <2>1, <2>2, <2>3, <2>4, ServeKeeps
<1>6. CASE /\ c.op = "going" /\ attending' = (IF IsGoing THEN attending ELSE Append(attending, Me))
           /\ is([isGoing |-> TRUE, count |-> Len(attending')]) /\ UNCHANGED offered
  <2> DEFINE t == TRUE
             b == [isGoing |-> t, count |-> Len(attending')]
  <2>1. attending' \in Seq(People) /\ Len(attending') \in Nat /\ IsGoing'
    <3>1. CASE IsGoing
      <4>1. attending' = attending
        BY <1>6, <3>1
      <4> QED  BY <1>1, <3>1, <4>1 DEF IsGoing
    <3>2. CASE ~IsGoing
      <4>1. attending' = Append(attending, Me) /\ Me \in People
        BY <1>6, <3>2 DEF PageAssumption
      <4>2. /\ attending' \in Seq(People) /\ Len(attending') = Len(attending) + 1
            /\ attending'[Len(attending) + 1] = Me /\ Len(attending) + 1 \in DOMAIN attending'
        BY <1>1, <4>1
      <4> QED  BY <1>1, <4>2 DEF IsGoing, ToSet
    <3> QED  BY <3>1, <3>2
  <2>2. t \in BOOLEAN /\ is(b)
    BY <1>6
  <2> HIDE DEF t
  <2>3. b \in GoingSet /\ b.isGoing = t
    BY <2>1, <2>2, GoingIs
  <2> HIDE DEF b
  <2>4. CallTypes' /\ Became(i, c.op, "done") /\ calls'[i].answer = {b}
    <3>1. Answers(c.op, b)
      BY <1>6, <2>3 DEF Answers
    <3> QED  BY <1>3, <2>2, <3>1
  <2>5. InvitesAreKnown'
    BY <1>1, <1>6, <2>4, ServedKeepsInvites DEF PageInv
  <2>6. IsGoing' = t /\ IsGoing' \in BOOLEAN
    BY <2>1 DEF t, IsGoing
  <2>7. \A a \in calls'[i].answer : a.isGoing = IsGoing'
    BY <2>3, <2>4, <2>6
  <2>8. c.op \in Toggles /\ c.op # "event"
    BY <1>6 DEF Toggles
  <2> QED  BY <1>1, <1>6, <2>1, <2>4, <2>5, <2>7, <2>8, ServeKeeps
<1>7. CASE /\ c.op = "notGoing" /\ attending' = Without(Me)
           /\ is([isGoing |-> FALSE, count |-> Len(attending')]) /\ UNCHANGED offered
  <2> DEFINE f == FALSE
             b == [isGoing |-> f, count |-> Len(attending')]
  <2>1. attending' \in Seq(People) /\ Len(attending') \in Nat /\ IsGoing' = f
    BY <1>1, <1>7, WithoutMe
  <2>2. f \in BOOLEAN /\ is(b)
    BY <1>7
  <2> HIDE DEF f
  <2>3. b \in GoingSet /\ b.isGoing = f
    BY <2>1, <2>2, GoingIs
  <2> HIDE DEF b
  <2>4. CallTypes' /\ Became(i, c.op, "done") /\ calls'[i].answer = {b}
    <3>1. Answers(c.op, b)
      BY <1>7, <2>3 DEF Answers
    <3> QED  BY <1>3, <2>2, <3>1
  <2>5. InvitesAreKnown'
    BY <1>1, <1>7, <2>4, ServedKeepsInvites DEF PageInv
  <2>6. \A a \in calls'[i].answer : a.isGoing = IsGoing'
    BY <2>1, <2>3, <2>4
  <2>7. c.op \in Toggles /\ c.op # "event"
    BY <1>7 DEF Toggles
  <2> QED  BY <1>1, <1>7, <2>1, <2>4, <2>5, <2>6, <2>7, ServeKeeps
<1>8. ASSUME refused, c.op # "export" => role # "owner",
             c.op \in {"export", "links", "relist", "create", "revoke"},
             UNCHANGED <<attending, offered>>,
             c.op = "export" => ~MayViewAttendees
      PROVE  PageInv'
  <2>1. CallTypes' /\ Became(i, c.op, "refused")
    BY <1>4, <1>8
  <2>2. role # visit.role
    BY <1>8 DEF PageInv, MayKnown
  <2>3. InvitesAreKnown'
    BY <1>1, <1>8, <2>1, ServedKeepsInvites DEF PageInv
  <2>4. c.op \notin Toggles
    BY <1>8 DEF Toggles
  <2> QED  BY <1>1, <1>8, <2>1, <2>2, <2>3, <2>4, ServeKeeps
<1>9. ASSUME NEW b, is(b), Answers(c.op, b), UNCHANGED attending, DOMAIN offered' = DOMAIN offered,
             c.op \in {"export", "links", "relist", "create", "revoke"}, InvitesAreKnown'
      PROVE  PageInv'
  <2>1. CallTypes' /\ Became(i, c.op, "done")
    BY <1>3, <1>9
  <2>2. c.op \notin Toggles /\ c.op \notin {"event", "going", "notGoing"}
    BY <1>9 DEF Toggles
  <2> QED  BY <1>1, <1>9, <2>1, <2>2, ServeKeeps
<1>10. CASE /\ c.op = "export" /\ (IF MayViewAttendees THEN is("file") ELSE refused)
            /\ UNCHANGED <<attending, offered>>
  <2>1. CASE MayViewAttendees
    <3>1. Answers(c.op, "file") /\ is("file")
      BY <1>10, <2>1 DEF Answers
    <3>2. Became(i, c.op, "done")
      BY <1>3, <3>1
    <3>3. InvitesAreKnown'
      BY <1>1, <1>10, <3>2, ServedKeepsInvites DEF PageInv
    <3> QED  BY <1>9, <1>10, <3>1, <3>3
  <2>2. CASE ~MayViewAttendees
    BY <1>8, <1>10, <2>2
  <2> QED  BY <2>1, <2>2
<1>11. ASSUME NEW b, is(b), Answers(c.op, b), c.op \in {"links", "relist", "create", "revoke"},
              Single /\ dialog.open /\ role = "owner" =>
                /\ c.op \in {"links", "relist"} => Offers(b)'
                /\ c.op = "revoke" /\ Offers(dialog.invites) => Offers(dialog.invites \ {b})'
       PROVE  InvitesAreKnown'
  <2>1. CallTypes' /\ Became(i, c.op, "done") /\ calls'[i].answer = {b}
    BY <1>3, <1>11
  <2>2. SUFFICES ASSUME Single PROVE InvitesAreKnown'
    BY <1>1 DEF InvitesAreKnown, Single
  <2>3. /\ \A j, k \in Clicked' : j = k
        /\ \A j, ops : Done(j, ops)' => j = i \/ calls'[j].op = "event"
        /\ ~Relisting \/ c.op \in {"links", "relist"}
    BY <1>1, <1>11, <2>1, <2>2, ServedAlone DEF PageInv
  <2>4. \A j, ops : Done(j, ops)' => j \in DOMAIN calls' /\ calls'[j].op \in ops
    BY DEF Done
  <2>5. calls'[i].op = c.op /\ i \in DOMAIN calls' /\ calls'[i].state = "done"
    BY <2>1 DEF Became
  <2>6. Relisting'
    BY <1>11, <2>5 DEF Relisting, Done
  <2>7. ASSUME dialog'.open, role' = "owner"
        PROVE  /\ \A j \in DOMAIN calls' : Done(j, {"links", "relist"})' =>
                    \A a \in calls'[j].answer : Offers(a)'
               /\ \A j \in DOMAIN calls' : Done(j, {"revoke"})' =>
                    \A a \in calls'[j].answer : Offers(dialog.invites \ {a})'
    <3>1. /\ c.op \in {"links", "relist"} => Offers(b)'
          /\ c.op = "revoke" /\ Offers(dialog.invites) => Offers(dialog.invites \ {b})'
      BY <1>1, <1>11, <2>2, <2>7
    <3>2. ASSUME NEW j \in DOMAIN calls', Done(j, {"links", "relist"})', NEW a \in calls'[j].answer
          PROVE  Offers(a)'
      <4>1. j = i /\ c.op \in {"links", "relist"}
        BY <2>3, <2>4, <2>5, <3>2
      <4>2. a = b
        BY <2>1, <3>2, <4>1
      <4> QED  BY <3>1, <4>1, <4>2
    <3>3. ASSUME NEW j \in DOMAIN calls', Done(j, {"revoke"})', NEW a \in calls'[j].answer
          PROVE  Offers(dialog.invites \ {a})'
      <4>1. j = i /\ c.op = "revoke"
        BY <2>3, <2>4, <2>5, <3>3
      <4>2. a = b
        BY <2>1, <3>3, <4>1
      <4>3. Offers(dialog.invites)
        BY <1>1, <2>2, <2>3, <2>7, <4>1 DEF PageInv, InvitesAreKnown
      <4> QED  BY <1>1, <3>1, <4>1, <4>2, <4>3
    <3> QED  BY <3>2, <3>3
  <2> QED  BY <2>3, <2>6, <2>7 DEF InvitesAreKnown
<1>12. CASE /\ c.op \in {"links", "relist"} /\ (IF role = "owner" THEN is(Live) ELSE refused)
            /\ UNCHANGED <<attending, offered>>
  <2>1. CASE role = "owner"
    <3>1. PICK v : v = Live
      OBVIOUS
    <3>2. is(v)
      BY <1>12, <2>1, <3>1
    <3>3. Answers(c.op, v)
      BY <1>12, <3>1 DEF Answers, Live, PageInv, PageTypes, ServiceTypes
    <3>4. Offers(v)'
      BY <1>12, <3>1 DEF Offers, Live, PageInv, PageTypes, ServiceTypes, InvitePurposes
    <3>5. InvitesAreKnown'
      BY <1>11, <1>12, <3>2, <3>3, <3>4
    <3> QED  BY <1>9, <1>12, <3>2, <3>3, <3>5
  <2>2. CASE role # "owner"
    BY <1>8, <1>12, <2>2
  <2> QED  BY <2>1, <2>2
<1>13. CASE /\ c.op = "create" /\ role = "owner"
            /\ \E l \in Invites : /\ offered[l] = "no" /\ offered' = [offered EXCEPT ![l] = c.on]
                                  /\ is(l)
            /\ UNCHANGED attending
  <2>1. PICK l \in Invites : is(l) /\ offered' = [offered EXCEPT ![l] = c.on]
    BY <1>13
  <2>2. Answers(c.op, l) /\ DOMAIN offered' = DOMAIN offered
    BY <1>13, <2>1 DEF Answers
  <2>3. InvitesAreKnown'
    BY <1>11, <1>13, <2>1, <2>2
  <2> QED  BY <1>9, <1>13, <2>1, <2>2, <2>3
<1>14. CASE /\ c.op = "revoke" /\ role = "owner" /\ offered' = [offered EXCEPT ![c.on] = "revoked"]
            /\ is(c.on) /\ UNCHANGED attending
  <2>1. PICK l : l = c.on
    OBVIOUS
  <2>2. Answers(c.op, l) /\ DOMAIN offered' = DOMAIN offered /\ is(l)
    BY <1>14, <2>1 DEF Answers
  <2>3. ASSUME Offers(dialog.invites) PROVE Offers(dialog.invites \ {l})'
    <3>1. /\ DOMAIN offered = Invites /\ Live \subseteq dialog.invites /\ dialog.invites \subseteq Invites
          /\ \A m \in dialog.invites : offered[m] # "revoked"
      BY <2>3 DEF Offers, PageInv, PageTypes, ServiceTypes
    <3>2. /\ \A m \in Invites : m # l => offered'[m] = offered[m]
          /\ l \in Invites => offered'[l] = "revoked"
      BY <1>14, <2>1, <3>1
    <3>3. Live' \subseteq Live \ {l}
      BY <2>2, <3>1, <3>2 DEF Live, InvitePurposes
    <3> QED  BY <1>1, <3>1, <3>2, <3>3 DEF Offers
  <2>4. InvitesAreKnown'
    BY <1>11, <1>14, <2>2, <2>3
  <2> QED  BY <1>9, <1>14, <2>2, <2>4
<1>15. CASE /\ c.op \in {"create", "revoke"} /\ role # "owner" /\ refused
            /\ UNCHANGED <<attending, offered>>
  BY <1>8, <1>15
<1> QED  BY <1>2, <1>5, <1>6, <1>7, <1>10, <1>12, <1>13, <1>14, <1>15

-----------------------------------------------------------------------------
LEMMA PageStarts == PageInit => PageInv
<1> SUFFICES ASSUME PageInit PROVE PageInv
  OBVIOUS
<1>1. /\ visit \in Visits /\ role = visit.role /\ attending = Attendees /\ joined = Joining
      /\ offered = [l \in Invites |-> "no"] /\ event = {} /\ panel = NoPanel /\ dialog = Closed
      /\ calls = <<>> /\ faults = visit.faults /\ stale
  BY DEF PageInit
<1>2. DOMAIN calls = {} /\ IsFiniteSet(DOMAIN calls)
  BY <1>1, FS_EmptySet
<1>3. /\ panel \in PanelSet /\ panel.pages = <<>> /\ panel.fetch = "no" /\ panel.got = <<>>
      /\ ~panel.failed
  <2> DEFINE f == FALSE
             k == <<>>
  <2>1. f \in BOOLEAN /\ k \in Seq(PageRow)
        /\ panel = [pages |-> k, fetch |-> "no", got |-> k, failed |-> f, cut |-> f]
    BY <1>1 DEF NoPanel
  <2> HIDE DEF f, k
  <2>2. /\ panel \in PanelSet /\ panel.pages = k /\ panel.fetch = "no" /\ panel.got = k
        /\ panel.failed = f
    BY <2>1 DEF PanelSet
  <2> QED  BY <2>2 DEF f, k
<1>4. dialog \in DialogSet /\ ~dialog.open
  <2> DEFINE f == FALSE
             e == {}
             n == "none"
  <2>1. /\ f \in BOOLEAN /\ e \in SUBSET Invites /\ n \in {"none"} \cup InvitePurposes
        /\ dialog = [open |-> f, purpose |-> n, created |-> e, invites |-> e]
    BY <1>1 DEF Closed
  <2> HIDE DEF f, e, n
  <2>2. dialog \in DialogSet /\ dialog.open = f
    BY <2>1 DEF DialogSet
  <2> QED  BY <2>2 DEF f
<1>5. ServiceTypes
  BY <1>1, PageAssumption DEF PageAssumption, ServiceTypes
<1>6. PageTypes /\ PanelRests
  BY <1>1, <1>2, <1>3, <1>4, <1>5 DEF PageTypes, CallTypes, EventTypes, PanelRests
<1>7. EventComesFirst
  BY <1>1, <1>2, <1>4 DEF EventComesFirst, Of
<1>8. GoingIsKnown
  BY <1>1, <1>2 DEF GoingIsKnown
<1>9. PanelIsKnown
  <2>1. ReadsMe(<<>>)
    BY <1>5, PageAssumption, ReadsNothing DEF ServiceTypes
  <2> QED  BY <1>3, <2>1 DEF PanelIsKnown
<1>10. InvitesAreKnown
  BY <1>2, <1>4 DEF InvitesAreKnown, Clicked
<1>11. MayKnown
  BY <1>1, <1>2, <1>3, <1>4 DEF MayKnown
<1> QED  BY <1>6, <1>7, <1>8, <1>9, <1>10, <1>11 DEF PageInv

LEMMA PageStays == PageInv /\ [PageNext]_pageVars => PageInv'
<1> SUFFICES ASSUME PageInv, [PageNext]_pageVars PROVE PageInv'
  OBVIOUS
<1> USE PageAssumption
<1>1. CASE UNCHANGED pageVars
  <2>1. UNCHANGED <<visit, role, attending, joined, offered, event, panel, faults, dialog, stale, calls>>
    BY <1>1 DEF pageVars, service
  <2>2. IsGoing' = IsGoing
    BY <2>1 DEF IsGoing
  <2>3. PageTypes' /\ PanelRests'
    BY <2>1 DEF PageInv, PageTypes, ServiceTypes, CallTypes, EventTypes, PanelRests
  <2>4. MayKnown'
    BY <2>1, MayKept DEF PageInv, MayKnown
  <2> QED  BY <2>1, <2>2, <2>3, <2>4, FirstKept, GoingKept, PanelKept, InvitesKept DEF PageInv
<1>2. CASE FetchEvent \/ ToggleGoing \/ CloseAuthModal \/ Export \/ OpenShare
  BY <1>2, FetchEventKeeps, ToggleGoingKeeps, CloseAuthKeeps, ExportKeeps, OpenShareKeeps
<1>3. CASE FetchPanel \/ ScrollToEnd \/ PageArrives \/ Refresh
  BY <1>3, FetchPanelKeeps, ScrollKeeps, PageArrivesKeeps, RefreshKeeps
<1>4. CASE CloseShare \/ CreateAnother \/ \E p \in InvitePurposes : PickPurpose(p)
  BY <1>4, CloseShareKeeps, CreateAnotherKeeps, PickPurposeKeeps
<1>5. CASE CreateLink
  <2>1. dialog.open /\ Ask("create", dialog.purpose)
    BY <1>5 DEF CreateLink, OffersCreate
  <2> QED  BY <2>1, AskMoreKeeps
<1>6. CASE \E l \in Invites : RevokeLink(l)
  <2>1. PICK l \in Invites : dialog.open /\ Ask("revoke", l)
    BY <1>6 DEF RevokeLink
  <2> QED  BY <2>1, AskMoreKeeps
<1>7. CASE \E i \in DOMAIN calls : Serve(i) \/ Succeeds(i) \/ Fails(i)
  BY <1>7, ServesKeeps, SucceedsKeeps, FailsKeeps
<1>8. CASE Join \/ TransferAccepted
  BY <1>8, JoinKeeps, TransferKeeps
<1> QED  BY <1>1, <1>2, <1>3, <1>4, <1>5, <1>6, <1>7, <1>8 DEF PageNext

LEMMA KnownIsTold == PageInv => PageTellsOneStory
<1> SUFFICES ASSUME PageInv PROVE PageTellsOneStory
  OBVIOUS
<1>1. GoingIsOneStory
  <2>1. SUFFICES ASSUME event # {}, calls = <<>>, visit.faults = 0, "edit" \notin visit.ops
                 PROVE  /\ Shown.isGoing = IsGoing
                        /\ /\ PanelShows \in {"list", "empty"} /\ panel.fetch = "no"
                           /\ ~HasNextPage /\ ~panel.cut
                           => Shown.isGoing = (Me \in Listed)
    BY DEF GoingIsOneStory
  <2>2. Undisturbed /\ Settled
    BY <2>1 DEF Undisturbed, Settled, Done
  <2>3. Shown.isGoing = IsGoing
    BY <2>1, <2>2, ShownIs DEF PageInv, PageTypes, GoingIsKnown
  <2>4. ASSUME PanelShows \in {"list", "empty"}, panel.fetch = "no", ~HasNextPage, ~panel.cut
        PROVE  IsGoing = (Me \in Listed)
    <3>1. panel.pages # <<>> /\ ~panel.failed
      BY <2>4 DEF PanelShows
    <3>2. panel.pages \in Seq(PageRow) /\ attending \in Seq(People)
      BY PanelIs DEF PageInv, PageTypes, ServiceTypes
    <3>3. ReadsMe(panel.pages)
      BY <2>2, <2>4, <3>1 DEF PageInv, PanelIsKnown
    <3>4. ~panel.pages[Len(panel.pages)].hasNext
      BY <2>4, <3>1 DEF HasNextPage, Last
    <3>5. IsGoing <=> \E i \in DOMAIN panel.pages : Me \in ToSet(panel.pages[i].items)
      BY <3>1, <3>2, <3>3, <3>4, PageAssumption, ReadsToTheEnd
    <3>6. Me \in Listed <=> \E i \in DOMAIN panel.pages : Me \in ToSet(panel.pages[i].items)
      BY <3>2 DEF Listed, ToSet
    <3>7. IsGoing \in BOOLEAN /\ (Me \in Listed) \in BOOLEAN
      BY DEF IsGoing
    <3> QED  BY <3>5, <3>6, <3>7
  <2> QED  BY <2>3, <2>4
<1>2. LinksAreOffered
  <2>1. SUFFICES ASSUME dialog.open, calls = <<>>, visit.flight = 1, visit.faults = 0, role = "owner"
                 PROVE  /\ Live \subseteq dialog.invites
                        /\ \A l \in dialog.invites : offered[l] # "revoked"
    BY DEF LinksAreOffered
  <2>2. Single /\ ~Relisting
    BY <2>1 DEF Single, Relisting, Done
  <2>3. Offers(dialog.invites)
    BY <2>1, <2>2 DEF PageInv, InvitesAreKnown
  <2> QED  BY <2>3 DEF Offers
<1>3. RefusedOnlyAfterLoss
  BY DEF PageInv, MayKnown, RefusedOnlyAfterLoss
<1> QED  BY <1>1, <1>2, <1>3 DEF PageTellsOneStory

\* The button, the panel of attendees, the sharing dialog and the service tell one story
\* (features/events: the page of an event, its going mutation, the infinite query of the
\* attendees and ShareAccessDialog), for any people, links, page size and visit.
THEOREM PageAlwaysTellsOneStory == PageSpec => []PageTellsOneStory
  BY PageStarts, PageStays, KnownIsTold, PTL DEF PageSpec

-----------------------------------------------------------------------------
(* The dialog of an event or a community. *)
Picture == Stored \cup Pictures
Zone == [mediaFiles : Seq(Picture), previewMedia : Seq(Picture), originalMedia : Seq(Picture),
         mediaToDelete : Seq(Picture), reading : Seq(Picture)]

\* An entity, and a save or deletion under way, have the fields of their dialog.
IsForm(f) == DOMAIN f = DOMAIN EmptyForm
IsEntity(e) ==
    /\ e = [form |-> e.form, images |-> e.images]
    /\ IsForm(e.form) /\ e.images \in [Zones -> Seq(Picture)]
AtMostOneEntity(s) == s = {} \/ \E e \in s : s = {e} /\ IsEntity(e)
IsCall(c) ==
    /\ c = [op |-> c.op, form |-> c.form, delete |-> c.delete, state |-> c.state]
    /\ c.op \in {task.mode, "delete"} /\ c.state \in {"sent", "done", "refused"}
    /\ IsForm(c.form)

EditorTypeOK ==
    /\ task \in Tasks
    /\ AtMostOneEntity(server) /\ AtMostOneEntity(page)
    /\ IsForm(form)
    /\ zones \in [Zones -> Zone]
    /\ call = {} \/ \E c \in call : call = {c} /\ IsCall(c)
    /\ uploads \subseteq [zone : Zones, picture : Picture, step : {"sign", "put"}]
    /\ picked \subseteq Pictures
    /\ calm \in BOOLEAN /\ isOpen \in BOOLEAN

DialogIsWhole ==
    /\ ~Editing => page = {}
    /\ ~isOpen => zones = Unmounted
    /\ showDeleteConfirm => \A c \in call : c.op = "delete"

\* The stored images come first among the previews, so that a place names the same image
\* in both; what is marked was clicked.
ZonesAreWhole ==
    /\ \A z \in Zones : \A i \in 1 .. Len(zones[z].originalMedia) :
          i <= Len(zones[z].previewMedia) /\ zones[z].previewMedia[i] = zones[z].originalMedia[i]
    /\ \A z \in Zones : ToSet(zones[z].mediaToDelete) \subseteq removed
CallsAreMeant ==
    \A c \in call :
        /\ c.delete \subseteq removed
        /\ c.op # "delete" /\ task.kind = "event" => c.form.end > c.form.start

WholeInv ==
    EditorTypeOK /\ DialogIsWhole /\ ZonesAreWhole /\ CallsAreMeant /\ OnlyRemovedIsDeleted

-----------------------------------------------------------------------------
(* While nothing came between. *)
Pending(z) == {u \in uploads : u.zone = z}
Held(z) ==
    (UNION {ToSet(e.images[z]) : e \in server}) \cup ToSet(zones[z].mediaFiles)
        \cup {u.picture : u \in Pending(z)}
Apart ==
    /\ \A z \in Zones : Held(z) \subseteq Stored \cup picked
    /\ \A y, z \in Zones : y # z => Held(y) \cap Held(z) = {}

\* One image or one on its way.
Fits ==
    \A e \in server, z \in Zones :
        /\ Len(e.images[z]) <= 1
        /\ Pending(z) # {} => e.images[z] = <<>>
        /\ \A u, v \in Pending(z) : u = v

AsOpened(zone, media) ==
    /\ zone.originalMedia = media /\ zone.previewMedia = media
    /\ zone.mediaFiles = <<>> /\ zone.mediaToDelete = <<>> /\ zone.reading = <<>>
Emptied(zone, media) ==
    /\ zone.originalMedia = <<>> /\ zone.mediaToDelete = media
    /\ zone.mediaFiles = <<>> /\ zone.previewMedia = <<>> /\ zone.reading = <<>>
Reading(zone, media) ==
    /\ zone.originalMedia = <<>> /\ zone.mediaToDelete = media
    /\ \E p \in Picture : zone.mediaFiles = <<p>> /\ zone.reading = <<p>>
    /\ zone.previewMedia = <<>>
Replaced(zone, media) ==
    /\ zone.originalMedia = <<>> /\ zone.mediaToDelete = media
    /\ \E p \in Picture : zone.mediaFiles = <<p>> /\ zone.previewMedia = <<p>>
    /\ zone.reading = <<>>
ZoneIs(zone, media) ==
    AsOpened(zone, media) \/ Emptied(zone, media) \/ Reading(zone, media) \/ Replaced(zone, media)

\* A dialog is over what is stored, until the service has answered it.
DialogFollows ==
    isOpen /\ (\A c \in call : c.state # "done") =>
        /\ uploads = {}
        /\ Editing => server # {} /\ \A e \in server, z \in Zones : ZoneIs(zones[z], e.images[z])
        /\ ~Editing => \A z \in Zones : ZoneIs(zones[z], <<>>)

Promises(p) == \A z \in Zones : p.images[z] = ToSet(zones[z].previewMedia)
SentAsShown ==
    \A c \in call : c.op # "delete" /\ c.state = "sent" =>
        /\ isOpen /\ c.delete = Marked
        /\ \A z \in Zones : zones[z].reading = <<>>
        /\ \A p \in promised : p.form = c.form /\ Promises(p)

DoneAsPromised ==
    \A c \in call, e \in server : c.op # "delete" /\ c.state = "done" =>
        /\ isOpen /\ uploads = {}
        /\ \A p \in promised : e.form.description = p.form.description
        /\ \A z \in Zones :
              /\ \A p \in promised : p.images[z] = ToSet(e.images[z]) \cup ToSet(zones[z].mediaFiles)
              /\ Len(zones[z].mediaFiles) <= 1
              /\ e.images[z] # <<>> => zones[z].mediaFiles = <<>>

StoredAsPromised ==
    call = {} => \A e \in server, p \in promised :
        /\ e.form.description = p.form.description
        /\ \A z \in Zones : p.images[z] = ToSet(e.images[z]) \cup {u.picture : u \in Pending(z)}

CalmInv ==
    /\ Apart /\ Fits /\ DialogFollows
    /\ SentAsShown /\ DoneAsPromised /\ StoredAsPromised

EditorInv == WholeInv /\ (calm => CalmInv)

-----------------------------------------------------------------------------
(* Short lists. *)
LEMMA OneEntry ==
    ASSUME NEW S, NEW x \in S
    PROVE  /\ <<x>> \in Seq(S) /\ Len(<<x>>) = 1 /\ ToSet(<<x>>) = {x} /\ <<x>> # <<>>
           /\ Append(<<>>, x) = <<x>> /\ RemoveAt(<<x>>, 1) = <<>> /\ DOMAIN <<x>> = {1}
           /\ <<x>>[1] = x
<1> DEFINE s == <<x>>
<1>1. s \in Seq(S) /\ Len(s) = 1 /\ DOMAIN s = {1} /\ s[1] = x
  OBVIOUS
<1>2. ToSet(s) = {x}
  BY <1>1 DEF ToSet
<1>3. Append(<<>>, x) = s
  OBVIOUS
<1>4. RemoveAt(s, 1) = <<>>
  <2>1. SubSeq(s, 1, 0) = <<>>
    BY <1>1, SubSeqProperties
  <2>2. SubSeq(s, 2, 1) = <<>>
    BY <1>1, SubSeqProperties
  <2>3. RemoveAt(s, 1) = SubSeq(s, 1, 0) \o SubSeq(s, 2, 1)
    BY <1>1 DEF RemoveAt
  <2> QED
    BY <2>1, <2>2, <2>3
<1> QED
  BY <1>1, <1>2, <1>3, <1>4

LEMMA NoEntry ==
    /\ ToSet(<<>>) = {} /\ Len(<<>>) = 0 /\ DOMAIN <<>> = {}
    /\ \A S : <<>> \in Seq(S)
BY DEF ToSet

LEMMA ShortList ==
    ASSUME NEW S, NEW s \in Seq(S), Len(s) <= 1
    PROVE  s = <<>> \/ \E x \in S : s = <<x>>
<1> DEFINE n == Len(s)
<1>1. n \in Nat /\ n <= 1
  OBVIOUS
<1> HIDE DEF n
<1>2. n = 0 \/ n = 1
  BY <1>1
<1> USE DEF n
<1>3. CASE Len(s) = 0
  BY <1>3
<1>4. CASE Len(s) = 1
  <2> DEFINE x == s[1]
             t == <<x>>
  <2>1. x \in S
    BY <1>4
  <2>2. t \in Seq(S) /\ Len(t) = 1 /\ t[1] = x
    BY <2>1
  <2> HIDE DEF t
  <2>3. s = t
    BY <1>4, <2>2
  <2> QED
    BY <2>1, <2>3 DEF t
<1> QED
  BY <1>2, <1>3, <1>4

LEMMA LastEntry ==
    ASSUME NEW S, NEW s \in Seq(S), NEW x \in S
    PROVE  /\ Append(s, x) \in Seq(S) /\ Len(Append(s, x)) = Len(s) + 1
           /\ ToSet(Append(s, x)) = ToSet(s) \cup {x} /\ ToSet(s) \subseteq S
           /\ \A i \in 1 .. Len(s) : Append(s, x)[i] = s[i]
<1> DEFINE a == Append(s, x)
<1>1. a \in Seq(S) /\ Len(a) = Len(s) + 1 /\ Len(s) \in Nat
  OBVIOUS
<1>2. \A i \in 1 .. Len(s) : a[i] = s[i] /\ s[i] \in S
  OBVIOUS
<1>3. a[Len(s) + 1] = x
  OBVIOUS
<1>4. DOMAIN a = 1 .. Len(s) + 1 /\ DOMAIN s = 1 .. Len(s)
  BY <1>1
<1> HIDE DEF a
<1>5. ToSet(a) = ToSet(s) \cup {x}
  <2>1. \A i \in DOMAIN a : i \in DOMAIN s \/ i = Len(s) + 1
    BY <1>1, <1>4
  <2>2. \A i \in DOMAIN s : i \in DOMAIN a
    BY <1>1, <1>4
  <2>3. Len(s) + 1 \in DOMAIN a
    BY <1>1, <1>4
  <2> QED
    BY <1>2, <1>3, <1>4, <2>1, <2>2, <2>3 DEF ToSet
<1>6. ToSet(s) \subseteq S
  BY <1>2, <1>4 DEF ToSet
<1> QED
  BY <1>1, <1>2, <1>5, <1>6 DEF a

LEMMA EntryGone ==
    ASSUME NEW S, NEW s \in Seq(S), NEW i \in 1 .. Len(s)
    PROVE  /\ RemoveAt(s, i) \in Seq(S) /\ Len(RemoveAt(s, i)) = Len(s) - 1
           /\ \A j \in 1 .. Len(s) - 1 :
                 RemoveAt(s, i)[j] = IF j < i THEN s[j] ELSE s[j + 1]
<1> DEFINE b == SubSeq(s, 1, i - 1)
           c == SubSeq(s, i + 1, Len(s))
           r == RemoveAt(s, i)
<1>1. Len(s) \in Nat /\ i \in Nat /\ i >= 1 /\ i <= Len(s)
  OBVIOUS
<1>2. b \in Seq(S) /\ Len(b) = i - 1 /\ \A j \in 1 .. i - 1 : b[j] = s[j]
  BY <1>1, SubSeqProperties
<1>3. c \in Seq(S) /\ Len(c) = Len(s) - i /\ \A j \in 1 .. Len(s) - i : c[j] = s[i + j]
  BY <1>1, SubSeqProperties
<1>4. r = b \o c
  BY DEF RemoveAt
<1> HIDE DEF b, c, r
<1>5. r \in Seq(S) /\ Len(r) = Len(s) - 1
  BY <1>1, <1>2, <1>3, <1>4
<1>6. ASSUME NEW j \in 1 .. Len(s) - 1
      PROVE  r[j] = IF j < i THEN s[j] ELSE s[j + 1]
  <2>1. CASE j < i
    BY <1>1, <1>2, <1>3, <1>4, <2>1
  <2>2. CASE ~(j < i)
    <3>1. j - (i - 1) \in 1 .. Len(s) - i
      BY <1>1, <2>2
    <3>2. r[j] = c[j - (i - 1)]
      BY <1>1, <1>2, <1>3, <1>4, <2>2
    <3>3. c[j - (i - 1)] = s[i + (j - (i - 1))]
      BY <1>3, <3>1
    <3>4. i + (j - (i - 1)) = j + 1
      BY <1>1
    <3> QED
      BY <2>2, <3>2, <3>3, <3>4
  <2> QED
    BY <2>1, <2>2
<1> QED
  BY <1>5, <1>6 DEF r

-----------------------------------------------------------------------------
(* What the operators and the steps do. *)
LEMMA SameDialog ==
    ASSUME task' = task
    PROVE  /\ Zones' = Zones /\ Editing' = Editing /\ EmptyForm' = EmptyForm
           /\ \A f : IsForm(f)' <=> IsForm(f)
           /\ \A e : IsEntity(e)' <=> IsEntity(e)
           /\ \A c : IsCall(c)' <=> IsCall(c)
           /\ \A e : Images(e)' = Images(e)
<1>1. Zones' = Zones /\ Editing' = Editing /\ EmptyForm' = EmptyForm
  BY DEF Zones, Editing, EmptyForm
<1>2. \A f : IsForm(f)' <=> IsForm(f)
  BY <1>1 DEF IsForm
<1>3. \A e : IsEntity(e)' <=> IsEntity(e)
  BY <1>1, <1>2 DEF IsEntity
<1>4. \A c : IsCall(c)' <=> IsCall(c)
  BY <1>1, <1>2 DEF IsCall
<1>5. \A e : Images(e)' = Images(e)
  BY <1>1 DEF Images
<1> QED
  BY <1>1, <1>2, <1>3, <1>4, <1>5

LEMMA TheEntity ==
    ASSUME NEW s, AtMostOneEntity(s), NEW e \in s
    PROVE  s = {e} /\ The(s) = e /\ IsEntity(e)
<1>1. s = {e} /\ IsEntity(e)
  BY DEF AtMostOneEntity
<1> QED
  BY <1>1 DEF The

LEMMA TheCall ==
    ASSUME EditorTypeOK, NEW c \in call
    PROVE  call = {c} /\ IsCall(c)
BY DEF EditorTypeOK

\* A zone is a record of five lists.
LEMMA ZoneFields ==
    ASSUME NEW m \in Seq(Picture), NEW p \in Seq(Picture), NEW o \in Seq(Picture),
           NEW d \in Seq(Picture), NEW r \in Seq(Picture)
    PROVE  [mediaFiles |-> m, previewMedia |-> p, originalMedia |-> o, mediaToDelete |-> d,
            reading |-> r] \in Zone
BY DEF Zone

LEMMA EmptyZoneIs ==
    /\ EmptyZone \in Zone
    /\ EmptyZone.mediaFiles = <<>> /\ EmptyZone.previewMedia = <<>>
    /\ EmptyZone.originalMedia = <<>> /\ EmptyZone.mediaToDelete = <<>>
    /\ EmptyZone.reading = <<>>
BY NoEntry DEF EmptyZone, Zone

LEMMA InitializedIs ==
    ASSUME NEW zone \in Zone, NEW media \in Seq(Picture)
    PROVE  /\ Initialized(zone, media) \in Zone
           /\ Initialized(zone, media).mediaFiles = zone.mediaFiles
           /\ Initialized(zone, media).mediaToDelete = zone.mediaToDelete
           /\ Initialized(zone, media).reading = zone.reading
           /\ \/ Initialized(zone, media) = zone /\ media = <<>>
              \/ /\ Initialized(zone, media).originalMedia = media
                 /\ Initialized(zone, media).previewMedia = media
BY DEF Initialized, SetOriginalMedia, Zone

LEMMA AddFileDoes ==
    ASSUME zones \in [Zones -> Zone], NEW z \in Zones, NEW p \in Pictures, AddFile(z, p)
    PROVE  /\ zones' \in [Zones -> Zone]
           /\ \A y \in Zones \ {z} : zones'[y] = zones[y]
           /\ zones'[z].mediaFiles = Append(zones[z].mediaFiles, p)
           /\ zones'[z].reading = Append(zones[z].reading, p)
           /\ zones'[z].previewMedia = zones[z].previewMedia
           /\ zones'[z].originalMedia = zones[z].originalMedia
           /\ zones'[z].mediaToDelete = zones[z].mediaToDelete
<1> DEFINE zone == zones[z]
           a == Added(zone, p)
<1>1. zone \in Zone
  OBVIOUS
<1>2. zones' = [zones EXCEPT ![z] = a]
  BY DEF AddFile
<1> HIDE DEF zone
<1>3. p \in Picture
  BY DEF Picture
<1>4. /\ Append(zone.mediaFiles, p) \in Seq(Picture)
      /\ Append(zone.reading, p) \in Seq(Picture)
  BY <1>1, <1>3, LastEntry DEF Zone
<1>5. /\ a \in Zone
      /\ a.mediaFiles = Append(zone.mediaFiles, p) /\ a.reading = Append(zone.reading, p)
      /\ a.previewMedia = zone.previewMedia /\ a.originalMedia = zone.originalMedia
      /\ a.mediaToDelete = zone.mediaToDelete
  BY <1>1, <1>4 DEF Added, Zone
<1> HIDE DEF a
<1> QED
  BY <1>2, <1>5 DEF zone

LEMMA PreviewReadDoes ==
    ASSUME zones \in [Zones -> Zone], NEW z \in Zones, NEW i, PreviewRead(z, i)
    PROVE  /\ zones' \in [Zones -> Zone] /\ i \in 1 .. Len(zones[z].reading)
           /\ \A y \in Zones \ {z} : zones'[y] = zones[y]
           /\ zones'[z].previewMedia = Append(zones[z].previewMedia, zones[z].reading[i])
           /\ zones'[z].reading = RemoveAt(zones[z].reading, i)
           /\ zones'[z].mediaFiles = zones[z].mediaFiles
           /\ zones'[z].originalMedia = zones[z].originalMedia
           /\ zones'[z].mediaToDelete = zones[z].mediaToDelete
<1> DEFINE zone == zones[z]
           p == Append(zone.previewMedia, zone.reading[i])
           r == RemoveAt(zone.reading, i)
           a == [zone EXCEPT !.previewMedia = p, !.reading = r]
<1>1. zone \in Zone
  OBVIOUS
<1>2. zones' = [zones EXCEPT ![z] = a] /\ i \in DOMAIN zone.reading
  BY DEF PreviewRead
<1> HIDE DEF zone
<1>3. zone.reading \in Seq(Picture) /\ zone.previewMedia \in Seq(Picture)
  BY <1>1 DEF Zone
<1>4. i \in 1 .. Len(zone.reading) /\ zone.reading[i] \in Picture
  BY <1>2, <1>3
<1>5. p \in Seq(Picture) /\ r \in Seq(Picture)
  BY <1>3, <1>4, LastEntry, EntryGone
<1> HIDE DEF p, r
<1>6. /\ a \in Zone /\ a.previewMedia = p /\ a.reading = r
      /\ a.mediaFiles = zone.mediaFiles /\ a.originalMedia = zone.originalMedia
      /\ a.mediaToDelete = zone.mediaToDelete
  BY <1>1, <1>5 DEF Zone
<1> HIDE DEF a
<1> QED
  BY <1>2, <1>4, <1>6 DEF zone, p, r

LEMMA RemoveMediaDoes ==
    ASSUME zones \in [Zones -> Zone], NEW z \in Zones, NEW i, RemoveMedia(z, i)
    PROVE  /\ zones' \in [Zones -> Zone] /\ i \in 1 .. Len(zones[z].previewMedia)
           /\ \A y \in Zones \ {z} : zones'[y] = zones[y]
           /\ zones'[z].previewMedia = RemoveAt(zones[z].previewMedia, i)
           /\ zones'[z].reading = zones[z].reading
           /\ i <= Len(zones[z].originalMedia) =>
                 /\ zones'[z].mediaFiles = zones[z].mediaFiles
                 /\ zones'[z].originalMedia = RemoveAt(zones[z].originalMedia, i)
                 /\ zones'[z].mediaToDelete =
                       Append(zones[z].mediaToDelete, zones[z].originalMedia[i])
           /\ i > Len(zones[z].originalMedia) =>
                 /\ zones'[z].originalMedia = zones[z].originalMedia
                 /\ zones'[z].mediaToDelete = zones[z].mediaToDelete
                 /\ i - Len(zones[z].originalMedia) <= Len(zones[z].mediaFiles) =>
                       zones'[z].mediaFiles =
                           RemoveAt(zones[z].mediaFiles, i - Len(zones[z].originalMedia))
<1> DEFINE zone == zones[z]
           n == Len(zone.originalMedia)
           a == RemoveFile(zone, i)
           p == RemoveAt(zone.previewMedia, i)
           o == IF i <= n THEN RemoveAt(zone.originalMedia, i) ELSE zone.originalMedia
           m == IF i > n /\ i - n <= Len(zone.mediaFiles) THEN RemoveAt(zone.mediaFiles, i - n)
                ELSE zone.mediaFiles
           d == IF i <= n THEN Append(zone.mediaToDelete, zone.originalMedia[i])
                ELSE zone.mediaToDelete
<1>1. zone \in Zone
  OBVIOUS
<1>2. zones' = [zones EXCEPT ![z] = a] /\ i \in DOMAIN zone.previewMedia
  BY DEF RemoveMedia
<1> HIDE DEF zone
<1>3. /\ zone.previewMedia \in Seq(Picture) /\ zone.originalMedia \in Seq(Picture)
      /\ zone.mediaFiles \in Seq(Picture) /\ zone.mediaToDelete \in Seq(Picture)
  BY <1>1 DEF Zone
<1>4. i \in 1 .. Len(zone.previewMedia) /\ n \in Nat /\ i \in Nat /\ i >= 1
  BY <1>2, <1>3
<1>5. p \in Seq(Picture)
  BY <1>3, <1>4, EntryGone
<1>6. o \in Seq(Picture)
  <2>1. CASE i <= n
    <3>1. i \in 1 .. n
      BY <1>4, <2>1
    <3> QED
      BY <1>3, <3>1, <2>1, EntryGone
  <2> QED
    BY <1>3, <2>1
<1>7. m \in Seq(Picture)
  <2>1. CASE i > n /\ i - n <= Len(zone.mediaFiles)
    <3>1. i - n \in 1 .. Len(zone.mediaFiles)
      <4> DEFINE l == Len(zone.mediaFiles)
      <4>1. l \in Nat
        BY <1>3
      <4> HIDE DEF n, l
      <4>2. i - n \in 1 .. l
        BY <1>4, <2>1, <4>1 DEF l
      <4> QED
        BY <4>2 DEF l
    <3> QED
      BY <1>3, <3>1, <2>1, EntryGone
  <2>2. CASE ~(i > n /\ i - n <= Len(zone.mediaFiles))
    BY <1>3, <2>2
  <2> QED
    BY <2>1, <2>2
<1>8. d \in Seq(Picture)
  <2>1. CASE i <= n
    <3>1. i \in 1 .. n
      BY <1>4, <2>1
    <3>2. zone.originalMedia[i] \in Picture
      BY <1>3, <3>1
    <3> QED
      BY <1>3, <3>2, <2>1, LastEntry
  <2> QED
    BY <1>3, <2>1
<1>9. a = [[zone EXCEPT !.previewMedia = p, !.originalMedia = o, !.mediaFiles = m] EXCEPT
              !.mediaToDelete = d]
  BY DEF RemoveFile, RemoveFile_NotMarked
<1> HIDE DEF a, p, o, m, d
<1>10. /\ a \in Zone /\ a.previewMedia = p /\ a.originalMedia = o /\ a.mediaFiles = m
       /\ a.mediaToDelete = d /\ a.reading = zone.reading
  BY <1>1, <1>5, <1>6, <1>7, <1>8, <1>9 DEF Zone
<1>11. /\ zones' \in [Zones -> Zone] /\ zones'[z] = a
       /\ \A y \in Zones \ {z} : zones'[y] = zones[y]
  BY <1>2, <1>10
<1>12. i <= n => o = RemoveAt(zone.originalMedia, i) /\ m = zone.mediaFiles
                    /\ d = Append(zone.mediaToDelete, zone.originalMedia[i])
  <2> HIDE DEF n
  <2> QED
    BY <1>4 DEF o, m, d
<1>13. i > n => /\ o = zone.originalMedia /\ d = zone.mediaToDelete
                /\ i - n <= Len(zone.mediaFiles) => m = RemoveAt(zone.mediaFiles, i - n)
  <2> HIDE DEF n
  <2> QED
    BY <1>4 DEF o, m, d
<1> QED
  BY <1>4, <1>10, <1>11, <1>12, <1>13 DEF zone, p

LEMMA UnmountedIs ==
    Unmounted \in [Zones -> Zone] /\ \A z \in Zones : AsOpened(Unmounted[z], <<>>)
BY EmptyZoneIs DEF Unmounted, AsOpened

LEMMA MountedIs ==
    ASSUME AtMostOneEntity(page)
    PROVE  /\ Mounted \in [Zones -> Zone]
           /\ page = {} => \A z \in Zones : AsOpened(Mounted[z], <<>>)
           /\ \A e \in page, z \in Zones : AsOpened(Mounted[z], e.images[z])
<1>1. CASE page = {}
  BY <1>1, EmptyZoneIs DEF Mounted, AsOpened
<1>2. CASE page # {}
  <2>1. PICK e \in page : TRUE
    BY <1>2
  <2>2. page = {e} /\ The(page) = e /\ e.images \in [Zones -> Seq(Picture)]
    BY <2>1, TheEntity DEF IsEntity
  <2>3. Mounted = [z \in Zones |-> Initialized(EmptyZone, e.images[z])]
    BY <1>2, <2>2 DEF Mounted
  <2>4. ASSUME NEW z \in Zones
        PROVE  /\ Initialized(EmptyZone, e.images[z]) \in Zone
               /\ AsOpened(Initialized(EmptyZone, e.images[z]), e.images[z])
    <3> DEFINE media == e.images[z]
    <3>1. media \in Seq(Picture)
      BY <2>2
    <3> HIDE DEF media
    <3>2. AsOpened(Initialized(EmptyZone, media), media) /\ Initialized(EmptyZone, media) \in Zone
      BY <3>1, EmptyZoneIs, InitializedIs DEF AsOpened
    <3> QED
      BY <3>2 DEF media
  <2> QED
    BY <1>2, <2>2, <2>3, <2>4
<1> QED
  BY <1>1, <1>2

-----------------------------------------------------------------------------
(* Whatever comes between. *)
LEMMA WholeStarts == EditorInit => WholeInv
<1> SUFFICES ASSUME EditorInit PROVE WholeInv
  OBVIOUS
<1> USE DEF EditorInit
<1>1. task \in Tasks /\ Zones = ZonesOf(task.kind) /\ EmptyForm = EmptyOf(task.kind)
  BY DEF Zones, EmptyForm
<1>2. /\ DOMAIN task.form = DOMAIN EmptyForm
      /\ task.kind = "event" => task.form.end > task.form.start
      /\ task.images \in [Zones -> Seq(Stored)]
  BY <1>1, EditorAssumption
<1>3. task.images \in [Zones -> Seq(Picture)]
  <2>1. \A s \in Seq(Stored) : s \in Seq(Picture)
    BY DEF Picture
  <2> QED
    BY <1>2, <2>1
<1> DEFINE e == [form |-> task.form, images |-> task.images]
<1>4. e.form = task.form /\ e.images = task.images /\ e = [form |-> e.form, images |-> e.images]
  OBVIOUS
<1>5. server = IF Editing THEN {e} ELSE {}
  OBVIOUS
<1> HIDE DEF e
<1>6. IsEntity(e)
  BY <1>2, <1>3, <1>4 DEF IsEntity, IsForm
<1>7. AtMostOneEntity(server) /\ AtMostOneEntity(page)
  BY <1>5, <1>6 DEF AtMostOneEntity
<1>8. IsForm(form)
  BY <1>2 DEF IsForm
<1>9. EditorTypeOK
  BY <1>1, <1>7, <1>8, UnmountedIs DEF EditorTypeOK
<1>10. DialogIsWhole
  BY <1>5 DEF DialogIsWhole
<1>11. ZonesAreWhole
  BY UnmountedIs, NoEntry DEF ZonesAreWhole, AsOpened
<1>12. CallsAreMeant
  BY DEF CallsAreMeant
<1>13. OnlyRemovedIsDeleted
  <2>1. \A z \in Zones : ToSet(e.images[z]) \subseteq Images(e)
    BY DEF Images
  <2>2. \A f \in server : f = e
    BY <1>5
  <2>3. ASSUME NEW f \in server
        PROVE  /\ \A z \in Zones : ToSet(task.images[z]) \ Images(f) \subseteq removed
               /\ task.kind = "event" => f.form.end > f.form.start
    <3>1. f = e /\ f.form = task.form
      BY <1>4, <2>2
    <3> QED
      BY <1>2, <1>4, <2>1, <3>1
  <2> QED
    BY <2>3 DEF OnlyRemovedIsDeleted
<1> QED
  BY <1>9, <1>10, <1>11, <1>12, <1>13 DEF WholeInv

\* Lists shown as they were opened have every image at its place, and none marked.
LEMMA OpenedIsWhole ==
    ASSUME task' = task, zones' \in [Zones -> Zone],
           \A z \in Zones : \E media \in Seq(Picture) : AsOpened(zones'[z], media)
    PROVE  ZonesAreWhole'
<1>1. Zones' = Zones
  BY SameDialog
<1>2. ASSUME NEW z \in Zones
      PROVE  /\ ToSet(zones'[z].mediaToDelete) \subseteq removed'
             /\ \A i \in 1 .. Len(zones'[z].originalMedia) :
                   /\ i <= Len(zones'[z].previewMedia)
                   /\ zones'[z].previewMedia[i] = zones'[z].originalMedia[i]
  <2>1. PICK media \in Seq(Picture) : AsOpened(zones'[z], media)
    OBVIOUS
  <2> QED
    BY <2>1, NoEntry DEF AsOpened
<1> QED
  BY <1>1, <1>2 DEF ZonesAreWhole

LEMMA ZonesStayWhole ==
    ASSUME ZonesAreWhole, task' = task, zones' = zones, removed' = removed
    PROVE  ZonesAreWhole'
BY SameDialog DEF ZonesAreWhole

LEMMA CallsStayMeant ==
    ASSUME CallsAreMeant, task' = task, call' = call \/ call' = {}, removed \subseteq removed'
    PROVE  CallsAreMeant'
BY DEF CallsAreMeant

LEMMA ServerStaysMeant ==
    ASSUME OnlyRemovedIsDeleted, task' = task, server' = server \/ server' = {},
           removed \subseteq removed'
    PROVE  OnlyRemovedIsDeleted'
<1>1. Zones' = Zones /\ Editing' = Editing /\ \A e : Images(e)' = Images(e)
  BY SameDialog
<1> QED
  BY <1>1 DEF OnlyRemovedIsDeleted

LEMMA OpenIsWhole == ASSUME WholeInv, Open PROVE WholeInv'
<1> USE DEF WholeInv, Open, background
<1>1. task' = task /\ removed' = removed
  OBVIOUS
<1>2. AtMostOneEntity(page)
  BY DEF EditorTypeOK
<1>3. Mounted \in [Zones -> Zone] /\ zones' = Mounted
  BY <1>2, MountedIs
<1>4. EditorTypeOK'
  BY <1>1, <1>3, SameDialog DEF EditorTypeOK, AtMostOneEntity
<1>5. \A z \in Zones : \E media \in Seq(Picture) : AsOpened(zones'[z], media)
  <2>1. CASE page = {}
    BY <1>2, <1>3, <2>1, MountedIs, NoEntry
  <2>2. CASE page # {}
    <3>1. PICK e \in page : TRUE
      BY <2>2
    <3>2. e.images \in [Zones -> Seq(Picture)]
      BY <1>2, <3>1, TheEntity DEF IsEntity
    <3> QED
      BY <1>2, <1>3, <3>1, <3>2, MountedIs
  <2> QED
    BY <2>1, <2>2
<1>6. ZonesAreWhole'
  BY <1>1, <1>3, <1>5, OpenedIsWhole
<1>7. DialogIsWhole'
  BY <1>1, SameDialog DEF DialogIsWhole
<1>8. CallsAreMeant' /\ OnlyRemovedIsDeleted'
  BY <1>1, CallsStayMeant, ServerStaysMeant
<1> QED
  BY <1>4, <1>6, <1>7, <1>8

\* A dialog that is gone holds nothing.
LEMMA ShutIsWhole ==
    ASSUME task' = task, zones' = Unmounted
    PROVE  zones' \in [Zones -> Zone] /\ zones' = Unmounted' /\ ZonesAreWhole'
<1>1. zones' \in [Zones -> Zone] /\ zones' = Unmounted'
  BY UnmountedIs, SameDialog DEF Unmounted
<1>2. \A z \in Zones : AsOpened(zones'[z], <<>>)
  BY UnmountedIs
<1> QED
  BY <1>1, <1>2, NoEntry, OpenedIsWhole

LEMMA CloseIsWhole == ASSUME WholeInv, Close PROVE WholeInv'
<1> USE DEF WholeInv, Close, background
<1>1. task' = task /\ removed' = removed /\ zones' = Unmounted
  OBVIOUS
<1>2. EditorTypeOK'
  BY <1>1, ShutIsWhole, SameDialog DEF EditorTypeOK, AtMostOneEntity
<1>3. DialogIsWhole'
  BY <1>1, ShutIsWhole, SameDialog DEF DialogIsWhole
<1> QED
  BY <1>1, <1>2, <1>3, ShutIsWhole, CallsStayMeant, ServerStaysMeant

LEMMA TypeIsChange == Type => \E f, v : Change(f, v)
<1> SUFFICES ASSUME Type PROVE \E f, v : Change(f, v)
  OBVIOUS
<1>1. \/ \E text \in {"", "x", "y"} : Change("description", text)
      \/ \E field \in DOMAIN EventDates : \E day \in EventDates[field] : Change(field, day)
      \/ \E field \in DOMAIN EventFields :
            \E value \in EventFields[field] : Change(field, value)
      \/ \E field \in DOMAIN CommunityFields :
            \E value \in CommunityFields[field] : Change(field, value)
  BY Zenon DEF Type, Describe, PickDate, SetEventField, SetCommunityField
<1> QED
  BY <1>1, Zenon

LEMMA TypeIsWhole == ASSUME WholeInv, NEW f, NEW v, Change(f, v) PROVE WholeInv'
<1> USE DEF WholeInv, Change, EditDialog, background
<1>1. /\ task' = task /\ removed' = removed /\ zones' = zones /\ DOMAIN form' = DOMAIN form
      /\ call' = call /\ server' = server
  OBVIOUS
<1>2. EditorTypeOK'
  BY <1>1, SameDialog DEF EditorTypeOK, AtMostOneEntity, IsForm
<1>3. DialogIsWhole'
  BY <1>1, SameDialog DEF DialogIsWhole, Unmounted
<1> QED
  BY <1>1, <1>2, <1>3, ZonesStayWhole, CallsStayMeant, ServerStaysMeant

LEMMA AddFileIsWhole ==
    ASSUME WholeInv, NEW z \in Zones, NEW p \in Pictures, AddFile(z, p) PROVE WholeInv'
<1> USE DEF WholeInv
<1>1. /\ task' = task /\ removed' = removed /\ call' = call /\ server' = server /\ isOpen
      /\ isOpen' = isOpen /\ picked' = picked \cup {p} /\ page' = page /\ form' = form
      /\ uploads' = uploads /\ calm' \in BOOLEAN /\ showDeleteConfirm' = showDeleteConfirm
  BY DEF AddFile, EditDialog, background, EditorTypeOK, IsProcessing
<1>2. /\ zones' \in [Zones -> Zone] /\ \A y \in Zones \ {z} : zones'[y] = zones[y]
      /\ zones'[z].previewMedia = zones[z].previewMedia
      /\ zones'[z].originalMedia = zones[z].originalMedia
      /\ zones'[z].mediaToDelete = zones[z].mediaToDelete
  BY AddFileDoes DEF EditorTypeOK
<1>3. EditorTypeOK'
  BY <1>1, <1>2, SameDialog DEF EditorTypeOK, AtMostOneEntity
<1>4. DialogIsWhole'
  BY <1>1, SameDialog DEF DialogIsWhole
<1>5. \A y \in Zones : /\ zones'[y].previewMedia = zones[y].previewMedia
                       /\ zones'[y].originalMedia = zones[y].originalMedia
                       /\ zones'[y].mediaToDelete = zones[y].mediaToDelete
  BY <1>2
<1>6. ZonesAreWhole'
  BY <1>1, <1>5, SameDialog DEF ZonesAreWhole
<1> QED
  BY <1>1, <1>3, <1>4, <1>6, CallsStayMeant, ServerStaysMeant

LEMMA PreviewIsWhole ==
    ASSUME WholeInv, NEW z \in Zones, NEW i, PreviewRead(z, i) PROVE WholeInv'
<1> USE DEF WholeInv
<1>1. /\ task' = task /\ removed' = removed /\ call' = call /\ server' = server /\ isOpen
      /\ isOpen' = isOpen /\ picked' = picked /\ page' = page /\ form' = form
      /\ uploads' = uploads /\ calm' = calm /\ showDeleteConfirm' = showDeleteConfirm
  BY DEF PreviewRead, background, history
<1>2. /\ zones' \in [Zones -> Zone] /\ \A y \in Zones \ {z} : zones'[y] = zones[y]
      /\ i \in 1 .. Len(zones[z].reading)
      /\ zones'[z].previewMedia = Append(zones[z].previewMedia, zones[z].reading[i])
      /\ zones'[z].originalMedia = zones[z].originalMedia
      /\ zones'[z].mediaToDelete = zones[z].mediaToDelete
  BY PreviewReadDoes DEF EditorTypeOK
<1>3. EditorTypeOK'
  BY <1>1, <1>2, SameDialog DEF EditorTypeOK, AtMostOneEntity
<1>4. DialogIsWhole'
  BY <1>1, SameDialog DEF DialogIsWhole
<1>5. /\ zones[z].previewMedia \in Seq(Picture) /\ zones[z].reading \in Seq(Picture)
      /\ zones[z].originalMedia \in Seq(Picture)
  BY DEF EditorTypeOK, Zone
<1>6. zones[z].reading[i] \in Picture
  BY <1>2, <1>5
<1>7. /\ Len(zones'[z].previewMedia) = Len(zones[z].previewMedia) + 1
      /\ \A j \in 1 .. Len(zones[z].previewMedia) :
            zones'[z].previewMedia[j] = zones[z].previewMedia[j]
  BY <1>2, <1>5, <1>6, LastEntry
<1>8. ASSUME NEW y \in Zones, NEW j \in 1 .. Len(zones'[y].originalMedia)
      PROVE  /\ j <= Len(zones'[y].previewMedia)
             /\ zones'[y].previewMedia[j] = zones'[y].originalMedia[j]
  <2>1. CASE y # z
    BY <1>2, <2>1 DEF ZonesAreWhole
  <2>2. CASE y = z
    <3>1. /\ j \in 1 .. Len(zones[z].originalMedia) /\ j <= Len(zones[z].previewMedia)
          /\ zones[z].previewMedia[j] = zones[z].originalMedia[j]
      BY <1>2, <2>2 DEF ZonesAreWhole
    <3>2. j \in 1 .. Len(zones[z].previewMedia) /\ Len(zones[z].previewMedia) \in Nat
      BY <1>5, <3>1
    <3> QED
      BY <1>2, <1>7, <2>2, <3>1, <3>2
  <2> QED
    BY <2>1, <2>2
<1>9. \A y \in Zones : zones'[y].mediaToDelete = zones[y].mediaToDelete
  BY <1>2
<1>10. ZonesAreWhole'
  BY <1>1, <1>8, <1>9, SameDialog DEF ZonesAreWhole
<1> QED
  BY <1>1, <1>3, <1>4, <1>10, CallsStayMeant, ServerStaysMeant

LEMMA RemoveIsWhole ==
    ASSUME WholeInv, NEW z \in Zones, NEW i, RemoveMedia(z, i) PROVE WholeInv'
<1> USE DEF WholeInv
<1>1. /\ task' = task /\ call' = call /\ server' = server /\ isOpen
      /\ isOpen' = isOpen /\ picked' = picked /\ page' = page /\ form' = form
      /\ uploads' = uploads /\ calm' \in BOOLEAN /\ showDeleteConfirm' = showDeleteConfirm
      /\ removed' = removed \cup {zones[z].previewMedia[i]}
  BY DEF RemoveMedia, EditDialog, background, EditorTypeOK, IsProcessing
<1> DEFINE old == zones[z]
           new == zones'[z]
           n == Len(old.originalMedia)
           m == Len(old.previewMedia)
<1>2. /\ zones' \in [Zones -> Zone] /\ i \in 1 .. m
      /\ \A y \in Zones \ {z} : zones'[y] = zones[y]
      /\ new.previewMedia = RemoveAt(old.previewMedia, i)
  BY RemoveMediaDoes DEF EditorTypeOK
<1>3. i <= n => /\ new.originalMedia = RemoveAt(old.originalMedia, i)
                /\ new.mediaToDelete = Append(old.mediaToDelete, old.originalMedia[i])
  BY RemoveMediaDoes DEF EditorTypeOK
<1>4. i > n => new.originalMedia = old.originalMedia /\ new.mediaToDelete = old.mediaToDelete
  BY RemoveMediaDoes DEF EditorTypeOK
<1>5. EditorTypeOK'
  BY <1>1, <1>2, SameDialog DEF EditorTypeOK, AtMostOneEntity
<1>6. DialogIsWhole'
  BY <1>1, SameDialog DEF DialogIsWhole
<1>7. /\ old.previewMedia \in Seq(Picture) /\ old.originalMedia \in Seq(Picture)
      /\ old.mediaToDelete \in Seq(Picture) /\ n \in Nat /\ m \in Nat
  BY DEF EditorTypeOK, Zone
<1>8. \A j \in 1 .. n : j <= m /\ old.previewMedia[j] = old.originalMedia[j]
  BY DEF ZonesAreWhole
<1>9. /\ Len(new.previewMedia) = m - 1
      /\ \A j \in 1 .. m - 1 : new.previewMedia[j] =
             IF j < i THEN old.previewMedia[j] ELSE old.previewMedia[j + 1]
  BY <1>2, <1>7, EntryGone
<1>10. ASSUME NEW j \in 1 .. Len(new.originalMedia)
       PROVE  j <= Len(new.previewMedia) /\ new.previewMedia[j] = new.originalMedia[j]
  <2>1. CASE i <= n
    <3>1. i \in 1 .. n
      BY <1>2, <1>7, <2>1
    <3>2. /\ Len(new.originalMedia) = n - 1
          /\ \A k \in 1 .. n - 1 : new.originalMedia[k] =
                IF k < i THEN old.originalMedia[k] ELSE old.originalMedia[k + 1]
      BY <1>3, <1>7, <2>1, <3>1, EntryGone
    <3> HIDE DEF old, new, n, m
    <3>3. j \in 1 .. n - 1 /\ j \in 1 .. n /\ j + 1 \in 1 .. n
      BY <1>7, <3>2
    <3>4. j <= m - 1 /\ j \in 1 .. m - 1
      <4>1. j <= m /\ j + 1 <= m
        BY <1>8, <3>3
      <4> QED
        BY <1>7, <3>3, <4>1
    <3> QED
      BY <1>8, <1>9, <3>2, <3>3, <3>4
  <2>2. CASE i > n
    <3>1. j \in 1 .. n /\ new.originalMedia[j] = old.originalMedia[j]
      BY <1>4, <2>2
    <3> HIDE DEF old, new, n, m
    <3>2. j < i /\ j <= m - 1 /\ j \in 1 .. m - 1
      BY <1>2, <1>7, <2>2, <3>1
    <3> QED
      BY <1>8, <1>9, <3>1, <3>2
  <2> HIDE DEF n, m
  <2> QED
    BY <1>2, <1>7, <2>1, <2>2
<1>11. ToSet(new.mediaToDelete) \subseteq removed'
  <2>1. ToSet(old.mediaToDelete) \subseteq removed
    BY DEF ZonesAreWhole
  <2>2. CASE i <= n
    <3>1. i \in 1 .. n
      BY <1>2, <1>7, <2>2
    <3>2. old.originalMedia[i] \in Picture /\ old.originalMedia[i] \in removed'
      BY <1>1, <1>7, <1>8, <3>1
    <3>3. ToSet(new.mediaToDelete) = ToSet(old.mediaToDelete) \cup {old.originalMedia[i]}
      <4> DEFINE x == old.originalMedia[i]
                 d == old.mediaToDelete
      <4>1. new.mediaToDelete = Append(d, x) /\ d \in Seq(Picture) /\ x \in Picture
        BY <1>3, <1>7, <2>2, <3>2
      <4> HIDE DEF x, d
      <4>2. ToSet(Append(d, x)) = ToSet(d) \cup {x}
        BY <4>1, LastEntry
      <4> QED
        BY <4>1, <4>2 DEF x, d
    <3> QED
      BY <1>1, <2>1, <3>2, <3>3
  <2>3. CASE i > n
    BY <1>1, <1>4, <2>1, <2>3
  <2> HIDE DEF n, m
  <2> QED
    BY <1>2, <1>7, <2>2, <2>3
<1>12. ASSUME NEW y \in Zones
       PROVE  /\ ToSet(zones'[y].mediaToDelete) \subseteq removed'
              /\ \A j \in 1 .. Len(zones'[y].originalMedia) :
                    /\ j <= Len(zones'[y].previewMedia)
                    /\ zones'[y].previewMedia[j] = zones'[y].originalMedia[j]
  <2>1. CASE y # z
    <3>1. zones'[y] = zones[y]
      BY <1>2, <2>1
    <3> QED
      BY <1>1, <3>1 DEF ZonesAreWhole
  <2>2. CASE y = z
    BY <1>10, <1>11, <2>2
  <2> QED
    BY <2>1, <2>2
<1>13. ZonesAreWhole'
  BY <1>1, <1>12, SameDialog DEF ZonesAreWhole
<1> QED
  BY <1>1, <1>5, <1>6, <1>13, CallsStayMeant, ServerStaysMeant

LEMMA SubmitIsWhole == ASSUME WholeInv, Submit PROVE WholeInv'
<1> USE DEF WholeInv
<1> DEFINE c == [op |-> task.mode, form |-> form, delete |-> Marked, state |-> "sent"]
<1>1. /\ task' = task /\ removed' = removed /\ server' = server /\ isOpen /\ MaySave
      /\ isOpen' = isOpen /\ picked' = picked /\ page' = page /\ form' = form
      /\ uploads' = uploads /\ calm' \in BOOLEAN /\ showDeleteConfirm' = showDeleteConfirm
      /\ zones' = zones /\ call' = {c} /\ ~showDeleteConfirm
  BY DEF Submit, background, screen, EditorTypeOK
<1>2. /\ c = [op |-> c.op, form |-> c.form, delete |-> c.delete, state |-> c.state]
      /\ c.op = task.mode /\ c.state = "sent" /\ c.form = form /\ c.delete = Marked
  OBVIOUS
<1> HIDE DEF c
<1>3. IsCall(c)
  BY <1>2 DEF IsCall, EditorTypeOK
<1>4. EditorTypeOK'
  BY <1>1, <1>3, SameDialog DEF EditorTypeOK, AtMostOneEntity
<1>5. DialogIsWhole'
  BY <1>1, SameDialog DEF DialogIsWhole, Unmounted
<1>6. Marked \subseteq removed
  BY DEF ZonesAreWhole, Marked
<1>7. task.kind = "event" => form.end > form.start
  BY <1>1 DEF MaySave, EndsAfterStart
<1>8. CallsAreMeant'
  BY <1>1, <1>2, <1>6, <1>7 DEF CallsAreMeant
<1> QED
  BY <1>1, <1>4, <1>5, <1>8, ZonesStayWhole, ServerStaysMeant

LEMMA AskDeleteIsWhole == ASSUME WholeInv, AskDelete PROVE WholeInv'
<1> USE DEF WholeInv
<1>1. /\ task' = task /\ removed' = removed /\ server' = server /\ isOpen
      /\ isOpen' = isOpen /\ picked' = picked /\ page' = page /\ form' = form
      /\ uploads' = uploads /\ calm' = calm /\ zones' = zones /\ call' = call /\ call = {}
  BY DEF AskDelete, background, history, IsProcessing
<1>2. EditorTypeOK'
  BY <1>1, SameDialog DEF EditorTypeOK, AtMostOneEntity
<1>3. DialogIsWhole'
  BY <1>1, SameDialog DEF DialogIsWhole
<1> QED
  BY <1>1, <1>2, <1>3, ZonesStayWhole, CallsStayMeant, ServerStaysMeant

LEMMA AnswerDeleteIsWhole ==
    ASSUME WholeInv, NEW yes \in BOOLEAN, AnswerDelete(yes) PROVE WholeInv'
<1> USE DEF WholeInv
<1> DEFINE none == {}
           c == [op |-> "delete", form |-> form, delete |-> none, state |-> "sent"]
<1>1. /\ task' = task /\ removed' = removed /\ server' = server /\ isOpen' = isOpen
      /\ picked' = picked /\ page' = page /\ form' = form /\ uploads' = uploads
      /\ calm' = calm /\ zones' = zones /\ call' = (IF yes THEN {c} ELSE {})
  BY DEF AnswerDelete, background, history
<1>2. /\ c = [op |-> c.op, form |-> c.form, delete |-> c.delete, state |-> c.state]
      /\ c.op = "delete" /\ c.state = "sent" /\ c.form = form /\ c.delete = none
  OBVIOUS
<1> HIDE DEF c
<1>3. IsCall(c)
  BY <1>2 DEF IsCall, EditorTypeOK
<1>4. \A d \in call' : d = c
  BY <1>1
<1>5. EditorTypeOK'
  BY <1>1, <1>3, SameDialog DEF EditorTypeOK, AtMostOneEntity
<1>6. DialogIsWhole'
  BY <1>1, <1>2, <1>4, SameDialog DEF DialogIsWhole, Unmounted
<1>7. CallsAreMeant'
  BY <1>1, <1>2, <1>4 DEF CallsAreMeant
<1> QED
  BY <1>1, <1>5, <1>6, <1>7, ZonesStayWhole, ServerStaysMeant

\* A saved form has the fields of the typed one, its text and its dates.
LEMMA SavedIs ==
    ASSUME NEW old, NEW new, IsForm(new), task.kind \in {"event", "community"}
    PROVE  /\ IsForm(Saved(old, new)) /\ Saved(old, new).description = new.description
           /\ task.kind = "event" =>
                 Saved(old, new).end = new.end /\ Saved(old, new).start = new.start
<1>1. CASE task.kind = "event"
  <2>1. DOMAIN new = {"description", "start", "end", "policy", "registration_link", "tag"}
    BY <1>1 DEF IsForm, EmptyForm, EmptyOf, EmptyEvent
  <2> DEFINE s == SavedEvent(old, new)
  <2>2. DOMAIN s = DOMAIN new /\ \A f \in DOMAIN new : f # "tag" => s[f] = new[f]
    BY DEF SavedEvent
  <2> HIDE DEF s
  <2> QED
    BY <1>1, <2>1, <2>2 DEF Saved, s, IsForm
<1>2. CASE task.kind = "community"
  <2>1. DOMAIN new = {"description", "type", "email", "telegram_url"}
    BY <1>2 DEF IsForm, EmptyForm, EmptyOf, EmptyCommunity
  <2> DEFINE s == SavedCommunity(old, new)
  <2>2. DOMAIN s = DOMAIN new /\ s["description"] = new["description"]
    BY <2>1 DEF SavedCommunity
  <2> HIDE DEF s
  <2> QED
    BY <1>2, <2>1, <2>2 DEF Saved, s, IsForm
<1> QED
  BY <1>1, <1>2

\* What is kept of the images.
LEMMA KeepingIs ==
    ASSUME NEW images \in [Zones -> Seq(Picture)], NEW ids
    PROVE  /\ Keeping(images, ids) \in [Zones -> Seq(Picture)]
           /\ \A z \in Zones :
                 /\ ToSet(Keeping(images, ids)[z]) \subseteq ToSet(images[z])
                 /\ ToSet(images[z]) \ ids \subseteq ToSet(Keeping(images, ids)[z])
                 /\ ToSet(images[z]) \cap ids = {} => Keeping(images, ids)[z] = images[z]
                 /\ ToSet(images[z]) \subseteq ids => Keeping(images, ids)[z] = <<>>
<1> DEFINE I(s) == {i \in DOMAIN s : s[i] \notin ids}
<1>1. Keeping(images, ids) = [z \in Zones |-> Entries(images[z], I(images[z]))]
  BY DEF Keeping
<1>2. ASSUME NEW s \in Seq(Picture)
      PROVE  /\ Entries(s, I(s)) \in Seq(Picture)
             /\ ToSet(Entries(s, I(s))) \subseteq ToSet(s)
             /\ ToSet(s) \ ids \subseteq ToSet(Entries(s, I(s)))
             /\ ToSet(s) \cap ids = {} => Entries(s, I(s)) = s
             /\ ToSet(s) \subseteq ids => Entries(s, I(s)) = <<>>
  <2> DEFINE K == I(s)
             e == Entries(s, K)
  <2>1. K \in SUBSET DOMAIN s
    OBVIOUS
  <2> HIDE DEF K
  <2>2. /\ e \in Seq(Picture) /\ Len(e) = Cardinality(K)
        /\ \A k \in DOMAIN e : Kth(K, k) \in K /\ e[k] = s[Kth(K, k)]
    BY <2>1, EntriesKept
  <2>3. ToSet(e) \subseteq ToSet(s)
    BY <2>1, <2>2 DEF ToSet
  <2>4. \A i \in K : \E k \in DOMAIN e : Kth(K, k) = i
    BY <2>1, EntriesCover
  <2>5. ToSet(s) \ ids \subseteq ToSet(e)
    <3>1. ASSUME NEW i \in DOMAIN s, s[i] \notin ids
          PROVE  s[i] \in ToSet(e)
      <4>1. PICK k \in DOMAIN e : Kth(K, k) = i
        BY <2>4, <3>1 DEF K
      <4> QED
        BY <2>2, <4>1 DEF ToSet
    <3> QED
      BY <3>1 DEF ToSet
  <2>6. CASE ToSet(s) \cap ids = {}
    <3>1. K = DOMAIN s
      BY <2>6 DEF K, ToSet
    <3>2. e = s
      BY <3>1, EntriesOfAll
    <3>3. CASE ToSet(s) \subseteq ids
      <4>1. DOMAIN s = {}
        BY <2>6, <3>3 DEF ToSet
      <4> QED
        BY <4>1, <3>2, <2>3, <2>5, <2>2 DEF K
    <3> QED
      BY <2>2, <2>3, <2>5, <3>2, <3>3 DEF K
  <2>7. CASE ToSet(s) \subseteq ids
    <3>1. K = {}
      BY <2>7 DEF K, ToSet
    <3>2. Len(e) = 0
      BY <2>2, <3>1, FS_EmptySet
    <3>3. e = <<>>
      BY <2>2, <3>2
    <3>4. ToSet(s) \cap ids = {} => e = s
      BY <2>6 DEF K
    <3> QED
      BY <2>2, <2>3, <2>5, <3>3, <3>4 DEF K
  <2>8. CASE ~(ToSet(s) \cap ids = {}) /\ ~(ToSet(s) \subseteq ids)
    BY <2>2, <2>3, <2>5, <2>8 DEF K
  <2> QED
    BY <2>6, <2>7, <2>8
<1> HIDE DEF I
<1> QED
  BY <1>1, <1>2

LEMMA KindIs == ASSUME EditorTypeOK PROVE task.kind \in {"event", "community"}
BY EditorAssumption DEF EditorTypeOK

\* The service answers the call in one of four ways.
LEMMA ServeCallIs ==
    ASSUME EditorTypeOK, ServeCall
    PROVE  \E c \in call, d \in call' :
              /\ call = {c} /\ IsCall(c) /\ c.state = "sent" /\ call' = {d} /\ IsCall(d)
              /\ d.op = c.op /\ d.form = c.form /\ d.delete = c.delete
              /\ \/ /\ c.op = "create" /\ d.state = "done"
                    /\ \E e \in server' :
                          /\ server' = {e} /\ IsEntity(e)
                          /\ e.form = Saved(EmptyForm, c.form) /\ e.images = NoImages
                 \/ /\ c.op = "edit" /\ d.state = "done"
                    /\ \E old \in server, e \in server' :
                          /\ server = {old} /\ server' = {e} /\ IsEntity(old) /\ IsEntity(e)
                          /\ e.form = Saved(old.form, c.form)
                          /\ e.images = Keeping(old.images, c.delete)
                 \/ c.op = "edit" /\ d.state = "refused" /\ server' = server
                 \/ c.op = "delete" /\ d.state = "done" /\ server' = {}
<1>1. PICK c \in call :
        /\ c.state = "sent"
        /\ \/ /\ c.op = "create" /\ call' = {[c EXCEPT !.state = "done"]}
              /\ server' = {[form |-> Saved(EmptyForm, c.form), images |-> NoImages]}
           \/ /\ c.op = "edit" /\ \E e \in server : c.delete \subseteq Images(e)
              /\ call' = {[c EXCEPT !.state = "done"]}
              /\ server' = {[form |-> Saved(The(server).form, c.form),
                             images |-> Keeping(The(server).images, c.delete)]}
           \/ c.op = "edit" /\ call' = {[c EXCEPT !.state = "refused"]} /\ server' = server
           \/ c.op = "delete" /\ server' = {} /\ call' = {[c EXCEPT !.state = "done"]}
  BY DEF ServeCall
<1>2. call = {c} /\ IsCall(c) /\ task.kind \in {"event", "community"}
  BY TheCall, KindIs
<1>3. ASSUME NEW state \in {"done", "refused"}
      PROVE  LET d == [c EXCEPT !.state = state]
             IN  /\ IsCall(d) /\ d.state = state /\ d.op = c.op /\ d.form = c.form
                 /\ d.delete = c.delete
  <2> DEFINE d == [c EXCEPT !.state = state]
             a == c.op
             b == c.form
             g == c.delete
             h == c.state
  <2>1. c = [op |-> a, form |-> b, delete |-> g, state |-> h]
    BY <1>2 DEF IsCall
  <2> HIDE DEF a, b, g, h
  <2>2. d = [op |-> a, form |-> b, delete |-> g, state |-> state]
    BY <2>1
  <2> USE DEF a, b, g
  <2>3. /\ d = [op |-> d.op, form |-> d.form, delete |-> d.delete, state |-> d.state]
        /\ d.state = state /\ d.op = c.op /\ d.form = c.form /\ d.delete = c.delete
    BY <2>2
  <2> HIDE DEF d
  <2>4. IsCall(d)
    BY <1>2, <2>3 DEF IsCall
  <2> QED
    BY <2>3, <2>4 DEF d
<1> DEFINE done == [c EXCEPT !.state = "done"]
           refused == [c EXCEPT !.state = "refused"]
<1>4. /\ IsCall(done) /\ done.state = "done" /\ done.op = c.op /\ done.form = c.form
      /\ done.delete = c.delete
  BY <1>3
<1>5. /\ IsCall(refused) /\ refused.state = "refused" /\ refused.op = c.op
      /\ refused.form = c.form /\ refused.delete = c.delete
  BY <1>3
<1>6. ASSUME NEW f, NEW g, IsForm(f), g \in [Zones -> Seq(Picture)]
      PROVE  LET e == [form |-> f, images |-> g]
             IN  IsEntity(e) /\ e.form = f /\ e.images = g
  BY <1>6 DEF IsEntity
<1>7. IsForm(c.form)
  BY <1>2 DEF IsCall
<1>8. CASE c.op = "create" /\ call' = {done}
            /\ server' = {[form |-> Saved(EmptyForm, c.form), images |-> NoImages]}
  <2> DEFINE f == Saved(EmptyForm, c.form)
             g == NoImages
             e == [form |-> f, images |-> g]
  <2>1. IsForm(f)
    BY <1>2, <1>7, SavedIs
  <2>2. g \in [Zones -> Seq(Picture)]
    BY NoEntry DEF NoImages
  <2> HIDE DEF f, g
  <2>3. IsEntity(e) /\ e.form = f /\ e.images = g
    BY <1>6, <2>1, <2>2
  <2>4. server' = {e}
    BY <1>8 DEF f, g
  <2> HIDE DEF e, done
  <2>5. \E e1 \in server' : /\ server' = {e1} /\ IsEntity(e1)
                           /\ e1.form = Saved(EmptyForm, c.form) /\ e1.images = NoImages
    BY <2>3, <2>4 DEF f, g
  <2> QED
    BY <1>1, <1>2, <1>4, <1>8, <2>5
<1>9. CASE /\ c.op = "edit" /\ \E e \in server : c.delete \subseteq Images(e)
           /\ call' = {done}
           /\ server' = {[form |-> Saved(The(server).form, c.form),
                          images |-> Keeping(The(server).images, c.delete)]}
  <2>1. PICK old \in server : TRUE
    BY <1>9
  <2>2. server = {old} /\ The(server) = old /\ IsEntity(old)
    BY <2>1, TheEntity DEF EditorTypeOK
  <2> DEFINE f == Saved(old.form, c.form)
             g == Keeping(old.images, c.delete)
             e == [form |-> f, images |-> g]
  <2>3. IsForm(f)
    BY <1>2, <1>7, SavedIs
  <2>4. g \in [Zones -> Seq(Picture)]
    BY <2>2, KeepingIs DEF IsEntity
  <2>5. server' = {e}
    BY <1>9, <2>2
  <2> HIDE DEF f, g
  <2>6. IsEntity(e) /\ e.form = f /\ e.images = g
    BY <1>6, <2>3, <2>4
  <2> HIDE DEF e, done
  <2>7. \E e1 \in server' : /\ server = {old} /\ server' = {e1} /\ IsEntity(old) /\ IsEntity(e1)
                           /\ e1.form = Saved(old.form, c.form)
                           /\ e1.images = Keeping(old.images, c.delete)
    BY <2>2, <2>5, <2>6 DEF f, g
  <2> QED
    BY <1>1, <1>2, <1>4, <1>9, <2>1, <2>7
<1>10. CASE c.op = "edit" /\ call' = {refused} /\ server' = server
  <2> HIDE DEF refused
  <2> QED
    BY <1>1, <1>2, <1>5, <1>10
<1>11. CASE c.op = "delete" /\ server' = {} /\ call' = {done}
  <2> HIDE DEF done
  <2> QED
    BY <1>1, <1>2, <1>4, <1>11
<1> QED
  BY <1>1, <1>8, <1>9, <1>10, <1>11

LEMMA ServeUnchanged ==
    ASSUME ServeCall
    PROVE  /\ task' = task /\ page' = page /\ isOpen' = isOpen /\ form' = form /\ zones' = zones
           /\ showDeleteConfirm' = showDeleteConfirm /\ uploads' = uploads /\ picked' = picked
           /\ removed' = removed /\ promised' = promised /\ calm' = calm
BY DEF ServeCall, screen, background, history

LEMMA ServeIsWhole == ASSUME WholeInv, ServeCall PROVE WholeInv'
<1> USE DEF WholeInv
<1>1. /\ task' = task /\ page' = page /\ isOpen' = isOpen /\ form' = form /\ zones' = zones
      /\ showDeleteConfirm' = showDeleteConfirm /\ uploads' = uploads /\ picked' = picked
      /\ removed' = removed /\ promised' = promised /\ calm' = calm
  BY ServeUnchanged
<1>2. PICK c \in call, d \in call' :
              /\ call = {c} /\ IsCall(c) /\ c.state = "sent" /\ call' = {d} /\ IsCall(d)
              /\ d.op = c.op /\ d.form = c.form /\ d.delete = c.delete
              /\ \/ /\ c.op = "create" /\ d.state = "done"
                    /\ \E e \in server' :
                          /\ server' = {e} /\ IsEntity(e)
                          /\ e.form = Saved(EmptyForm, c.form) /\ e.images = NoImages
                 \/ /\ c.op = "edit" /\ d.state = "done"
                    /\ \E old \in server, e \in server' :
                          /\ server = {old} /\ server' = {e} /\ IsEntity(old) /\ IsEntity(e)
                          /\ e.form = Saved(old.form, c.form)
                          /\ e.images = Keeping(old.images, c.delete)
                 \/ c.op = "edit" /\ d.state = "refused" /\ server' = server
                 \/ c.op = "delete" /\ d.state = "done" /\ server' = {}
  BY ServeCallIs
<1>3. AtMostOneEntity(server)'
  <2>1. AtMostOneEntity(server)
    BY DEF EditorTypeOK
  <2> QED
    BY <1>1, <1>2, <2>1, SameDialog DEF AtMostOneEntity
<1>4. EditorTypeOK'
  BY <1>1, <1>2, <1>3, SameDialog DEF EditorTypeOK, AtMostOneEntity
<1>5. DialogIsWhole'
  BY <1>1, <1>2, SameDialog DEF DialogIsWhole, Unmounted
<1>6. CallsAreMeant'
  BY <1>1, <1>2 DEF CallsAreMeant
<1>7. task.kind \in {"event", "community"} /\ IsForm(c.form)
  BY <1>2, KindIs DEF IsCall
<1>8. task.kind = "event" /\ c.op # "delete" => c.form.end > c.form.start
  BY DEF CallsAreMeant
<1>9. CASE c.op = "create"
  <2>1. PICK e \in server' : server' = {e} /\ e.form = Saved(EmptyForm, c.form)
    BY <1>2, <1>9
  <2>2. task.kind = "event" => e.form.end > e.form.start
    BY <1>7, <1>8, <1>9, <2>1, SavedIs
  <2>3. ~Editing
    BY <1>2, <1>9 DEF IsCall, Editing
  <2>4. OnlyRemovedIsDeleted'
    BY <1>1, <2>1, <2>2, <2>3, SameDialog DEF OnlyRemovedIsDeleted
  <2> QED
    BY <1>1, <1>4, <1>5, <1>6, <2>4, ZonesStayWhole
<1>10. CASE c.op = "edit" /\ d.state = "done"
  <2>1. PICK old \in server, e \in server' :
          /\ server = {old} /\ server' = {e} /\ IsEntity(old)
          /\ e.form = Saved(old.form, c.form) /\ e.images = Keeping(old.images, c.delete)
    BY <1>2, <1>10
  <2>2. task.kind = "event" => e.form.end > e.form.start
    BY <1>7, <1>8, <1>10, <2>1, SavedIs
  <2>3. \A z \in Zones : ToSet(old.images[z]) \ c.delete \subseteq ToSet(e.images[z])
    <3> DEFINE images == old.images
               ids == c.delete
    <3>1. images \in [Zones -> Seq(Picture)]
      BY <2>1 DEF IsEntity
    <3> HIDE DEF images, ids
    <3>2. \A z \in Zones : ToSet(images[z]) \ ids \subseteq ToSet(Keeping(images, ids)[z])
      BY <3>1, KeepingIs
    <3> QED
      BY <2>1, <3>2 DEF images, ids
  <2>4. Images(old) \ c.delete \subseteq Images(e)
    BY <2>3 DEF Images
  <2>5. c.delete \subseteq removed
    BY DEF CallsAreMeant
  <2>6. Editing => \A z \in Zones : ToSet(task.images[z]) \ Images(e) \subseteq removed
    <3>1. Editing => \A z \in Zones : ToSet(task.images[z]) \ Images(old) \subseteq removed
      BY DEF OnlyRemovedIsDeleted
    <3> QED
      BY <2>4, <2>5, <3>1
  <2>7. OnlyRemovedIsDeleted'
    BY <1>1, <2>1, <2>2, <2>6, SameDialog DEF OnlyRemovedIsDeleted
  <2> QED
    BY <1>1, <1>4, <1>5, <1>6, <2>7, ZonesStayWhole
<1>11. CASE server' = server \/ server' = {}
  BY <1>1, <1>4, <1>5, <1>6, <1>11, ZonesStayWhole, ServerStaysMeant
<1> QED
  BY <1>2, <1>9, <1>10, <1>11

LEMMA SaveReturnsIs ==
    ASSUME EditorTypeOK, NEW op, SaveReturns(op)
    PROVE  /\ \E c \in call : call = {c} /\ IsCall(c) /\ c.state = "done" /\ c.op = op
           /\ call' = {} /\ isOpen' = FALSE /\ zones' = Unmounted
           /\ uploads' = uploads \cup UNION {Upload(z) : z \in Zones}
           /\ task' = task /\ server' = server /\ page' = page /\ removed' = removed
           /\ showDeleteConfirm' = showDeleteConfirm /\ picked' = picked
           /\ promised' = promised /\ calm' = calm
<1>1. PICK c \in call : c.state = "done" /\ c.op = op
  BY DEF SaveReturns
<1>2. call = {c} /\ IsCall(c)
  BY TheCall
<1> QED
  BY <1>1, <1>2 DEF SaveReturns, history

LEMMA UploadIs ==
    ASSUME zones \in [Zones -> Zone], NEW z \in Zones
    PROVE  /\ Upload(z) \subseteq [zone : Zones, picture : Picture, step : {"sign", "put"}]
           /\ \A u \in Upload(z) : u.zone = z /\ u.picture \in ToSet(zones[z].mediaFiles)
           /\ \A p \in ToSet(zones[z].mediaFiles) : \E u \in Upload(z) : u.picture = p
           /\ \A u, v \in Upload(z) : u.picture = v.picture => u = v
<1> DEFINE m == zones[z].mediaFiles
<1>1. m \in Seq(Picture)
  BY DEF Zone
<1>2. ToSet(m) \subseteq Picture
  <2> HIDE DEF m
  <2> QED
    BY <1>1 DEF ToSet
<1> HIDE DEF m
<1>3. Upload(z) = {[zone |-> z, picture |-> p, step |-> "sign"] : p \in ToSet(m)}
  BY DEF Upload, m
<1> DEFINE At(p) == [zone |-> z, picture |-> p, step |-> "sign"]
<1>4. \A p : At(p).zone = z /\ At(p).picture = p
  OBVIOUS
<1>5. \A u \in Upload(z) : \E p \in ToSet(m) : u = At(p)
  BY <1>3
<1>6. \A p \in ToSet(m) : At(p) \in Upload(z)
  BY <1>3
<1>7. Upload(z) \subseteq [zone : Zones, picture : Picture, step : {"sign", "put"}]
  BY <1>2, <1>3
<1> HIDE DEF At
<1> QED
  BY <1>4, <1>5, <1>6, <1>7 DEF m

LEMMA SaveReturnsIsWhole ==
    ASSUME WholeInv, NEW op, SaveReturns(op), IsForm(form')
    PROVE  WholeInv'
<1> USE DEF WholeInv
<1>1. /\ call' = {} /\ isOpen' = FALSE /\ zones' = Unmounted
      /\ uploads' = uploads \cup UNION {Upload(z) : z \in Zones}
      /\ task' = task /\ server' = server /\ page' = page /\ removed' = removed
      /\ showDeleteConfirm' = showDeleteConfirm /\ picked' = picked
      /\ promised' = promised /\ calm' = calm
  BY SaveReturnsIs
<1>2. UNION {Upload(z) : z \in Zones} \subseteq
          [zone : Zones, picture : Picture, step : {"sign", "put"}]
  BY UploadIs DEF EditorTypeOK
<1>3. EditorTypeOK'
  BY <1>1, <1>2, ShutIsWhole, SameDialog DEF EditorTypeOK, AtMostOneEntity
<1>4. DialogIsWhole'
  BY <1>1, ShutIsWhole, SameDialog DEF DialogIsWhole
<1> QED
  BY <1>1, <1>3, <1>4, ShutIsWhole, CallsStayMeant, ServerStaysMeant

LEMMA DeletedIsWhole ==
    ASSUME WholeInv, Deleted, page' = page \/ page' = {}
    PROVE  WholeInv'
<1> USE DEF WholeInv
<1>1. /\ call' = {} /\ isOpen' = FALSE /\ zones' = Unmounted /\ showDeleteConfirm' = FALSE
      /\ task' = task /\ server' = server /\ removed' = removed /\ uploads' = uploads
      /\ form' = form /\ picked' = picked /\ calm' = calm
  BY DEF Deleted, background
<1>2. EditorTypeOK'
  BY <1>1, ShutIsWhole, SameDialog DEF EditorTypeOK, AtMostOneEntity
<1>3. DialogIsWhole'
  BY <1>1, ShutIsWhole, SameDialog DEF DialogIsWhole
<1> QED
  BY <1>1, <1>2, <1>3, ShutIsWhole, CallsStayMeant, ServerStaysMeant

LEMMA FailsIsWhole ==
    ASSUME WholeInv, CallFails, calm' \in BOOLEAN
    PROVE  WholeInv'
<1> USE DEF WholeInv
<1>1. /\ call' = {} /\ isOpen' = isOpen /\ zones' = zones
      /\ showDeleteConfirm' = showDeleteConfirm /\ page' = page
      /\ task' = task /\ server' = server /\ removed' = removed /\ uploads' = uploads
      /\ form' = form /\ picked' = picked
  BY DEF CallFails, screen, background
<1>2. EditorTypeOK'
  BY <1>1, SameDialog DEF EditorTypeOK, AtMostOneEntity
<1>3. DialogIsWhole'
  BY <1>1, SameDialog DEF DialogIsWhole, Unmounted
<1> QED
  BY <1>1, <1>2, <1>3, ZonesStayWhole, CallsStayMeant, ServerStaysMeant

\* An upload goes on, and an image may come to be stored from it.
LEMMA PutIs ==
    ASSUME EditorTypeOK, NEW u \in uploads, Put(u)
    PROVE  /\ uploads' = uploads \ {u} /\ u.zone \in Zones /\ u.picture \in Picture
           /\ task' = task /\ page' = page /\ isOpen' = isOpen /\ form' = form /\ zones' = zones
           /\ showDeleteConfirm' = showDeleteConfirm /\ call' = call /\ picked' = picked
           /\ removed' = removed /\ promised' = promised /\ calm' = calm
           /\ server = {} => server' = {}
           /\ \A e \in server : \E f \in server' :
                 /\ server = {e} /\ server' = {f} /\ IsEntity(e) /\ IsEntity(f) /\ f.form = e.form
                 /\ f.images[u.zone] = Append(e.images[u.zone], u.picture)
                 /\ \A z \in Zones \ {u.zone} : f.images[z] = e.images[z]
<1>1. /\ uploads' = uploads \ {u}
      /\ server' = {[e EXCEPT !.images[u.zone] = Append(@, u.picture)] : e \in server}
      /\ task' = task /\ page' = page /\ isOpen' = isOpen /\ form' = form /\ zones' = zones
      /\ showDeleteConfirm' = showDeleteConfirm /\ call' = call /\ picked' = picked
      /\ removed' = removed /\ promised' = promised /\ calm' = calm
  BY DEF Put, InBackground, screen, history
<1> DEFINE y == u.zone
           p == u.picture
<1>2. y \in Zones /\ p \in Picture
  BY DEF EditorTypeOK
<1> HIDE DEF y, p
<1>3. ASSUME NEW e \in server
      PROVE  \E f \in server' :
                 /\ server = {e} /\ server' = {f} /\ IsEntity(e) /\ IsEntity(f) /\ f.form = e.form
                 /\ f.images[y] = Append(e.images[y], p)
                 /\ \A z \in Zones \ {y} : f.images[z] = e.images[z]
  <2>1. server = {e} /\ IsEntity(e)
    BY TheEntity DEF EditorTypeOK
  <2> DEFINE a == e.form
             b == e.images
             g == [b EXCEPT ![y] = Append(@, p)]
             f == [e EXCEPT !.images[y] = Append(@, p)]
  <2>2. e = [form |-> a, images |-> b] /\ b \in [Zones -> Seq(Picture)] /\ IsForm(a)
    BY <2>1 DEF IsEntity
  <2>3. server' = {f}
    BY <1>1, <2>1 DEF y, p
  <2>4. b[y] \in Seq(Picture)
    BY <1>2, <2>2
  <2> HIDE DEF a, b
  <2>5. Append(b[y], p) \in Seq(Picture)
    BY <1>2, <2>4, LastEntry
  <2>6. /\ g \in [Zones -> Seq(Picture)] /\ g[y] = Append(b[y], p)
        /\ \A z \in Zones \ {y} : g[z] = b[z]
    BY <1>2, <2>2, <2>5
  <2>7. f = [form |-> a, images |-> g]
    <3>1. e.images = b
      BY DEF b
    <3>2. f = [e EXCEPT !.images = g]
      BY <3>1
    <3> HIDE DEF g, f
    <3> QED
      BY <2>2, <3>2
  <2> HIDE DEF f, g
  <2>8. f.form = a /\ f.images = g /\ f = [form |-> f.form, images |-> f.images]
    BY <2>7
  <2>9. IsEntity(f)
    BY <2>2, <2>6, <2>8 DEF IsEntity
  <2> QED
    BY <2>1, <2>3, <2>6, <2>8, <2>9 DEF a, b
<1>4. server = {} => server' = {}
  BY <1>1
<1> QED
  BY <1>1, <1>2, <1>3, <1>4 DEF y, p

LEMMA PutIsWhole == ASSUME WholeInv, NEW u \in uploads, Put(u) PROVE WholeInv'
<1> USE DEF WholeInv
<1>1. /\ uploads' = uploads \ {u}
      /\ task' = task /\ page' = page /\ isOpen' = isOpen /\ form' = form /\ zones' = zones
      /\ showDeleteConfirm' = showDeleteConfirm /\ call' = call /\ picked' = picked
      /\ removed' = removed /\ promised' = promised /\ calm' = calm
      /\ server = {} => server' = {}
  BY PutIs
<1>2. ASSUME NEW e \in server
      PROVE  \E f \in server' :
                 /\ server' = {f} /\ IsEntity(f) /\ f.form = e.form
                 /\ \A z \in Zones : ToSet(e.images[z]) \subseteq ToSet(f.images[z])
  <2>1. PICK f \in server' :
                 /\ server' = {f} /\ IsEntity(e) /\ IsEntity(f) /\ f.form = e.form
                 /\ f.images[u.zone] = Append(e.images[u.zone], u.picture)
                 /\ \A z \in Zones \ {u.zone} : f.images[z] = e.images[z]
    BY PutIs
  <2>2. u.zone \in Zones /\ u.picture \in Picture
    BY PutIs
  <2>3. e.images[u.zone] \in Seq(Picture)
    BY <2>1, <2>2 DEF IsEntity
  <2>4. ToSet(f.images[u.zone]) = ToSet(e.images[u.zone]) \cup {u.picture}
    BY <2>1, <2>2, <2>3, LastEntry
  <2>5. ASSUME NEW z \in Zones PROVE ToSet(e.images[z]) \subseteq ToSet(f.images[z])
    BY <2>1, <2>4
  <2> QED
    BY <2>1, <2>5
<1>3. AtMostOneEntity(server)'
  <2>1. CASE server = {}
    BY <1>1, <2>1 DEF AtMostOneEntity
  <2>2. CASE server # {}
    <3>1. PICK e \in server : TRUE
      BY <2>2
    <3>2. PICK f \in server' : server' = {f} /\ IsEntity(f)
      BY <1>2
    <3> QED
      BY <1>1, <3>2, SameDialog DEF AtMostOneEntity
  <2> QED
    BY <2>1, <2>2
<1>4. EditorTypeOK'
  BY <1>1, <1>3, SameDialog DEF EditorTypeOK, AtMostOneEntity
<1>5. DialogIsWhole'
  BY <1>1, SameDialog DEF DialogIsWhole, Unmounted
<1>6. OnlyRemovedIsDeleted'
  <2>1. CASE server = {}
    BY <1>1, <2>1 DEF OnlyRemovedIsDeleted
  <2>2. CASE server # {}
    <3>1. PICK e \in server : TRUE
      BY <2>2
    <3>2. PICK f \in server' :
                 /\ server' = {f} /\ f.form = e.form
                 /\ \A z \in Zones : ToSet(e.images[z]) \subseteq ToSet(f.images[z])
      BY <1>2
    <3>3. Images(e) \subseteq Images(f)
      BY <3>2 DEF Images
    <3>4. /\ Editing => \A z \in Zones : ToSet(task.images[z]) \ Images(e) \subseteq removed
          /\ task.kind = "event" => e.form.end > e.form.start
      BY DEF OnlyRemovedIsDeleted
    <3>5. /\ Editing => \A z \in Zones : ToSet(task.images[z]) \ Images(f) \subseteq removed
          /\ task.kind = "event" => f.form.end > f.form.start
      BY <3>2, <3>3, <3>4
    <3> QED
      BY <1>1, <3>2, <3>5, SameDialog DEF OnlyRemovedIsDeleted
  <2> QED
    BY <2>1, <2>2
<1> QED
  BY <1>1, <1>4, <1>5, <1>6, ZonesStayWhole, CallsStayMeant

LEMMA GetSignedUrlIs ==
    ASSUME EditorTypeOK, NEW u, GetSignedUrl(u)
    PROVE  /\ server' = server /\ task' = task /\ page' = page /\ isOpen' = isOpen /\ form' = form
           /\ zones' = zones /\ showDeleteConfirm' = showDeleteConfirm /\ call' = call
           /\ picked' = picked /\ removed' = removed /\ promised' = promised /\ calm' = calm
           /\ \E v : /\ uploads' = (uploads \ {u}) \cup {v} /\ u \in uploads
                    /\ v \in [zone : Zones, picture : Picture, step : {"sign", "put"}]
                    /\ v.zone = u.zone /\ v.picture = u.picture
<1> DEFINE v == [u EXCEPT !.step = "put"]
<1>1. /\ server' = server /\ task' = task /\ page' = page /\ isOpen' = isOpen /\ form' = form
      /\ zones' = zones /\ showDeleteConfirm' = showDeleteConfirm /\ call' = call
      /\ picked' = picked /\ removed' = removed /\ promised' = promised /\ calm' = calm
      /\ uploads' = (uploads \ {u}) \cup {v} /\ u \in uploads
  BY DEF GetSignedUrl, InBackground, screen, history
<1>2. /\ v \in [zone : Zones, picture : Picture, step : {"sign", "put"}]
      /\ v.zone = u.zone /\ v.picture = u.picture
  BY <1>1 DEF EditorTypeOK
<1> HIDE DEF v
<1> QED
  BY <1>1, <1>2

LEMMA BackgroundIsWhole ==
    ASSUME WholeInv, task' = task, server' = server, page' = page, isOpen' = isOpen,
           form' = form, zones' = zones, showDeleteConfirm' = showDeleteConfirm, call' = call,
           picked' = picked, removed' = removed, calm' \in BOOLEAN,
           uploads' \subseteq [zone : Zones, picture : Picture, step : {"sign", "put"}]
    PROVE  WholeInv'
<1> USE DEF WholeInv
<1>1. EditorTypeOK'
  BY SameDialog DEF EditorTypeOK, AtMostOneEntity
<1>2. DialogIsWhole'
  BY SameDialog DEF DialogIsWhole, Unmounted
<1> QED
  BY <1>1, <1>2, ZonesStayWhole, CallsStayMeant, ServerStaysMeant

LEMMA EntityRefetchedIs ==
    ASSUME EditorTypeOK, EntityRefetched
    PROVE  /\ task' = task /\ server' = server /\ page' = server /\ page # {}
           /\ isOpen' = isOpen /\ showDeleteConfirm' = showDeleteConfirm /\ call' = call
           /\ uploads' = uploads /\ picked' = picked /\ removed' = removed /\ promised' = promised
           /\ \/ form' = form /\ zones' = zones /\ calm' = calm
              \/ /\ \E e \in server : server = {e} /\ IsEntity(e) /\ form' = e.form
                 /\ calm' = (calm /\ ~isOpen)
                 /\ \/ ~isOpen /\ zones' = zones
                    \/ /\ isOpen
                       /\ \A e \in server :
                             zones' = [z \in Zones |-> Initialized(zones[z], e.images[z])]
<1>1. /\ task' = task /\ server' = server /\ page' = server /\ page # {} /\ server # {}
      /\ isOpen' = isOpen /\ showDeleteConfirm' = showDeleteConfirm /\ call' = call
      /\ uploads' = uploads /\ picked' = picked /\ removed' = removed /\ promised' = promised
  BY DEF EntityRefetched, background
<1>2. PICK e \in server : server = {e} /\ IsEntity(e) /\ The(server) = e
  BY <1>1, TheEntity DEF EditorTypeOK
<1>3. CASE form' = form /\ zones' = zones /\ calm' = calm
  BY <1>1, <1>3
<1>4. CASE /\ form' = The(server).form /\ calm' = (calm /\ ~isOpen)
           /\ zones' = IF isOpen
                       THEN [z \in Zones |-> Initialized(zones[z], The(server).images[z])]
                       ELSE zones
  <2>1. CASE isOpen
    <3>1. \A f \in server : f = e
      BY <1>2
    <3>2. zones' = [z \in Zones |-> Initialized(zones[z], e.images[z])]
      BY <1>2, <1>4, <2>1
    <3> QED
      BY <1>1, <1>2, <1>4, <2>1, <3>1, <3>2
  <2>2. CASE ~isOpen
    BY <1>1, <1>2, <1>4, <2>2
  <2> QED
    BY <2>1, <2>2
<1>5. \/ form' = form /\ zones' = zones /\ calm' = calm
      \/ /\ form' = The(server).form /\ calm' = (calm /\ ~isOpen)
         /\ zones' = IF isOpen
                     THEN [z \in Zones |-> Initialized(zones[z], The(server).images[z])]
                     ELSE zones
  BY DEF EntityRefetched
<1> QED
  BY <1>3, <1>4, <1>5

LEMMA RefetchedIsWhole == ASSUME WholeInv, EntityRefetched PROVE WholeInv'
<1> USE DEF WholeInv
<1>1. /\ task' = task /\ server' = server /\ page' = server /\ page # {}
      /\ isOpen' = isOpen /\ showDeleteConfirm' = showDeleteConfirm /\ call' = call
      /\ uploads' = uploads /\ picked' = picked /\ removed' = removed
  BY EntityRefetchedIs
<1>2. IsForm(form') /\ calm' \in BOOLEAN
  <2>1. CASE form' = form /\ calm' = calm
    BY <2>1 DEF EditorTypeOK
  <2>2. CASE (\E e \in server : IsEntity(e) /\ form' = e.form) /\ calm' = (calm /\ ~isOpen)
    BY <2>2 DEF IsEntity, EditorTypeOK
  <2> QED
    BY <2>1, <2>2, EntityRefetchedIs
<1>3. /\ zones' \in [Zones -> Zone]
      /\ ~isOpen => zones' = zones
      /\ \A z \in Zones :
            \/ zones'[z] = zones[z]
            \/ /\ zones'[z].mediaToDelete = zones[z].mediaToDelete
               /\ zones'[z].originalMedia = zones'[z].previewMedia
               /\ zones'[z].originalMedia \in Seq(Picture)
  <2>1. CASE zones' = zones
    BY <2>1 DEF EditorTypeOK
  <2>2. CASE /\ isOpen
             /\ \E e \in server : server = {e} /\ IsEntity(e)
             /\ \A e \in server :
                   zones' = [z \in Zones |-> Initialized(zones[z], e.images[z])]
    <3>1. PICK e \in server : IsEntity(e)
      BY <2>2
    <3>2. zones' = [z \in Zones |-> Initialized(zones[z], e.images[z])]
      BY <2>2
    <3>3. ASSUME NEW z \in Zones
          PROVE  /\ zones'[z] \in Zone
                 /\ \/ zones'[z] = zones[z]
                    \/ /\ zones'[z].mediaToDelete = zones[z].mediaToDelete
                       /\ zones'[z].originalMedia = zones'[z].previewMedia
                       /\ zones'[z].originalMedia \in Seq(Picture)
      <4> DEFINE zone == zones[z]
                 media == e.images[z]
      <4>1. zone \in Zone /\ media \in Seq(Picture)
        BY <3>1 DEF EditorTypeOK, IsEntity
      <4>2. zones'[z] = Initialized(zone, media)
        BY <3>2
      <4> HIDE DEF zone, media
      <4> QED
        BY <4>1, <4>2, InitializedIs DEF zone
    <3> QED
      BY <2>2, <3>2, <3>3
  <2> QED
    BY <2>1, <2>2, EntityRefetchedIs
<1>4. EditorTypeOK'
  BY <1>1, <1>2, <1>3, SameDialog DEF EditorTypeOK, AtMostOneEntity
<1>5. DialogIsWhole'
  BY <1>1, <1>3, SameDialog DEF DialogIsWhole, Unmounted
<1>6. ASSUME NEW z \in Zones
      PROVE  /\ ToSet(zones'[z].mediaToDelete) \subseteq removed'
             /\ \A i \in 1 .. Len(zones'[z].originalMedia) :
                   /\ i <= Len(zones'[z].previewMedia)
                   /\ zones'[z].previewMedia[i] = zones'[z].originalMedia[i]
  <2>1. CASE zones'[z] = zones[z]
    BY <1>1, <2>1 DEF ZonesAreWhole
  <2>2. CASE /\ zones'[z].mediaToDelete = zones[z].mediaToDelete
             /\ zones'[z].originalMedia = zones'[z].previewMedia
             /\ zones'[z].originalMedia \in Seq(Picture)
    BY <1>1, <2>2 DEF ZonesAreWhole
  <2> QED
    BY <1>3, <2>1, <2>2
<1>7. ZonesAreWhole'
  BY <1>1, <1>6, SameDialog DEF ZonesAreWhole
<1> QED
  BY <1>1, <1>4, <1>5, <1>7, CallsStayMeant, ServerStaysMeant

LEMMA WholeStays == WholeInv /\ [EditorNext]_editorVars => WholeInv'
<1> SUFFICES ASSUME WholeInv, [EditorNext]_editorVars PROVE WholeInv'
  OBVIOUS
<1>1. EditorTypeOK
  BY DEF WholeInv
<1>2. CASE UNCHANGED editorVars
  <2>1. uploads \subseteq [zone : Zones, picture : Picture, step : {"sign", "put"}]
    BY <1>1 DEF EditorTypeOK
  <2> QED
    BY <1>1, <1>2, <2>1, BackgroundIsWhole DEF editorVars, EditorTypeOK
<1>3. CASE Open \/ Close
  BY <1>3, OpenIsWhole, CloseIsWhole
<1>4. CASE Type
  <2>1. PICK f, v : Change(f, v)
    BY <1>4, TypeIsChange
  <2> QED
    BY <2>1, TypeIsWhole
<1>5. CASE Submit \/ AskDelete \/ ServeCall
  BY <1>5, SubmitIsWhole, AskDeleteIsWhole, ServeIsWhole
<1>6. CASE Created
  <2>1. IsForm(form')
    BY <1>6, SaveReturnsIs, SameDialog DEF Created, IsForm, SaveReturns
  <2> QED
    BY <1>6, <2>1, SaveReturnsIsWhole DEF Created
<1>7. CASE Updated
  <2>1. IsForm(form')
    BY <1>1, <1>7 DEF Updated, EditorTypeOK
  <2> QED
    BY <1>7, <2>1, SaveReturnsIsWhole DEF Updated
<1>8. CASE EventDeleted \/ CommunityDeleted
  BY <1>8, DeletedIsWhole DEF EventDeleted, CommunityDeleted
<1>9. CASE Refused \/ Lost
  BY <1>1, <1>9, FailsIsWhole DEF Refused, Lost, EditorTypeOK
<1>10. CASE \E z \in Zones : \/ \E p \in Pictures : AddFile(z, p)
                           \/ \E i \in 1..(MaxFiles + 1) : PreviewRead(z, i) \/ RemoveMedia(z, i)
  BY <1>10, AddFileIsWhole, PreviewIsWhole, RemoveIsWhole
<1>11. CASE \E yes \in BOOLEAN : AnswerDelete(yes)
  BY <1>11, AnswerDeleteIsWhole
<1>12. CASE \E u \in uploads : GetSignedUrl(u)
  <2>1. PICK u \in uploads : GetSignedUrl(u)
    BY <1>12
  <2>2. /\ server' = server /\ task' = task /\ page' = page /\ isOpen' = isOpen /\ form' = form
        /\ zones' = zones /\ showDeleteConfirm' = showDeleteConfirm /\ call' = call
        /\ picked' = picked /\ removed' = removed /\ calm' = calm
    BY <1>1, <2>1, GetSignedUrlIs
  <2>3. uploads' \subseteq [zone : Zones, picture : Picture, step : {"sign", "put"}]
    BY <1>1, <2>1, GetSignedUrlIs DEF EditorTypeOK
  <2> QED
    BY <1>1, <2>2, <2>3, BackgroundIsWhole DEF EditorTypeOK
<1>13. CASE \E u \in uploads : Put(u)
  BY <1>13, PutIsWhole
<1>14. CASE \E u \in uploads : UploadLost(u)
  <2>1. PICK u \in uploads : UploadLost(u)
    BY <1>14
  <2>2. uploads' \subseteq [zone : Zones, picture : Picture, step : {"sign", "put"}]
    BY <1>1, <2>1 DEF UploadLost, EditorTypeOK
  <2> QED
    BY <2>1, <2>2, BackgroundIsWhole DEF UploadLost, screen
<1>15. CASE \E i \in DOMAIN polls : Poll(i)
  <2>1. PICK i \in DOMAIN polls : Poll(i)
    BY <1>15
  <2>2. uploads \subseteq [zone : Zones, picture : Picture, step : {"sign", "put"}]
    BY <1>1 DEF EditorTypeOK
  <2> QED
    BY <1>1, <2>1, <2>2, BackgroundIsWhole DEF Poll, screen, history, EditorTypeOK
<1>16. CASE EntityRefetched
  BY <1>16, RefetchedIsWhole
<1> QED
  BY <1>2, <1>3, <1>4, <1>5, <1>6, <1>7, <1>8, <1>9, <1>10, <1>11, <1>12, <1>13, <1>14, <1>15,
     <1>16 DEF EditorNext

-----------------------------------------------------------------------------
(* While nothing came between. *)
LEMMA StaysApart ==
    ASSUME Apart, task' = task, picked \subseteq picked',
           \A z \in Zones : Held(z)' \subseteq Held(z)
    PROVE  Apart'
BY SameDialog DEF Apart

LEMMA StaysFit ==
    ASSUME Fits, task' = task, server' = server \/ server' = {}, uploads' = uploads
    PROVE  Fits'
BY SameDialog DEF Fits, Pending

LEMMA StaysStored ==
    ASSUME StoredAsPromised, call = {}, task' = task, server' = server, uploads' = uploads,
           promised' = promised \/ promised' = {}
    PROVE  StoredAsPromised'
BY SameDialog DEF StoredAsPromised, Pending

LEMMA NothingAsked ==
    ASSUME call' = {}
    PROVE  SentAsShown' /\ DoneAsPromised'
BY DEF SentAsShown, DoneAsPromised

LEMMA CalmFrame ==
    ASSUME CalmInv, task' = task, server' = server, isOpen' = isOpen, zones' = zones,
           call' = call, uploads' = uploads, promised' = promised, picked' = picked
    PROVE  CalmInv'
<1> USE DEF CalmInv
<1>1. Zones' = Zones /\ Editing' = Editing
  BY SameDialog
<1>2. \A z \in Zones : Held(z)' \subseteq Held(z)
  BY DEF Held, Pending
<1>3. Apart' /\ Fits'
  BY <1>2, StaysApart, StaysFit
<1>4. DialogFollows'
  BY <1>1 DEF DialogFollows
<1>5. Marked' = Marked
  BY <1>1 DEF Marked
<1>6. SentAsShown'
  BY <1>1, <1>5 DEF SentAsShown, Promises
<1>7. DoneAsPromised'
  BY <1>1 DEF DoneAsPromised
<1>8. StoredAsPromised'
  BY <1>1 DEF StoredAsPromised, Pending
<1> QED
  BY <1>3, <1>4, <1>6, <1>7, <1>8

LEMMA CalmStarts == EditorInit => CalmInv
<1> SUFFICES ASSUME EditorInit PROVE CalmInv
  OBVIOUS
<1> USE DEF EditorInit
<1>1. task \in Tasks /\ Zones = ZonesOf(task.kind)
  BY DEF Zones
<1>2. /\ task.images \in [Zones -> Seq(Stored)]
      /\ \A z \in Zones : Len(task.images[z]) <= 1
      /\ \A y, z \in Zones : y # z => ToSet(task.images[y]) \cap ToSet(task.images[z]) = {}
  BY <1>1, EditorAssumption DEF MaxFiles
<1>3. \A z \in Zones : zones[z].mediaFiles = <<>>
  BY UnmountedIs DEF AsOpened
<1>4. \A e \in server : e.images = task.images
  OBVIOUS
<1>5. \A z \in Zones : Held(z) \subseteq ToSet(task.images[z])
  BY <1>3, <1>4, NoEntry DEF Held, Pending
<1>6. \A z \in Zones : ToSet(task.images[z]) \subseteq Stored
  <2>1. ASSUME NEW s \in Seq(Stored) PROVE ToSet(s) \subseteq Stored
    BY DEF ToSet
  <2> QED
    BY <1>2, <2>1
<1>7. Apart
  BY <1>2, <1>5, <1>6 DEF Apart
<1>8. Fits
  BY <1>2, <1>4 DEF Fits, Pending
<1>9. DialogFollows /\ SentAsShown /\ DoneAsPromised /\ StoredAsPromised
  BY DEF DialogFollows, SentAsShown, DoneAsPromised, StoredAsPromised
<1> QED
  BY <1>7, <1>8, <1>9 DEF CalmInv

LEMMA OpenIsCalm == ASSUME WholeInv, CalmInv, Open, calm' PROVE CalmInv'
<1> USE DEF CalmInv, Open, background
<1>1. /\ task' = task /\ server' = server /\ call' = {} /\ uploads' = {} /\ call = {}
      /\ uploads = {} /\ picked' = picked /\ promised' = promised /\ zones' = Mounted
      /\ Editing => page = server /\ page # {}
  BY DEF AtRest
<1>2. Zones' = Zones /\ Editing' = Editing
  BY <1>1, SameDialog
<1>3. AtMostOneEntity(page) /\ (~Editing => page = {})
  BY DEF WholeInv, EditorTypeOK, DialogIsWhole
<1>4. /\ page = {} => \A z \in Zones : AsOpened(zones'[z], <<>>)
      /\ \A e \in page, z \in Zones : AsOpened(zones'[z], e.images[z])
  BY <1>1, <1>3, MountedIs
<1>5. \A z \in Zones : zones'[z].mediaFiles = <<>>
  BY <1>3, <1>4 DEF AsOpened, AtMostOneEntity
<1>6. Apart'
  <2>1. \A z \in Zones : Held(z)' \subseteq Held(z)
    BY <1>1, <1>5, NoEntry DEF Held, Pending
  <2> QED
    BY <1>1, <2>1, StaysApart
<1>7. DialogFollows'
  BY <1>1, <1>2, <1>3, <1>4 DEF DialogFollows, ZoneIs
<1> QED
  BY <1>1, <1>6, <1>7, StaysFit, StaysStored, NothingAsked

\* The dialog goes, and what is on its way and stored stays.
LEMMA ShutIsCalm ==
    ASSUME CalmInv, task' = task, server' = server, picked' = picked, uploads' = uploads,
           zones' = Unmounted, isOpen' = FALSE, call' = {}, StoredAsPromised'
    PROVE  CalmInv'
<1> USE DEF CalmInv
<1>1. \A z \in Zones : zones'[z].mediaFiles = <<>>
  BY UnmountedIs DEF AsOpened
<1>2. \A z \in Zones : Held(z)' \subseteq Held(z)
  BY <1>1, NoEntry DEF Held, Pending
<1>3. DialogFollows'
  BY DEF DialogFollows
<1> QED
  BY <1>2, <1>3, StaysApart, StaysFit, NothingAsked

LEMMA CloseIsCalm == ASSUME CalmInv, Close, calm' PROVE CalmInv'
<1>1. /\ task' = task /\ server' = server /\ picked' = picked /\ uploads' = uploads
      /\ zones' = Unmounted /\ isOpen' = FALSE /\ call' = {} /\ call = {} /\ promised' = promised
  BY DEF Close, IsProcessing, background
<1>2. StoredAsPromised'
  BY <1>1, StaysStored DEF CalmInv
<1> QED
  BY <1>1, <1>2, ShutIsCalm

LEMMA DeletedIsCalm == ASSUME CalmInv, Deleted PROVE CalmInv'
<1>1. /\ task' = task /\ server' = server /\ picked' = picked /\ uploads' = uploads
      /\ zones' = Unmounted /\ isOpen' = FALSE /\ call' = {} /\ promised' = {}
  BY DEF Deleted, background
<1>2. StoredAsPromised'
  BY <1>1 DEF StoredAsPromised
<1> QED
  BY <1>1, <1>2, ShutIsCalm

LEMMA RefusedIsCalm == ASSUME WholeInv, CalmInv, Refused PROVE CalmInv'
<1> USE DEF CalmInv
<1>1. PICK c \in call : c.state = "refused"
  BY DEF Refused
<1>2. call = {c}
  BY TheCall DEF WholeInv
<1>3. /\ task' = task /\ server' = server /\ picked' = picked /\ uploads' = uploads
      /\ zones' = zones /\ isOpen' = isOpen /\ call' = {} /\ promised' = {}
  BY DEF Refused, CallFails, screen, background
<1>4. Zones' = Zones /\ Editing' = Editing
  BY <1>3, SameDialog
<1>5. \A z \in Zones : Held(z)' \subseteq Held(z)
  BY <1>3 DEF Held, Pending
<1>6. DialogFollows'
  BY <1>1, <1>2, <1>3, <1>4 DEF DialogFollows
<1>7. StoredAsPromised'
  BY <1>3 DEF StoredAsPromised
<1> QED
  BY <1>3, <1>5, <1>6, <1>7, StaysApart, StaysFit, NothingAsked

\* How a zone goes from one of its four states to the next.
LEMMA ZoneAdds ==
    ASSUME NEW old \in Zone, NEW new \in Zone, NEW media, NEW p \in Picture, ZoneIs(old, media),
           Len(old.originalMedia) + Len(old.mediaFiles) < 1,
           new.mediaFiles = Append(old.mediaFiles, p), new.reading = Append(old.reading, p),
           new.previewMedia = old.previewMedia, new.originalMedia = old.originalMedia,
           new.mediaToDelete = old.mediaToDelete
    PROVE  ZoneIs(new, media)
<1> DEFINE o == old.originalMedia
           m == old.mediaFiles
<1>1. o \in Seq(Picture) /\ m \in Seq(Picture)
  BY DEF Zone
<1>2. o = <<>> /\ m = <<>>
  <2> DEFINE a == Len(o)
             b == Len(m)
  <2>1. a \in Nat /\ b \in Nat
    BY <1>1
  <2>2. a + b < 1
    OBVIOUS
  <2> HIDE DEF a, b
  <2>3. a = 0 /\ b = 0
    BY <2>1, <2>2
  <2> QED
    BY <1>1, <2>3 DEF a, b
<1>3. AsOpened(old, media) \/ Emptied(old, media)
  <2>1. \A q \in Picture : m # <<q>>
    BY <1>2, OneEntry
  <2> QED
    BY <2>1 DEF ZoneIs, Reading, Replaced
<1>4. /\ old.previewMedia = <<>> /\ old.mediaToDelete = media /\ old.reading = <<>>
  BY <1>2, <1>3 DEF AsOpened, Emptied
<1>5. new.mediaFiles = <<p>> /\ new.reading = <<p>>
  BY <1>2, <1>4, OneEntry
<1> QED
  BY <1>2, <1>4, <1>5 DEF ZoneIs, Reading

LEMMA ZoneReads ==
    ASSUME NEW old \in Zone, NEW new \in Zone, NEW media, ZoneIs(old, media),
           NEW i \in 1 .. Len(old.reading),
           new.previewMedia = Append(old.previewMedia, old.reading[i]),
           new.reading = RemoveAt(old.reading, i),
           new.mediaFiles = old.mediaFiles, new.originalMedia = old.originalMedia,
           new.mediaToDelete = old.mediaToDelete
    PROVE  ZoneIs(new, media)
<1>1. old.reading # <<>>
  OBVIOUS
<1>2. Reading(old, media)
  BY <1>1 DEF ZoneIs, AsOpened, Emptied, Replaced
<1>3. PICK p \in Picture : old.mediaFiles = <<p>> /\ old.reading = <<p>>
  BY <1>2 DEF Reading
<1>4. i = 1
  <2> DEFINE n == Len(old.reading)
  <2>1. n = 1 /\ i \in 1 .. n
    BY <1>3, OneEntry
  <2> HIDE DEF n
  <2> QED
    BY <2>1
<1>5. new.previewMedia = <<p>> /\ new.reading = <<>>
  BY <1>2, <1>3, <1>4, OneEntry DEF Reading
<1> QED
  BY <1>2, <1>3, <1>5 DEF ZoneIs, Reading, Replaced

LEMMA ZoneRemoves ==
    ASSUME NEW old \in Zone, NEW new \in Zone, NEW media \in Seq(Picture), ZoneIs(old, media),
           Len(media) <= 1, NEW i \in 1 .. Len(old.previewMedia),
           new.previewMedia = RemoveAt(old.previewMedia, i), new.reading = old.reading,
           i <= Len(old.originalMedia) =>
              /\ new.mediaFiles = old.mediaFiles
              /\ new.originalMedia = RemoveAt(old.originalMedia, i)
              /\ new.mediaToDelete = Append(old.mediaToDelete, old.originalMedia[i]),
           i > Len(old.originalMedia) =>
              /\ new.originalMedia = old.originalMedia
              /\ new.mediaToDelete = old.mediaToDelete
              /\ i - Len(old.originalMedia) <= Len(old.mediaFiles) =>
                    new.mediaFiles = RemoveAt(old.mediaFiles, i - Len(old.originalMedia))
    PROVE  Emptied(new, media)
<1>1. old.previewMedia # <<>>
  OBVIOUS
<1>2. AsOpened(old, media) \/ Replaced(old, media)
  BY <1>1 DEF ZoneIs, Emptied, Reading
<1>3. CASE AsOpened(old, media)
  <2>1. PICK x \in Picture : media = <<x>>
    BY <1>1, <1>3, ShortList DEF AsOpened
  <2>2. old.originalMedia = <<x>> /\ old.previewMedia = <<x>>
    BY <1>3, <2>1 DEF AsOpened
  <2>3. i = 1 /\ i <= Len(old.originalMedia)
    <3> DEFINE n == Len(old.previewMedia)
               m == Len(old.originalMedia)
    <3>1. n = 1 /\ m = 1 /\ i \in 1 .. n
      BY <2>2, OneEntry
    <3> HIDE DEF n, m
    <3>2. i = 1 /\ i <= m
      BY <3>1
    <3> QED
      BY <3>2 DEF m
  <2>4. /\ new.mediaFiles = old.mediaFiles /\ new.originalMedia = <<>>
        /\ new.mediaToDelete = Append(old.mediaToDelete, x) /\ new.previewMedia = <<>>
    BY <2>2, <2>3, OneEntry
  <2>5. new.mediaToDelete = <<x>>
    BY <1>3, <2>4, OneEntry DEF AsOpened
  <2> QED
    BY <1>3, <2>1, <2>4, <2>5 DEF AsOpened, Emptied
<1>4. CASE Replaced(old, media)
  <2>1. PICK p \in Picture : old.mediaFiles = <<p>> /\ old.previewMedia = <<p>>
    BY <1>4 DEF Replaced
  <2>2. /\ i = 1 /\ i > Len(old.originalMedia) /\ i - Len(old.originalMedia) = 1
        /\ i - Len(old.originalMedia) <= Len(old.mediaFiles)
    <3> DEFINE n == Len(old.previewMedia)
               m == Len(old.originalMedia)
               k == Len(old.mediaFiles)
    <3>1. n = 1 /\ k = 1 /\ i \in 1 .. n
      BY <2>1, OneEntry
    <3>2. m = 0
      BY <1>4, NoEntry DEF Replaced
    <3> HIDE DEF n, m, k
    <3>3. i = 1 /\ i > m /\ i - m = 1 /\ i - m <= k
      BY <3>1, <3>2
    <3> QED
      BY <3>3 DEF m, k
  <2>3. /\ new.originalMedia = <<>> /\ new.mediaToDelete = media
        /\ new.mediaFiles = RemoveAt(old.mediaFiles, 1)
    BY <1>4, <2>2 DEF Replaced
  <2>4. new.mediaFiles = <<>> /\ new.previewMedia = <<>>
    BY <2>1, <2>2, <2>3, OneEntry
  <2> QED
    BY <1>4, <2>3, <2>4 DEF Replaced, Emptied
<1> QED
  BY <1>2, <1>3, <1>4

\* One zone of the dialog changes.
LEMMA ZoneFollows ==
    ASSUME DialogFollows, task' = task, server' = server, uploads' = uploads, call' = call, isOpen,
           NEW z \in Zones, \A y \in Zones \ {z} : zones'[y] = zones[y],
           \A e \in server : Editing /\ ZoneIs(zones[z], e.images[z]) => ZoneIs(zones'[z], e.images[z]),
           ~Editing /\ ZoneIs(zones[z], <<>>) => ZoneIs(zones'[z], <<>>)
    PROVE  DialogFollows'
<1>1. Zones' = Zones /\ Editing' = Editing
  BY SameDialog
<1>2. SUFFICES ASSUME isOpen', \A c \in call : c.state # "done"
               PROVE  /\ uploads = {}
                      /\ Editing => /\ server # {}
                                    /\ \A e \in server, y \in Zones : ZoneIs(zones'[y], e.images[y])
                      /\ ~Editing => \A y \in Zones : ZoneIs(zones'[y], <<>>)
  BY <1>1 DEF DialogFollows
<1>3. /\ uploads = {}
      /\ Editing => server # {} /\ \A e \in server, y \in Zones : ZoneIs(zones[y], e.images[y])
      /\ ~Editing => \A y \in Zones : ZoneIs(zones[y], <<>>)
  BY <1>2 DEF DialogFollows
<1> QED
  BY <1>1, <1>3

\* A zone changes while nothing is saved.
LEMMA UnsavedIsCalm ==
    ASSUME CalmInv, task' = task, server' = server, uploads' = uploads, call' = call,
           promised' = promised, \A c \in call : c.op = "delete", Apart', DialogFollows'
    PROVE  CalmInv'
<1> USE DEF CalmInv
<1>1. SentAsShown' /\ DoneAsPromised'
  BY DEF SentAsShown, DoneAsPromised
<1>2. StoredAsPromised'
  BY SameDialog DEF StoredAsPromised, Pending
<1> QED
  BY <1>1, <1>2, StaysFit

LEMMA AddFileIsCalm ==
    ASSUME WholeInv, CalmInv, NEW z \in Zones, NEW p \in Pictures, AddFile(z, p), calm'
    PROVE  CalmInv'
<1> USE DEF CalmInv
<1>1. /\ task' = task /\ server' = server /\ uploads' = uploads /\ call' = call /\ call = {}
      /\ promised' = promised /\ picked' = picked \cup {p} /\ p \notin picked /\ isOpen
      /\ Len(zones[z].originalMedia) + Len(zones[z].mediaFiles) < 1
  BY DEF AddFile, EditDialog, background, IsProcessing, IsValidPick, CanAddMoreFiles, MaxFiles
<1>2. zones \in [Zones -> Zone] /\ p \in Picture
  BY DEF WholeInv, EditorTypeOK, Picture
<1>3. /\ zones' \in [Zones -> Zone]
      /\ \A y \in Zones \ {z} : zones'[y] = zones[y]
      /\ zones'[z].mediaFiles = Append(zones[z].mediaFiles, p)
      /\ zones'[z].reading = Append(zones[z].reading, p)
      /\ zones'[z].previewMedia = zones[z].previewMedia
      /\ zones'[z].originalMedia = zones[z].originalMedia
      /\ zones'[z].mediaToDelete = zones[z].mediaToDelete
  BY <1>2, AddFileDoes
<1>4. \A media : ZoneIs(zones[z], media) => ZoneIs(zones'[z], media)
  BY <1>1, <1>2, <1>3, ZoneAdds
<1>5. DialogFollows'
  BY <1>1, <1>3, <1>4, ZoneFollows
<1>6. ToSet(zones'[z].mediaFiles) = ToSet(zones[z].mediaFiles) \cup {p}
  BY <1>2, <1>3, LastEntry DEF Zone
<1>7. Held(z)' = Held(z) \cup {p} /\ \A y \in Zones \ {z} : Held(y)' = Held(y)
  BY <1>1, <1>3, <1>6 DEF Held, Pending
<1>8. \A y \in Zones : p \notin Held(y)
  BY <1>1, EditorAssumption DEF Apart
<1>9. Apart'
  <2>1. \A y \in Zones : Held(y)' \subseteq Stored \cup picked'
    BY <1>1, <1>7 DEF Apart
  <2>2. \A x, y \in Zones : x # y => Held(x)' \cap Held(y)' = {}
    BY <1>7, <1>8 DEF Apart
  <2> QED
    BY <1>1, <2>1, <2>2, SameDialog DEF Apart
<1> QED
  BY <1>1, <1>5, <1>9, UnsavedIsCalm

LEMMA PreviewIsCalm ==
    ASSUME WholeInv, CalmInv, NEW z \in Zones, NEW i, PreviewRead(z, i)
    PROVE  CalmInv'
<1> USE DEF CalmInv
<1>1. /\ task' = task /\ server' = server /\ uploads' = uploads /\ call' = call
      /\ promised' = promised /\ picked' = picked /\ isOpen /\ isOpen' = isOpen
  BY DEF PreviewRead, background, history
<1>2. zones \in [Zones -> Zone]
  BY DEF WholeInv, EditorTypeOK
<1>3. /\ zones' \in [Zones -> Zone] /\ i \in 1 .. Len(zones[z].reading)
      /\ \A y \in Zones \ {z} : zones'[y] = zones[y]
      /\ zones'[z].previewMedia = Append(zones[z].previewMedia, zones[z].reading[i])
      /\ zones'[z].reading = RemoveAt(zones[z].reading, i)
      /\ zones'[z].mediaFiles = zones[z].mediaFiles
      /\ zones'[z].originalMedia = zones[z].originalMedia
      /\ zones'[z].mediaToDelete = zones[z].mediaToDelete
  BY <1>2, PreviewReadDoes
<1>4. \A media : ZoneIs(zones[z], media) => ZoneIs(zones'[z], media)
  BY <1>2, <1>3, ZoneReads
<1>5. DialogFollows'
  BY <1>1, <1>3, <1>4, ZoneFollows
<1>6. \A y \in Zones : zones'[y].mediaFiles = zones[y].mediaFiles
  BY <1>3
<1>7. \A y \in Zones : Held(y)' \subseteq Held(y)
  BY <1>1, <1>6 DEF Held, Pending
<1>8. Apart' /\ Fits'
  BY <1>1, <1>7, StaysApart, StaysFit
<1>9. Zones' = Zones
  BY <1>1, SameDialog
<1>10. SentAsShown'
  <2>1. zones[z].reading # <<>>
    BY <1>3, NoEntry
  <2>2. \A c \in call : ~(c.op # "delete" /\ c.state = "sent")
    BY <2>1 DEF SentAsShown
  <2> QED
    BY <1>1, <2>2 DEF SentAsShown
<1>11. DoneAsPromised'
  BY <1>1, <1>6, <1>9 DEF DoneAsPromised
<1>12. StoredAsPromised'
  BY <1>1, <1>9 DEF StoredAsPromised, Pending
<1> QED
  BY <1>5, <1>8, <1>10, <1>11, <1>12

LEMMA RemoveIsCalm ==
    ASSUME WholeInv, CalmInv, NEW z \in Zones, NEW i, RemoveMedia(z, i), calm'
    PROVE  CalmInv'
<1> USE DEF CalmInv
<1>1. /\ task' = task /\ server' = server /\ uploads' = uploads /\ call' = call /\ call = {}
      /\ promised' = promised /\ picked' = picked /\ isOpen
  BY DEF RemoveMedia, EditDialog, background, IsProcessing
<1>2. zones \in [Zones -> Zone]
  BY DEF WholeInv, EditorTypeOK
<1>3. /\ zones' \in [Zones -> Zone] /\ i \in 1 .. Len(zones[z].previewMedia)
      /\ \A y \in Zones \ {z} : zones'[y] = zones[y]
      /\ zones'[z].previewMedia = RemoveAt(zones[z].previewMedia, i)
      /\ zones'[z].reading = zones[z].reading
      /\ i <= Len(zones[z].originalMedia) =>
            /\ zones'[z].mediaFiles = zones[z].mediaFiles
            /\ zones'[z].originalMedia = RemoveAt(zones[z].originalMedia, i)
            /\ zones'[z].mediaToDelete =
                  Append(zones[z].mediaToDelete, zones[z].originalMedia[i])
      /\ i > Len(zones[z].originalMedia) =>
            /\ zones'[z].originalMedia = zones[z].originalMedia
            /\ zones'[z].mediaToDelete = zones[z].mediaToDelete
            /\ i - Len(zones[z].originalMedia) <= Len(zones[z].mediaFiles) =>
                  zones'[z].mediaFiles =
                      RemoveAt(zones[z].mediaFiles, i - Len(zones[z].originalMedia))
  BY <1>2, RemoveMediaDoes
<1>4. \A media \in Seq(Picture) :
         ZoneIs(zones[z], media) /\ Len(media) <= 1 => Emptied(zones'[z], media)
  BY <1>2, <1>3, ZoneRemoves
<1>5. \A e \in server : e.images[z] \in Seq(Picture) /\ Len(e.images[z]) <= 1
  BY TheEntity DEF WholeInv, EditorTypeOK, IsEntity, Fits
<1>6. DialogFollows'
  <2>1. \A e \in server : ZoneIs(zones[z], e.images[z]) => ZoneIs(zones'[z], e.images[z])
    BY <1>4, <1>5 DEF ZoneIs
  <2>2. ZoneIs(zones[z], <<>>) => ZoneIs(zones'[z], <<>>)
    <3>1. <<>> \in Seq(Picture) /\ Len(<<>>) <= 1
      BY NoEntry
    <3> QED
      BY <1>4, <3>1, Zenon DEF ZoneIs
  <2> QED
    BY <1>1, <1>3, <2>1, <2>2, ZoneFollows
<1>7. zones'[z].mediaFiles = <<>>
  <2>1. PICK media \in Seq(Picture) : ZoneIs(zones[z], media) /\ Len(media) <= 1
    <3>1. /\ Editing => server # {} /\ \A e \in server : ZoneIs(zones[z], e.images[z])
          /\ ~Editing => ZoneIs(zones[z], <<>>)
      BY <1>1 DEF DialogFollows
    <3>2. ~Editing => <<>> \in Seq(Picture) /\ Len(<<>>) <= 1
      BY NoEntry
    <3> QED
      BY <1>5, <3>1, <3>2
  <2> QED
    BY <1>4, <2>1 DEF Emptied
<1>8. \A y \in Zones : Held(y)' \subseteq Held(y)
  BY <1>1, <1>3, <1>7, NoEntry DEF Held, Pending
<1>9. Apart'
  BY <1>1, <1>8, StaysApart
<1> QED
  BY <1>1, <1>6, <1>9, UnsavedIsCalm

LEMMA SubmitIsCalm == ASSUME CalmInv, Submit, calm' PROVE CalmInv'
<1> USE DEF CalmInv
<1> DEFINE c == [op |-> task.mode, form |-> form, delete |-> Marked, state |-> "sent"]
           p == [form |-> form, images |-> OnScreen]
<1>1. /\ task' = task /\ server' = server /\ uploads' = uploads /\ zones' = zones /\ isOpen
      /\ isOpen' = isOpen /\ call = {} /\ call' = {c} /\ promised' = {p} /\ picked' = picked
      /\ \A z \in Zones : zones[z].reading = <<>>
  BY DEF Submit, background, screen, IsProcessing
<1>2. c.form = form /\ c.delete = Marked /\ c.state = "sent" /\ p.form = form
  OBVIOUS
<1>3. \A z \in Zones : p.images[z] = ToSet(zones[z].previewMedia)
  BY DEF OnScreen
<1> HIDE DEF c, p
<1>4. Zones' = Zones /\ Editing' = Editing /\ Marked' = Marked
  BY <1>1, SameDialog DEF Marked
<1>5. Apart' /\ Fits'
  <2>1. \A z \in Zones : Held(z)' \subseteq Held(z)
    BY <1>1 DEF Held, Pending
  <2> QED
    BY <1>1, <2>1, StaysApart, StaysFit
<1>6. DialogFollows'
  BY <1>1, <1>4 DEF DialogFollows
<1>7. SentAsShown'
  BY <1>1, <1>2, <1>3, <1>4 DEF SentAsShown, Promises
<1>8. DoneAsPromised'
  BY <1>1, <1>2 DEF DoneAsPromised
<1>9. StoredAsPromised'
  BY <1>1 DEF StoredAsPromised
<1> QED
  BY <1>5, <1>6, <1>7, <1>8, <1>9

LEMMA AnswerDeleteIsCalm ==
    ASSUME CalmInv, NEW yes \in BOOLEAN, AnswerDelete(yes) PROVE CalmInv'
<1> USE DEF CalmInv
<1> DEFINE none == {}
           c == [op |-> "delete", form |-> form, delete |-> none, state |-> "sent"]
<1>1. /\ task' = task /\ server' = server /\ uploads' = uploads /\ zones' = zones /\ call = {}
      /\ isOpen' = isOpen /\ promised' = promised /\ picked' = picked
      /\ call' = (IF yes THEN {c} ELSE {})
  BY DEF AnswerDelete, background, history, IsProcessing
<1>2. c.op = "delete" /\ c.state = "sent"
  OBVIOUS
<1> HIDE DEF c
<1>3. \A d \in call' : d.op = "delete" /\ d.state = "sent"
  BY <1>1, <1>2
<1>4. Zones' = Zones /\ Editing' = Editing
  BY <1>1, SameDialog
<1>5. Apart'
  <2>1. \A z \in Zones : Held(z)' \subseteq Held(z)
    BY <1>1 DEF Held, Pending
  <2> QED
    BY <1>1, <2>1, StaysApart
<1>6. DialogFollows'
  BY <1>1, <1>4 DEF DialogFollows
<1>7. SentAsShown' /\ DoneAsPromised'
  BY <1>3 DEF SentAsShown, DoneAsPromised
<1>8. StoredAsPromised'
  BY <1>1, <1>4 DEF StoredAsPromised, Pending
<1> QED
  BY <1>1, <1>5, <1>6, <1>7, <1>8, StaysFit

LEMMA GetSignedUrlIsCalm ==
    ASSUME WholeInv, CalmInv, NEW u \in uploads, GetSignedUrl(u) PROVE CalmInv'
<1> USE DEF CalmInv
<1>1. /\ server' = server /\ task' = task /\ isOpen' = isOpen /\ zones' = zones /\ call' = call
      /\ picked' = picked /\ promised' = promised
  BY GetSignedUrlIs DEF WholeInv
<1>2. PICK v : /\ uploads' = (uploads \ {u}) \cup {v}
               /\ v.zone = u.zone /\ v.picture = u.picture
  BY GetSignedUrlIs DEF WholeInv
<1>3. Zones' = Zones /\ Editing' = Editing /\ Marked' = Marked
  BY <1>1, SameDialog DEF Marked
<1>4. ASSUME NEW z \in Zones
      PROVE  {w.picture : w \in Pending(z)'} = {w.picture : w \in Pending(z)}
  BY <1>2 DEF Pending
<1>5. \A z \in Zones : Held(z)' \subseteq Held(z)
  BY <1>1, <1>4 DEF Held
<1>6. Apart'
  BY <1>1, <1>5, StaysApart
<1>7. Fits'
  <2>1. ASSUME NEW e \in server, NEW z \in Zones
        PROVE  /\ Len(e.images[z]) <= 1
               /\ Pending(z)' # {} => e.images[z] = <<>>
               /\ \A x, y \in Pending(z)' : x = y
    <3>1. /\ Len(e.images[z]) <= 1
          /\ Pending(z) # {} => e.images[z] = <<>>
          /\ \A x, y \in Pending(z) : x = y
      BY DEF Fits
    <3>2. CASE z = u.zone
      <4>1. u \in Pending(z)
        BY <3>2 DEF Pending
      <4>2. \A x \in Pending(z)' : x = v
        BY <1>2, <3>1, <4>1 DEF Pending
      <4> QED
        BY <3>1, <4>1, <4>2
    <3>3. CASE z # u.zone
      <4>1. Pending(z)' = Pending(z)
        BY <1>2, <3>3 DEF Pending
      <4> QED
        BY <3>1, <4>1
    <3> QED
      BY <3>2, <3>3
  <2> QED
    BY <1>1, <1>3, <2>1 DEF Fits
<1>8. DialogFollows'
  BY <1>1 DEF DialogFollows
<1>9. SentAsShown'
  BY <1>1, <1>3 DEF SentAsShown, Promises
<1>10. DoneAsPromised'
  BY <1>1 DEF DoneAsPromised
<1>11. StoredAsPromised'
  BY <1>1, <1>3, <1>4 DEF StoredAsPromised
<1> QED
  BY <1>6, <1>7, <1>8, <1>9, <1>10, <1>11

LEMMA PutIsCalm == ASSUME WholeInv, CalmInv, NEW u \in uploads, Put(u) PROVE CalmInv'
<1> USE DEF CalmInv
<1>1. /\ uploads' = uploads \ {u} /\ u.zone \in Zones /\ u.picture \in Picture
      /\ task' = task /\ isOpen' = isOpen /\ zones' = zones /\ call' = call
      /\ picked' = picked /\ promised' = promised
      /\ server = {} => server' = {}
  BY PutIs DEF WholeInv
<1>2. Zones' = Zones /\ Editing' = Editing /\ Marked' = Marked
  BY <1>1, SameDialog DEF Marked
<1>3. ASSUME NEW f \in server'
      PROVE  \E e \in server :
                /\ f.form = e.form
                /\ e.images[u.zone] = <<>> /\ f.images[u.zone] = <<u.picture>>
                /\ \A z \in Zones \ {u.zone} : f.images[z] = e.images[z]
  <2>1. PICK e \in server : TRUE
    BY <1>1
  <2>2. /\ f.form = e.form
        /\ f.images[u.zone] = Append(e.images[u.zone], u.picture)
        /\ \A z \in Zones \ {u.zone} : f.images[z] = e.images[z]
    BY <2>1, PutIs DEF WholeInv
  <2>3. u \in Pending(u.zone)
    BY DEF Pending
  <2>4. e.images[u.zone] = <<>>
    BY <1>1, <2>3 DEF Fits
  <2>5. f.images[u.zone] = <<u.picture>>
    BY <1>1, <2>2, <2>4, OneEntry
  <2> QED
    BY <2>2, <2>4, <2>5
<1>4. ToSet(<<u.picture>>) = {u.picture} /\ Len(<<u.picture>>) = 1
  BY <1>1, OneEntry
<1>5. ASSUME NEW f \in server', NEW z \in Zones
      PROVE  \E e \in server :
                /\ f.form = e.form
                /\ ToSet(f.images[z]) \cup {w.picture : w \in Pending(z)'} =
                      ToSet(e.images[z]) \cup {w.picture : w \in Pending(z)}
                /\ Len(f.images[z]) <= 1
                /\ Pending(z)' # {} => f.images[z] = <<>>
                /\ \A x, y \in Pending(z)' : x = y
  <2>1. PICK e \in server :
                /\ f.form = e.form
                /\ e.images[u.zone] = <<>> /\ f.images[u.zone] = <<u.picture>>
                /\ \A y \in Zones \ {u.zone} : f.images[y] = e.images[y]
    BY <1>3
  <2>2. /\ Len(e.images[z]) <= 1
        /\ Pending(z) # {} => e.images[z] = <<>>
        /\ \A x, y \in Pending(z) : x = y
    BY DEF Fits
  <2>3. CASE z = u.zone
    <3>1. Pending(z) = {u} /\ Pending(z)' = {}
      BY <1>1, <2>2, <2>3 DEF Pending
    <3>2. /\ ToSet(f.images[z]) = {u.picture} /\ Len(f.images[z]) = 1
          /\ ToSet(e.images[z]) = {}
      BY <1>4, <2>1, <2>3, NoEntry
    <3> QED
      BY <2>1, <3>1, <3>2
  <2>4. CASE z # u.zone
    <3>1. Pending(z)' = Pending(z) /\ f.images[z] = e.images[z]
      BY <1>1, <2>1, <2>4 DEF Pending
    <3> QED
      BY <2>1, <2>2, <3>1
  <2> QED
    BY <2>3, <2>4
<1>6. Fits'
  BY <1>2, <1>5 DEF Fits
<1>7. Apart'
  <2>1. ASSUME NEW z \in Zones, NEW q \in Held(z)' PROVE q \in Held(z)
    <3>1. CASE q \in ToSet(zones'[z].mediaFiles)
      BY <1>1, <3>1 DEF Held
    <3>2. CASE \E w \in Pending(z)' : q = w.picture
      BY <1>1, <3>2 DEF Held, Pending
    <3>3. CASE \E f \in server' : q \in ToSet(f.images[z])
      BY <1>5, <3>3 DEF Held
    <3> QED
      BY <3>1, <3>2, <3>3 DEF Held
  <2> QED
    BY <1>1, <2>1, StaysApart
<1>8. DialogFollows'
  BY <1>1 DEF DialogFollows
<1>9. SentAsShown'
  BY <1>1, <1>2 DEF SentAsShown, Promises
<1>10. DoneAsPromised'
  BY <1>1, <1>3 DEF DoneAsPromised
<1>11. StoredAsPromised'
  <2>1. ASSUME call = {}, NEW f \in server', NEW p \in promised
        PROVE  /\ f.form.description = p.form.description
               /\ \A z \in Zones :
                     p.images[z] = ToSet(f.images[z]) \cup {w.picture : w \in Pending(z)'}
    <3>1. \A z \in Zones : \E e \in server :
             /\ f.form = e.form
             /\ ToSet(f.images[z]) \cup {w.picture : w \in Pending(z)'} =
                   ToSet(e.images[z]) \cup {w.picture : w \in Pending(z)}
      BY <1>5
    <3>2. \A e \in server :
             /\ e.form.description = p.form.description
             /\ \A z \in Zones :
                   p.images[z] = ToSet(e.images[z]) \cup {w.picture : w \in Pending(z)}
      BY <2>1 DEF StoredAsPromised
    <3> QED
      BY <1>3, <3>1, <3>2
  <2> QED
    BY <1>1, <1>2, <2>1 DEF StoredAsPromised
<1> QED
  BY <1>6, <1>7, <1>8, <1>9, <1>10, <1>11

\* The zones' files become uploads.
LEMMA SaveReturnsIsCalm ==
    ASSUME WholeInv, CalmInv, NEW op \in {"create", "edit"}, SaveReturns(op) PROVE CalmInv'
<1> USE DEF CalmInv
<1>1. /\ call' = {} /\ isOpen' = FALSE /\ zones' = Unmounted
      /\ uploads' = uploads \cup UNION {Upload(z) : z \in Zones}
      /\ task' = task /\ server' = server /\ picked' = picked /\ promised' = promised
  BY SaveReturnsIs DEF WholeInv
<1>2. PICK c \in call : c.state = "done" /\ c.op # "delete"
  BY SaveReturnsIs DEF WholeInv
<1>3. zones \in [Zones -> Zone] /\ Zones' = Zones
  BY <1>1, SameDialog DEF WholeInv, EditorTypeOK
<1>4. /\ \A z \in Zones : \A u \in Upload(z) :
            u.zone = z /\ u.picture \in ToSet(zones[z].mediaFiles)
      /\ \A z \in Zones : \A q \in ToSet(zones[z].mediaFiles) : \E u \in Upload(z) : u.picture = q
      /\ \A z \in Zones : \A u, v \in Upload(z) : u.picture = v.picture => u = v
  BY <1>3, UploadIs
<1>5. ASSUME NEW z \in Zones PROVE Pending(z)' = Pending(z) \cup Upload(z)
  BY <1>1, <1>4 DEF Pending
<1>6. \A z \in Zones : {u.picture : u \in Upload(z)} = ToSet(zones[z].mediaFiles)
  BY <1>4
<1>7. \A z \in Zones : {u.picture : u \in Pending(z)'} =
                          {u.picture : u \in Pending(z)} \cup ToSet(zones[z].mediaFiles)
  BY <1>5, <1>6
<1>8. \A z \in Zones : zones'[z].mediaFiles = <<>>
  BY <1>1, UnmountedIs DEF AsOpened
<1>9. Apart'
  <2>1. ASSUME NEW z \in Zones PROVE Held(z)' \subseteq Held(z)
    BY <1>1, <1>7, <1>8, NoEntry DEF Held
  <2> QED
    BY <1>1, <2>1, StaysApart
<1>10. ASSUME NEW e \in server, NEW z \in Zones
       PROVE  /\ Pending(z) = {} /\ Pending(z)' = Upload(z)
              /\ \A p \in promised : e.form.description = p.form.description
              /\ \A p \in promised :
                    p.images[z] = ToSet(e.images[z]) \cup ToSet(zones[z].mediaFiles)
              /\ \/ zones[z].mediaFiles = <<>>
                 \/ e.images[z] = <<>> /\ \E p \in Picture : zones[z].mediaFiles = <<p>>
  <2>1. /\ uploads = {}
        /\ \A p \in promised : e.form.description = p.form.description
        /\ \A p \in promised : p.images[z] = ToSet(e.images[z]) \cup ToSet(zones[z].mediaFiles)
        /\ Len(zones[z].mediaFiles) <= 1
        /\ e.images[z] # <<>> => zones[z].mediaFiles = <<>>
    BY <1>2 DEF DoneAsPromised
  <2>2. zones[z].mediaFiles = <<>> \/ \E p \in Picture : zones[z].mediaFiles = <<p>>
    BY <1>3, <2>1, ShortList DEF Zone
  <2>3. Pending(z) = {}
    BY <2>1 DEF Pending
  <2> QED
    BY <1>5, <2>1, <2>2, <2>3
<1>11. Fits'
  <2>1. ASSUME NEW e \in server, NEW z \in Zones
        PROVE  /\ Len(e.images[z]) <= 1
               /\ Pending(z)' # {} => e.images[z] = <<>>
               /\ \A u, v \in Pending(z)' : u = v
    <3>1. Len(e.images[z]) <= 1
      BY DEF Fits
    <3>2. CASE zones[z].mediaFiles = <<>>
      <4>1. Pending(z)' = {}
        BY <1>4, <1>10, <3>2, NoEntry
      <4> QED
        BY <3>1, <4>1
    <3>3. CASE e.images[z] = <<>> /\ \E p \in Picture : zones[z].mediaFiles = <<p>>
      <4>1. PICK p \in Picture : zones[z].mediaFiles = <<p>>
        BY <3>3
      <4>2. ToSet(zones[z].mediaFiles) = {p}
        BY <4>1, OneEntry
      <4>3. \A u, v \in Upload(z) : u = v
        BY <1>4, <4>2
      <4> QED
        BY <1>10, <3>1, <3>3, <4>3
    <3> QED
      BY <1>10, <3>2, <3>3
  <2> QED
    BY <1>1, <1>3, <2>1 DEF Fits
<1>12. DialogFollows'
  BY <1>1 DEF DialogFollows
<1>13. StoredAsPromised'
  <2>1. ASSUME NEW e \in server, NEW p \in promised, NEW z \in Zones
        PROVE  p.images[z] = ToSet(e.images[z]) \cup {u.picture : u \in Pending(z)'}
    BY <1>7, <1>10, <2>1
  <2>2. ASSUME NEW e \in server, NEW p \in promised
        PROVE  e.form.description = p.form.description
    BY <1>2, <2>2 DEF DoneAsPromised
  <2> QED
    BY <1>1, <1>3, <2>1, <2>2 DEF StoredAsPromised
<1> QED
  BY <1>1, <1>9, <1>11, <1>12, <1>13, NothingAsked

\* What a saved zone promises: what is kept of its images, and its new file.
LEMMA ZoneSaved ==
    ASSUME NEW zone \in Zone, NEW media \in Seq(Picture), NEW kept, ZoneIs(zone, media),
           zone.reading = <<>>, Len(media) <= 1,
           AsOpened(zone, media) => kept = media,
           zone.mediaToDelete = media => kept = <<>>
    PROVE  /\ ToSet(zone.previewMedia) = ToSet(kept) \cup ToSet(zone.mediaFiles)
           /\ Len(zone.mediaFiles) <= 1 /\ Len(kept) <= 1
           /\ kept # <<>> => zone.mediaFiles = <<>>
<1>1. CASE AsOpened(zone, media)
  BY <1>1, NoEntry DEF AsOpened
<1>2. CASE Emptied(zone, media)
  BY <1>2, NoEntry DEF Emptied
<1>3. CASE Reading(zone, media)
  BY <1>3, OneEntry DEF Reading
<1>4. CASE Replaced(zone, media)
  <2>1. PICK p \in Picture : zone.mediaFiles = <<p>> /\ zone.previewMedia = <<p>>
    BY <1>4 DEF Replaced
  <2>2. kept = <<>>
    BY <1>4 DEF Replaced
  <2> QED
    BY <2>1, <2>2, OneEntry, NoEntry
<1> QED
  BY <1>1, <1>2, <1>3, <1>4 DEF ZoneIs

\* A mark is of one zone, as the images are.
LEMMA MarkedIsOwn ==
    ASSUME Apart, NEW e \in server, zones \in [Zones -> Zone], e.images \in [Zones -> Seq(Picture)],
           \A y \in Zones : ZoneIs(zones[y], e.images[y]), NEW z \in Zones
    PROVE  /\ AsOpened(zones[z], e.images[z]) => Keeping(e.images, Marked)[z] = e.images[z]
           /\ zones[z].mediaToDelete = e.images[z] => Keeping(e.images, Marked)[z] = <<>>
           /\ ToSet(Keeping(e.images, Marked)[z]) \subseteq ToSet(e.images[z])
<1> DEFINE images == e.images
           ids == Marked
<1>1. images \in [Zones -> Seq(Picture)]
  OBVIOUS
<1>2. \A y \in Zones : ToSet(zones[y].mediaToDelete) \subseteq ToSet(images[y])
  BY NoEntry DEF ZoneIs, AsOpened, Emptied, Reading, Replaced
<1>3. \A y \in Zones : ToSet(images[y]) \subseteq Held(y)
  BY DEF Held
<1>4. ASSUME AsOpened(zones[z], images[z])
      PROVE  ToSet(images[z]) \cap ids = {}
  <2>1. ASSUME NEW y \in Zones
        PROVE  ToSet(images[z]) \cap ToSet(zones[y].mediaToDelete) = {}
    <3>1. CASE y = z
      BY <1>4, <3>1, NoEntry DEF AsOpened
    <3>2. CASE y # z
      <4>1. Held(y) \cap Held(z) = {}
        BY <3>2 DEF Apart
      <4> QED
        BY <1>2, <1>3, <4>1
    <3> QED
      BY <3>1, <3>2
  <2> QED
    BY <2>1 DEF Marked
<1>5. zones[z].mediaToDelete = images[z] => ToSet(images[z]) \subseteq ids
  BY DEF Marked
<1> HIDE DEF images, ids
<1>6. /\ Keeping(images, ids) \in [Zones -> Seq(Picture)]
      /\ \A y \in Zones :
            /\ ToSet(Keeping(images, ids)[y]) \subseteq ToSet(images[y])
            /\ ToSet(images[y]) \ ids \subseteq ToSet(Keeping(images, ids)[y])
            /\ ToSet(images[y]) \cap ids = {} => Keeping(images, ids)[y] = images[y]
            /\ ToSet(images[y]) \subseteq ids => Keeping(images, ids)[y] = <<>>
  BY <1>1, KeepingIs, Zenon
<1> QED
  BY <1>4, <1>5, <1>6 DEF images, ids

\* The service has done what was asked: what is stored now and the files of the zones
\* are what was on screen.
LEMMA DoneIsCalm ==
    ASSUME Apart, task' = task, uploads' = uploads, uploads = {}, isOpen, isOpen' = isOpen,
           zones' = zones, picked' = picked, NEW c, call' = {c}, c.state = "done",
           NEW e, server' = {e},
           \A p \in promised' : e.form.description = p.form.description,
           \A p \in promised' : Promises(p),
           \A z \in Zones :
              /\ \A q \in ToSet(e.images[z]) : \E f \in server : q \in ToSet(f.images[z])
              /\ ToSet(zones[z].previewMedia) = ToSet(e.images[z]) \cup ToSet(zones[z].mediaFiles)
              /\ Len(zones[z].mediaFiles) <= 1 /\ Len(e.images[z]) <= 1
              /\ e.images[z] # <<>> => zones[z].mediaFiles = <<>>
    PROVE  CalmInv'
<1>1. Zones' = Zones
  BY SameDialog
<1>2. Apart'
  <2>1. ASSUME NEW z \in Zones PROVE Held(z)' \subseteq Held(z)
    BY DEF Held, Pending
  <2> QED
    BY <2>1, StaysApart
<1>3. Fits'
  BY <1>1 DEF Fits, Pending
<1>4. DialogFollows' /\ SentAsShown' /\ StoredAsPromised'
  BY DEF DialogFollows, SentAsShown, StoredAsPromised
<1>5. DoneAsPromised'
  BY <1>1 DEF DoneAsPromised, Promises
<1> QED
  BY <1>2, <1>3, <1>4, <1>5 DEF CalmInv

LEMMA ServeIsCalm == ASSUME WholeInv, CalmInv, ServeCall PROVE CalmInv'
<1> USE DEF CalmInv
<1>1. /\ task' = task /\ isOpen' = isOpen /\ zones' = zones /\ uploads' = uploads
      /\ picked' = picked /\ promised' = promised
  BY ServeUnchanged
<1>2. PICK c \in call, d \in call' :
              /\ call = {c} /\ IsCall(c) /\ c.state = "sent" /\ call' = {d} /\ IsCall(d)
              /\ d.op = c.op /\ d.form = c.form /\ d.delete = c.delete
              /\ \/ /\ c.op = "create" /\ d.state = "done"
                    /\ \E e \in server' :
                          /\ server' = {e} /\ IsEntity(e)
                          /\ e.form = Saved(EmptyForm, c.form) /\ e.images = NoImages
                 \/ /\ c.op = "edit" /\ d.state = "done"
                    /\ \E old \in server, e \in server' :
                          /\ server = {old} /\ server' = {e} /\ IsEntity(old) /\ IsEntity(e)
                          /\ e.form = Saved(old.form, c.form)
                          /\ e.images = Keeping(old.images, c.delete)
                 \/ c.op = "edit" /\ d.state = "refused" /\ server' = server
                 \/ c.op = "delete" /\ d.state = "done" /\ server' = {}
  BY ServeCallIs DEF WholeInv
<1>3. Zones' = Zones /\ Editing' = Editing
  BY <1>1, SameDialog
<1>4. zones \in [Zones -> Zone] /\ task.kind \in {"event", "community"} /\ IsForm(c.form)
  BY <1>2, KindIs DEF WholeInv, EditorTypeOK, IsCall
<1>5. ASSUME c.op # "delete"
      PROVE  /\ isOpen /\ uploads = {} /\ c.delete = Marked
             /\ \A z \in Zones : zones[z].reading = <<>>
             /\ \A p \in promised : p.form = c.form /\ Promises(p)
             /\ Editing => \A e \in server, z \in Zones : ZoneIs(zones[z], e.images[z])
             /\ ~Editing => \A z \in Zones : ZoneIs(zones[z], <<>>)
  <2>1. /\ isOpen /\ c.delete = Marked
        /\ \A z \in Zones : zones[z].reading = <<>>
        /\ \A p \in promised : p.form = c.form /\ Promises(p)
    BY <1>2, <1>5 DEF SentAsShown
  <2> QED
    BY <1>2, <2>1 DEF DialogFollows
<1>6. CASE c.op = "create"
  <2>1. PICK e \in server' : /\ server' = {e} /\ e.form = Saved(EmptyForm, c.form)
                             /\ e.images = NoImages
    BY <1>2, <1>6
  <2>2. ~Editing
    BY <1>2, <1>6 DEF IsCall, Editing
  <2>3. e.form.description = c.form.description
    BY <1>4, <2>1, SavedIs
  <2>4. \A z \in Zones : e.images[z] = <<>>
    BY <2>1 DEF NoImages
  <2>5. ASSUME NEW z \in Zones
        PROVE  /\ \A q \in ToSet(e.images[z]) : \E f \in server : q \in ToSet(f.images[z])
               /\ ToSet(zones[z].previewMedia) = ToSet(e.images[z]) \cup ToSet(zones[z].mediaFiles)
               /\ Len(zones[z].mediaFiles) <= 1 /\ Len(e.images[z]) <= 1
               /\ e.images[z] # <<>> => zones[z].mediaFiles = <<>>
    <3> DEFINE none == e.images[z]
    <3>1. none = <<>> /\ none \in Seq(Picture) /\ Len(none) = 0 /\ ToSet(none) = {}
      BY <2>4, NoEntry
    <3>2. ZoneIs(zones[z], none) /\ zones[z].reading = <<>> /\ zones[z] \in Zone
      BY <1>4, <1>5, <1>6, <2>2, <3>1
    <3> HIDE DEF none
    <3>3. Len(none) <= 1
      BY <3>1
    <3>4. /\ ToSet(zones[z].previewMedia) = ToSet(none) \cup ToSet(zones[z].mediaFiles)
          /\ Len(zones[z].mediaFiles) <= 1
          /\ none # <<>> => zones[z].mediaFiles = <<>>
      BY <3>1, <3>2, <3>3, ZoneSaved
    <3> QED
      BY <3>1, <3>3, <3>4 DEF none
  <2> QED
    BY <1>1, <1>2, <1>5, <1>6, <2>1, <2>3, <2>5, DoneIsCalm
<1>7. CASE c.op = "edit" /\ d.state = "done"
  <2>1. PICK old \in server, e \in server' :
          /\ server = {old} /\ server' = {e} /\ IsEntity(old)
          /\ e.form = Saved(old.form, c.form) /\ e.images = Keeping(old.images, Marked)
    BY <1>2, <1>5, <1>7
  <2>2. Editing
    BY <1>2, <1>7 DEF IsCall, Editing
  <2>3. e.form.description = c.form.description
    BY <1>4, <2>1, SavedIs
  <2>4. old.images \in [Zones -> Seq(Picture)] /\ \A z \in Zones : ZoneIs(zones[z], old.images[z])
    BY <1>5, <1>7, <2>1, <2>2 DEF IsEntity
  <2>5. ASSUME NEW z \in Zones
        PROVE  /\ \A q \in ToSet(e.images[z]) : \E f \in server : q \in ToSet(f.images[z])
               /\ ToSet(zones[z].previewMedia) = ToSet(e.images[z]) \cup ToSet(zones[z].mediaFiles)
               /\ Len(zones[z].mediaFiles) <= 1 /\ Len(e.images[z]) <= 1
               /\ e.images[z] # <<>> => zones[z].mediaFiles = <<>>
    <3>1. /\ AsOpened(zones[z], old.images[z]) => e.images[z] = old.images[z]
          /\ zones[z].mediaToDelete = old.images[z] => e.images[z] = <<>>
          /\ ToSet(e.images[z]) \subseteq ToSet(old.images[z])
      BY <1>4, <2>1, <2>4, MarkedIsOwn
    <3>2. zones[z].reading = <<>> /\ zones[z] \in Zone /\ Len(old.images[z]) <= 1
      BY <1>4, <1>5, <1>7, <2>1 DEF Fits
    <3>3. /\ ToSet(zones[z].previewMedia) = ToSet(e.images[z]) \cup ToSet(zones[z].mediaFiles)
          /\ Len(zones[z].mediaFiles) <= 1 /\ Len(e.images[z]) <= 1
          /\ e.images[z] # <<>> => zones[z].mediaFiles = <<>>
      BY <2>4, <3>1, <3>2, ZoneSaved
    <3> QED
      BY <2>1, <3>1, <3>3
  <2> QED
    BY <1>1, <1>2, <1>5, <1>7, <2>1, <2>3, <2>5, DoneIsCalm
<1>8. CASE c.op = "edit" /\ d.state = "refused" /\ server' = server
  <2>1. \A z \in Zones : Held(z)' \subseteq Held(z)
    BY <1>1, <1>8 DEF Held, Pending
  <2>2. Apart' /\ Fits'
    BY <1>1, <1>8, <2>1, StaysApart, StaysFit
  <2>3. DialogFollows'
    BY <1>1, <1>2, <1>3, <1>8 DEF DialogFollows
  <2>4. SentAsShown' /\ DoneAsPromised' /\ StoredAsPromised'
    BY <1>2, <1>8 DEF SentAsShown, DoneAsPromised, StoredAsPromised
  <2> QED
    BY <2>2, <2>3, <2>4
<1>9. CASE c.op = "delete" /\ d.state = "done" /\ server' = {}
  <2>1. \A z \in Zones : Held(z)' \subseteq Held(z)
    BY <1>1, <1>9 DEF Held, Pending
  <2>2. Apart' /\ Fits'
    BY <1>1, <1>9, <2>1, StaysApart, StaysFit
  <2>3. DialogFollows' /\ SentAsShown' /\ DoneAsPromised' /\ StoredAsPromised'
    BY <1>2, <1>9 DEF DialogFollows, SentAsShown, DoneAsPromised, StoredAsPromised
  <2> QED
    BY <2>2, <2>3
<1> QED
  BY <1>2, <1>6, <1>7, <1>8, <1>9

LEMMA CalmStays ==
    ASSUME WholeInv, CalmInv, [EditorNext]_editorVars, calm'
    PROVE  CalmInv'
<1>1. ASSUME task' = task, server' = server, isOpen' = isOpen, zones' = zones, call' = call,
             uploads' = uploads, promised' = promised, picked' = picked
      PROVE  CalmInv'
  BY <1>1, CalmFrame
<1>2. CASE UNCHANGED editorVars
  BY <1>1, <1>2 DEF editorVars
<1>3. CASE Open \/ Close
  BY <1>3, OpenIsCalm, CloseIsCalm
<1>4. CASE Type
  <2>1. \E f, v : Change(f, v)
    BY <1>4, TypeIsChange
  <2> QED
    BY <1>1, <2>1 DEF Change, EditDialog, background
<1>5. CASE Submit \/ ServeCall
  BY <1>5, SubmitIsCalm, ServeIsCalm
<1>6. CASE AskDelete
  BY <1>1, <1>6 DEF AskDelete, background, history
<1>7. CASE Created \/ Updated
  BY <1>7, SaveReturnsIsCalm DEF Created, Updated
<1>8. CASE EventDeleted \/ CommunityDeleted
  BY <1>8, DeletedIsCalm DEF EventDeleted, CommunityDeleted
<1>9. CASE Refused
  BY <1>9, RefusedIsCalm
<1>10. ASSUME Lost PROVE FALSE
  BY <1>10 DEF Lost
<1>11. CASE \E z \in Zones : \/ \E p \in Pictures : AddFile(z, p)
                            \/ \E i \in 1..(MaxFiles + 1) : PreviewRead(z, i) \/ RemoveMedia(z, i)
  BY <1>11, AddFileIsCalm, PreviewIsCalm, RemoveIsCalm
<1>12. CASE \E yes \in BOOLEAN : AnswerDelete(yes)
  BY <1>12, AnswerDeleteIsCalm
<1>13. CASE \E u \in uploads : GetSignedUrl(u) \/ Put(u)
  BY <1>13, GetSignedUrlIsCalm, PutIsCalm
<1>14. ASSUME NEW u \in uploads, UploadLost(u) PROVE FALSE
  BY <1>14 DEF UploadLost
<1>15. CASE \E i \in DOMAIN polls : Poll(i)
  BY <1>1, <1>15 DEF Poll, screen, history
<1>16. CASE EntityRefetched
  <2>1. /\ task' = task /\ server' = server /\ isOpen' = isOpen /\ call' = call
        /\ uploads' = uploads /\ picked' = picked /\ promised' = promised /\ zones' = zones
    BY <1>16, EntityRefetchedIs DEF WholeInv
  <2> QED
    BY <1>1, <2>1
<1> QED
  BY <1>2, <1>3, <1>4, <1>5, <1>6, <1>7, <1>8, <1>9, <1>10, <1>11, <1>12, <1>13, <1>14, <1>15,
     <1>16 DEF EditorNext

\* Once something came between, it did.
LEMMA CalmIsOver == WholeInv /\ ~calm /\ [EditorNext]_editorVars => ~calm'
<1> SUFFICES ASSUME WholeInv, ~calm, [EditorNext]_editorVars PROVE ~calm'
  OBVIOUS
<1>1. CASE Type
  <2>1. \E f, v : Change(f, v)
    BY <1>1, TypeIsChange
  <2> QED
    BY <2>1 DEF Change
<1>2. CASE Created \/ Updated
  BY <1>2 DEF Created, Updated, SaveReturns, history
<1>3. CASE EventDeleted \/ CommunityDeleted
  BY <1>3 DEF EventDeleted, CommunityDeleted, Deleted
<1>4. CASE EntityRefetched
  BY <1>4, EntityRefetchedIs DEF WholeInv
<1>5. CASE ServeCall
  BY <1>5, ServeUnchanged
<1>6. CASE \E z \in Zones : \/ \E p \in Pictures : AddFile(z, p)
                           \/ \E i \in 1..(MaxFiles + 1) : PreviewRead(z, i) \/ RemoveMedia(z, i)
  BY <1>6 DEF AddFile, PreviewRead, RemoveMedia, history
<1>7. CASE \E u \in uploads : GetSignedUrl(u) \/ Put(u) \/ UploadLost(u)
  BY <1>7 DEF GetSignedUrl, Put, UploadLost, InBackground, history
<1>8. CASE Open \/ Close \/ Submit \/ AskDelete
  BY <1>8 DEF Open, Close, Submit, AskDelete, history
<1>9. CASE Refused \/ Lost
  BY <1>9 DEF Refused, Lost
<1>10. CASE \E yes \in BOOLEAN : AnswerDelete(yes)
  BY <1>10 DEF AnswerDelete, history
<1>11. CASE \E i \in DOMAIN polls : Poll(i)
  BY <1>11 DEF Poll, history
<1>12. CASE UNCHANGED editorVars
  BY <1>12 DEF editorVars
<1> QED
  BY <1>1, <1>2, <1>3, <1>4, <1>5, <1>6, <1>7, <1>8, <1>9, <1>10, <1>11, <1>12 DEF EditorNext

LEMMA CalmIsTrue == EditorInv => SavesAreTrue
<1> SUFFICES ASSUME EditorInv PROVE SavesAreTrue
  OBVIOUS
<1>1. OnlyRemovedIsDeleted /\ AtMostOneEntity(server)
  BY DEF EditorInv, WholeInv, EditorTypeOK
<1>2. ASSUME call = {}, uploads = {}, calm, NEW e \in server, NEW p \in promised, NEW z \in Zones
      PROVE  /\ e.form.description = p.form.description
             /\ ToSet(e.images[z]) = p.images[z] /\ Len(e.images[z]) <= 1
  <2>1. {u.picture : u \in Pending(z)} = {}
    BY <1>2 DEF Pending
  <2>2. /\ e.form.description = p.form.description
        /\ p.images[z] = ToSet(e.images[z]) \cup {u.picture : u \in Pending(z)}
    BY <1>2 DEF EditorInv, CalmInv, StoredAsPromised
  <2>3. Len(e.images[z]) <= 1
    BY <1>2 DEF EditorInv, CalmInv, Fits
  <2> QED
    BY <2>1, <2>2, <2>3
<1>3. ASSUME NEW e \in server PROVE The(server) = e
  BY <1>1, TheEntity
<1>4. \E z : z \in Zones
  BY DEF Zones, ZonesOf
<1>5. SavedIsShown
  BY <1>2, <1>3, <1>4 DEF SavedIsShown, AtRest, MaxFiles
<1> QED
  BY <1>1, <1>5 DEF SavesAreTrue

\* A save of the dialog of an event or a community that nothing came between stores the
\* text and the images that were on screen, one image per zone at most, once its uploads
\* are through; and whatever comes between, an image is deleted only if its removal was
\* clicked, and a stored event ends after it starts: handleSubmit, the media context of
\* the zones and the uploads, for any files, images and forms.
THEOREM SavesAreAlwaysTrue == EditorSpec => []SavesAreTrue
<1>1. EditorInit => EditorInv
  BY WholeStarts, CalmStarts DEF EditorInv
<1>2. EditorInv /\ [EditorNext]_editorVars => EditorInv'
  BY WholeStays, CalmStays, CalmIsOver DEF EditorInv
<1> QED
  BY <1>1, <1>2, CalmIsTrue, PTL DEF EditorSpec

-----------------------------------------------------------------------------
(* Lists: the digest splits opportunities into rows, and puts them together. *)
\* The recursion that FlattenSeq chooses a solution of has one.
LEMMA FlatExists ==
    ASSUME NEW S, NEW ss \in Seq(Seq(S)), NEW n \in Nat
    PROVE  \E g : g = [i \in 1 .. n |-> IF i = 1 THEN ss[i] ELSE g[i - 1] \o ss[i]]
<1> DEFINE Unfold(g, m) == [i \in 1 .. m |-> IF i = 1 THEN ss[i] ELSE g[i - 1] \o ss[i]]
           Bad == {m \in Nat : ~ \E g : g = Unfold(g, m)}
<1>1. SUFFICES ASSUME Bad # {}
               PROVE  FALSE
  BY <1>1
<1>2. PICK m \in Bad : \A k \in Bad : m <= k
  BY <1>1, LeastFails
<1>3. m # 0
  <2> DEFINE g == [i \in 1 .. 0 |-> ss[i]]
  <2>1. g = Unfold(g, 0)
    OBVIOUS
  <2> QED
    BY <2>1, <1>2
<1>4. m - 1 \in Nat /\ m - 1 \notin Bad
  <2>1. m \in Nat
    BY <1>2
  <2> HIDE DEF Bad
  <2> QED
    BY <2>1, <1>2, <1>3
<1>5. PICK g : g = Unfold(g, m - 1)
  BY <1>4
<1> DEFINE h == [i \in 1 .. m |-> IF i = 1 THEN ss[i] ELSE g[i - 1] \o ss[i]]
<1>6. \A i \in 1 .. m - 1 : h[i] = g[i]
  <2>1. \A i \in 1 .. m - 1 : g[i] = IF i = 1 THEN ss[i] ELSE g[i - 1] \o ss[i]
    BY <1>5
  <2> QED
    BY <2>1, <1>4
<1>7. h = Unfold(h, m)
  <2>1. \A i \in 1 .. m : h[i] = IF i = 1 THEN ss[i] ELSE g[i - 1] \o ss[i]
    OBVIOUS
  <2>2. h = [i \in 1 .. m |-> h[i]]
    OBVIOUS
  <2> HIDE DEF h
  <2>3. \A i \in 1 .. m : i # 1 => i - 1 \in 1 .. m - 1
    BY <1>4
  <2>4. \A i \in 1 .. m : i # 1 => h[i - 1] = g[i - 1]
    BY <1>6, <2>3
  <2>5. \A i \in 1 .. m : h[i] = IF i = 1 THEN ss[i] ELSE h[i - 1] \o ss[i]
    BY <2>1, <2>4
  <2> QED
    BY <2>2, <2>5
<1> QED
  BY <1>7, <1>2

\* ss.flat() has what its lists have, and nothing else.
LEMMA FlatHas ==
    ASSUME NEW S, NEW ss \in Seq(Seq(S))
    PROVE  /\ FlattenSeq(ss) \in Seq(S)
           /\ ToSet(FlattenSeq(ss)) = UNION {ToSet(ss[i]) : i \in DOMAIN ss}
<1> DEFINE n == Len(ss)
           g == CHOOSE h : h = [i \in 1 .. n |-> IF i = 1 THEN ss[i] ELSE h[i - 1] \o ss[i]]
           Holds(i) == /\ g[i] \in Seq(S)
                     /\ \A x : (\E k \in DOMAIN g[i] : g[i][k] = x)
                                <=> \E j \in 1 .. i : \E k \in DOMAIN ss[j] : ss[j][k] = x
           Bad == {i \in 1 .. n : ~Holds(i)}
<1>1. n \in Nat /\ DOMAIN ss = 1 .. n /\ \A i \in 1 .. n : ss[i] \in Seq(S)
  OBVIOUS
<1>2. FlattenSeq(ss) = IF n = 0 THEN ss ELSE g[n]
  BY DEF FlattenSeq
<1>3. g = [i \in 1 .. n |-> IF i = 1 THEN ss[i] ELSE g[i - 1] \o ss[i]]
  <2>1. n \in Nat
    BY <1>1
  <2> HIDE DEF n
  <2>2. \E h : h = [i \in 1 .. n |-> IF i = 1 THEN ss[i] ELSE h[i - 1] \o ss[i]]
    BY <2>1, FlatExists
  <2> QED
    BY <2>2
<1> HIDE DEF g, n
<1>4. \A i \in 1 .. n : g[i] = IF i = 1 THEN ss[i] ELSE g[i - 1] \o ss[i]
  BY <1>3
<1>5. ASSUME Bad # {}
      PROVE  FALSE
  <2>1. PICK i \in Bad : \A m \in Bad : i <= m
    <3>1. Bad \in SUBSET Nat
      OBVIOUS
    <3> HIDE DEF Bad
    <3> QED
      BY <3>1, <1>5, LeastFails
  <2>2. i \in 1 .. n
    BY <2>1
  <2>3. i # 1
    BY <1>1, <1>4, <2>1
  <2>4. i - 1 \in 1 .. n /\ i - 1 \notin Bad
    <3> HIDE DEF Bad
    <3> QED
      BY <1>1, <2>1, <2>2, <2>3
  <2>5. Holds(i - 1)
    BY <2>4
  <2>6. g[i] = g[i - 1] \o ss[i] /\ ss[i] \in Seq(S) /\ g[i - 1] \in Seq(S)
    BY <1>1, <1>4, <2>2, <2>3, <2>5
  <2> DEFINE a == g[i - 1]
             b == ss[i]
  <2>7. g[i] \in Seq(S)
    BY <2>6
  <2>8. \A x : (\E k \in DOMAIN g[i] : g[i][k] = x)
               <=> (\E k \in DOMAIN a : a[k] = x) \/ (\E k \in DOMAIN b : b[k] = x)
    <3>1. a \in Seq(S) /\ b \in Seq(S) /\ g[i] = a \o b
      BY <2>6
    <3> HIDE DEF a, b
    <3>2. /\ \A k \in DOMAIN a : k \in DOMAIN (a \o b) /\ (a \o b)[k] = a[k]
          /\ \A k \in DOMAIN b : Len(a) + k \in DOMAIN (a \o b) /\ (a \o b)[Len(a) + k] = b[k]
      BY <3>1
    <3>3. \A k \in DOMAIN (a \o b) : \/ k \in DOMAIN a /\ (a \o b)[k] = a[k]
                                     \/ k - Len(a) \in DOMAIN b /\ (a \o b)[k] = b[k - Len(a)]
      BY <3>1
    <3>4. ASSUME NEW x, NEW k \in DOMAIN (a \o b), (a \o b)[k] = x
          PROVE  (\E l \in DOMAIN a : a[l] = x) \/ (\E l \in DOMAIN b : b[l] = x)
      <4>1. CASE k \in DOMAIN a /\ (a \o b)[k] = a[k]
        BY <4>1, <3>4
      <4>2. CASE k - Len(a) \in DOMAIN b /\ (a \o b)[k] = b[k - Len(a)]
        BY <4>2, <3>4
      <4> QED
        BY <4>1, <4>2, <3>3
    <3>5. ASSUME NEW x, (\E l \in DOMAIN a : a[l] = x) \/ (\E l \in DOMAIN b : b[l] = x)
          PROVE  \E k \in DOMAIN (a \o b) : (a \o b)[k] = x
      <4>1. CASE \E l \in DOMAIN a : a[l] = x
        BY <4>1, <3>2
      <4>2. CASE \E l \in DOMAIN b : b[l] = x
        BY <4>2, <3>2
      <4> QED
        BY <4>1, <4>2, <3>5
    <3> QED
      BY <3>1, <3>4, <3>5
  <2>9. \A j : j \in 1 .. i <=> j \in 1 .. i - 1 \/ j = i
    BY <2>2, <2>4, <1>1
  <2>10. Holds(i)
    BY <2>5, <2>7, <2>8, <2>9
  <2> QED
    BY <2>1, <2>10
<1>6. CASE n = 0
  <2>1. FlattenSeq(ss) = <<>> /\ DOMAIN ss = {}
    BY <1>1, <1>2, <1>6 DEF n
  <2> QED
    BY <2>1 DEF ToSet
<1>7. CASE n # 0
  <2>1. n \in 1 .. n
    BY <1>1, <1>7
  <2>2. Holds(n)
    BY <1>5, <2>1
  <2> QED
    <3>1. FlattenSeq(ss) = g[n]
      BY <1>2, <1>7
    <3>2. ASSUME NEW x
          PROVE  x \in ToSet(g[n]) <=> x \in UNION {ToSet(ss[i]) : i \in 1 .. n}
      <4>1. x \in ToSet(g[n]) <=> \E k \in DOMAIN g[n] : g[n][k] = x
        BY DEF ToSet
      <4>2. x \in UNION {ToSet(ss[i]) : i \in 1 .. n}
              <=> \E j \in 1 .. n : \E k \in DOMAIN ss[j] : ss[j][k] = x
        BY DEF ToSet
      <4> QED
        BY <4>1, <4>2, <2>2
    <3> QED
      BY <1>1, <2>2, <3>1, <3>2
<1> QED
  BY <1>6, <1>7
-----------------------------------------------------------------------------
(* The digest. *)
CU == {"create", "update"}

\* The form of an opportunity: one type at most, no year that is none, no year for PhD, and
\* no deadline once it is marked as year-round.
FormOK(f) ==
    /\ DOMAIN f = {"text", "types", "majors", "levels", "years", "deadline", "yearRound"}
    /\ f.types = <<>> \/ f.types = <<f.types[1]>>
    /\ f.levels \in Seq(ToSet(Levels))
    /\ f.years \in [ToSet(Levels) -> Seq(Nat \ {0})]
    /\ PhD \in ToSet(Levels) => f.years[PhD] = <<>>
    /\ f.yearRound \in BOOLEAN /\ (f.yearRound => f.deadline = 0)
RowOK(r) == r.id \in Nat /\ WellSplit(r.elig)

\* What the cache lists under some filters was served for them.
CacheIsServed ==
    \A k \in DOMAIN cache :
        /\ "items" \in DOMAIN cache[k]
        /\ \A r \in cache[k].items : RowOK(r) /\ Matches(k, r) /\ (HasKeyword(k) => r.text = k.q)
RowsAreSplit == IsFiniteSet(rows) /\ \A r \in rows : RowOK(r)
\* What was not touched is what the card had.
FormIsOf ==
    /\ \A o \in editing : RowOK(o)
    /\ \A f \in oppForm : FormOK(f) /\ oppForm = {f}
    /\ touched \in BOOLEAN
    /\ ~touched => \A o \in editing, f \in oppForm : f = FormOf(o)
\* A call carries what its form showed, and once it is done the row is what it carried.
Saves(c) ==
    /\ \A f \in c.screen : /\ FormOK(f) /\ MaySubmit(f)
                           /\ c.screen = {f} /\ c.payload = {Payload(f)}
                           /\ ~c.touched => \A o \in c.listed : RowOK(o) /\ f = FormOf(o)
    /\ c.screen # {}
    /\ c.state = "done" => \A r \in rows, p \in c.payload : r.id = c.id => r = Row(c.id, p)
CallsAreSaves ==
    /\ \A c \in oppCalls :
        /\ DOMAIN c = {"op", "id", "payload", "screen", "listed", "touched", "state"}
        /\ c.op \in CU => Saves(c)
    /\ \A c, d \in oppCalls : c.op \in CU /\ d.op \in CU => c = d
OppInv == CacheIsServed /\ RowsAreSplit /\ FormIsOf /\ CallsAreSaves

\* A filtered list has the entries at the places kept.
LEMMA EntriesHave ==
    ASSUME NEW S, NEW s \in Seq(S), NEW I \in SUBSET DOMAIN s
    PROVE  Entries(s, I) \in Seq(S) /\ ToSet(Entries(s, I)) = {s[i] : i \in I}
<1>1. /\ Entries(s, I) \in Seq(S)
      /\ Len(Entries(s, I)) = Cardinality(I)
      /\ \A k \in DOMAIN Entries(s, I) :
           Kth(I, k) \in I /\ Entries(s, I)[k] = s[Kth(I, k)]
      /\ \A k, l \in DOMAIN Entries(s, I) : Kth(I, k) = Kth(I, l) => k = l
  BY EntriesKept
<1>2. \A i \in I : \E k \in DOMAIN Entries(s, I) : Kth(I, k) = i
  BY EntriesCover
<1>3. \A i \in I : \E k \in DOMAIN Entries(s, I) : Entries(s, I)[k] = s[i]
  BY <1>1, <1>2
<1>4. \A k \in DOMAIN Entries(s, I) : \E i \in I : Entries(s, I)[k] = s[i]
  BY <1>1
<1> QED
  BY <1>1, <1>3, <1>4 DEF ToSet

\* Whatever is in a list has a first place in it.
LEMMA FirstsCover ==
    ASSUME NEW S, NEW s \in Seq(S), NEW i \in DOMAIN s
    PROVE  \E k \in Firsts(s) : s[k] = s[i]
<1> DEFINE B == {k \in DOMAIN s : s[k] = s[i]}
<1>1. B \in SUBSET Nat /\ B # {} /\ B \in SUBSET DOMAIN s
  OBVIOUS
<1>2. PICK k \in B : \A j \in B : k <= j
  <2> HIDE DEF B
  <2> QED
    BY <1>1, LeastFails
<1>3. ASSUME NEW j \in DOMAIN s, j < k
      PROVE  s[j] # s[k]
  <2>1. j \in Nat /\ k \in Nat /\ j \notin B
    <3> HIDE DEF B
    <3> QED
      BY <1>1, <1>2, <1>3
  <2> QED
    BY <2>1, <1>2
<1> QED
  BY <1>2, <1>3 DEF Firsts

\* new Set: what was in the list, once.
LEMMA DistinctHas ==
    ASSUME NEW S, NEW s \in Seq(S)
    PROVE  Distinct(s) \in Seq(S) /\ ToSet(Distinct(s)) = ToSet(s)
<1>1. Firsts(s) \in SUBSET DOMAIN s
  BY DEF Firsts
<1>2. Entries(s, Firsts(s)) \in Seq(S) /\ ToSet(Entries(s, Firsts(s))) = {s[i] : i \in Firsts(s)}
  BY <1>1, EntriesHave
<1>3. \A i \in DOMAIN s : \E k \in Firsts(s) : s[k] = s[i]
  BY FirstsCover
<1> QED
  BY <1>1, <1>2, <1>3 DEF Distinct, ToSet

\* The years of a level are those it is listed with, and a level listed without has none.
LEMMA YearsOfHas ==
    ASSUME NEW elig, WellSplit(elig), NEW l
    PROVE  /\ YearsOf(elig, l) \in Seq(Nat \ {0})
           /\ ToSet(YearsOf(elig, l)) = {e[2] : e \in {x \in ToSet(elig) : x[1] = l /\ x[2] # 0}}
<1> DEFINE I == {i \in Firsts(elig) : elig[i][1] = l /\ elig[i][2] # 0}
           years == [i \in DOMAIN elig |-> elig[i][2]]
<1>1. elig \in Seq(ToSet(Levels) \X Nat)
  BY DEF WellSplit
<1>2. years \in Seq(Nat) /\ DOMAIN years = DOMAIN elig /\ I \in SUBSET DOMAIN elig
  BY <1>1 DEF Firsts
<1>3. Entries(years, I) \in Seq(Nat) /\ ToSet(Entries(years, I)) = {years[i] : i \in I}
  <2> HIDE DEF years, I
  <2> QED
    BY <1>2, EntriesHave
<1>4. YearsOf(elig, l) = Entries(years, I)
  BY DEF YearsOf
<1>5. {years[i] : i \in I} = {e[2] : e \in {x \in ToSet(elig) : x[1] = l /\ x[2] # 0}}
  <2>1. ASSUME NEW e \in ToSet(elig), e[1] = l, e[2] # 0
        PROVE  \E i \in I : years[i] = e[2]
    <3>1. PICK j \in DOMAIN elig : e = elig[j]
      BY DEF ToSet
    <3>2. PICK i \in Firsts(elig) : elig[i] = elig[j]
      BY <1>1, FirstsCover
    <3> QED
      BY <2>1, <3>1, <3>2 DEF Firsts
  <2>2. ASSUME NEW i \in I
        PROVE  elig[i] \in ToSet(elig) /\ elig[i][1] = l /\ elig[i][2] # 0 /\ years[i] = elig[i][2]
    BY <2>2 DEF ToSet, Firsts
  <2> DEFINE X == {x \in ToSet(elig) : x[1] = l /\ x[2] # 0}
  <2>3. \A e \in X : \E i \in I : years[i] = e[2]
    BY <2>1
  <2>4. \A i \in I : elig[i] \in X /\ years[i] = elig[i][2]
    BY <2>2
  <2> HIDE DEF I, years, X
  <2>5. {years[i] : i \in I} = {e[2] : e \in X}
    BY <2>3, <2>4
  <2> QED
    BY <2>5 DEF X
<1>6. \A n \in {years[i] : i \in I} : n # 0
  BY <1>2
<1>7. Entries(years, I) \in Seq(Nat \ {0})
  <2> DEFINE en == Entries(years, I)
  <2>1. en \in Seq(Nat) /\ \A k \in DOMAIN en : en[k] # 0
    <3>1. \A k \in DOMAIN en : en[k] \in ToSet(en)
      BY DEF ToSet
    <3> QED
      BY <1>3, <1>6, <3>1
  <2> HIDE DEF en
  <2>2. Len(en) \in Nat /\ en \in [1 .. Len(en) -> Nat \ {0}]
    BY <2>1
  <2>3. en \in Seq(Nat \ {0})
    BY <2>2, SeqDef
  <2> QED
    BY <2>3 DEF en
<1> QED
  BY <1>3, <1>4, <1>5, <1>7

\* Clicks in a list of options make a list of options.
LEMMA PicksAreLists ==
    ASSUME NEW S, NEW chosen \in Seq(S), NEW options \in Seq(S)
    PROVE  \A next \in Picks(chosen, options) : next \in Seq(S)
<1>1. ASSUME NEW o \in ToSet(options)
      PROVE  Toggled(chosen, o) \in Seq(S)
  <2>1. o \in S
    BY DEF ToSet
  <2>2. Entries(chosen, {i \in DOMAIN chosen : chosen[i] # o}) \in Seq(S)
    BY EntriesHave
  <2> QED
    BY <2>1, <2>2 DEF Toggled
<1>2. AllToggled(chosen, options) \in Seq(S)
  BY DEF AllToggled
<1> QED
  BY <1>1, <1>2 DEF Picks

\* The form of a stored opportunity is one that the dialog could show.
LEMMA FormOfOK ==
    ASSUME NEW o, RowOK(o)
    PROVE  FormOK(FormOf(o))
<1>1. /\ FormOf(o).text = o.text /\ FormOf(o).types = <<o.type>> /\ FormOf(o).majors = o.majors
      /\ FormOf(o).levels = [i \in DOMAIN o.elig |-> o.elig[i][1]]
      /\ FormOf(o).years = [l \in ToSet(Levels) |-> YearsOf(o.elig, l)]
      /\ FormOf(o).deadline = o.deadline /\ FormOf(o).yearRound = (o.deadline = 0)
  BY DEF FormOf
<1>2. DOMAIN FormOf(o) = {"text", "types", "majors", "levels", "years", "deadline", "yearRound"}
  BY DEF FormOf
<1>3. o.elig \in Seq(ToSet(Levels) \X Nat)
  BY DEF RowOK, WellSplit
<1>4. FormOf(o).levels \in Seq(ToSet(Levels))
  <2> DEFINE elig == o.elig
             ls == [i \in DOMAIN elig |-> elig[i][1]]
             L == ToSet(Levels)
  <2>1. elig \in Seq(L \X Nat)
    BY <1>3
  <2>2. FormOf(o).levels = ls
    BY <1>1
  <2> HIDE DEF elig, L
  <2>3. DOMAIN elig = 1 .. Len(elig) /\ Len(elig) \in Nat /\ \A i \in DOMAIN elig : elig[i][1] \in L
    BY <2>1
  <2>4. ls \in [1 .. Len(elig) -> L]
    BY <2>3
  <2> HIDE DEF ls
  <2>5. ls \in Seq(L)
    BY <2>3, <2>4, SeqDef
  <2> QED
    BY <2>2, <2>5 DEF L
<1>5. FormOf(o).years \in [ToSet(Levels) -> Seq(Nat \ {0})]
  <2>1. \A l \in ToSet(Levels) : YearsOf(o.elig, l) \in Seq(Nat \ {0})
    BY YearsOfHas DEF RowOK
  <2> QED
    BY <1>1, <2>1
<1>6. PhD \in ToSet(Levels) => FormOf(o).years[PhD] = <<>>
  <2>1. /\ YearsOf(o.elig, PhD) \in Seq(Nat \ {0})
        /\ ToSet(YearsOf(o.elig, PhD))
             = {e[2] : e \in {x \in ToSet(o.elig) : x[1] = PhD /\ x[2] # 0}}
    BY YearsOfHas DEF RowOK
  <2>2. \A e \in ToSet(o.elig) : e[1] = PhD => e[2] = 0
    BY DEF RowOK, WellSplit, ToSet
  <2>3. ToSet(YearsOf(o.elig, PhD)) = {}
    BY <2>1, <2>2
  <2>4. \A q \in Seq(Nat \ {0}) : ToSet(q) = {} => q = <<>>
    <3>1. ASSUME NEW q \in Seq(Nat \ {0}), ToSet(q) = {}
          PROVE  q = <<>>
      <4>1. \A i \in DOMAIN q : q[i] \in ToSet(q)
        BY DEF ToSet
      <4>2. DOMAIN q = 1 .. Len(q) /\ Len(q) \in Nat
        OBVIOUS
      <4>3. 1 \notin DOMAIN q
        BY <3>1, <4>1
      <4>4. Len(q) = 0
        BY <4>2, <4>3
      <4> QED
        BY <4>4
    <3> QED
      BY <3>1
  <2>5. YearsOf(o.elig, PhD) = <<>>
    BY <2>1, <2>3, <2>4
  <2> QED
    BY <1>1, <2>5
<1>7. FormOf(o).types = <<FormOf(o).types[1]>>
  BY <1>1
<1>8. FormOf(o).yearRound \in BOOLEAN /\ (FormOf(o).yearRound => FormOf(o).deadline = 0)
  BY <1>1
<1> QED
  BY <1>2, <1>4, <1>5, <1>6, <1>7, <1>8 DEF FormOK

\* The years that a form shows for a level.
YearsIn(f, l) == IF f.years[l] = <<>> THEN {0} ELSE ToSet(f.years[l])

\* A level is sent once for each of its years.
LEMMA SplitHas ==
    ASSUME NEW f, FormOK(f), NEW l \in ToSet(Levels)
    PROVE  /\ Split(f, l) \in Seq(ToSet(Levels) \X Nat)
           /\ ToSet(Split(f, l)) = {<<l, y>> : y \in YearsIn(f, l)}
<1>1. f.years[l] \in Seq(Nat \ {0}) /\ (l = PhD => f.years[l] = <<>>)
  BY DEF FormOK
<1>2. CASE f.years[l] = <<>>
  <2>1. Split(f, l) = <<<<l, 0>>>> /\ YearsIn(f, l) = {0}
    BY <1>2 DEF Split, YearsIn
  <2>2. <<l, 0>> \in ToSet(Levels) \X Nat
    OBVIOUS
  <2> QED
    BY <2>1, <2>2 DEF ToSet
<1>3. CASE f.years[l] # <<>>
  <2> DEFINE ys == f.years[l]
  <2>1. /\ Split(f, l) = [i \in DOMAIN ys |-> <<l, ys[i]>>]
        /\ YearsIn(f, l) = ToSet(ys) /\ ys \in Seq(Nat \ {0})
    BY <1>1, <1>3 DEF Split, YearsIn
  <2> HIDE DEF ys
  <2>2. Split(f, l) \in Seq(ToSet(Levels) \X Nat)
    BY <2>1
  <2>3. /\ DOMAIN Split(f, l) = DOMAIN ys /\ \A i \in DOMAIN ys : Split(f, l)[i] = <<l, ys[i]>>
        /\ \A y : y \in ToSet(ys) <=> \E i \in DOMAIN ys : y = ys[i]
    BY <2>1 DEF ToSet
  <2>4. ToSet(Split(f, l)) = {<<l, y>> : y \in ToSet(ys)}
    BY <2>3 DEF ToSet
  <2> QED
    BY <2>1, <2>2, <2>4
<1> QED
  BY <1>2, <1>3

LEMMA EligibilitiesHave ==
    ASSUME NEW f, FormOK(f)
    PROVE  /\ Eligibilities(f) \in Seq(ToSet(Levels) \X Nat)
           /\ \A e : e \in ToSet(Eligibilities(f))
                      <=> \E l \in ToSet(f.levels) : \E y \in YearsIn(f, l) : e = <<l, y>>
<1> DEFINE ss == [i \in DOMAIN f.levels |-> Split(f, f.levels[i])]
           P == ToSet(Levels) \X Nat
<1>1. f.levels \in Seq(ToSet(Levels))
  BY DEF FormOK
<1>2. \A i \in DOMAIN f.levels : f.levels[i] \in ToSet(Levels) /\ f.levels[i] \in ToSet(f.levels)
  BY <1>1 DEF ToSet
<1>3. \A i \in DOMAIN f.levels : /\ Split(f, f.levels[i]) \in Seq(P)
                                 /\ ToSet(Split(f, f.levels[i])) =
                                      {<<f.levels[i], y>> : y \in YearsIn(f, f.levels[i])}
  BY <1>2, SplitHas
<1>4. ss \in Seq(Seq(P)) /\ DOMAIN ss = DOMAIN f.levels
      /\ \A i \in DOMAIN ss : ss[i] = Split(f, f.levels[i])
  <2> HIDE DEF P
  <2> QED
    BY <1>1, <1>3
<1>5. FlattenSeq(ss) \in Seq(P) /\ ToSet(FlattenSeq(ss)) = UNION {ToSet(ss[i]) : i \in DOMAIN ss}
  <2> HIDE DEF ss, P
  <2> QED
    BY <1>4, FlatHas
<1>6. Eligibilities(f) = FlattenSeq(ss)
  BY DEF Eligibilities
<1> HIDE DEF ss
<1>7. ASSUME NEW e
      PROVE  e \in ToSet(Eligibilities(f))
               <=> \E l \in ToSet(f.levels) : \E y \in YearsIn(f, l) : e = <<l, y>>
  <2>1. e \in ToSet(Eligibilities(f))
          <=> \E i \in DOMAIN f.levels : e \in ToSet(Split(f, f.levels[i]))
    BY <1>4, <1>5, <1>6
  <2>2. e \in ToSet(Eligibilities(f))
          <=> \E i \in DOMAIN f.levels : \E y \in YearsIn(f, f.levels[i]) : e = <<f.levels[i], y>>
    BY <2>1, <1>3
  <2> QED
    BY <2>2 DEF ToSet
<1> QED
  BY <1>5, <1>6, <1>7

\* The row of a payload.
LEMMA RowOf ==
    ASSUME NEW f, NEW id
    PROVE  /\ Row(id, Payload(f)).id = id /\ Row(id, Payload(f)).text = f.text
           /\ Row(id, Payload(f)).type = f.types[1] /\ Row(id, Payload(f)).majors = f.majors
           /\ Row(id, Payload(f)).elig = Eligibilities(f)
           /\ Row(id, Payload(f)).deadline = IF f.yearRound THEN 0 ELSE f.deadline
BY DEF Row, Payload

LEMMA SomeYear ==
    ASSUME NEW f, FormOK(f), NEW l \in ToSet(Levels)
    PROVE  YearsIn(f, l) # {} /\ YearsIn(f, l) \subseteq Nat
           /\ (YearsIn(f, l) = {0} \/ 0 \notin YearsIn(f, l)) /\ (l = PhD => YearsIn(f, l) = {0})
<1> DEFINE ys == f.years[l]
<1>1. ys \in Seq(Nat \ {0}) /\ (l = PhD => ys = <<>>)
  BY DEF FormOK
<1>2. YearsIn(f, l) = IF ys = <<>> THEN {0} ELSE ToSet(ys)
  BY DEF YearsIn
<1> HIDE DEF ys
<1>3. \A i \in DOMAIN ys : ys[i] \in Nat /\ ys[i] # 0
  BY <1>1
<1>4. ToSet(ys) \subseteq Nat /\ 0 \notin ToSet(ys)
  BY <1>3 DEF ToSet
<1>5. ys # <<>> => ToSet(ys) # {}
  <2>1. ys # <<>> => 1 \in DOMAIN ys
    BY <1>1
  <2> QED
    BY <2>1 DEF ToSet
<1> QED
  BY <1>1, <1>2, <1>4, <1>5

\* What a form sends is split as the page splits it.
LEMMA SentIsSplit ==
    ASSUME NEW f, FormOK(f)
    PROVE  WellSplit(Eligibilities(f))
<1> DEFINE elig == Eligibilities(f)
<1>1. /\ elig \in Seq(ToSet(Levels) \X Nat)
      /\ \A e : e \in ToSet(elig)
                 <=> \E l \in ToSet(f.levels) : \E y \in YearsIn(f, l) : e = <<l, y>>
  BY EligibilitiesHave
<1>2. ToSet(f.levels) \subseteq ToSet(Levels)
  <2>1. \A i \in DOMAIN f.levels : f.levels[i] \in ToSet(Levels)
    BY DEF FormOK
  <2> QED
    BY <2>1 DEF ToSet
<1> HIDE DEF elig
<1>3. ASSUME NEW i \in DOMAIN elig
      PROVE  elig[i][1] \in ToSet(Levels) /\ elig[i][2] \in YearsIn(f, elig[i][1])
  <2>1. elig[i] \in ToSet(elig)
    BY DEF ToSet
  <2>2. PICK l \in ToSet(f.levels) : \E y \in YearsIn(f, l) : elig[i] = <<l, y>>
    BY <1>1, <2>1
  <2> QED
    BY <1>2, <2>2
<1>4. \A i \in DOMAIN elig : elig[i][1] = PhD => elig[i][2] = 0
  BY <1>3, SomeYear
<1>5. ASSUME NEW i \in DOMAIN elig, NEW j \in DOMAIN elig, elig[i][1] = elig[j][1], elig[i][2] = 0
      PROVE  elig[j][2] = 0
  <2>1. YearsIn(f, elig[i][1]) = {0}
    BY <1>3, <1>5, SomeYear
  <2> QED
    BY <1>3, <1>5, <2>1
<1>6. WellSplit(elig)
  BY <1>1, <1>4, <1>5 DEF WellSplit
<1> QED
  BY <1>6 DEF elig

\* What is stored from a form is what it showed.
LEMMA StoredShows ==
    ASSUME NEW f, FormOK(f), MaySubmit(f), NEW id
    PROVE  ShowsOf(Row(id, Payload(f)), f)
<1> DEFINE r == Row(id, Payload(f))
           elig == Eligibilities(f)
<1>1. /\ r.text = f.text /\ r.type = f.types[1] /\ r.majors = f.majors /\ r.elig = elig
      /\ r.deadline = IF f.yearRound THEN 0 ELSE f.deadline
  BY RowOf
<1>2. f.types = <<r.type>>
  BY <1>1 DEF FormOK, MaySubmit
<1>3. r.deadline = f.deadline /\ (r.deadline = 0) = f.yearRound
  <2>1. f.yearRound \in BOOLEAN /\ (f.yearRound => f.deadline = 0)
        /\ (f.yearRound \/ f.deadline # 0)
    BY DEF FormOK, MaySubmit
  <2>2. CASE f.yearRound
    BY <1>1, <2>1, <2>2
  <2>3. CASE ~f.yearRound
    BY <1>1, <2>1, <2>3
  <2> QED
    BY <2>2, <2>3
<1> HIDE DEF r
<1>4. \A e : e \in ToSet(elig) <=> \E l \in ToSet(f.levels) : \E y \in YearsIn(f, l) : e = <<l, y>>
  BY EligibilitiesHave
<1>5. ToSet(f.levels) \subseteq ToSet(Levels)
  <2>1. \A i \in DOMAIN f.levels : f.levels[i] \in ToSet(Levels)
    BY DEF FormOK
  <2> QED
    BY <2>1 DEF ToSet
<1>6. \A l \in ToSet(f.levels) : YearsIn(f, l) # {}
  BY <1>5, SomeYear
<1> HIDE DEF elig
<1>7. {e[1] : e \in ToSet(elig)} = ToSet(f.levels)
  <2>1. ASSUME NEW e \in ToSet(elig)
        PROVE  e[1] \in ToSet(f.levels)
    <3>1. PICK l \in ToSet(f.levels) : \E y \in YearsIn(f, l) : e = <<l, y>>
      BY <1>4
    <3> QED
      BY <3>1
  <2>2. ASSUME NEW l \in ToSet(f.levels)
        PROVE  \E e \in ToSet(elig) : e[1] = l
    <3>1. PICK y : y \in YearsIn(f, l)
      BY <1>6
    <3>2. <<l, y>> \in ToSet(elig) /\ <<l, y>>[1] = l
      BY <1>4, <3>1
    <3> QED
      BY <3>2
  <2> QED
    BY <2>1, <2>2
<1>8. ASSUME NEW l \in ToSet(f.levels)
      PROVE  {e[2] : e \in {x \in ToSet(elig) : x[1] = l}} = YearsIn(f, l)
  <2> DEFINE X == {x \in ToSet(elig) : x[1] = l}
  <2>1. ASSUME NEW e \in X
        PROVE  e[2] \in YearsIn(f, l)
    <3>1. e \in ToSet(elig) /\ e[1] = l
      OBVIOUS
    <3>2. PICK k \in ToSet(f.levels) : \E y \in YearsIn(f, k) : e = <<k, y>>
      BY <1>4, <3>1
    <3> QED
      BY <3>1, <3>2
  <2>2. ASSUME NEW y \in YearsIn(f, l)
        PROVE  \E e \in X : e[2] = y
    <3>1. <<l, y>> \in ToSet(elig) /\ <<l, y>>[1] = l /\ <<l, y>>[2] = y
      BY <1>4
    <3> QED
      BY <3>1
  <2> HIDE DEF X
  <2>3. {e[2] : e \in X} = YearsIn(f, l)
    BY <2>1, <2>2
  <2> QED
    BY <2>3 DEF X
<1>9. ShowsOf(r, f)
  BY <1>1, <1>2, <1>3, <1>7, <1>8 DEF ShowsOf, YearsIn
<1> QED
  BY <1>9 DEF r

\* What is stored from an untouched form is what the card had.
LEMMA UntouchedSame ==
    ASSUME NEW o, RowOK(o), NEW id
    PROVE  Same(Row(id, Payload(FormOf(o))), o)
<1> DEFINE f == FormOf(o)
           r == Row(id, Payload(f))
           elig == o.elig
<1>1. /\ r.text = f.text /\ r.type = f.types[1] /\ r.majors = f.majors /\ r.elig = Eligibilities(f)
      /\ r.deadline = IF f.yearRound THEN 0 ELSE f.deadline
  BY RowOf
<1>2. /\ f.text = o.text /\ f.types = <<o.type>> /\ f.majors = o.majors
      /\ f.levels = [i \in DOMAIN elig |-> elig[i][1]]
      /\ f.years = [l \in ToSet(Levels) |-> YearsOf(elig, l)]
      /\ f.deadline = o.deadline /\ f.yearRound = (o.deadline = 0)
  BY DEF FormOf
<1>3. FormOK(f)
  BY FormOfOK
<1> HIDE DEF r, f
<1>4. r.deadline = o.deadline
  BY <1>1, <1>2
<1>5. \A e : e \in ToSet(r.elig)
              <=> \E l \in ToSet(f.levels) : \E y \in YearsIn(f, l) : e = <<l, y>>
  BY <1>1, <1>3, EligibilitiesHave
<1>6. elig \in Seq(ToSet(Levels) \X Nat) /\ WellSplit(elig)
  BY DEF RowOK, WellSplit
<1> HIDE DEF elig
<1>7. \A l : l \in ToSet(f.levels) <=> \E e \in ToSet(elig) : e[1] = l
  BY <1>2 DEF ToSet
<1>8. \A e \in ToSet(elig) : e[1] \in ToSet(Levels) /\ e[2] \in Nat /\ e = <<e[1], e[2]>>
  <2>1. \A i \in DOMAIN elig : elig[i] \in ToSet(Levels) \X Nat
    BY <1>6
  <2> QED
    BY <2>1 DEF ToSet
<1>9. \A e, d \in ToSet(elig) : e[1] = d[1] /\ e[2] = 0 => d[2] = 0
  BY <1>6 DEF WellSplit, ToSet
<1>10. ASSUME NEW l \in ToSet(f.levels)
       PROVE  \A y : y \in YearsIn(f, l) <=> \E e \in ToSet(elig) : e[1] = l /\ e[2] = y
  <2>1. PICK d \in ToSet(elig) : d[1] = l
    BY <1>7
  <2>2. l \in ToSet(Levels)
    BY <1>8, <2>1
  <2> DEFINE X == {x \in ToSet(elig) : x[1] = l /\ x[2] # 0}
             ys == f.years[l]
  <2>3. ys = YearsOf(elig, l)
    BY <1>2, <2>2
  <2>4. ys \in Seq(Nat \ {0}) /\ ToSet(ys) = {e[2] : e \in X}
    BY <1>6, <2>3, YearsOfHas
  <2>5. YearsIn(f, l) = IF ys = <<>> THEN {0} ELSE ToSet(ys)
    BY DEF YearsIn
  <2> HIDE DEF ys
  <2>6. ys = <<>> <=> X = {}
    <3>1. ys # <<>> => 1 \in DOMAIN ys
      BY <2>4
    <3>2. ys # <<>> => ToSet(ys) # {}
      BY <3>1 DEF ToSet
    <3>3. ys = <<>> => ToSet(ys) = {}
      BY DEF ToSet
    <3> HIDE DEF X
    <3> QED
      BY <2>4, <3>2, <3>3
  <2>7. CASE X = {}
    <3>1. YearsIn(f, l) = {0}
      BY <2>5, <2>6, <2>7
    <3>2. \A e \in ToSet(elig) : e[1] = l => e[2] = 0
      BY <2>7
    <3> QED
      BY <2>1, <3>1, <3>2
  <2>8. CASE X # {}
    <3>1. YearsIn(f, l) = {e[2] : e \in X}
      BY <2>4, <2>5, <2>6, <2>8
    <3>2. \A e \in ToSet(elig) : e[1] = l => e \in X
      BY <1>9, <2>8
    <3>3. \A e \in X : e \in ToSet(elig) /\ e[1] = l
      OBVIOUS
    <3> HIDE DEF X
    <3> QED
      BY <3>1, <3>2, <3>3
  <2> QED
    BY <2>7, <2>8
<1>11. ToSet(r.elig) = ToSet(elig)
  <2>1. ASSUME NEW e
        PROVE  e \in ToSet(r.elig) <=> e \in ToSet(elig)
    <3>1. ASSUME e \in ToSet(r.elig)
          PROVE  e \in ToSet(elig)
      <4>1. PICK l \in ToSet(f.levels) : \E y \in YearsIn(f, l) : e = <<l, y>>
        BY <1>5, <3>1
      <4>2. PICK y \in YearsIn(f, l) : e = <<l, y>>
        BY <4>1
      <4>3. PICK d \in ToSet(elig) : d[1] = l /\ d[2] = y
        BY <1>10, <4>2
      <4> QED
        BY <1>8, <4>2, <4>3
    <3>2. ASSUME e \in ToSet(elig)
          PROVE  e \in ToSet(r.elig)
      <4>1. e[1] \in ToSet(f.levels)
        BY <1>7, <3>2
      <4>2. e[2] \in YearsIn(f, e[1])
        BY <1>10, <3>2, <4>1
      <4>3. e = <<e[1], e[2]>>
        BY <1>8, <3>2
      <4> QED
        BY <1>5, <4>1, <4>2, <4>3
    <3> QED
      BY <3>1, <3>2
  <2> QED
    BY <2>1
<1>12. Same(r, o)
  BY <1>1, <1>2, <1>4, <1>11 DEF Same, elig
<1> QED
  BY <1>12 DEF r, f

LEMMA OppInitKeeps ==
    ASSUME OppInit
    PROVE  OppInv
<1>1. CacheIsServed
  BY DEF OppInit, CacheIsServed
<1>2. RowsAreSplit
  BY OppAssumption DEF OppInit, RowsAreSplit, RowOK
<1>3. FormIsOf
  BY DEF OppInit, FormIsOf
<1>4. CallsAreSaves
  BY DEF OppInit, CallsAreSaves
<1> QED
  BY <1>1, <1>2, <1>3, <1>4 DEF OppInv

\* A step that leaves a part of the state alone keeps what is said of it.
LEMMA SameForm ==
    ASSUME FormIsOf, UNCHANGED <<editing, oppForm, touched>>
    PROVE  FormIsOf'
BY DEF FormIsOf

LEMMA FewerCalls ==
    ASSUME CallsAreSaves, oppCalls' \subseteq oppCalls, rows' \subseteq rows
    PROVE  CallsAreSaves'
<1>1. \A c \in oppCalls : Saves(c) => Saves(c)'
  BY DEF Saves
<1> QED
  BY <1>1 DEF CallsAreSaves

\* A page that arrives was served for the filters it was asked with.
LEMMA PageIsServed ==
    ASSUME RowsAreSplit, CacheIsServed, NEW key, OppPageArrives(key)
    PROVE  CacheIsServed'
<1> DEFINE served == ServedPage(key, Old(key).pages + 1)
           entry == [pages |-> Old(key).pages + 1, items |-> Old(key).items \cup served.items,
                     hasNext |-> served.hasNext,
                     total |-> IF Old(key).pages = 0 THEN served.total ELSE Old(key).total,
                     failed |-> FALSE]
           Suits(k, r) == RowOK(r) /\ Matches(k, r) /\ (HasKeyword(k) => r.text = k.q)
<1>1. cache' = [k \in DOMAIN cache \cup {key} |-> IF k = key THEN entry ELSE cache[k]]
  BY DEF OppPageArrives, Keep
<1>2. \A r \in served.items : r \in rows /\ Matches(key, r) /\ (HasKeyword(key) => r.text = key.q)
  BY DEF ServedPage, Slice, Found
<1>3. \A r \in Old(key).items : Suits(key, r)
  BY DEF Old, Nothing, CacheIsServed
<1>4. "items" \in DOMAIN entry /\ entry.items = Old(key).items \cup served.items
  OBVIOUS
<1> HIDE DEF entry, served
<1>5. \A r \in entry.items : Suits(key, r)
  BY <1>2, <1>3, <1>4 DEF RowsAreSplit
<1> QED
  BY <1>1, <1>4, <1>5 DEF CacheIsServed

LEMMA LossIsServed ==
    ASSUME CacheIsServed, NEW key, PageFails(key)
    PROVE  CacheIsServed'
<1> DEFINE entry == [Old(key) EXCEPT !.failed = TRUE]
<1>1. cache' = [k \in DOMAIN cache \cup {key} |-> IF k = key THEN entry ELSE cache[k]]
  BY DEF PageFails, Keep
<1>2. CASE key \in DOMAIN cache
  <2>1. entry = [cache[key] EXCEPT !.failed = TRUE]
    BY <1>2 DEF Old
  <2>2. "items" \in DOMAIN entry /\ entry.items = cache[key].items
    BY <1>2, <2>1 DEF CacheIsServed
  <2> HIDE DEF entry
  <2> QED
    BY <1>1, <1>2, <2>2 DEF CacheIsServed
<1>3. CASE key \notin DOMAIN cache
  <2>1. entry = [Nothing EXCEPT !.failed = TRUE]
    BY <1>3 DEF Old
  <2>2. "items" \in DOMAIN entry /\ entry.items = {}
    BY <2>1 DEF Nothing
  <2> HIDE DEF entry
  <2> QED
    BY <1>1, <1>3, <2>2 DEF CacheIsServed
<1> QED
  BY <1>2, <1>3

\* The dialog opens empty, or with what a card has.
LEMMA OpensAsListed ==
    ASSUME NEW opportunity, opportunity = {} \/ \E o : opportunity = {o} /\ RowOK(o),
           Opens(opportunity)
    PROVE  FormIsOf'
<1>1. editing' = opportunity /\ touched' = FALSE
      /\ oppForm' = IF opportunity = {} THEN {EmptyOpportunity} ELSE {FormOf(o) : o \in opportunity}
  BY DEF Opens
<1>2. CASE opportunity = {}
  <2>1. FormOK(EmptyOpportunity)
    BY DEF FormOK, EmptyOpportunity
  <2> QED
    BY <1>1, <1>2, <2>1 DEF FormIsOf
<1>3. CASE \E o : opportunity = {o} /\ RowOK(o)
  <2>1. PICK o : opportunity = {o} /\ RowOK(o)
    BY <1>3
  <2>2. oppForm' = {FormOf(o)} /\ editing' = {o}
    BY <1>1, <2>1
  <2>3. FormOK(FormOf(o))
    BY <2>1, FormOfOK
  <2> QED
    BY <1>1, <2>1, <2>2, <2>3 DEF FormIsOf
<1> QED
  BY <1>2, <1>3

LEMMA ShutKeeps ==
    ASSUME FormIsOf, Shut, editing' \subseteq editing
    PROVE  FormIsOf'
BY DEF FormIsOf, Shut

\* Each field of the form stays of its kind.
LEMMA ChangeKeeps ==
    ASSUME FormIsOf, NEW g, FormOK(g), OppChange(g)
    PROVE  FormIsOf'
BY DEF FormIsOf, OppChange

LEMMA TypedOK ==
    ASSUME NEW f, FormOK(f), NEW text
    PROVE  FormOK([f EXCEPT !.text = text])
BY DEF FormOK

LEMMA TypePickedOK ==
    ASSUME NEW f, FormOK(f), NEW next
    PROVE  FormOK([f EXCEPT !.types = IF next = <<>> THEN <<>> ELSE <<next[Len(next)]>>])
BY DEF FormOK

LEMMA MajorsPickedOK ==
    ASSUME NEW f, FormOK(f), NEW next
    PROVE  FormOK([f EXCEPT !.majors = next])
BY DEF FormOK

LEMMA LevelsPickedOK ==
    ASSUME NEW f, FormOK(f), NEW next \in Picks(f.levels, Levels)
    PROVE  FormOK([f EXCEPT !.levels = Distinct(next),
                            !.years = [l \in DOMAIN @ |-> IF Contains(next, l) /\ l # PhD THEN @[l]
                                                         ELSE <<>>]])
<1> DEFINE ys == [l \in DOMAIN f.years |->
                    IF Contains(next, l) /\ l # PhD THEN f.years[l] ELSE <<>>]
           ls == Distinct(next)
<1>1. next \in Seq(ToSet(Levels))
  BY PicksAreLists, OppAssumption DEF FormOK
<1>2. ls \in Seq(ToSet(Levels))
  BY <1>1, DistinctHas
<1>3. ys \in [ToSet(Levels) -> Seq(Nat \ {0})] /\ (PhD \in ToSet(Levels) => ys[PhD] = <<>>)
  BY DEF FormOK
<1> HIDE DEF ys, ls
<1>4. FormOK([f EXCEPT !.levels = ls, !.years = ys])
  BY <1>2, <1>3 DEF FormOK
<1> QED
  BY <1>4 DEF ys, ls

LEMMA YearsPickedOK ==
    ASSUME NEW f, FormOK(f), NEW l \in ToSet(Levels), l # PhD,
           NEW next \in Picks(f.years[l], [y \in Years |-> y])
    PROVE  FormOK([f EXCEPT !.years[l] = next])
<1>1. [y \in Years |-> y] \in Seq(Nat \ {0})
  <2>1. [y \in Years |-> y] \in [1 .. LastYear -> Nat \ {0}] /\ LastYear \in Nat
    BY OppAssumption DEF Years
  <2> QED
    BY <2>1, SeqDef
<1>2. f.years[l] \in Seq(Nat \ {0})
  BY DEF FormOK
<1>3. next \in Seq(Nat \ {0})
  BY <1>1, <1>2, PicksAreLists
<1> QED
  BY <1>3 DEF FormOK

LEMMA YearRoundOK ==
    ASSUME NEW f, FormOK(f)
    PROVE  FormOK([f EXCEPT !.yearRound = ~@, !.deadline = IF f.yearRound THEN @ ELSE 0])
BY DEF FormOK

LEMMA DatePickedOK ==
    ASSUME NEW f, FormOK(f), ~f.yearRound, NEW day
    PROVE  FormOK([f EXCEPT !.deadline = day])
BY DEF FormOK

\* A save carries what the dialog shows.
LEMMA SubmitKeeps ==
    ASSUME CallsAreSaves, FormIsOf, NEW f \in oppForm, SubmitOpportunity(f)
    PROVE  CallsAreSaves'
<1>1. rows' = rows /\ ~IsSubmitting /\ MaySubmit(f)
  BY DEF SubmitOpportunity, OppSent, tables
<1>2. PICK d : /\ oppCalls' = oppCalls \cup {d}
               /\ DOMAIN d = {"op", "id", "payload", "screen", "listed", "touched", "state"}
               /\ d.payload = {Payload(f)} /\ d.screen = oppForm /\ d.listed = editing
               /\ d.touched = touched /\ d.state = "sent"
  <2> DEFINE e == [op |-> IF editing = {} THEN "create" ELSE "update",
                   id |-> IF editing = {} THEN 0 ELSE (CHOOSE o \in editing : TRUE).id,
                   payload |-> {Payload(f)}, screen |-> oppForm,
                   listed |-> editing, touched |-> touched, state |-> "sent"]
  <2>1. oppCalls' = oppCalls \cup {e}
    BY DEF SubmitOpportunity, OppSent
  <2>2. /\ DOMAIN e = {"op", "id", "payload", "screen", "listed", "touched", "state"}
        /\ e.payload = {Payload(f)} /\ e.screen = oppForm /\ e.listed = editing
        /\ e.touched = touched /\ e.state = "sent"
    OBVIOUS
  <2> HIDE DEF e
  <2> QED
    BY <2>1, <2>2
<1>3. FormOK(f) /\ oppForm = {f} /\ (~touched => \A o \in editing : RowOK(o) /\ f = FormOf(o))
  BY DEF FormIsOf
<1>4. Saves(d)'
  <2>1. d.screen = {f} /\ FormOK(f) /\ MaySubmit(f) /\ d.payload = {Payload(f)}
        /\ (~d.touched => \A o \in d.listed : RowOK(o) /\ f = FormOf(o))
    BY <1>1, <1>2, <1>3
  <2>2. d.state # "done"
    BY <1>2
  <2> QED
    BY <2>1, <2>2 DEF Saves
<1>5. \A c \in oppCalls : c.op \notin CU
  BY <1>1 DEF IsSubmitting, CU
<1>6. \A c, e \in oppCalls' : c.op \in CU /\ e.op \in CU => c = e
  BY <1>2, <1>5
<1>7. \A c \in oppCalls' :
        /\ DOMAIN c = {"op", "id", "payload", "screen", "listed", "touched", "state"}
        /\ (c.op \in CU => Saves(c)')
  <2>1. \A c \in oppCalls :
            DOMAIN c = {"op", "id", "payload", "screen", "listed", "touched", "state"}
    BY DEF CallsAreSaves
  <2> QED
    BY <1>1, <1>2, <1>4, <1>5, <2>1
<1> QED
  BY <1>6, <1>7 DEF CallsAreSaves

LEMMA OtherCallKeeps ==
    ASSUME CallsAreSaves, NEW op, op \notin CU, NEW id, OppSent(op, id, {}), rows' = rows
    PROVE  CallsAreSaves'
<1> DEFINE d == [op |-> op, id |-> id, payload |-> {}, screen |-> oppForm,
                 listed |-> editing, touched |-> touched, state |-> "sent"]
<1>1. oppCalls' = oppCalls \cup {d}
  BY DEF OppSent
<1>2. DOMAIN d = {"op", "id", "payload", "screen", "listed", "touched", "state"} /\ d.op \notin CU
  OBVIOUS
<1> HIDE DEF d
<1>3. \A c \in oppCalls : Saves(c) => Saves(c)'
  BY DEF Saves
<1> QED
  BY <1>1, <1>2, <1>3 DEF CallsAreSaves

\* An answer: a save that is done has its row, and nothing else changes a row but a save.
LEMMA ReplyKeeps ==
    ASSUME CallsAreSaves, NEW c \in oppCalls, NEW id, NEW state, Reply(c, id, state),
           c.op \in CU /\ state = "done" =>
               \A r \in rows', p \in c.payload : r.id = id => r = Row(id, p),
           c.op \notin CU => rows' \subseteq rows
    PROVE  CallsAreSaves'
<1> DEFINE d == [c EXCEPT !.id = id, !.state = state]
<1>1. oppCalls' = (oppCalls \ {c}) \cup {d}
  BY DEF Reply
<1>2. DOMAIN c = {"op", "id", "payload", "screen", "listed", "touched", "state"}
  BY DEF CallsAreSaves
<1>3. /\ DOMAIN d = {"op", "id", "payload", "screen", "listed", "touched", "state"}
      /\ d.op = c.op /\ d.id = id /\ d.payload = c.payload /\ d.screen = c.screen
      /\ d.listed = c.listed /\ d.touched = c.touched /\ d.state = state
  BY <1>2
<1> HIDE DEF d
<1>4. d.op \in CU => Saves(d)'
  <2>1. c.op \in CU => Saves(c)
    BY DEF CallsAreSaves
  <2> QED
    BY <1>3, <2>1 DEF Saves
<1>5. \A e \in oppCalls \ {c} : e.op \in CU => c.op \notin CU
  BY DEF CallsAreSaves
<1>6. \A e \in oppCalls \ {c} : e.op \in CU => Saves(e)'
  <2>1. \A e \in oppCalls : e.op \in CU => Saves(e)
    BY DEF CallsAreSaves
  <2>2. rows' \subseteq rows => \A e \in oppCalls : Saves(e) => Saves(e)'
    BY DEF Saves
  <2> QED
    BY <1>5, <2>1, <2>2
<1>7. \A e \in oppCalls' :
        /\ DOMAIN e = {"op", "id", "payload", "screen", "listed", "touched", "state"}
        /\ (e.op \in CU => Saves(e)')
  BY <1>1, <1>3, <1>4, <1>6 DEF CallsAreSaves
<1>8. \A e, g \in oppCalls' : e.op \in CU /\ g.op \in CU => e = g
  BY <1>1, <1>3, <1>5 DEF CallsAreSaves
<1> QED
  BY <1>7, <1>8 DEF CallsAreSaves

\* The service gives out an id that no row has.
LEMMA NextIsNew ==
    ASSUME RowsAreSplit
    PROVE  NextId \in Nat /\ \A r \in rows : r.id < NextId
<1> DEFINE ids == {r.id : r \in rows}
           J == {0} \cup ids
<1>1. IsFiniteSet(ids)
  <2>1. IsFiniteSet(rows)
    BY DEF RowsAreSplit
  <2> DEFINE F == [r \in rows |-> r.id]
  <2>2. F \in Surjection(rows, ids)
    BY DEF Surjection
  <2> QED
    BY <2>1, <2>2, FS_Surjection
<1>2. J \in SUBSET Int /\ J # {} /\ 0 \in J /\ \A r \in rows : r.id \in J
  BY DEF RowsAreSplit, RowOK
<1>3. IsFiniteSet(J)
  BY <1>1, FS_Singleton, FS_Union
<1> HIDE DEF J
<1>4. \E m \in J : \A j \in J : j <= m
  BY <1>2, <1>3, GreatestExists
<1>5. \E m \in J : \A j \in J : m >= j
  BY <1>2, <1>4
<1>6. Max(J) \in J /\ \A j \in J : Max(J) >= j
  BY <1>5 DEF Max
<1>7. NextId = 1 + Max(J)
  BY DEF NextId, J
<1>8. PICK m \in Int : m = Max(J)
  BY <1>2, <1>6
<1>9. m >= 0 /\ \A r \in rows : m >= r.id
  BY <1>2, <1>6, <1>8
<1>10. \A r \in rows : r.id \in Nat
  BY DEF RowsAreSplit, RowOK
<1>11. NextId = 1 + m
  BY <1>7, <1>8
<1> QED
  BY <1>9, <1>10, <1>11

LEMMA OppServeKeeps ==
    ASSUME CallsAreSaves, RowsAreSplit, NEW c \in oppCalls, OppServe(c)
    PROVE  CallsAreSaves' /\ RowsAreSplit'
<1> DEFINE found == {r \in rows : r.id = c.id}
<1>1. IsFiniteSet(rows) /\ \A r \in rows : RowOK(r)
  BY DEF RowsAreSplit
<1>2. ASSUME rows' \subseteq rows
      PROVE  RowsAreSplit'
  BY <1>1, <1>2, FS_Subset DEF RowsAreSplit
<1>3. ASSUME c.op \in CU, NEW id \in Nat, NEW kept \in SUBSET rows, \A r \in kept : r.id # id,
             rows' = kept \cup {Row(id, p) : p \in c.payload}
      PROVE  RowsAreSplit' /\ \A r \in rows', p \in c.payload : r.id = id => r = Row(id, p)
  <2>1. PICK f : FormOK(f) /\ c.payload = {Payload(f)}
    BY <1>3 DEF CallsAreSaves, Saves
  <2>2. rows' = kept \cup {Row(id, Payload(f))}
    BY <1>3, <2>1
  <2>3. RowOK(Row(id, Payload(f)))
    <3>1. Row(id, Payload(f)).id = id /\ Row(id, Payload(f)).elig = Eligibilities(f)
      BY RowOf
    <3>2. WellSplit(Eligibilities(f))
      BY <2>1, SentIsSplit
    <3> QED
      BY <3>1, <3>2 DEF RowOK
  <2>4. IsFiniteSet(rows')
    BY <1>1, <2>2, FS_Subset, FS_Singleton, FS_Union
  <2>5. RowsAreSplit'
    BY <1>1, <2>2, <2>3, <2>4 DEF RowsAreSplit
  <2> QED
    BY <1>3, <2>1, <2>2, <2>5
<1>4. CASE c.op = "create" /\ Reply(c, NextId, "done")
           /\ rows' = rows \cup {Row(NextId, p) : p \in c.payload}
  <2>1. PICK id \in Nat : id = NextId /\ \A r \in rows : r.id # id
    <3>1. NextId \in Nat /\ \A r \in rows : r.id < NextId
      BY NextIsNew
    <3>2. \A r \in rows : r.id \in Nat
      BY <1>1 DEF RowOK
    <3> QED
      BY <3>1, <3>2
  <2>2. c.op \in CU
    BY <1>4 DEF CU
  <2>3. rows' = rows \cup {Row(id, p) : p \in c.payload} /\ Reply(c, id, "done")
    BY <1>4, <2>1
  <2>4. RowsAreSplit' /\ \A r \in rows', p \in c.payload : r.id = id => r = Row(id, p)
    BY <1>3, <2>1, <2>2, <2>3
  <2> QED
    BY <2>2, <2>3, <2>4, ReplyKeeps
<1>5. CASE c.op # "create" /\ Reply(c, c.id, "refused") /\ rows' = rows
  BY <1>2, <1>5, ReplyKeeps
<1>6. CASE c.op = "update" /\ found # {} /\ Reply(c, c.id, "done")
           /\ rows' = (rows \ found) \cup {Row(c.id, p) : p \in c.payload}
  <2>1. c.id \in Nat /\ \A r \in rows \ found : r.id # c.id
    BY <1>1, <1>6 DEF RowOK
  <2>2. c.op \in CU /\ rows \ found \in SUBSET rows
    BY <1>6 DEF CU
  <2>3. RowsAreSplit' /\ \A r \in rows', p \in c.payload : r.id = c.id => r = Row(c.id, p)
    <3> HIDE DEF found
    <3> QED
      BY <1>3, <1>6, <2>1, <2>2
  <2> QED
    BY <1>6, <2>2, <2>3, ReplyKeeps
<1>7. CASE c.op \in {"delete", "calendar"} /\ Reply(c, c.id, "done") /\ rows' \subseteq rows
  <2>1. c.op \notin CU
    BY <1>7 DEF CU
  <2> QED
    BY <1>2, <1>7, <2>1, ReplyKeeps
<1>8. \/ c.op = "create" /\ Reply(c, NextId, "done")
         /\ rows' = rows \cup {Row(NextId, p) : p \in c.payload}
      \/ c.op # "create" /\ Reply(c, c.id, "refused") /\ rows' = rows
      \/ c.op = "update" /\ found # {} /\ Reply(c, c.id, "done")
         /\ rows' = (rows \ found) \cup {Row(c.id, p) : p \in c.payload}
      \/ c.op \in {"delete", "calendar"} /\ Reply(c, c.id, "done") /\ rows' \subseteq rows
  <2>1. \/ c.op = "create" /\ Reply(c, NextId, "done")
           /\ rows' = rows \cup {Row(NextId, p) : p \in c.payload}
        \/ c.op # "create" /\ Reply(c, c.id, "refused") /\ UNCHANGED tables
        \/ c.op = "update" /\ found # {} /\ Reply(c, c.id, "done")
           /\ rows' = (rows \ found) \cup {Row(c.id, p) : p \in c.payload}
        \/ c.op = "delete" /\ Reply(c, c.id, "done") /\ rows' = rows \ found
        \/ c.op = "calendar" /\ Reply(c, c.id, "done") /\ UNCHANGED rows
    BY Zenon DEF OppServe
  <2>2. UNCHANGED tables => rows' = rows
    BY DEF tables
  <2> HIDE DEF found
  <2>3. rows \ found \subseteq rows
    OBVIOUS
  <2> QED
    BY <2>1, <2>2, <2>3
<1> QED
  BY <1>4, <1>5, <1>6, <1>7, <1>8

\* The filters and the pages of the list.
ListStep ==
    \/ \E name \in {"type", "majors", "level", "years", "q", "hide_expired"} :
            \E value : Filter(name, value)
    \/ Fetch \/ \E key \in fetching : OppPageArrives(key) \/ PageFails(key)

LEMMA ListKeeps ==
    ASSUME OppInv, ListStep
    PROVE  OppInv'
<1>1. CacheIsServed /\ RowsAreSplit /\ FormIsOf /\ CallsAreSaves
  BY DEF OppInv
<1>2. UNCHANGED <<rows, editing, oppForm, touched, oppCalls>>
  BY DEF ListStep, Filter, Fetch, OppPageArrives, PageFails, tables, oppDialog
<1>3. RowsAreSplit' /\ FormIsOf' /\ CallsAreSaves'
  BY <1>1, <1>2, SameForm, FewerCalls DEF RowsAreSplit
<1>4. CASE \E name \in {"type", "majors", "level", "years", "q", "hide_expired"} :
               \E value : Filter(name, value)
  <2>1. cache' = [k \in {j \in DOMAIN cache : cache[j].pages # 0} |-> cache[k]]
    BY <1>4 DEF Filter
  <2>2. CacheIsServed'
    BY <1>1, <2>1 DEF CacheIsServed
  <2> QED
    BY <1>3, <2>2 DEF OppInv
<1>5. CASE Fetch
  <2>1. CacheIsServed'
    BY <1>1, <1>5 DEF CacheIsServed, Fetch
  <2> QED
    BY <1>3, <2>1 DEF OppInv
<1>6. CASE \E key \in fetching : OppPageArrives(key) \/ PageFails(key)
  <2>1. CacheIsServed'
    BY <1>1, <1>6, PageIsServed, LossIsServed
  <2> QED
    BY <1>3, <2>1 DEF OppInv
<1> QED
  BY <1>4, <1>5, <1>6 DEF ListStep

\* The dialog and what is typed in it.
LEMMA DialogKeeps ==
    ASSUME OppInv, UNCHANGED <<rows, cache, oppCalls>>, FormIsOf'
    PROVE  OppInv'
<1>1. CacheIsServed /\ RowsAreSplit /\ CallsAreSaves
  BY DEF OppInv
<1>2. CacheIsServed' /\ RowsAreSplit'
  BY <1>1 DEF CacheIsServed, RowsAreSplit
<1>3. CallsAreSaves'
  BY <1>1, FewerCalls
<1> QED
  BY <1>2, <1>3 DEF OppInv

LEMMA TypingKeeps ==
    ASSUME OppInv, NEW f \in oppForm,
           \/ \E text \in oppVisit.texts : Write(f, text)
           \/ PickType(f) \/ PickMajors(f) \/ PickLevels(f) \/ MarkYearRound(f)
           \/ \E l \in ToSet(Levels) : PickYears(f, l)
           \/ \E day \in oppVisit.dates : PickDeadline(f, day)
    PROVE  OppInv'
<1>1. FormIsOf /\ FormOK(f)
  BY DEF OppInv, FormIsOf
<1>2. PICK g : OppChange(g) /\ FormOK(g)
  <2>1. CASE \E text \in oppVisit.texts : Write(f, text)
    BY <1>1, <2>1, TypedOK DEF Write
  <2>2. CASE PickType(f)
    BY <1>1, <2>2, TypePickedOK DEF PickType
  <2>3. CASE PickMajors(f)
    BY <1>1, <2>3, MajorsPickedOK DEF PickMajors
  <2>4. CASE PickLevels(f)
    <3>1. PICK next \in Picks(f.levels, Levels) :
              OppChange([f EXCEPT !.levels = Distinct(next),
                                  !.years = [l \in DOMAIN @ |->
                                      IF Contains(next, l) /\ l # PhD THEN @[l] ELSE <<>>]])
      BY <2>4, Zenon DEF PickLevels
    <3>2. FormOK([f EXCEPT !.levels = Distinct(next),
                           !.years = [l \in DOMAIN @ |->
                               IF Contains(next, l) /\ l # PhD THEN @[l] ELSE <<>>]])
      BY <1>1, LevelsPickedOK
    <3> QED
      BY <3>1, <3>2, Zenon
  <2>5. CASE MarkYearRound(f)
    BY <1>1, <2>5, YearRoundOK DEF MarkYearRound
  <2>6. CASE \E l \in ToSet(Levels) : PickYears(f, l)
    <3>1. PICK l \in ToSet(Levels) : PickYears(f, l)
      BY <2>6
    <3>2. PICK next \in Picks(f.years[l], [y \in Years |-> y]) :
              l # PhD /\ OppChange([f EXCEPT !.years[l] = next])
      BY <3>1 DEF PickYears
    <3> QED
      BY <1>1, <3>2, YearsPickedOK
  <2>7. CASE \E day \in oppVisit.dates : PickDeadline(f, day)
    BY <1>1, <2>7, DatePickedOK DEF PickDeadline
  <2> QED
    BY <2>1, <2>2, <2>3, <2>4, <2>5, <2>6, <2>7
<1>3. FormIsOf'
  BY <1>1, <1>2, ChangeKeeps
<1>4. UNCHANGED <<rows, cache, oppCalls>>
  BY <1>2 DEF OppChange, tables, list
<1> QED
  BY <1>3, <1>4, DialogKeeps

LEMMA CardKeeps ==
    ASSUME OppInv, NEW o \in Visible, EditCard(o) \/ Delete(o) \/ AddToCalendar(o)
    PROVE  OppInv'
<1>1. CacheIsServed /\ RowsAreSplit /\ FormIsOf /\ CallsAreSaves
  BY DEF OppInv
<1>2. CASE EditCard(o)
  <2>1. RowOK(o)
    BY <1>1 DEF Visible, Query, Nothing, CacheIsServed
  <2>2. FormIsOf'
    BY <1>2, <2>1, OpensAsListed DEF EditCard
  <2>3. UNCHANGED <<rows, cache, oppCalls>>
    BY <1>2 DEF EditCard, Opens, list, tables
  <2> QED
    BY <2>2, <2>3, DialogKeeps
<1>3. CASE Delete(o) \/ AddToCalendar(o)
  <2>1. UNCHANGED <<rows, cache, editing, oppForm, touched>>
    BY <1>3 DEF Delete, AddToCalendar, list, tables, oppDialog
  <2>2. OppSent("delete", o.id, {}) \/ OppSent("calendar", o.id, {})
    BY <1>3 DEF Delete, AddToCalendar
  <2>3. "delete" \notin CU /\ "calendar" \notin CU
    BY DEF CU
  <2>4. CallsAreSaves'
    BY <1>1, <2>1, <2>2, <2>3, OtherCallKeeps
  <2>5. FormIsOf'
    BY <1>1, <2>1, SameForm
  <2>6. CacheIsServed' /\ RowsAreSplit'
    BY <1>1, <2>1 DEF CacheIsServed, RowsAreSplit
  <2> QED
    BY <2>4, <2>5, <2>6 DEF OppInv
<1> QED
  BY <1>2, <1>3

LEMMA AnswerKeeps ==
    ASSUME OppInv, NEW c \in oppCalls, OppServe(c) \/ OppSucceeds(c) \/ OppFails(c)
    PROVE  OppInv'
<1>1. CacheIsServed /\ RowsAreSplit /\ FormIsOf /\ CallsAreSaves
  BY DEF OppInv
<1>2. CacheIsServed'
  <2>1. UNCHANGED cache
    BY DEF OppServe, OppSucceeds, OppFails, list
  <2> QED
    BY <1>1, <2>1 DEF CacheIsServed
<1>3. CASE OppServe(c)
  <2>1. CallsAreSaves' /\ RowsAreSplit'
    BY <1>1, <1>3, OppServeKeeps
  <2>2. FormIsOf'
    BY <1>1, <1>3, SameForm DEF OppServe, oppDialog
  <2> QED
    BY <1>2, <2>1, <2>2 DEF OppInv
<1>4. CASE OppSucceeds(c) \/ OppFails(c)
  <2>1. rows' = rows /\ oppCalls' \subseteq oppCalls
    BY <1>4 DEF OppSucceeds, OppFails, tables
  <2>2. CallsAreSaves' /\ RowsAreSplit'
    BY <1>1, <2>1, FewerCalls DEF RowsAreSplit
  <2>3. FormIsOf'
    <3>1. CASE OppFails(c)
      BY <1>1, <3>1, SameForm DEF OppFails
    <3>2. CASE OppSucceeds(c)
      <4>1. \/ Shut /\ editing' \subseteq editing
            \/ UNCHANGED <<editing, oppForm, touched>>
        BY <3>2 DEF OppSucceeds, oppDialog
      <4> QED
        BY <1>1, <4>1, ShutKeeps, SameForm
    <3> QED
      BY <1>4, <3>1, <3>2
  <2> QED
    BY <1>2, <2>2, <2>3 DEF OppInv
<1> QED
  BY <1>3, <1>4

LEMMA OppNextKeeps ==
    ASSUME OppInv, [OppNext]_oppVars
    PROVE  OppInv'
<1>1. CacheIsServed /\ RowsAreSplit /\ FormIsOf /\ CallsAreSaves
  BY DEF OppInv
<1>2. CASE ListStep
  BY <1>2, ListKeeps
<1>3. CASE Add
  <2>1. UNCHANGED <<rows, cache, oppCalls>>
        /\ (Opens({}) \/ UNCHANGED <<editing, oppForm, touched>>)
    BY <1>3 DEF Add, Opens, list, tables, oppDialog
  <2>2. FormIsOf'
    BY <1>1, <2>1, OpensAsListed, SameForm
  <2> QED
    BY <2>1, <2>2, DialogKeeps
<1>4. CASE CloseWall
  <2>1. UNCHANGED <<rows, cache, oppCalls, editing, oppForm, touched>>
    BY <1>4 DEF CloseWall, list, tables, oppDialog
  <2> QED
    BY <1>1, <2>1, SameForm, DialogKeeps
<1>5. CASE CloseForm
  <2>1. UNCHANGED <<rows, cache, oppCalls>> /\ Shut /\ editing' \subseteq editing
    BY <1>5 DEF CloseForm, list, tables
  <2> QED
    BY <1>1, <2>1, ShutKeeps, DialogKeeps
<1>6. CASE \E o \in Visible : EditCard(o) \/ Delete(o) \/ AddToCalendar(o)
  BY <1>6, CardKeeps
<1>7. ASSUME NEW f \in oppForm, SubmitOpportunity(f)
      PROVE  OppInv'
  <2>1. CallsAreSaves'
    BY <1>1, <1>7, SubmitKeeps
  <2>2. UNCHANGED <<rows, cache, editing, oppForm, touched>>
    BY <1>7 DEF SubmitOpportunity, list, tables
  <2>3. CacheIsServed' /\ RowsAreSplit' /\ FormIsOf'
    BY <1>1, <2>2, SameForm DEF CacheIsServed, RowsAreSplit
  <2> QED
    BY <2>1, <2>3 DEF OppInv
<1>8. ASSUME NEW f \in oppForm,
             \/ \E text \in oppVisit.texts : Write(f, text)
             \/ PickType(f) \/ PickMajors(f) \/ PickLevels(f) \/ MarkYearRound(f)
             \/ \E l \in ToSet(Levels) : PickYears(f, l)
             \/ \E day \in oppVisit.dates : PickDeadline(f, day)
      PROVE  OppInv'
  BY <1>8, TypingKeeps
<1>9. CASE \E c \in oppCalls : OppServe(c) \/ OppSucceeds(c) \/ OppFails(c)
  BY <1>9, AnswerKeeps
<1>10. CASE UNCHANGED oppVars
  <2>1. UNCHANGED <<rows, cache, oppCalls, editing, oppForm, touched>>
    BY <1>10 DEF oppVars
  <2> QED
    BY <1>1, <2>1, SameForm, DialogKeeps
<1>11. \/ ListStep \/ Add \/ CloseWall \/ CloseForm \/ UNCHANGED oppVars
       \/ \E o \in Visible : EditCard(o) \/ Delete(o) \/ AddToCalendar(o)
       \/ \E f \in oppForm : SubmitOpportunity(f)
       \/ \E f \in oppForm :
            \/ \E text \in oppVisit.texts : Write(f, text)
            \/ PickType(f) \/ PickMajors(f) \/ PickLevels(f) \/ MarkYearRound(f)
            \/ \E l \in ToSet(Levels) : PickYears(f, l)
            \/ \E day \in oppVisit.dates : PickDeadline(f, day)
       \/ \E c \in oppCalls : OppServe(c) \/ OppSucceeds(c) \/ OppFails(c)
  BY Zenon DEF OppNext, ListStep
<1> QED
  BY <1>2, <1>3, <1>4, <1>5, <1>6, <1>7, <1>8, <1>9, <1>10, <1>11

LEMMA OppInvSaysAll ==
    ASSUME OppInv
    PROVE  OpportunitiesAreTrue
<1>1. CacheIsServed /\ CallsAreSaves
  BY DEF OppInv
<1>2. ListIsOneFilter
  BY <1>1 DEF CacheIsServed, ListIsOneFilter, Visible, Query, Nothing, Key
<1>3. ASSUME NEW c \in oppCalls, NEW r \in rows, c.state = "done", c.op \in CU, r.id = c.id
      PROVE  (\A f \in c.screen : ShowsOf(r, f)) /\ (~c.touched => \A o \in c.listed : Same(r, o))
  <2>1. Saves(c)
    BY <1>1, <1>3 DEF CallsAreSaves
  <2>2. PICK f \in c.screen : TRUE
    BY <2>1 DEF Saves
  <2>3. /\ FormOK(f) /\ MaySubmit(f) /\ c.screen = {f} /\ c.payload = {Payload(f)}
        /\ ~c.touched => \A o \in c.listed : RowOK(o) /\ f = FormOf(o)
    BY <2>1 DEF Saves
  <2>4. r = Row(c.id, Payload(f))
    BY <1>3, <2>1, <2>3 DEF Saves
  <2>5. ShowsOf(r, f)
    BY <2>3, <2>4, StoredShows
  <2>6. ASSUME ~c.touched, NEW o \in c.listed
        PROVE  Same(r, o)
    <3>1. RowOK(o) /\ f = FormOf(o)
      BY <2>3, <2>6
    <3> QED
      BY <2>4, <3>1, UntouchedSame
  <2> QED
    BY <2>3, <2>5, <2>6
<1>4. StoredIsShown
  BY <1>3 DEF StoredIsShown, CU
<1> QED
  BY <1>2, <1>4 DEF OpportunitiesAreTrue

\* The digest lists what its filters ask for, whichever answers of other filters come
\* late, and stores what its dialog showed; an edit that changed nothing stores what the
\* card had, for any opportunities, pages and calls under way.
THEOREM OpportunitiesAreAlwaysTrue == OppSpec => []OpportunitiesAreTrue
<1>1. OppInit => OppInv
  BY OppInitKeeps
<1>2. OppInv /\ [OppNext]_oppVars => OppInv'
  BY OppNextKeeps
<1>3. OppInv => OpportunitiesAreTrue
  BY OppInvSaysAll
<1> QED
  BY <1>1, <1>2, <1>3, PTL DEF OppSpec
==============================================================================
