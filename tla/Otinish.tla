------------------------------- MODULE Otinish -------------------------------
(***************************************************************************)
(* SG appeals over Telegram: modules/sgotinish (service, repository) and   *)
(* the bot handlers of modules/bot that call it.                           *)
(*                                                                         *)
(* Every Telegram update is one run of a handler, with its own database    *)
(* session and no lock: feed_update is awaited per webhook request and the *)
(* dispatcher has no events isolation, so two updates (of one user or of   *)
(* two) interleave at every await.  A member of Handlers is such a run; it *)
(* takes one step per database statement, Redis write or Telegram call     *)
(* whose place in the interleaving can matter.                             *)
(*                                                                         *)
(* Sessions do not refresh: the engine is READ COMMITTED, so each SELECT's *)
(* WHERE sees the latest commit, but a row already in the session's        *)
(* identity map keeps the attribute values of its first read.  `seen` is   *)
(* that row.  A flush followed by commit is one step, at the commit.       *)
(*                                                                         *)
(* An operator named Op_Something is Op with a plausible bug in it; the     *)
(* runs must refute their property when it takes the place of Op.          *)
(*                                                                         *)
(* Abstracted: bodies, categories (one ministry, always active), message   *)
(* ids and reply threading, wording.                                       *)
(***************************************************************************)
EXTENDS Integers, FiniteSets

CONSTANTS
    Users,        \* Telegram accounts that write to the bot
    Students,     \* those whose owner may have a NU account to link
    Inbox,        \* those in the ministry chat, who see the Answer button
    Handlers,     \* concurrent runs of the dispatcher
    MaxTickets,   \* bound: tickets ever filed; ids grow in creation order
    NoUser,       \* NULL, for a user column
    MayFail       \* Telegram API calls may fail and runs may be cut short

ASSUME ConstantsAssumption ==
    /\ Students \subseteq Users
    /\ Inbox \subseteq Users
    /\ NoUser \notin Users
    /\ MaxTickets \in Nat
    /\ MayFail \in BOOLEAN

Tickets == 1..MaxTickets
NoId == 0

VARIABLES
    ticket,      \* the tickets table
    linked,      \* users.telegram_id values
    fsm,         \* Redis: aiogram FSM state of each user's private chat
    category,    \* Redis: whether the FSM data holds a category
    checkAgain,  \* users who were shown the "Check again" button
    button,      \* button[u] = tickets whose "Yes, close" keyboard u can press
    posted,      \* tickets whose card, with Answer, is in the ministry chat
    run          \* run[h] = what handler run h is about to do

dbVars == <<ticket, linked>>
chatVars == <<checkAgain, button, posted>>
fsmVars == <<fsm, category>>
vars == <<ticket, linked, fsm, category, checkAgain, button, posted, run>>

LC == INSTANCE TicketLifecycle

NoTicket == LC!NoTicket
OpenStatuses == LC!OpenStatuses

FsmStates == {"none", "choosing_category", "waiting_body", "active"}
CreateStates == {"choosing_category", "waiting_body"}

\* Steps of a run.  "enter", "clear", "choose" are FSM writes several share.
Steps == {"idle", "start_clear", "choose", "store_category", "await_body",
          "clear", "enter",
          "body_check", "body_insert", "publish_dm", "publish_inbox",
          "claim_other", "claim_update", "claim_enter", "announce",
          "confirm_channel", "confirm_write", "confirm_clear",
          "pipe_read", "pipe_enter", "pipe_route", "pipe_deliver"}

Idle == [step |-> "idle", user |-> NoUser, id |-> NoId, seen |-> NoTicket,
         won |-> FALSE]

\* won: the run's UPDATE claimed the ticket
Runs == [step : Steps, user : Users \cup {NoUser}, id : Tickets \cup {NoId},
         seen : LC!Rows, won : BOOLEAN]

TypeOK ==
    /\ ticket \in [Tickets -> LC!Rows]
    /\ linked \subseteq Students
    /\ fsm \in [Users -> FsmStates]
    /\ category \in [Users -> BOOLEAN]
    /\ checkAgain \subseteq Users
    /\ button \in [Users -> SUBSET Tickets]
    /\ posted \subseteq Tickets
    /\ run \in [Handlers -> Runs]

Init ==
    /\ ticket = [t \in Tickets |-> NoTicket]
    /\ linked = {}
    /\ fsm = [u \in Users |-> "none"]
    /\ category = [u \in Users |-> FALSE]
    /\ checkAgain = {}
    /\ button = [u \in Users |-> {}]
    /\ posted = {}
    /\ run = [h \in Handlers |-> Idle]

------------------------------------------------------------------------------
(* Repository queries.  ids are in creation order, so newest is largest.   *)

IsOpen(row) == row.status \in OpenStatuses

Authored_AnyStatus(u) == {t \in Tickets : ticket[t].author = u}
Authored(u) == {t \in Tickets : ticket[t].author = u /\ IsOpen(ticket[t])}
Assigned(u) == {t \in Tickets : ticket[t].assignee = u /\ IsOpen(ticket[t])}

Newest(S) == IF S = {} THEN NoId ELSE CHOOSE t \in S : \A s \in S : s <= t

\* The author's ticket shadows the assignee's.
OpenChannel(u) ==
    IF Authored(u) # {} THEN Newest(Authored(u)) ELSE Newest(Assigned(u))

HasOpenTicket_Unclaimed(u) == \E t \in Authored(u) : ticket[t].status = "open"
HasOpenTicket(u) == Authored(u) # {}

\* claim_ticket's `other`: a channel as assignee, not as author
HasOtherChannel_Unclaimed(u, t) ==
    \E s \in Assigned(u) \ {t} : ticket[s].status = "open"
HasOtherChannel(u, t) == Newest(Assigned(u)) \notin {NoId, t}

\* _can_close_channel, on the row the session holds
CanClose(row, u) ==
    IF row.assignee = NoUser THEN row.author = u ELSE row.assignee = u

------------------------------------------------------------------------------
(* Bookkeeping of a run.                                                   *)

At(h, step) == run[h].step = step
Goto(h, step) == run' = [run EXCEPT ![h].step = step]
GotoWith(h, step, t, row) ==
    run' = [run EXCEPT ![h].step = step, ![h].id = t, ![h].seen = row]
Finish(h) == run' = [run EXCEPT ![h] = Idle]


\* Update from u starts run h at `step`, holding row t as its first read saw it.
Dispatch(h, u, step, t, row) ==
    /\ run[h] = Idle
    /\ run' = [run EXCEPT ![h] =
                 [step |-> step, user |-> u, id |-> t, seen |-> row, won |-> FALSE]]
    /\ UNCHANGED <<dbVars, fsmVars, chatVars>>

------------------------------------------------------------------------------
(* /otinish, "Check again", the category keyboard, /cancel.                *)

\* The website binds u's NU account (modules/bot link.py); an account bound
\* to another Telegram account before moves over.
LinkTelegram(u) ==
    /\ u \in Students \ linked
    /\ \E old \in SUBSET linked :
         /\ Cardinality(old) <= 1
         /\ linked' = (linked \ old) \cup {u}
    /\ UNCHANGED <<ticket, fsmVars, chatVars, run>>

StartCommand(h, u) ==
    IF OpenChannel(u) # NoId
    THEN Dispatch(h, u, "enter", OpenChannel(u), NoTicket)
    ELSE Dispatch(h, u, "start_clear", NoId, NoTicket)

StartClear(h) ==
    LET u == run[h].user IN
    /\ At(h, "start_clear")
    /\ fsm' = [fsm EXCEPT ![u] = "none"]
    /\ category' = [category EXCEPT ![u] = FALSE]
    /\ IF u \in linked
       THEN Goto(h, "choose") /\ UNCHANGED checkAgain
       ELSE Finish(h) /\ checkAgain' = checkAgain \cup {u}
    /\ UNCHANGED <<dbVars, button, posted>>

\* No look at the user's channel or FSM state here.
PressCheckAgain(h, u) ==
    /\ u \in checkAgain \cap linked
    /\ Dispatch(h, u, "choose", NoId, NoTicket)

Choose(h) ==
    /\ At(h, "choose")
    /\ fsm' = [fsm EXCEPT ![run[h].user] = "choosing_category"]
    /\ Finish(h)
    /\ UNCHANGED <<dbVars, category, chatVars>>

PressCategory(h, u) ==
    /\ fsm[u] = "choosing_category"
    /\ Dispatch(h, u, "store_category", NoId, NoTicket)

StoreCategory(h) ==
    /\ At(h, "store_category")
    /\ category' = [category EXCEPT ![run[h].user] = TRUE]
    /\ Goto(h, "await_body")
    /\ UNCHANGED <<dbVars, fsm, chatVars>>

AwaitBody(h) ==
    /\ At(h, "await_body")
    /\ fsm' = [fsm EXCEPT ![run[h].user] = "waiting_body"]
    /\ Finish(h)
    /\ UNCHANGED <<dbVars, category, chatVars>>

CancelCommand(h, u) ==
    /\ fsm[u] \in CreateStates
    /\ Dispatch(h, u, "clear", NoId, NoTicket)

Clear(h) ==
    /\ At(h, "clear")
    /\ fsm' = [fsm EXCEPT ![run[h].user] = "none"]
    /\ category' = [category EXCEPT ![run[h].user] = FALSE]
    /\ Finish(h)
    /\ UNCHANGED <<dbVars, chatVars>>

\* _enter_channel
Enter(h) ==
    /\ At(h, "enter")
    /\ fsm' = [fsm EXCEPT ![run[h].user] = "active"]
    /\ Finish(h)
    /\ UNCHANGED <<dbVars, category, chatVars>>

------------------------------------------------------------------------------
(* The appeal's text: file the ticket, then tell the student and the inbox. *)

\* The filters see the state FSM had when the update arrived.
SendText(h, u) ==
    Dispatch(h, u, IF fsm[u] = "waiting_body" THEN "body_check" ELSE "pipe_read",
             NoId, NoTicket)

BodyCheck(h) ==
    LET u == run[h].user IN
    /\ At(h, "body_check")
    /\ \/ ~category[u] /\ Goto(h, "clear") /\ UNCHANGED checkAgain
       \/ /\ category[u] /\ u \notin linked
          /\ Goto(h, "clear")
          /\ checkAgain' = checkAgain \cup {u}
       \/ /\ category[u] /\ u \in linked /\ UNCHANGED checkAgain
          /\ IF HasOpenTicket(u)
             THEN GotoWith(h, "enter", Newest(Authored(u)), NoTicket)
             ELSE \/ Goto(h, "body_insert")
                  \/ Finish(h)         \* empty or too long: ask again
    /\ UNCHANGED <<dbVars, fsmVars, button, posted>>

\* INSERT and commit; nothing in the schema limits open tickets per author.
BodyInsert(h) ==
    /\ At(h, "body_insert")
    /\ \E t \in Tickets :
         /\ ticket[t] = NoTicket
         /\ \A s \in Tickets : s < t => ticket[s] # NoTicket
         /\ ticket' = [ticket EXCEPT ![t] =
              [status |-> "open", author |-> run[h].user, assignee |-> NoUser]]
         /\ GotoWith(h, "publish_dm", t, NoTicket)
    /\ UNCHANGED <<linked, fsmVars, chatVars>>

PublishDm_NoInbox(h) ==
    /\ At(h, "publish_dm")
    /\ Goto(h, "enter")
    /\ UNCHANGED <<dbVars, fsmVars, chatVars>>

\* An error here is not caught: the run ends and the inbox never gets the card.
PublishDm(h) ==
    /\ At(h, "publish_dm")
    /\ \/ Goto(h, "publish_inbox")
       \/ MayFail /\ Finish(h)
    /\ UNCHANGED <<dbVars, fsmVars, chatVars>>

\* An error here is caught and logged.
PublishInbox(h) ==
    /\ At(h, "publish_inbox")
    /\ \/ posted' = posted \cup {run[h].id}
       \/ MayFail /\ UNCHANGED posted
    /\ Goto(h, "enter")
    /\ UNCHANGED <<dbVars, fsmVars, checkAgain, button>>

------------------------------------------------------------------------------
(* Answer: claim a ticket.                                                 *)

PressAnswer(h, u, t) ==
    LET row == ticket[t] IN
    /\ u \in Inbox /\ t \in posted
    /\ IsOpen(row)
    /\ \/ row.assignee = u /\ Dispatch(h, u, "claim_enter", t, row)
       \/ row.assignee = NoUser /\ Dispatch(h, u, "claim_other", t, row)

ClaimOther(h) ==
    /\ At(h, "claim_other")
    /\ IF HasOtherChannel(run[h].user, run[h].id)
       THEN Finish(h)
       ELSE Goto(h, "claim_update")
    /\ UNCHANGED <<dbVars, fsmVars, chatVars>>

\* The WHERE of try_claim_ticket, on the committed row, and its SET
Claimable_Taken(row) == IsOpen(row)
Claimable_Closed(row) == row.assignee = NoUser /\ row.status # "absent"
Claimable(row) == row.assignee = NoUser /\ IsOpen(row)

ClaimedBy_StatusKept(row, u) == [row EXCEPT !.assignee = u]
ClaimedBy(row, u) == [row EXCEPT !.assignee = u, !.status = "in_progress"]

\* UPDATE ... WHERE assignee IS NULL AND status open, and commit.  Whatever its
\* rowcount, SQLAlchemy (synchronize_session="auto") evaluates the WHERE on the
\* session's own row, which was unassigned and open when read, and sets its
\* assignee; the re-read of the ticket keeps that value.  So is_assignee is
\* true of the loser's row too, and both return the ticket.
ClaimUpdate(h) ==
    LET r == run[h]
        won == Claimable(ticket[r.id]) IN
    /\ At(h, "claim_update")
    /\ ticket' = IF won
                 THEN [ticket EXCEPT ![r.id] = ClaimedBy(@, r.user)]
                 ELSE ticket
    /\ run' = [run EXCEPT ![h].step = "claim_enter", ![h].won = won]
    /\ UNCHANGED <<linked, fsmVars, chatVars>>

\* _enter_channel and the "You're connected" card
ClaimEnter(h) ==
    LET r == run[h] IN
    /\ At(h, "claim_enter")
    /\ fsm' = [fsm EXCEPT ![r.user] = "active"]
    /\ IF r.won THEN Goto(h, "announce") ELSE Finish(h)
    /\ UNCHANGED <<dbVars, category, chatVars>>

\* notify_claimed: the author and the ministry chat are told who claimed
Announce(h) ==
    /\ At(h, "announce")
    /\ Finish(h)
    /\ UNCHANGED <<dbVars, fsmVars, chatVars>>

------------------------------------------------------------------------------
(* /close and its confirmation keyboard.                                   *)

CloseCommand(u) ==
    LET t == OpenChannel(u) IN
    /\ t # NoId
    /\ CanClose(ticket[t], u)
    /\ button' = [button EXCEPT ![u] = @ \cup {t}]
    /\ UNCHANGED <<dbVars, fsmVars, checkAgain, posted, run>>

PressCancel(u, t) ==
    /\ t \in button[u]
    /\ button' = [button EXCEPT ![u] = @ \ {t}]
    /\ UNCHANGED <<dbVars, fsmVars, checkAgain, posted, run>>

PressYes(h, u, t) ==
    /\ t \in button[u]
    /\ Dispatch(h, u, "confirm_channel", t, ticket[t])

\* The channel is looked up afresh; the row tested is the one first read.
ConfirmChannel(h) ==
    LET r == run[h] IN
    /\ At(h, "confirm_channel")
    /\ IF OpenChannel(r.user) = r.id /\ CanClose(r.seen, r.user) /\ IsOpen(r.seen)
       THEN Goto(h, "confirm_write")
       ELSE Finish(h)
    /\ UNCHANGED <<dbVars, fsmVars, chatVars>>

\* UPDATE by primary key: status only, with no condition on the row
ConfirmWrite(h) ==
    /\ At(h, "confirm_write")
    /\ ticket' = [ticket EXCEPT ![run[h].id].status = "closed"]
    /\ Goto(h, "confirm_clear")
    /\ UNCHANGED <<linked, fsmVars, chatVars>>

ConfirmClear(h) ==
    LET r == run[h] IN
    /\ At(h, "confirm_clear")
    /\ fsm' = [fsm EXCEPT ![r.user] = "none"]
    /\ category' = [category EXCEPT ![r.user] = FALSE]
    /\ \/ button' = [button EXCEPT ![r.user] = @ \ {r.id}]
       \/ MayFail /\ UNCHANGED button
    /\ Finish(h)
    /\ UNCHANGED <<dbVars, checkAgain, posted>>

------------------------------------------------------------------------------
(* Any other text: pipe it to the other side of the channel.               *)

PipeRead(h) ==
    LET u == run[h].user
        t == OpenChannel(u) IN
    /\ At(h, "pipe_read")
    /\ \/ fsm[u] \in CreateStates /\ Finish(h)
       \/ fsm[u] = "none" /\ t = NoId /\ Finish(h)
       \/ fsm[u] = "active" /\ t = NoId /\ Goto(h, "clear")
       \/ /\ fsm[u] \notin CreateStates /\ t # NoId
          /\ GotoWith(h, "pipe_enter", t, ticket[t])
    /\ UNCHANGED <<dbVars, fsmVars, chatVars>>

PipeEnter(h) ==
    /\ At(h, "pipe_enter")
    /\ fsm' = [fsm EXCEPT ![run[h].user] = "active"]
    /\ Goto(h, "pipe_route")
    /\ UNCHANGED <<dbVars, category, chatVars>>

\* Who gets u's message on this row; NoUser when it is not forwarded
OtherSide_Assignee(row, u) == row.assignee
OtherSide(row, u) ==
    IF row.author = u THEN row.assignee
    ELSE IF row.assignee = u THEN row.author ELSE NoUser

\* A second lookup; a row met in the first one keeps its old values.
PipeRoute(h) ==
    LET r == run[h]
        t == OpenChannel(r.user)
        row == IF t = r.id THEN r.seen ELSE ticket[t] IN
    /\ At(h, "pipe_route")
    /\ IF t # NoId /\ OtherSide(row, r.user) # NoUser
       THEN GotoWith(h, "pipe_deliver", t, row)
       ELSE Finish(h)
    /\ UNCHANGED <<dbVars, fsmVars, chatVars>>

\* run[h]'s message goes to OtherSide(seen, user), or fails and the sender is told
PipeDeliver(h) ==
    /\ At(h, "pipe_deliver")
    /\ Finish(h)
    /\ UNCHANGED <<dbVars, fsmVars, chatVars>>

------------------------------------------------------------------------------
\* The server stops, or an exception leaves the handler, between two steps.
Cut(h) ==
    /\ MayFail /\ run[h] # Idle
    /\ Finish(h)
    /\ UNCHANGED <<dbVars, fsmVars, chatVars>>

User(u) ==
    \/ LinkTelegram(u)
    \/ CloseCommand(u)
    \/ \E t \in Tickets : PressCancel(u, t)
    \/ \E h \in Handlers :
         \/ StartCommand(h, u) \/ PressCheckAgain(h, u) \/ PressCategory(h, u)
         \/ CancelCommand(h, u) \/ SendText(h, u)
         \/ \E t \in Tickets : PressAnswer(h, u, t) \/ PressYes(h, u, t)

Handle(h) ==
    \/ StartClear(h) \/ Choose(h) \/ StoreCategory(h) \/ AwaitBody(h)
    \/ Clear(h) \/ Enter(h)
    \/ BodyCheck(h) \/ BodyInsert(h) \/ PublishDm(h) \/ PublishInbox(h)
    \/ ClaimOther(h) \/ ClaimUpdate(h) \/ ClaimEnter(h) \/ Announce(h)
    \/ ConfirmChannel(h) \/ ConfirmWrite(h) \/ ConfirmClear(h)
    \/ PipeRead(h) \/ PipeEnter(h) \/ PipeRoute(h) \/ PipeDeliver(h)

Next ==
    \/ \E u \in Users : User(u)
    \/ \E h \in Handlers : Handle(h) \/ Cut(h)

Spec == Init /\ [][Next]_vars

\* The event loop resumes every run whose await is over.
FairSpec == Spec /\ \A h \in Handlers : WF_vars(Handle(h))

------------------------------------------------------------------------------
(* What holds of every interleaving.                                       *)

\* The handlers implement the life of a ticket: filed once, claimed at most
\* once, never touched after it is closed (service.py, try_claim_ticket).
Lifecycle == LC!Spec

\* The run that is told it won a claim, and announces its user as the claimer,
\* is the run whose user the row names: of the SG members racing for a ticket
\* one wins, and no later update takes the ticket from that one.
WinnerIsAssignee ==
    \A h \in Handlers : run[h].won => ticket[run[h].id].assignee = run[h].user

\* A piped message goes from one side of its ticket to the other, although the
\* handler decides on a row it read before other updates ran.
PipeReachesOtherSide ==
    \A h \in Handlers :
        LET r == run[h] IN
        At(h, "pipe_deliver") =>
            {r.user, OtherSide(r.seen, r.user)}
                = {ticket[r.id].author, ticket[r.id].assignee}

\* While tickets are open, some user can close one with /close: the desk never
\* locks up.  Holds while no two ministry members file tickets of their own.
SomeoneCanClose ==
    (\E t \in Tickets : IsOpen(ticket[t])) =>
        \E u \in Users, t \in Tickets :
            t = OpenChannel(u) /\ IsOpen(ticket[t]) /\ CanClose(ticket[t], u)

\* README.md of sgotinish: "one open ticket max".  Holds of updates handled
\* one at a time.
OneOpenTicketPerAuthor == \A u \in Users : Cardinality(Authored(u)) <= 1

\* claim_ticket: "One open assignee channel at a time".  Holds of updates
\* handled one at a time.
OneChannelPerAssignee == \A u \in Users : Cardinality(Assigned(u)) <= 1

\* The two SELECTs that stand in for constraints, before the INSERT and before
\* the UPDATE, keep both limits together.
LimitsHold == OneOpenTicketPerAuthor /\ OneChannelPerAssignee

\* Without failures every ticket filed gets its card, with the Answer button,
\* into the ministry chat (publish_new_ticket runs after the commit).
FiledReachesInbox ==
    \A t \in Tickets : ticket[t] # NoTicket ~> t \in posted

------------------------------------------------------------------------------
(* Why those hold: what a run may rely on about the row it read.           *)

\* Steps of a run that works on ticket `id`
TicketSteps == {"publish_dm", "publish_inbox", "claim_other", "claim_update",
                "claim_enter", "announce", "confirm_channel", "confirm_write",
                "confirm_clear", "pipe_enter", "pipe_route", "pipe_deliver"}
PipeSteps == {"pipe_enter", "pipe_route", "pipe_deliver"}

\* `old` is what `row` was at some earlier time, as to who is on its two sides.
Earlier(old, row) ==
    /\ old.author = row.author
    /\ old.assignee \in {NoUser, row.assignee}

RunInv(r) ==
    /\ r.step # "idle" => r.user \in Users
    /\ r.step \in TicketSteps => r.id \in Tickets /\ ticket[r.id] # NoTicket
    /\ r.step \in PipeSteps => Earlier(r.seen, ticket[r.id])
    /\ r.step = "pipe_deliver" => OtherSide(r.seen, r.user) # NoUser
    /\ r.won => /\ r.step \in {"claim_enter", "announce"}
                /\ ticket[r.id].assignee = r.user

ButtonInv == \A u \in Users : \A t \in button[u] : ticket[t] # NoTicket

\* The inductive invariant
IInv == TypeOK /\ ButtonInv /\ \A h \in Handlers : RunInv(run[h])

------------------------------------------------------------------------------
(* What the documentation says and some interleaving breaks.               *)

\* claim_ticket: "Raises TicketAlreadyClaimedError if another user owns it":
\* nobody else enters the channel.
ConnectedIsAssignee ==
    \A h \in Handlers :
        At(h, "claim_enter") => ticket[run[h].id].assignee = run[h].user
==============================================================================
