--------------------------- MODULE TicketLifecycle ---------------------------
(***************************************************************************)
(* What the SG appeal desk promises about the rows of the "tickets" table, *)
(* whatever the bot's handlers do concurrently: a ticket is filed once,    *)
(* by one author, is claimed at most once, and once closed never changes.  *)
(* Otinish.tla, the handlers that issue the SQL, implements this module.   *)
(***************************************************************************)
CONSTANTS
    Users,      \* Telegram accounts
    Tickets,    \* the ticket rows there may be
    NoUser      \* NULL in author_telegram_id / assignee_telegram_id

VARIABLE ticket     \* ticket[t] = the row, or NoTicket before it is inserted

NoTicket == [status |-> "absent", author |-> NoUser, assignee |-> NoUser]

OpenStatuses == {"open", "in_progress"}

\* `resolved` of TicketStatus is written by no operation, so no row holds it.
Rows ==
    {NoTicket}
    \cup [status : {"open"}, author : Users, assignee : {NoUser}]
    \cup [status : {"in_progress"}, author : Users, assignee : Users]
    \cup [status : {"closed"}, author : Users, assignee : Users \cup {NoUser}]

Init == ticket = [t \in Tickets |-> NoTicket]

File(t, u) ==
    /\ ticket[t] = NoTicket
    /\ ticket' = [ticket EXCEPT ![t] =
                    [status |-> "open", author |-> u, assignee |-> NoUser]]

Claim(t, u) ==
    /\ ticket[t].status = "open"
    /\ ticket' = [ticket EXCEPT ![t].status = "in_progress", ![t].assignee = u]

Close(t) ==
    /\ ticket[t].status \in OpenStatuses
    /\ ticket' = [ticket EXCEPT ![t].status = "closed"]

Next ==
    \E t \in Tickets :
        \/ \E u \in Users : File(t, u) \/ Claim(t, u)
        \/ Close(t)

Spec == Init /\ [][Next]_ticket
==============================================================================
