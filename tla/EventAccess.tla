----------------------------- MODULE EventAccess -----------------------------
(***************************************************************************)
(* Who owns an event, who may see its attendees and who goes: the requests *)
(* of campuscurrent/events/service.py.  A request reads in one step and    *)
(* writes and commits in another, with nothing locked in between.          *)
(***************************************************************************)
EXTENDS Integers, FiniteSets

CONSTANTS
    Users,
    Goers,      \* users who answer whether they go
    Creator,
    Links,      \* access invites that may be created
    Requests,   \* identities of concurrent requests
    None

VARIABLES
    owner,      \* creator_sub of the event
    viewers,    \* users with a row in event_attendee_viewers
    going,      \* users with a row in event_attendees
    links,      \* link -> [purpose, by, revoked, acceptedBy]
    run,        \* request -> what it read and is about to write
    told,       \* <<user, link>>: the user was told "You are now the owner"
    left,       \* users who asked not to go
    answered,   \* user -> the is_going answered last, {} for none
    atOnce      \* bound on requests at work at the same time

accessVars == <<owner, viewers, going, links, run, told, left, answered, atOnce>>

ASSUME AccessAssumption == /\ Creator \in Users /\ Goers \subseteq Users /\ None \notin Users /\ IsFiniteSet(Requests)

Purposes == {"transfer", "co_view"}
Uncreated == [purpose |-> "none", by |-> None, revoked |-> FALSE, acceptedBy |-> None]
Idle == [op |-> "none", user |-> None, link |-> None, found |-> FALSE, first |-> FALSE]
Made(l) == links[l].purpose # "none"

AccessInit ==
    /\ owner = Creator /\ viewers = {} /\ going = {}
    /\ links = [l \in Links |-> Uncreated] /\ run = [r \in Requests |-> Idle]
    /\ told = {} /\ left = {} /\ answered = [u \in Goers |-> {}]
    /\ atOnce \in 1..Cardinality(Requests)

-----------------------------------------------------------------------------
(* Reading: the checks of a request, made on rows it does not lock.  A request
   that is refused changes nothing. *)
IsActive_Reusable(l) == Made(l) /\ ~links[l].revoked
\* _invite_is_active; links live for days and do not expire here.
IsActive(l) ==
    /\ Made(l) /\ ~links[l].revoked
    /\ ~(links[l].purpose = "transfer" /\ links[l].acceptedBy # None)

MayShare(u) == u = owner
MayAccept(u, l) ==
    /\ IsActive(l) /\ links[l].by # u
    /\ links[l].purpose = "transfer" => u # owner

Busy == {r \in Requests : run[r] # Idle}
Begin(r, u, op, l, found, first) ==
    /\ run[r] = Idle /\ Cardinality(Busy) < atOnce
    /\ run' = [run EXCEPT ![r] = [op |-> op, user |-> u, link |-> l, found |-> found,
                                 first |-> first]]
    /\ UNCHANGED <<owner, viewers, going, links, told, answered, atOnce>>

ReadCreate(r, u, purpose) == MayShare(u) /\ Begin(r, u, purpose, None, FALSE, FALSE) /\ UNCHANGED left
ReadRevoke(r, u, l) ==
    MayShare(u) /\ Made(l) /\ Begin(r, u, "revoke", l, links[l].revoked, FALSE) /\ UNCHANGED left
ReadAccept(r, u, l) ==
    /\ MayAccept(u, l) /\ Begin(r, u, "accept", l, u \in viewers, links[l].acceptedBy = None)
    /\ UNCHANGED left
\* Every user may answer: events are approved when they are created.
ReadGoing(r, u) == Begin(r, u, "going", None, u \in going, FALSE) /\ UNCHANGED left
ReadNotGoing(r, u) ==
    Begin(r, u, "notGoing", None, u \in going, FALSE) /\ left' = left \cup {u}

-----------------------------------------------------------------------------
(* Writing what was read, and the answer. *)
Finish(r, op) == run[r].op = op /\ run' = [run EXCEPT ![r] = Idle] /\ UNCHANGED <<left, atOnce>>

Create(r, l) ==
    /\ run[r].op \in Purposes /\ Finish(r, run[r].op) /\ ~Made(l)
    /\ links' = [links EXCEPT ![l] = [Uncreated EXCEPT !.purpose = run[r].op, !.by = run[r].user]]
    /\ UNCHANGED <<owner, viewers, going, told, answered>>

Revoke(r) ==
    /\ Finish(r, "revoke")
    /\ links' = IF run[r].found THEN links ELSE [links EXCEPT ![run[r].link].revoked = TRUE]
    /\ UNCHANGED <<owner, viewers, going, told, answered>>

Accepted_First(l, u) ==
    links' = IF links[l].acceptedBy = None THEN [links EXCEPT ![l].acceptedBy = u] ELSE links
\* Whatever another request wrote since, this one is recorded.
Accepted(l, u) == links' = [links EXCEPT ![l].acceptedBy = u]

AcceptTransfer(r) ==
    LET l == run[r].link u == run[r].user IN
    /\ Finish(r, "accept") /\ links[l].purpose = "transfer"
    /\ owner' = u /\ Accepted(l, u) /\ told' = told \cup {<<u, l>>}
    /\ UNCHANGED <<viewers, going, answered>>

\* A row inserted since the look makes the insert, and the request, fail.
AcceptView(r) ==
    LET l == run[r].link u == run[r].user
        fails == ~run[r].found /\ u \in viewers
    IN
    /\ Finish(r, "accept") /\ links[l].purpose = "co_view"
    /\ viewers' = viewers \cup {u}
    /\ IF run[r].first /\ ~fails THEN Accepted(l, u) ELSE links' = links
    /\ UNCHANGED <<owner, going, told, answered>>

\* Two requests that found no row both insert one: the second fails.
Going(r) ==
    LET u == run[r].user IN
    /\ Finish(r, "going")
    /\ going' = IF run[r].found THEN going ELSE going \cup {u}
    /\ answered' = IF ~run[r].found /\ u \in going THEN answered
                   ELSE [answered EXCEPT ![u] = {TRUE}]
    /\ UNCHANGED <<owner, viewers, links, told>>

NotGoing(r) ==
    LET u == run[r].user IN
    /\ Finish(r, "notGoing")
    /\ going' = IF run[r].found THEN going \ {u} ELSE going
    /\ answered' = [answered EXCEPT ![u] = {FALSE}]
    /\ UNCHANGED <<owner, viewers, links, told>>

\* The process stops or the connection breaks: the transaction is rolled back.
Cut(r) ==
    /\ run[r] # Idle /\ run' = [run EXCEPT ![r] = Idle]
    /\ UNCHANGED <<owner, viewers, going, links, told, left, answered, atOnce>>

AccessNext ==
    \E r \in Requests :
        \/ \E u \in Users : \/ \E p \in Purposes : ReadCreate(r, u, p)
                            \/ \E l \in Links : ReadRevoke(r, u, l) \/ ReadAccept(r, u, l)
        \/ \E u \in Goers : ReadGoing(r, u) \/ ReadNotGoing(r, u)
        \/ \E l \in Links : Create(r, l)
        \/ Revoke(r) \/ AcceptTransfer(r) \/ AcceptView(r) \/ Going(r) \/ NotGoing(r) \/ Cut(r)

AccessSpec == AccessInit /\ [][AccessNext]_accessVars

-----------------------------------------------------------------------------
(* However requests overtake each other, the owner is the creator or the user on
   record as having accepted a transfer link: rows of two tables never disagree. *)
OwnerHoldsALink ==
    owner = Creator \/ \E l \in Links : links[l].purpose = "transfer" /\ links[l].acceptedBy = owner

\* Nor do taps on "I'm going" that overtake each other lose the row, unless the user
\* asked not to go as well.
TapsKeepTheRow == \A u \in Goers \ left : answered[u] = {TRUE} => u \in going

RowsAgree == OwnerHoldsALink /\ TapsKeepTheRow

\* One request at a time, a transfer link makes one user owner, and what was answered
\* about going is in the table.
OneByOne ==
    atOnce = 1 =>
        /\ \A t1, t2 \in told : t1[2] = t2[2] => t1 = t2
        /\ \A u \in Goers : answered[u] # {} => answered[u] = {(u \in going)}
==============================================================================
