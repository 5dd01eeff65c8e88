------------------------------ MODULE EventPage ------------------------------
(***************************************************************************)
(* The page of one event: going or not, the panel of attendees that loads  *)
(* by scrolling, and the dialog that shares access by links, of            *)
(* features/events.  The service answers each call at one moment, while it *)
(* is under way; EventAccess looks inside the service.                     *)
(***************************************************************************)
EXTENDS Lists, Sequences, SequencesExt

CONSTANTS
    People, Me,
    Attendees,  \* who goes at first, in order
    Joining,    \* who else goes later, in order
    PageSize,
    Invites,    \* links the service may create
    Visits      \* [role, signedIn, external, past, ops, flight, clicks, faults]

ASSUME PageAssumption ==
    /\ Me \in People /\ Attendees \in Seq(People) /\ Joining \in Seq(People \ {Me})
    /\ PageSize \in Nat \ {0} /\ \A v \in Visits : v.faults \in Nat /\ v.flight \in Nat

VARIABLES
    visit, role, attending, joined, offered,  \* the service; link -> its purpose, "no", "used" or "revoked"
    event,      \* the query ["campusCurrent", "event", id]: {} or {[isGoing, count, may]}
    stale,      \* it must be fetched, or fetched again
    panel,      \* the infinite query of the attendees
    dialog,     \* ShareAccessDialog
    isExporting, isModalOpen,
    calls,      \* calls under way: id -> [op, on, state, answer]
    clicks, faults

service == <<visit, role, attending, joined, offered>>
pageVars == <<service, event, stale, panel, dialog, isExporting, isModalOpen, calls, clicks,
              faults>>

-----------------------------------------------------------------------------
(* What the service knows. *)
Permissions(who) == [edit |-> who = "owner", share |-> who = "owner",
                     attendees |-> who \in {"owner", "viewer"}]
MayViewAttendees == role \in {"owner", "viewer"}
IsGoing == Me \in ToSet(attending)
Described == [isGoing |-> IsGoing, count |-> Len(attending), may |-> Permissions(role)]
AttendeesPage(n) ==
    SubSeq(attending, (n - 1) * PageSize + 1,
           IF n * PageSize < Len(attending) THEN n * PageSize ELSE Len(attending))
TotalPages == (Len(attending) + PageSize - 1) \div PageSize
InvitePurposes == {"transfer", "co_view"}
Without(u) == Entries(attending, {k \in DOMAIN attending : attending[k] # u})
Live == {l \in DOMAIN offered : offered[l] \in InvitePurposes}

(* What is on screen. *)
Shown == CHOOSE e \in event : TRUE
CanViewAttendees == event # {} /\ Shown.may.attendees /\ ~visit.external
HasNextPage == panel.pages # <<>> /\ Last(panel.pages).hasNext
\* Somebody on two pages is shown once.
Listed == UNION {ToSet(p.items) : p \in ToSet(panel.pages)}
AttendeesTotal == IF panel.pages = <<>> THEN 0 ELSE panel.pages[1].total
PanelShows == CASE panel.failed -> "error"
                [] ~panel.failed /\ panel.pages = <<>> -> "loading"
                [] ~panel.failed /\ panel.pages # <<>> /\ Listed = {} -> "empty"
                [] OTHER -> "list"
Of(ops) == {i \in DOMAIN calls : calls[i].op \in ops}
IsToggling == Of({"going", "notGoing"}) # {}
IsCreating == Of({"create", "relist"}) # {}

OffersGoing == event # {} /\ ~visit.past /\ ~visit.external
\* The calendar and the address of the page are offered too; they change nothing here.
Actions ==
    IF event = {} THEN {}
    ELSE (IF Shown.may.edit THEN {"edit"} ELSE {})
         \cup (IF Shown.may.share THEN {"share_access"} ELSE {})
OffersExport == CanViewAttendees /\ ~isExporting /\ AttendeesTotal # 0
OffersCreate == dialog.open /\ dialog.created = {} /\ dialog.purpose # "none" /\ ~IsCreating

-----------------------------------------------------------------------------
NoPanel == [pages |-> <<>>, fetch |-> "no", got |-> <<>>, failed |-> FALSE, cut |-> FALSE]
Closed == [open |-> FALSE, purpose |-> "none", created |-> {}, invites |-> {}]

PageInit ==
    /\ visit \in Visits /\ role = visit.role /\ attending = Attendees /\ joined = Joining
    /\ offered = [l \in Invites |-> "no"]
    /\ event = {} /\ stale = TRUE /\ panel = NoPanel /\ dialog = Closed
    /\ isExporting = FALSE /\ isModalOpen = FALSE /\ calls = <<>>
    /\ clicks = visit.clicks /\ faults = visit.faults

Free == CHOOSE n \in 1..(Cardinality(DOMAIN calls) + 1) : n \notin DOMAIN calls
Sent(op, on) == [op |-> op, on |-> on, state |-> "sent", answer |-> {}]
Call(op, on) ==
    calls' = [j \in DOMAIN calls \cup {Free} |-> IF j = Free THEN Sent(op, on) ELSE calls[j]]
Click(op) == op \in visit.ops /\ clicks > 0 /\ clicks' = clicks - 1 /\ Cardinality(DOMAIN calls) < visit.flight

\* A query that is invalidated is fetched again, and a fetch under way starts anew.
Refetched(p) == IF p.pages = <<>> THEN p ELSE [p EXCEPT !.fetch = "all", !.got = <<>>, !.cut = FALSE]

FetchEvent ==
    /\ stale /\ Of({"event"}) = {} /\ stale' = FALSE /\ Call("event", 0)
    /\ UNCHANGED <<service, event, panel, dialog, isExporting, isModalOpen, clicks, faults>>

-----------------------------------------------------------------------------
(* Going: handleToggleGoing and useEventGoing. *)
ToggleGoing ==
    /\ OffersGoing /\ ~IsToggling /\ Click("toggle")
    /\ IF visit.signedIn
       THEN /\ Call(IF Shown.isGoing THEN "notGoing" ELSE "going", 0)
            /\ UNCHANGED isModalOpen
       ELSE isModalOpen' = TRUE /\ UNCHANGED calls
    /\ UNCHANGED <<service, event, stale, panel, dialog, isExporting, faults>>

CloseAuthModal ==
    /\ isModalOpen /\ isModalOpen' = FALSE
    /\ UNCHANGED <<service, event, stale, panel, dialog, isExporting, calls, clicks, faults>>

ApplyGoingState_EventOnly(answer) ==
    event' = {[e EXCEPT !.isGoing = answer.isGoing, !.count = answer.count] : e \in event}
    /\ panel' = panel
ApplyGoingState(answer) ==
    /\ event' = {[e EXCEPT !.isGoing = answer.isGoing, !.count = answer.count] : e \in event}
    /\ panel' = Refetched(panel)

-----------------------------------------------------------------------------
(* The attendees: useEventAttendees. *)
FetchPanel ==
    /\ CanViewAttendees /\ panel.pages = <<>> /\ panel.fetch = "no" /\ ~panel.failed
    /\ panel' = [panel EXCEPT !.fetch = "all"]
    /\ UNCHANGED <<service, event, stale, dialog, isExporting, isModalOpen, calls, clicks, faults>>

\* The marker under the list comes into view; a refetch under way is dropped for the
\* next page.
ScrollToEnd ==
    /\ CanViewAttendees /\ PanelShows = "list" /\ HasNextPage /\ panel.fetch # "next"
    /\ panel' = [panel EXCEPT !.fetch = "next", !.got = <<>>, !.cut = @ \/ panel.fetch = "all"]
    /\ UNCHANGED <<service, event, stale, dialog, isExporting, isModalOpen, calls, clicks, faults>>

Answered(n) == [items |-> AttendeesPage(n), total |-> Len(attending), hasNext |-> n < TotalPages]
\* One page more; a refetch goes on to the last of the pages there were.
PageArrives ==
    /\ panel.fetch # "no"
    /\ LET next == Answered(Len(panel.pages) + 1)
           got == Append(panel.got, Answered(Len(panel.got) + 1))
           done == Len(got) >= Len(panel.pages) \/ ~Last(got).hasNext
       IN  panel' = CASE ~MayViewAttendees -> [panel EXCEPT !.fetch = "no", !.got = <<>>,
                                                            !.failed = TRUE]
                      [] MayViewAttendees /\ panel.fetch = "next" ->
                           [panel EXCEPT !.pages = Append(@, next), !.fetch = "no", !.failed = FALSE]
                      [] MayViewAttendees /\ panel.fetch = "all" /\ done ->
                           [panel EXCEPT !.pages = got, !.fetch = "no", !.got = <<>>,
                                         !.failed = FALSE]
                      [] OTHER -> [panel EXCEPT !.got = got]
    /\ UNCHANGED <<service, event, stale, dialog, isExporting, isModalOpen, calls, clicks, faults>>

Export ==
    /\ OffersExport /\ Click("export") /\ isExporting' = TRUE
    /\ Call("export", 0)
    /\ UNCHANGED <<service, event, stale, panel, dialog, isModalOpen, faults>>

\* An edit is saved: useUpdateEvent invalidates all of the campus.
Refresh ==
    /\ "edit" \in Actions /\ Click("edit") /\ stale' = TRUE /\ panel' = Refetched(panel)
    /\ UNCHANGED <<service, event, dialog, isExporting, isModalOpen, calls, faults>>

-----------------------------------------------------------------------------
(* The dialog that shares access. *)
OpenShare ==
    /\ "share_access" \in Actions /\ ~dialog.open /\ Click("share")
    /\ dialog' = [dialog EXCEPT !.open = TRUE, !.purpose = "none", !.created = {}]
    /\ Call("links", 0)
    /\ UNCHANGED <<service, event, stale, panel, isExporting, isModalOpen, faults>>

Edit(d) ==
    /\ dialog.open /\ dialog' = d
    /\ UNCHANGED <<service, event, stale, panel, isExporting, isModalOpen, calls, clicks, faults>>
CloseShare == Edit([dialog EXCEPT !.open = FALSE])
PickPurpose(p) == dialog.created = {} /\ Edit([dialog EXCEPT !.purpose = p])
CreateAnother == dialog.created # {} /\ Edit([dialog EXCEPT !.created = {}, !.purpose = "none"])

Ask(op, on) ==
    /\ Click("share") /\ Call(op, on)
    /\ UNCHANGED <<service, event, stale, panel, dialog, isExporting, isModalOpen, faults>>
CreateLink == OffersCreate /\ Ask("create", dialog.purpose)
RevokeLink(l) == dialog.open /\ l \in dialog.invites /\ Ask("revoke", l)

-----------------------------------------------------------------------------
(* The service. *)
Serve(i) ==
    /\ calls[i].state = "sent"
    /\ LET c == calls[i]
           owner == role = "owner"
           is(answer) == calls' = [calls EXCEPT ![i].state = "done", ![i].answer = {answer}]
           refused == calls' = [calls EXCEPT ![i].state = "refused"]
       IN
       \/ c.op = "event" /\ is(Described) /\ UNCHANGED <<attending, offered>>
       \/ /\ c.op = "going" /\ attending' = IF IsGoing THEN attending ELSE Append(attending, Me)
          /\ is([isGoing |-> TRUE, count |-> Len(attending')]) /\ UNCHANGED offered
       \/ /\ c.op = "notGoing" /\ attending' = Without(Me)
          /\ is([isGoing |-> FALSE, count |-> Len(attending')]) /\ UNCHANGED offered
       \/ /\ c.op = "export" /\ (IF MayViewAttendees THEN is("file") ELSE refused)
          /\ UNCHANGED <<attending, offered>>
       \/ /\ c.op \in {"links", "relist"} /\ (IF owner THEN is(Live) ELSE refused)
          /\ UNCHANGED <<attending, offered>>
       \/ /\ c.op = "create" /\ owner
          /\ \E l \in Invites : /\ offered[l] = "no" /\ offered' = [offered EXCEPT ![l] = c.on]
                              /\ is(l)
          /\ UNCHANGED attending
       \/ /\ c.op = "revoke" /\ owner /\ offered' = [offered EXCEPT ![c.on] = "revoked"]
          /\ is(c.on) /\ UNCHANGED attending
       \/ /\ c.op \in {"create", "revoke"} /\ ~owner /\ refused /\ UNCHANGED <<attending, offered>>
    /\ UNCHANGED <<visit, role, joined, event, stale, panel, dialog, isExporting, isModalOpen,
                   clicks, faults>>

\* Somebody else goes; or opens the link to the ownership, and owns the event.
Join ==
    /\ "join" \in visit.ops /\ joined # <<>> /\ attending' = Append(attending, Head(joined)) /\ joined' = Tail(joined)
    /\ UNCHANGED <<visit, role, offered, event, stale, panel, dialog, isExporting, isModalOpen,
                   calls, clicks, faults>>
TransferAccepted ==
    /\ role = "owner" /\ "lose" \in visit.ops /\ role' = "guest"
    /\ \E l \in Live : offered[l] = "transfer" /\ offered' = [offered EXCEPT ![l] = "used"]
    /\ UNCHANGED <<visit, attending, joined, event, stale, panel, dialog, isExporting, isModalOpen,
                   calls, clicks, faults>>

(* Answers, in any order; a refusal is an error. *)
Over(i) == calls' = [j \in DOMAIN calls \ {i} |-> calls[j]]
Relisted_Never(i) == Over(i)
\* A new link makes the list of links be read again.
Relisted(i) == calls' = [calls EXCEPT ![i] = Sent("relist", 0)]
Succeeds(i) ==
    /\ calls[i].state = "done"
    /\ LET c == calls[i] answer == CHOOSE a \in c.answer : TRUE IN
       CASE c.op = "event" ->
              event' = {answer} /\ Over(i) /\ UNCHANGED <<panel, dialog, isExporting>>
         [] c.op \in {"going", "notGoing"} ->
              ApplyGoingState(answer) /\ Over(i) /\ UNCHANGED <<dialog, isExporting>>
         [] c.op = "export" ->
              isExporting' = FALSE /\ Over(i) /\ UNCHANGED <<event, panel, dialog>>
         [] c.op \in {"links", "relist"} ->
              /\ dialog' = [dialog EXCEPT !.invites = answer] /\ Over(i)
              /\ UNCHANGED <<event, panel, isExporting>>
         [] c.op = "create" ->
              /\ dialog' = [dialog EXCEPT !.created = {answer}]
              /\ Relisted(i)
              /\ UNCHANGED <<event, panel, isExporting>>
         [] c.op = "revoke" ->
              /\ dialog' = [dialog EXCEPT !.invites = @ \ {answer}] /\ Over(i)
              /\ UNCHANGED <<event, panel, isExporting>>
    /\ UNCHANGED <<service, stale, isModalOpen, clicks, faults>>

\* Lost before or after the service did its work, or refused.  A fetch of the event
\* fails only before the first answer, and leaves the error page.
Fails(i) ==
    /\ calls[i].op = "event" => event = {}
    /\ \/ calls[i].state = "refused" /\ UNCHANGED faults
       \/ calls[i].state # "refused" /\ faults > 0 /\ faults' = faults - 1
    /\ Over(i)
    /\ isExporting' = (isExporting /\ calls[i].op # "export")
    /\ dialog' = IF calls[i].op = "links" THEN [dialog EXCEPT !.invites = {}] ELSE dialog
    /\ UNCHANGED <<service, event, stale, panel, isModalOpen, clicks>>

PageNext ==
    \/ FetchEvent \/ ToggleGoing \/ CloseAuthModal \/ FetchPanel \/ ScrollToEnd \/ PageArrives
    \/ Export \/ Refresh \/ OpenShare \/ CloseShare \/ CreateAnother \/ CreateLink
    \/ \E p \in InvitePurposes : PickPurpose(p)
    \/ \E l \in Invites : RevokeLink(l)
    \/ \E i \in DOMAIN calls : Serve(i) \/ Succeeds(i) \/ Fails(i)
    \/ Join \/ TransferAccepted

PageSpec == PageInit /\ [][PageNext]_pageVars

-----------------------------------------------------------------------------
(* Toggles, pages and joining attendees in any order: once nothing is under way, the
   button, the panel loaded to its end and the service tell one story about me.  Not
   promised when answers are lost, when the event is fetched again meanwhile, or when
   scrolling cut a refetch short. *)
GoingIsOneStory ==
    event # {} /\ calls = <<>> /\ visit.faults = 0 /\ "edit" \notin visit.ops =>
        /\ Shown.isGoing = IsGoing
        /\ PanelShows \in {"list", "empty"} /\ panel.fetch = "no" /\ ~HasNextPage /\ ~panel.cut =>
             Shown.isGoing = (Me \in Listed)

\* Calls one at a time: the open dialog offers every live link for revoking, and none
\* that was revoked.
LinksAreOffered ==
    dialog.open /\ calls = <<>> /\ visit.flight = 1 /\ visit.faults = 0 /\ role = "owner" =>
        /\ Live \subseteq dialog.invites
        /\ \A l \in dialog.invites : offered[l] # "revoked"

\* The page offers what the service allows: nothing is refused before the ownership
\* is lost to a link.
RefusedOnlyAfterLoss ==
    panel.failed \/ (\E i \in DOMAIN calls : calls[i].state = "refused") => role # visit.role

\* The button, the panel, the sharing dialog and the service tell one story, and what the
\* page offers is not refused before the ownership is lost.
PageTellsOneStory == GoingIsOneStory /\ LinksAreOffered /\ RefusedOnlyAfterLoss
==============================================================================
