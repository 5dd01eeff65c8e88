------------------------------- MODULE MCCampus -------------------------------
(***************************************************************************)
(* Events, communities and opportunities, one part at a time: requests     *)
(* about one event inside the service (about links, or about going, which  *)
(* touch different rows), the page of an event, the editing dialog, and    *)
(* the opportunities digest.  They share no state here, so a behaviour     *)
(* runs one of them.                                                       *)
(***************************************************************************)
EXTENDS EventAccess, EventPage, EntityEditor, OpportunitiesPage, TLC

VARIABLE part

CONSTANTS n1, n2, n3
MCPeople == {Me, n1, n2, n3}
MCAttendees == <<n1, n2>>
MCJoining == <<n3>>

-----------------------------------------------------------------------------
(* Visits of the page of an event. *)
OnPage(r, s, x, past, ops, flight, n, f) ==
    [role |-> r, signedIn |-> s, external |-> x, past |-> past, ops |-> ops, flight |-> flight,
     clicks |-> n, faults |-> f]
MCVisits == {
    OnPage("owner", TRUE, FALSE, FALSE, {"toggle", "join"}, 1, 2, 0),
    OnPage("viewer", TRUE, FALSE, FALSE, {"toggle", "export"}, 2, 2, 1),
    OnPage("owner", TRUE, TRUE, FALSE, {"share", "lose"}, 1, 4, 0),
    OnPage("owner", TRUE, TRUE, FALSE, {"share"}, 2, 3, 1),
    OnPage("guest", FALSE, FALSE, FALSE, {"toggle"}, 1, 2, 0),
    OnPage("owner", TRUE, FALSE, TRUE, {"edit", "export", "share", "lose"}, 1, 3, 0)}

-----------------------------------------------------------------------------
(* Visits of the editor; picture 5 is refused, 6 and 7 are stored. *)
EventForm == [description |-> "x", start |-> 2, end |-> 3, policy |-> "open",
              registration_link |-> "", tag |-> "regular"]
CommunityForm == [description |-> "x", type |-> "club", email |-> "e", telegram_url |-> "t.me"]
EventMay(admin) == {"description", "start", "end", "policy", "registration_link"}
                        \cup (IF admin THEN {"tag"} ELSE {})
OfEvent(mode, admin, pictures, ops, n, f) ==
    [kind |-> "event", mode |-> mode, may |-> EventMay(admin), admin |-> admin,
     form |-> EventForm, images |-> [carousel |-> pictures], ops |-> ops, clicks |-> n,
     faults |-> f]
OfCommunity(mode, admin, profile, banner, ops, n) ==
    [kind |-> "community", mode |-> mode, may |-> DOMAIN CommunityForm, admin |-> admin,
     form |-> CommunityForm, images |-> [profile |-> profile, banner |-> banner], ops |-> ops,
     clicks |-> n, faults |-> 0]
MCTasks == {
    OfEvent("create", FALSE, <<>>, {"open", "type", "pick", "save"}, 6, 0),
    OfEvent("create", FALSE, <<>>, {"open", "type", "save", "close"}, 7, 0),
    OfEvent("edit", FALSE, <<6>>, {"open", "pick", "remove", "save", "close"}, 6, 1),
    OfEvent("edit", FALSE, <<6>>, {"open", "pick", "remove", "save"}, 8, 0),
    OfEvent("edit", TRUE, <<>>, {"open", "type", "pick", "save", "delete"}, 4, 0),
    OfCommunity("edit", TRUE, <<6>>, <<7>>, {"open", "type", "save", "delete", "close"}, 5),
    OfCommunity("edit", FALSE, <<6>>, <<7>>, {"open", "pick", "remove", "save"}, 6),
    OfCommunity("create", FALSE, <<>>, <<>>, {"open", "type", "pick", "save", "close"}, 5)}

-----------------------------------------------------------------------------
(* Visits of the digest; today is day 2, so that the third one has expired. *)
Opportunity(id, text, type, majors, elig, deadline) ==
    [id |-> id, text |-> text, type |-> type, majors |-> majors, elig |-> elig,
     deadline |-> deadline]
MCRows == {
    Opportunity(1, "x", "t", <<"m">>, <<<<"UG", 1>>, <<"UG", 2>>>>, 3),
    Opportunity(2, "y", "u", <<>>, <<<<"PhD", 0>>>>, 0),
    Opportunity(3, "x", "t", <<>>, <<<<"UG", 0>>, <<"PhD", 0>>>>, 1)}
OnDigest(manage, s, ops, names, n, f) ==
    [manage |-> manage, signedIn |-> s, ops |-> ops, filters |-> names, texts |-> {"", "x", "bad"},
     dates |-> {0, 3}, clicks |-> n, faults |-> f]
MCOppVisits == {
    OnDigest(FALSE, FALSE, {"filter", "add"}, {"level", "q", "hide_expired"}, 2, 1),
    OnDigest(FALSE, FALSE, {"filter"}, {"type", "q"}, 3, 0),
    OnDigest(FALSE, TRUE, {"filter", "calendar"}, {"majors", "years"}, 2, 0),
    OnDigest(TRUE, TRUE, {"edit", "type", "save", "close"}, {}, 4, 0),
    OnDigest(TRUE, TRUE, {"add", "type", "save"}, {}, 5, 0),
    OnDigest(TRUE, TRUE, {"add", "edit", "save", "delete", "close"}, {}, 5, 1),
    OnDigest(TRUE, TRUE, {"edit", "type", "save", "calendar"}, {}, 4, 0)}
MCTypes == <<"t", "u">>
MCMajors == <<"m">>
MCLevels == <<"UG", "PhD">>

-----------------------------------------------------------------------------
MCvars == <<part, accessVars, pageVars, editorVars, oppVars>>

One(visits) == CHOOSE v \in visits : TRUE
\* A part that does not run stands at one state of its own.
MCInit ==
    /\ part \in {"links", "going", "page", "editor", "opportunities"}
    /\ AccessInit /\ PageInit /\ EditorInit /\ OppInit
    /\ part \notin {"links", "going"} => atOnce = 1
    /\ part # "page" => visit = One(MCVisits)
    /\ part # "editor" => task = One(Tasks)
    /\ part # "opportunities" => oppVisit = One(OppVisits)

Only(half) ==
    \A r \in Busy' : (run'[r].op \in {"going", "notGoing"}) = (half = "going")

MCNext ==
    /\ UNCHANGED part
    /\ \/ /\ part \in {"links", "going"} /\ AccessNext /\ Only(part)
          /\ UNCHANGED <<pageVars, editorVars, oppVars>>
       \/ part = "page" /\ PageNext /\ UNCHANGED <<accessVars, editorVars, oppVars>>
       \/ part = "editor" /\ EditorNext /\ UNCHANGED <<accessVars, pageVars, oppVars>>
       \/ part = "opportunities" /\ OppNext /\ UNCHANGED <<accessVars, pageVars, editorVars>>

\* The service answers, pages are handled, uploads and polls go on, effects run.
EditorStep(step) == part = "editor" /\ step /\ UNCHANGED <<part, accessVars, pageVars, oppVars>>
MCSpec ==
    /\ MCInit /\ [][MCNext]_MCvars
    /\ WF_editorVars(EditorStep(ServeCall)) /\ WF_editorVars(EditorStep(Created))
    /\ WF_editorVars(EditorStep(Updated)) /\ WF_editorVars(EditorStep(Refused))
    /\ WF_editorVars(EditorStep(EventDeleted \/ CommunityDeleted))
    /\ WF_editorVars(EditorStep(\E u \in uploads : GetSignedUrl(u) \/ Put(u)))
    /\ WF_editorVars(EditorStep(\E i \in DOMAIN polls : Poll(i)))
    /\ WF_editorVars(EditorStep(EntityRefetched))
==============================================================================
