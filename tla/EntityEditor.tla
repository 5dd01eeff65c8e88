---------------------------- MODULE EntityEditor ----------------------------
(***************************************************************************)
(* The dialog that creates, edits or deletes an event or a community: the  *)
(* typed fields, which outlive the dialog, the image zones, which do not,  *)
(* the save, and what goes on in the background after it: the uploads and  *)
(* the polling until an image is there.  A picture stands for the file,    *)
(* its preview and the image stored from it.                               *)
(***************************************************************************)
EXTENDS Lists, Sequences, SequencesExt

CONSTANTS
    Stored,         \* images that were there before
    Pictures, BadPictures,  \* what may be picked; of a wrong type or too large
    MaxAttempts,    \* of one polling
    Tasks           \* [kind, mode, may, admin, form, images, ops, clicks, faults]

VARIABLES
    task,
    server,     \* {} or {[form, images]}
    page,       \* the entity in the query of the page, {} when creating
    outdated,   \* it must be fetched again
    isOpen, showDeleteConfirm,
    form,       \* EventFormProvider or CommunityFormProvider: field -> value
    zones,      \* UnifiedMediaProvider of each zone, inside the dialog
    call,       \* the save or delete under way: {} or {[op, form, delete, state]}
    uploads,    \* [zone, picture, step]
    polls,      \* attempts left of each polling
    taps, losses,
    picked, removed,    \* pictures picked, images whose removal was clicked
    promised,   \* {} or what was on screen when Save was clicked last
    calm,       \* nothing came between opening the dialog and the end of the save
    gaveUp      \* a polling ended without an image

editorVars == <<task, server, page, outdated, isOpen, showDeleteConfirm, form, zones, call, uploads,
                polls, taps, losses, picked, removed, promised, calm, gaveUp>>
background == <<uploads, polls, gaveUp>>
screen == <<isOpen, showDeleteConfirm, form, zones>>
history == <<picked, removed, promised, calm>>

-----------------------------------------------------------------------------
(* Fields.  Only what the checks tell apart: the required text, and the
   fields with rules of their own. *)
EventDates == [start |-> {0, 2}, end |-> {0, 1, 3}]
EventFields == [policy |-> {"open", "registration"}, registration_link |-> {"", " ", "u"},
                tag |-> {"regular", "featured"}]
CommunityFields == [type |-> {"club", "union"}, email |-> {"", "e", "bad"},
                    telegram_url |-> {"", "t.me", "bad"}]
EmptyEvent == [description |-> "", start |-> 0, end |-> 0, policy |-> "open",
               registration_link |-> "", tag |-> "regular"]
EmptyCommunity == [description |-> "", type |-> "club", email |-> "", telegram_url |-> ""]
EmptyOf(kind) == IF kind = "event" THEN EmptyEvent ELSE EmptyCommunity
EmptyForm == EmptyOf(task.kind)

Editing == task.mode = "edit"
IsFieldEditable(field) == Editing => field \in task.may
Offered(field) ==
    /\ field = "registration_link" => form.policy = "registration"
    /\ field = "tag" => Editing /\ task.admin

EventComplete ==
    /\ form.description # "" /\ form.start # 0 /\ form.end # 0
    /\ form.policy = "registration" => form.registration_link \notin {"", " "}
    /\ Editing => task.may # {}
EndsAfterStart == form.end > form.start
UrlValid(url) == url # "bad"
ValidateForm == form.description # "" /\ form.email # "bad" /\ UrlValid(form.telegram_url)
MaySave == IF task.kind = "event" THEN EventComplete /\ EndsAfterStart ELSE ValidateForm

\* What a save changes: the tag of an event is sent for an admin; the type of an edited
\* community is not sent, nor is an optional field that is empty.
SavedEvent(old, new) == [new EXCEPT !.tag = IF task.admin THEN @ ELSE old.tag]
SavedCommunity(old, new) ==
    [new EXCEPT !.type = IF Editing THEN old.type ELSE @,
                !.email = IF @ = "" THEN old.email ELSE @,
                !.telegram_url = IF @ = "" THEN old.telegram_url ELSE @]
Saved(old, new) == IF task.kind = "event" THEN SavedEvent(old, new) ELSE SavedCommunity(old, new)

-----------------------------------------------------------------------------
(* Image zones. *)
ZonesOf(kind) == IF kind = "event" THEN {"carousel"} ELSE {"profile", "banner"}
Zones == ZonesOf(task.kind)
\* Of each zone of the two dialogs.
MaxFiles == 1
EmptyZone == [mediaFiles |-> <<>>, previewMedia |-> <<>>, originalMedia |-> <<>>,
              mediaToDelete |-> <<>>, reading |-> <<>>]
NoImages == [z \in Zones |-> <<>>]
SetOriginalMedia(zone, media) == [zone EXCEPT !.originalMedia = media, !.previewMedia = media]
\* The effect of each zone; that of an event leaves a zone alone when no image is left.
Initialized(zone, media) ==
    IF task.kind = "event" /\ media = <<>> THEN zone ELSE SetOriginalMedia(zone, media)
Images(entity) == UNION {ToSet(entity.images[z]) : z \in Zones}
The(entity) == CHOOSE e \in entity : TRUE
Mounted == [z \in Zones |-> IF page = {} THEN EmptyZone
                            ELSE Initialized(EmptyZone, The(page).images[z])]
Unmounted == [z \in Zones |-> EmptyZone]
CanAddMoreFiles(z) == Len(zones[z].originalMedia) + Len(zones[z].mediaFiles) < MaxFiles
Marked == UNION {ToSet(zones[z].mediaToDelete) : z \in Zones}
OnScreen == [z \in Zones |-> ToSet(zones[z].previewMedia)]

\* A stored event ends after it starts; a stored image is of one zone and not a file that
\* is still to be picked.
ASSUME EditorAssumption ==
    /\ Stored \cap Pictures = {}
    /\ \A t \in Tasks :
          /\ t.kind \in {"event", "community"} /\ t.mode \in {"create", "edit"}
          /\ DOMAIN t.form = DOMAIN EmptyOf(t.kind)
          /\ t.kind = "event" => t.form.end > t.form.start
          /\ t.images \in [ZonesOf(t.kind) -> Seq(Stored)]
          /\ \A z \in ZonesOf(t.kind) : Len(t.images[z]) <= MaxFiles
          /\ \A y, z \in ZonesOf(t.kind) : y # z => ToSet(t.images[y]) \cap ToSet(t.images[z]) = {}

-----------------------------------------------------------------------------
EditorInit ==
    /\ task \in Tasks
    /\ server = IF Editing THEN {[form |-> task.form, images |-> task.images]} ELSE {}
    /\ page = server /\ outdated = FALSE
    /\ isOpen = FALSE /\ showDeleteConfirm = FALSE /\ zones = Unmounted
    /\ form = IF Editing THEN task.form ELSE EmptyForm
    /\ call = {} /\ uploads = {} /\ polls = <<>> /\ taps = task.clicks /\ losses = task.faults
    /\ picked = {} /\ removed = {} /\ promised = {} /\ calm = TRUE /\ gaveUp = FALSE

IsProcessing == call # {}
Tap(op) == op \in task.ops /\ taps > 0 /\ taps' = taps - 1
AtRest == call = {} /\ uploads = {}

Open ==
    /\ ~isOpen /\ (Editing => page # {}) /\ Tap("open")
    /\ isOpen' = TRUE /\ zones' = Mounted
    /\ calm' = (calm /\ AtRest /\ (Editing => page = server))
    /\ UNCHANGED <<task, server, page, outdated, showDeleteConfirm, form, call, background, losses,
                   picked, removed, promised>>

\* Closing does not stop a call, and keeps what was typed.
Close ==
    /\ isOpen /\ ~showDeleteConfirm /\ Tap("close")
    /\ isOpen' = FALSE /\ zones' = Unmounted /\ calm' = (calm /\ ~IsProcessing)
    /\ UNCHANGED <<task, server, page, outdated, showDeleteConfirm, form, call, background, losses,
                   picked, removed, promised>>

EditDialog ==
    /\ isOpen /\ ~showDeleteConfirm
    /\ UNCHANGED <<task, server, page, outdated, isOpen, showDeleteConfirm, call, background,
                   losses, promised>>

Change(field, value) ==
    /\ EditDialog /\ IsFieldEditable(field) /\ Offered(field) /\ Tap("type")
    /\ form[field] # value /\ form' = [form EXCEPT ![field] = value]
    /\ UNCHANGED <<zones, picked, removed, calm>>

\* Typing, the buttons of the Markdown toolbar, and a link inserted.
Describe == \E text \in {"", "x", "y"} : Change("description", text)
PickDate == \E field \in DOMAIN EventDates : \E day \in EventDates[field] : Change(field, day)
SetEventField ==
    \E field \in DOMAIN EventFields : \E value \in EventFields[field] : Change(field, value)
SetCommunityField ==
    \E field \in DOMAIN CommunityFields : \E value \in CommunityFields[field] : Change(field, value)
Type ==
    \/ Describe
    \/ task.kind = "event" /\ (PickDate \/ SetEventField)
    \/ task.kind = "community" /\ SetCommunityField

\* A picture of a wrong type or too large, or one too many, is refused.
IsValidPick(z, p) == p \notin BadPictures /\ CanAddMoreFiles(z)
\* addFiles starts a FileReader for the preview.
Added(zone, p) == [zone EXCEPT !.mediaFiles = Append(@, p), !.reading = Append(@, p)]
\* Chosen in the dialog for files, or dropped on the zone.
AddFile(z, p) ==
    /\ EditDialog /\ IsValidPick(z, p) /\ p \notin picked /\ Tap("pick")
    /\ zones' = [zones EXCEPT ![z] = Added(@, p)]
    /\ picked' = picked \cup {p} /\ calm' = (calm /\ ~IsProcessing)
    /\ UNCHANGED <<form, removed>>

\* FileReader is done with one of the files.
PreviewRead(z, i) ==
    /\ isOpen /\ i \in DOMAIN zones[z].reading
    /\ zones' = [zones EXCEPT ![z].previewMedia = Append(@, zones[z].reading[i]),
                              ![z].reading = RemoveAt(@, i)]
    /\ UNCHANGED <<task, server, page, outdated, isOpen, showDeleteConfirm, form, call, background,
                   taps, losses, history>>

RemoveFile_NotMarked(zone, i) ==
    LET existing == Len(zone.originalMedia) IN
    [zone EXCEPT !.previewMedia = RemoveAt(@, i),
                 !.originalMedia = IF i <= existing THEN RemoveAt(@, i) ELSE @,
                 !.mediaFiles = IF i > existing /\ i - existing <= Len(@)
                                THEN RemoveAt(@, i - existing) ELSE @]
RemoveFile(zone, i) ==
    LET existing == Len(zone.originalMedia) IN
    [RemoveFile_NotMarked(zone, i) EXCEPT
        !.mediaToDelete = IF i <= existing THEN Append(@, zone.originalMedia[i]) ELSE @]

RemoveMedia(z, i) ==
    /\ EditDialog /\ i \in DOMAIN zones[z].previewMedia /\ Tap("remove")
    /\ zones' = [zones EXCEPT ![z] = RemoveFile(@, i)]
    /\ removed' = removed \cup {zones[z].previewMedia[i]} /\ calm' = (calm /\ ~IsProcessing)
    /\ UNCHANGED <<form, picked>>

-----------------------------------------------------------------------------
(* Saving: handleSubmit. *)
Submit ==
    /\ isOpen /\ ~showDeleteConfirm /\ ~IsProcessing /\ MaySave /\ Tap("save")
    /\ call' = {[op |-> task.mode, form |-> form, delete |-> Marked, state |-> "sent"]}
    /\ promised' = {[form |-> form, images |-> OnScreen]}
    /\ calm' = (calm /\ \A z \in Zones : zones[z].reading = <<>>)
    /\ UNCHANGED <<task, server, page, outdated, screen, background, losses, picked, removed>>

AskDelete ==
    /\ isOpen /\ Editing /\ (task.kind = "event" \/ task.admin) /\ ~IsProcessing
    /\ ~showDeleteConfirm /\ Tap("delete") /\ showDeleteConfirm' = TRUE
    /\ UNCHANGED <<task, server, page, outdated, isOpen, form, zones, call, background, losses,
                   history>>
AnswerDelete(yes) ==
    /\ showDeleteConfirm /\ ~IsProcessing /\ showDeleteConfirm' = yes
    /\ call' = IF yes THEN {[op |-> "delete", form |-> form, delete |-> {}, state |-> "sent"]}
                ELSE {}
    /\ UNCHANGED <<task, server, page, outdated, isOpen, form, zones, background, taps, losses,
                   history>>

\* The service: an id of an image that is gone fails the whole request.
Keeping(images, ids) ==
    [z \in Zones |-> Entries(images[z], {i \in DOMAIN images[z] : images[z][i] \notin ids})]
ServeCall ==
    \E c \in call :
        LET is(state) == call' = {[c EXCEPT !.state = state]}
            found == \E e \in server : c.delete \subseteq Images(e)
        IN
        /\ c.state = "sent"
        /\ \/ /\ c.op = "create" /\ is("done")
              /\ server' = {[form |-> Saved(EmptyForm, c.form), images |-> NoImages]}
           \/ /\ c.op = "edit" /\ found /\ is("done")
              /\ server' = {[form |-> Saved(The(server).form, c.form),
                             images |-> Keeping(The(server).images, c.delete)]}
           \/ c.op = "edit" /\ ~found /\ is("refused") /\ UNCHANGED server
           \/ c.op = "delete" /\ server' = {} /\ is("done")
        /\ UNCHANGED <<task, page, outdated, screen, background, taps, losses, history>>

\* The zones as they are now: without the dialog nothing is uploaded.
Upload(z) == {[zone |-> z, picture |-> p, step |-> "sign"] : p \in ToSet(zones[z].mediaFiles)}
SaveReturns(op) ==
    /\ \E c \in call : c.state = "done" /\ c.op = op
    /\ call' = {} /\ isOpen' = FALSE /\ zones' = Unmounted
    /\ uploads' = uploads \cup UNION {Upload(z) : z \in Zones}
    /\ polls' = Append(polls, MaxAttempts)
    /\ UNCHANGED <<task, server, page, showDeleteConfirm, gaveUp, taps, losses, history>>
Created == SaveReturns("create") /\ form' = EmptyForm /\ UNCHANGED outdated
Updated == SaveReturns("edit") /\ outdated' = TRUE /\ UNCHANGED form

Deleted ==
    /\ \E c \in call : c.state = "done" /\ c.op = "delete"
    /\ call' = {} /\ promised' = {} /\ showDeleteConfirm' = FALSE /\ isOpen' = FALSE
    /\ zones' = Unmounted
    /\ UNCHANGED <<task, server, outdated, form, background, taps, losses, picked, removed, calm>>
\* The page of an event is left for the list; that of a community stays.
EventDeleted == task.kind = "event" /\ Deleted /\ page' = {}
CommunityDeleted == task.kind = "community" /\ Deleted /\ UNCHANGED page

\* The dialog stays as it is.
CallFails ==
    /\ call' = {} /\ promised' = {}
    /\ UNCHANGED <<task, server, page, outdated, screen, background, taps, picked, removed>>
Refused == (\E c \in call : c.state = "refused") /\ CallFails /\ UNCHANGED <<losses, calm>>
\* Lost before or after the service did it.
Lost ==
    /\ \E c \in call : c.state # "refused"
    /\ losses > 0 /\ losses' = losses - 1 /\ calm' = FALSE /\ CallFails

-----------------------------------------------------------------------------
(* In the background. *)
InBackground ==
    UNCHANGED <<task, page, outdated, screen, call, polls, taps, losses, history, gaveUp>>
\* Compressed, at worst left as it is, and given an address to be sent to.
GetSignedUrl(u) ==
    /\ u \in uploads /\ u.step = "sign"
    /\ uploads' = (uploads \ {u}) \cup {[u EXCEPT !.step = "put"]}
    /\ UNCHANGED server /\ InBackground
\* The bucket tells the service, which stores the image.
Put(u) ==
    /\ u \in uploads /\ u.step = "put" /\ uploads' = uploads \ {u}
    /\ server' = {[e EXCEPT !.images[u.zone] = Append(@, u.picture)] : e \in server}
    /\ InBackground
\* Also a PUT that fails ends in "Upload successful": nobody looks at its answer.
UploadLost(u) ==
    /\ u \in uploads /\ losses > 0 /\ losses' = losses - 1
    /\ uploads' = uploads \ {u} /\ calm' = FALSE
    /\ UNCHANGED <<task, server, page, outdated, screen, call, polls, taps, picked, removed,
                   promised, gaveUp>>

HasImage == \E e \in server : Images(e) # {}
\* pollForEventImages and pollForCommunityImages: any image will do.
PollFinds_NoRefresh == outdated' = outdated
PollFinds == outdated' = (outdated \/ Editing)
Poll(i) ==
    /\ i \in DOMAIN polls
    /\ LET found == HasImage
           last == server = {} \/ polls[i] = 1
       IN
       \/ found /\ PollFinds /\ polls' = RemoveAt(polls, i) /\ UNCHANGED gaveUp
       \/ ~found /\ ~last /\ polls' = [polls EXCEPT ![i] = @ - 1] /\ UNCHANGED <<outdated, gaveUp>>
       \/ ~found /\ last /\ polls' = RemoveAt(polls, i) /\ gaveUp' = TRUE /\ UNCHANGED outdated
    /\ UNCHANGED <<task, server, page, screen, call, uploads, taps, losses, history>>

\* A refetch gives a new object when something changed, also when an image has a newly
\* signed address; the effects of the form and of the zones run on it.
EntityRefetched ==
    /\ outdated /\ page # {} /\ server # {} /\ outdated' = FALSE /\ page' = server
    /\ IF server = page /\ Images(The(server)) = {} THEN UNCHANGED <<form, zones, calm>>
       ELSE /\ form' = The(server).form
            /\ zones' = IF isOpen
                        THEN [z \in Zones |-> Initialized(zones[z], The(server).images[z])]
                        ELSE zones
            /\ calm' = (calm /\ ~isOpen)
    /\ UNCHANGED <<task, server, isOpen, showDeleteConfirm, call, background, taps, losses,
                   picked, removed, promised>>

EditorNext ==
    \/ Open \/ Close \/ Type \/ Submit \/ AskDelete
    \/ ServeCall \/ Created \/ Updated \/ EventDeleted \/ CommunityDeleted \/ Refused \/ Lost
    \/ \E z \in Zones : \/ \E p \in Pictures : AddFile(z, p)
                        \/ \E i \in 1..(MaxFiles + 1) : PreviewRead(z, i) \/ RemoveMedia(z, i)
    \/ \E yes \in BOOLEAN : AnswerDelete(yes)
    \/ \E u \in uploads : GetSignedUrl(u) \/ Put(u) \/ UploadLost(u)
    \/ \E i \in DOMAIN polls : Poll(i)
    \/ EntityRefetched

EditorSpec == EditorInit /\ [][EditorNext]_editorVars

-----------------------------------------------------------------------------
(* After a save that nothing came between, the text and the images on screen when Save
   was clicked are the ones stored, one image per zone at most. *)
SavedIsShown ==
    AtRest /\ calm /\ server # {} =>
        \A p \in promised :
            /\ The(server).form.description = p.form.description
            /\ \A z \in Zones : /\ ToSet(The(server).images[z]) = p.images[z]
                                /\ Len(The(server).images[z]) <= MaxFiles

\* Whatever is refetched, closed or lost meanwhile, an image is deleted only if its
\* removal was clicked, and an event never ends before it starts.
OnlyRemovedIsDeleted ==
    \A e \in server :
        /\ Editing => \A z \in Zones : ToSet(task.images[z]) \ Images(e) \subseteq removed
        /\ task.kind = "event" => e.form.end > e.form.start

\* A save that nothing came between stores what was on screen; in any case an image is
\* deleted only if its removal was clicked.
SavesAreTrue == SavedIsShown /\ OnlyRemovedIsDeleted

\* The page of an edited event shows in the end the images stored for it, unless a
\* polling ended before an upload did.
ImagesAppear ==
    <>[](task.kind = "event" /\ Editing /\ calm /\ ~gaveUp =>
             \A e \in server, shown \in page : shown.images = e.images)
==============================================================================
