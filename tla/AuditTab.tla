------------------------------- MODULE AuditTab -------------------------------
(***************************************************************************)
(* The "Degree Audit" tab (degree-audit-tab.tsx): a program is chosen, the *)
(* transcript is fetched with the registrar password or read from a PDF,   *)
(* and transfer credits are mapped in a second dialog that runs the audit  *)
(* again with the same credentials.                                        *)
(***************************************************************************)
EXTENDS Lists, Sequences, SequencesExt

CONSTANTS
    YearList,   \* admission years in the order of the catalog
    Programs,   \* names of majors and minors, the empty entry among them
    Majors,     \* year of the catalog -> its majors
    Minors,     \* minors of the catalog
    Lines,      \* transfer-credit lines of the transcript
    Stored,     \* results the server may hold: each {} or {[year, majors, minors]}
    MaxPicks,   \* most majors and minors on the form
    Runs,       \* bound on the audits asked for
    Reads       \* bound on the requirements read

Unpicked == "-"  \* the empty entry of a list of majors or minors

ASSUME AuditAssumption ==
    /\ Unpicked \in Programs
    /\ YearList \in Seq(DOMAIN Majors) /\ YearList # <<>>
    /\ \A y \in DOMAIN Majors : Majors[y] \in Seq(Programs)
    /\ \A data \in Stored :
         /\ data = {} \/ data = {CHOOSE d \in data : TRUE}
         /\ \A d \in data : d.majors \in Seq(Programs)

VARIABLES
    catalog,    \* has catalogQuery answered?
    cached,     \* cachedQuery: [known, data], data {} or a singleton
    early,      \* was the dialog opened before that answer? (history)
    year, majors, minors,   \* selectedYear, {} at first, selectedMajors, selectedMinors
    audit,      \* the audit dialog: {} or {[mode, password, pdf]}
    mapping,    \* the transfer-credit dialog: {} or the rows: {line -> mapped?}
    pendingAudit,           \* {} or {[mode, password]}
    request,    \* the mutation under way: {} or {[year, majors, mode, mapped, rerun]}
    result,     \* [status, data] of the mutation
    runs, reads,
    activeAuditIndex,       \* which program of the answer the results card shows
    showReqModal,           \* is the "Degree requirements" dialog open?
    requirements,           \* what requirementsQuery has read: {[key, program]}
    reading                 \* its reads under way: {[key, program]}

auditVars == <<catalog, cached, early, year, majors, minors, audit, mapping, pendingAudit,
               request, result, runs, reads, activeAuditIndex, showReqModal, requirements,
               reading>>
card == <<reads, activeAuditIndex, showReqModal, requirements, reading>>
program == <<year, majors, minors>>
dialogs == <<audit, mapping, pendingAudit>>
queries == <<catalog, cached, early>>

Idle == [status |-> "idle", data |-> {}]
FirstYear == Head(YearList)
isPending == request # {}
Kept(picks, set) == Entries(picks, {k \in DOMAIN picks : picks[k] \in set})
\* majors of the entry of a year the catalog may not have, and majors[0] || "".
Offered(y) == IF y \in DOMAIN Majors THEN Majors[y] ELSE <<>>
First(picks) == IF picks = <<>> THEN Unpicked ELSE Head(picks)

AuditInit ==
    /\ catalog = FALSE /\ cached = [known |-> FALSE, data |-> {}] /\ early = FALSE
    /\ year = {} /\ majors = <<Unpicked>> /\ minors = <<>>
    /\ audit = {} /\ mapping = {} /\ pendingAudit = {}
    /\ request = {} /\ result = Idle /\ runs \in 0..Runs /\ reads \in 0..Reads
    /\ activeAuditIndex = 1 /\ showReqModal = FALSE /\ requirements = {} /\ reading = {}

-----------------------------------------------------------------------------
(* The two effects. *)
\* After an answer: the stored program, otherwise what is picked or the first offer.
Defaults(data) ==
    IF data # {}
    THEN LET d == CHOOSE d \in data : TRUE
         IN  [year |-> {d.year}, majors |-> Kept(d.majors, ToSet(Offered(d.year))),
              minors |-> IF d.minors # <<>> THEN Kept(d.minors, Minors) ELSE minors]
    ELSE LET offered == Offered(FirstYear)
         IN  [year |-> IF year = {} THEN {FirstYear} ELSE year,
              majors |-> IF First(majors) \in ToSet(offered) THEN majors ELSE <<First(offered)>>,
              minors |-> minors]

ForYear_KeepsMajors(y, picks) == picks
\* After a change of the year: the majors that year offers.
ForYear(y, picks) ==
    LET valid == Kept(picks, ToSet(Offered(y)))
    IN  IF valid = <<>> THEN <<First(Offered(y))>> ELSE valid

\* An answer changes the year, and the second effect runs only when it did.
Apply(data) ==
    LET d == Defaults(data)
    IN  /\ year' = d.year /\ minors' = d.minors
        /\ majors' = IF d.year = year THEN d.majors
                     ELSE ForYear(CHOOSE y \in d.year : TRUE, d.majors)

CatalogArrives ==
    /\ ~catalog /\ catalog' = TRUE /\ Apply(cached.data)
    /\ UNCHANGED <<card, cached, early, dialogs, request, result, runs>>

\* The stored result, or null when there is none or the call failed.
CachedArrives(data) ==
    /\ ~cached.known /\ cached' = [known |-> TRUE, data |-> data]
    /\ IF catalog THEN Apply(data) ELSE UNCHANGED program
    /\ UNCHANGED <<card, catalog, early, dialogs, request, result, runs>>

-----------------------------------------------------------------------------
(* Choosing the program in the dialog. *)
Editing == audit # {} /\ ~isPending
Pick(y, ms, ns) ==
    /\ Editing /\ year' = y /\ majors' = ms /\ minors' = ns
    /\ UNCHANGED <<card, queries, dialogs, request, result, runs>>

PickYear(y) == catalog /\ {y} # year /\ Pick({y}, ForYear(y, majors), minors)

Removed(picks, i) == [k \in 1..(Len(picks) - 1) |-> picks[IF k < i THEN k ELSE k + 1]]
ChangeMajors ==
    \/ Len(majors \o minors) < MaxPicks /\ Pick(year, Append(majors, Unpicked), minors)
    \/ \E i \in DOMAIN majors :
         \/ Len(majors) > 1 /\ Pick(year, Removed(majors, i), minors)
         \/ \E y \in year : \E m \in ToSet(Offered(y)) : Pick(year, [majors EXCEPT ![i] = m], minors)
ChangeMinors ==
    \/ Len(majors \o minors) < MaxPicks /\ Pick(year, majors, Append(minors, Unpicked))
    \/ \E i \in DOMAIN minors :
         \/ Pick(year, majors, Removed(minors, i))
         \/ catalog /\ \E m \in Minors : Pick(year, majors, [minors EXCEPT ![i] = m])

-----------------------------------------------------------------------------
(* The audit dialog. *)
OnTab == audit = {} /\ mapping = {} /\ ~showReqModal
Blank(mode) == [mode |-> mode, password |-> FALSE, pdf |-> FALSE]

\* openAuditModal forgets the last answer of the mutation.
OpenAuditModal(mode) ==
    /\ catalog /\ ~isPending /\ OnTab
    /\ early' = (early \/ ~cached.known) /\ audit' = {Blank(mode)}
    /\ mapping' = {} /\ pendingAudit' = {} /\ result' = Idle
    /\ UNCHANGED <<card, catalog, cached, program, request, runs>>

\* A password is typed or cleared, a PDF of at most MAX_PDF_BYTES chosen or dropped.
FillIn ==
    /\ Editing
    /\ audit' = {IF a.mode = "registrar" THEN [a EXCEPT !.password = ~@]
                 ELSE [a EXCEPT !.pdf = ~@] : a \in audit}
    /\ UNCHANGED <<card, queries, program, mapping, pendingAudit, request, result, runs>>

CloseAuditModal ==
    /\ Editing /\ audit' = {}
    /\ UNCHANGED <<card, queries, program, mapping, pendingAudit, request, result, runs>>

Chosen(picks) == Entries(picks, {k \in DOMAIN picks : picks[k] # Unpicked})
AskAudit(mode, mapped, rerun) ==
    /\ ~isPending /\ runs > 0 /\ runs' = runs - 1
    /\ result' = [status |-> "pending", data |-> {}]
    /\ request' = {[year |-> year, majors |-> Chosen(majors), minors |-> Chosen(minors),
                    mode |-> mode, mapped |-> mapped, rerun |-> rerun]}

canSubmitAudit(a) ==
    /\ year # {} /\ First(majors) # Unpicked /\ catalog
    /\ IF a.mode = "pdf" THEN a.pdf ELSE a.password

RunAudit ==
    \E a \in audit : /\ canSubmitAudit(a) /\ AskAudit(a.mode, {}, FALSE)
                     /\ UNCHANGED <<card, queries, program, dialogs>>

\* "Apply and re-run audit" sends the mappings of the rows on the screen.
ApplyMappings ==
    \E rows \in mapping, p \in pendingAudit :
        LET mapped == {l \in DOMAIN rows : rows[l]}
        IN  /\ mapped # {} /\ AskAudit(p.mode, mapped, TRUE)
            /\ UNCHANGED <<card, queries, program, dialogs>>

MapLine(l) ==
    /\ ~isPending /\ \E rows \in mapping :
         l \in DOMAIN rows /\ mapping' = {[rows EXCEPT ![l] = ~@]}
    /\ UNCHANGED <<card, queries, program, audit, pendingAudit, request, result, runs>>

\* "Skip", or the dialog is closed.
Skip ==
    /\ mapping # {} /\ ~isPending /\ mapping' = {} /\ pendingAudit' = {}
    /\ UNCHANGED <<card, queries, program, audit, request, result, runs>>

-----------------------------------------------------------------------------
(* The answer: the server maps nothing but what this request names. *)
Unmapped(r) == Lines \ r.mapped
Rows(lines) == [l \in lines |-> FALSE]

AuditFails ==
    /\ isPending /\ request' = {} /\ result' = [status |-> "error", data |-> {}]
    /\ UNCHANGED <<card, queries, program, dialogs, runs>>

\* mutationFn refuses a program without a year or a major.
\* The first run closes its dialog and keeps the credentials while lines are unmapped.
AuditReturns ==
    \E r \in request :
        /\ r.year # {} /\ r.majors # <<>> /\ request' = {}
        /\ result' = [status |-> "success",
                      data |-> {[year |-> CHOOSE y \in r.year : TRUE, majors |-> r.majors,
                                 minors |-> r.minors]}]
        /\ IF Unmapped(r) # {}
           THEN /\ mapping' = {Rows(Unmapped(r))}
                /\ pendingAudit' = IF r.rerun THEN pendingAudit
                                   ELSE {[mode |-> r.mode, password |-> r.mode = "registrar"]}
           ELSE mapping' = {} /\ pendingAudit' = {}
        /\ audit' = {}
        /\ UNCHANGED <<card, queries, program, runs>>

-----------------------------------------------------------------------------
(* The results card and the requirements of the program it shows. *)
\* The answer of the mutation, otherwise the stored one.
Shown == IF result.data # {} THEN result.data ELSE cached.data
Audits == {d.majors \o d.minors : d \in Shown}
\* An index the new answer does not have shows its first program.
activeAudit ==
    {IF activeAuditIndex \in DOMAIN a THEN a[activeAuditIndex] ELSE a[1] : a \in Audits \ {<<>>}}

SelectAudit(i) ==
    /\ OnTab /\ i # activeAuditIndex /\ \E a \in Audits : i \in DOMAIN a
    /\ activeAuditIndex' = i
    /\ UNCHANGED <<queries, program, dialogs, request, result, runs, reads, showReqModal,
                   requirements, reading>>

reqKey == <<year, activeAudit>>
\* The query is disabled: only this button reads, and what was read of a key is kept.
ViewRequirements ==
    /\ OnTab /\ year # {} /\ activeAudit # {} /\ showReqModal' = TRUE
    /\ reads > 0 /\ reads' = reads - 1
    /\ reading' = {a \in reading : a.key # reqKey}
                   \cup {[key |-> reqKey, program |-> <<year, activeAudit>>]}
    /\ UNCHANGED <<queries, program, dialogs, request, result, runs, activeAuditIndex,
                   requirements>>

RequirementsReturn ==
    /\ \E a \in reading :
         /\ reading' = reading \ {a}
         /\ requirements' = {b \in requirements : b.key # a.key} \cup {a}
    /\ UNCHANGED <<queries, program, dialogs, request, result, runs, reads, activeAuditIndex,
                   showReqModal>>

CloseRequirements ==
    /\ showReqModal /\ showReqModal' = FALSE
    /\ UNCHANGED <<queries, program, dialogs, request, result, runs, reads, activeAuditIndex,
                   requirements, reading>>

AuditNext ==
    \/ \E i \in 1..MaxPicks : SelectAudit(i)
    \/ ViewRequirements \/ RequirementsReturn \/ CloseRequirements
    \/ CatalogArrives \/ \E data \in Stored : CachedArrives(data)
    \/ \E y \in ToSet(YearList) : PickYear(y)
    \/ ChangeMajors \/ ChangeMinors
    \/ \E mode \in {"registrar", "pdf"} : OpenAuditModal(mode)
    \/ FillIn \/ CloseAuditModal \/ RunAudit
    \/ ApplyMappings \/ Skip \/ \E l \in Lines : MapLine(l)
    \/ AuditFails \/ AuditReturns

AuditSpec == AuditInit /\ [][AuditNext]_auditVars

-----------------------------------------------------------------------------
(* "Credentials are used only to fetch your transcript for this audit": when no
   dialog is open the tab holds no password and no audit is under way that would keep
   one, whatever was mapped, skipped or failed. *)
PasswordForgotten == audit = {} /\ mapping = {} => pendingAudit = {} /\ request = {}

\* An audit asks for majors of the year it names, unless the stored result was so
\* slow that it reset what was picked before it came.
AuditedMajorsAreOffered ==
    ~early => \A r \in request : \E y \in r.year :
        r.majors # <<>> /\ ToSet(r.majors) \subseteq ToSet(Offered(y))

\* The rows under the title "<program> . <year>" are the requirements of that program in
\* that year, however many programs and years were looked at and however slowly read.
RequirementsMatchTitle ==
    showReqModal => \A a \in requirements :
        a.key = reqKey => a.program = <<year, activeAudit>>

\* What is audited was offered for its year, the requirements read are those of the
\* title above them, and no password outlives its dialog.
AuditIsOfItsPicks == AuditedMajorsAreOffered /\ RequirementsMatchTitle /\ PasswordForgotten
==============================================================================
