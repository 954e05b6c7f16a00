--------------------------- MODULE ProjectsConsole ---------------------------
(***************************************************************************)
(* The page of projects (ProjectsPage): the list, the details of the       *)
(* selected project, and the dialog that creates a project or edits its    *)
(* bucket and CDN bindings.                                                *)
(*                                                                         *)
(* The dialog covers the page, so its form changes only by the user: what  *)
(* it holds when it is submitted is chosen then, among all that can be     *)
(* made of what it was opened with.  The server handles what it is sent at *)
(* once; the answer takes its time.                                        *)
(***************************************************************************)
EXTENDS ConsolePage

CONSTANTS
  Kinds,           \* "buckets", "cdns": the form handles the two lists alike
  Providers,
  MaxWrites,       \* creations and edits, by this page or somebody else
  OtherBindings    \* what somebody else may write to a project

MaxRows == 2

ASSUME KindsAssumption == Kinds \subseteq {"buckets", "cdns"}
ASSUME ProvidersAssumption == Providers # {}
ASSUME WritesAssumption == MaxWrites \in Nat

-----------------------------------------------------------------------------
(* Bindings.                                                               *)

\* A row has a credential unless a creation or the endpoint of the CDNs, neither
\* of which resolves KEEP, stored it with an empty one.
BindingRows == [provider : Providers, credential : BOOLEAN]
Bindings == [Kinds -> SeqOf(BindingRows, MaxRows)]
AllCredentials(rows) == \A kind \in Kinds : \A k \in DOMAIN rows[kind] : rows[kind][k].credential

ASSUME OtherBindingsAssumption == OtherBindings \subseteq Bindings

\* A project as the server answers it: a write inserts all rows of a kind anew, so
\* that the number of the write and a place identify a row.
WriteNumbers == [Kinds -> 0..MaxWrites]
Stored == [written : WriteNumbers, rows : Bindings]
Numbered(n) == [kind \in Kinds |-> n]

\* A row of the form: the place of the binding it was filled with, or 0.
FormRows == [from : 0..MaxRows, original : Providers, provider : Providers, replace : BOOLEAN]

\* openEditModal fills a row per binding, kept under its provider.
Filled(bindings) ==
  [k \in DOMAIN bindings |->
     [from |-> k, original |-> bindings[k].provider, provider |-> bindings[k].provider,
      replace |-> FALSE]]

\* What the user can make of the rows: remove some, change the provider and
\* the switch of those left, and add new ones while there are less than two.
Edited(rows) ==
  LET kept == {[from |-> k, original |-> rows[k].original, provider |-> r, replace |-> replace] :
                 k \in DOMAIN rows, r \in Providers, replace \in BOOLEAN}
      new == {[from |-> 0, original |-> r, provider |-> r, replace |-> TRUE] : r \in Providers}
  IN {edited \in SeqOf(kept \cup new, MaxRows) :
        \A j, k \in DOMAIN edited :
          j < k => edited[k].from = 0 \/ edited[j].from \in 1..(edited[k].from - 1)}

\* validateProjectBindingCounts
BindingCountsValid(rows, primaries) ==
  /\ Len(rows) <= MaxRows
  /\ Len(rows) > 0 => Cardinality(primaries) = 1

\* shouldReplaceCredential
ShouldReplaceCredential(mode, row) == mode = "create" \/ row.from = 0 \/ row.replace

\* Mutant of ProviderChanged: a row may keep its credential under a new provider.
ProviderChangedUnnoticed(mode, row) == FALSE

\* submitProject refuses to send a row that keeps a credential of another provider.
ProviderChanged(mode, row) ==
  mode = "edit" /\ ~ShouldReplaceCredential(mode, row) /\ row.original # row.provider

\* Why the server refuses a row for its credential, if it does, in the order of its
\* checks: the row is to be kept, and the project has no such row, or has it for
\* another provider, or without a credential.
Refusal(form, target, project, kind, k) ==
  LET row == form.rows[kind][k]
      there == form.of = target /\ form.written[kind] = project.written[kind]
      existing == project.rows[kind][row.from]
  IN IF ShouldReplaceCredential(form.mode, row) THEN None
     ELSE IF ~there THEN "credential_missing_for_new_binding"
     ELSE IF existing.provider # row.provider THEN "provider_change_requires_credential_replace"
     ELSE IF ~existing.credential THEN "credential_not_found_for_keep"
     ELSE None

RefusedFor(form, target, project) ==
  {place \in Kinds \X (1..MaxRows) :
     /\ place[2] \in DOMAIN form.rows[place[1]]
     /\ Refusal(form, target, project, place[1], place[2]) # None}

\* The first of them: buckets are looked at before CDNs.
FirstPlace(places) ==
  CHOOSE p \in places : \A q \in places :
    IF p[1] = q[1] THEN p[2] <= q[2] ELSE p[1] = "buckets"

\* resolveCredentialOperationFieldError and resolveProviderRegistrationFieldError:
\* the field of the row that the answer names.
FieldOf(code) ==
  CASE code = "provider_change_requires_credential_replace" -> "providerType"
    [] code = "credential_missing_for_new_binding" -> "accessKeyId"
    [] code = "credential_not_found_for_keep" -> "replaceCredential"
    [] code = "provider_not_registered" -> "providerType"

FieldError(code, place) == [kind |-> place[1], index |-> place[2], field |-> FieldOf(code)]

-----------------------------------------------------------------------------
VARIABLES
  stored,             \* the server: the projects there are
  writes,             \* and how often one was written
  isAdmin,            \* isPlatformAdminRole
  projectRows,        \* projects
  projectsError, loadingList,
  selectedProjectId,
  selectedProject,    \* the details shown
  loadingDetail,
  projectModal,       \* editVisible and projectModalMode
  projectForm,        \* what the dialog was opened with
  fieldError,
  submitting,
  projectCalls

projectsVars == <<stored, writes, isAdmin, projectRows, projectsError, loadingList, selectedProjectId,
                  selectedProject, loadingDetail, projectModal, projectForm, fieldError,
                  submitting, projectCalls>>

Details == [of : Projects, written : WriteNumbers, rows : Bindings]
NoForm == [mode |-> "create", of |-> None, written |-> Numbered(0),
           rows |-> [kind \in Kinds |-> <<>>]]

Verdicts == {"written", "credential", "other"}

ProjectCalls ==
  [op : {"list", "detail", "create", "edit"},
   stage : {"sent", "list", "detail"},
   of : Projects \cup {None},           \* the project asked for or written
   selected : Projects \cup {None},     \* selectedProjectId of its rendering
   verdict : Verdicts \cup {None},
   error : [kind : Kinds, index : 1..MaxRows,
            field : {"providerType", "accessKeyId", "replaceCredential"}] \cup {None},
   \* whose form was sent, whether it showed the project as it was stored then, and
   \* whether all those rows had credentials
   form : [of : Projects \cup {None}, current : BOOLEAN, complete : BOOLEAN]]
ASSUME ProjectCallsAssumption == Idle \notin ProjectCalls

ProjectsTypeOK ==
  /\ stored \in [Projects -> Stored \cup {None}]
  /\ writes \in 0..MaxWrites
  /\ projectRows \in SUBSET Projects
  /\ {isAdmin, projectsError, loadingList, loadingDetail, submitting} \subseteq BOOLEAN
  /\ selectedProjectId \in Projects \cup {None}
  /\ selectedProject \in Details \cup {None}
  /\ projectModal \in {"none", "create", "edit"}
  /\ projectForm.of \in Projects \cup {None}
  /\ projectCalls \in [CallIds -> ProjectCalls \cup {Idle}]

NothingSent == [of |-> None, current |-> FALSE, complete |-> FALSE]

ListCall ==
  [op |-> "list", stage |-> "list", of |-> None, selected |-> selectedProjectId,
   verdict |-> None, error |-> None, form |-> NothingSent]
DetailCall(p) ==
  [op |-> "detail", stage |-> "detail", of |-> p, selected |-> None,
   verdict |-> None, error |-> None, form |-> NothingSent]

ProjectsInit ==
  /\ LET One(given) == [provider |-> CHOOSE r \in Providers : TRUE, credential |-> given]
         Ones(given) == [written |-> Numbered(0), rows |-> [kind \in Kinds |-> <<One(given)>>]]
     IN stored \in [Projects -> {Ones(given) : given \in BOOLEAN} \cup {None}]
  /\ writes = 0 /\ isAdmin \in BOOLEAN
  /\ projectRows = {} /\ projectsError = FALSE /\ loadingList = TRUE
  /\ selectedProjectId = None /\ selectedProject = None /\ loadingDetail = FALSE
  /\ projectModal = "none" /\ projectForm = NoForm /\ fieldError = None /\ submitting = FALSE
  /\ \E c \in CallIds : projectCalls = Started(NoCalls, c, ListCall)

ProjectsAt(stage) == {c \in CallIds : projectCalls[c] # Idle /\ projectCalls[c].stage = stage}

ProjectDialogUnchanged == UNCHANGED <<projectModal, projectForm, fieldError, submitting>>
ProjectPageUnchanged ==
  UNCHANGED <<projectRows, projectsError, loadingList, selectedProjectId, selectedProject,
              loadingDetail>>

\* setSelectedProjectId and the effect that loads the details of another project;
\* "calls" are the others under way, and "loading" whether one is for details.
SelectId(p, calls, loading) ==
  /\ selectedProjectId' = p
  /\ IF p = None \/ p = selectedProjectId
       THEN projectCalls' = calls /\ loadingDetail' = loading
       ELSE /\ \E c \in CallIds : calls[c] = Idle /\ projectCalls' = Started(calls, c, DetailCall(p))
            /\ loadingDetail' = TRUE

-----------------------------------------------------------------------------
(* List and details.                                                       *)

\* fetchProjects up to its request.
RefreshProjects(c) ==
  /\ projectModal = "none" /\ projectCalls[c] = Idle
  /\ projectCalls' = Started(projectCalls, c, ListCall)
  /\ loadingList' = TRUE /\ projectsError' = FALSE
  /\ ProjectDialogUnchanged
  /\ UNCHANGED <<stored, writes, isAdmin, projectRows, selectedProjectId, selectedProject, loadingDetail>>

ChooseProject ==
  /\ projectModal = "none" /\ ~projectsError /\ ~loadingList
  /\ \E p \in projectRows \ {selectedProjectId} : SelectId(p, projectCalls, loadingDetail)
  /\ ProjectDialogUnchanged
  /\ UNCHANGED <<stored, writes, isAdmin, projectRows, projectsError, loadingList, selectedProject>>

\* The lists the server may answer with: all projects, or those whose name matches.
Lists == IF isAdmin THEN SUBSET {p \in Projects : stored[p] # None} ELSE {}

\* fetchProjects after its request: a list without the project that was selected
\* when the handler began selects its first, and an empty one clears the page;
\* "rest" are the calls after it, "loading" whether details are awaited.
TakeList(call, rest, loading) ==
  \/ \E items \in Lists :
       /\ projectRows' = items /\ UNCHANGED projectsError
       /\ IF items = {}
            THEN SelectId(None, rest, loading) /\ selectedProject' = None
            ELSE /\ \E p \in IF call.selected \in items THEN {selectedProjectId} ELSE items :
                      SelectId(p, rest, loading)
                 /\ UNCHANGED selectedProject
  \/ /\ projectsError' = TRUE /\ projectCalls' = rest /\ loadingDetail' = loading
     /\ UNCHANGED <<projectRows, selectedProjectId, selectedProject>>

ProjectListAnswer(c) ==
  /\ c \in ProjectsAt("list") /\ projectCalls[c].op = "list"
  /\ TakeList(projectCalls[c], Ended(projectCalls, c), loadingDetail)
  /\ loadingList' = FALSE
  /\ ProjectDialogUnchanged /\ UNCHANGED <<stored, writes, isAdmin>>

\* fetchProjectDetail after its request, on its own or at the end of a submission.
ProjectDetailAnswer(c) ==
  /\ c \in ProjectsAt("detail")
  /\ LET p == projectCalls[c].of
     IN \/ /\ isAdmin /\ stored[p] # None
           /\ selectedProject' = [of |-> p, written |-> stored[p].written, rows |-> stored[p].rows]
        \/ selectedProject' = None
  /\ loadingDetail' = FALSE
  /\ submitting' = IF projectCalls[c].op = "detail" THEN submitting ELSE FALSE
  /\ projectCalls' = Ended(projectCalls, c)
  /\ UNCHANGED <<stored, writes, isAdmin, projectRows, projectsError, loadingList, selectedProjectId,
                 projectModal, projectForm, fieldError>>

-----------------------------------------------------------------------------
(* The dialog.                                                             *)

OpenEditModal ==
  /\ isAdmin /\ projectModal = "none" /\ selectedProject # None
  /\ projectModal' = "edit" /\ fieldError' = None
  /\ projectForm' = [mode |-> "edit", of |-> selectedProject.of, written |-> selectedProject.written,
                     rows |-> [kind \in Kinds |-> Filled(selectedProject.rows[kind])]]
  /\ ProjectPageUnchanged /\ UNCHANGED <<stored, writes, isAdmin, submitting, projectCalls>>

OpenCreateModal ==
  /\ isAdmin /\ projectModal = "none"
  /\ projectModal' = "create" /\ fieldError' = None /\ projectForm' = NoForm
  /\ ProjectPageUnchanged /\ UNCHANGED <<stored, writes, isAdmin, submitting, projectCalls>>

CancelModal ==
  /\ projectModal # "none" /\ projectModal' = "none" /\ fieldError' = None /\ projectForm' = NoForm
  /\ ProjectPageUnchanged /\ UNCHANGED <<stored, writes, isAdmin, submitting, projectCalls>>

\* The bindings of a project that was created with, or replaced by, a form: with
\* the credentials given, and those kept.
Written(form) ==
  [kind \in Kinds |->
     [k \in DOMAIN form.rows[kind] |->
        [provider |-> form.rows[kind][k].provider, credential |-> TRUE]]]

ShowsStored(target) ==
  /\ projectForm.of = target /\ stored[target] # None
  /\ stored[target].written = projectForm.written

WriteCall(target, outcome) ==
  [op |-> projectForm.mode, stage |-> "sent", of |-> target, selected |-> selectedProjectId,
   verdict |-> outcome.verdict, error |-> outcome.error,
   form |-> [of |-> projectForm.of, current |-> ShowsStored(target),
             complete |-> ShowsStored(target) /\ AllCredentials(stored[target].rows)]]

Outcome(verdict, error, rows) == [verdict |-> verdict, error |-> error, rows |-> rows]

\* What the server may make of a form: the rows that keep a credential must be there
\* with one; it may refuse for other reasons, one of which is placed at a row.
Handle(target, form) ==
  LET project == stored[target]
      refused == RefusedFor(form, target, project)
      place == FirstPlace(refused)
      code == Refusal(form, target, project, place[1], place[2])
  IN {IF refused = {} THEN Outcome("written", None, Written(form))
                      ELSE Outcome("credential", FieldError(code, place), None),
      Outcome("other", None, None)}
     \cup {Outcome("other", FieldError("provider_not_registered", <<kind, 1>>), None) :
             kind \in {kind \in Kinds : form.rows[kind] # <<>>}}

\* The forms that can be made of one and that the page does not refuse to send.
Submittable(form) ==
  LET edits == [kind \in Kinds |-> Edited(form.rows[kind])]
  IN {edited \in {[form EXCEPT !.rows = rows] : rows \in [Kinds -> UNION {edits[kind] : kind \in Kinds}]} :
        \A kind \in Kinds :
          LET rows == edited.rows[kind]
          IN /\ rows \in edits[kind]
             /\ \E primaries \in SUBSET (DOMAIN rows) : BindingCountsValid(rows, primaries)
             /\ \A k \in DOMAIN rows : ~ProviderChanged(form.mode, rows[k])}

\* submitProject up to its request: what is sent goes to the project selected now,
\* or creates one.
SubmitProject(c) ==
  /\ isAdmin /\ projectModal # "none" /\ ~submitting /\ projectCalls[c] = Idle
  /\ projectModal = "edit" => selectedProjectId # None
  /\ \E target \in IF projectModal = "create" THEN {p \in Projects : stored[p] = None}
                                              ELSE {selectedProjectId} :
     \E outcome \in UNION {Handle(target, form) : form \in Submittable(projectForm)} :
       /\ projectCalls' = Started(projectCalls, c, WriteCall(target, outcome))
       /\ IF outcome.verdict = "written"
            THEN /\ writes < MaxWrites /\ writes' = writes + 1
                 /\ stored' = [stored EXCEPT ![target] =
                                 [written |-> Numbered(writes'), rows |-> outcome.rows]]
            ELSE UNCHANGED <<stored, writes>>
  /\ submitting' = TRUE /\ fieldError' = None
  /\ ProjectPageUnchanged /\ UNCHANGED <<isAdmin, projectModal, projectForm>>

\* The answer: the dialog that is open closes and the list is asked for; or it shows
\* what was refused.  An answer that is lost tells nothing of what was written.
ProjectAnswer(c) ==
  /\ c \in ProjectsAt("sent")
  /\ \/ /\ projectCalls[c].verdict = "written"
        /\ projectModal' = "none" /\ projectForm' = NoForm /\ fieldError' = None
        /\ loadingList' = TRUE /\ projectsError' = FALSE
        /\ projectCalls' = [projectCalls EXCEPT ![c].stage = "list"]
        /\ UNCHANGED submitting
     \/ /\ \/ /\ projectCalls[c].verdict # "written" /\ projectModal # "none"
              /\ fieldError' = projectCalls[c].error
           \/ UNCHANGED fieldError
        /\ submitting' = FALSE /\ projectCalls' = Ended(projectCalls, c)
        /\ UNCHANGED <<projectModal, projectForm, loadingList, projectsError>>
  /\ UNCHANGED <<stored, writes, isAdmin, projectRows, selectedProjectId, selectedProject, loadingDetail>>

\* The list after a submission, and the request for the details: of the project that
\* was selected then, or of the one created, which becomes selected.
ListAfterSubmission(c) ==
  /\ c \in ProjectsAt("list") /\ projectCalls[c].op \in {"create", "edit"}
  /\ LET next == [projectCalls EXCEPT ![c].stage = "detail"]
     IN IF projectCalls[c].op = "create"
          THEN /\ SelectId(projectCalls[c].of, next, TRUE)
               /\ \/ \E items \in Lists :
                       /\ projectRows' = items /\ UNCHANGED projectsError
                       /\ selectedProject' = IF items = {} THEN None ELSE selectedProject
                  \/ projectsError' = TRUE /\ UNCHANGED <<projectRows, selectedProject>>
          ELSE TakeList(projectCalls[c], next, TRUE)
  /\ loadingList' = FALSE
  /\ ProjectDialogUnchanged /\ UNCHANGED <<stored, writes, isAdmin>>

\* Somebody else edits a project: all of it, which leaves no row without a
\* credential, or only its CDNs.
OtherWrite ==
  /\ writes < MaxWrites /\ writes' = writes + 1
  /\ ProjectPageUnchanged /\ ProjectDialogUnchanged /\ UNCHANGED <<isAdmin, projectCalls>>

OtherUpdate ==
  /\ OtherWrite
  /\ \E p \in Projects, rows \in OtherBindings :
       /\ stored[p] # None /\ AllCredentials(rows)
       /\ stored' = [stored EXCEPT ![p] = [written |-> Numbered(writes'), rows |-> rows]]

OtherUpdateCDNs ==
  /\ "cdns" \in Kinds /\ OtherWrite
  /\ \E p \in Projects, rows \in OtherBindings :
       /\ stored[p] # None
       /\ stored' = [stored EXCEPT ![p] = [written |-> [@.written EXCEPT !["cdns"] = writes'],
                                           rows |-> [@.rows EXCEPT !["cdns"] = rows["cdns"]]]]

-----------------------------------------------------------------------------
ProjectsNext ==
  \/ ChooseProject \/ OpenEditModal \/ OpenCreateModal \/ CancelModal
  \/ OtherUpdate \/ OtherUpdateCDNs
  \/ \E c \in CallIds :
       \/ RefreshProjects(c) \/ SubmitProject(c)
       \/ ProjectListAnswer(c) \/ ProjectDetailAnswer(c) \/ ProjectAnswer(c) \/ ListAfterSubmission(c)

ProjectsSpec == ProjectsInit /\ [][ProjectsNext]_projectsVars

-----------------------------------------------------------------------------
(* Properties.                                                             *)

\* The checks of the page (submitProject) and those of the server
\* (prepareUpdateBindings) agree: an edit whose form shows the project as it is
\* stored is not refused for its credentials, whatever was edited, kept or added,
\* unless some binding is stored without one; then it may be, and the answer is
\* placed at the switch that keeps the credential.
CurrentFormAccepted ==
  \A c \in CallIds :
    LET call == projectCalls[c]
    IN call # Idle /\ call.form.current /\ call.verdict = "credential" =>
         ~call.form.complete /\ call.error.field = "replaceCredential"

\* A spinner has a request under way that ends it.
ProjectsNeverStuck ==
  /\ loadingList => ProjectsAt("list") # {}
  /\ loadingDetail => ProjectsAt("detail") # {}
  /\ submitting => \E c \in CallIds : projectCalls[c] # Idle /\ projectCalls[c].op \in {"create", "edit"}

\* What is saved to a project was made of the details of that project, although
\* details arrive late and the selection moves before they do.
EditsSaveTheirOwn ==
  \A c \in CallIds :
    projectCalls[c] # Idle /\ projectCalls[c].op = "edit" => projectCalls[c].form.of = projectCalls[c].of
=============================================================================
