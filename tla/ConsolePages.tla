----------------------------- MODULE ConsolePages -----------------------------
(***************************************************************************)
(* The pages of the console and its sessions, of which a tab of the        *)
(* browser shows one at a time: the routes mount a page with its initial   *)
(* state and drop the state with the page, so that each behaviour is that  *)
(* of one page, and the variables of the others hold nothing.              *)
(***************************************************************************)
EXTENDS StorageRecords, UsersConsole, ProjectsConsole, CDNConsole, AuditsConsole, OverviewConsole,
        ConsoleSession

VARIABLE mounted

Pages == {"records", "users", "projects", "cdn", "audits", "overview", "session"}

-----------------------------------------------------------------------------
(* A page that is not mounted holds nothing.                               *)

RecordsAbsent ==
  /\ recordsProject = None /\ sessionSummaries = None /\ sessionsLoading = None
  /\ failureSummaries = NoSummaries /\ sessionDetail = None /\ detailLoading = None
  /\ auditDrawer = None /\ auditLoading = None /\ recordCalls = NoCalls
UsersAbsent ==
  /\ boundTo = None /\ userRows = None /\ usersError = None /\ usersLoading = None
  /\ usersSubmitting = None /\ userDialog = None /\ activeUser = None /\ bindingForm = None
  /\ snapshotTarget = None /\ snapshotLoading = None /\ userCalls = NoCalls
ProjectsAbsent ==
  /\ stored = None /\ writes = None /\ isAdmin = None /\ projectRows = None
  /\ projectsError = None /\ loadingList = None /\ selectedProjectId = None
  /\ selectedProject = None /\ loadingDetail = None /\ projectModal = None /\ projectForm = None
  /\ fieldError = None /\ submitting = None /\ projectCalls = NoCalls
CDNAbsent ==
  /\ queried = None /\ cdnAdmin = None /\ cdnProjects = None /\ cdnSelected = None
  /\ contextOf = None /\ cdnForm = None /\ activeOperation = "url"
  /\ operationInputs = [op \in Operations |-> {}]
  /\ formInput = {} /\ directoryOptions = None /\ selectedDirectory = None
  /\ optionsLoading = None /\ bindingsLoading = None /\ operationSubmitting = None
  /\ directoryLoading = None /\ cdnCalls = NoCalls
AuditsAbsent ==
  /\ auditAdmin = None /\ auditLink = None /\ queryForm = None /\ platformActions = None
  /\ projectActions = None /\ auditProjects = None /\ platformOptionsLoading = None
  /\ projectOptionsLoading = None /\ queryLoading = None /\ pendingAutoQuery = None
  /\ auditLogs = None /\ auditCalls = {}
OverviewAbsent ==
  /\ overviewAdmin = None /\ range = None /\ overviewSequence = None /\ overviewCalls = None
  /\ overviewLoading = TRUE /\ overviewError = None /\ metrics = None /\ workbench = None
  /\ hasWritableProjectAccess = None
SessionAbsent ==
  /\ tabs = [t \in Tabs |-> [page |-> None]] /\ storedSession = None

PagesInit ==
  /\ mounted \in Pages
  /\ IF mounted = "records" THEN RecordsInit ELSE RecordsAbsent
  /\ IF mounted = "users" THEN UsersInit ELSE UsersAbsent
  /\ IF mounted = "projects" THEN ProjectsInit ELSE ProjectsAbsent
  /\ IF mounted = "cdn" THEN CDNInit ELSE CDNAbsent
  /\ IF mounted = "audits" THEN AuditsInit ELSE AuditsAbsent
  /\ IF mounted = "overview" THEN OverviewInit ELSE OverviewAbsent
  /\ IF mounted = "session" THEN SessionInit ELSE SessionAbsent

OnRecords ==
  /\ mounted = "records" /\ RecordsNext
  /\ UNCHANGED <<usersVars, projectsVars, cdnVars, auditsVars, overviewVars, sessionVars, mounted>>
OnUsers ==
  /\ mounted = "users" /\ UsersNext
  /\ UNCHANGED <<recordsVars, projectsVars, cdnVars, auditsVars, overviewVars, sessionVars, mounted>>
OnProjects ==
  /\ mounted = "projects" /\ ProjectsNext
  /\ UNCHANGED <<recordsVars, usersVars, cdnVars, auditsVars, overviewVars, sessionVars, mounted>>
OnCDN ==
  /\ mounted = "cdn" /\ CDNNext
  /\ UNCHANGED <<recordsVars, usersVars, projectsVars, auditsVars, overviewVars, sessionVars, mounted>>
OnAudits ==
  /\ mounted = "audits" /\ AuditsNext
  /\ UNCHANGED <<recordsVars, usersVars, projectsVars, cdnVars, overviewVars, sessionVars, mounted>>
OnOverview ==
  /\ mounted = "overview" /\ OverviewNext
  /\ UNCHANGED <<recordsVars, usersVars, projectsVars, cdnVars, auditsVars, sessionVars, mounted>>
OnSession ==
  /\ mounted = "session" /\ SessionNext
  /\ UNCHANGED <<recordsVars, usersVars, projectsVars, cdnVars, auditsVars, overviewVars, mounted>>

PagesNext == OnRecords \/ OnUsers \/ OnProjects \/ OnCDN \/ OnAudits \/ OnOverview \/ OnSession

pagesVars == <<recordsVars, usersVars, projectsVars, cdnVars, auditsVars, overviewVars, sessionVars, mounted>>

PagesSpec == PagesInit /\ [][PagesNext]_pagesVars

-----------------------------------------------------------------------------
\* The state of the page that is mounted has its type.
PagesTypeOK ==
  /\ mounted = "records" => RecordsTypeOK
  /\ mounted = "users" => UsersTypeOK
  /\ mounted = "projects" => ProjectsTypeOK
  /\ mounted = "cdn" => CDNTypeOK
  /\ mounted = "audits" => AuditsTypeOK
  /\ mounted = "overview" => OverviewTypeOK
  /\ mounted = "session" => SessionTypeOK

\* Nothing on a page shows that it loads, or is disabled while it is sent, without a
\* call under way that ends it, however calls of one kind overlap (the loading flags
\* of the pages).
PagesNeverStuck ==
  /\ mounted = "records" => RecordsNeverStuck
  /\ mounted = "users" => UsersNeverStuck
  /\ mounted = "projects" => ProjectsNeverStuck
  /\ mounted = "cdn" => CDNNeverStuck
  /\ mounted = "audits" => AuditsNeverStuck
  /\ mounted = "overview" => OverviewNeverStuck

=============================================================================
