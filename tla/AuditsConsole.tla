---------------------------- MODULE AuditsConsole ----------------------------
(***************************************************************************)
(* The page of audit queries (AuditsPage): the scope and filters of the    *)
(* form, the options that are loaded for them, links that fill the form,   *)
(* and the query.  The filters by target type are loaded, checked and      *)
(* dropped like those by action, which stand for both; the other fields go *)
(* into the query as they are.                                             *)
(*                                                                         *)
(* Requests for the same options are answered alike, so the calls under    *)
(* way are a set.                                                          *)
(***************************************************************************)
EXTENDS ConsolePage

CONSTANTS
  ActionsOf,     \* ActionsOf[p]: the actions recorded for p
  AuditLinks     \* the search parameters the page is opened with, or changed to

AuditActions == UNION {ActionsOf[p] : p \in Projects}
Scopes == {"platform", "project"}

SearchParams ==
  [scope : Scopes \cup {""}, project : Projects \cup {None}, action : AuditActions \cup {None},
   auto : BOOLEAN]
NoLink == [scope |-> "", project |-> None, action |-> None, auto |-> FALSE]

ASSUME ActionsAssumption == DOMAIN ActionsOf = Projects
ASSUME LinksAssumption == AuditLinks \subseteq SearchParams

QueryForms == [scope : Scopes, project : Projects \cup {None}, action : AuditActions \cup {None}]

\* normalizeSelectValue: once there are options, only one of them is a filter.
NormalizeSelect(value, options) == IF options # {} /\ value \notin options THEN None ELSE value

\* parseSearchParams
ParsedScope(link, admin) ==
  CASE ~admin -> "project"
    [] admin /\ link.scope # "" -> link.scope
    [] admin /\ link.scope = "" -> "platform"

-----------------------------------------------------------------------------
VARIABLES
  auditAdmin,           \* canQueryPlatformScope
  auditLink,
  queryForm,
  platformActions, projectActions,
  auditProjects,        \* projectOptions
  platformOptionsLoading, projectOptionsLoading,
  queryLoading,
  pendingAutoQuery,
  auditLogs,            \* whether there are logs to show
  auditCalls

auditsVars == <<auditAdmin, auditLink, queryForm, platformActions, projectActions, auditProjects,
                platformOptionsLoading, projectOptionsLoading, queryLoading, pendingAutoQuery,
                auditLogs, auditCalls>>

Query(form, actions) ==
  [op |-> "query", scope |-> form.scope,
   project |-> IF form.scope = "project" THEN form.project ELSE None,
   action |-> NormalizeSelect(form.action, actions)]
AuditCall(op, p) == [op |-> op, scope |-> "project", project |-> p, action |-> None]

AuditCalls ==
  [op : {"query", "platform", "list", "options"}, scope : Scopes, project : Projects \cup {None},
   action : AuditActions \cup {None}]

AuditsTypeOK ==
  /\ auditAdmin \in BOOLEAN /\ auditLink \in AuditLinks /\ queryForm \in QueryForms
  /\ platformActions \subseteq AuditActions /\ projectActions \subseteq AuditActions
  /\ auditProjects \subseteq Projects
  /\ {platformOptionsLoading, projectOptionsLoading, queryLoading, pendingAutoQuery, auditLogs} \subseteq BOOLEAN
  /\ auditCalls \subseteq AuditCalls

UnderWay(op) == {call \in auditCalls : call.op = op}

-----------------------------------------------------------------------------
(* Effects.                                                                *)

\* The options that the effects load when the form changes from one to another.
OptionCalls(from, to) ==
  LET entered == {scope \in Scopes : to.scope = scope /\ from.scope # scope}
  IN {AuditCall("platform", None) : scope \in {x \in entered \cap {"platform"} : auditAdmin}}
     \cup {AuditCall("list", None) : scope \in entered \cap {"project"}}
     \cup {AuditCall("options", p) : p \in
             {x \in Projects : /\ to.scope = "project" /\ to.project = x
                               /\ "project" \in entered \/ from.project # x}}

\* Mutant of MayQuery: a link asks although a query is under way.
MayQueryAnyway(loading) == TRUE

\* A query starts when none is under way: the button shows that it loads, and the
\* effect of a link waits.
MayQuery(loading) == ~loading

\* submitQuery up to its request, with what the form and the options hold.
Queried(form, calls) ==
  LET query == Query(form, IF form.scope = "project" THEN projectActions ELSE platformActions)
      valid == form.scope = "project" => form.project # None
  IN queryLoading' = valid /\ auditCalls' = IF valid THEN calls \cup {query} ELSE calls

\* The form changes, and the effects follow.
Changed(form) ==
  /\ queryForm' = form
  /\ platformOptionsLoading' =
       (platformOptionsLoading \/ AuditCall("platform", None) \in OptionCalls(queryForm, form))
  /\ projectOptionsLoading' =
       (projectOptionsLoading \/ \E call \in OptionCalls(queryForm, form) : call.op = "options")

\* The page is opened: effects load the options of the scope, apply the link, and
\* load the options of what it fills in.
NoOne == [scope |-> "", project |-> None, action |-> None]

ApplyLink(form, link) ==
  IF link.auto \/ link.project # None \/ link.action # None
    THEN [scope |-> ParsedScope(link, auditAdmin), project |-> link.project, action |-> link.action]
    ELSE form

\* A link queries at once, but for a project it does not name.
AutoQuery(link) ==
  link.auto /\ (ParsedScope(link, auditAdmin) = "project" => link.project # None)

AuditsInit ==
  /\ auditAdmin \in BOOLEAN /\ auditLink \in AuditLinks
  /\ LET empty == [scope |-> IF auditAdmin THEN "platform" ELSE "project", project |-> None, action |-> None]
         form == ApplyLink(empty, auditLink)
         opened == OptionCalls(NoOne, empty) \cup OptionCalls(empty, form)
         query == Query(form, {})
     IN /\ queryForm = form
        /\ platformOptionsLoading = (AuditCall("platform", None) \in opened)
        /\ projectOptionsLoading = (\E call \in opened : call.op = "options")
        /\ queryLoading = AutoQuery(auditLink)
        /\ auditCalls = IF AutoQuery(auditLink) THEN opened \cup {query} ELSE opened
  /\ platformActions = {} /\ projectActions = {} /\ auditProjects = {}
  /\ pendingAutoQuery = FALSE /\ auditLogs = FALSE

OptionsUnchanged ==
  UNCHANGED <<platformActions, projectActions, auditProjects, platformOptionsLoading, projectOptionsLoading>>
QueryUnchanged == UNCHANGED <<queryLoading, pendingAutoQuery, auditLogs>>

-----------------------------------------------------------------------------
(* The form.                                                               *)

\* Somebody follows a link while the page is shown.
FollowLink ==
  /\ auditLink' \in AuditLinks \ {auditLink}
  /\ LET form == ApplyLink(queryForm, auditLink')
         calls == auditCalls \cup OptionCalls(queryForm, form)
         asks == pendingAutoQuery \/ AutoQuery(auditLink')
     IN /\ Changed(form)
        /\ IF asks /\ MayQuery(queryLoading)
             THEN Queried(form, calls) /\ pendingAutoQuery' = FALSE
             ELSE auditCalls' = calls /\ pendingAutoQuery' = asks /\ UNCHANGED queryLoading
  /\ UNCHANGED <<auditAdmin, platformActions, projectActions, auditProjects, auditLogs>>

\* The scope is chosen, by administrators only; a project is, which drops the
\* filters, as its removal drops their options too; or a filter is.
EditQuery ==
  /\ \/ /\ auditAdmin
        /\ \E scope \in Scopes \ {queryForm.scope} : Changed([queryForm EXCEPT !.scope = scope])
        /\ projectActions' = IF queryForm'.scope = "project" /\ queryForm.project = None THEN {} ELSE projectActions
     \/ /\ queryForm.scope = "project"
        /\ \E p \in (auditProjects \cup {None}) \ {queryForm.project} :
             /\ Changed([queryForm EXCEPT !.project = p, !.action = None])
             /\ projectActions' = IF p = None THEN {} ELSE projectActions
     \/ /\ \E action \in (IF queryForm.scope = "project" THEN projectActions ELSE platformActions) \cup {None} :
             action # queryForm.action /\ Changed([queryForm EXCEPT !.action = action])
        /\ UNCHANGED projectActions
  /\ auditCalls' = auditCalls \cup OptionCalls(queryForm, queryForm')
  /\ QueryUnchanged /\ UNCHANGED <<auditAdmin, auditLink, platformActions, auditProjects>>

\* The list of projects that is empty is asked for again when it is opened.
OpenProjectList ==
  /\ queryForm.scope = "project" /\ auditProjects = {}
  /\ auditCalls' = auditCalls \cup {AuditCall("list", None)} /\ auditCalls' # auditCalls
  /\ OptionsUnchanged /\ QueryUnchanged /\ UNCHANGED <<auditAdmin, auditLink, queryForm>>

SubmitQuery ==
  /\ MayQuery(queryLoading)
  /\ Queried(queryForm, auditCalls)
  /\ OptionsUnchanged /\ UNCHANGED <<auditAdmin, auditLink, queryForm, pendingAutoQuery, auditLogs>>

-----------------------------------------------------------------------------
(* Answers.                                                                *)

\* The logs, or none after an error; then the query of a link that has waited.
QueryAnswer ==
  /\ \E call \in UnderWay("query") :
       /\ auditLogs' \in BOOLEAN
       /\ IF pendingAutoQuery
            THEN Queried(queryForm, auditCalls \ {call})
            ELSE auditCalls' = auditCalls \ {call} /\ queryLoading' = FALSE
  /\ pendingAutoQuery' = FALSE
  /\ OptionsUnchanged /\ UNCHANGED <<auditAdmin, auditLink, queryForm>>

\* loadPlatformFilterOptions after its request.
PlatformOptionsAnswer ==
  /\ AuditCall("platform", None) \in auditCalls
  /\ platformActions' \in {AuditActions, {}}
  /\ platformOptionsLoading' = FALSE
  /\ auditCalls' = auditCalls \ {AuditCall("platform", None)}
  /\ QueryUnchanged
  /\ UNCHANGED <<auditAdmin, auditLink, queryForm, projectActions, auditProjects, projectOptionsLoading>>

\* loadProjectList after its request, which is for administrators: a project that
\* is not listed is removed from the form with its filters.
ProjectListLoaded ==
  /\ AuditCall("list", None) \in auditCalls
  /\ LET rest == auditCalls \ {AuditCall("list", None)}
     IN \/ /\ auditAdmin
           /\ \E listed \in SUBSET Projects :
                /\ auditProjects' = listed
                /\ IF queryForm.project \in listed \cup {None}
                     THEN UNCHANGED <<queryForm, projectActions>>
                     ELSE /\ queryForm' = [queryForm EXCEPT !.project = None, !.action = None]
                          /\ projectActions' = {}
        \/ /\ auditProjects' = {} /\ projectActions' = {}
           /\ UNCHANGED queryForm
  /\ auditCalls' = auditCalls \ {AuditCall("list", None)}
  /\ QueryUnchanged
  /\ UNCHANGED <<auditAdmin, auditLink, platformActions, platformOptionsLoading, projectOptionsLoading>>

\* loadProjectScopedFilterOptions after its request; a filter that is not among the
\* options is removed, whichever project they are of.
ProjectOptionsAnswer ==
  /\ \E call \in UnderWay("options") :
       /\ \/ /\ projectActions' = ActionsOf[call.project]
             /\ auditProjects' \in {auditProjects, {call.project}}
             /\ queryForm' = [queryForm EXCEPT !.action = IF @ \in projectActions' THEN @ ELSE None]
          \/ projectActions' = {} /\ UNCHANGED <<auditProjects, queryForm>>
       /\ auditCalls' = auditCalls \ {call}
  /\ projectOptionsLoading' = FALSE
  /\ QueryUnchanged /\ UNCHANGED <<auditAdmin, auditLink, platformActions, platformOptionsLoading>>

-----------------------------------------------------------------------------
AuditsNext ==
  \/ FollowLink \/ EditQuery \/ OpenProjectList \/ SubmitQuery
  \/ QueryAnswer \/ PlatformOptionsAnswer \/ ProjectListLoaded \/ ProjectOptionsAnswer

AuditsSpec == AuditsInit /\ [][AuditsNext]_auditsVars

-----------------------------------------------------------------------------
(* Properties.                                                             *)

\* However buttons, links and answers alternate, queries take turns (loading and
\* pendingAutoQuery), so that the logs shown are those of the query sent last: no
\* other answer can arrive after them.
QueriesInTurn == Cardinality(UnderWay("query")) <= 1

\* A spinner and a link that waits have a request under way that ends it.
AuditsNeverStuck ==
  /\ queryLoading \/ pendingAutoQuery => UnderWay("query") # {}
  /\ platformOptionsLoading => UnderWay("platform") # {}
  /\ projectOptionsLoading => UnderWay("options") # {}
=============================================================================
