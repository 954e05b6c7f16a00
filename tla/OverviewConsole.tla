--------------------------- MODULE OverviewConsole ---------------------------
(***************************************************************************)
(* The overview (OverviewPage): metrics, then the accessible projects,     *)
(* their contexts and the audit logs of those that can be written, from    *)
(* which the workbench, the failures at risk and the latest activity are   *)
(* computed.  A window chosen while this goes on starts it again; requests *)
(* are numbered, and only the latest may set what it computes.             *)
(*                                                                         *)
(* The metrics stand for the trends and ratios that come and go with them. *)
(***************************************************************************)
EXTENDS ConsolePage

CONSTANTS
  OverviewProjects,   \* the accessible ones: [role, buckets, logs] of each
  Windows,            \* Windows[w]: the first time of a window
  RiskLimit, ActivityLimit,
  MaxRequests         \* bound on the times the page is loaded

\* Logs have distinct times; that of a project are listed latest first.
ASSUME OverviewAssumption ==
  /\ DOMAIN OverviewProjects \subseteq Projects
  /\ IsFiniteSet(DOMAIN OverviewProjects)
  /\ \A p \in DOMAIN OverviewProjects : IsFiniteSet(DOMAIN OverviewProjects[p].logs)
  /\ "24h" \in DOMAIN Windows
  /\ {RiskLimit, ActivityLimit} \subseteq Nat /\ MaxRequests \in Nat \ {0}

Shown == DOMAIN OverviewProjects
LogsSince(p, w) == SelectSeq(OverviewProjects[p].logs, LAMBDA log : log.at >= Windows[w])

-----------------------------------------------------------------------------
(* What is computed of the answers.                                        *)

Failed(log) == log.result = "failure"

\* Mutant of Latest: the logs are not cut.
AllSorted(limit, logs) == SetToSortSeq(logs, LAMBDA x, y : x.log.at > y.log.at)

\* Logs of projects, the latest first, up to a limit.
Latest(limit, logs) ==
  LET sorted == SetToSortSeq(logs, LAMBDA x, y : x.log.at > y.log.at)
      found == Cardinality(logs)
  IN [k \in 1..(IF found < limit THEN found ELSE limit) |-> sorted[k]]

\* The comparison of times; that with no time at all is false (NaN).
Newer(at, latest) == latest # None /\ at > latest

\* The time of the latest log of an action, starting from none.
LatestTime(logs, action) ==
  FoldLeft(LAMBDA latest, log : IF log.action = action /\ Newer(log.at, latest) THEN log.at ELSE latest,
           None, logs)

\* The CDN of a row is chosen like its bucket.
WorkbenchRow(p, loaded, logs) ==
  [bucket |-> IF p \in loaded THEN PickPrimaryOrFirst(OverviewProjects[p].buckets, "-") ELSE "-",
   latestUploadAt |-> LatestTime(logs, "upload"),
   latestRefreshAt |-> LatestTime(logs, "cdn"),
   failureCount |-> Len(SelectSeq(logs, LAMBDA log : Failed(log) /\ log.action \in {"upload", "cdn"}))]

\* The rows, risks and activity, from the contexts and the logs that arrived.
Workbench(loaded, logged, w) ==
  LET logs == [p \in Shown |-> IF p \in logged THEN LogsSince(p, w) ELSE <<>>]
      all == {[project |-> p, log |-> log] :
                p \in Shown, log \in UNION {ToSet(OverviewProjects[q].logs) : q \in Shown}}
      own == {x \in all : x.log \in ToSet(logs[x.project])}
  IN [rows |-> [p \in Shown |-> WorkbenchRow(p, loaded, logs[p])],
      uploads |-> Latest(RiskLimit, {x \in own : x.log.action = "upload" /\ Failed(x.log)}),
      cdns |-> Latest(RiskLimit, {x \in own : x.log.action = "cdn" /\ Failed(x.log)}),
      activity |-> Latest(ActivityLimit, own)]

\* buildTraceLink, buildAuditLinkWithQuery: the query of the audits page they open.
TraceLink(p, action) == [scope |-> "project", project |-> p, action |-> action, auto |-> TRUE]

-----------------------------------------------------------------------------
VARIABLES
  overviewAdmin,
  range,
  overviewSequence,       \* requestSequenceRef
  overviewCalls,          \* by number: what each load waits for
  overviewLoading, overviewError,
  metrics,                \* the window of the metrics shown, None for none
  workbench,              \* what was computed, None for nothing
  hasWritableProjectAccess

overviewVars == <<overviewAdmin, range, overviewSequence, overviewCalls, overviewLoading,
                  overviewError, metrics, workbench, hasWritableProjectAccess>>

Numbers == 1 .. MaxRequests
OverviewCalls ==
  [stage : {"metrics", "accessible", "contexts", "audits"}, window : DOMAIN Windows,
   loaded : SUBSET Shown]
ASSUME OverviewCallsAssumption == Idle \notin OverviewCalls

\* The accessible projects whose audit logs the account may ask for.
Writable(loaded) ==
  {p \in loaded : overviewAdmin \/ OverviewProjects[p].role = "project_admin"}

OverviewTypeOK ==
  /\ overviewAdmin \in BOOLEAN /\ range \in DOMAIN Windows
  /\ overviewSequence \in Numbers
  /\ overviewCalls \in [Numbers -> OverviewCalls \cup {Idle}]
  /\ {overviewLoading, overviewError, hasWritableProjectAccess} \subseteq BOOLEAN
  /\ metrics \in DOMAIN Windows \cup {None}
  /\ workbench # None =>
       /\ DOMAIN workbench.rows = Shown
       /\ Len(workbench.uploads) <= RiskLimit /\ Len(workbench.cdns) <= RiskLimit
       /\ Len(workbench.activity) <= ActivityLimit

NewLoad(w) == [stage |-> "metrics", window |-> w, loaded |-> {}]

\* The page loads its window when it is first shown.
OverviewInit ==
  /\ overviewAdmin \in BOOLEAN
  /\ hasWritableProjectAccess = overviewAdmin
  /\ range = "24h" /\ overviewSequence = 1
  /\ overviewCalls = [n \in Numbers |-> IF n = 1 THEN NewLoad("24h") ELSE Idle]
  /\ overviewLoading = TRUE /\ overviewError = FALSE
  /\ metrics = None /\ workbench = None

Waiting(n, stage) == overviewCalls[n] # Idle /\ overviewCalls[n].stage = stage
LoadEnds(n) == overviewCalls' = [overviewCalls EXCEPT ![n] = Idle]

\* loadCoreMetrics up to its first request.
LoadCoreMetrics(w) ==
  /\ overviewSequence < MaxRequests
  /\ overviewSequence' = overviewSequence + 1
  /\ overviewCalls' = [overviewCalls EXCEPT ![overviewSequence + 1] = NewLoad(w)]
  /\ overviewLoading' = TRUE /\ overviewError' = FALSE
  /\ UNCHANGED <<overviewAdmin, metrics, workbench, hasWritableProjectAccess>>

ChooseRange ==
  \E w \in DOMAIN Windows \ {range} : range' = w /\ LoadCoreMetrics(w)

\* The button shows that the page loads; another language loads it in any case.
RefreshOverview == ~overviewLoading /\ LoadCoreMetrics(range) /\ UNCHANGED range
ChangeLanguage == LoadCoreMetrics(range) /\ UNCHANGED range

\* Metrics are shown as soon as they arrive.
MetricsAnswer(n) ==
  /\ Waiting(n, "metrics")
  /\ metrics' = overviewCalls[n].window
  /\ overviewCalls' = [overviewCalls EXCEPT ![n].stage = "accessible"]
  /\ UNCHANGED <<overviewAdmin, range, overviewSequence, overviewLoading, overviewError, workbench,
                 hasWritableProjectAccess>>

AccessibleAnswer(n) ==
  /\ Waiting(n, "accessible")
  /\ overviewCalls' = [overviewCalls EXCEPT ![n].stage = "contexts"]
  /\ UNCHANGED <<overviewAdmin, range, overviewSequence, overviewLoading, overviewError, metrics,
                 workbench, hasWritableProjectAccess>>

\* Some contexts may fail to load.
ContextsAnswer(n) ==
  /\ Waiting(n, "contexts")
  /\ \E loaded \in SUBSET Shown :
       /\ hasWritableProjectAccess' = (overviewAdmin \/ Writable(loaded) # {})
       /\ overviewCalls' = [overviewCalls EXCEPT ![n].stage = "audits", ![n].loaded = loaded]
  /\ UNCHANGED <<overviewAdmin, range, overviewSequence, overviewLoading, overviewError, metrics,
                 workbench>>

\* Mutant of IsLatest: the page is set by whichever load ends last.
IsAnyLoad(n) == TRUE

\* Mutant of IsLatest: a load takes its number before it counts itself.
IsLatestUncounted(n) == n = overviewSequence - 1

\* Mutant of IsLatest: a load is known by its window.
IsOfSelectedWindow(n) == overviewCalls[n].window = range

IsLatest(n) == n = overviewSequence

\* Some logs may fail to load; what they give is shown by the latest load only.
AuditsAnswer(n) ==
  /\ Waiting(n, "audits") /\ LoadEnds(n)
  /\ \E logged \in SUBSET Writable(overviewCalls[n].loaded) :
       workbench' = IF IsLatest(n)
                      THEN Workbench(overviewCalls[n].loaded, logged, overviewCalls[n].window)
                      ELSE workbench
  /\ overviewLoading' = (overviewLoading /\ ~IsLatest(n))
  /\ UNCHANGED <<overviewAdmin, range, overviewSequence, overviewError, metrics,
                 hasWritableProjectAccess>>

\* Metrics or projects fail to load: the latest load clears the page.
LoadFails(n) ==
  /\ Waiting(n, "metrics") \/ Waiting(n, "accessible")
  /\ LoadEnds(n)
  /\ IF IsLatest(n)
       THEN /\ overviewError' = TRUE /\ overviewLoading' = FALSE
            /\ metrics' = None /\ workbench' = None
            /\ hasWritableProjectAccess' = (overviewAdmin /\ hasWritableProjectAccess)
       ELSE UNCHANGED <<overviewError, overviewLoading, metrics, workbench, hasWritableProjectAccess>>
  /\ UNCHANGED <<overviewAdmin, range, overviewSequence>>

OverviewNext ==
  \/ ChooseRange \/ RefreshOverview \/ ChangeLanguage
  \/ \E n \in Numbers :
       \/ MetricsAnswer(n) \/ AccessibleAnswer(n) \/ ContextsAnswer(n) \/ AuditsAnswer(n)
       \/ LoadFails(n)

OverviewSpec == OverviewInit /\ [][OverviewNext]_overviewVars

-----------------------------------------------------------------------------
(* Properties.                                                             *)

\* A page that is not loading shows the workbench, the risks and the activity of
\* the window that is selected, however the loads of other windows overlap it, or
\* an error and none of them (requestSequenceRef).
WorkbenchOfSelectedWindow ==
  ~overviewLoading =>
    IF overviewError
      THEN workbench = None
      ELSE \E loaded, logged \in SUBSET Shown : workbench = Workbench(loaded, logged, range)

\* The workbench, risks and activity of a page that is not loading stay until it
\* loads again, and so does its error: a load that was overtaken, also one of the same
\* window, sets none of them when it ends (requestSequenceRef counts loads, not
\* windows).  The metrics and the access to write are not guarded, and such a load
\* does set them (MetricsAnswer, ContextsAnswer).
LateLoadsIgnored ==
  [][~overviewLoading /\ ~overviewLoading' => UNCHANGED <<workbench, overviewError>>]_overviewVars

\* The page loads only while its latest load is under way.
OverviewNeverStuck == overviewLoading => overviewCalls[overviewSequence] # Idle
=============================================================================
