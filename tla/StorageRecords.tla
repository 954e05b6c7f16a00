---------------------------- MODULE StorageRecords ----------------------------
(***************************************************************************)
(* What the storage page shows of the audit records of uploads: the list   *)
(* of archive sessions of a project with the reasons of their failures,    *)
(* the details of one session, and the records of one object.              *)
(*                                                                         *)
(* The selection of a project and the end of an upload happen in the       *)
(* object browser and the upload panel; here they are what they do to      *)
(* these records.                                                          *)
(***************************************************************************)
EXTENDS ConsolePage

CONSTANTS
  SessionsOf,      \* SessionsOf[p]: the sessions in the latest archive records of p
  SessionLogs,     \* SessionLogs[s]: the records of its files, latest first
  FailedEntries,   \* FailedEntries[s]: how many failed, as its archive record says
  DetailLimit      \* the records of a session that its details ask for

Sessions == UNION {SessionsOf[p] : p \in Projects}

ASSUME SessionsAssumption ==
  /\ \A p, q \in Projects : p # q => SessionsOf[p] \cap SessionsOf[q] = {}
  /\ DOMAIN SessionLogs = Sessions
  /\ \A s \in Sessions : SessionLogs[s] \in Seq(ToSet(SessionLogs[s]))
  /\ FailedEntries \in [Sessions -> Nat]
ASSUME DetailAssumption == DetailLimit \in Nat

-----------------------------------------------------------------------------
(* The reasons of failures.                                                *)

\* parseFailureReasonFromAuditLog: the first text given, and the first name.
FailureReason(log) ==
  [reason |-> FirstText(log.texts, "unknown error"), name |-> FirstText(log.names, "")]

AtMost(n, seq) == SubSeq(seq, 1, IF Len(seq) < n THEN Len(seq) ELSE n)

\* filter: the elements at the places that pass a test, in their order.
RankIn(places, k) == Cardinality({j \in places : j <= k})
Picked(seq, places) ==
  [n \in 1..Cardinality(places) |-> seq[CHOOSE k \in places : RankIn(places, k) = n]]

Failures(logs) == Picked(logs, {k \in DOMAIN logs : logs[k].result = "failure"})
NotSucceeded(logs) == Picked(logs, {k \in DOMAIN logs : logs[k].result # "success"})

\* buildFailureSummaryFromAuditLogs: the first three.
FailureSummary(logs) ==
  LET failures == AtMost(3, NotSucceeded(logs))
  IN [k \in DOMAIN failures |-> FailureReason(failures[k])]

\* loadFailureSummaryForSession: of the five latest failures of a session.
AskedSummary(s) == FailureSummary(AtMost(5, Failures(SessionLogs[s])))

\* openSessionDetail: of those among the latest records, as many as it asks for.
DetailLogs(s) == AtMost(DetailLimit, SessionLogs[s])
DetailSummary(logs) == FailureSummary(Failures(logs))

\* Both go by the count in the archive record, not by the records of the files.
HasFailed(s) == FailedEntries[s] > 0

-----------------------------------------------------------------------------
VARIABLES
  recordsProject,        \* the project of the query form
  sessionSummaries,      \* the sessions listed
  sessionsLoading,
  failureSummaries,      \* sessionFailureSummaryMap
  sessionDetail,         \* the drawer of a session: open, its session, its logs
  detailLoading,
  auditDrawer,           \* the drawer of an object: open, the object of its logs
  auditLoading,
  recordCalls

recordsVars == <<recordsProject, sessionSummaries, sessionsLoading, failureSummaries,
                 sessionDetail, detailLoading, auditDrawer, auditLoading, recordCalls>>

Objects == {"a", "b"}   \* two rows of the object list

RecordCalls ==
  [op : {"sessions", "reasons", "detail", "audit"},
   project : Projects,
   of : Sessions \cup Objects \cup {None}]
ASSUME RecordCallsAssumption == Idle \notin RecordCalls

RecordsTypeOK ==
  /\ recordsProject \in Projects \cup {None}
  /\ sessionSummaries \in SUBSET Sessions
  /\ DOMAIN failureSummaries \in SUBSET Sessions
  /\ sessionDetail \in [open : BOOLEAN, session : Sessions \cup {None}, logs : Sessions \cup {None}]
  /\ auditDrawer \in [open : BOOLEAN, logs : Objects \cup {None}]
  /\ {sessionsLoading, detailLoading, auditLoading} \subseteq BOOLEAN
  /\ recordCalls \in [CallIds -> RecordCalls \cup {Idle}]

NoSummaries == [s \in {} |-> <<>>]

RecordsInit ==
  /\ recordsProject = None
  /\ sessionSummaries = {} /\ failureSummaries = NoSummaries
  /\ sessionDetail = [open |-> FALSE, session |-> None, logs |-> None]
  /\ auditDrawer = [open |-> FALSE, logs |-> None]
  /\ sessionsLoading = FALSE /\ detailLoading = FALSE /\ auditLoading = FALSE
  /\ recordCalls = NoCalls

Asked(op) == {c \in CallIds : recordCalls[c] # Idle /\ recordCalls[c].op = op}
Ask(c, op, p, of) ==
  /\ recordCalls[c] = Idle
  /\ recordCalls' = Started(recordCalls, c, [op |-> op, project |-> p, of |-> of])

\* An open drawer covers the page.
Uncovered == ~sessionDetail.open /\ ~auditDrawer.open

DrawersUnchanged == UNCHANGED <<sessionDetail, detailLoading, auditDrawer, auditLoading>>
ListUnchanged == UNCHANGED <<recordsProject, sessionSummaries, sessionsLoading, failureSummaries>>

-----------------------------------------------------------------------------
(* The list of sessions.                                                   *)

\* loadUploadSessionSummaries up to its request: without a project it only
\* clears the list.
LoadSessions(c, p) ==
  IF p = None
    THEN /\ sessionSummaries' = {} /\ failureSummaries' = NoSummaries
         /\ UNCHANGED <<sessionsLoading, recordCalls>>
    ELSE /\ Ask(c, "sessions", p, None)
         /\ sessionsLoading' = TRUE
         /\ UNCHANGED <<sessionSummaries, failureSummaries>>

\* The part of the selection of a project that is about records.
SelectRecordsOf(c) ==
  /\ Uncovered
  /\ \E p \in Projects \ {recordsProject} : recordsProject' = p /\ LoadSessions(c, p)
  /\ sessionDetail' = [sessionDetail EXCEPT !.session = None, !.logs = None]
  /\ UNCHANGED <<detailLoading, auditDrawer, auditLoading>>

RefreshSessions(c) ==
  /\ Uncovered /\ ~sessionsLoading
  /\ LoadSessions(c, recordsProject)
  /\ DrawersUnchanged /\ UNCHANGED recordsProject

\* An upload lists the sessions of the project it was sent to.
UploadEnds(c) ==
  /\ recordsProject # None
  /\ \E p \in Projects : LoadSessions(c, p)
  /\ DrawersUnchanged /\ UNCHANGED recordsProject

\* The list, and at once the reasons of the sessions that failed.
SessionsAnswer(c) ==
  /\ c \in Asked("sessions")
  /\ LET p == recordCalls[c].project
     IN \/ /\ sessionSummaries' = SessionsOf[p] /\ failureSummaries' = NoSummaries
           /\ IF \E s \in SessionsOf[p] : HasFailed(s)
                THEN /\ recordCalls' = [recordCalls EXCEPT ![c].op = "reasons"]
                     /\ UNCHANGED sessionsLoading
                ELSE recordCalls' = Ended(recordCalls, c) /\ sessionsLoading' = FALSE
        \/ /\ sessionSummaries' = {} /\ failureSummaries' = NoSummaries
           /\ recordCalls' = Ended(recordCalls, c) /\ sessionsLoading' = FALSE
  /\ DrawersUnchanged /\ UNCHANGED recordsProject

\* All reasons have arrived; those that failed or are empty are left out.
ReasonsAnswer(c) ==
  /\ c \in Asked("reasons")
  /\ \E arrived \in SUBSET {s \in SessionsOf[recordCalls[c].project] :
                               HasFailed(s) /\ AskedSummary(s) # <<>>} :
       failureSummaries' = [s \in arrived |-> AskedSummary(s)]
  /\ recordCalls' = Ended(recordCalls, c) /\ sessionsLoading' = FALSE
  /\ DrawersUnchanged /\ UNCHANGED <<recordsProject, sessionSummaries>>

-----------------------------------------------------------------------------
(* The drawers.                                                            *)

\* A session of the list, or that of the upload panel, which may be of a project
\* that was selected before: its records are asked for in the selected one.
OpenSessionDetail(c) ==
  /\ Uncovered /\ recordsProject # None
  /\ \E s \in Sessions :
       /\ Ask(c, "detail", recordsProject, s)
       /\ sessionDetail' = [sessionDetail EXCEPT !.open = TRUE, !.session = s]
  /\ detailLoading' = TRUE
  /\ ListUnchanged /\ UNCHANGED <<auditDrawer, auditLoading>>

Put(map, s, reasons) == [x \in DOMAIN map \cup {s} |-> IF x = s THEN reasons ELSE map[x]]

\* Mutant of WithReasons: the reasons go to the session of the drawer.
WithReasonsOfDrawer(s, reasons) ==
  IF reasons = <<>> \/ sessionDetail.session = None
    THEN failureSummaries
    ELSE Put(failureSummaries, sessionDetail.session, reasons)

\* The reasons of a session, unless there are none, with those of the others.
WithReasons(s, reasons) ==
  IF reasons = <<>> THEN failureSummaries ELSE Put(failureSummaries, s, reasons)

\* The logs go to whatever session is shown; the reasons, if the session is one
\* that failed, to the one asked for.
DetailAnswer(c) ==
  /\ c \in Asked("detail")
  /\ LET s == recordCalls[c].of
         logs == IF s \in SessionsOf[recordCalls[c].project] THEN DetailLogs(s) ELSE <<>>
         reasons == IF HasFailed(s) THEN DetailSummary(logs) ELSE <<>>
     IN \/ /\ sessionDetail' = [sessionDetail EXCEPT !.logs = s]
           /\ failureSummaries' = WithReasons(s, reasons)
        \/ sessionDetail' = [sessionDetail EXCEPT !.logs = None] /\ UNCHANGED failureSummaries
  /\ recordCalls' = Ended(recordCalls, c) /\ detailLoading' = FALSE
  /\ UNCHANGED <<recordsProject, sessionSummaries, sessionsLoading, auditDrawer, auditLoading>>

OpenAudit(c) ==
  /\ Uncovered /\ recordsProject # None
  /\ \E o \in Objects : Ask(c, "audit", recordsProject, o)
  /\ auditDrawer' = [auditDrawer EXCEPT !.open = TRUE]
  /\ auditLoading' = TRUE
  /\ ListUnchanged /\ UNCHANGED <<sessionDetail, detailLoading>>

AuditAnswer(c) ==
  /\ c \in Asked("audit")
  /\ \E logs \in {recordCalls[c].of, None} : auditDrawer' = [auditDrawer EXCEPT !.logs = logs]
  /\ recordCalls' = Ended(recordCalls, c) /\ auditLoading' = FALSE
  /\ ListUnchanged /\ UNCHANGED <<sessionDetail, detailLoading>>

CloseDrawer ==
  /\ \/ sessionDetail.open /\ sessionDetail' = [sessionDetail EXCEPT !.open = FALSE]
          /\ UNCHANGED auditDrawer
     \/ auditDrawer.open /\ auditDrawer' = [auditDrawer EXCEPT !.open = FALSE]
          /\ UNCHANGED sessionDetail
  /\ ListUnchanged /\ UNCHANGED <<detailLoading, auditLoading, recordCalls>>

-----------------------------------------------------------------------------
RecordsNext ==
  \/ CloseDrawer
  \/ \E c \in CallIds :
       \/ SelectRecordsOf(c) \/ RefreshSessions(c) \/ UploadEnds(c) \/ OpenSessionDetail(c)
       \/ OpenAudit(c)
       \/ SessionsAnswer(c) \/ ReasonsAnswer(c) \/ DetailAnswer(c) \/ AuditAnswer(c)

RecordsSpec == RecordsInit /\ [][RecordsNext]_recordsVars

\* Whatever order the answers arrive in, and whether a session's failures were
\* asked for with the list or came with its details, the reasons shown in its row
\* are its own and those of its latest failures: the same unless the session has
\* more records than its details ask for, and then they may be fewer but never
\* none and never others (sessionFailureSummaryMap).
ReasonsOfTheirSession ==
  \A s \in DOMAIN failureSummaries :
    /\ failureSummaries[s] # <<>>
    /\ IsPrefix(failureSummaries[s], AskedSummary(s))
    /\ Len(SessionLogs[s]) <= DetailLimit => failureSummaries[s] = AskedSummary(s)

\* What shows that it loads has a call under way that will end it.
RecordsNeverStuck ==
  /\ sessionsLoading => Asked("sessions") \cup Asked("reasons") # {}
  /\ detailLoading => Asked("detail") # {}
  /\ auditLoading => Asked("audit") # {}
=============================================================================
