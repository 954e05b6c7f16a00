----------------------------- MODULE UploadPanel -----------------------------
(***************************************************************************)
(* The upload panel of the storage page, next to the object browser: it    *)
(* reads the upload policy, sends the chosen files (stage A), and follows  *)
(* the session of an archive by polling its audit record (stage B).        *)
(***************************************************************************)
EXTENDS ObjectBrowser

CONSTANTS
  LocalFiles, SizeOf,   \* the user's files, and their sizes
  Limits,               \* the size limits the policy may answer with
  DefaultLimit,         \* DEFAULT_UPLOAD_SIZE_LIMIT_BYTES
  Answers               \* what the server may answer to an upload

ASSUME SizesAssumption ==
  /\ SizeOf \in [LocalFiles -> Nat] /\ Limits \subseteq Nat /\ DefaultLimit \in Limits

-----------------------------------------------------------------------------
(* The answer to an upload: what became of every file and archive entry    *)
(* and, if it held archives, the audit record of their session.            *)

Failed(item) == item \in {"failure", "failed", "error"}

\* parseUploadSummary of the answer, in the shape this server gives it.
UploadSummary(answer) ==
  [success |-> Cardinality({k \in DOMAIN answer.results : ~Failed(answer.results[k])}),
   failure |-> Cardinality({k \in DOMAIN answer.results : Failed(answer.results[k])})]

\* parseArchiveSessionSummary: two names for each count, the first preferred.
SessionSummary(log) ==
  LET success == IF log.successEntries > 0 THEN log.successEntries ELSE log.uploaded
      failure == IF log.failedEntries > 0 THEN log.failedEntries ELSE log.failed
  IN [success |-> success, failure |-> failure, processed |-> success + failure,
      total |-> IF log.totalEntries > 0 THEN log.totalEntries ELSE success + failure,
      result |-> log.result, finished |-> log.finished]

\* isSessionSummaryTerminal
Terminal(summary) ==
  \/ summary.result \in {"success", "failure"}
  \/ summary.finished
  \/ summary.total > 0 /\ summary.processed >= summary.total

Logs == [successEntries : Nat, uploaded : Nat, failedEntries : Nat, failed : Nat,
         totalEntries : Nat, result : {"success", "failure", ""}, finished : BOOLEAN]

ASSUME AnswersAssumption ==
  \A a \in Answers :
    /\ DOMAIN a = {"results", "log"}
    /\ a.results \in Seq({"success", "failure"})
    /\ a.log = None \/ a.log \in Logs

-----------------------------------------------------------------------------
VARIABLES
  pendingFiles,      \* pendingUploadFiles
  uploadLimit,       \* uploadSizeLimitBytes
  policyAsked,       \* the policy the page asked for when it was first shown is due
  stageAActive, stageBActive,
  uploadController,  \* the call uploadAbortControllerRef belongs to, or None
  transfers          \* per call: the upload it carries

panelVars == <<pendingFiles, uploadLimit, policyAsked, stageAActive, stageBActive,
               uploadController, transfers>>
storageVars == <<browserVars, panelVars>>

Transfers ==
  [files : SUBSET LocalFiles,
   answer : Answers \cup {None},
   recorded : BOOLEAN,    \* the server wrote the record of the session
   found : BOOLEAN,       \* a poll has found it
   late : BOOLEAN]        \* the time for polling is over

NoTransfer == [files |-> {}, answer |-> None, recorded |-> FALSE, found |-> FALSE, late |-> FALSE]

PanelTypeOK ==
  /\ pendingFiles \in SUBSET LocalFiles /\ uploadLimit \in Limits
  /\ {policyAsked, stageAActive, stageBActive} \subseteq BOOLEAN
  /\ uploadController \in CallIds \cup {None}
  /\ transfers \in [CallIds -> Transfers]

PanelInit ==
  /\ pendingFiles = {} /\ uploadLimit = DefaultLimit /\ policyAsked = TRUE
  /\ stageAActive = FALSE /\ stageBActive = FALSE
  /\ uploadController = None
  /\ transfers = [c \in CallIds |-> NoTransfer]

Uploading(c, stage) == c \in Outstanding(stage) /\ calls[c].op = "upload"
GoTo(c, stage) == calls' = [calls EXCEPT ![c].stage = stage]
FormUnchanged == UNCHANGED <<form, projectRole, bucketOptions, renaming>>
RowsUnchanged == UNCHANGED <<objects, currentPrefix, selectedKeys, loading>>
DeletionUnchanged == UNCHANGED <<deleting, deleteController>>

-----------------------------------------------------------------------------
(* The files chosen, and the policy.                                       *)

\* beforeUpload: a file that is too large is not taken.
ChooseFile ==
  /\ PageReachable /\ CanWrite /\ ~stageAActive
  /\ \E f \in LocalFiles \ pendingFiles :
       SizeOf[f] <= uploadLimit /\ pendingFiles' = pendingFiles \cup {f}
  /\ UNCHANGED <<browserVars, uploadLimit, policyAsked, stageAActive, stageBActive,
                 uploadController, transfers>>

RemoveFile ==
  /\ PageReachable /\ CanWrite /\ ~stageAActive
  /\ \E f \in pendingFiles : pendingFiles' = pendingFiles \ {f}
  /\ UNCHANGED <<browserVars, uploadLimit, policyAsked, stageAActive, stageBActive,
                 uploadController, transfers>>

\* loadUploadPolicy
PolicyLoaded ==
  /\ policyAsked
  /\ policyAsked' = FALSE /\ uploadLimit' \in Limits
  /\ UNCHANGED <<browserVars, pendingFiles, stageAActive, stageBActive, uploadController, transfers>>

\* uploadObject reads the policy again, before it says that it is busy; the files
\* are those of the rendering it was clicked in.
UploadObject(c) ==
  /\ PageReachable /\ calls[c] = Idle
  /\ CanWrite /\ ~submitting /\ ~stageAActive
  /\ calls' = [calls EXCEPT ![c] = NewCall("upload", "policy", EmptyForm)]
  /\ transfers' = [transfers EXCEPT ![c] = [NoTransfer EXCEPT !.files = pendingFiles]]
  /\ FormUnchanged /\ RowsUnchanged /\ DeletionUnchanged
  /\ UNCHANGED <<submitting, pendingFiles, uploadLimit, policyAsked, stageAActive, stageBActive,
                 uploadController>>

Within(files, limit) == {f \in files : SizeOf[f] <= limit}

\* With the policy it reads the form, drops what is too large, and sends the rest.
SendFiles(c) ==
  /\ Uploading(c, "policy")
  /\ uploadLimit' \in Limits
  /\ LET files == transfers[c].files
         uploadable == Within(files, uploadLimit')
     IN IF ~Complete(form) \/ files = {}
          THEN /\ calls' = [calls EXCEPT ![c] = Idle]
               /\ transfers' = [transfers EXCEPT ![c] = NoTransfer]
               /\ UNCHANGED <<submitting, pendingFiles, stageAActive, stageBActive, uploadController>>
          ELSE /\ pendingFiles' = IF uploadable = files THEN pendingFiles
                                  ELSE Within(pendingFiles, uploadLimit')
               /\ IF uploadable = {}
                    THEN /\ calls' = [calls EXCEPT ![c] = Idle]
                         /\ transfers' = [transfers EXCEPT ![c] = NoTransfer]
                         /\ UNCHANGED <<submitting, stageAActive, stageBActive, uploadController>>
                    ELSE /\ calls' = [calls EXCEPT ![c] = NewCall("upload", "transfer", EmptyForm)]
                         /\ transfers' = [transfers EXCEPT ![c].files = uploadable]
                         /\ uploadController' = c
                         /\ stageAActive' = TRUE /\ stageBActive' = FALSE /\ submitting' = TRUE
  /\ FormUnchanged /\ RowsUnchanged /\ DeletionUnchanged
  /\ UNCHANGED policyAsked

\* cancelUpload: it reaches a transfer that has not been answered.
CancelUpload ==
  /\ PageReachable /\ stageAActive /\ uploadController # None
  /\ Uploading(uploadController, "transfer") /\ ~calls[uploadController].aborted
  /\ calls' = [calls EXCEPT ![uploadController] = Aborted(@)]
  /\ FormUnchanged /\ RowsUnchanged /\ DeletionUnchanged
  /\ UNCHANGED <<submitting, panelVars>>

-----------------------------------------------------------------------------
(* The answer, the session, and the report.                                *)

\* The finally of uploadObject.
UploadFinally(c) ==
  /\ uploadController' = None /\ stageAActive' = FALSE
  /\ transfers' = [transfers EXCEPT ![c] = NoTransfer]

\* Mutant of FailUpload: stage A is left as it was.
FailUploadBusy(c) ==
  /\ Finish(c)
  /\ uploadController' = None /\ UNCHANGED stageAActive
  /\ transfers' = [transfers EXCEPT ![c] = NoTransfer]
  /\ FormUnchanged /\ RowsUnchanged
  /\ UNCHANGED <<pendingFiles, uploadLimit, policyAsked>>

FailUpload(c) ==
  /\ Finish(c) /\ UploadFinally(c)
  /\ FormUnchanged /\ RowsUnchanged
  /\ UNCHANGED <<pendingFiles, uploadLimit, policyAsked>>

\* The counts the user is told: those of the session when one was found.
FinalCounts(t) ==
  IF t.found THEN [success |-> SessionSummary(t.answer.log).success,
                   failure |-> SessionSummary(t.answer.log).failure]
             ELSE UploadSummary(t.answer)

\* After the report: nothing is pending any more, and the page lists again; after
\* an archive from the root of the bucket.
Report(c, t) ==
  /\ pendingFiles' = {}
  /\ BeginListing(c, "upload",
       IF t.answer.log # None /\ FinalCounts(t).success > 0
         THEN [form EXCEPT !.prefix = Root] ELSE form)
  /\ IF Complete(form)
       THEN /\ transfers' = [transfers EXCEPT ![c] = [t EXCEPT !.recorded = FALSE, !.late = FALSE]]
            /\ UNCHANGED <<uploadController, stageAActive>>
       ELSE UploadFinally(c)
  /\ UNCHANGED <<projectRole, bucketOptions, objects, currentPrefix, renaming, uploadLimit, policyAsked>>

\* The reasons of a failed session are asked for before the report.
AfterSession(c, t) ==
  IF t.answer.log # None /\ FinalCounts(t).failure > 0
    THEN /\ GoTo(c, "failures")
         /\ transfers' = [transfers EXCEPT ![c] = t]
         /\ FormUnchanged /\ RowsUnchanged /\ DeletionUnchanged
         /\ UNCHANGED <<submitting, pendingFiles, uploadLimit, policyAsked, stageAActive,
                        uploadController>>
    ELSE Report(c, t)

TransferAnswer(c) ==
  /\ Uploading(c, "transfer")
  /\ \/ FailUpload(c) /\ UNCHANGED stageBActive
     \/ /\ ~calls[c].aborted
        /\ \E a \in Answers :
             LET t == [transfers[c] EXCEPT !.files = {}, !.answer = a]
             IN IF a.log = None
                  THEN AfterSession(c, t) /\ UNCHANGED stageBActive
                  ELSE /\ GoTo(c, "summary") /\ stageBActive' = TRUE
                       /\ \E recorded \in BOOLEAN :
                            transfers' = [transfers EXCEPT ![c] = [t EXCEPT !.recorded = recorded]]
                       /\ FormUnchanged /\ RowsUnchanged /\ DeletionUnchanged
                       /\ UNCHANGED <<submitting, pendingFiles, uploadLimit, policyAsked,
                                      stageAActive, uploadController>>

Polling(c) == \E stage \in {"summary", "reasons", "timer"} : Uploading(c, stage)

\* The poll goes on to a stage of its own.
PollGoesTo(c, stage, t) ==
  /\ GoTo(c, stage)
  /\ transfers' = [transfers EXCEPT ![c] = t]
  /\ FormUnchanged /\ RowsUnchanged /\ DeletionUnchanged
  /\ UNCHANGED <<submitting, pendingFiles, uploadLimit, policyAsked, stageAActive, stageBActive,
                 uploadController>>

PollEnds(c, t) == stageBActive' = FALSE /\ AfterSession(c, t)

\* loadUploadSessionSummaryByID: no record yet, a record, or a failure, which
\* ends the upload as failed.
SummaryAnswer(c) ==
  /\ Uploading(c, "summary")
  /\ LET t == [transfers[c] EXCEPT !.found = TRUE]
         summary == SessionSummary(t.answer.log)
     IN \/ ~t.recorded /\ PollGoesTo(c, "timer", transfers[c])
        \/ t.recorded /\ summary.failure > 0 /\ PollGoesTo(c, "reasons", t)
        \/ t.recorded /\ summary.failure = 0 /\ Terminal(summary) /\ PollEnds(c, t)
        \/ t.recorded /\ summary.failure = 0 /\ ~Terminal(summary) /\ PollGoesTo(c, "timer", t)
        \/ stageBActive' = FALSE /\ FailUpload(c)

ReasonsAnswer(c) ==
  /\ Uploading(c, "reasons")
  /\ IF Terminal(SessionSummary(transfers[c].answer.log))
       THEN PollEnds(c, transfers[c])
       ELSE PollGoesTo(c, "timer", transfers[c])

\* Mutant of PollAgain: it does not look at the deadline.
PollForever(c) ==
  /\ Uploading(c, "timer")
  /\ PollGoesTo(c, "summary", transfers[c])

\* The loop of the poll: its interval is over.
PollAgain(c) ==
  /\ Uploading(c, "timer")
  /\ IF transfers[c].late THEN PollEnds(c, transfers[c]) ELSE PollGoesTo(c, "summary", transfers[c])

DeadlinePasses(c) ==
  /\ Polling(c) /\ ~transfers[c].late
  /\ transfers' = [transfers EXCEPT ![c].late = TRUE]
  /\ UNCHANGED <<browserVars, pendingFiles, uploadLimit, policyAsked, stageAActive, stageBActive,
                 uploadController>>

FailuresAnswer(c) ==
  /\ Uploading(c, "failures")
  /\ Report(c, transfers[c])
  /\ UNCHANGED stageBActive

\* loadUploadSessionSummaries, the last call of an upload.
UploadDone(c) ==
  /\ Uploading(c, "sessions")
  /\ Finish(c) /\ UploadFinally(c)
  /\ FormUnchanged /\ RowsUnchanged
  /\ UNCHANGED <<pendingFiles, uploadLimit, policyAsked, stageBActive>>

-----------------------------------------------------------------------------
(* The page.                                                               *)

\* A selection hides the session that is being followed.
HideSession ==
  /\ stageBActive' = FALSE
  /\ UNCHANGED <<pendingFiles, uploadLimit, policyAsked, stageAActive, uploadController, transfers>>

StorageClick ==
  \/ BrowserClick /\ UNCHANGED panelVars
  \/ \E c \in CallIds : SelectProject(c) /\ HideSession
  \/ SelectBucket /\ HideSession
  \/ ChooseFile \/ RemoveFile \/ CancelUpload
  \/ \E c \in CallIds : UploadObject(c)

StorageAnswer(c) ==
  \/ BrowserAnswer(c) /\ IF c \in Outstanding("sessions") THEN HideSession ELSE UNCHANGED panelVars
  \/ SendFiles(c) \/ TransferAnswer(c) \/ SummaryAnswer(c) \/ ReasonsAnswer(c) \/ PollAgain(c)
  \/ FailuresAnswer(c) \/ UploadDone(c)

StorageInit == BrowserInit /\ PanelInit

StorageNext ==
  \/ StorageClick \/ PolicyLoaded
  \/ \E c \in CallIds : StorageAnswer(c) \/ DeadlinePasses(c)

\* Requests end, in an answer or in their timeout, and timers fire; nobody has to
\* click.
StorageFairness ==
  \A c \in CallIds : WF_storageVars(StorageAnswer(c)) /\ WF_storageVars(DeadlinePasses(c))

StorageSpec == StorageInit /\ [][StorageNext]_storageVars /\ StorageFairness

-----------------------------------------------------------------------------
(* Properties.                                                             *)

\* The state of the storage page keeps its types.
StorageTypeOK == BrowserTypeOK /\ PanelTypeOK

Deletes(c) == calls[c] # Idle /\ calls[c].op \in {"delete", "batch"}

\* Uploads and renames free the buttons while a deletion may still run, so two
\* deletions can overlap.  What the page shows and can cancel is then the later
\* one, to its end, and the earlier one has been told to stop
\* (startDeleteRequest, finishDeleteRequest).
LatestDeleteShown ==
  /\ deleting <=> deleteController # None
  /\ deleteController # None => Deletes(deleteController)
  /\ \A c \in CallIds :
       c \in Outstanding("sent") /\ Deletes(c) /\ c # deleteController => calls[c].aborted

\* The page never stays busy: whatever ends, fails, is canceled or overtaken, an
\* indicator that is on has a call under way whose end turns it off.  (The
\* reverse does not hold: the first end turns it off for all.)
NeverStuckBusy ==
  /\ loading => Outstanding("listing") # {}
  /\ submitting => \E c \in CallIds : calls[c] # Idle /\
       \/ calls[c].op \in {"delete", "batch", "rename"}
       \/ calls[c].op = "upload" /\ calls[c].stage # "policy"
  /\ stageAActive => \E c \in CallIds :
       calls[c] # Idle /\ calls[c].op = "upload" /\ calls[c].stage # "policy"
  /\ stageBActive => \E c \in CallIds : Polling(c)

\* Every handler comes to its end, also one that polls for a record that the
\* server failed to write (the deadline of pollUploadSessionStageB).
EveryCallEnds == \A c \in CallIds : calls[c] # Idle ~> calls[c] = Idle
=============================================================================
