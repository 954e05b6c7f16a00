------------------------- MODULE UploadPanel_proofs -------------------------
(***************************************************************************)
(* The storage page for any projects, buckets, paths, files and number of  *)
(* calls under way: types, that the deletion shown is the latest one, and  *)
(* that the page never stays busy.                                         *)
(***************************************************************************)
EXTENDS UploadPanel, SequenceTheorems, TLAPS

-----------------------------------------------------------------------------
(* Paths and prefixes.                                                     *)

LEMMA RootType == Root \in PagePrefixes
  BY EmptySeq DEF Root, PagePrefixes

LEMMA DirectoryType ==
  ASSUME NEW path \in Seq(STRING) PROVE Directory(path) \in PagePrefixes
  BY RootType DEF Directory, Written, PagePrefixes

LEMMA FrontType ==
  ASSUME NEW path \in Seq(STRING), path # <<>> PROVE Front(path) \in Seq(STRING)
  BY DEF Front

LEMMA ParentType ==
  ASSUME NEW prefix \in PagePrefixes PROVE Parent(prefix) \in PagePrefixes
<1>1. prefix # Root => prefix.path \in Seq(STRING) /\ prefix.path # <<>>
  BY DEF Root, PagePrefixes
<1> QED
  BY <1>1, RootType, FrontType, DirectoryType DEF Parent

\* Renaming a directory moves the page with it, to a path again.
LEMMA RemappedType ==
  ASSUME NEW prefix \in PagePrefixes, NEW source \in Seq(STRING), NEW target \in Seq(STRING)
  PROVE  Remapped(prefix, source, target) \in PagePrefixes
<1>1. prefix.path \in Seq(STRING)
  BY DEF PagePrefixes
<1>2. SubSeq(prefix.path, Len(source) + 1, Len(prefix.path)) \in Seq(STRING)
  BY <1>1, LenProperties
<1>3. target \o SubSeq(prefix.path, Len(source) + 1, Len(prefix.path)) \in Seq(STRING)
  BY <1>2
<1> QED
  BY <1>1, <1>3, DirectoryType DEF Remapped

LEMMA FormType ==
  ASSUME NEW place \in Places, NEW prefix \in PagePrefixes
  PROVE  [place EXCEPT !.prefix = prefix] \in Places
  BY DEF Places

LEMMA EmptyFormType == EmptyForm \in Places
  BY RootType DEF EmptyForm, Places

LEMMA ProjectFormType ==
  ASSUME NEW p \in Projects PROVE [EmptyForm EXCEPT !.project = p] \in Places
  BY EmptyFormType DEF Places

-----------------------------------------------------------------------------
(* Calls.                                                                  *)

Operations == {"context", "bootstrap", "query", "delete", "batch", "rename", "upload"}
Stages == {"options", "context", "sessions", "listing", "sent",
           "policy", "transfer", "summary", "reasons", "timer", "failures"}

LEMMA NewCallType ==
  ASSUME NEW op \in Operations, NEW stage \in Stages, NEW place \in Places
  PROVE  /\ NewCall(op, stage, place) \in Calls
         /\ NewCall(op, stage, place) # Idle
<1>1. NewCall(op, stage, place) \in Calls
  BY DEF NewCall, Calls, Operations, Stages
<1> QED
  BY <1>1, IdleAssumption

LEMMA AbortedType ==
  ASSUME NEW call \in Calls
  PROVE  Aborted(call) \in Calls /\ Aborted(call) # Idle
  BY IdleAssumption DEF Aborted, Calls

LEMMA FinishType ==
  ASSUME BrowserTypeOK, NEW c \in CallIds, Finish(c)
  PROVE  /\ calls' \in [CallIds -> Calls \cup {Idle}]
         /\ submitting' \in BOOLEAN /\ deleting' \in BOOLEAN
         /\ deleteController' \in CallIds \cup {None}
  BY DEF Finish, BrowserTypeOK

LEMMA BeginListingType ==
  ASSUME BrowserTypeOK, NEW c \in CallIds, NEW op \in Operations, NEW place \in Places,
         BeginListing(c, op, place)
  PROVE  /\ form' \in Places
         /\ calls' \in [CallIds -> Calls \cup {Idle}]
         /\ loading' \in BOOLEAN /\ submitting' \in BOOLEAN /\ deleting' \in BOOLEAN
         /\ selectedKeys' \in SUBSET Entries
         /\ deleteController' \in CallIds \cup {None}
<1>1. NewCall(op, "listing", place) \in Calls
  BY NewCallType DEF Stages
<1>2. CASE Complete(place)
  BY <1>1, <1>2 DEF BeginListing, BrowserTypeOK
<1>3. CASE ~Complete(place) /\ calls[c] = Idle
  BY <1>3 DEF BeginListing, BrowserTypeOK
<1>4. CASE ~Complete(place) /\ calls[c] # Idle
  BY <1>4, FinishType DEF BeginListing, BrowserTypeOK
<1> QED
  BY <1>2, <1>3, <1>4

-----------------------------------------------------------------------------
(* Types.                                                                  *)

LEMMA BrowserTypeInit == BrowserInit => BrowserTypeOK
<1> SUFFICES ASSUME BrowserInit PROVE BrowserTypeOK
  OBVIOUS
<1>1. \A p \in Projects : NewCall("bootstrap", "options", [EmptyForm EXCEPT !.project = p]) \in Calls
  BY NewCallType, ProjectFormType DEF Operations, Stages
<1>2. calls \in [CallIds -> Calls \cup {Idle}]
  BY <1>1 DEF BrowserInit
<1> QED
  BY <1>2, EmptyFormType, RootType DEF BrowserInit, BrowserTypeOK, Roles

\* Where a call is, and that a context is asked for a project.
Fits(call) ==
  /\ call.op = "query" => call.stage = "listing"
  /\ call.op \in {"delete", "batch", "rename"} => call.stage \in {"sent", "listing"}
  /\ call.op = "context" => call.stage = "context"
  /\ call.op = "bootstrap" => call.stage \in {"options", "context", "sessions"}
  /\ call.op = "upload" => call.stage \in {"policy", "transfer", "summary", "reasons", "timer",
                                         "failures", "listing", "sessions"}
  /\ call.stage \in {"options", "context"} => call.place.project \in Projects

CallsFit == \A c \in CallIds : calls[c] # Idle => Fits(calls[c])

\* The clicks and the answers of the object browser.
LEMMA BrowserClickType ==
  BrowserTypeOK /\ LatestDeleteShown /\ BrowserClick => BrowserTypeOK'
<1> SUFFICES ASSUME BrowserTypeOK, LatestDeleteShown, BrowserClick PROVE BrowserTypeOK'
  OBVIOUS
<1>1. RowsShown \subseteq Entries
  BY DEF RowsShown, Rows
<1>2. CASE TypePrefix
  BY <1>2, FormType, TypedAssumption DEF TypePrefix, BrowserTypeOK
<1>3. CASE SelectRows
  BY <1>1, <1>3 DEF SelectRows, BrowserTypeOK
<1>4. CASE CancelDelete
  <2>1. calls[deleteController] \in Calls
    BY <1>4 DEF CancelDelete, BrowserTypeOK, LatestDeleteShown, Deletes
  <2>2. calls' \in [CallIds -> Calls \cup {Idle}]
    BY <1>4, <2>1, AbortedType DEF CancelDelete, BrowserTypeOK
  <2> QED
    BY <1>4, <2>2 DEF CancelDelete, BrowserTypeOK
<1>5. CASE OpenRename
  BY <1>1, <1>5 DEF OpenRename, BrowserTypeOK
<1>6. CASE CancelRename
  BY <1>6 DEF CancelRename, BrowserTypeOK
<1>7. ASSUME NEW c \in CallIds, NEW place \in Places, List(c, place) PROVE BrowserTypeOK'
  BY <1>7, BeginListingType DEF List, ListingUnchanged, Operations, BrowserTypeOK
<1>8. ASSUME NEW c \in CallIds, QueryObjects(c) PROVE BrowserTypeOK'
  BY <1>7, <1>8 DEF QueryObjects, BrowserTypeOK
<1>9. ASSUME NEW c \in CallIds, EnterDirectory(c) PROVE BrowserTypeOK'
  <2>1. PICK d \in RowsShown \cap Directories : List(c, [form EXCEPT !.prefix = Directory(d)])
    BY <1>9 DEF EnterDirectory
  <2>2. Directory(d) \in PagePrefixes
    BY DirectoryType, EntriesAssumption DEF Entries
  <2>3. [form EXCEPT !.prefix = Directory(d)] \in Places
    BY <2>2, FormType DEF BrowserTypeOK
  <2> QED
    BY <1>7, <2>1, <2>3
<1>10. ASSUME NEW c \in CallIds, GoToParentDirectory(c) PROVE BrowserTypeOK'
  <2>1. [form EXCEPT !.prefix = Parent(currentPrefix)] \in Places
    BY ParentType, FormType DEF BrowserTypeOK
  <2> QED
    BY <1>7, <1>10, <2>1 DEF GoToParentDirectory
<1>11. ASSUME NEW c \in CallIds, NEW op \in Operations, NEW after \in PagePrefixes \cup {None},
              StartDelete(c, op, after)
       PROVE  BrowserTypeOK'
  <2>1. NewCall(op, "sent", EmptyForm) \in Calls
    BY NewCallType, EmptyFormType DEF Stages
  <2>2. [NewCall(op, "sent", EmptyForm) EXCEPT !.after = after] \in Calls
    BY <2>1 DEF Calls
  <2>3. deleteController # None => Aborted(calls[deleteController]) \in Calls
    BY AbortedType DEF BrowserTypeOK, LatestDeleteShown, Deletes
  <2> QED
    BY <1>11, <2>2, <2>3, NoneAssumption DEF StartDelete, BrowserTypeOK
<1>12. ASSUME NEW c \in CallIds, DeleteObject(c) \/ DeleteSelectedObjects(c) PROVE BrowserTypeOK'
  <2>1. Parent(currentPrefix) \in PagePrefixes
    BY ParentType DEF BrowserTypeOK
  <2> QED
    BY <1>11, <1>12, <2>1 DEF DeleteObject, DeleteSelectedObjects, Operations
<1>13. ASSUME NEW c \in CallIds, SubmitRename(c) PROVE BrowserTypeOK'
  <2>1. PICK target \in Entries :
          calls' = [calls EXCEPT ![c] = [NewCall("rename", "sent", EmptyForm) EXCEPT
            !.after = IF target \in Files THEN None ELSE Remapped(currentPrefix, renaming, target)]]
    BY <1>13 DEF SubmitRename
  <2>2. Remapped(currentPrefix, renaming, target) \in PagePrefixes
    BY <1>13, RemappedType, EntriesAssumption DEF SubmitRename, BrowserTypeOK
  <2>3. NewCall("rename", "sent", EmptyForm) \in Calls
    BY NewCallType, EmptyFormType DEF Operations, Stages
  <2>4. calls'[c] \in Calls
    BY <2>1, <2>2, <2>3 DEF Calls, BrowserTypeOK
  <2>5. calls' \in [CallIds -> Calls \cup {Idle}]
    BY <2>1, <2>4 DEF BrowserTypeOK
  <2> QED
    BY <1>13, <2>5 DEF SubmitRename, BrowserTypeOK
<1> QED
  BY <1>2, <1>3, <1>4, <1>5, <1>6, <1>8, <1>9, <1>10, <1>12, <1>13 DEF BrowserClick

\* The selection of a project and of a bucket.
LEMMA SelectionType ==
  ASSUME BrowserTypeOK, SelectBucket \/ \E c \in CallIds : SelectProject(c)
  PROVE  BrowserTypeOK'
<1>1. ASSUME NEW c \in CallIds, SelectProject(c) PROVE BrowserTypeOK'
  <2>1. PICK p \in Projects :
          /\ form' = [form EXCEPT !.project = p, !.prefix = Root]
          /\ calls' = [calls EXCEPT ![c] = NewCall("context", "context", [EmptyForm EXCEPT !.project = p])]
    BY <1>1 DEF SelectProject
  <2>2. form' \in Places
    BY <2>1, RootType DEF BrowserTypeOK, Places
  <2>3. NewCall("context", "context", [EmptyForm EXCEPT !.project = p]) \in Calls
    BY NewCallType, ProjectFormType DEF Operations, Stages
  <2> QED
    BY <1>1, <2>1, <2>2, <2>3, RootType DEF SelectProject, ClearRows, BrowserTypeOK, Roles
<1>2. CASE SelectBucket
  <2>1. PICK b \in ToSet(BucketsOf[bucketOptions]) : form' = [form EXCEPT !.bucket = b, !.prefix = Root]
    BY <1>2 DEF SelectBucket
  <2>2. b \in Buckets
    <3>1. BucketsOf[bucketOptions] \in Seq(Buckets)
      BY <1>2, ContextAssumption DEF SelectBucket, BrowserTypeOK
    <3>2. PICK i \in DOMAIN BucketsOf[bucketOptions] : b = BucketsOf[bucketOptions][i]
      BY <2>1 DEF ToSet
    <3> QED
      BY <3>1, <3>2, ElementOfSeq, LenProperties
  <2>3. form' \in Places
    BY <2>1, <2>2, RootType DEF BrowserTypeOK, Places
  <2> QED
    BY <1>2, <2>3, RootType DEF SelectBucket, ClearRows, BrowserTypeOK
<1> QED
  BY <1>1, <1>2

LEMMA BrowserAnswerType ==
  ASSUME BrowserTypeOK, CallsFit, NEW c \in CallIds, BrowserAnswer(c)
  PROVE  BrowserTypeOK'
<1> USE DEF Outstanding
<1>1. CASE ListingAnswer(c)
  <2>1. calls[c] \in Calls
    BY <1>1 DEF ListingAnswer, BrowserTypeOK
  <2>2. NewCall("upload", "sessions", EmptyForm) \in Calls
    BY NewCallType, EmptyFormType DEF Operations, Stages
  <2>3. /\ calls' \in [CallIds -> Calls \cup {Idle}]
        /\ submitting' \in BOOLEAN /\ deleting' \in BOOLEAN
        /\ deleteController' \in CallIds \cup {None}
    BY <1>1, <2>2, FinishType DEF ListingAnswer, BrowserTypeOK
  <2>4. objects' \in Places \cup {None} /\ currentPrefix' \in PagePrefixes
    BY <1>1, <2>1 DEF ListingAnswer, BrowserTypeOK, Calls, Places
  <2> QED
    BY <1>1, <2>3, <2>4 DEF ListingAnswer, BrowserTypeOK
<1>2. CASE ContextAnswer(c)
  <2> DEFINE p == calls[c].place.project
             bucket == IF BucketsOf[p] = <<>> THEN None ELSE Head(BucketsOf[p])
  <2>1. calls[c] \in Calls /\ p \in Projects
    BY <1>2 DEF ContextAnswer, BrowserTypeOK, CallsFit, Fits
  <2>2. bucket \in Buckets \cup {None}
    BY <2>1, ContextAssumption
  <2>3. RoleOf[p] \in Roles
    BY <2>1, ContextAssumption
  <2> HIDE DEF p, bucket
  <2>4. \/ /\ projectRole' = RoleOf[p] /\ bucketOptions' = p
           /\ form' = [form EXCEPT !.bucket = bucket, !.prefix = Root]
        \/ /\ projectRole' = "" /\ bucketOptions' = None
           /\ form' = [form EXCEPT !.bucket = None, !.prefix = Root]
    BY <1>2 DEF ContextAnswer, p, bucket
  <2>5. form' \in Places /\ projectRole' \in Roles /\ bucketOptions' \in Projects \cup {None}
    BY <2>1, <2>2, <2>3, <2>4, RootType DEF BrowserTypeOK, Places, Roles
  <2>6. [calls[c] EXCEPT !.stage = "sessions"] \in Calls
    BY <2>1 DEF Calls
  <2>7. calls' \in [CallIds -> Calls \cup {Idle}]
    BY <1>2, <2>6 DEF ContextAnswer, BrowserTypeOK
  <2> QED
    BY <1>2, <2>5, <2>7, RootType DEF ContextAnswer, BrowserTypeOK
<1>3. CASE BootstrapOptions(c)
  <2>1. calls[c] \in Calls /\ calls[c].place.project \in Projects
    BY <1>3 DEF BootstrapOptions, BrowserTypeOK, CallsFit, Fits
  <2>2. [calls[c] EXCEPT !.stage = "context"] \in Calls
    BY <2>1 DEF Calls
  <2>3. calls' \in [CallIds -> Calls \cup {Idle}]
    BY <1>3, <2>2 DEF BootstrapOptions, BrowserTypeOK
  <2>4. form' \in Places /\ projectRole' \in Roles
    BY <1>3, <2>1 DEF BootstrapOptions, BrowserTypeOK, Places, Roles
  <2> QED
    BY <1>3, <2>3, <2>4 DEF BootstrapOptions, BrowserTypeOK
<1>4. CASE BootstrapDone(c)
  BY <1>4, FormType, RootType DEF BootstrapDone, ClearRows, BrowserTypeOK
<1>5. calls[c] \in Calls => FormAfter(calls[c]) \in Places
  BY FormType DEF FormAfter, BrowserTypeOK, Calls
<1>6. CASE DeleteAnswer(c)
  BY <1>5, <1>6, BeginListingType, FinishType
  DEF DeleteAnswer, ListingUnchanged, BrowserTypeOK, Operations
<1>7. CASE BatchDeleteAnswer(c)
  BY <1>7, BeginListingType, FinishType
  DEF BatchDeleteAnswer, ListingUnchanged, BrowserTypeOK, Operations
<1>8. CASE RenameAnswer(c)
  BY <1>5, <1>8, BeginListingType, FinishType
  DEF RenameAnswer, ListingUnchanged, BrowserTypeOK, Operations
<1> QED
  BY <1>1, <1>2, <1>3, <1>4, <1>6, <1>7, <1>8 DEF BrowserAnswer

\* The upload panel.
LEMMA UploadingCall ==
  ASSUME BrowserTypeOK, NEW c \in CallIds, NEW stage, Uploading(c, stage)
  PROVE  calls[c] \in Calls /\ calls[c].op = "upload" /\ calls[c].stage = stage
  BY DEF Uploading, Outstanding, BrowserTypeOK

LEMMA GoToType ==
  ASSUME BrowserTypeOK, NEW c \in CallIds, calls[c] \in Calls, NEW stage \in Stages, GoTo(c, stage)
  PROVE  calls' \in [CallIds -> Calls \cup {Idle}]
<1>1. [calls[c] EXCEPT !.stage = stage] \in Calls
  BY DEF Calls, Stages
<1> QED
  BY <1>1 DEF GoTo, BrowserTypeOK

LEMMA NoTransferType == NoTransfer \in Transfers
  BY DEF NoTransfer, Transfers

LEMMA UploadFinallyType ==
  ASSUME PanelTypeOK, NEW c \in CallIds, UploadFinally(c)
  PROVE  /\ uploadController' \in CallIds \cup {None} /\ stageAActive' \in BOOLEAN
         /\ transfers' \in [CallIds -> Transfers]
  BY NoTransferType DEF UploadFinally, PanelTypeOK

LEMMA ReportType ==
  ASSUME StorageTypeOK, NEW c \in CallIds, NEW t \in Transfers, Report(c, t),
         stageBActive' \in BOOLEAN
  PROVE  StorageTypeOK'
<1> USE DEF StorageTypeOK
<1> DEFINE place == IF t.answer.log # None /\ FinalCounts(t).success > 0
                      THEN [form EXCEPT !.prefix = Root] ELSE form
<1>1. place \in Places
  BY FormType, RootType DEF BrowserTypeOK
<1>2. BeginListing(c, "upload", place)
  BY DEF Report
<1> HIDE DEF place
<1>3. BrowserTypeOK'
  BY <1>1, <1>2, BeginListingType DEF Report, BrowserTypeOK, Operations
<1>4. [t EXCEPT !.recorded = FALSE, !.late = FALSE] \in Transfers
  BY DEF Transfers
<1>5. /\ uploadController' \in CallIds \cup {None} /\ stageAActive' \in BOOLEAN
      /\ transfers' \in [CallIds -> Transfers]
  BY <1>4, UploadFinallyType DEF Report, PanelTypeOK
<1>6. PanelTypeOK'
  BY <1>5 DEF Report, PanelTypeOK
<1> QED
  BY <1>3, <1>6

LEMMA AfterSessionType ==
  ASSUME StorageTypeOK, NEW c \in CallIds, calls[c] \in Calls, NEW t \in Transfers,
         AfterSession(c, t), stageBActive' \in BOOLEAN
  PROVE  StorageTypeOK'
<1>1. CASE t.answer.log # None /\ FinalCounts(t).failure > 0
  <2>1. calls' \in [CallIds -> Calls \cup {Idle}]
    BY <1>1, GoToType DEF AfterSession, StorageTypeOK, Stages
  <2> QED
    BY <1>1, <2>1 DEF AfterSession, FormUnchanged, RowsUnchanged, DeletionUnchanged,
                      StorageTypeOK, BrowserTypeOK, PanelTypeOK
<1>2. CASE ~(t.answer.log # None /\ FinalCounts(t).failure > 0)
  BY <1>2, ReportType DEF AfterSession
<1> QED
  BY <1>1, <1>2

LEMMA PollGoesToType ==
  ASSUME StorageTypeOK, NEW c \in CallIds, calls[c] \in Calls, NEW stage \in Stages,
         NEW t \in Transfers, PollGoesTo(c, stage, t)
  PROVE  StorageTypeOK'
<1>1. calls' \in [CallIds -> Calls \cup {Idle}]
  BY GoToType DEF PollGoesTo, StorageTypeOK
<1> QED
  BY <1>1 DEF PollGoesTo, FormUnchanged, RowsUnchanged, DeletionUnchanged,
              StorageTypeOK, BrowserTypeOK, PanelTypeOK

LEMMA FailUploadType ==
  ASSUME StorageTypeOK, NEW c \in CallIds, FailUpload(c), stageBActive' \in BOOLEAN
  PROVE  StorageTypeOK'
  BY FinishType, UploadFinallyType
  DEF FailUpload, FormUnchanged, RowsUnchanged, StorageTypeOK, BrowserTypeOK, PanelTypeOK

LEMMA UploadClickType ==
  ASSUME StorageTypeOK,
         ChooseFile \/ RemoveFile \/ CancelUpload \/ PolicyLoaded \/ \E c \in CallIds : UploadObject(c)
  PROVE  StorageTypeOK'
<1> USE DEF StorageTypeOK
<1>1. BrowserTypeOK /\ UNCHANGED browserVars => BrowserTypeOK'
  BY DEF browserVars, BrowserTypeOK
<1>2. CASE ChooseFile
  BY <1>1, <1>2 DEF ChooseFile, PanelTypeOK
<1>3. CASE RemoveFile
  BY <1>1, <1>3 DEF RemoveFile, PanelTypeOK
<1>4. CASE PolicyLoaded
  BY <1>1, <1>4 DEF PolicyLoaded, PanelTypeOK
<1>5. CASE CancelUpload
  <2>1. uploadController \in CallIds /\ calls[uploadController] \in Calls
    BY <1>5, UploadingCall DEF CancelUpload, PanelTypeOK
  <2>2. calls' \in [CallIds -> Calls \cup {Idle}]
    BY <1>5, <2>1, AbortedType DEF CancelUpload, BrowserTypeOK
  <2> QED
    BY <1>5, <2>2 DEF CancelUpload, FormUnchanged, RowsUnchanged, DeletionUnchanged, panelVars,
                      BrowserTypeOK, PanelTypeOK
<1>6. ASSUME NEW c \in CallIds, UploadObject(c) PROVE StorageTypeOK'
  <2>1. NewCall("upload", "policy", EmptyForm) \in Calls
    BY NewCallType, EmptyFormType DEF Operations, Stages
  <2>2. [NoTransfer EXCEPT !.files = pendingFiles] \in Transfers
    BY NoTransferType DEF Transfers, PanelTypeOK
  <2> QED
    BY <1>6, <2>1, <2>2 DEF UploadObject, FormUnchanged, RowsUnchanged, DeletionUnchanged,
                            BrowserTypeOK, PanelTypeOK
<1> QED
  BY <1>2, <1>3, <1>4, <1>5, <1>6

LEMMA SendFilesType ==
  ASSUME StorageTypeOK, NEW c \in CallIds, SendFiles(c)
  PROVE  StorageTypeOK'
<1> USE DEF StorageTypeOK
<1> DEFINE uploadable == Within(transfers[c].files, uploadLimit')
<1>1. NewCall("upload", "transfer", EmptyForm) \in Calls
  BY NewCallType, EmptyFormType DEF Operations, Stages
<1>2. transfers[c] \in Transfers /\ uploadable \in SUBSET LocalFiles
  BY DEF PanelTypeOK, Transfers, Within
<1>3. [transfers[c] EXCEPT !.files = uploadable] \in Transfers
  BY <1>2 DEF Transfers
<1>4. /\ calls' \in [CallIds -> Calls \cup {Idle}]
      /\ transfers' \in [CallIds -> Transfers]
      /\ submitting' \in BOOLEAN /\ stageAActive' \in BOOLEAN /\ stageBActive' \in BOOLEAN
      /\ uploadController' \in CallIds \cup {None}
  BY <1>1, <1>3, NoTransferType DEF SendFiles, BrowserTypeOK, PanelTypeOK
<1>5. pendingFiles' \in SUBSET LocalFiles /\ uploadLimit' \in Limits
  BY DEF SendFiles, PanelTypeOK, Within
<1> QED
  BY <1>4, <1>5 DEF SendFiles, FormUnchanged, RowsUnchanged, DeletionUnchanged,
                    BrowserTypeOK, PanelTypeOK

LEMMA UploadAnswerType ==
  ASSUME StorageTypeOK, NEW c \in CallIds,
         \/ TransferAnswer(c) \/ SummaryAnswer(c) \/ ReasonsAnswer(c) \/ PollAgain(c)
         \/ FailuresAnswer(c) \/ UploadDone(c) \/ DeadlinePasses(c)
  PROVE  StorageTypeOK'
<1>1. transfers[c] \in Transfers /\ stageBActive \in BOOLEAN
  BY DEF StorageTypeOK, PanelTypeOK
<1>2. \A stage : Uploading(c, stage) => calls[c] \in Calls
  BY UploadingCall DEF StorageTypeOK
<1>3. CASE TransferAnswer(c)
  <2>1. CASE FailUpload(c) /\ UNCHANGED stageBActive
    BY <1>1, <2>1, FailUploadType
  <2>2. ASSUME NEW a \in Answers,
               LET t == [transfers[c] EXCEPT !.files = {}, !.answer = a]
               IN IF a.log = None
                    THEN AfterSession(c, t) /\ UNCHANGED stageBActive
                    ELSE /\ GoTo(c, "summary") /\ stageBActive' = TRUE
                         /\ \E recorded \in BOOLEAN :
                              transfers' = [transfers EXCEPT ![c] = [t EXCEPT !.recorded = recorded]]
                         /\ FormUnchanged /\ RowsUnchanged /\ DeletionUnchanged
                         /\ UNCHANGED <<submitting, pendingFiles, uploadLimit, policyAsked,
                                        stageAActive, uploadController>>
        PROVE  StorageTypeOK'
    <3> DEFINE t == [transfers[c] EXCEPT !.files = {}, !.answer = a]
    <3>1. t \in Transfers
      BY <1>1 DEF Transfers
    <3> HIDE DEF t
    <3>2. calls[c] \in Calls
      BY <1>2, <1>3 DEF TransferAnswer
    <3>3. CASE a.log = None
      BY <1>1, <2>2, <3>1, <3>2, <3>3, AfterSessionType DEF t
    <3>4. CASE a.log # None
      <4>1. PICK recorded \in BOOLEAN :
              transfers' = [transfers EXCEPT ![c] = [t EXCEPT !.recorded = recorded]]
        BY <2>2, <3>4 DEF t
      <4>2. [t EXCEPT !.recorded = recorded] \in Transfers
        BY <3>1 DEF Transfers
      <4>3. calls' \in [CallIds -> Calls \cup {Idle}]
        BY <2>2, <3>2, <3>4, GoToType DEF StorageTypeOK, Stages
      <4> QED
        BY <2>2, <3>4, <4>1, <4>2, <4>3
        DEF FormUnchanged, RowsUnchanged, DeletionUnchanged, StorageTypeOK, BrowserTypeOK, PanelTypeOK
    <3> QED
      BY <3>3, <3>4
  <2> QED
    BY <1>3, <2>1, <2>2 DEF TransferAnswer
<1>4. CASE SummaryAnswer(c)
  <2>1. [transfers[c] EXCEPT !.found = TRUE] \in Transfers
    BY <1>1 DEF Transfers
  <2> QED
    BY <1>1, <1>2, <1>4, <2>1, PollGoesToType, AfterSessionType, FailUploadType
    DEF SummaryAnswer, PollEnds, Stages
<1>5. CASE ReasonsAnswer(c)
  BY <1>1, <1>2, <1>5, PollGoesToType, AfterSessionType DEF ReasonsAnswer, PollEnds, Stages
<1>6. CASE PollAgain(c)
  BY <1>1, <1>2, <1>6, PollGoesToType, AfterSessionType DEF PollAgain, PollEnds, Stages
<1>7. CASE FailuresAnswer(c)
  BY <1>1, <1>7, ReportType DEF FailuresAnswer
<1>8. CASE UploadDone(c)
  BY <1>8, FinishType, UploadFinallyType
  DEF UploadDone, FormUnchanged, RowsUnchanged, StorageTypeOK, BrowserTypeOK, PanelTypeOK
<1>9. CASE DeadlinePasses(c)
  <2>1. [transfers[c] EXCEPT !.late = TRUE] \in Transfers
    BY <1>1 DEF Transfers
  <2> QED
    BY <1>9, <2>1 DEF DeadlinePasses, browserVars, StorageTypeOK, BrowserTypeOK, PanelTypeOK
<1> QED
  BY <1>3, <1>4, <1>5, <1>6, <1>7, <1>8, <1>9

LEMMA StorageTypeInit == StorageInit => StorageTypeOK
<1>1. PanelInit => PanelTypeOK
  BY NoTransferType, SizesAssumption DEF PanelInit, PanelTypeOK
<1> QED
  BY <1>1, BrowserTypeInit DEF StorageInit, StorageTypeOK

LEMMA StorageTypeStep ==
  StorageTypeOK /\ CallsFit /\ LatestDeleteShown /\ [StorageNext]_storageVars => StorageTypeOK'
<1> SUFFICES ASSUME StorageTypeOK, CallsFit, LatestDeleteShown, [StorageNext]_storageVars
             PROVE  StorageTypeOK'
  OBVIOUS
<1> USE DEF StorageTypeOK
<1>1. UNCHANGED panelVars => PanelTypeOK'
  BY DEF panelVars, PanelTypeOK
<1>2. HideSession => PanelTypeOK'
  BY DEF HideSession, PanelTypeOK
<1>3. CASE StorageClick
  BY <1>1, <1>2, <1>3, BrowserClickType, SelectionType, UploadClickType DEF StorageClick
<1>4. CASE PolicyLoaded
  BY <1>4, UploadClickType
<1>5. ASSUME NEW c \in CallIds, StorageAnswer(c) \/ DeadlinePasses(c) PROVE StorageTypeOK'
  <2>1. BrowserAnswer(c) => BrowserTypeOK'
    BY BrowserAnswerType
  <2> QED
    BY <1>1, <1>2, <1>5, <2>1, SendFilesType, UploadAnswerType DEF StorageAnswer
<1>6. CASE UNCHANGED storageVars
  <2>1. BrowserTypeOK'
    BY <1>6 DEF storageVars, browserVars, BrowserTypeOK
  <2> QED
    BY <1>1, <1>6, <2>1 DEF storageVars
<1> QED
  BY <1>3, <1>4, <1>5, <1>6 DEF StorageNext

-----------------------------------------------------------------------------
(* Calls fit the stages of their handlers.                                 *)

LEMMA StageType ==
  ASSUME NEW call \in Calls, NEW stage \in Stages
  PROVE  [call EXCEPT !.stage = stage] \in Calls /\ [call EXCEPT !.stage = stage] # Idle
<1>1. [call EXCEPT !.stage = stage] \in Calls
  BY DEF Calls, Stages
<1> QED
  BY <1>1, IdleAssumption

Listers == {"query", "delete", "batch", "rename", "upload"}

LEMMA FinishFit ==
  ASSUME BrowserTypeOK, CallsFit, NEW c \in CallIds, Finish(c)
  PROVE  CallsFit'
  BY DEF Finish, CallsFit, BrowserTypeOK

LEMMA BeginListingFit ==
  ASSUME BrowserTypeOK, CallsFit, NEW c \in CallIds, NEW op \in Listers, NEW place,
         BeginListing(c, op, place)
  PROVE  CallsFit'
<1>1. CASE Complete(place)
  <2>1. Fits(NewCall(op, "listing", place))
    BY DEF Fits, NewCall, Listers
  <2> QED
    BY <1>1, <2>1 DEF BeginListing, CallsFit, BrowserTypeOK
<1>2. CASE ~Complete(place)
  BY <1>2, FinishFit DEF BeginListing, CallsFit
<1> QED
  BY <1>1, <1>2

LEMMA GoToFit ==
  ASSUME BrowserTypeOK, CallsFit, NEW c \in CallIds, calls[c] \in Calls, calls[c].op = "upload",
         NEW stage \in {"summary", "reasons", "timer", "failures"}, GoTo(c, stage)
  PROVE  CallsFit'
<1>1. Fits([calls[c] EXCEPT !.stage = stage])
  BY DEF Fits, Calls
<1> QED
  BY <1>1 DEF GoTo, CallsFit, BrowserTypeOK

LEMMA AfterSessionFit ==
  ASSUME BrowserTypeOK, CallsFit, NEW c \in CallIds, calls[c] \in Calls, calls[c].op = "upload",
         NEW t, AfterSession(c, t)
  PROVE  CallsFit'
  BY GoToFit, BeginListingFit DEF AfterSession, Report, Listers

LEMMA FitStep ==
  StorageTypeOK /\ CallsFit /\ LatestDeleteShown /\ [StorageNext]_storageVars => CallsFit'
<1> SUFFICES ASSUME StorageTypeOK, CallsFit, LatestDeleteShown, [StorageNext]_storageVars
             PROVE  CallsFit'
  OBVIOUS
<1> BrowserTypeOK
  BY DEF StorageTypeOK
<1>1. UNCHANGED calls => CallsFit'
  BY DEF CallsFit
<1>2. ASSUME NEW c \in CallIds, calls[c] \in Calls, calls' = [calls EXCEPT ![c] = Aborted(calls[c])]
      PROVE  CallsFit'
  <2>1. Fits(calls[c]) => Fits(Aborted(calls[c]))
    BY <1>2 DEF Fits, Aborted, Calls
  <2>2. calls[c] # Idle
    BY <1>2, IdleAssumption
  <2> QED
    BY <1>2, <2>1, <2>2 DEF CallsFit, BrowserTypeOK
<1>3. CASE CancelDelete \/ CancelUpload
  <2>1. \E c \in CallIds : calls[c] \in Calls /\ calls' = [calls EXCEPT ![c] = Aborted(calls[c])]
    BY <1>3 DEF CancelDelete, CancelUpload, Uploading, Outstanding, LatestDeleteShown, Deletes,
                StorageTypeOK, BrowserTypeOK, PanelTypeOK
  <2> QED
    BY <1>2, <2>1
<1>4. CASE TypePrefix \/ SelectRows \/ OpenRename \/ CancelRename \/ SelectBucket
           \/ ChooseFile \/ RemoveFile \/ PolicyLoaded
  BY <1>1, <1>4 DEF TypePrefix, SelectRows, OpenRename, CancelRename, SelectBucket,
                    ChooseFile, RemoveFile, PolicyLoaded, browserVars
<1>5. ASSUME NEW c \in CallIds, QueryObjects(c) \/ EnterDirectory(c) \/ GoToParentDirectory(c)
      PROVE  CallsFit'
  BY <1>5, BeginListingFit DEF QueryObjects, EnterDirectory, GoToParentDirectory, List, Listers
<1>6. ASSUME NEW c \in CallIds, NEW op \in {"delete", "batch"}, NEW after, StartDelete(c, op, after)
      PROVE  CallsFit'
  <2>1. \A call \in Calls : Fits(call) => Fits(Aborted(call))
    BY DEF Fits, Aborted, Calls
  <2>2. Fits([NewCall(op, "sent", EmptyForm) EXCEPT !.after = after])
    BY DEF Fits, NewCall
  <2>3. \A x \in CallIds \ {c} : calls'[x] \in {calls[x], Aborted(calls[x])} /\ (calls[x] = Idle => calls'[x] = Idle)
    BY <1>6, NoneAssumption DEF StartDelete, LatestDeleteShown, Deletes, BrowserTypeOK
  <2>4. calls'[c] = [NewCall(op, "sent", EmptyForm) EXCEPT !.after = after]
    BY <1>6 DEF StartDelete
  <2> QED
    BY <2>1, <2>2, <2>3, <2>4 DEF CallsFit, BrowserTypeOK
<1>7. ASSUME NEW c \in CallIds, DeleteObject(c) \/ DeleteSelectedObjects(c) PROVE CallsFit'
  BY <1>6, <1>7 DEF DeleteObject, DeleteSelectedObjects
<1>8. ASSUME NEW c \in CallIds, SubmitRename(c) PROVE CallsFit'
  <2>1. \A after : Fits([NewCall("rename", "sent", EmptyForm) EXCEPT !.after = after])
    BY DEF Fits, NewCall
  <2> QED
    BY <1>8, <2>1 DEF SubmitRename, CallsFit, BrowserTypeOK
<1>9. ASSUME NEW c \in CallIds, SelectProject(c) PROVE CallsFit'
  <2>1. \A p \in Projects : Fits(NewCall("context", "context", [EmptyForm EXCEPT !.project = p]))
    BY DEF Fits, NewCall, EmptyForm
  <2> QED
    BY <1>9, <2>1 DEF SelectProject, CallsFit, BrowserTypeOK
<1>10. ASSUME NEW c \in CallIds, UploadObject(c) PROVE CallsFit'
  BY <1>10 DEF UploadObject, NewCall, CallsFit, Fits, BrowserTypeOK
<1>11. ASSUME NEW c \in CallIds, ListingAnswer(c) PROVE CallsFit'
  BY <1>11, FinishFit DEF ListingAnswer, NewCall, CallsFit, Fits, BrowserTypeOK
<1>12. ASSUME NEW c \in CallIds, ContextAnswer(c) PROVE CallsFit'
  <2>1. calls[c] \in Calls /\ (calls[c].op = "bootstrap" => Fits([calls[c] EXCEPT !.stage = "sessions"]))
    BY <1>12 DEF ContextAnswer, Outstanding, Fits, Calls, BrowserTypeOK
  <2> QED
    BY <1>12, <2>1 DEF ContextAnswer, CallsFit, BrowserTypeOK
<1>13. ASSUME NEW c \in CallIds, BootstrapOptions(c) PROVE CallsFit'
  <2>1. calls[c] \in Calls /\ Fits([calls[c] EXCEPT !.stage = "context"])
    BY <1>13 DEF BootstrapOptions, Outstanding, CallsFit, Fits, Calls, BrowserTypeOK
  <2> QED
    BY <1>13, <2>1 DEF BootstrapOptions, CallsFit, BrowserTypeOK
<1>14. ASSUME NEW c \in CallIds, BootstrapDone(c) PROVE CallsFit'
  BY <1>14 DEF BootstrapDone, CallsFit, BrowserTypeOK
<1>15. ASSUME NEW c \in CallIds, DeleteAnswer(c) \/ BatchDeleteAnswer(c) \/ RenameAnswer(c)
       PROVE  CallsFit'
  BY <1>15, BeginListingFit, FinishFit DEF DeleteAnswer, BatchDeleteAnswer, RenameAnswer, Listers
<1>16. ASSUME NEW c \in CallIds, SendFiles(c) PROVE CallsFit'
  BY <1>16 DEF SendFiles, NewCall, CallsFit, Fits, BrowserTypeOK
<1>17. \A c \in CallIds : \A stage :
         Uploading(c, stage) => calls[c] \in Calls /\ calls[c].op = "upload"
  BY UploadingCall
<1>18. ASSUME NEW c \in CallIds, TransferAnswer(c) \/ SummaryAnswer(c) \/ ReasonsAnswer(c) \/ PollAgain(c)
       PROVE  CallsFit'
  BY <1>17, <1>18, GoToFit, AfterSessionFit, FinishFit
  DEF TransferAnswer, SummaryAnswer, ReasonsAnswer, PollAgain, PollGoesTo, PollEnds, FailUpload
<1>19. ASSUME NEW c \in CallIds, FailuresAnswer(c) \/ UploadDone(c) PROVE CallsFit'
  BY <1>19, BeginListingFit, FinishFit DEF FailuresAnswer, Report, UploadDone, Listers
<1>20. ASSUME NEW c \in CallIds, DeadlinePasses(c) PROVE CallsFit'
  BY <1>1, <1>20 DEF DeadlinePasses, browserVars
<1>21. CASE UNCHANGED storageVars
  BY <1>1, <1>21 DEF storageVars, browserVars
<1> QED
  BY <1>3, <1>4, <1>5, <1>7, <1>8, <1>9, <1>10, <1>11, <1>12, <1>13, <1>14, <1>15, <1>16, <1>18,
     <1>19, <1>20, <1>21
  DEF StorageNext, StorageClick, StorageAnswer, BrowserClick, BrowserAnswer

-----------------------------------------------------------------------------
(* The deletion shown is the latest one.                                   *)

\* A step that touches no deletion.
LEMMA KeepLatest ==
  ASSUME BrowserTypeOK, LatestDeleteShown, UNCHANGED <<deleting, deleteController>>,
         \A x \in CallIds : calls'[x] = calls[x] \/ (~Deletes(x) /\ ~Deletes(x)')
  PROVE  LatestDeleteShown'
  BY DEF LatestDeleteShown, Deletes, Outstanding, BrowserTypeOK

\* A call that ends takes the indicator with it only if it is its own.
LEMMA FinishLatest ==
  ASSUME BrowserTypeOK, LatestDeleteShown, NEW c \in CallIds, Finish(c)
  PROVE  LatestDeleteShown'
<1>1. \A x \in CallIds : calls'[x] = IF x = c THEN Idle ELSE calls[x]
  BY DEF Finish, BrowserTypeOK
<1> QED
  BY <1>1, NoneAssumption DEF Finish, LatestDeleteShown, Deletes, Outstanding, BrowserTypeOK

LEMMA BeginListingLatest ==
  ASSUME BrowserTypeOK, LatestDeleteShown, NEW c \in CallIds, NEW op \in Listers, NEW place \in Places,
         IF calls[c] = Idle THEN op = "query" ELSE op = calls[c].op,
         BeginListing(c, op, place)
  PROVE  LatestDeleteShown'
<1>1. CASE Complete(place)
  <2>1. NewCall(op, "listing", place) # Idle
    BY NewCallType DEF Listers, Operations, Stages
  <2>2. \A x \in CallIds : calls'[x] = IF x = c THEN NewCall(op, "listing", place) ELSE calls[x]
    BY <1>1 DEF BeginListing, BrowserTypeOK
  <2> QED
    BY <1>1, <2>1, <2>2
    DEF BeginListing, NewCall, LatestDeleteShown, Deletes, Outstanding, BrowserTypeOK
<1>2. CASE ~Complete(place) /\ calls[c] = Idle
  BY <1>2, KeepLatest DEF BeginListing
<1>3. CASE ~Complete(place) /\ calls[c] # Idle
  BY <1>3, FinishLatest DEF BeginListing
<1> QED
  BY <1>1, <1>2, <1>3

\* startDeleteRequest makes its call the latest and aborts the one before.
LEMMA StartDeleteLatest ==
  ASSUME BrowserTypeOK, LatestDeleteShown, NEW c \in CallIds, NEW op \in {"delete", "batch"},
         NEW after \in PagePrefixes \cup {None}, StartDelete(c, op, after)
  PROVE  LatestDeleteShown'
<1> DEFINE call == [NewCall(op, "sent", EmptyForm) EXCEPT !.after = after]
<1>1. call \in Calls /\ call.op = op
  <2>1. NewCall(op, "sent", EmptyForm) \in Calls
    BY NewCallType, EmptyFormType DEF Operations, Stages
  <2> QED
    BY <2>1 DEF Calls, NewCall
<1>2. call # Idle
  BY <1>1, IdleAssumption
<1> HIDE DEF call
<1>3. \A x \in CallIds :
        calls'[x] = IF x = c THEN call
                    ELSE IF x = deleteController THEN Aborted(calls[x]) ELSE calls[x]
  BY DEF StartDelete, call
<1>4. deleteController' = c /\ deleting' = TRUE /\ c # None
  BY NoneAssumption DEF StartDelete
<1>5. deleteController \in CallIds => Aborted(calls[deleteController]).aborted
  BY NoneAssumption DEF LatestDeleteShown, Deletes, BrowserTypeOK, Calls, Aborted
<1>6. ASSUME NEW x \in CallIds, x \in Outstanding("sent")', Deletes(x)', x # c
      PROVE  calls'[x].aborted
  <2>1. CASE x = deleteController
    BY <1>3, <1>5, <1>6, <2>1
  <2>2. CASE x # deleteController
    BY <1>3, <1>6, <2>2 DEF LatestDeleteShown, Outstanding, Deletes
  <2> QED
    BY <2>1, <2>2
<1> QED
  BY <1>1, <1>2, <1>3, <1>4, <1>6 DEF LatestDeleteShown, Deletes

LEMMA LatestStep ==
  StorageTypeOK /\ CallsFit /\ LatestDeleteShown /\ [StorageNext]_storageVars => LatestDeleteShown'
<1> SUFFICES ASSUME StorageTypeOK, CallsFit, LatestDeleteShown, [StorageNext]_storageVars
             PROVE  LatestDeleteShown'
  OBVIOUS
<1> BrowserTypeOK
  BY DEF StorageTypeOK
<1>1. UNCHANGED <<calls, deleting, deleteController>> => LatestDeleteShown'
  BY KeepLatest
<1>2. CASE TypePrefix \/ SelectRows \/ OpenRename \/ CancelRename \/ SelectBucket
           \/ ChooseFile \/ RemoveFile \/ PolicyLoaded \/ UNCHANGED storageVars
           \/ \E c \in CallIds : DeadlinePasses(c)
  BY <1>1, <1>2 DEF TypePrefix, SelectRows, OpenRename, CancelRename, SelectBucket, ChooseFile,
                    RemoveFile, PolicyLoaded, DeadlinePasses, browserVars, storageVars
<1>3. CASE CancelDelete
  <2>1. /\ deleteController \in CallIds /\ calls[deleteController] \in Calls
        /\ calls' = [calls EXCEPT ![deleteController] = Aborted(calls[deleteController])]
        /\ UNCHANGED <<deleting, deleteController>>
    BY <1>3 DEF CancelDelete, LatestDeleteShown, Deletes, BrowserTypeOK
  <2>2. Aborted(calls[deleteController]) # Idle
        /\ Aborted(calls[deleteController]).op = calls[deleteController].op
    BY <2>1, AbortedType DEF Aborted, Calls
  <2> QED
    BY <2>1, <2>2 DEF LatestDeleteShown, Deletes, Outstanding, BrowserTypeOK
<1>4. ASSUME NEW c \in CallIds, DeleteObject(c) \/ DeleteSelectedObjects(c) PROVE LatestDeleteShown'
  <2>1. Parent(currentPrefix) \in PagePrefixes
    BY ParentType DEF BrowserTypeOK
  <2> QED
    BY <1>4, <2>1, StartDeleteLatest DEF DeleteObject, DeleteSelectedObjects
<1>5. ASSUME NEW c \in CallIds, QueryObjects(c) \/ EnterDirectory(c) \/ GoToParentDirectory(c)
      PROVE  LatestDeleteShown'
  <2>1. PICK place : List(c, place)
    BY <1>5 DEF QueryObjects, EnterDirectory, GoToParentDirectory
  <2>2. CASE Complete(place)
    <3>1. \A x \in CallIds : calls'[x] = IF x = c THEN NewCall("query", "listing", place) ELSE calls[x]
      BY <2>1, <2>2 DEF List, BeginListing, BrowserTypeOK
    <3>2. ~Deletes(c) /\ ~Deletes(c)'
      BY <2>1, <3>1 DEF List, Deletes, NewCall
    <3> QED
      BY <2>1, <2>2, <3>1, <3>2, KeepLatest DEF List, BeginListing
  <2>3. CASE ~Complete(place)
    BY <1>1, <2>1, <2>3 DEF List, BeginListing
  <2> QED
    BY <2>2, <2>3
<1>6. ASSUME NEW c \in CallIds, UNCHANGED <<deleting, deleteController>>, ~Deletes(c),
             \A x \in CallIds \ {c} : calls'[x] = calls[x],
             calls'[c] = Idle \/ calls'[c].op \notin {"delete", "batch"}
      PROVE  LatestDeleteShown'
  BY <1>6, KeepLatest DEF Deletes
<1>7. ASSUME NEW c \in CallIds, SubmitRename(c) \/ SelectProject(c) \/ UploadObject(c)
      PROVE  LatestDeleteShown'
  <2>1. ~Deletes(c)
    BY <1>7 DEF SubmitRename, SelectProject, UploadObject, Deletes
  <2>2. calls'[c].op \notin {"delete", "batch"}
    <3>1. CASE SubmitRename(c)
      <4>1. PICK after : calls' = [calls EXCEPT ![c] = [NewCall("rename", "sent", EmptyForm) EXCEPT
                                                         !.after = after]]
        BY <3>1 DEF SubmitRename
      <4>2. [NewCall("rename", "sent", EmptyForm) EXCEPT !.after = after].op = "rename"
        BY DEF NewCall
      <4> QED
        BY <4>1, <4>2 DEF BrowserTypeOK
    <3>2. CASE SelectProject(c)
      <4>1. PICK p : calls' = [calls EXCEPT ![c] = NewCall("context", "context",
                                                            [EmptyForm EXCEPT !.project = p])]
        BY <3>2 DEF SelectProject
      <4> QED
        BY <4>1 DEF NewCall, BrowserTypeOK
    <3>3. CASE UploadObject(c)
      BY <3>3 DEF UploadObject, NewCall, BrowserTypeOK
    <3> QED
      BY <1>7, <3>1, <3>2, <3>3
  <2> QED
    BY <1>6, <1>7, <2>1, <2>2
    DEF SubmitRename, SelectProject, UploadObject, DeletionUnchanged, BrowserTypeOK
<1>8. ASSUME NEW c \in CallIds, ListingAnswer(c) PROVE LatestDeleteShown'
  <2>1. CASE calls[c].op = "upload"
    <3>1. ~Deletes(c) /\ calls'[c].op = "upload"
      BY <1>8, <2>1 DEF ListingAnswer, Deletes, NewCall, BrowserTypeOK
    <3> QED
      BY <1>6, <1>8, <2>1, <3>1 DEF ListingAnswer, BrowserTypeOK
  <2> QED
    BY <1>8, <2>1, FinishLatest DEF ListingAnswer
<1>9. ASSUME NEW c \in CallIds, ContextAnswer(c) \/ BootstrapOptions(c) \/ BootstrapDone(c)
      PROVE  LatestDeleteShown'
  <2>1. calls[c] \in Calls /\ calls[c].op \in {"context", "bootstrap"}
    BY <1>9 DEF ContextAnswer, BootstrapOptions, BootstrapDone, Outstanding, CallsFit, Fits,
                Calls, BrowserTypeOK
  <2>2. calls'[c] = Idle \/ calls'[c].op = calls[c].op
    <3>1. CASE ContextAnswer(c)
      BY <2>1, <3>1 DEF ContextAnswer, Calls, BrowserTypeOK
    <3>2. CASE BootstrapOptions(c)
      BY <2>1, <3>2 DEF BootstrapOptions, Calls, BrowserTypeOK
    <3>3. CASE BootstrapDone(c)
      BY <3>3 DEF BootstrapDone, BrowserTypeOK
    <3> QED
      BY <1>9, <3>1, <3>2, <3>3
  <2> QED
    BY <1>6, <1>9, <2>1, <2>2
    DEF ContextAnswer, BootstrapOptions, BootstrapDone, Deletes, BrowserTypeOK
<1>10. \A c \in CallIds : calls[c] \in Calls => FormAfter(calls[c]) \in Places
  BY FormType DEF FormAfter, BrowserTypeOK, Calls
<1>11. ASSUME NEW c \in CallIds, DeleteAnswer(c) \/ BatchDeleteAnswer(c) \/ RenameAnswer(c)
       PROVE  LatestDeleteShown'
  <2>1. calls[c] \in Calls /\ calls[c] # Idle /\ form \in Places
    BY <1>11 DEF DeleteAnswer, BatchDeleteAnswer, RenameAnswer, Outstanding, BrowserTypeOK
  <2> QED
    BY <1>10, <1>11, <2>1, BeginListingLatest, FinishLatest
    DEF DeleteAnswer, BatchDeleteAnswer, RenameAnswer, Listers
<1>12. \A c \in CallIds : \A stage :
         Uploading(c, stage) => calls[c] \in Calls /\ calls[c] # Idle /\ calls[c].op = "upload"
  BY UploadingCall, IdleAssumption
<1>13. CASE CancelUpload
  <2>1. /\ uploadController \in CallIds /\ calls[uploadController] \in Calls
        /\ calls[uploadController].op = "upload"
    BY <1>12, <1>13 DEF CancelUpload, StorageTypeOK, PanelTypeOK
  <2>2. calls'[uploadController].op = "upload" /\ ~Deletes(uploadController)
    BY <1>13, <2>1 DEF CancelUpload, Aborted, Calls, Deletes, BrowserTypeOK
  <2> QED
    BY <1>6, <1>13, <2>1, <2>2 DEF CancelUpload, DeletionUnchanged, BrowserTypeOK
<1>14. ASSUME NEW c \in CallIds, SendFiles(c) PROVE LatestDeleteShown'
  <2>1. ~Deletes(c) /\ (calls'[c] = Idle \/ calls'[c].op = "upload")
    BY <1>12, <1>14 DEF SendFiles, Deletes, NewCall, BrowserTypeOK
  <2> QED
    BY <1>6, <1>14, <2>1 DEF SendFiles, DeletionUnchanged, BrowserTypeOK
<1>15. ASSUME NEW c \in CallIds, calls[c] \in Calls, calls[c].op = "upload", NEW stage \in Stages,
              GoTo(c, stage), DeletionUnchanged
       PROVE  LatestDeleteShown'
  <2>1. ~Deletes(c) /\ calls'[c].op = "upload"
    BY <1>15 DEF GoTo, Deletes, Calls, BrowserTypeOK
  <2> QED
    BY <1>6, <1>15, <2>1 DEF GoTo, DeletionUnchanged, BrowserTypeOK
<1>16. ASSUME NEW c \in CallIds, calls[c] # Idle, calls[c].op = "upload", NEW t, Report(c, t)
       PROVE  LatestDeleteShown'
  <2>1. [form EXCEPT !.prefix = Root] \in Places /\ form \in Places
    BY FormType, RootType DEF BrowserTypeOK
  <2> QED
    BY <1>16, <2>1, BeginListingLatest DEF Report, Listers
<1>17. ASSUME NEW c \in CallIds, calls[c] \in Calls, calls[c] # Idle, calls[c].op = "upload", NEW t,
              AfterSession(c, t)
       PROVE  LatestDeleteShown'
  BY <1>15, <1>16, <1>17 DEF AfterSession, Stages
<1>18. ASSUME NEW c \in CallIds, TransferAnswer(c) \/ SummaryAnswer(c) \/ ReasonsAnswer(c) \/ PollAgain(c)
       PROVE  LatestDeleteShown'
  BY <1>12, <1>15, <1>17, <1>18, FinishLatest
  DEF TransferAnswer, SummaryAnswer, ReasonsAnswer, PollAgain, PollGoesTo, PollEnds, FailUpload, Stages
<1>19. ASSUME NEW c \in CallIds, FailuresAnswer(c) \/ UploadDone(c) PROVE LatestDeleteShown'
  BY <1>12, <1>16, <1>19, FinishLatest DEF FailuresAnswer, UploadDone
<1> QED
  BY <1>2, <1>3, <1>4, <1>5, <1>7, <1>8, <1>9, <1>11, <1>13, <1>14, <1>18, <1>19
  DEF StorageNext, StorageClick, StorageAnswer, BrowserClick, BrowserAnswer

LEMMA FitInit == StorageInit => CallsFit /\ LatestDeleteShown
<1>1. \A p \in Projects :
        LET call == NewCall("bootstrap", "options", [EmptyForm EXCEPT !.project = p])
        IN  Fits(call) /\ call.op = "bootstrap"
  BY DEF Fits, NewCall, EmptyForm
<1> QED
  BY <1>1 DEF StorageInit, BrowserInit, CallsFit, LatestDeleteShown, Deletes, Outstanding

-----------------------------------------------------------------------------
(* An indicator that is on has a call whose end turns it off.              *)

\* The calls that account for an indicator.
Lists(c) == c \in Outstanding("listing")
Submits(c) == calls[c] # Idle /\ \/ calls[c].op \in {"delete", "batch", "rename"}
                                 \/ calls[c].op = "upload" /\ calls[c].stage # "policy"
Uploads(c) == calls[c] # Idle /\ calls[c].op = "upload" /\ calls[c].stage # "policy"

\* After a step of one call the indicator is off, or the call accounts for it, or
\* it was on before and the call did not account for it.
Kept(on, onNext, accounts, accountsNext) == onNext => accountsNext \/ (on /\ ~accounts)

LEMMA OneCall ==
  ASSUME NeverStuckBusy, NEW c \in CallIds,
         \A x \in CallIds \ {c} :
           /\ calls[x] = Idle <=> calls'[x] = Idle
           /\ calls[x] # Idle => calls'[x].op = calls[x].op /\ calls'[x].stage = calls[x].stage,
         Kept(loading, loading', Lists(c), Lists(c)'),
         Kept(submitting, submitting', Submits(c), Submits(c)'),
         Kept(stageAActive, stageAActive', Uploads(c), Uploads(c)'),
         Kept(stageBActive, stageBActive', Polling(c), Polling(c)')
  PROVE  NeverStuckBusy'
<1>1. \A x \in CallIds \ {c} : /\ Lists(x) => Lists(x)'
                               /\ Submits(x) => Submits(x)'
                               /\ Uploads(x) => Uploads(x)'
                               /\ Polling(x) => Polling(x)'
  BY DEF Lists, Submits, Uploads, Polling, Uploading, Outstanding
<1>2. /\ loading => \E x \in CallIds : Lists(x)
      /\ submitting => \E x \in CallIds : Submits(x)
      /\ stageAActive => \E x \in CallIds : Uploads(x)
      /\ stageBActive => \E x \in CallIds : Polling(x)
  BY DEF NeverStuckBusy, Lists, Submits, Uploads, Outstanding
<1>3. loading' => \E x \in CallIds : Lists(x)'
  BY <1>1, <1>2 DEF Kept, Lists, Outstanding
<1>4. submitting' => \E x \in CallIds : Submits(x)'
  BY <1>1, <1>2 DEF Kept, Submits
<1>5. stageAActive' => \E x \in CallIds : Uploads(x)'
  BY <1>1, <1>2 DEF Kept, Uploads
<1>6. stageBActive' => \E x \in CallIds : Polling(x)'
  BY <1>1, <1>2 DEF Kept, Polling, Uploading, Outstanding
<1> QED
  BY <1>3, <1>4, <1>5, <1>6 DEF NeverStuckBusy, Lists, Submits, Uploads

\* A handler that is done may be missed by no indicator.
LEMMA FinishBusy ==
  ASSUME BrowserTypeOK, NeverStuckBusy, NEW c \in CallIds, Finish(c),
         loading' => loading /\ ~Lists(c),
         stageAActive' => stageAActive /\ ~Uploads(c),
         stageBActive' => stageBActive /\ ~Polling(c)
  PROVE  NeverStuckBusy'
<1>1. \A x \in CallIds \ {c} : calls'[x] = calls[x]
  BY DEF Finish, BrowserTypeOK
<1>2. submitting' => submitting /\ ~Submits(c)
  BY DEF Finish, Submits
<1> QED
  BY <1>1, <1>2, OneCall DEF Kept

LEMMA BeginListingBusy ==
  ASSUME BrowserTypeOK, NeverStuckBusy, NEW c \in CallIds, NEW op \in Listers, NEW place \in Places,
         IF calls[c] = Idle THEN op = "query" ELSE op = calls[c].op,
         BeginListing(c, op, place), ~Lists(c),
         stageAActive' => stageAActive /\ (Complete(place) \/ ~Uploads(c)),
         stageBActive' => stageBActive /\ ~Polling(c)
  PROVE  NeverStuckBusy'
<1>1. CASE Complete(place)
  <2>1. NewCall(op, "listing", place) # Idle
    BY NewCallType DEF Listers, Operations, Stages
  <2>2. \A x \in CallIds : calls'[x] = IF x = c THEN NewCall(op, "listing", place) ELSE calls[x]
    BY <1>1 DEF BeginListing, BrowserTypeOK
  <2>3. calls'[c] # Idle /\ calls'[c].op = op /\ calls'[c].stage = "listing"
    BY <2>1, <2>2 DEF NewCall
  <2>4. Lists(c)'
    BY <2>3 DEF Lists, Outstanding
  <2>5. Submits(c) => Submits(c)'
    BY <2>3 DEF Submits
  <2>6. Uploads(c) => Uploads(c)'
    BY <2>3 DEF Uploads
  <2>7. submitting' = submitting
    BY <1>1 DEF BeginListing
  <2> QED
    BY <2>2, <2>4, <2>5, <2>6, <2>7, OneCall DEF Kept
<1>2. CASE ~Complete(place) /\ calls[c] = Idle
  <2>1. ~Submits(c)
    BY <1>2 DEF Submits
  <2> QED
    BY <1>2, <2>1, OneCall DEF BeginListing, Kept
<1>3. CASE ~Complete(place) /\ calls[c] # Idle
  BY <1>3, FinishBusy DEF BeginListing
<1> QED
  BY <1>1, <1>2, <1>3

\* A handler that begins.
LEMMA FreshBusy ==
  ASSUME NeverStuckBusy, NEW c \in CallIds, calls[c] = Idle,
         \A x \in CallIds \ {c} :
           /\ calls[x] = Idle <=> calls'[x] = Idle
           /\ calls[x] # Idle => calls'[x].op = calls[x].op /\ calls'[x].stage = calls[x].stage,
         loading' => loading, submitting' => submitting \/ Submits(c)',
         stageAActive' => stageAActive, stageBActive' => stageBActive
  PROVE  NeverStuckBusy'
<1>1. ~Lists(c) /\ ~Submits(c) /\ ~Uploads(c) /\ ~Polling(c)
  BY DEF Lists, Submits, Uploads, Polling, Uploading, Outstanding
<1> QED
  BY <1>1, OneCall DEF Kept

\* A handler that goes on in another stage, without an indicator of its own.
LEMMA AnotherStageBusy ==
  ASSUME BrowserTypeOK, NeverStuckBusy, NEW c \in CallIds, calls[c] \in Calls, calls[c] # Idle,
         NEW stage \in Stages, GoTo(c, stage), ~Lists(c),
         calls[c].op = "upload" => stage # "policy",
         UNCHANGED <<loading, submitting, stageAActive>>,
         stageBActive' => Polling(c)' \/ (stageBActive /\ ~Polling(c))
  PROVE  NeverStuckBusy'
<1>1. /\ \A x \in CallIds \ {c} : calls'[x] = calls[x]
      /\ calls'[c] = [calls[c] EXCEPT !.stage = stage]
  BY DEF GoTo, BrowserTypeOK
<1>2. calls'[c] # Idle /\ calls'[c].op = calls[c].op /\ calls'[c].stage = stage
  BY <1>1, StageType DEF Calls
<1>3. Submits(c) => Submits(c)'
  BY <1>2 DEF Submits
<1>4. Uploads(c) => Uploads(c)'
  BY <1>2 DEF Uploads
<1> QED
  BY <1>1, <1>3, <1>4, OneCall DEF Kept

LEMMA ReportBusy ==
  ASSUME BrowserTypeOK, NeverStuckBusy, NEW c \in CallIds, calls[c] # Idle,
         calls[c].op = "upload", ~Lists(c), NEW t, Report(c, t),
         stageBActive' => stageBActive /\ ~Polling(c)
  PROVE  NeverStuckBusy'
<1> DEFINE place == IF t.answer.log # None /\ FinalCounts(t).success > 0
                      THEN [form EXCEPT !.prefix = Root] ELSE form
<1>1. place \in Places /\ (Complete(place) <=> Complete(form))
  BY FormType, RootType DEF BrowserTypeOK, Complete, Places
<1>2. BeginListing(c, "upload", place)
  BY DEF Report
<1>3. stageAActive' => stageAActive /\ Complete(form)
  BY DEF Report, UploadFinally
<1> HIDE DEF place
<1> QED
  BY <1>1, <1>2, <1>3, BeginListingBusy DEF Listers

LEMMA BusyStep ==
  /\ StorageTypeOK /\ CallsFit /\ LatestDeleteShown /\ NeverStuckBusy
  /\ [StorageNext]_storageVars
  => NeverStuckBusy'
<1> SUFFICES ASSUME StorageTypeOK, CallsFit, LatestDeleteShown, NeverStuckBusy,
                    [StorageNext]_storageVars
             PROVE  NeverStuckBusy'
  OBVIOUS
<1> BrowserTypeOK
  BY DEF StorageTypeOK
<1>1. UNCHANGED <<calls, loading, submitting, stageAActive>> /\ (stageBActive' => stageBActive)
        => NeverStuckBusy'
  BY DEF NeverStuckBusy, Polling, Uploading, Outstanding
<1>2. CASE \/ (TypePrefix \/ SelectRows \/ OpenRename \/ CancelRename) /\ UNCHANGED panelVars
           \/ SelectBucket /\ HideSession
           \/ UNCHANGED storageVars
  <2>1. CASE (TypePrefix \/ SelectRows \/ OpenRename \/ CancelRename) /\ UNCHANGED panelVars
    BY <1>1, <2>1 DEF TypePrefix, SelectRows, OpenRename, CancelRename, panelVars
  <2>2. CASE SelectBucket /\ HideSession
    BY <1>1, <2>2 DEF SelectBucket, HideSession
  <2>3. CASE UNCHANGED storageVars
    BY <1>1, <2>3 DEF storageVars, browserVars, panelVars
  <2> QED
    BY <1>2, <2>1, <2>2, <2>3
<1>3. CASE ChooseFile \/ RemoveFile \/ PolicyLoaded \/ \E c \in CallIds : DeadlinePasses(c)
  BY <1>1, <1>3 DEF ChooseFile, RemoveFile, PolicyLoaded, DeadlinePasses, browserVars
<1>4. ASSUME NEW c \in CallIds, calls[c] \in Calls, calls' = [calls EXCEPT ![c] = Aborted(calls[c])],
             UNCHANGED <<loading, submitting, stageAActive, stageBActive>>
      PROVE  NeverStuckBusy'
  <2>1. calls[c] # Idle /\ calls'[c] # Idle
    BY <1>4, IdleAssumption, AbortedType DEF BrowserTypeOK
  <2>2. calls'[c].op = calls[c].op /\ calls'[c].stage = calls[c].stage
    BY <1>4 DEF Aborted, Calls, BrowserTypeOK
  <2>3. \A x \in CallIds \ {c} : calls'[x] = calls[x]
    BY <1>4 DEF BrowserTypeOK
  <2>4. (Lists(c) <=> Lists(c)') /\ (Polling(c) <=> Polling(c)')
    BY <2>1, <2>2 DEF Lists, Polling, Uploading, Outstanding
  <2>5. (Submits(c) <=> Submits(c)') /\ (Uploads(c) <=> Uploads(c)')
    BY <2>1, <2>2 DEF Submits, Uploads
  <2> QED
    BY <1>4, <2>3, <2>4, <2>5, OneCall DEF Kept
<1>5. CASE CancelDelete /\ UNCHANGED panelVars
  <2>1. deleteController \in CallIds /\ calls[deleteController] \in Calls
    BY <1>5 DEF CancelDelete, LatestDeleteShown, Deletes, BrowserTypeOK
  <2> QED
    BY <1>4, <1>5, <2>1 DEF CancelDelete, panelVars
<1>6. \A c \in CallIds : \A stage :
         Uploading(c, stage) => /\ calls[c] \in Calls /\ calls[c] # Idle
                                /\ calls[c].op = "upload" /\ calls[c].stage = stage
  BY UploadingCall, IdleAssumption DEF Uploading, Outstanding
<1>7. CASE CancelUpload
  <2>1. uploadController \in CallIds /\ calls[uploadController] \in Calls
    BY <1>6, <1>7 DEF CancelUpload, StorageTypeOK, PanelTypeOK
  <2> QED
    BY <1>4, <1>7, <2>1 DEF CancelUpload, RowsUnchanged, panelVars
<1>8. ASSUME NEW c \in CallIds, QueryObjects(c) \/ EnterDirectory(c) \/ GoToParentDirectory(c),
             UNCHANGED panelVars
      PROVE  NeverStuckBusy'
  <2>1. PICK place \in Places : List(c, place)
    <3>1. form \in Places /\ \A prefix \in PagePrefixes : [form EXCEPT !.prefix = prefix] \in Places
      BY FormType DEF BrowserTypeOK
    <3>2. Parent(currentPrefix) \in PagePrefixes
      BY ParentType DEF BrowserTypeOK
    <3>3. \A d \in RowsShown \cap Directories : Directory(d) \in PagePrefixes
      BY DirectoryType, EntriesAssumption DEF RowsShown, Rows, Entries
    <3> QED
      BY <1>8, <3>1, <3>2, <3>3 DEF QueryObjects, EnterDirectory, GoToParentDirectory
  <2>2. ~Lists(c) /\ ~Uploads(c) /\ ~Polling(c)
    BY <2>1 DEF List, Lists, Uploads, Polling, Uploading, Outstanding
  <2> QED
    BY <1>8, <2>1, <2>2, BeginListingBusy DEF List, Listers, panelVars
<1>9. ASSUME NEW c \in CallIds, DeleteObject(c) \/ DeleteSelectedObjects(c), UNCHANGED panelVars
      PROVE  NeverStuckBusy'
  <2>1. PICK op \in {"delete", "batch"}, after \in PagePrefixes \cup {None} : StartDelete(c, op, after)
    <3>1. Parent(currentPrefix) \in PagePrefixes
      BY ParentType DEF BrowserTypeOK
    <3> QED
      BY <1>9, <3>1 DEF DeleteObject, DeleteSelectedObjects
  <2> DEFINE call == [NewCall(op, "sent", EmptyForm) EXCEPT !.after = after]
  <2>2. call \in Calls /\ call.op = op
    <3>1. NewCall(op, "sent", EmptyForm) \in Calls
      BY NewCallType, EmptyFormType DEF Operations, Stages
    <3> QED
      BY <3>1 DEF Calls, NewCall
  <2> HIDE DEF call
  <2>3. calls' = [x \in CallIds |-> IF x = c THEN call
                                    ELSE IF x = deleteController THEN Aborted(calls[x]) ELSE calls[x]]
    BY <2>1 DEF StartDelete, call
  <2>4. deleteController \in CallIds => calls[deleteController] \in Calls /\ calls[deleteController] # Idle
    BY NoneAssumption DEF LatestDeleteShown, Deletes, BrowserTypeOK
  <2>5. deleteController \in CallIds =>
          /\ Aborted(calls[deleteController]) # Idle
          /\ Aborted(calls[deleteController]).op = calls[deleteController].op
          /\ Aborted(calls[deleteController]).stage = calls[deleteController].stage
    BY <2>4, AbortedType DEF Aborted, Calls
  <2>6. \A x \in CallIds \ {c} :
          /\ calls[x] = Idle <=> calls'[x] = Idle
          /\ calls[x] # Idle => calls'[x].op = calls[x].op /\ calls'[x].stage = calls[x].stage
    BY <2>3, <2>4, <2>5
  <2>7. Submits(c)'
    BY <2>2, <2>3, IdleAssumption DEF Submits
  <2>8. calls[c] = Idle /\ UNCHANGED <<loading, stageAActive, stageBActive>>
    BY <1>9, <2>1 DEF StartDelete, panelVars
  <2> QED
    BY <2>6, <2>7, <2>8, FreshBusy
<1>10. ASSUME NEW c \in CallIds, SubmitRename(c), UNCHANGED panelVars PROVE NeverStuckBusy'
  <2>1. PICK target \in Entries :
          calls' = [calls EXCEPT ![c] = [NewCall("rename", "sent", EmptyForm) EXCEPT
                      !.after = IF target \in Files THEN None
                                ELSE Remapped(currentPrefix, renaming, target)]]
    BY <1>10 DEF SubmitRename
  <2> DEFINE after == IF target \in Files THEN None ELSE Remapped(currentPrefix, renaming, target)
             call == [NewCall("rename", "sent", EmptyForm) EXCEPT !.after = after]
  <2>2. after \in PagePrefixes \cup {None}
    <3>1. renaming \in Seq(STRING) /\ target \in Seq(STRING)
      BY <1>10, EntriesAssumption DEF SubmitRename, BrowserTypeOK
    <3> QED
      BY <3>1, RemappedType DEF BrowserTypeOK
  <2> HIDE DEF after
  <2>3. call \in Calls /\ call.op = "rename"
    <3>1. NewCall("rename", "sent", EmptyForm) \in Calls
      BY NewCallType, EmptyFormType DEF Operations, Stages
    <3> QED
      BY <2>2, <3>1 DEF Calls, NewCall
  <2>4. calls' = [calls EXCEPT ![c] = call]
    BY <2>1 DEF after
  <2> HIDE DEF call
  <2>5. Submits(c)' /\ \A x \in CallIds \ {c} : calls'[x] = calls[x]
    BY <2>3, <2>4, IdleAssumption DEF Submits, BrowserTypeOK
  <2>6. calls[c] = Idle /\ UNCHANGED <<loading, stageAActive, stageBActive>>
    BY <1>10 DEF SubmitRename, panelVars
  <2> QED
    BY <2>5, <2>6, FreshBusy
<1>11. ASSUME NEW c \in CallIds, SelectProject(c), HideSession PROVE NeverStuckBusy'
  BY <1>11, FreshBusy DEF SelectProject, HideSession, BrowserTypeOK
<1>12. ASSUME NEW c \in CallIds, UploadObject(c) PROVE NeverStuckBusy'
  BY <1>12, FreshBusy DEF UploadObject, RowsUnchanged, BrowserTypeOK
<1>13. ASSUME NEW c \in CallIds,
              BrowserAnswer(c) /\ IF c \in Outstanding("sessions") THEN HideSession ELSE UNCHANGED panelVars
       PROVE  NeverStuckBusy'
  <2>1. UNCHANGED stageAActive /\ (stageBActive' => stageBActive)
    BY <1>13 DEF HideSession, panelVars
  <2>2. CASE ListingAnswer(c)
    <3>1. calls[c] # Idle /\ calls[c].stage = "listing" /\ ~Polling(c)
      BY <2>2 DEF ListingAnswer, Outstanding, Polling, Uploading
    <3>2. CASE calls[c].op = "upload"
      <4>1. NewCall("upload", "sessions", EmptyForm) # Idle
        BY NewCallType, EmptyFormType DEF Operations, Stages
      <4>2. /\ calls'[c] = NewCall("upload", "sessions", EmptyForm)
            /\ \A x \in CallIds \ {c} : calls'[x] = calls[x]
            /\ ~loading' /\ UNCHANGED submitting
        BY <2>2, <3>2 DEF ListingAnswer, BrowserTypeOK
      <4>3. Submits(c)' /\ Uploads(c)'
        BY <4>1, <4>2 DEF NewCall, Submits, Uploads
      <4> QED
        BY <2>1, <3>1, <4>2, <4>3, OneCall DEF Kept
    <3>3. CASE calls[c].op # "upload"
      BY <2>1, <2>2, <3>1, <3>3, FinishBusy DEF ListingAnswer, Uploads
    <3> QED
      BY <3>2, <3>3
  <2>3. CASE ContextAnswer(c) \/ BootstrapOptions(c) \/ BootstrapDone(c)
    <3>1. calls[c] # Idle /\ calls[c].op \in {"context", "bootstrap"} /\ calls[c].stage # "listing"
      BY <2>3 DEF ContextAnswer, BootstrapOptions, BootstrapDone, Outstanding, CallsFit, Fits, Calls,
                  BrowserTypeOK
    <3>2. ~Lists(c) /\ ~Submits(c) /\ ~Uploads(c) /\ ~Polling(c)
      BY <3>1 DEF Lists, Submits, Uploads, Polling, Uploading, Outstanding
    <3>3. UNCHANGED <<loading, submitting>> /\ \A x \in CallIds \ {c} : calls'[x] = calls[x]
      BY <2>3 DEF ContextAnswer, BootstrapOptions, BootstrapDone, BrowserTypeOK
    <3> QED
      BY <2>1, <3>2, <3>3, OneCall DEF Kept
  <2>4. CASE DeleteAnswer(c) \/ BatchDeleteAnswer(c) \/ RenameAnswer(c)
    <3>1. calls[c] \in Calls /\ calls[c] # Idle /\ calls[c].stage = "sent"
          /\ calls[c].op \in {"delete", "batch", "rename"}
      BY <2>4 DEF DeleteAnswer, BatchDeleteAnswer, RenameAnswer, Outstanding, BrowserTypeOK
    <3>2. ~Lists(c) /\ ~Uploads(c) /\ ~Polling(c)
      BY <3>1 DEF Lists, Uploads, Polling, Uploading, Outstanding
    <3>3. form \in Places /\ FormAfter(calls[c]) \in Places
      BY <3>1, FormType DEF FormAfter, BrowserTypeOK, Calls
    <3>4. CASE Finish(c) /\ UNCHANGED loading
      BY <2>1, <3>2, <3>4, FinishBusy
    <3>5. ASSUME NEW place \in Places, BeginListing(c, calls[c].op, place) PROVE NeverStuckBusy'
      BY <2>1, <3>1, <3>2, <3>5, BeginListingBusy DEF Listers
    <3> QED
      BY <2>4, <3>3, <3>4, <3>5 DEF DeleteAnswer, BatchDeleteAnswer, RenameAnswer
  <2> QED
    BY <1>13, <2>2, <2>3, <2>4 DEF BrowserAnswer
<1>14. ASSUME NEW c \in CallIds, SendFiles(c) PROVE NeverStuckBusy'
  <2>1. ~Lists(c) /\ ~Submits(c) /\ ~Uploads(c) /\ ~Polling(c)
    BY <1>6, <1>14 DEF SendFiles, Lists, Submits, Uploads, Polling, Uploading, Outstanding
  <2>2. UNCHANGED loading /\ \A x \in CallIds \ {c} : calls'[x] = calls[x]
    BY <1>14 DEF SendFiles, RowsUnchanged, BrowserTypeOK
  <2>3. CASE UNCHANGED <<submitting, stageAActive, stageBActive>>
    BY <2>1, <2>2, <2>3, OneCall DEF Kept
  <2>4. CASE calls' = [calls EXCEPT ![c] = NewCall("upload", "transfer", EmptyForm)] /\ ~stageBActive'
    <3>1. calls'[c] # Idle /\ calls'[c].op = "upload" /\ calls'[c].stage = "transfer"
      <4>1. NewCall("upload", "transfer", EmptyForm) # Idle
        BY NewCallType, EmptyFormType DEF Operations, Stages
      <4> QED
        BY <2>4, <4>1 DEF NewCall, BrowserTypeOK
    <3>2. Submits(c)' /\ Uploads(c)'
      BY <3>1 DEF Submits, Uploads
    <3> QED
      BY <2>1, <2>2, <2>4, <3>2, OneCall DEF Kept
  <2> QED
    BY <1>14, <2>3, <2>4 DEF SendFiles
<1>15. ASSUME NEW c \in CallIds, NEW stage \in Stages, Uploading(c, stage), stage # "listing",
              stageBActive' => stageBActive /\ ~Polling(c), NEW t, AfterSession(c, t)
       PROVE  NeverStuckBusy'
  <2>1. calls[c] \in Calls /\ calls[c] # Idle /\ calls[c].op = "upload" /\ ~Lists(c)
    BY <1>6, <1>15 DEF Lists, Outstanding
  <2>2. CASE GoTo(c, "failures") /\ RowsUnchanged /\ UNCHANGED <<submitting, stageAActive>>
    BY <1>15, <2>1, <2>2, AnotherStageBusy DEF RowsUnchanged, Stages
  <2>3. CASE Report(c, t)
    BY <1>15, <2>1, <2>3, ReportBusy
  <2> QED
    BY <1>15, <2>2, <2>3 DEF AfterSession
<1>16. ASSUME NEW c \in CallIds, NEW stage \in Stages, Uploading(c, stage), stage # "listing",
              stageBActive' => stageBActive /\ ~Polling(c), FailUpload(c)
       PROVE  NeverStuckBusy'
  <2>1. ~Lists(c)
    BY <1>6, <1>16 DEF Lists, Outstanding
  <2> QED
    BY <1>16, <2>1, FinishBusy DEF FailUpload, UploadFinally, RowsUnchanged
<1>17. ASSUME NEW c \in CallIds, TransferAnswer(c) PROVE NeverStuckBusy'
  <2>1. Uploading(c, "transfer") /\ ~Polling(c)
    BY <1>17 DEF TransferAnswer, Polling, Uploading, Outstanding
  <2>2. CASE FailUpload(c) /\ UNCHANGED stageBActive
    BY <1>16, <2>1, <2>2 DEF Stages
  <2>3. ASSUME NEW t, AfterSession(c, t), UNCHANGED stageBActive PROVE NeverStuckBusy'
    BY <1>15, <2>1, <2>3 DEF Stages
  <2>4. CASE GoTo(c, "summary") /\ stageBActive' = TRUE /\ RowsUnchanged
             /\ UNCHANGED <<submitting, stageAActive>>
    <3>1. calls[c] \in Calls /\ calls[c] # Idle /\ calls[c].op = "upload" /\ ~Lists(c)
      BY <1>6, <2>1 DEF Lists, Outstanding
    <3>2. Polling(c)'
      <4>1. calls'[c] # Idle /\ calls'[c].op = "upload" /\ calls'[c].stage = "summary"
        <5>1. calls'[c] = [calls[c] EXCEPT !.stage = "summary"]
          BY <2>4 DEF GoTo, BrowserTypeOK
        <5>2. calls'[c] # Idle
          BY <3>1, <5>1, StageType DEF Stages
        <5> QED
          BY <3>1, <5>1, <5>2 DEF Calls
      <4> QED
        BY <4>1 DEF Polling, Uploading, Outstanding
    <3> QED
      BY <2>4, <3>1, <3>2, AnotherStageBusy DEF RowsUnchanged, Stages
  <2> QED
    BY <1>17, <2>2, <2>3, <2>4 DEF TransferAnswer
<1>18. ASSUME NEW c \in CallIds, NEW from \in {"summary", "reasons", "timer"}, Uploading(c, from),
              NEW stage \in {"summary", "reasons", "timer"}, NEW t, PollGoesTo(c, stage, t)
       PROVE  NeverStuckBusy'
  <2>1. calls[c] \in Calls /\ calls[c] # Idle /\ calls[c].op = "upload" /\ ~Lists(c)
    BY <1>6, <1>18 DEF Lists, Outstanding
  <2>2. Polling(c)'
    <3>1. calls'[c] # Idle /\ calls'[c].op = "upload" /\ calls'[c].stage = stage
      <4>1. calls'[c] = [calls[c] EXCEPT !.stage = stage]
        BY <1>18 DEF PollGoesTo, GoTo, BrowserTypeOK
      <4>2. calls'[c] # Idle
        BY <2>1, <4>1, StageType DEF Stages
      <4> QED
        BY <2>1, <4>1, <4>2 DEF Calls
    <3> QED
      BY <3>1 DEF Polling, Uploading, Outstanding
  <2> QED
    BY <1>18, <2>1, <2>2, AnotherStageBusy DEF PollGoesTo, RowsUnchanged, Stages
<1>19. ASSUME NEW c \in CallIds, NEW from \in {"summary", "reasons", "timer"}, Uploading(c, from),
              NEW t, PollEnds(c, t)
       PROVE  NeverStuckBusy'
  BY <1>15, <1>19 DEF PollEnds, Stages
<1>20. ASSUME NEW c \in CallIds, SummaryAnswer(c) \/ ReasonsAnswer(c) \/ PollAgain(c)
       PROVE  NeverStuckBusy'
  BY <1>16, <1>18, <1>19, <1>20 DEF SummaryAnswer, ReasonsAnswer, PollAgain, Stages
<1>21. ASSUME NEW c \in CallIds, FailuresAnswer(c) PROVE NeverStuckBusy'
  <2>1. ~Polling(c) /\ ~Lists(c)
    BY <1>6, <1>21 DEF FailuresAnswer, Polling, Lists, Uploading, Outstanding
  <2> QED
    BY <1>6, <1>21, <2>1, ReportBusy DEF FailuresAnswer
<1>22. ASSUME NEW c \in CallIds, UploadDone(c) PROVE NeverStuckBusy'
  <2>1. ~Polling(c) /\ ~Lists(c)
    BY <1>6, <1>22 DEF UploadDone, Polling, Lists, Uploading, Outstanding
  <2> QED
    BY <1>22, <2>1, FinishBusy DEF UploadDone, UploadFinally, RowsUnchanged
<1>23. CASE StorageClick
  <2>1. CASE BrowserClick /\ UNCHANGED panelVars
    BY <1>2, <1>5, <1>8, <1>9, <1>10, <2>1 DEF BrowserClick
  <2>2. CASE (\E c \in CallIds : SelectProject(c) /\ HideSession) \/ (SelectBucket /\ HideSession)
    BY <1>2, <1>11, <2>2
  <2>3. CASE ChooseFile \/ RemoveFile \/ CancelUpload \/ \E c \in CallIds : UploadObject(c)
    BY <1>3, <1>7, <1>12, <2>3
  <2> QED
    BY <1>23, <2>1, <2>2, <2>3 DEF StorageClick
<1>24. ASSUME NEW c \in CallIds, StorageAnswer(c) PROVE NeverStuckBusy'
  BY <1>13, <1>14, <1>17, <1>20, <1>21, <1>22, <1>24 DEF StorageAnswer
<1> QED
  BY <1>2, <1>3, <1>23, <1>24 DEF StorageNext

LEMMA BusyInit == StorageInit => NeverStuckBusy
  BY DEF StorageInit, BrowserInit, PanelInit, NeverStuckBusy

-----------------------------------------------------------------------------
(* The theorems.                                                           *)

LEMMA StorageInvariant ==
  StorageSpec => [](StorageTypeOK /\ CallsFit /\ LatestDeleteShown /\ NeverStuckBusy)
  BY FitInit, BusyInit, StorageTypeInit, StorageTypeStep, FitStep, LatestStep, BusyStep, PTL
  DEF StorageSpec

\* The storage page never holds a value outside its types, whatever the projects,
\* the paths, the answers of the server and the number of calls under way.
THEOREM StorageTypes == StorageSpec => []StorageTypeOK
  BY StorageInvariant, PTL

\* Of overlapping deletions the page shows and cancels the later one, and the
\* earlier one has been told to stop (startDeleteRequest, finishDeleteRequest).
THEOREM LatestDeletion == StorageSpec => []LatestDeleteShown
  BY StorageInvariant, PTL

\* However the calls of the page overlap, an indicator that is on has a call under
\* way whose end turns it off: no finally block is missed.
THEOREM StorageNeverStuck == StorageSpec => []NeverStuckBusy
  BY StorageInvariant, PTL
=============================================================================
