---------------------------- MODULE ObjectBrowser ----------------------------
(***************************************************************************)
(* The object browser of the console (StoragePage): the query form, the    *)
(* role in the selected project, the object list, deletions and renames.   *)
(*                                                                         *)
(* A handler runs to its request without interruption and goes on when     *)
(* the answer arrives; in between the user may do anything the page        *)
(* allows.  A handler sees the values of the rendering it was clicked in,  *)
(* but reads the query form as it is when it gets there.  An answer is     *)
(* never dropped because the page has moved on: only a deletion carries a  *)
(* controller that can abort it.                                           *)
(***************************************************************************)
EXTENDS Naturals, Sequences, FiniteSets, SequencesExt

CONSTANTS
  Projects, Buckets,
  BucketsOf,      \* BucketsOf[p]: the buckets the context of p lists
  RoleOf,         \* RoleOf[p]: the user's role in p, "" if it has none
  PlatformAdmin,  \* the user administers the platform
  Directories,    \* paths of directories: sequences of names
  Files,          \* paths of files
  Typed,          \* prefixes the user may type
  CallIds,        \* calls under way at a time (symmetric)
  None, Idle

Roles == {"project_admin", "project_read_only", ""}
Entries == Directories \cup Files

ASSUME ContextAssumption ==
  /\ BucketsOf \in [Projects -> Seq(Buckets)]
  /\ RoleOf \in [Projects -> Roles]
  /\ PlatformAdmin \in BOOLEAN
ASSUME EntriesAssumption ==
  /\ Directories \cap Files = {}
  /\ \A e \in Entries : e \in Seq(STRING) /\ e # <<>>
ASSUME NoneAssumption == None \notin Projects \cup Buckets \cup CallIds

-----------------------------------------------------------------------------
(* Prefixes: a path, and whether it was written with a slash at its end.   *)

Root == [path |-> <<>>, slash |-> FALSE]
Written(path, slash) == [path |-> path, slash |-> slash]
PagePrefixes == {p \in [path : Seq(STRING), slash : BOOLEAN] : p.path = <<>> => ~p.slash}
ASSUME TypedAssumption == Typed \subseteq PagePrefixes

\* normalizeDirectoryPrefix
Directory(path) == IF path = <<>> THEN Root ELSE Written(path, TRUE)

\* Mutant of Parent: the parent of a directory at the top is written as a slash.
ParentAlwaysSlash(prefix) ==
  IF prefix = Root THEN Root ELSE Written(Front(prefix.path), TRUE)

\* parentDirectoryPrefix
Parent(prefix) == IF prefix = Root THEN Root ELSE Directory(Front(prefix.path))

\* remapCurrentPrefixAfterDirectoryRename
Remapped(prefix, source, target) ==
  IF IsPrefix(source, prefix.path)
    THEN Directory(target \o SubSeq(prefix.path, Len(source) + 1, Len(prefix.path)))
    ELSE Directory(prefix.path)

Places == [project : Projects \cup {None}, bucket : Buckets \cup {None}, prefix : PagePrefixes]
EmptyForm == [project |-> None, bucket |-> None, prefix |-> Root]

\* The rows of a list: the level below its prefix, or the directory that the
\* prefix names without its slash.
Rows(place) ==
  {e \in Entries : \/ e = place.prefix.path /\ ~place.prefix.slash
                   \/ Front(e) = place.prefix.path /\ (place.prefix = Root \/ place.prefix.slash)}

-----------------------------------------------------------------------------
VARIABLES
  form,              \* the query form
  projectRole,       \* currentProjectRole
  bucketOptions,     \* the project whose buckets are offered, or None
  objects,           \* where the rows shown come from, or None for no rows
  currentPrefix, selectedKeys, loading, submitting, deleting,
  deleteController,  \* the call deleteAbortControllerRef belongs to, or None
  renaming,          \* the row in the rename dialog, or None when it is closed
  calls              \* what has been asked and not yet been answered

browserVars == <<form, projectRole, bucketOptions, objects, currentPrefix, selectedKeys,
                 loading, submitting, deleting, deleteController, renaming, calls>>

Calls ==
  [op : {"context", "bootstrap", "query", "delete", "batch", "rename", "upload"},
   stage : {"options", "context", "sessions", "listing", "sent"}
             \cup {"policy", "transfer", "summary", "reasons", "timer", "failures"},
   place : Places,                    \* what a context or a list is asked for
   after : PagePrefixes \cup {None},  \* the prefix to list at its end, None for the form's
   aborted : BOOLEAN]
ASSUME IdleAssumption == Idle \notin Calls

BrowserTypeOK ==
  /\ form \in Places /\ projectRole \in Roles
  /\ bucketOptions \in Projects \cup {None}
  /\ objects \in Places \cup {None}
  /\ currentPrefix \in PagePrefixes
  /\ selectedKeys \in SUBSET Entries
  /\ {loading, submitting, deleting} \subseteq BOOLEAN
  /\ deleteController \in CallIds \cup {None}
  /\ renaming \in Entries \cup {None}
  /\ calls \in [CallIds -> Calls \cup {Idle}]

NewCall(op, stage, place) ==
  [op |-> op, stage |-> stage, place |-> place, after |-> None, aborted |-> FALSE]

\* The page as it is first shown; with a project in its address it asks for the
\* projects at once.
BrowserInit ==
  /\ form = EmptyForm /\ projectRole = "" /\ bucketOptions = None
  /\ objects = None /\ currentPrefix = Root /\ selectedKeys = {}
  /\ loading = FALSE /\ submitting = FALSE /\ deleting = FALSE
  /\ deleteController = None /\ renaming = None
  /\ \/ calls = [c \in CallIds |-> Idle]
     \/ \E c \in CallIds, p \in Projects :
          calls = [x \in CallIds |->
                     IF x = c THEN NewCall("bootstrap", "options", [EmptyForm EXCEPT !.project = p])
                     ELSE Idle]

-----------------------------------------------------------------------------
Outstanding(stage) == {c \in CallIds : calls[c] # Idle /\ calls[c].stage = stage}
CanWrite == PlatformAdmin \/ projectRole = "project_admin"
RowsShown == IF objects = None THEN {} ELSE Rows(objects)

\* getQuery, and the rules of the form: project and bucket are required.
Complete(place) == place.project # None /\ place.bucket # None

\* An open dialog covers the page, and a list that loads covers its rows.
PageReachable == renaming = None
RowsReachable == PageReachable /\ ~loading

\* Mutant of Finish: it does not ask whether its controller is still the latest.
FinishAnyDelete(c) ==
  /\ calls' = [calls EXCEPT ![c] = Idle]
  /\ submitting' = IF calls[c].op \in {"delete", "batch", "rename", "upload"} THEN FALSE ELSE submitting
  /\ IF calls[c].op \in {"delete", "batch"}
       THEN deleteController' = None /\ deleting' = FALSE
       ELSE UNCHANGED <<deleteController, deleting>>

\* Mutant of Finish: a rename that ends leaves the buttons busy.
FinishWithoutRename(c) ==
  /\ calls' = [calls EXCEPT ![c] = Idle]
  /\ submitting' = IF calls[c].op \in {"delete", "batch", "upload"} THEN FALSE ELSE submitting
  /\ IF deleteController = c
       THEN deleteController' = None /\ deleting' = FALSE
       ELSE UNCHANGED <<deleteController, deleting>>

\* The finally of a handler.
Finish(c) ==
  /\ calls' = [calls EXCEPT ![c] = Idle]
  /\ submitting' = IF calls[c].op \in {"delete", "batch", "rename", "upload"} THEN FALSE ELSE submitting
  /\ IF deleteController = c
       THEN deleteController' = None /\ deleting' = FALSE
       ELSE UNCHANGED <<deleteController, deleting>>

\* queryObjects up to its request.  A form that is not complete ends the handler.
BeginListing(c, op, place) ==
  /\ form' = place
  /\ IF Complete(place)
       THEN /\ calls' = [calls EXCEPT ![c] = NewCall(op, "listing", place)]
            /\ loading' = TRUE /\ selectedKeys' = {}
            /\ UNCHANGED <<submitting, deleting, deleteController>>
       ELSE IF calls[c] = Idle
         THEN UNCHANGED <<calls, loading, selectedKeys, submitting, deleting, deleteController>>
         ELSE Finish(c) /\ UNCHANGED <<loading, selectedKeys>>

ListingUnchanged == UNCHANGED <<projectRole, bucketOptions, objects, currentPrefix>>

\* The handlers that only list: the query button and the page size, a directory
\* that is entered, the way back to its parent.
List(c, place) ==
  /\ calls[c] = Idle /\ ~loading
  /\ BeginListing(c, "query", place)
  /\ ListingUnchanged /\ UNCHANGED renaming

QueryObjects(c) == PageReachable /\ List(c, form)

EnterDirectory(c) ==
  \E d \in RowsShown \cap Directories :
    RowsReachable /\ List(c, [form EXCEPT !.prefix = Directory(d)])

GoToParentDirectory(c) ==
  /\ PageReachable /\ currentPrefix # Root
  /\ List(c, [form EXCEPT !.prefix = Parent(currentPrefix)])

\* The answer of a list; a deletion and a rename end with it, an upload goes on.
ListingAnswer(c) ==
  /\ c \in Outstanding("listing")
  /\ \/ objects' = calls[c].place /\ currentPrefix' = calls[c].place.prefix
     \/ objects' = None /\ UNCHANGED currentPrefix
  /\ loading' = FALSE
  /\ IF calls[c].op = "upload"
       THEN /\ calls' = [calls EXCEPT ![c] = NewCall("upload", "sessions", EmptyForm)]
            /\ UNCHANGED <<submitting, deleting, deleteController>>
       ELSE Finish(c)
  /\ UNCHANGED <<form, projectRole, bucketOptions, selectedKeys, renaming>>

-----------------------------------------------------------------------------
(* The selection of a project and a bucket.                                *)

ClearRows ==
  /\ currentPrefix' = Root /\ objects' = None /\ selectedKeys' = {}

SelectProject(c) ==
  /\ PageReachable /\ calls[c] = Idle
  /\ \E p \in Projects \ {form.project} :
       /\ form' = [form EXCEPT !.project = p, !.prefix = Root]
       /\ calls' = [calls EXCEPT ![c] = NewCall("context", "context", [EmptyForm EXCEPT !.project = p])]
  /\ projectRole' = ""
  /\ ClearRows
  /\ UNCHANGED <<bucketOptions, loading, submitting, deleting, deleteController, renaming>>

\* loadBucketsByProject after its request, in the selection of a project and in
\* the bootstrap, which goes on to the upload sessions.
ContextAnswer(c) ==
  /\ c \in Outstanding("context")
  /\ LET p == calls[c].place.project
         bucket == IF BucketsOf[p] = <<>> THEN None ELSE Head(BucketsOf[p])
     IN \/ /\ projectRole' = RoleOf[p] /\ bucketOptions' = p
           /\ form' = [form EXCEPT !.bucket = bucket, !.prefix = Root]
        \/ /\ projectRole' = "" /\ bucketOptions' = None
           /\ form' = [form EXCEPT !.bucket = None, !.prefix = Root]
  /\ currentPrefix' = Root
  /\ calls' = [calls EXCEPT ![c] = IF @.op = "bootstrap" THEN [@ EXCEPT !.stage = "sessions"] ELSE Idle]
  /\ UNCHANGED <<objects, selectedKeys, loading, submitting, deleting, deleteController, renaming>>

SelectBucket ==
  /\ PageReachable /\ bucketOptions # None
  /\ \E b \in ToSet(BucketsOf[bucketOptions]) \ {form.bucket} :
       form' = [form EXCEPT !.bucket = b, !.prefix = Root]
  /\ ClearRows
  /\ UNCHANGED <<projectRole, bucketOptions, loading, submitting, deleting, deleteController,
                 renaming, calls>>

TypePrefix ==
  /\ PageReachable
  /\ \E prefix \in Typed \ {form.prefix} : form' = [form EXCEPT !.prefix = prefix]
  /\ UNCHANGED <<projectRole, bucketOptions, objects, currentPrefix, selectedKeys, loading,
                 submitting, deleting, deleteController, renaming, calls>>

\* bootstrapProjectFromQuery: the project of the address is selected once the
\* projects are known to contain it, ...
BootstrapOptions(c) ==
  /\ c \in Outstanding("options")
  /\ \/ /\ calls' = [calls EXCEPT ![c].stage = "context"]
        /\ form' = [form EXCEPT !.project = calls[c].place.project]
        /\ projectRole' = ""
     \/ /\ calls' = [calls EXCEPT ![c] = Idle]
        /\ UNCHANGED <<form, projectRole>>
  /\ UNCHANGED <<bucketOptions, objects, currentPrefix, selectedKeys, loading, submitting,
                 deleting, deleteController, renaming>>

\* ... and what the page shows is cleared after its upload sessions have arrived.
BootstrapDone(c) ==
  /\ c \in Outstanding("sessions") /\ calls[c].op = "bootstrap"
  /\ form' = [form EXCEPT !.prefix = Root]
  /\ ClearRows
  /\ calls' = [calls EXCEPT ![c] = Idle]
  /\ UNCHANGED <<projectRole, bucketOptions, loading, submitting, deleting, deleteController, renaming>>

-----------------------------------------------------------------------------
(* Deletions and renames.                                                  *)

SelectRows ==
  /\ RowsReachable /\ CanWrite
  /\ \E keys \in SUBSET RowsShown : keys # selectedKeys /\ selectedKeys' = keys
  /\ UNCHANGED <<form, projectRole, bucketOptions, objects, currentPrefix, loading, submitting,
                 deleting, deleteController, renaming, calls>>

Aborted(call) == [call EXCEPT !.aborted = TRUE]

\* startDeleteRequest: the controller of an earlier deletion is aborted.
StartDelete(c, op, after) ==
  /\ PageReachable /\ calls[c] = Idle
  /\ CanWrite /\ ~submitting /\ Complete(form)
  /\ calls' = [x \in CallIds |->
       IF x = c THEN [NewCall(op, "sent", EmptyForm) EXCEPT !.after = after]
       ELSE IF x = deleteController THEN Aborted(calls[x]) ELSE calls[x]]
  /\ deleteController' = c /\ deleting' = TRUE /\ submitting' = TRUE
  /\ UNCHANGED <<form, projectRole, bucketOptions, objects, currentPrefix, selectedKeys, loading,
                 renaming>>

\* The list that follows is that of the parent, when the directory shown is the
\* one deleted, and otherwise that of the form.
DeleteObject(c) ==
  \E key \in RowsShown :
    StartDelete(c, "delete",
      IF key \in Directories /\ key = currentPrefix.path THEN Parent(currentPrefix) ELSE None)

DeleteSelectedObjects(c) == selectedKeys # {} /\ StartDelete(c, "batch", None)

\* cancelDelete
CancelDelete ==
  /\ PageReachable /\ deleting /\ deleteController # None
  /\ calls[deleteController].stage = "sent" /\ ~calls[deleteController].aborted
  /\ calls' = [calls EXCEPT ![deleteController] = Aborted(@)]
  /\ UNCHANGED <<form, projectRole, bucketOptions, objects, currentPrefix, selectedKeys, loading,
                 submitting, deleting, deleteController, renaming>>

\* The form with the prefix a call ends with.
FormAfter(call) == IF call.after = None THEN form ELSE [form EXCEPT !.prefix = call.after]

\* A deletion that succeeded lists again.  An aborted request does not succeed.
DeleteAnswer(c) ==
  /\ c \in Outstanding("sent") /\ calls[c].op = "delete"
  /\ \/ ~calls[c].aborted /\ BeginListing(c, "delete", FormAfter(calls[c]))
     \/ Finish(c) /\ UNCHANGED <<form, loading, selectedKeys>>
  /\ ListingUnchanged /\ UNCHANGED renaming

\* A batch that succeeded drops the selection and lists the same place again.
BatchDeleteAnswer(c) ==
  /\ c \in Outstanding("sent") /\ calls[c].op = "batch"
  /\ \/ /\ ~calls[c].aborted
        /\ selectedKeys' = {}
        /\ IF Complete(form) THEN BeginListing(c, "batch", form)
                             ELSE Finish(c) /\ UNCHANGED <<form, loading>>
     \/ Finish(c) /\ UNCHANGED <<form, loading, selectedKeys>>
  /\ ListingUnchanged /\ UNCHANGED renaming

OpenRename ==
  /\ RowsReachable /\ CanWrite
  /\ renaming' \in RowsShown
  /\ UNCHANGED <<form, projectRole, bucketOptions, objects, currentPrefix, selectedKeys, loading,
                 submitting, deleting, deleteController, calls>>

CancelRename ==
  /\ renaming # None
  /\ renaming' = None
  /\ UNCHANGED <<form, projectRole, bucketOptions, objects, currentPrefix, selectedKeys, loading,
                 submitting, deleting, deleteController, calls>>

SubmitRename(c) ==
  /\ renaming # None /\ calls[c] = Idle
  /\ CanWrite /\ ~submitting /\ Complete(form)
  /\ \E target \in Entries :
       /\ target \in Directories <=> renaming \in Directories
       /\ calls' = [calls EXCEPT ![c] = [NewCall("rename", "sent", EmptyForm) EXCEPT
            !.after = IF target \in Files THEN None ELSE Remapped(currentPrefix, renaming, target)]]
  /\ submitting' = TRUE
  /\ UNCHANGED <<form, projectRole, bucketOptions, objects, currentPrefix, selectedKeys, loading,
                 deleting, deleteController, renaming>>

\* A rename that succeeded closes the dialog, whichever row it now shows.
RenameAnswer(c) ==
  /\ c \in Outstanding("sent") /\ calls[c].op = "rename"
  /\ \/ renaming' = None /\ BeginListing(c, "rename", FormAfter(calls[c]))
     \/ Finish(c) /\ UNCHANGED <<form, loading, selectedKeys, renaming>>
  /\ ListingUnchanged

-----------------------------------------------------------------------------
\* What the user does here, apart from the selection of a project and a bucket.
BrowserClick ==
  \/ TypePrefix \/ SelectRows \/ CancelDelete \/ OpenRename \/ CancelRename
  \/ \E c \in CallIds :
       \/ QueryObjects(c) \/ EnterDirectory(c) \/ GoToParentDirectory(c)
       \/ DeleteObject(c) \/ DeleteSelectedObjects(c) \/ SubmitRename(c)

\* What arrives here, apart from the answers of an upload.
BrowserAnswer(c) ==
  \/ ListingAnswer(c) \/ ContextAnswer(c) \/ BootstrapOptions(c) \/ BootstrapDone(c)
  \/ DeleteAnswer(c) \/ BatchDeleteAnswer(c) \/ RenameAnswer(c)
=============================================================================
