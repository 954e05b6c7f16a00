----------------------------- MODULE BatchDelete -----------------------------
(***************************************************************************)
(* The deletion of a list of files and directories of a bucket             *)
(* (DeleteBucketObjects of service/projects).                              *)
(*                                                                         *)
(* A pool of batch workers takes the items.  A directory is listed page by *)
(* page, level by level, and what was found is deleted by a pool of its    *)
(* own; a file is handed to a pool of file workers, and the batch worker   *)
(* waits for the reply.  Every pool drains a channel that has room for all *)
(* of its work, so its order is any order.  All provider calls share one   *)
(* context, which ends with the client or the delete timeout; meanwhile    *)
(* others may upload into the bucket.                                      *)
(***************************************************************************)
EXTENDS Naturals, Sequences, FiniteSets

CONSTANTS
  Items,         \* positions of the list
  Target,        \* Target[i]: the object or the directory of item i
  Objects,       \* paths that may hold an object: sequences of numbers, each
                 \* the rank of a name among the names at its level
  Directories,   \* paths of directories
  Uploads,       \* objects that others upload meanwhile
  Failures,      \* failures the provider answers with
  MaxKeys,       \* entries of a page
  BatchWorkers, FileWorkers,
  None

\* The failures that are told apart: the end of the context, a timeout of the
\* provider, its refusal of the credential, no such object, anything else.
Outcomes == {"canceled", "timeout", "rejected", "missing", "failed"}

Paths == Seq(Nat \ {0})

\* o lies below directory d.
Under(d, o) ==
  /\ Len(d) < Len(o)
  /\ \A k \in 1..Len(d) : o[k] = d[k]

\* A name followed by a slash is another name than the one without.
ASSUME PathsAssumption ==
  /\ Objects \subseteq Paths
  /\ Directories \subseteq Paths
  /\ Objects \cap Directories = {} /\ <<>> \notin Objects
  /\ \A o \in Objects : \A k \in 1..Len(o) - 1 : SubSeq(o, 1, k) \in Directories
  /\ IsFiniteSet(Objects) /\ IsFiniteSet(Directories)
ASSUME ItemsAssumption ==
  /\ IsFiniteSet(Items)
  /\ Target \in [Items -> Objects \cup Directories]
ASSUME BoundsAssumption == {MaxKeys, BatchWorkers, FileWorkers} \subseteq Nat \ {0}
ASSUME EnvironmentAssumption == Uploads \subseteq Objects /\ Failures \subseteq Outcomes

IsDirectory(i) == Target[i] \in Directories

-----------------------------------------------------------------------------
(* The answers of a provider and the codes made of them.                   *)

\* mapObjectStorageOperationError: what an item that is a file reports.
FileCode(outcome) ==
  CASE outcome = "rejected" -> "invalid_bucket_credential"
    [] outcome = "missing" -> "storage_object_not_found"
    [] OTHER -> "provider_operation_failed"

\* mapObjectStorageDeleteError: the same, with the end of the context told apart.
DeleteCode(outcome) ==
  CASE outcome = "canceled" -> "delete_request_canceled"
    [] outcome = "timeout" -> "delete_request_timeout"
    [] OTHER -> FileCode(outcome)

\* Mutant of DirectoryCode: no code for a failure of the provider.
DirectoryCodeUnset(outcomes) ==
  CASE "canceled" \in outcomes -> "delete_request_canceled"
    [] "canceled" \notin outcomes /\ "timeout" \in outcomes -> "delete_request_timeout"
    [] OTHER -> ""

\* A directory reports the gravest of its failures.
DirectoryCode(outcomes) ==
  CASE "canceled" \in outcomes -> "delete_request_canceled"
    [] "canceled" \notin outcomes /\ "timeout" \in outcomes -> "delete_request_timeout"
    [] OTHER -> "provider_operation_failed"

Codes == {DeleteCode(o) : o \in Outcomes} \cup {"none"}
Results == [success : BOOLEAN, code : Codes, reasons : SUBSET Outcomes]
ASSUME NoneAssumption == None \notin Directories \cup Results

Success == [success |-> TRUE, code |-> "none", reasons |-> {}]
Failure(code, outcomes) == [success |-> FALSE, code |-> code, reasons |-> outcomes]

-----------------------------------------------------------------------------
VARIABLES
  store,      \* the objects in the bucket
  fresh,      \* those uploaded since the call began
  context,    \* "live", or what ended it: "canceled" or "timeout"
  step,       \* per item: where its worker is
  at,         \* per directory: the level being listed, or None
  marker,     \* per directory: the entry its next page starts after
  todo,       \* per directory: the levels still to list
  visited,    \* per directory: the levels listed
  found,      \* per directory: objects listed and not yet deleted
  reasons,    \* per item: the failures so far
  result,     \* per item: its entry of the result list, or None
  returned    \* the call has returned

walkVars == <<at, marker, todo, visited>>
vars == <<store, fresh, context, step, walkVars, found, reasons, result, returned>>

Steps == {"queued", "listing", "deleting", "waiting", "working", "replied", "answered"}

TypeOK ==
  /\ store \subseteq Objects /\ fresh \subseteq Objects
  /\ context \in {"live", "canceled", "timeout"}
  /\ step \in [Items -> Steps]
  /\ at \in [Items -> Directories \cup {None}]
  /\ marker \in [Items -> Nat]
  /\ todo \in [Items -> SUBSET Directories]
  /\ visited \in [Items -> SUBSET Directories]
  /\ found \in [Items -> SUBSET Objects]
  /\ reasons \in [Items -> SUBSET Outcomes]
  /\ result \in [Items -> Results \cup {None}]
  /\ returned \in BOOLEAN

Init ==
  /\ store \in SUBSET Objects
  /\ fresh = {}
  /\ context = "live"
  /\ step = [i \in Items |-> "queued"]
  /\ at = [i \in Items |-> None]
  /\ marker = [i \in Items |-> 0]
  /\ todo = [i \in Items |-> {}]
  /\ visited = [i \in Items |-> {}]
  /\ found = [i \in Items |-> {}]
  /\ reasons = [i \in Items |-> {}]
  /\ result = [i \in Items |-> None]
  /\ returned = FALSE

\* How a provider call may fail: by the end of the context only once it ended
\* (the Aliyun adapter never does), by a timeout of the provider at any time.
Possible == Failures \ (IF context = "canceled" THEN {} ELSE {"canceled"})

\* A deletion that fails may have been carried out.
Delete(o, outcome) ==
  \/ store' = store \ {o}
  \/ outcome # "ok" /\ UNCHANGED store

-----------------------------------------------------------------------------
(* The batch workers.                                                      *)

Idle == {"queued", "answered"}
\* The workers that are in one of the given steps.
In(steps) == {i \in Items : step[i] \in steps}

\* Mutant of TakeItem: the walk begins at the parent of the directory.
TakeParent(i) ==
  /\ step[i] = "queued"
  /\ Cardinality(In(Steps \ Idle)) < BatchWorkers
  /\ IF IsDirectory(i)
     THEN /\ step' = [step EXCEPT ![i] = "listing"]
          /\ todo' = [todo EXCEPT ![i] = {SubSeq(Target[i], 1, Len(Target[i]) - 1)}]
     ELSE /\ step' = [step EXCEPT ![i] = "waiting"]
          /\ UNCHANGED todo
  /\ UNCHANGED <<store, fresh, context, at, marker, visited, found, reasons, result, returned>>

TakeItem(i) ==
  /\ step[i] = "queued"
  /\ Cardinality(In(Steps \ Idle)) < BatchWorkers
  /\ IF IsDirectory(i)
     THEN /\ step' = [step EXCEPT ![i] = "listing"]
          /\ todo' = [todo EXCEPT ![i] = {Target[i]}]
     ELSE /\ step' = [step EXCEPT ![i] = "waiting"]
          /\ UNCHANGED todo
  /\ UNCHANGED <<store, fresh, context, at, marker, visited, found, reasons, result, returned>>

Answer(i, entry) ==
  /\ result' = [result EXCEPT ![i] = entry]
  /\ step' = [step EXCEPT ![i] = "answered"]
  /\ found' = [found EXCEPT ![i] = {}]
  /\ at' = [at EXCEPT ![i] = None]
  /\ todo' = [todo EXCEPT ![i] = {}]

-----------------------------------------------------------------------------
(* A directory: list everything below it, then delete what was found.      *)

OpenLevel(i) ==
  /\ step[i] = "listing" /\ at[i] = None
  /\ \E d \in todo[i] :
       /\ todo' = [todo EXCEPT ![i] = @ \ {d}]
       /\ at' = [at EXCEPT ![i] = IF d \in visited[i] THEN None ELSE d]
       /\ visited' = [visited EXCEPT ![i] = @ \cup {d}]
  /\ marker' = [marker EXCEPT ![i] = 0]
  /\ UNCHANGED <<store, fresh, context, step, found, reasons, result, returned>>

\* The names at level d, of objects and (rolled up) of directories.
Names(d) == {o[Len(d) + 1] : o \in {x \in store : Under(d, x)}}

\* What the provider returns: the next names after the marker, in order.
Page(d, m) ==
  {n \in Names(d) : n > m /\ Cardinality({k \in Names(d) : m < k /\ k < n}) < MaxKeys}

Maximum(S) == CHOOSE n \in S : \A k \in S : k <= n

\* Mutant of NextMarker: the last name of the page is counted in both parts.
NextMarkerPastEnd(files, directories) == Maximum(files \cup directories) + 1

\* The adapters append the directories of a page to its objects, so that the
\* last key is that of a directory if there is one.
NextMarker(files, directories) ==
  IF directories = {} THEN Maximum(files) ELSE Maximum(directories)

\* A page that is not full is the last of its level.
ListPage(i) ==
  LET d == at[i]
      page == Page(d, marker[i])
      files == {n \in page : Append(d, n) \in Objects}
  IN /\ step[i] = "listing" /\ at[i] # None
     /\ found' = [found EXCEPT ![i] = @ \cup {Append(d, n) : n \in files}]
     /\ todo' = [todo EXCEPT ![i] = @ \cup {Append(d, n) : n \in page \ files}]
     /\ IF Cardinality(page) < MaxKeys
        THEN /\ at' = [at EXCEPT ![i] = None]
             /\ marker' = [marker EXCEPT ![i] = 0]
        ELSE /\ marker' = [marker EXCEPT ![i] = NextMarker(files, page \ files)]
             /\ UNCHANGED at
     /\ UNCHANGED <<store, fresh, context, step, visited, reasons, result, returned>>

\* Nothing has been deleted yet.
FailListing(i) ==
  /\ step[i] = "listing" /\ at[i] # None
  /\ \E outcome \in Possible : Answer(i, Failure(DeleteCode(outcome), {outcome}))
  /\ UNCHANGED <<store, fresh, context, marker, visited, reasons, returned>>

EndListing(i) ==
  /\ step[i] = "listing" /\ at[i] = None /\ todo[i] = {}
  /\ step' = [step EXCEPT ![i] = "deleting"]
  /\ UNCHANGED <<store, fresh, context, walkVars, found, reasons, result, returned>>

DeleteFound(i, o) ==
  /\ step[i] = "deleting" /\ o \in found[i]
  /\ found' = [found EXCEPT ![i] = @ \ {o}]
  /\ \E outcome \in Possible \cup {"ok"} :
       /\ Delete(o, outcome)
       /\ reasons' = [reasons EXCEPT ![i] = @ \cup ({outcome} \ {"ok"})]
  /\ UNCHANGED <<fresh, context, step, walkVars, result, returned>>

AnswerDirectory(i) ==
  /\ step[i] = "deleting" /\ found[i] = {}
  /\ Answer(i, IF reasons[i] = {} THEN Success
               ELSE Failure(DirectoryCode(reasons[i]), reasons[i]))
  /\ UNCHANGED <<store, fresh, context, marker, visited, reasons, returned>>

-----------------------------------------------------------------------------
(* A file: deleted by a file worker while its batch worker waits.          *)

\* Mutant of TakeFile: the file workers stop with the context.
TakeFileWhileLive(i) ==
  /\ context = "live"
  /\ step[i] = "waiting"
  /\ Cardinality(In({"working"})) < FileWorkers
  /\ step' = [step EXCEPT ![i] = "working"]
  /\ UNCHANGED <<store, fresh, context, walkVars, found, reasons, result, returned>>

TakeFile(i) ==
  /\ step[i] = "waiting"
  /\ Cardinality(In({"working"})) < FileWorkers
  /\ step' = [step EXCEPT ![i] = "working"]
  /\ UNCHANGED <<store, fresh, context, walkVars, found, reasons, result, returned>>

DeleteFile(i) ==
  /\ step[i] = "working"
  /\ step' = [step EXCEPT ![i] = "replied"]
  /\ \E outcome \in Possible \cup {"ok"} :
       /\ Delete(Target[i], outcome)
       /\ reasons' = [reasons EXCEPT ![i] = @ \cup ({outcome} \ {"ok"})]
  /\ UNCHANGED <<fresh, context, walkVars, found, result, returned>>

AnswerFile(i) ==
  /\ step[i] = "replied"
  /\ \/ reasons[i] = {} /\ Answer(i, Success)
     \/ \E outcome \in reasons[i] : Answer(i, Failure(FileCode(outcome), {outcome}))
  /\ UNCHANGED <<store, fresh, context, marker, visited, reasons, returned>>

-----------------------------------------------------------------------------
\* The call waits for the batch workers, closes the channel of the file
\* workers and waits for those.
Return ==
  /\ ~returned
  /\ In(Steps) = In({"answered"})
  /\ returned' = TRUE
  /\ UNCHANGED <<store, fresh, context, step, walkVars, found, reasons, result>>

EndContext ==
  /\ context = "live"
  /\ context' \in {"canceled", "timeout"}
  /\ UNCHANGED <<store, fresh, step, walkVars, found, reasons, result, returned>>

Upload(o) ==
  /\ ~returned
  /\ o \in Uploads \ fresh
  /\ store' = store \cup {o}
  /\ fresh' = fresh \cup {o}
  /\ UNCHANGED <<context, step, walkVars, found, reasons, result, returned>>

DirectoryStep(i) ==
  \/ OpenLevel(i) \/ ListPage(i) \/ FailListing(i) \/ EndListing(i)
  \/ \E o \in Objects : DeleteFound(i, o)
  \/ AnswerDirectory(i)

FileStep(i) == TakeFile(i) \/ DeleteFile(i) \/ AnswerFile(i)

CallStep(i) == TakeItem(i) \/ DirectoryStep(i) \/ FileStep(i)

Next ==
  \/ \E i \in Items : CallStep(i)
  \/ Return
  \/ EndContext
  \/ \E o \in Objects : Upload(o)

Spec == Init /\ [][Next]_vars

\* Provider calls come back, and goroutines that can go on do so.
FairSpec ==
  /\ Spec
  /\ \A i \in Items : WF_vars(CallStep(i))
  /\ WF_vars(Return)

-----------------------------------------------------------------------------
(* Properties.                                                             *)

Covers(i, o) == o = Target[i] \/ Under(Target[i], o)

\* An item that reports success has left nothing behind: no object of it was
\* passed over between two pages, two levels or two overlapping items; what
\* is there was uploaded while the call ran.
SuccessMeansGone ==
  \A i \in Items : result[i] # None /\ result[i].success =>
    \A o \in store : Covers(i, o) => o \in fresh

\* No object is deleted that no item of the list covers.
OnlyTargetsDeleted ==
  [][\A o \in store \ store' : \E i \in Items : Covers(i, o)]_vars

decided == [i \in Items |->
  IF result[i] = None THEN "open" ELSE IF result[i].success THEN "success" ELSE "failure"]
ItemList == INSTANCE ItemResults WITH returned <- returned

\* However the pools interleave and whatever the provider answers, every item
\* gets one result, which stays, and the call returns after the last of them.
AnswersEveryItem == ItemList!ItemsSpec
=============================================================================
