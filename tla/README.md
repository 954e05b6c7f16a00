# Verification of the CDN management platform

TLA+ models of the CDN management platform (Go backend under `src/backend`,
React frontend under `src/frontend`), the TLC runs that check them, and TLAPS
proofs of the properties that matter most. Paths below are relative to
`src/backend/internal` unless they begin with `src/`.

## 1. The system

The backend is one Gin process (or several) in front of MySQL (InnoDB,
REPEATABLE READ), Redis and the object storages and CDNs of Aliyun and Tencent.
Every HTTP request is a goroutine; goroutines meet only in the database, in
Redis, in the buckets, and in the worker pools a request starts for itself.

| Component | State it keeps | Operations | Interacts with |
|---|---|---|---|
| Project authorization (`middleware/`) | Redis snapshot of a user's roles, five minutes | decide a request | role table, users |
| User administration (`service/users`) | `users`, `user_project_roles` | create, update, delete, reset password, replace bindings | role cache, projects |
| Login (`service/auth`) | password hash; tokens are stateless | login, authenticate, change password | users |
| Projects (`service/projects`) | `projects`, `project_buckets`, `project_cdns` with encrypted credentials | create, update, update CDNs, delete | role table (rows preloaded with a project) |
| Object deletion (`service/projects`) | worker pools of one call | delete one, delete a list | bucket of a provider |
| Uploads (`handler/storage`) | worker pools, summary of one session | upload files, archives | bucket, audit |
| Rename (`service/projects`) | the walk of one call | rename a file, a directory | bucket |
| CDN tasks (`service/projects`) | cached task status | refresh URLs and directories, synchronise | CDN provider, Redis |
| Audit (`service/audit`, handlers) | `audit_logs` | record, list | every handler |
| Bootstrap (`service/bootstrap`) | none | create the first administrator | users, audit |
| Provider detection (`provider/`) | registry built at the start | detect, look up | projects |
| Overview, audit queries | none | read and format | all tables |
| Console: session and routes (`src/frontend`) | session of each tab, copy in the storage of the browser | sign in, sign out, guard a route | login |
| Console: storage page | form, rows, selection, dialogs, one upload | list, delete, rename, upload and follow its session, read records | deletion, uploads, audit |
| Console: users, projects, CDN pages | rows, dialogs and forms | read, create, edit, operate | users, projects, CDN tasks |
| Console: audits page, overview | filters with options; window, workbench | query, load | audit, overview; the overview links to the audits |

What is hard here, and what must hold:

* **Authorization.** A request decides by a copy of roles read some time ago
  from a cache filled some time before that, while bindings are replaced, users
  and projects are deleted, and projects are saved together with role rows that
  were preloaded. A decision must follow from a role that the same user really
  had for that project, role rows must never point at users or projects that
  are gone, and staleness must end.
* **Bindings.** A project has at most two buckets and two CDNs with one primary
  of each, and a row must not come to the credential of another provider. The
  validation looks at one request; several requests replace the same rows, and some
  "keep" ciphertexts they read before their transaction.
* **Deletion.** A list of files and directories is deleted by two pools of
  workers, one of which waits for the other, with paged listings, failing
  provider calls, a context that ends, and other clients that upload. A success
  must mean that the objects are gone, nothing else may be deleted, and the call
  must return a result for every item.
* **Uploads.** Files and archive entries are counted in one place and answered in
  another, two pools reply in any order over channels that must have room, and
  an archive may break off after some of its entries were accepted. Every part
  must be answered once, and with its own outcome.
* **Pages.** A page of the console has several requests under way, that nothing
  cancels when the user goes on and that are answered in any order. Their handlers
  share flags that disable buttons, one dialog, one form, one abort controller, and
  read some values when they are clicked and others when an answer arrives. A page
  must not stay busy for good, and what it saves and shows must belong to the
  user, session, operation, query, window and account it is meant for.

Renames in a bucket, CDN tasks, accounts and the audit trail have hazards of
their own; section 5 says why they are not modelled. `PROJECT.json` lists every
component with its status, and every hazard with its line and the properties that
cover it, or a note on why none does.

## 2. The modules

| Module | What it is |
|---|---|
| `ProjectRoles` | roles, levels and permission rules (`model/constants.go`, `middleware/authorization.go`) |
| `RoleDirectory` | abstract: who is visible as holding which role, and answers that follow |
| `RoleScope` | the authorization component and the writers of the role table |
| `MCRoleScope`, `RoleScope_*.cfg` | its instances |
| `RoleScope_proofs` | its theorems |
| `ProjectBindings` | buckets and CDNs of one project under overlapping edits |
| `MCProjectBindings`, `ProjectBindings_*.cfg` | its instances |
| `ProjectBindings_proofs` | its theorems |
| `ItemResults` | abstract: each item of a call is decided once, then the call returns |
| `BatchDelete` | deletion of a list of files and directories |
| `MCBatchDelete`, `BatchDelete_*.cfg` | its instances |
| `BatchDelete_proofs` | its theorems |
| `UploadSession` | one upload: files, archives and two pools of workers |
| `MCUploadSession`, `UploadSession_*.cfg` | its instances |
| `UploadSession_proofs` | its theorems |
| `ObjectBrowser` | storage page: selection, rows, directories, deletions, renames |
| `UploadPanel` | storage page: `ObjectBrowser` with the upload panel |
| `MCStoragePage`, `StoragePage_*.cfg` | its instances |
| `UploadPanel_proofs` | its theorems |
| `ConsolePage` | what the other pages have in common: calls under way, choices of a default |
| `StorageRecords` | storage page: sessions of archives, reasons of failures, drawers of records |
| `UsersConsole`, `ProjectsConsole`, `CDNConsole`, `AuditsConsole`, `OverviewConsole` | one page each |
| `ConsoleSession` | tabs, sign-in and sign-out, guards of routes |
| `ConsolePages` | the pages and the session, of which one is mounted |
| `MCConsolePages`, `ConsolePages_*.cfg`, `ProjectsConsole_*.cfg` | their instances |
| `UsersConsole_proofs`, `ProjectsConsole_proofs` | the theorems of these two pages |
| `ConsolePages_proofs` | the theorems of the other pages and of all of them together |

### 2.1 RoleScope

State: `userRows`, `projectRows` (ids in the tables), `bindings[u][p]`
(`user_project_roles`), `cache[u]` (Redis), for each request `pc`, `ask`
(user, platform role, project, level) and `seen` (the copy it decides by), for
each administrator the `call` it is in, for each editor the `edit` it loaded.

| Action | Code |
|---|---|
| `StartRequest` | the authentication middleware reads the user's row |
| `BypassScope` | platform administrators skip the cache |
| `CacheHit`, `CacheMiss` | `RedisUserProjectRoleCache.Get`; a Redis failure is a miss |
| `QueryRoles`, `FillCache` | `projectRoles`: `ListByUserID`, then `Set` (whose error is ignored) |
| `FailRequest`, `Authorize` | the answers of both middlewares (`PermissionAnswer`, `ScopeAnswer`) |
| `Expire` | the five minutes of an entry are over |
| `RequestReplace`, `CommitReplace`, `RequestDeleteUser`, `CommitDeleteUser`, `RollbackAdmin` | `service/users`: look-ups before the transaction, and the transaction |
| `InvalidateUser`, `LoseInvalidation` | the invalidation after it: reaches Redis, or the process or Redis fails |
| `RestoreUser` | a whole-row save of a user read earlier inserts it again if it is gone |
| `DeleteProject`, `LoadProject`, `SaveProject`, `AbandonEdit` | `service/projects`: deletion; an edit preloads the role rows and saves them |

A transaction is one step: foreign keys and row locks of InnoDB make the ones
here serialisable with respect to role rows. What happens between a read and
the use of what was read is a step of its own.

`RefinesDirectory` is the refinement of `RoleDirectory`: the abstract state is
`visible[u]`, the pairs of project and role visible for `u` anywhere (table,
cache, a request's copy, a preloaded edit, a pending call). A pair becomes
visible only because a replacement asked for it, and a request is answered only
by what is visible for its own user and project.

### 2.2 ProjectBindings

State: `exists`, `bucketRows`, `cdnRows` (records of name, provider, primary,
ciphertext and the request that wrote them), and for every call the rows it
preloaded, those it is going to write, those it listed and where it is. A
ciphertext is the request that supplied the secret and the provider it was for;
`NoCiphertext` and `EmptyText` stand for a missing one and for the encryption of
nothing.

`Create` is `POST /projects`: the handler asks every bucket for a credential, the
service validates the lists and inserts them in the transaction of the project.
Unlike `Update` it does not run `prepareUpdateBindings`, so that a binding marked
`KEEP` is stored with the ciphertext of the request, which is empty
(`UnresolvedRow`): the credential that the handler asked for is dropped. Therefore
`BucketCredentials` makes an exception for such a bucket, and
`BindingsHaveCredentials`, what the design says of new bindings, is refuted.

`Update` is `LoadBuckets`, `ResolveBindings` (validation, `KEEP` and `REPLACE`),
`SaveProject` (takes the lock of the project's row), `ListBindings`,
`ReplaceBindings`, `Finish`; `UpdateCDNs` is `SubmitCDNs`, `ListCDNs`,
`ReplaceCDNs` and takes no lock on the project. A read inside a transaction sees the snapshot of its first read;
deletions go by the ids that were listed. `Fail` rolls back at any point.

### 2.3 BatchDelete

State: `store` (objects in the bucket), `fresh` (uploaded since the call began),
`context`, and per item its worker's `step`, the walk (`at`, `marker`, `todo`,
`visited`), what was `found`, the `reasons` of failures and the `result`.
Paths are sequences of ranks, so that the order of keys is the order of
numbers. A page (`Page`) is the next `MaxKeys` names after the marker, where a
directory is one name; a placeholder object of a directory is one of the names
in it. The adapters append directories behind objects, and the code
takes the last key as the next marker: `NextMarker`. Listing a name equal to
the marker again is excluded, as S3-like storages do for common prefixes.

`TakeItem`, `OpenLevel`, `ListPage`, `FailListing`, `EndListing`,
`DeleteFound`, `AnswerDirectory` are a batch worker with a directory; `TakeFile`,
`DeleteFile`, `AnswerFile` a file worker with the file of a waiting batch
worker; `Return` is the end of both pools. The pool inside one directory is
abstracted to "any found object is next"; its size bounds nothing else. A
deletion that fails may have been carried out. `EndContext` is the client that
leaves or the delete timeout; adapters may notice it or not.

`AnswersEveryItem` is the refinement of `ItemResults` including its liveness.

### 2.4 UploadSession

State: where the handler is (`stage`, `part`, `entry`), the files put off
(`deferred`), the running pool (`tasks`, how many were `sent`, those being
`working` on, those whose bucket is `resolved`, those `uploaded` and not replied
yet, the channel `replies`, how many were `collected`), the bucket (`store`), and
what the request leaves: `results`, the counters of the archive `session`, and
`unrecorded`, whether some audit record was lost.

| Action | Code (`handler/storage/storage.go`) |
|---|---|
| `RefuseFile`, `DeferFile`, `RefuseArchive`, `OpenArchive` | one part of the form in `UploadObject` |
| `SkipEntry`, `RefuseEntry`, `AcceptEntry`, `EndArchive` | one entry in `uploadZipEntries` and `uploadTarEntries`, and the end or break of the archive |
| `StartFiles` | the pool of files, after the last part |
| `Dispatch` | the handler's send on the unbuffered channel of tasks, to an idle worker |
| `Resolve`, `Upload`, `Reply` | a worker: project, bucket and credential are read for every upload, the call to the provider, the send on the channel of replies |
| `Collect`, `EndPool` | the loop over the replies, after the last worker has left |
| `Respond` | the record of the session and the answer |
| `EndContext` | the client leaves: nothing is read or recorded after that |

The content of files and archives is given by `Form`: whether a part opens and
decompresses, and for each entry whether it is a regular file with a safe path that
can be read, its key and its size. Keys are members of a set, so joining prefixes
and names is left out; results of parts that are refused before an upload are
kept without their key. `Record` is every call of `recordAudit`, whose error
the code ignores. The two pools are one set of actions with different tasks: they
differ in the number of workers, in the order the replies are read in, and in
the counters.

`AnswersEveryPart` is the refinement of `ItemResults` including its liveness.

### 2.5 The pages of the console

All pages are modelled in one way. A React handler runs up to its first `await`
without interruption: that is the action of a click. Each `await` after it is a
stage of a call (`calls`, `userCalls`, `projectCalls`, ...), and the action of its
answer runs up to the next one, the `finally` included. What the
handler took with it from the rendering it was clicked in is kept in the call, what
it reads from refs, from the form or from the server is read in the action. Every
answer may also be an error or a timeout: 60 seconds (`services/api/client.ts`), five
minutes for deletions, and a limit of its own for the transfer of an upload. An effect runs in the action that changes what it depends
on, as React runs it before the next event. The guards of clicks are the conditions
under which the page renders an enabled button: an open dialog or drawer covers
the page, a spinner covers what it wraps.

**Storage page** (`StoragePage.tsx`; `ObjectBrowser`, `UploadPanel`).
A prefix is a path with or without its slash at the end, so that a typed prefix
lists the directory itself; `Parent`, `Directory` and `Remapped` are the helpers of
the page on them. `Finish` is the `finally` of the handlers that share
`submitting`.

| Action | Code |
|---|---|
| `QueryObjects`, `EnterDirectory`, `GoToParentDirectory`, `ListingAnswer` | `queryObjects` and its callers |
| `SelectProject`, `ContextAnswer`, `SelectBucket`, `TypePrefix` | the form, `loadBucketsByProject` |
| `BootstrapOptions`, `BootstrapDone` | `bootstrapProjectFromQuery`: a link with a project |
| `DeleteObject`, `DeleteSelectedObjects`, `CancelDelete`, `DeleteAnswer`, `BatchDeleteAnswer` | deletions with `deleteAbortControllerRef` |
| `OpenRename`, `SubmitRename`, `RenameAnswer` | the rename dialog |
| `ChooseFile`, `RemoveFile`, `PolicyLoaded`, `UploadObject`, `SendFiles`, `CancelUpload`, `TransferAnswer` | upload, stage A |
| `SummaryAnswer`, `ReasonsAnswer`, `PollAgain`, `DeadlinePasses`, `FailuresAnswer`, `UploadDone` | `pollUploadSessionStageB` and the report |

`StorageRecords` models the audit records on the same page, which share no flag
with the rest: `LoadSessions` with `SessionsAnswer` and `ReasonsAnswer`, the drawer of a
session (`OpenSessionDetail`, `DetailAnswer`), and that of an object
(`OpenAudit`, `AuditAnswer`). A record is its result and the texts and names a
reason may be taken from. The summary of a list takes three of the last five
failures; that of the drawer takes three of the failures among the latest
`DetailLimit` records (200 in the code), which is all the drawer asks for. Both are
made only if the archive record counts a failure (`FailedEntries`). With more
records than the limit the drawer may therefore find fewer failures than the list
did, and then puts a shorter summary in its place: `ReasonsOfTheirSession` asks for
the first of the list's reasons, and for all of them within the limit.

**Users** (`UsersConsole`). `boundTo` is what the server has. The form of bindings
carries whose bindings it holds (`of`), which the code does not know: that a save
sends them to the same user (`NoCrossUserSave`) hangs on `bindingSnapshotTargetRef`
and on the spinner over the form.

**Projects** (`ProjectsConsole`). `stored` is what the server has: per kind of binding
the rows, each with a provider and whether it has a credential, and the number of the
write that inserted them. Rows without a credential come from a creation or from the
endpoint of the CDNs (2.2). `OtherUpdate` and `OtherUpdateCDNs` are writes of somebody
else, of all bindings and of the CDNs alone. A row of the dialog knows which stored row it was filled from. `SubmitProject`
chooses among all forms that can be made of what the dialog was opened with
(`Edited`) and applies the checks of the page; `Handle` is `prepareUpdateBindings` and
`validateBindings` of the server as far as credentials are concerned: `Refusal` has the
reasons in their order (no such row, another provider, no credential to keep), and
`FieldError` puts the answer at a field.

**CDN** (`CDNConsole`). The text of an operation is a set of lines, each of which
only some operation accepts. `ShowInput` is the effect that puts the input of the
tab into the one field.

**Audits** (`AuditsConsole`). The calls under way are a set: two requests for the same
options are answered alike. The filter by action stands for that by target type.
`Changed` and `OptionCalls` are the effects on scope and project, `ApplyLink` the one on
the address.

**Overview** (`OverviewConsole`). A load is numbered and goes through metrics,
accessible projects, contexts and logs. `metrics` stands for all that comes with
them. Only the workbench and the error are guarded by the number of the load
(`IsLatest`); the metrics and the access to writing are set by every load, also by one
that was overtaken. `Workbench` computes rows, risks and activity from logs with their times.

**Session** (`ConsoleSession`). Each tab has a path and a session in memory; the
storage of the browser is read only when a tab loads. `Settled` is what the nested
guards of the routes do. `page` is the account a page was mounted for.

`ConsolePages` puts them under one specification: routes mount one page and drop its
state with it, so a behaviour is that of the mounted page.

## 3. The runs

| Run | Checks | Result |
|---|---|---|
| `rolescope_safety` | types, referential integrity, refinement of `RoleDirectory` | holds |
| `rolescope_liveness` | once the table rests the cache agrees with it for good | holds |
| `rolescope_resurrect` | only a replacement grants a role | violated: finding |
| `bindings_safety` | well-formed buckets with a credential of their provider (but for one the creation marked `KEEP`), whole replacements, no orphans, the CDNs of one edit together | holds |
| `bindings_keep` | no binding is stored without a credential | violated: finding |
| `bindings_cdns` | CDNs well formed | violated: finding |
| `delete_safety` | success means gone, nothing else deleted, every item answered, return | holds |
| `upload_safety` | the session's counters agree with the results, success means stored, every part answered once, return | holds |
| `storage_safety` | types; the later of two deletions is the one shown and canceled; no flag stays set | holds |
| `storage_liveness` | with archives: every handler of the storage page comes to its end; no flag of an upload stays set | holds |
| `pages_safety` | types and flags of all other pages; bindings are saved to their user; reasons are filed under their session; an up-to-date form is refused only for a credential missing in the store, at its switch; operations, queries, windows and sessions do not mix; a load that was overtaken changes neither workbench nor error | holds |
| `projects_edit` | an edit is saved to the project it was made of | violated: finding |

Findings are quoted in `PROJECT.json` with the line of the document or test they
disagree with. In short: saving a project brings back role rows that were removed while it was
being edited; overlapping CDN edits leave the union of both; a project created with a
bucket marked `KEEP` has a bucket without a credential; the dialog of a project
may be filled with the details of the project selected before, which arrive
late, and overwrite the one selected now.

The models contain more behaviour that a reader may not expect, and that no run
isolates: a cache fill that a replacement overtakes keeps revoked
roles for up to five minutes; `KEEP` through the endpoint of the CDNs loses the
credential just like at a creation (the console does not use that endpoint), and a form
that keeps such a binding is refused; a bucket that is kept while another edit
replaces its credential gets the older one back; a file whose deletion the end of
the context stopped is reported as a failure of the provider; an upload
whose client leaves stores objects without an audit record; a listing that answers
late replaces the rows of the bucket selected since; a load of the overview that was
overtaken replaces the metrics; the workbench never shows a latest time, because the
comparison starts from a text that is no time (`LatestTime`).

**Bounds.** Authorization: two users, one request, one administrator, one editor for
safety (a stale copy needs one reader and one writer; a second user exposes a
mix-up of users), two requests racing for one cache entry for liveness.
Bindings: three overlapping calls over two bucket and three CDN names, two
providers, and a list of inputs that contains every operation and an invalid
list (the rows of at most two calls can meet, a third finds them); creations
with the lists that bring their credentials and with a bucket marked `KEEP`; calls are
symmetric. Deletion: four objects in two levels, pages of two names (so there is a
full page with a directory in front of a file, and a next page), three
overlapping items for two batch workers and one file worker, three failures that
lead to different codes, one upload. Uploads: two archives that are uploaded from,
one of which breaks off, one that does not decompress, a file refused,
an entry skipped and one refused; pools with as many tasks as workers, with fewer
and with more; equal keys within and across the pools. Storage page: two calls under way (an upload that frees the buttons, and a
deletion that overtakes another, in turn); for safety two buckets, a directory that
can be typed without its slash, and a plain file to upload; with archives and for
liveness one bucket, a plain file or an archive with a success and a failure whose record
may be missing, and a policy that may refuse the file.
Other pages: two calls under way and two users, projects, providers or tabs; one
row in the form of a user's bindings;
sessions with no, one and six failures, where the summary takes three of five, and a
drawer that asks for three of the seven records of one session, with two failures among
them; one write of a project (by the page or by somebody else), which is enough for a form to
be out of date; up to two bindings of a project, with a credential and without; two windows and three loads, so that one
is overtaken twice. Only one kind of bindings is edited, as the form and the server
treat both alike. `SYMMETRY` is used for the interchangeable calls in the safety runs of
the bindings, the storage page and the pages, never with liveness.

**Fairness.** `RoleScope`: the step of a running request (`RequestStep(r)`) and
the expiry of a cache entry (`ExpireOrRefill(u)`: an entry not written again goes)
are weakly fair: goroutines are scheduled, calls to MySQL and Redis return or
fail, and Redis expires keys. Administrators and editors are not fair: none has to
start or to go on. `BatchDelete`: the step of each item
(`CallStep(i)`) and `Return` are weakly fair: provider calls return (both SDKs
have timeouts) and goroutines run. `EndContext` and `Upload` are not fair.
`UploadSession`: the step of the handler and a step of some worker are weakly
fair, for the same reasons.
`UploadPanel`: the answer of each call and the passing of its deadline are weakly
fair: the client gives up a request after its timeout, and timers of the browser
fire. Clicks are not fair: nobody has to click.
`CHECK_DEADLOCK FALSE` is set where the system stops: a call that has returned,
a deleted project, an overview that was loaded as often as its bound allows.

## 4. The proofs

All theorems are for any values of the constants under the `ASSUME`s of their
module; TLC evaluates these on every run.

`RoleScope_proofs`: `TypeCorrect`; `ReferencesCorrect` (role rows name existing
users and projects: the invariant is inductive together with the types, since
inserts check both and deletions take the rows along); `DirectoryRefined`
(every step of `RoleScope` is a step of `RoleDirectory` or leaves it unchanged).
The last needs, beyond the types, that a call that is past its transaction asks
for nothing any more and that requests without a copy hold no roles.

`ProjectBindings_proofs`: `TypeCorrect`, `BucketsCorrect`, `CredentialsCorrect`,
`ReplacedWhole`, `ProjectReferenced`, `CDNsTogether`. The rows alone are not inductive: the
strengthening says that only one call is between `SaveProject` and its end (the
lock, `LockHeld`), that what it listed is all that is stored (`ListComplete`), and
that the rows a call has preloaded or resolved are well formed, those resolved with a
credential of their provider, those preloaded with one or marked `KEEP` by the creation
(`CopiesProper`). With it,
replacing "what was listed" is replacing everything.
`CDNsTogether` (`CDNsOfOneEditTogether`) cannot use that, as `UpdateCDNs` lists without
the lock. Its invariant `CdnInv` says instead that a listing has all CDN rows of
an edit or none of them (`ListedWhole`: they came in one step, before the listing or
after it), that an edit that is not done has written none (`NotYetWritten`), and that
the rows of one edit have a primary among them (`GroupsValid`): deleting what was
listed takes whole groups.

`BatchDelete_proofs`: `TypeCorrect`, `TargetsCorrect` (`OnlyTargetsDeleted`),
`SuccessCorrect` (`SuccessMeansGone`) and `AnswersOnce`, the safety part of the
refinement of `ItemResults`. The invariant `DeleteInv` is stated per item, so that a
step of one item leaves that of another alone (`StepFrame`, `Undisturbed`).
`Inside` keeps the walk below the target, which gives `TargetsCorrect`.
`NothingSkipped` says that an object that was there from the start is found, or
lies below a level still to list, or behind the marker of the level being
listed; it needs `InOrder`: no level is entered twice, and a level found on a
page has not been visited. The page lemmas say that a page that is not full
misses nothing and that what a full page misses comes after its last entry;
minimum and maximum of a finite set come from the well-foundedness of finite
subsets. `AnswersOnce` needs that an item has its result exactly when its step is
`answered`.

`UploadSession_proofs`: `TypeCorrect`, `SuccessCorrect` (`SuccessMeansStored`),
`CountersCorrect` (`SessionAdds`) and `AnswersOnce`, the safety part of the
refinement of `ItemResults`, for any form, any keys and any number of workers.
The invariant `UploadInv` says where the handler is (`Position`), what waits
(`Waiting`), and that what was sent is with one worker, or has one outcome, or one
reply (`Pool`). The number of replies, outcomes and running tasks together is what was
sent (`PoolCount`): so when no worker is left there is a reply for every task, and
the handler finds the one it looks for. `Stored` follows a good outcome from the
bucket to the results. `Counted` adds the accepted entries that are not reported
yet to the counters. `AnswersOnce` needs which items are open (`Open`: not seen yet,
or on a list): a step answers nothing, or one item that was open
(`OneAnswer`), and what is not open has one verdict (`Judged`).

`UploadPanel_proofs`: `StorageTypes`, `LatestDeletion` (`LatestDeleteShown`) and
`StorageNeverStuck` (`NeverStuckBusy`), for any projects, buckets, files, paths and
number of calls under way. The invariant says of each call at which stage its kind
of handler may be, and that the two flags and the controller are those of a call
that is still there. A step replaces one call, or starts or ends one, and so keeps
the call an indicator waits for unless it turns the indicator off. `NeverStuckBusy`
leans on `LatestDeleteShown`: a deletion that was overtaken does not own `deleting`.

`UsersConsole_proofs`: `UsersTypes`, `NoCrossUserSaves` and `UsersNotStuck`. That a
save is of the user of its dialog is not inductive: the form may hold the bindings of
another user for a moment. `UsersInv` adds that the buttons allow one submission at a time
(`OneSubmission`), and that form and target are those of the user of the dialog unless a
save waits for the snapshot it has taken the target over for (`FormOfItsUser`,
`SaveWaits`), during which nothing can be sent.

`ProjectsConsole_proofs`: `ProjectsTypes`, `CurrentFormsAccepted` and `ProjectsNotStuck`,
for any kinds of bindings, providers, number of writes and bindings written by others, with
credentials or without. What
the page shows may be out of date; `ProjectsInv` says that numbers are given once
(`NumbersGiven`), per kind, as the endpoint of the CDNs writes one of them, so that details
and forms that carry the number of what is stored
have its rows (`DetailsAsStored`, `FormAsStored`, `WritingKeepsRead`). The rest is a statement
about one edited list: what passes the checks of the page has a row of the same
number and provider, or a credential, for each binding, so that what is left of the
server's reasons is a stored row without a credential (`CurrentRefusals`).

`ConsolePages_proofs`: an invariant for each of the other pages, and
`PagesInv`, which says that the mounted page has its invariant and the others hold nothing.
A step of the console is a step of the page that is mounted (`OnePageSteps`), so that
the lemmas of the pages give `PagesStepInv`, and from it all properties of the run
`pages_safety`: `PagesTypes`, `PagesNotStuck`, `PagesNoCrossUserSaves`,
`PagesCurrentFormsAccepted` (from the two modules above), `OperationsApart`,
`QueriesTakeTurns`, `SelectedWindowShown`, `LateLoadsChangeNothing`, `OwnReasons`,
`PagesOfTheirSession`.

* Session (`SessionInv`): each tab is at a path and with a session there is, and a page
  has the token of the tab's session; `SettledPath` is the lemma about the guards: they
  lead to a page only with a session whose menu has it.
* CDN page (`CDNInv`): the input kept for an operation is one its own controls can
  make (`InputsOfTheirOperation`), with the form showing that of the operation selected.
* Audits page (`AuditsInv`): as long as no query is under way the page knows
  (`QuerySpinner`: not loading means no query), which keeps the next one from
  overlapping; the effects only add calls for options (`OptionCallsFit`).
* Overview (`OverviewInv`): the latest load, while it is under way, has the window that is
  selected, and there is no error (`LatestLoad`); the page loads exactly as long as it is
  under way, so that a load that ends while the page does not load is one that was
  overtaken and sets neither workbench nor error (`LateLoadsChangeNothing`; what no number
guards, the metrics and the access to writing, is not part of it). That the lists are within their limits needs that the logs of the projects are finitely many
  (`FiniteLogs`).
* Records (`RecordsInv`): a call for details is of a session, one for an object's records of
  an object. `OwnReasons` rests on `SameReasons`, which is about the operators
  alone: `Picked` takes the elements at the places that pass, by rank (`PlaceOfRank`: every
  rank up to their number is taken, since ranks are injective). So failures pass the
  filter of what did not succeed, the failures among the first records are the first of
  all failures (`FailuresOfFirst`), the reasons of the first are the first of the reasons
  (`SummaryOfFirst`), and five failures are enough for the three reasons of all
  (`LatestSummary`).

**Assumptions.** Beyond types and finite sets, the theorems assume of the constants: the
values for "nothing" and "no call" (`None`, `Idle`) are no project, user, binding or call
(`ProjectsAssumption`, `UsersAssumption`, `NoneAssumption`, `IdleAssumption`,
`UserCallsAssumption`, `ProjectCallsAssumption`, `CdnCallsAssumption`,
`RecordCallsAssumption`, `OverviewCallsAssumption`); there is a provider
(`ProvidersAssumption`); what can be typed is a path (`TypedAssumption`); records of a session and logs
of a project are finite lists, and one of the windows is that of the last day, which the page
starts with (`SessionsAssumption`, `OverviewAssumption`); the failures counted and the limit of
the drawer are natural numbers, 200 in the code (`SessionsAssumption`, `DetailAssumption`);
what is submitted and what others write are lists of bindings, whatever their
operations and credentials (`InputsAssumption`, `OtherBindingsAssumption`), and the request that
creates a project is none of its edits (`OriginAssumption`); a link names what the address
can (`LinksAssumption`). All of them hold of every deployment of the code.

Only model-checked: liveness (`StaleRolesExpire`, `EveryCallEnds`, the fairness part of
`AnswersEveryItem` and of `AnswersEveryPart`), which is beyond the prover; and the four
runs that refute something. `SelectSeq`, `SetToSortSeq` and folds have no meaning for the
provers: where a theorem depends on one, the model has an operator of its own (`Picked`,
`Latest`), elsewhere (`LogsSince`, `LatestTime`, `FirstText`) the theorems hold whatever it returns.

## 5. Not modelled, and the plan

Not modelled because there is nothing to check beyond a library, a look-up or a
layout: cryptography (bcrypt, JWT, AES-GCM), SDKs of the providers, detection of
providers by host, configuration loading and clamps, CORS, request ids, formatting of
overview and audit queries; in the console texts, themes, charts,
downloads, and the language and collapsed menu of the shell.

Not modelled although it has behaviour:

* Renames of directories in a bucket (copy and deletion while the directory is listed):
  the page's side is `SubmitRename` and `RenameAnswer`.
* Accounts (status, platform role, password) and the bootstrap of the first one:
  `RestoreUser` of `RoleScope` is the save of a whole user as far as roles go.
* CDN tasks in the backend: one call of a provider for one binding, and a cached
  status nothing reads back.
* The audit trail as a component: its records are in `UploadSession` (where they may be
  lost) and in the pages that show them.
* Leaving the storage page while it works (the handlers go on and set the state of a
  page that is gone), several projects in one instance of the storage page together
  with deletions (the operators are stated for any number), directories inside
  directories in its instances.

Planned: an abstract specification that the numbered loads of the overview and the
snapshots of the users' page share, with both shown to implement it.
