--------------------------- MODULE ProjectBindings ---------------------------
(***************************************************************************)
(* The bucket and CDN bindings of one project: Create (POST /projects),    *)
(* overlapping edits, Update (PUT /projects/:id) and UpdateCDNs            *)
(* (PUT /projects/:id/cdns), and Delete of service/projects.               *)
(*                                                                         *)
(* An edit reads the project, resolves the submitted bindings against what *)
(* it read, and replaces the rows in a transaction: list, delete what was  *)
(* listed, insert.  Update writes the project row first and holds its lock *)
(* to the end; an insert of UpdateCDNs waits for that lock, its list does  *)
(* not.  InnoDB (REPEATABLE READ) keeps the row locks of a transaction to  *)
(* its end, so the deletes, inserts and the commit are one step here, and  *)
(* what was listed before is a snapshot.                                   *)
(***************************************************************************)
CONSTANTS
  Calls,          \* edits, each one HTTP request
  BucketNames, CDNNames,
  Providers,
  BucketInputs,   \* the bucket lists that requests submit
  CDNInputs,      \* the CDN lists that requests submit
  BucketCreations, CDNCreations,   \* the lists a project may be created with
  Origin,         \* the request that created the project
  None            \* no lock holder, a binding submitted without an id

Writers == Calls \cup {Origin}

\* A credential is known by the request that supplied it and the provider it
\* was supplied for.  KEEP through Create or UpdateCDNs stores an empty
\* column; an empty text is encrypted like any other.
NoCiphertext == "no_ciphertext"
EmptyText == "empty_text"
Secrets == Writers \X Providers
Ciphertexts == Secrets \cup {NoCiphertext, EmptyText}

Operations == {"KEEP", "REPLACE", ""}

\* Rows: an id is the request that wrote the row and the row's name.
Rows(names) == [by : Writers, name : names, provider : Providers, primary : BOOLEAN,
                ciphertext : Ciphertexts]
BucketRows == Rows(BucketNames)
CDNRows == Rows(CDNNames)

\* Submitted bindings: "from" is the name of the row whose id is submitted (an
\* id that is no longer there counts as none), "secret" whether the request
\* carries a credential.
Inputs(names) == [from : names \cup {None}, name : names, provider : Providers,
                  primary : BOOLEAN, op : Operations, secret : BOOLEAN]

ASSUME InputsAssumption ==
  /\ BucketInputs \subseteq SUBSET Inputs(BucketNames)
  /\ CDNInputs \subseteq SUBSET Inputs(CDNNames)
  /\ BucketCreations \subseteq SUBSET Inputs(BucketNames)
  /\ CDNCreations \subseteq SUBSET Inputs(CDNNames)
ASSUME OriginAssumption == Origin \notin Calls
ASSUME NoneAssumption == None \notin Calls \cup BucketNames \cup CDNNames

-----------------------------------------------------------------------------
(* Validation and resolution of submitted bindings.                        *)

\* validateBucketBindings and validateCDNBindings agree on this much: at most
\* two, different names, and one primary if there is any.
Valid(bindings) ==
  /\ \A a, b, c \in bindings : a = b \/ b = c \/ a = c
  /\ \A a, b \in bindings : a.name = b.name => a = b
  /\ bindings # {} => \E a \in bindings : \A b \in bindings : b.primary <=> b = a

Existing(b, snapshot) == {row \in snapshot : row.name = b.from}

\* prepareUpdateBindings: without an operation, a binding with an id is kept.
Operation(b, snapshot) ==
  IF b.op = "" /\ Existing(b, snapshot) # {} THEN "KEEP" ELSE b.op

\* Mutant of Acceptable: a binding may be kept under another provider.
AcceptableForAnyProvider(b, snapshot) ==
  \/ Operation(b, snapshot) = "REPLACE" /\ b.secret
  \/ /\ Operation(b, snapshot) = "KEEP"
     /\ \E row \in Existing(b, snapshot) : row.ciphertext # NoCiphertext

Acceptable(b, snapshot) ==
  \/ Operation(b, snapshot) = "REPLACE" /\ b.secret
  \/ /\ Operation(b, snapshot) = "KEEP"
     /\ \E row \in Existing(b, snapshot) :
          row.provider = b.provider /\ row.ciphertext # NoCiphertext

\* The rows that Update writes for a binding; KEEP copies what it has read.
ResolvedRows(e, b, snapshot) ==
  {[by |-> e, name |-> b.name, provider |-> b.provider, primary |-> b.primary,
    ciphertext |-> c] :
     c \in IF Operation(b, snapshot) = "KEEP"
           THEN {row.ciphertext : row \in Existing(b, snapshot)}
           ELSE {<<e, b.provider>>}}

Resolved(e, bindings, snapshot) == UNION {ResolvedRows(e, b, snapshot) : b \in bindings}

\* Mutant of UnresolvedRow: the row is written under the name it had.
UnresolvedRowUnderOldName(e, b) ==
  [by |-> e, name |-> b.from, provider |-> b.provider, primary |-> b.primary,
   ciphertext |-> IF b.op = "KEEP" THEN NoCiphertext
                  ELSE IF b.secret THEN <<e, b.provider>> ELSE EmptyText]

\* Create and UpdateCDNs resolve nothing: KEEP stores the ciphertext of the
\* request, which clients do not have, whatever credential comes with it;
\* everything else encrypts the credential given.
UnresolvedRow(e, b) ==
  [by |-> e, name |-> b.name, provider |-> b.provider, primary |-> b.primary,
   ciphertext |-> IF b.op = "KEEP" THEN NoCiphertext
                  ELSE IF b.secret THEN <<e, b.provider>> ELSE EmptyText]

-----------------------------------------------------------------------------
VARIABLES
  exists,                \* the project's row is there
  bucketRows, cdnRows,   \* the committed rows
  lock,                  \* the transaction that has written the project's row
  pc,                    \* per call and for the creation: where it is
  snap,                  \* per call: the bucket rows it was loaded with
  loaded,                \* per call: some binding was preloaded with the project
  plan,                  \* per call: the rows it is going to write
  listed                 \* per call: the rows its transaction has listed

vars == <<exists, bucketRows, cdnRows, lock, pc, snap, loaded, plan, listed>>
tableVars == <<exists, bucketRows, cdnRows>>

NoRows == [buckets |-> {}, cdns |-> {}]

InTransaction == {"locked", "listed"}
Running == {"load", "begin", "cdns_begin", "cdns_listed"} \cup InTransaction

TypeOK ==
  /\ exists \in BOOLEAN
  /\ bucketRows \subseteq BucketRows
  /\ cdnRows \subseteq CDNRows
  /\ lock \in Calls \cup {None}
  /\ pc \in [Writers -> Running \cup {"ready", "done", "failed"}]
  /\ snap \in [Calls -> SUBSET BucketRows]
  /\ loaded \in [Calls -> BOOLEAN]
  /\ plan \in [Calls -> [buckets : SUBSET BucketRows, cdns : SUBSET CDNRows]]
  /\ listed \in [Calls -> [buckets : SUBSET BucketRows, cdns : SUBSET CDNRows]]

Init ==
  /\ exists = FALSE
  /\ bucketRows = {} /\ cdnRows = {}
  /\ lock = None
  /\ pc = [e \in Writers |-> "ready"]
  /\ snap = [e \in Calls |-> {}]
  /\ loaded = [e \in Calls |-> FALSE]
  /\ plan = [e \in Calls |-> NoRows]
  /\ listed = [e \in Calls |-> NoRows]

Goto(e, step) == pc' = [pc EXCEPT ![e] = step]

-----------------------------------------------------------------------------
(* Create, in one transaction that nobody can meet.                        *)

Created(bindings) == {UnresolvedRow(Origin, b) : b \in bindings}

\* The handler asks every bucket for a credential.
Create(bs, cs) ==
  /\ pc[Origin] = "ready"
  /\ Valid(bs) /\ Valid(cs)
  /\ \A b \in bs : b.secret
  /\ exists' = TRUE
  /\ bucketRows' = Created(bs)
  /\ cdnRows' = Created(cs)
  /\ Goto(Origin, "done")
  /\ UNCHANGED <<lock, snap, loaded, plan, listed>>

-----------------------------------------------------------------------------
(* Update.                                                                 *)

\* GetByID reads the project, then its buckets, then its CDNs.
LoadBuckets(e) ==
  /\ pc[e] = "ready" /\ exists
  /\ snap' = [snap EXCEPT ![e] = bucketRows]
  /\ Goto(e, "load")
  /\ UNCHANGED <<tableVars, lock, loaded, plan, listed>>

ResolveBindings(e, bs, cs) ==
  /\ pc[e] = "load"
  /\ Valid(bs) /\ Valid(cs)
  /\ \A b \in bs : Acceptable(b, snap[e])
  /\ \A c \in cs : Acceptable(c, cdnRows)
  /\ plan' = [plan EXCEPT ![e] = [buckets |-> Resolved(e, bs, snap[e]),
                                  cdns |-> Resolved(e, cs, cdnRows)]]
  /\ loaded' = [loaded EXCEPT ![e] = snap[e] # {} \/ cdnRows # {}]
  /\ snap' = [snap EXCEPT ![e] = {}]
  /\ Goto(e, "begin")
  /\ UNCHANGED <<tableVars, lock, listed>>

\* Mutant of SaveProject: the transaction replaces the bindings without having
\* written the project's row.
SaveProjectUnlocked(e) ==
  /\ pc[e] = "begin"
  /\ exists
  /\ Goto(e, "locked")
  /\ UNCHANGED <<tableVars, lock, snap, loaded, plan, listed>>

\* Save writes the project's row and with it the preloaded bindings: those
\* that have gone come back, for the transaction to list and delete.  A
\* project that has gone comes back if nothing was preloaded; otherwise the
\* foreign keys refuse the bindings.
SaveProject(e) ==
  /\ pc[e] = "begin" /\ lock = None
  /\ exists \/ ~loaded[e]
  /\ lock' = e
  /\ Goto(e, "locked")
  /\ UNCHANGED <<tableVars, snap, loaded, plan, listed>>

\* Mutant of ListBindings: only the rows that are written again are deleted.
ListResubmittedBindings(e) ==
  LET Resubmitted(rows, new) == {row \in rows : \E n \in new : n.name = row.name}
  IN /\ pc[e] = "locked"
     /\ listed' = [listed EXCEPT ![e] =
          [buckets |-> Resubmitted(bucketRows, plan[e].buckets),
           cdns |-> Resubmitted(cdnRows, plan[e].cdns)]]
     /\ Goto(e, "listed")
     /\ UNCHANGED <<tableVars, lock, snap, loaded, plan>>

ListBindings(e) ==
  /\ pc[e] = "locked"
  /\ listed' = [listed EXCEPT ![e] = [buckets |-> bucketRows, cdns |-> cdnRows]]
  /\ Goto(e, "listed")
  /\ UNCHANGED <<tableVars, lock, snap, loaded, plan>>

\* The unique indexes: a bucket by provider and name, a CDN by its endpoint.
NoDuplicateBuckets(rest, new) ==
  \A a \in rest, b \in new : <<a.provider, a.name>> # <<b.provider, b.name>>
NoDuplicateCDNs(rest, new) == \A a \in rest, b \in new : a.name # b.name

Finish(e, step) ==
  /\ Goto(e, step)
  /\ lock' = IF lock = e THEN None ELSE lock
  /\ snap' = [snap EXCEPT ![e] = {}]
  /\ plan' = [plan EXCEPT ![e] = NoRows]
  /\ listed' = [listed EXCEPT ![e] = NoRows]
  /\ loaded' = [loaded EXCEPT ![e] = FALSE]

ReplaceBindings(e) ==
  LET otherBuckets == bucketRows \ listed[e].buckets
      otherCDNs == cdnRows \ listed[e].cdns
  IN /\ pc[e] = "listed"
     /\ NoDuplicateBuckets(otherBuckets, plan[e].buckets)
     /\ NoDuplicateCDNs(otherCDNs, plan[e].cdns)
     /\ bucketRows' = otherBuckets \cup plan[e].buckets
     /\ cdnRows' = otherCDNs \cup plan[e].cdns
     /\ exists' = TRUE
     /\ Finish(e, "done")

-----------------------------------------------------------------------------
(* UpdateCDNs.                                                             *)

SubmitCDNs(e, cs) ==
  /\ pc[e] = "ready" /\ exists
  /\ Valid(cs)
  /\ plan' = [plan EXCEPT ![e].cdns = {UnresolvedRow(e, c) : c \in cs}]
  /\ Goto(e, "cdns_begin")
  /\ UNCHANGED <<tableVars, lock, snap, loaded, listed>>

ListCDNs(e) ==
  /\ pc[e] = "cdns_begin"
  /\ listed' = [listed EXCEPT ![e].cdns = cdnRows]
  /\ Goto(e, "cdns_listed")
  /\ UNCHANGED <<tableVars, lock, snap, loaded, plan>>

\* Mutants of ReplaceCDNs: a table without its foreign key; inserts that are
\* not rolled back when a later one fails.
ReplaceCDNsUnchecked(e) ==
  LET otherCDNs == cdnRows \ listed[e].cdns
  IN /\ pc[e] = "cdns_listed"
     /\ NoDuplicateCDNs(otherCDNs, plan[e].cdns)
     /\ cdnRows' = otherCDNs \cup plan[e].cdns
     /\ Finish(e, "done")
     /\ UNCHANGED <<exists, bucketRows>>

ReplaceCDNsInPart(e) ==
  LET otherCDNs == cdnRows \ listed[e].cdns
  IN /\ pc[e] = "cdns_listed"
     /\ plan[e].cdns # {} => exists /\ lock = None
     /\ NoDuplicateCDNs(otherCDNs, plan[e].cdns)
     /\ \E inserted \in SUBSET plan[e].cdns : cdnRows' = otherCDNs \cup inserted
     /\ Finish(e, "done")
     /\ UNCHANGED <<exists, bucketRows>>

\* An insert checks its foreign key against the project's row: it waits for
\* the transaction that has written the row, and fails without it.
ReplaceCDNs(e) ==
  LET otherCDNs == cdnRows \ listed[e].cdns
  IN /\ pc[e] = "cdns_listed"
     /\ plan[e].cdns # {} => exists /\ lock = None
     /\ NoDuplicateCDNs(otherCDNs, plan[e].cdns)
     /\ cdnRows' = otherCDNs \cup plan[e].cdns
     /\ Finish(e, "done")
     /\ UNCHANGED <<exists, bucketRows>>

-----------------------------------------------------------------------------
\* Invalid input, a constraint, a deadlock, a cancelled request: the call
\* ends with an error and its transaction is rolled back.
Fail(e) ==
  /\ pc[e] \in Running
  /\ Finish(e, "failed")
  /\ UNCHANGED tableVars

\* The foreign keys of both tables cascade.
DeleteProject ==
  /\ exists /\ lock = None
  /\ exists' = FALSE
  /\ bucketRows' = {}
  /\ cdnRows' = {}
  /\ UNCHANGED <<lock, pc, snap, loaded, plan, listed>>

UpdateStep(e) ==
  \/ LoadBuckets(e)
  \/ \E bs \in BucketInputs, cs \in CDNInputs : ResolveBindings(e, bs, cs)
  \/ SaveProject(e) \/ ListBindings(e) \/ ReplaceBindings(e)

UpdateCDNsStep(e) ==
  \/ \E cs \in CDNInputs : SubmitCDNs(e, cs)
  \/ ListCDNs(e) \/ ReplaceCDNs(e)

Next ==
  \/ \E bs \in BucketCreations, cs \in CDNCreations : Create(bs, cs)
  \/ \E e \in Calls : UpdateStep(e) \/ UpdateCDNsStep(e) \/ Fail(e)
  \/ DeleteProject

Spec == Init /\ [][Next]_vars

-----------------------------------------------------------------------------
(* Properties.                                                             *)

\* A project has at most two buckets, of different names, exactly one of them
\* primary if there is any, however its edits overlap.
BucketsWellFormed == Valid(bucketRows)

\* The buckets change only as a whole: to those of the creation, to the list of
\* one edit, or to nothing with the project.  No edit leaves rows of another
\* behind.
BucketsReplacedWhole ==
  [][\/ bucketRows' \in {bucketRows, {}}
     \/ pc[Origin] = "ready" /\ \E bs \in BucketCreations : bucketRows' = Created(bs)
     \/ \E e \in Calls : pc[e] = "listed" /\ bucketRows' = plan[e].buckets]_vars

\* A bucket has a credential, and one that was supplied for its own provider,
\* through any chain of kept, renamed and replaced bindings.  The one exception
\* is a bucket that the project was created with and that was marked KEEP: it
\* has none, and no edit stores such a bucket again or carries it on.
BucketCredentials ==
  \A row \in bucketRows :
    \/ row.ciphertext \in Secrets /\ row.ciphertext[2] = row.provider
    \/ row.by = Origin /\ row.ciphertext = NoCiphertext

\* No binding is stored without a credential: a new one must be REPLACE, and
\* KEEP reuses what is stored (design.md, credentials in edits of a project).
BindingsHaveCredentials ==
  \A row \in bucketRows \cup cdnRows : row.ciphertext \in Secrets

\* No binding outlives its project: neither an edit that was loaded before the
\* deletion nor one that waits for it leaves rows without a project.
RowsReferenceProject == exists \/ (bucketRows = {} /\ cdnRows = {})

\* Although the CDNs of two edits may mix, those that one edit wrote are there
\* together or not at all; a project with CDNs has a primary one.
CDNsOfOneEditTogether ==
  /\ \A w \in Writers : Valid({row \in cdnRows : row.by = w})
  /\ cdnRows # {} => \E row \in cdnRows : row.primary

\* A project has at most two CDNs and exactly one primary among them
\* (design.md, binding rules of a project).
CDNsWellFormed == Valid(cdnRows)
=============================================================================
