---------------------------- MODULE UploadSession ----------------------------
(***************************************************************************)
(* One upload request (UploadObject of handler/storage).                   *)
(*                                                                         *)
(* The handler goes through the parts of the form.  An archive is unpacked *)
(* entry by entry, and what it accepts is uploaded by a pool of workers    *)
(* before the next part is looked at; accepted files are put off and       *)
(* uploaded by a second pool after all parts.  In both pools the handler   *)
(* hands every task to an idle worker over an unbuffered channel, the      *)
(* workers reply over a channel with room for all tasks, and the handler   *)
(* reads the replies when all workers are done: archive entries in the     *)
(* order of the replies, files in the order of the form.                   *)
(***************************************************************************)
EXTENDS Naturals, Sequences, FiniteSets

CONSTANTS
  Form,            \* the parts of the form, in their order
  Keys,            \* object keys
  MaxSize,         \* the limit of an upload; 0 is none
  ArchiveWorkers, FileWorkers,
  RecorderFails,   \* the audit table may refuse a record
  None

\* A file as submitted: whether it opens, where it goes (None: no key and no
\* file name), and its size.
Files == [archive : {FALSE}, opens : BOOLEAN, key : Keys \cup {None}, size : Nat]
\* An entry as packed: a regular file or not, a safe path or not, readable or not.
Entries == [regular : BOOLEAN, safe : BOOLEAN, readable : BOOLEAN, key : Keys, size : Nat]
\* An archive, by its name or its first bytes: whether it decompresses, its
\* entries, and whether they break off.
Archives == [archive : {TRUE}, opens : BOOLEAN, readable : BOOLEAN,
             entries : Seq(Entries), truncated : BOOLEAN]

ASSUME FormAssumption == Form \in Seq(Files \cup Archives)
ASSUME BoundsAssumption ==
  /\ MaxSize \in Nat
  /\ {ArchiveWorkers, FileWorkers} \subseteq Nat \ {0}
  /\ RecorderFails \in BOOLEAN
\* isUploadSizeExceeded
Exceeds(size) == MaxSize > 0 /\ size > MaxSize

\* A file or an archive is <<p, 0>>, the entries of an archive are <<p, 1>>, ...
Parts == 1..Len(Form)
Entry(p, e) == Form[p].entries[e]
Items == {<<p, 0>> : p \in Parts}
           \cup UNION {{<<p, e>> : e \in 1..Len(Form[p].entries)} :
                         p \in {q \in Parts : Form[q].archive}}
KeyOf(i) == IF i[2] = 0 THEN Form[i[1]].key ELSE Entry(i[1], i[2]).key

ASSUME NoneAssumption == None \notin Keys \cup Items

-----------------------------------------------------------------------------
VARIABLES
  stage,       \* what the handler does
  part,        \* the part it is at
  entry,       \* the entry of that part it is at
  deferred,    \* files to upload after all parts
  tasks,       \* the uploads of the running pool
  sent,        \* how many of them are with a worker or done
  working,     \* tasks handed to a worker
  resolved,    \* tasks whose worker has the bucket and its credential
  uploaded,    \* outcomes their worker has not replied yet
  replies,     \* the channel of replies
  collected,   \* how many of them the handler has read
  store,       \* store[k]: the item under key k, or None: whatever was there before
  results,     \* the result list
  session,     \* the counters of the archive session
  context,     \* "ended" once the client has left
  unrecorded   \* some result has no audit record

poolVars == <<tasks, sent, working, resolved, uploaded, replies, collected, store>>
vars == <<stage, part, entry, deferred, poolVars, results, session, context, unrecorded>>

Stages == {"reading", "unpacking", "uploading", "responded"}
Outcomes == [task : Nat \ {0}, ok : BOOLEAN]

TypeOK ==
  /\ stage \in Stages
  /\ part \in 1..Len(Form) + 1 /\ entry \in Nat
  /\ deferred \in Seq(Items) /\ tasks \in Seq(Items)
  /\ sent \in 0..Len(tasks) /\ collected \in 0..Len(tasks)
  /\ working \subseteq 1..sent /\ resolved \subseteq 1..sent
  /\ uploaded \subseteq Outcomes
  /\ replies \in Seq(Outcomes)
  /\ store \in [Keys -> Items \cup {None}]
  /\ results \in Seq([item : Items, key : Keys \cup {None}, ok : BOOLEAN])
  /\ session \in [processed : Nat, extracted : Nat, uploaded : Nat, failed : Nat, skipped : Nat]
  /\ context \in {"live", "ended"}
  /\ unrecorded \in BOOLEAN

Init ==
  /\ stage = "reading" /\ part = 1 /\ entry = 0
  /\ deferred = <<>> /\ tasks = <<>>
  /\ sent = 0 /\ working = {} /\ resolved = {} /\ uploaded = {}
  /\ replies = <<>> /\ collected = 0
  /\ store = [k \in Keys |-> None]
  /\ results = <<>>
  /\ session = [processed |-> 0, extracted |-> 0, uploaded |-> 0, failed |-> 0, skipped |-> 0]
  /\ context = "live"
  /\ unrecorded = FALSE

-----------------------------------------------------------------------------
(* Results.                                                                *)

\* A record is written under the context of the request, and its failure is
\* not looked at.
Record ==
  \/ context = "live" /\ UNCHANGED unrecorded
  \/ (context = "ended" \/ RecorderFails) /\ unrecorded' = TRUE

\* What is refused before an upload is reported without its key here.
Report(i, key, ok) ==
  /\ results' = Append(results, [item |-> i, key |-> key, ok |-> ok])
  /\ Record

-----------------------------------------------------------------------------
(* The parts of the form.                                                  *)

Reading == stage = "reading" /\ part <= Len(Form)
File == Reading /\ ~Form[part].archive
Archive == Reading /\ Form[part].archive

Refused(file) == ~file.opens \/ file.key = None \/ Exceeds(file.size)

RefuseFile ==
  /\ File /\ Refused(Form[part])
  /\ Report(<<part, 0>>, None, FALSE)
  /\ part' = part + 1
  /\ UNCHANGED <<stage, entry, deferred, poolVars, session, context>>

DeferFile ==
  /\ File /\ ~Refused(Form[part])
  /\ deferred' = Append(deferred, <<part, 0>>)
  /\ part' = part + 1
  /\ UNCHANGED <<stage, entry, poolVars, results, session, context, unrecorded>>

RefuseArchive ==
  /\ Archive /\ ~(Form[part].opens /\ Form[part].readable)
  /\ Report(<<part, 0>>, None, FALSE)
  /\ session' = [session EXCEPT !.processed = @ + 1, !.failed = @ + 1]
  /\ part' = part + 1
  /\ UNCHANGED <<stage, entry, deferred, poolVars, context>>

OpenArchive ==
  /\ Archive /\ Form[part].opens /\ Form[part].readable
  /\ session' = [session EXCEPT !.processed = @ + 1]
  /\ stage' = "unpacking" /\ entry' = 1
  /\ UNCHANGED <<part, deferred, poolVars, results, context, unrecorded>>

-----------------------------------------------------------------------------
(* The entries of an archive.                                              *)

Unpacking == stage = "unpacking" /\ entry <= Len(Form[part].entries)
Accepted(e) == e.safe /\ ~Exceeds(e.size) /\ e.readable

\* Directories, links and devices.
SkipEntry ==
  /\ Unpacking /\ ~Entry(part, entry).regular
  /\ session' = [session EXCEPT !.skipped = @ + 1]
  /\ entry' = entry + 1
  /\ UNCHANGED <<stage, part, deferred, poolVars, results, context, unrecorded>>

\* Mutant of RefuseEntry: an entry that is too large is reported, not counted.
RefuseEntryUncounted ==
  /\ Unpacking /\ Entry(part, entry).regular /\ ~Accepted(Entry(part, entry))
  /\ Report(<<part, entry>>, None, FALSE)
  /\ session' = [session EXCEPT !.extracted = @ + 1,
       !.failed = IF Exceeds(Entry(part, entry).size) THEN @ ELSE @ + 1]
  /\ entry' = entry + 1
  /\ UNCHANGED <<stage, part, deferred, poolVars, context>>

RefuseEntry ==
  /\ Unpacking /\ Entry(part, entry).regular /\ ~Accepted(Entry(part, entry))
  /\ Report(<<part, entry>>, None, FALSE)
  /\ session' = [session EXCEPT !.extracted = @ + 1, !.failed = @ + 1]
  /\ entry' = entry + 1
  /\ UNCHANGED <<stage, part, deferred, poolVars, context>>

AcceptEntry ==
  /\ Unpacking /\ Entry(part, entry).regular /\ Accepted(Entry(part, entry))
  /\ tasks' = Append(tasks, <<part, entry>>)
  /\ session' = [session EXCEPT !.extracted = @ + 1]
  /\ entry' = entry + 1
  /\ UNCHANGED <<stage, part, deferred, sent, working, resolved, uploaded, replies, collected,
                 store, results, context, unrecorded>>

\* An archive that breaks off is one more failure; what was accepted before
\* is uploaded all the same.
EndArchive ==
  /\ stage = "unpacking" /\ entry > Len(Form[part].entries)
  /\ IF Form[part].truncated
     THEN /\ Report(<<part, 0>>, None, FALSE)
          /\ session' = [session EXCEPT !.failed = @ + 1]
     ELSE UNCHANGED <<results, session, unrecorded>>
  /\ stage' = "uploading" /\ entry' = 0
  /\ UNCHANGED <<part, deferred, poolVars, context>>

-----------------------------------------------------------------------------
(* The pools.                                                              *)

OfFiles == part > Len(Form)

StartFiles ==
  /\ stage = "reading" /\ OfFiles /\ deferred # <<>>
  /\ stage' = "uploading"
  /\ tasks' = deferred /\ deferred' = <<>>
  /\ UNCHANGED <<part, entry, sent, working, resolved, uploaded, replies, collected, store,
                 results, session, context, unrecorded>>

Workers == IF OfFiles THEN FileWorkers ELSE ArchiveWorkers
\* Mutant of ReplyRoom: a reply for each worker.
ReplyRoomOfWorkers == Workers
ReplyRoom == Len(tasks)

Dispatch ==
  /\ stage = "uploading" /\ sent < Len(tasks)
  /\ Cardinality(working \cup resolved) + Cardinality(uploaded) < Workers
  /\ sent' = sent + 1
  /\ working' = working \cup {sent + 1}
  /\ UNCHANGED <<stage, part, entry, deferred, tasks, resolved, uploaded, replies, collected,
                 store, results, session, context, unrecorded>>

\* resolveBucketProviderAndCredential: the project is read again for every
\* upload.  It or its bucket may be gone, and nothing is read once the client
\* left.  A file is opened again before, which may fail too.
Resolve(t) ==
  /\ t \in working
  /\ working' = working \ {t}
  /\ \/ context = "live" /\ resolved' = resolved \cup {t} /\ UNCHANGED uploaded
     \/ uploaded' = uploaded \cup {[task |-> t, ok |-> FALSE]} /\ UNCHANGED resolved
  /\ UNCHANGED <<stage, part, entry, deferred, tasks, sent, replies, collected, store, results,
                 session, context, unrecorded>>

\* The provider may fail and have stored the object all the same.
Upload(t) ==
  /\ t \in resolved
  /\ resolved' = resolved \ {t}
  /\ \E ok \in BOOLEAN :
       /\ uploaded' = uploaded \cup {[task |-> t, ok |-> ok]}
       /\ \/ store' = [store EXCEPT ![KeyOf(tasks[t])] = tasks[t]]
          \/ ~ok /\ UNCHANGED store
  /\ UNCHANGED <<stage, part, entry, deferred, tasks, sent, working, replies, collected,
                 results, session, context, unrecorded>>

Reply(outcome) ==
  /\ outcome \in uploaded
  /\ Len(replies) < ReplyRoom
  /\ uploaded' = uploaded \ {outcome}
  /\ replies' = Append(replies, outcome)
  /\ UNCHANGED <<stage, part, entry, deferred, tasks, sent, working, resolved, collected, store,
                 results, session, context, unrecorded>>

\* All workers have replied and stopped.
Drained ==
  /\ stage = "uploading" /\ sent = Len(tasks)
  /\ working \cup resolved = {} /\ uploaded = {}

\* Mutant of NextReply: the n-th reply is taken for that of the n-th file.
NextReplyInAnyOrder ==
  [task |-> collected + 1, ok |-> replies[collected + 1].ok]

\* The replies of files are put in the order of the form first.
NextReply ==
  IF OfFiles
  THEN CHOOSE r \in {replies[n] : n \in 1..Len(replies)} : r.task = collected + 1
  ELSE replies[collected + 1]

Collect ==
  /\ Drained /\ collected < Len(tasks)
  /\ LET item == tasks[NextReply.task] IN
       /\ Report(item, KeyOf(item), NextReply.ok)
       /\ IF OfFiles THEN UNCHANGED session
          ELSE IF NextReply.ok THEN session' = [session EXCEPT !.uploaded = @ + 1]
          ELSE session' = [session EXCEPT !.failed = @ + 1]
  /\ collected' = collected + 1
  /\ UNCHANGED <<stage, part, entry, deferred, tasks, sent, working, resolved, uploaded,
                 replies, store, context>>

\* Mutant of EndPool: the next pool goes on counting.
EndPoolKeepsCount ==
  /\ Drained /\ collected = Len(tasks)
  /\ stage' = "reading"
  /\ part' = IF OfFiles THEN part ELSE part + 1
  /\ tasks' = <<>> /\ sent' = 0 /\ replies' = <<>>
  /\ UNCHANGED <<entry, deferred, working, resolved, uploaded, collected, store, results,
                 session, context, unrecorded>>

EndPool ==
  /\ Drained /\ collected = Len(tasks)
  /\ stage' = "reading"
  /\ part' = IF OfFiles THEN part ELSE part + 1
  /\ tasks' = <<>> /\ sent' = 0 /\ replies' = <<>> /\ collected' = 0
  /\ UNCHANGED <<entry, deferred, working, resolved, uploaded, store, results, session, context,
                 unrecorded>>

\* A session with archives leaves a record of its own.
Respond ==
  /\ stage = "reading" /\ OfFiles /\ deferred = <<>>
  /\ stage' = "responded"
  /\ IF session.processed > 0 THEN Record ELSE UNCHANGED unrecorded
  /\ UNCHANGED <<part, entry, deferred, poolVars, results, session, context>>

EndContext ==
  /\ context = "live"
  /\ context' = "ended"
  /\ UNCHANGED <<stage, part, entry, deferred, poolVars, results, session, unrecorded>>

-----------------------------------------------------------------------------
HandlerStep ==
  \/ RefuseFile \/ DeferFile \/ RefuseArchive \/ OpenArchive
  \/ SkipEntry \/ RefuseEntry \/ AcceptEntry \/ EndArchive
  \/ StartFiles \/ Dispatch \/ Collect \/ EndPool \/ Respond

WorkerStep ==
  \/ \E t \in working : Resolve(t)
  \/ \E t \in resolved : Upload(t)
  \/ \E outcome \in uploaded : Reply(outcome)

Next == HandlerStep \/ WorkerStep \/ EndContext

Spec == Init /\ [][Next]_vars

\* Calls to the provider and to the database come back.
FairSpec == Spec /\ WF_vars(HandlerStep) /\ WF_vars(WorkerStep)

-----------------------------------------------------------------------------
(* Properties.                                                             *)

OfArchives(i) == Form[i[1]].archive
Reported(Test(_)) == Cardinality({n \in 1..Len(results) : Test(results[n])})

\* The counters of a session agree with its results whenever no archive is
\* being worked on: everything extracted is answered, and counted as uploaded
\* or as failed, although it is counted in other places than it is answered.
SessionAdds ==
  stage \in {"reading", "responded"} =>
    /\ session.extracted = Reported(LAMBDA r : r.item[2] > 0)
    /\ session.uploaded = Reported(LAMBDA r : OfArchives(r.item) /\ r.ok)
    /\ session.failed = Reported(LAMBDA r : OfArchives(r.item) /\ ~r.ok)

\* An item that reports success is in the bucket: in whatever order the workers
\* finish, it is not given the outcome of another item.  Under its key lies the
\* item itself or another one of the form with the same key.
SuccessMeansStored ==
  \A n \in 1..Len(results) : results[n].ok =>
    store[results[n].key] # None /\ KeyOf(store[results[n].key]) = results[n].key

\* What is left of a file or an archive to answer: itself, or its regular entries
\* and the place where it breaks off.
Answerable ==
  {i \in Items :
     LET p == Form[i[1]] IN
       IF i[2] > 0
       THEN p.opens /\ p.readable /\ Entry(i[1], i[2]).regular
       ELSE p.archive => ~p.opens \/ ~p.readable \/ p.truncated}

Verdicts(i) == {results[n].ok : n \in {m \in 1..Len(results) : results[m].item = i}}
decided == [i \in Answerable |->
  CASE Verdicts(i) = {} -> "open" [] Verdicts(i) = {TRUE} -> "success"
    [] Verdicts(i) = {FALSE} -> "failure" [] OTHER -> "both"]
ItemList == INSTANCE ItemResults WITH Items <- Answerable, returned <- (stage = "responded")

\* Every file, every regular entry and every defect of an archive gets one
\* result, which stays, and the request is answered after the last of them:
\* the handler and its workers never wait for each other for good.
AnswersEveryPart == ItemList!ItemsSpec
=============================================================================
