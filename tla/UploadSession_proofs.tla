------------------------- MODULE UploadSession_proofs -------------------------
(***************************************************************************)
(* UploadSession for any form and any number of workers: types, that a     *)
(* reported success means that the object is stored, that the counters of  *)
(* the session agree with the results, and that every part is answered     *)
(* exactly once before the request is (the safety part of ItemResults).    *)
(***************************************************************************)
EXTENDS UploadSession, FiniteSetTheorems, TLAPS

-----------------------------------------------------------------------------
(* The inductive invariant.                                                *)

\* Where the handler is.
Position ==
  /\ stage = "unpacking" =>
       /\ part \in Parts /\ Form[part].archive /\ Form[part].opens /\ Form[part].readable
       /\ entry \in 1..Len(Form[part].entries) + 1
  /\ stage = "uploading" /\ ~OfFiles =>
       part \in Parts /\ Form[part].archive /\ Form[part].opens /\ Form[part].readable
  /\ stage = "uploading" /\ OfFiles => deferred = <<>>
  /\ stage = "responded" => OfFiles /\ deferred = <<>>

\* Files wait until all parts were looked at; a pool has either files or the
\* entries of one archive, each of them with a key.
Waiting ==
  /\ \A n \in 1..Len(deferred) :
       /\ deferred[n][2] = 0 /\ deferred[n][1] < part
       /\ ~Form[deferred[n][1]].archive
       /\ KeyOf(deferred[n]) \in Keys
  /\ stage \in {"reading", "responded"} => tasks = <<>>
  /\ \A n \in 1..Len(tasks) :
       /\ KeyOf(tasks[n]) \in Keys
       /\ OfFiles => tasks[n][2] = 0 /\ ~Form[tasks[n][1]].archive
       /\ ~OfFiles =>
            tasks[n][1] = part /\ tasks[n][2] > 0 /\ Entry(part, tasks[n][2]).regular
       /\ stage = "unpacking" => tasks[n][2] < entry

\* What was sent is with one worker, or has one outcome, or one reply.
Pool ==
  /\ stage # "uploading" =>
       /\ sent = 0 /\ working = {} /\ resolved = {} /\ uploaded = {}
       /\ replies = <<>> /\ collected = 0
  /\ collected > 0 => Drained
  /\ working \cap resolved = {}
  /\ \A o \in uploaded :
       /\ o.task \in 1..sent /\ o.task \notin working \cup resolved
       /\ \A q \in uploaded : q.task = o.task => q = o
  /\ \A n \in 1..Len(replies) :
       /\ replies[n].task \in 1..sent
       /\ replies[n].task \notin working \cup resolved
       /\ \A o \in uploaded : o.task # replies[n].task
       /\ \A m \in 1..Len(replies) : replies[m].task = replies[n].task => m = n
  /\ \A t \in 1..sent :
       \/ t \in working \cup resolved
       \/ \E o \in uploaded : o.task = t
       \/ \E n \in 1..Len(replies) : replies[n].task = t

PoolCount ==
  /\ IsFiniteSet(working) /\ IsFiniteSet(resolved) /\ IsFiniteSet(uploaded)
  /\ Len(replies) + Cardinality(uploaded) + Cardinality(working) + Cardinality(resolved) = sent

\* A good outcome is in the bucket on its way to the results.
Stored ==
  /\ \A k \in Keys : store[k] # None => KeyOf(store[k]) = k
  /\ \A o \in uploaded : o.ok => store[KeyOf(tasks[o.task])] # None
  /\ \A n \in 1..Len(replies) : replies[n].ok => store[KeyOf(tasks[replies[n].task])] # None
  /\ \A n \in 1..Len(results) :
       results[n].ok => results[n].key \in Keys /\ store[results[n].key] # None

UploadInv == TypeOK /\ Position /\ Waiting /\ Pool /\ PoolCount /\ Stored

-----------------------------------------------------------------------------
(* The form.                                                               *)

LEMMA FormType ==
  /\ Len(Form) \in Nat
  /\ \A p \in Parts :
       /\ Form[p].archive \in BOOLEAN
       /\ ~Form[p].archive => Form[p].key \in Keys \cup {None}
       /\ Form[p].archive =>
            /\ Form[p].entries \in Seq(Entries)
            /\ Len(Form[p].entries) \in Nat
            /\ \A e \in 1..Len(Form[p].entries) : Entry(p, e).key \in Keys
<1>1. Len(Form) \in Nat /\ \A p \in Parts : Form[p] \in Files \cup Archives
  BY FormAssumption DEF Parts
<1>2. \A f \in Files : ~f.archive /\ f.archive \in BOOLEAN /\ f.key \in Keys \cup {None}
  BY DEF Files
<1>3. \A a \in Archives : a.archive /\ a.archive \in BOOLEAN /\ a.entries \in Seq(Entries)
  BY DEF Archives
<1>4. \A s \in Seq(Entries) : Len(s) \in Nat /\ \A e \in 1..Len(s) : s[e] \in Entries
  OBVIOUS
<1>5. \A x \in Entries : x.key \in Keys
  BY DEF Entries
<1> QED
  BY <1>1, <1>2, <1>3, <1>4, <1>5 DEF Entry

LEMMA ItemShape ==
  /\ \A p \in Parts : <<p, 0>> \in Items
  /\ \A p \in Parts : Form[p].archive =>
       \A e \in 1..Len(Form[p].entries) : <<p, e>> \in Items
  /\ \A i \in Items :
       /\ i = <<i[1], i[2]>> /\ i[1] \in Parts /\ i[2] \in Nat
       /\ i[2] > 0 => Form[i[1]].archive /\ i[2] \in 1..Len(Form[i[1]].entries)
  BY FormType DEF Items

-----------------------------------------------------------------------------
(* The replies.                                                            *)

\* When all workers are done there are as many replies as tasks.
LEMMA AllReplied ==
  ASSUME UploadInv, Drained
  PROVE  Len(replies) = Len(tasks)
<1>1. working = {} /\ resolved = {} /\ uploaded = {} /\ sent = Len(tasks)
  BY DEF Drained
<1>2. Cardinality(working) = 0 /\ Cardinality(resolved) = 0 /\ Cardinality(uploaded) = 0
  BY <1>1, FS_EmptySet
<1> QED
  BY <1>1, <1>2 DEF UploadInv, PoolCount, TypeOK

\* The next reply is one of the replies, and answers one of the tasks.
LEMMA NextReplyIsReply ==
  ASSUME UploadInv, Drained, collected < Len(tasks)
  PROVE  /\ NextReply \in Outcomes
         /\ NextReply.task \in 1..Len(tasks)
         /\ \E n \in 1..Len(replies) : NextReply = replies[n]
         /\ OfFiles => NextReply.task = collected + 1
<1>1. /\ Len(tasks) \in Nat /\ Len(replies) \in Nat /\ collected \in Nat
      /\ sent = Len(tasks) /\ Len(replies) = Len(tasks)
  BY AllReplied DEF UploadInv, TypeOK, Drained
<1>2. \A n \in 1..Len(replies) : replies[n] \in Outcomes /\ replies[n].task \in 1..Len(tasks)
  BY <1>1 DEF UploadInv, TypeOK, Pool
<1>3. CASE OfFiles
  <2> DEFINE Matching == {r \in {replies[n] : n \in 1..Len(replies)} : r.task = collected + 1}
  <2>1. collected + 1 \in 1..sent
    BY <1>1
  <2>2. \E n \in 1..Len(replies) : replies[n].task = collected + 1
    BY <2>1 DEF UploadInv, Pool, Drained
  <2>3. \E r \in {replies[n] : n \in 1..Len(replies)} : r.task = collected + 1
    BY <2>2
  <2>4. /\ NextReply \in {replies[n] : n \in 1..Len(replies)}
        /\ NextReply.task = collected + 1
    BY <1>3, <2>3 DEF NextReply
  <2> QED
    BY <1>2, <2>4
<1>4. CASE ~OfFiles
  <2>1. NextReply = replies[collected + 1] /\ collected + 1 \in 1..Len(replies)
    BY <1>1, <1>4 DEF NextReply
  <2> QED
    BY <1>2, <1>4, <2>1
<1> QED
  BY <1>3, <1>4

-----------------------------------------------------------------------------
(* The invariant holds at the start.                                       *)

LEMMA UploadInvInit == Init => UploadInv
<1> SUFFICES ASSUME Init PROVE UploadInv
  OBVIOUS
<1>1. TypeOK
  <2>1. part \in 1..Len(Form) + 1
    BY FormType DEF Init
  <2>2. /\ deferred \in Seq(Items) /\ tasks \in Seq(Items)
        /\ sent \in 0..Len(tasks) /\ collected \in 0..Len(tasks)
        /\ replies \in Seq(Outcomes)
    BY DEF Init
  <2>3. results \in Seq([item : Items, key : Keys \cup {None}, ok : BOOLEAN])
    BY DEF Init
  <2> QED
    BY <2>1, <2>2, <2>3 DEF Init, TypeOK, Stages
<1>2. Position /\ Waiting /\ Stored
  BY DEF Init, Position, Waiting, Stored
<1>3. Pool
  BY DEF Init, Pool
<1>4. PoolCount
  BY FS_EmptySet DEF Init, PoolCount
<1> QED
  BY <1>1, <1>2, <1>3, <1>4 DEF UploadInv

-----------------------------------------------------------------------------
(* Every step preserves it.                                                *)

LEMMA ReportType ==
  ASSUME TypeOK, NEW i \in Items, NEW key \in Keys \cup {None}, NEW ok \in BOOLEAN,
         Report(i, key, ok)
  PROVE  /\ results' \in Seq([item : Items, key : Keys \cup {None}, ok : BOOLEAN])
         /\ unrecorded' \in BOOLEAN
<1>1. [item |-> i, key |-> key, ok |-> ok] \in [item : Items, key : Keys \cup {None}, ok : BOOLEAN]
  OBVIOUS
<1>2. results' \in Seq([item : Items, key : Keys \cup {None}, ok : BOOLEAN])
  BY <1>1 DEF Report, TypeOK
<1>3. unrecorded' \in BOOLEAN
  BY DEF Report, Record, TypeOK
<1> QED
  BY <1>2, <1>3

LEMMA PartType ==
  ASSUME TypeOK, part <= Len(Form)
  PROVE  part \in Parts /\ part + 1 \in 1..Len(Form) + 1
<1>1. Len(Form) \in Nat
  BY FormType
<1> QED
  BY <1>1 DEF TypeOK, Parts

\* The handler is at an item of the form.
LEMMA EntryType ==
  ASSUME UploadInv, Unpacking
  PROVE  /\ part \in Parts /\ Form[part].archive
         /\ entry \in 1..Len(Form[part].entries)
         /\ <<part, entry>> \in Items
         /\ Entry(part, entry).key \in Keys
<1>1. part \in Parts /\ Form[part].archive /\ entry \in 1..Len(Form[part].entries) + 1
  BY DEF UploadInv, Position, Unpacking
<1>2. Len(Form[part].entries) \in Nat
  BY <1>1, FormType
<1>3. entry \in 1..Len(Form[part].entries)
  BY <1>1, <1>2 DEF Unpacking
<1> QED
  BY <1>1, <1>3, ItemShape, FormType

Counters == [processed : Nat, extracted : Nat, uploaded : Nat, failed : Nat, skipped : Nat]

LEMMA CountersType ==
  ASSUME NEW s \in Counters
  PROVE  /\ [s EXCEPT !.processed = @ + 1] \in Counters
         /\ [s EXCEPT !.processed = @ + 1, !.failed = @ + 1] \in Counters
         /\ [s EXCEPT !.skipped = @ + 1] \in Counters
         /\ [s EXCEPT !.extracted = @ + 1] \in Counters
         /\ [s EXCEPT !.extracted = @ + 1, !.failed = @ + 1] \in Counters
         /\ [s EXCEPT !.uploaded = @ + 1] \in Counters
         /\ [s EXCEPT !.failed = @ + 1] \in Counters
<1>1. /\ s.processed + 1 \in Nat /\ s.extracted + 1 \in Nat /\ s.uploaded + 1 \in Nat
      /\ s.failed + 1 \in Nat /\ s.skipped + 1 \in Nat
  BY DEF Counters
<1>2. /\ [s EXCEPT !.processed = @ + 1] \in Counters
      /\ [s EXCEPT !.skipped = @ + 1] \in Counters
      /\ [s EXCEPT !.extracted = @ + 1] \in Counters
      /\ [s EXCEPT !.uploaded = @ + 1] \in Counters
      /\ [s EXCEPT !.failed = @ + 1] \in Counters
  BY <1>1 DEF Counters
<1>3. [s EXCEPT !.processed = @ + 1, !.failed = @ + 1] \in Counters
  BY <1>1 DEF Counters
<1>4. [s EXCEPT !.extracted = @ + 1, !.failed = @ + 1] \in Counters
  BY <1>1 DEF Counters
<1> QED
  BY <1>2, <1>3, <1>4

LEMMA TypeKept == UploadInv /\ [Next]_vars => TypeOK'
<1> SUFFICES ASSUME UploadInv, [Next]_vars PROVE TypeOK'
  OBVIOUS
<1>0. TypeOK /\ Position /\ Waiting /\ Pool /\ session \in Counters
  BY DEF UploadInv, TypeOK, Counters
<1>1. CASE RefuseFile
  <2>1. part \in Parts /\ part + 1 \in 1..Len(Form) + 1
    BY <1>0, <1>1, PartType DEF RefuseFile, File, Reading
  <2>2. <<part, 0>> \in Items
    BY <2>1, ItemShape
  <2> QED
    BY <1>0, <1>1, <2>1, <2>2, ReportType DEF TypeOK, RefuseFile, poolVars
<1>2. CASE DeferFile
  <2>1. part \in Parts /\ part + 1 \in 1..Len(Form) + 1
    BY <1>0, <1>2, PartType DEF DeferFile, File, Reading
  <2>2. <<part, 0>> \in Items
    BY <2>1, ItemShape
  <2> QED
    BY SMTT(20), <1>0, <1>2, <2>1, <2>2 DEF TypeOK, DeferFile, poolVars
<1>3. CASE RefuseArchive
  <2>1. part \in Parts /\ part + 1 \in 1..Len(Form) + 1
    BY <1>0, <1>3, PartType DEF RefuseArchive, Archive, Reading
  <2>2. <<part, 0>> \in Items
    BY <2>1, ItemShape
  <2>3. session' \in Counters
    BY <1>0, <1>3, CountersType DEF RefuseArchive
  <2> QED
    BY <1>0, <1>3, <2>1, <2>2, <2>3, ReportType DEF TypeOK, Counters, RefuseArchive, poolVars
<1>4. CASE OpenArchive
  <2>1. session' \in Counters
    BY <1>0, <1>4, CountersType DEF OpenArchive
  <2> QED
    BY <1>0, <1>4, <2>1 DEF TypeOK, Counters, OpenArchive, poolVars, Stages
<1>5. CASE SkipEntry
  <2>1. session' \in Counters
    BY <1>0, <1>5, CountersType DEF SkipEntry
  <2>2. entry' \in Nat
    BY <1>0, <1>5 DEF TypeOK, SkipEntry
  <2> QED
    BY <1>0, <1>5, <2>1, <2>2 DEF TypeOK, Counters, SkipEntry, poolVars
<1>6. CASE RefuseEntry
  <2>1. <<part, entry>> \in Items
    BY <1>6, EntryType DEF RefuseEntry
  <2>2. session' \in Counters
    BY <1>0, <1>6, CountersType DEF RefuseEntry
  <2>3. entry' \in Nat
    BY SMTT(20), <1>0, <1>6 DEF TypeOK, RefuseEntry
  <2> QED
    BY <1>0, <1>6, <2>1, <2>2, ReportType, <2>3 DEF TypeOK, Counters, RefuseEntry, poolVars
<1>7. CASE AcceptEntry
  <2>1. <<part, entry>> \in Items
    BY <1>7, EntryType DEF AcceptEntry
  <2>2. stage = "unpacking"
    BY <1>7 DEF AcceptEntry, Unpacking
  <2>3. tasks' \in Seq(Items) /\ Len(tasks') = Len(tasks) + 1
    BY <1>0, <1>7, <2>1 DEF TypeOK, AcceptEntry
  <2>4. session' \in Counters
    BY <1>0, <1>7, CountersType DEF AcceptEntry
  <2>5. sent' \in 0..Len(tasks') /\ collected' \in 0..Len(tasks')
    BY SMTT(20), <1>0, <1>7, <2>3 DEF TypeOK, AcceptEntry
  <2>6. entry' \in Nat
    BY SMTT(20), <1>0, <1>7 DEF TypeOK, AcceptEntry
  <2> QED
    BY <1>0, <1>7, <2>3, <2>4, <2>5, <2>6 DEF TypeOK, Counters, AcceptEntry
<1>8. CASE EndArchive
  <2>1. <<part, 0>> \in Items
    BY <1>0, <1>8, ItemShape DEF Position, EndArchive
  <2>2. /\ results' \in Seq([item : Items, key : Keys \cup {None}, ok : BOOLEAN])
        /\ unrecorded' \in BOOLEAN
    BY <1>0, <1>8, <2>1, ReportType DEF EndArchive, TypeOK
  <2>3. session' \in Counters
    BY <1>0, <1>8, CountersType DEF EndArchive
  <2> QED
    BY <1>0, <1>8, <2>2, <2>3 DEF TypeOK, Counters, EndArchive, poolVars, Stages
<1>9. CASE StartFiles
  <2>1. sent = 0 /\ collected = 0 /\ Len(deferred) \in Nat
    BY <1>0, <1>9 DEF TypeOK, Pool, StartFiles
  <2> QED
    BY <1>0, <1>9, <2>1 DEF TypeOK, StartFiles, Stages
<1>10. CASE Dispatch
  BY <1>0, <1>10 DEF TypeOK, Dispatch
<1>11. CASE \E t \in working : Resolve(t)
  <2> PICK t \in working : Resolve(t)
    BY <1>11
  <2>1. t \in 1..sent /\ t \in Nat \ {0}
    BY <1>0 DEF TypeOK
  <2>2. [task |-> t, ok |-> FALSE] \in Outcomes
    BY <2>1 DEF Outcomes
  <2> QED
    BY <1>0, <2>1, <2>2 DEF TypeOK, Resolve
<1>12. CASE \E t \in resolved : Upload(t)
  <2> PICK t \in resolved : Upload(t)
    BY <1>12
  <2>1. t \in 1..Len(tasks) /\ tasks[t] \in Items
    BY <1>0 DEF TypeOK
  <2>2. store' \in [Keys -> Items \cup {None}]
    BY <1>0, <2>1 DEF TypeOK, Upload
  <2> QED
    BY SMTT(20), <1>0, <2>1, <2>2 DEF TypeOK, Upload, Outcomes
<1>13. CASE \E outcome \in uploaded : Reply(outcome)
  BY SMTT(20), <1>0, <1>13 DEF TypeOK, Reply
<1>14. CASE Collect
  <2>1. NextReply.task \in 1..Len(tasks) /\ NextReply \in Outcomes
    BY <1>14, NextReplyIsReply DEF Collect
  <2>2. tasks[NextReply.task] \in Items /\ KeyOf(tasks[NextReply.task]) \in Keys
    BY SMTT(20), <1>0, <2>1 DEF TypeOK, Waiting
  <2>3. NextReply.ok \in BOOLEAN
    BY <2>1 DEF Outcomes
  <2>4. /\ results' \in Seq([item : Items, key : Keys \cup {None}, ok : BOOLEAN])
        /\ unrecorded' \in BOOLEAN
    BY <1>0, <1>14, <2>2, <2>3, ReportType DEF Collect
  <2>5. session' \in Counters
    BY <1>0, <1>14, CountersType DEF Collect
  <2>6. collected' \in 0..Len(tasks)
    BY SMTT(20), <1>0, <1>14 DEF TypeOK, Collect
  <2> QED
    BY <1>0, <1>14, <2>4, <2>5, <2>6 DEF TypeOK, Counters, Collect
<1>15. CASE EndPool
  <2>1. part' \in 1..Len(Form) + 1
    BY <1>0, <1>15, FormType DEF TypeOK, EndPool, OfFiles
  <2> QED
    BY <1>0, <1>15, <2>1 DEF TypeOK, EndPool, Stages, Drained
<1>16. CASE Respond
  BY <1>0, <1>16 DEF TypeOK, Respond, Record, poolVars, Stages
<1>17. CASE EndContext
  BY <1>0, <1>17 DEF TypeOK, EndContext, poolVars
<1>18. CASE UNCHANGED vars
  BY <1>0, <1>18 DEF TypeOK, vars, poolVars
<1> QED
  BY <1>1, <1>2, <1>3, <1>4, <1>5, <1>6, <1>7, <1>8, <1>9, <1>10, <1>11, <1>12, <1>13, <1>14,
     <1>15, <1>16, <1>17, <1>18 DEF Next, HandlerStep, WorkerStep

\* Steps of the workers, and those of the handler while they work.
PoolStep ==
  \/ Dispatch \/ Collect
  \/ \E t \in working : Resolve(t)
  \/ \E t \in resolved : Upload(t)
  \/ \E outcome \in uploaded : Reply(outcome)

LEMMA PositionKept == UploadInv /\ [Next]_vars => Position'
<1> SUFFICES ASSUME UploadInv, [Next]_vars PROVE Position'
  OBVIOUS
<1>0. TypeOK /\ Position /\ Waiting
  BY DEF UploadInv
<1>a. Len(Form) \in Nat /\ part \in Nat
  BY <1>0, FormType DEF TypeOK
<1>1. CASE RefuseFile \/ DeferFile \/ RefuseArchive
  BY <1>1 DEF Position, RefuseFile, DeferFile, RefuseArchive, File, Archive, Reading
<1>2. CASE OpenArchive
  <2>1. part \in Parts /\ Form[part].archive
    BY <1>0, <1>2, PartType DEF OpenArchive, Archive, Reading
  <2>2. Len(Form[part].entries) \in Nat
    BY <2>1, FormType
  <2> QED
    BY <1>2, <2>1, <2>2 DEF Position, OpenArchive, Archive
<1>3. CASE SkipEntry \/ RefuseEntry \/ AcceptEntry
  <2>1. Unpacking /\ UNCHANGED <<stage, part>> /\ entry' = entry + 1
    BY <1>3 DEF SkipEntry, RefuseEntry, AcceptEntry
  <2>2. entry \in 1..Len(Form[part].entries) /\ part \in Parts
    BY <2>1, EntryType
  <2>3. Len(Form[part].entries) \in Nat
    BY <2>2, FormType, EntryType, <2>1
  <2> QED
    BY <1>0, <2>1, <2>2, <2>3 DEF Position, Unpacking
<1>4. CASE EndArchive
  <2>1. part \in Parts /\ ~OfFiles
    BY <1>0, <1>4, <1>a DEF Position, EndArchive, OfFiles, Parts
  <2> QED
    BY <1>0, <1>4, <2>1 DEF Position, EndArchive, OfFiles
<1>5. CASE StartFiles
  BY <1>5 DEF Position, StartFiles, OfFiles
<1>6. CASE PoolStep
  <2>1. UNCHANGED <<stage, part, entry, deferred>>
    BY <1>6 DEF PoolStep, Dispatch, Collect, Resolve, Upload, Reply
  <2> QED
    BY <1>0, <2>1 DEF Position, OfFiles
<1>7. CASE EndPool
  BY <1>7 DEF Position, EndPool
<1>8. CASE Respond
  BY <1>8 DEF Position, Respond, OfFiles
<1>9. CASE EndContext \/ UNCHANGED vars
  BY <1>0, <1>9 DEF Position, EndContext, OfFiles, vars
<1> QED
  BY <1>1, <1>2, <1>3, <1>4, <1>5, <1>6, <1>7, <1>8, <1>9
     DEF Next, HandlerStep, WorkerStep, PoolStep

LEMMA WaitingKept == UploadInv /\ [Next]_vars => Waiting'
<1> SUFFICES ASSUME UploadInv, [Next]_vars PROVE Waiting'
  OBVIOUS
<1>0. TypeOK /\ Position /\ Waiting
  BY DEF UploadInv
<1>a. /\ Len(Form) \in Nat /\ part \in Nat /\ Len(deferred) \in Nat /\ Len(tasks) \in Nat
      /\ deferred \in Seq(Items) /\ tasks \in Seq(Items)
  BY <1>0, FormType DEF TypeOK
<1>b. \A n \in 1..Len(deferred) : deferred[n][1] \in Nat
  BY <1>a, ItemShape DEF Parts
<1>1. CASE RefuseFile \/ RefuseArchive
  <2>1. stage = "reading" /\ part' = part + 1 /\ UNCHANGED <<stage, deferred, tasks>>
    BY <1>1 DEF RefuseFile, RefuseArchive, File, Archive, Reading, poolVars
  <2> QED
    BY <1>0, <1>a, <1>b, <2>1 DEF Waiting
<1>2. CASE DeferFile
  <2>1. stage = "reading" /\ part' = part + 1 /\ UNCHANGED <<stage, tasks>> /\ ~Form[part].archive
    BY <1>2 DEF DeferFile, File, Reading, poolVars
  <2>2. part \in Parts
    BY <1>0, <1>2, PartType DEF DeferFile, File, Reading
  <2>3. Form[part].key \in Keys
    BY <1>2, <2>1, <2>2, FormType DEF DeferFile, Refused
  <2>4. deferred' = Append(deferred, <<part, 0>>) /\ KeyOf(<<part, 0>>) \in Keys
    BY <1>2, <2>3 DEF DeferFile, KeyOf
  <2>5. \A n \in 1..Len(deferred') :
          \/ n \in 1..Len(deferred) /\ deferred'[n] = deferred[n]
          \/ deferred'[n] = <<part, 0>>
    BY <1>a, <2>4
  <2>6. \A n \in 1..Len(deferred') :
          /\ deferred'[n][2] = 0 /\ deferred'[n][1] < part'
          /\ ~Form[deferred'[n][1]].archive
          /\ KeyOf(deferred'[n]) \in Keys
    BY <1>0, <1>a, <1>b, <2>1, <2>4, <2>5 DEF Waiting
  <2>7. tasks' = <<>>
    BY <1>0, <2>1 DEF Waiting
  <2> QED
    BY <2>1, <2>6, <2>7 DEF Waiting, KeyOf
<1>3. CASE OpenArchive
  <2>1. tasks' = <<>> /\ UNCHANGED <<part, deferred>> /\ stage' = "unpacking"
    BY <1>0, <1>3 DEF Waiting, OpenArchive, Archive, Reading, poolVars
  <2> QED
    BY <1>0, <2>1 DEF Waiting, KeyOf
<1>4. CASE SkipEntry \/ RefuseEntry
  <2>1. stage = "unpacking" /\ entry' = entry + 1 /\ UNCHANGED <<stage, part, deferred, tasks>>
    BY <1>4 DEF SkipEntry, RefuseEntry, Unpacking, poolVars
  <2>2. entry \in Nat /\ \A n \in 1..Len(tasks) : tasks[n][2] \in Nat
    BY SMTT(20), <1>0, <1>a, ItemShape DEF TypeOK
  <2> QED
    BY <1>0, <2>1, <2>2 DEF Waiting, OfFiles
<1>5. CASE AcceptEntry
  <2>1. /\ Unpacking /\ stage = "unpacking" /\ entry' = entry + 1
        /\ UNCHANGED <<stage, part, deferred>>
        /\ tasks' = Append(tasks, <<part, entry>>) /\ Entry(part, entry).regular
    BY <1>5 DEF AcceptEntry, Unpacking
  <2>2. /\ part \in Parts /\ entry \in Nat /\ entry > 0
        /\ Entry(part, entry).key \in Keys /\ ~OfFiles
    BY <1>a, <2>1, EntryType, FormType DEF OfFiles, Parts
  <2>3. KeyOf(<<part, entry>>) \in Keys
    BY <2>2 DEF KeyOf
  <2>4. \A n \in 1..Len(tasks') :
          \/ n \in 1..Len(tasks) /\ tasks'[n] = tasks[n]
          \/ tasks'[n] = <<part, entry>>
    BY <1>a, <2>1
  <2>5. \A n \in 1..Len(tasks) : tasks[n][2] \in Nat
    BY <1>a, ItemShape
  <2>6. \A n \in 1..Len(tasks') :
          /\ KeyOf(tasks'[n]) \in Keys
          /\ tasks'[n][1] = part /\ tasks'[n][2] > 0 /\ Entry(part, tasks'[n][2]).regular
          /\ tasks'[n][2] < entry'
    BY <1>0, <2>1, <2>2, <2>3, <2>4, <2>5 DEF Waiting
  <2> QED
    BY <1>0, <2>1, <2>2, <2>6 DEF Waiting, OfFiles, KeyOf
<1>6. CASE EndArchive
  <2>1. stage' = "uploading" /\ UNCHANGED <<part, deferred, tasks>>
    BY <1>6 DEF EndArchive, poolVars
  <2> QED
    BY <1>0, <2>1 DEF Waiting, OfFiles
<1>7. CASE StartFiles
  <2>1. /\ stage' = "uploading" /\ UNCHANGED part /\ OfFiles
        /\ tasks' = deferred /\ deferred' = <<>>
    BY <1>7 DEF StartFiles
  <2> QED
    BY <1>0, <2>1 DEF Waiting, OfFiles
<1>8. CASE PoolStep
  <2>1. UNCHANGED <<stage, part, entry, deferred, tasks>>
    BY <1>8 DEF PoolStep, Dispatch, Collect, Resolve, Upload, Reply
  <2> QED
    BY <1>0, <2>1 DEF Waiting, OfFiles
<1>9. CASE EndPool
  <2>1. /\ stage' = "reading" /\ tasks' = <<>> /\ deferred' = deferred
        /\ part' \in {part, part + 1}
    BY <1>9 DEF EndPool
  <2> QED
    BY <1>0, <1>a, <1>b, <2>1 DEF Waiting
<1>10. CASE Respond
  <2>1. stage = "reading" /\ stage' = "responded" /\ UNCHANGED <<part, deferred, tasks>>
    BY <1>10 DEF Respond, poolVars
  <2> QED
    BY <1>0, <2>1 DEF Waiting, OfFiles
<1>11. CASE EndContext \/ UNCHANGED vars
  <2>1. UNCHANGED <<stage, part, entry, deferred, tasks>>
    BY <1>11 DEF EndContext, vars, poolVars
  <2> QED
    BY <1>0, <2>1 DEF Waiting, OfFiles
<1> QED
  BY <1>1, <1>2, <1>3, <1>4, <1>5, <1>6, <1>7, <1>8, <1>9, <1>10, <1>11
     DEF Next, HandlerStep, WorkerStep, PoolStep

LEMMA PoolKept == UploadInv /\ [Next]_vars => Pool'
<1> SUFFICES ASSUME UploadInv, [Next]_vars PROVE Pool'
  OBVIOUS
<1>0. TypeOK /\ Waiting /\ Pool
  BY DEF UploadInv
<1>a. /\ sent \in Nat /\ Len(replies) \in Nat /\ collected \in Nat /\ replies \in Seq(Outcomes)
      /\ Len(tasks) \in Nat
  BY <1>0 DEF TypeOK
<1>1. CASE stage # "uploading" /\ UNCHANGED <<sent, working, resolved, uploaded, replies, collected>>
  BY <1>0, <1>a, <1>1 DEF Pool
<1>2. CASE Dispatch
  <2>1. /\ stage = "uploading" /\ sent < Len(tasks)
        /\ sent' = sent + 1 /\ working' = working \cup {sent + 1}
        /\ UNCHANGED <<stage, tasks, resolved, uploaded, replies, collected>>
    BY <1>2 DEF Dispatch
  <2>2. collected = 0
    BY <1>0, <1>a, <2>1 DEF Pool, Drained
  <2>3. \A t \in 1..sent' : t = sent + 1 \/ t \in 1..sent
    BY <1>a, <2>1
  <2>4. sent + 1 \notin 1..sent /\ \A t \in 1..sent : t \in 1..sent'
    BY <1>a, <2>1
  <2>5. resolved \subseteq 1..sent
    BY <1>0 DEF TypeOK
  <2> QED
    BY <1>0, <2>1, <2>2, <2>3, <2>4, <2>5 DEF Pool
<1>3. CASE \E t \in working : Resolve(t)
  <2> PICK t \in working : Resolve(t)
    BY <1>3
  <2>1. /\ working' = working \ {t}
        /\ UNCHANGED <<stage, tasks, sent, replies, collected>>
        /\ \/ resolved' = resolved \cup {t} /\ uploaded' = uploaded
           \/ uploaded' = uploaded \cup {[task |-> t, ok |-> FALSE]} /\ resolved' = resolved
    BY DEF Resolve
  <2>2. t \in 1..sent /\ t \notin resolved /\ collected = 0 /\ stage = "uploading"
    BY <1>0, <1>a DEF Pool, Drained, TypeOK
  <2>3. /\ \A o \in uploaded : o.task # t
        /\ \A n \in 1..Len(replies) : replies[n].task # t
    BY <1>0 DEF Pool
  <2>4. [task |-> t, ok |-> FALSE].task = t
    OBVIOUS
  <2>5. \A u \in working' \cup resolved' : u \in working \cup resolved
    BY <2>1
  <2>6. working' \cap resolved' = {}
    BY <1>0, <2>1, <2>2 DEF Pool
  <2>7. \A o \in uploaded' :
          /\ o.task \in 1..sent /\ o.task \notin working' \cup resolved'
          /\ \A q \in uploaded' : q.task = o.task => q = o
    <3>1. CASE uploaded' = uploaded /\ resolved' = resolved \cup {t}
      BY <1>0, <2>1, <2>3, <3>1 DEF Pool
    <3>2. CASE uploaded' = uploaded \cup {[task |-> t, ok |-> FALSE]} /\ resolved' = resolved
      <4> DEFINE new == [task |-> t, ok |-> FALSE]
      <4>1. new.task = t /\ uploaded' = uploaded \cup {new}
        BY <3>2
      <4> HIDE DEF new
      <4> QED
        BY <1>0, <2>1, <2>2, <2>3, <3>2, <4>1 DEF Pool
    <3> QED
      BY <2>1, <3>1, <3>2
  <2>8. \A n \in 1..Len(replies) :
          /\ replies[n].task \notin working' \cup resolved'
          /\ \A o \in uploaded' : o.task # replies[n].task
    BY <1>0, <2>1, <2>3, <2>4, <2>5 DEF Pool
  <2>9. \A u \in 1..sent : u \in working \cup resolved =>
          u \in working' \cup resolved' \/ \E o \in uploaded' : o.task = u
    BY <2>1, <2>4
  <2>10. \A o \in uploaded : o \in uploaded'
    BY <2>1
  <2> QED
    BY <1>0, <2>1, <2>2, <2>6, <2>7, <2>8, <2>9, <2>10 DEF Pool
<1>4. CASE \E t \in resolved : Upload(t)
  <2> PICK t \in resolved : Upload(t)
    BY <1>4
  <2> PICK ok \in BOOLEAN : uploaded' = uploaded \cup {[task |-> t, ok |-> ok]}
    BY DEF Upload
  <2>1. /\ resolved' = resolved \ {t}
        /\ UNCHANGED <<stage, tasks, sent, working, replies, collected>>
    BY DEF Upload
  <2>2. t \in 1..sent /\ t \notin working /\ collected = 0 /\ stage = "uploading"
    BY <1>0, <1>a DEF Pool, Drained, TypeOK
  <2>3. /\ \A o \in uploaded : o.task # t
        /\ \A n \in 1..Len(replies) : replies[n].task # t
    BY <1>0 DEF Pool
  <2>4. [task |-> t, ok |-> ok].task = t
    OBVIOUS
  <2>5. \A u \in working' \cup resolved' : u \in working \cup resolved
    BY <2>1
  <2>6. working' \cap resolved' = {}
    BY <1>0, <2>1, <2>2 DEF Pool
  <2>7. \A o \in uploaded' :
          /\ o.task \in 1..sent /\ o.task \notin working' \cup resolved'
          /\ \A q \in uploaded' : q.task = o.task => q = o
    BY <1>0, <2>1, <2>2, <2>3, <2>4 DEF Pool
  <2>8. \A n \in 1..Len(replies) :
          /\ replies[n].task \notin working' \cup resolved'
          /\ \A o \in uploaded' : o.task # replies[n].task
    BY <1>0, <2>1, <2>3, <2>4, <2>5 DEF Pool
  <2>9. \A u \in 1..sent : u \in working \cup resolved =>
          u \in working' \cup resolved' \/ \E o \in uploaded' : o.task = u
    BY <2>1, <2>4
  <2>10. \A o \in uploaded : o \in uploaded'
    BY <2>1
  <2> QED
    BY <1>0, <2>1, <2>2, <2>6, <2>7, <2>8, <2>9, <2>10 DEF Pool
<1>5. CASE \E outcome \in uploaded : Reply(outcome)
  <2> PICK outcome \in uploaded : Reply(outcome)
    BY <1>5
  <2>1. /\ uploaded' = uploaded \ {outcome} /\ replies' = Append(replies, outcome)
        /\ UNCHANGED <<stage, tasks, sent, working, resolved, collected>>
    BY DEF Reply
  <2>2. collected = 0 /\ stage = "uploading"
    BY <1>0, <1>a DEF Pool, Drained
  <2>3. /\ Len(replies') = Len(replies) + 1
        /\ replies'[Len(replies) + 1] = outcome
        /\ \A n \in 1..Len(replies) : n \in 1..Len(replies') /\ replies'[n] = replies[n]
        /\ \A n \in 1..Len(replies') : n = Len(replies) + 1 \/ n \in 1..Len(replies)
    BY <1>a, <2>1
  <2>4. \A n \in 1..Len(replies) : replies[n].task # outcome.task
    BY <1>0 DEF Pool
  <2>5. \A o \in uploaded' : o \in uploaded /\ o.task # outcome.task
    BY <1>0, <2>1 DEF Pool
  <2>6. \A n \in 1..Len(replies') :
          /\ replies'[n].task \in 1..sent /\ replies'[n].task \notin working \cup resolved
          /\ \A o \in uploaded' : o.task # replies'[n].task
    BY <1>0, <2>3, <2>5 DEF Pool
  <2>7. \A m, n \in 1..Len(replies') : replies'[m].task = replies'[n].task => m = n
    BY <1>0, <2>3, <2>4 DEF Pool
  <2>8. \A u \in 1..sent :
          \/ u \in working \cup resolved
          \/ \E o \in uploaded' : o.task = u
          \/ \E n \in 1..Len(replies') : replies'[n].task = u
    <3> SUFFICES ASSUME NEW u \in 1..sent
                 PROVE  \/ u \in working \cup resolved
                        \/ \E o \in uploaded' : o.task = u
                        \/ \E n \in 1..Len(replies') : replies'[n].task = u
      OBVIOUS
    <3>1. CASE \E o \in uploaded : o.task = u
      <4>1. CASE outcome.task = u
        <5>1. Len(replies) + 1 \in 1..Len(replies')
          BY <1>a, <2>3
        <5> QED
          BY <2>3, <4>1, <5>1
      <4>2. CASE outcome.task # u
        BY <2>1, <3>1, <4>2
      <4> QED
        BY <4>1, <4>2
    <3>2. CASE ~\E o \in uploaded : o.task = u
      BY <1>0, <2>3, <3>2 DEF Pool
    <3> QED
      BY <3>1, <3>2
  <2>9. \A o \in uploaded' :
          /\ o.task \in 1..sent /\ o.task \notin working \cup resolved
          /\ \A q \in uploaded' : q.task = o.task => q = o
    BY <1>0, <2>5 DEF Pool
  <2> QED
    BY <1>0, <2>1, <2>2, <2>6, <2>7, <2>8, <2>9 DEF Pool
<1>6. CASE Collect
  <2>1. /\ Drained /\ stage = "uploading"
        /\ UNCHANGED <<stage, tasks, sent, working, resolved, uploaded, replies>>
    BY <1>6 DEF Collect, Drained
  <2> QED
    BY <1>0, <2>1 DEF Pool, Drained
<1>7. CASE EndPool
  <2>1. /\ working' = {} /\ resolved' = {} /\ uploaded' = {} /\ sent' = 0 /\ replies' = <<>>
        /\ collected' = 0 /\ stage' = "reading"
    BY <1>7 DEF EndPool, Drained
  <2> QED
    BY <2>1 DEF Pool
<1>8. CASE stage = "uploading" /\ (EndContext \/ UNCHANGED vars)
  <2>1. UNCHANGED <<stage, tasks, sent, working, resolved, uploaded, replies, collected>>
    BY <1>8 DEF EndContext, vars, poolVars
  <2> QED
    BY <1>0, <2>1 DEF Pool, Drained
<1>9. stage \in Stages
  BY <1>0 DEF TypeOK
<1> QED
  BY <1>1, <1>2, <1>3, <1>4, <1>5, <1>6, <1>7, <1>8
     DEF Next, HandlerStep, WorkerStep, RefuseFile, DeferFile, RefuseArchive, OpenArchive,
         File, Archive, Reading, SkipEntry, RefuseEntry, AcceptEntry, Unpacking, EndArchive,
         StartFiles, Respond, EndContext, vars, poolVars

LEMMA PoolCountKept == UploadInv /\ [Next]_vars => PoolCount'
<1> SUFFICES ASSUME UploadInv, [Next]_vars PROVE PoolCount'
  OBVIOUS
<1>0. TypeOK /\ Pool /\ PoolCount
  BY DEF UploadInv
<1>a. /\ sent \in Nat /\ Len(replies) \in Nat /\ replies \in Seq(Outcomes)
      /\ Cardinality(uploaded) \in Nat /\ Cardinality(working) \in Nat
      /\ Cardinality(resolved) \in Nat
  BY <1>0, FS_CardinalityType DEF TypeOK, PoolCount
<1>1. CASE UNCHANGED <<sent, working, resolved, uploaded, replies>>
  BY <1>0, <1>1 DEF PoolCount
<1>2. CASE Dispatch
  <2>1. /\ sent' = sent + 1 /\ working' = working \cup {sent + 1}
        /\ UNCHANGED <<resolved, uploaded, replies>>
    BY <1>2 DEF Dispatch
  <2>2. sent + 1 \notin working
    BY <1>0, <1>a DEF TypeOK
  <2>3. IsFiniteSet(working') /\ Cardinality(working') = Cardinality(working) + 1
    BY <1>0, <2>1, <2>2, FS_AddElement DEF PoolCount
  <2> QED
    BY <1>0, <1>a, <2>1, <2>3 DEF PoolCount
<1>3. CASE \E t \in working : Resolve(t)
  <2> PICK t \in working : Resolve(t)
    BY <1>3
  <2>1. /\ working' = working \ {t} /\ UNCHANGED <<sent, replies>>
        /\ \/ resolved' = resolved \cup {t} /\ uploaded' = uploaded
           \/ uploaded' = uploaded \cup {[task |-> t, ok |-> FALSE]} /\ resolved' = resolved
    BY DEF Resolve
  <2>2. t \notin resolved /\ [task |-> t, ok |-> FALSE] \notin uploaded
    BY <1>0 DEF Pool
  <2>3. IsFiniteSet(working') /\ Cardinality(working') = Cardinality(working) - 1
    BY <1>0, <2>1, FS_RemoveElement DEF PoolCount
  <2>4. CASE resolved' = resolved \cup {t} /\ uploaded' = uploaded
    <3>1. IsFiniteSet(resolved') /\ Cardinality(resolved') = Cardinality(resolved) + 1
      BY <1>0, <2>2, <2>4, FS_AddElement DEF PoolCount
    <3> QED
      BY <1>0, <1>a, <2>1, <2>3, <2>4, <3>1 DEF PoolCount
  <2>5. CASE uploaded' = uploaded \cup {[task |-> t, ok |-> FALSE]} /\ resolved' = resolved
    <3>1. IsFiniteSet(uploaded') /\ Cardinality(uploaded') = Cardinality(uploaded) + 1
      BY <1>0, <2>2, <2>5, FS_AddElement DEF PoolCount
    <3> QED
      BY <1>0, <1>a, <2>1, <2>3, <2>5, <3>1 DEF PoolCount
  <2> QED
    BY <2>1, <2>4, <2>5
<1>4. CASE \E t \in resolved : Upload(t)
  <2> PICK t \in resolved : Upload(t)
    BY <1>4
  <2> PICK ok \in BOOLEAN : uploaded' = uploaded \cup {[task |-> t, ok |-> ok]}
    BY DEF Upload
  <2>1. resolved' = resolved \ {t} /\ UNCHANGED <<sent, replies, working>>
    BY DEF Upload
  <2>2. [task |-> t, ok |-> ok] \notin uploaded
    BY <1>0 DEF Pool
  <2>3. IsFiniteSet(resolved') /\ Cardinality(resolved') = Cardinality(resolved) - 1
    BY <1>0, <2>1, FS_RemoveElement DEF PoolCount
  <2>4. IsFiniteSet(uploaded') /\ Cardinality(uploaded') = Cardinality(uploaded) + 1
    BY <1>0, <2>2, FS_AddElement DEF PoolCount
  <2> QED
    BY <1>0, <1>a, <2>1, <2>3, <2>4 DEF PoolCount
<1>5. CASE \E outcome \in uploaded : Reply(outcome)
  <2> PICK outcome \in uploaded : Reply(outcome)
    BY <1>5
  <2>1. /\ uploaded' = uploaded \ {outcome} /\ replies' = Append(replies, outcome)
        /\ UNCHANGED <<sent, working, resolved>>
    BY DEF Reply
  <2>2. IsFiniteSet(uploaded') /\ Cardinality(uploaded') = Cardinality(uploaded) - 1
    BY <1>0, <2>1, FS_RemoveElement DEF PoolCount
  <2>3. Len(replies') = Len(replies) + 1
    BY <1>a, <2>1
  <2> QED
    BY <1>0, <1>a, <2>1, <2>2, <2>3 DEF PoolCount
<1>6. CASE EndPool
  <2>1. /\ working' = {} /\ resolved' = {} /\ uploaded' = {} /\ sent' = 0 /\ replies' = <<>>
    BY <1>6 DEF EndPool, Drained
  <2>2. Len(replies') = 0
    BY <2>1
  <2> QED
    BY <2>1, <2>2, FS_EmptySet DEF PoolCount
<1> QED
  BY <1>1, <1>2, <1>3, <1>4, <1>5, <1>6
     DEF Next, HandlerStep, WorkerStep, RefuseFile, DeferFile, RefuseArchive, OpenArchive,
         SkipEntry, RefuseEntry, AcceptEntry, EndArchive, StartFiles, Collect, Respond,
         EndContext, vars, poolVars

\* What is under a key stays there, or is replaced by an item with that key.
LEMMA StoreKept ==
  ASSUME UploadInv, [Next]_vars
  PROVE  /\ \A k \in Keys : store[k] # None => store'[k] # None
         /\ \A k \in Keys : store'[k] # None => KeyOf(store'[k]) = k
<1>0. TypeOK /\ Waiting /\ Stored
  BY DEF UploadInv
<1>1. CASE \E t \in resolved : Upload(t)
  <2> PICK t \in resolved : Upload(t)
    BY <1>1
  <2>1. tasks[t] \in Items /\ KeyOf(tasks[t]) \in Keys
    BY <1>0 DEF TypeOK, Waiting
  <2>2. tasks[t] # None
    BY <2>1, NoneAssumption
  <2> DEFINE k0 == KeyOf(tasks[t])
  <2>3. store' = store \/ store' = [store EXCEPT ![k0] = tasks[t]]
    BY DEF Upload
  <2>4. CASE store' = [store EXCEPT ![k0] = tasks[t]]
    <3>1. \A k \in Keys : store'[k] = IF k = k0 THEN tasks[t] ELSE store[k]
      BY <1>0, <2>4 DEF TypeOK
    <3> QED
      BY <1>0, <2>1, <2>2, <3>1 DEF Stored
  <2>5. CASE store' = store
    BY <1>0, <2>5 DEF Stored
  <2> QED
    BY <2>3, <2>4, <2>5
<1>2. CASE store' = store
  BY <1>0, <1>2 DEF Stored
<1> QED
  BY <1>1, <1>2
     DEF Next, HandlerStep, WorkerStep, RefuseFile, DeferFile, RefuseArchive, OpenArchive,
         SkipEntry, RefuseEntry, AcceptEntry, EndArchive, StartFiles, Dispatch, Resolve, Reply,
         Collect, EndPool, Respond, EndContext, vars, poolVars

\* A failure is reported, or nothing is.
NoSuccess ==
  \A n \in 1..Len(results') :
    results'[n].ok => n \in 1..Len(results) /\ results'[n] = results[n]

LEMMA StoredKept == UploadInv /\ [Next]_vars => Stored'
<1> SUFFICES ASSUME UploadInv, [Next]_vars PROVE Stored'
  OBVIOUS
<1>0. TypeOK /\ Waiting /\ Pool /\ Stored
  BY DEF UploadInv
<1>a. /\ \A k \in Keys : store[k] # None => store'[k] # None
      /\ \A k \in Keys : store'[k] # None => KeyOf(store'[k]) = k
  BY StoreKept
<1>b. /\ Len(tasks) \in Nat /\ Len(results) \in Nat /\ Len(replies) \in Nat /\ sent \in Nat
      /\ sent <= Len(tasks)
      /\ replies \in Seq(Outcomes)
      /\ results \in Seq([item : Items, key : Keys \cup {None}, ok : BOOLEAN])
  BY <1>0 DEF TypeOK
<1>c. \A n \in 1..Len(tasks) : KeyOf(tasks[n]) \in Keys
  BY <1>0 DEF Waiting
<1>d. /\ \A o \in uploaded : o.task \in 1..Len(tasks)
      /\ \A n \in 1..Len(replies) : replies[n].task \in 1..Len(tasks)
  BY <1>0, <1>b DEF Pool
\* Outcomes and replies that were there already.
<1>e. ASSUME tasks' = tasks
      PROVE  /\ \A o \in uploaded : o.ok => store'[KeyOf(tasks'[o.task])] # None
             /\ \A n \in 1..Len(replies) :
                  replies[n].ok => store'[KeyOf(tasks'[replies[n].task])] # None
  BY <1>0, <1>a, <1>c, <1>d, <1>e DEF Stored
<1>f. ASSUME NoSuccess
      PROVE  \A n \in 1..Len(results') :
               results'[n].ok => results'[n].key \in Keys /\ store'[results'[n].key] # None
  BY <1>0, <1>a, <1>f DEF Stored, NoSuccess
<1>g. ASSUME NEW i, NEW key, Report(i, key, FALSE) PROVE NoSuccess
  BY <1>b, <1>g DEF Report, NoSuccess
<1>h. ASSUME results' = results PROVE NoSuccess
  BY <1>h DEF NoSuccess
<1>1. CASE uploaded' = {} /\ replies' = <<>> /\ NoSuccess
  BY <1>a, <1>f, <1>1 DEF Stored
<1>2. CASE uploaded' = uploaded /\ replies' = replies /\ tasks' = tasks /\ NoSuccess
  BY <1>a, <1>e, <1>f, <1>2 DEF Stored
<1>3. CASE \E t \in working : Resolve(t)
  <2>1. \A o \in uploaded' : o.ok => o \in uploaded
    BY <1>3 DEF Resolve
  <2>2. tasks' = tasks /\ replies' = replies /\ NoSuccess
    BY <1>3, <1>h DEF Resolve
  <2> QED
    BY <1>a, <1>e, <1>f, <2>1, <2>2 DEF Stored
<1>4. CASE \E t \in resolved : Upload(t)
  <2> PICK t \in resolved : Upload(t)
    BY <1>4
  <2> PICK ok \in BOOLEAN :
         /\ uploaded' = uploaded \cup {[task |-> t, ok |-> ok]}
         /\ \/ store' = [store EXCEPT ![KeyOf(tasks[t])] = tasks[t]]
            \/ ~ok /\ UNCHANGED store
    BY DEF Upload
  <2>1. tasks' = tasks /\ replies' = replies /\ NoSuccess
    BY <1>h DEF Upload
  <2>2. tasks[t] \in Items /\ KeyOf(tasks[t]) \in Keys /\ tasks[t] # None
    BY <1>0, NoneAssumption DEF TypeOK, Waiting
  <2>3. ok => store'[KeyOf(tasks[t])] # None
    BY <1>0, <2>2 DEF TypeOK
  <2>4. \A o \in uploaded' : o \in uploaded \/ o = [task |-> t, ok |-> ok]
    OBVIOUS
  <2>5. \A o \in uploaded' : o.ok => store'[KeyOf(tasks'[o.task])] # None
    <3> SUFFICES ASSUME NEW o \in uploaded', o.ok
                 PROVE  store'[KeyOf(tasks[o.task])] # None
      BY <2>1
    <3>1. CASE o \in uploaded
      BY <1>e, <2>1, <3>1
    <3>2. CASE o = [task |-> t, ok |-> ok]
      BY <2>3, <3>2
    <3> QED
      BY <2>4, <3>1, <3>2
  <2> QED
    BY <1>a, <1>e, <1>f, <2>1, <2>5 DEF Stored
<1>5. CASE \E outcome \in uploaded : Reply(outcome)
  <2> PICK outcome \in uploaded : Reply(outcome)
    BY <1>5
  <2>1. /\ tasks' = tasks /\ uploaded' \subseteq uploaded /\ replies' = Append(replies, outcome)
        /\ NoSuccess
    BY <1>h DEF Reply
  <2>2. \A n \in 1..Len(replies') :
          \/ n \in 1..Len(replies) /\ replies'[n] = replies[n]
          \/ replies'[n] = outcome
    BY <1>b, <2>1
  <2> QED
    BY <1>a, <1>e, <1>f, <2>1, <2>2 DEF Stored
<1>6. CASE Collect
  <2> DEFINE key == KeyOf(tasks[NextReply.task])
  <2>1. /\ UNCHANGED <<tasks, uploaded, replies>>
        /\ results' = Append(results, [item |-> tasks[NextReply.task], key |-> key, ok |-> NextReply.ok])
    BY <1>6 DEF Collect, Report
  <2>2. /\ NextReply.task \in 1..Len(tasks)
        /\ \E n \in 1..Len(replies) : NextReply = replies[n]
    BY <1>6, NextReplyIsReply DEF Collect
  <2>3. key \in Keys /\ (NextReply.ok => store'[key] # None)
    BY <1>c, <1>e, <2>1, <2>2
  <2>4. \A n \in 1..Len(results') :
          \/ n \in 1..Len(results) /\ results'[n] = results[n]
          \/ results'[n].key = key /\ results'[n].ok = NextReply.ok
    BY <1>b, <2>1
  <2>5. \A n \in 1..Len(results') :
          results'[n].ok => results'[n].key \in Keys /\ store'[results'[n].key] # None
    BY <1>0, <1>a, <2>3, <2>4 DEF Stored
  <2> QED
    BY <1>a, <1>e, <2>1, <2>5 DEF Stored
<1>7. CASE \/ RefuseFile \/ DeferFile \/ RefuseArchive \/ OpenArchive \/ SkipEntry \/ RefuseEntry
           \/ AcceptEntry \/ EndArchive \/ StartFiles
  <2>1. stage # "uploading" /\ UNCHANGED <<uploaded, replies>>
    BY <1>7 DEF RefuseFile, DeferFile, RefuseArchive, OpenArchive, File, Archive, Reading,
                SkipEntry, RefuseEntry, AcceptEntry, Unpacking, EndArchive, StartFiles, poolVars
  <2>2. uploaded' = {} /\ replies' = <<>>
    BY <1>0, <2>1 DEF Pool
  <2>3. NoSuccess
    BY <1>7, <1>g, <1>h
       DEF RefuseFile, DeferFile, RefuseArchive, OpenArchive, SkipEntry, RefuseEntry,
           AcceptEntry, EndArchive, StartFiles
  <2> QED
    BY <1>1, <2>2, <2>3
<1>8. CASE Dispatch \/ Respond \/ EndContext \/ UNCHANGED vars
  BY <1>2, <1>8, <1>h DEF Dispatch, Respond, EndContext, vars, poolVars
<1>9. CASE EndPool
  BY <1>1, <1>9, <1>h DEF EndPool, Drained
<1> QED
  BY <1>3, <1>4, <1>5, <1>6, <1>7, <1>8, <1>9 DEF Next, HandlerStep, WorkerStep

-----------------------------------------------------------------------------
(* The theorems.                                                           *)

LEMMA UploadInvKept == UploadInv /\ [Next]_vars => UploadInv'
  BY TypeKept, PositionKept, WaitingKept, PoolKept, PoolCountKept, StoredKept DEF UploadInv

THEOREM UploadInvCorrect == Spec => []UploadInv
  BY UploadInvInit, UploadInvKept, PTL DEF Spec

\* Every variable keeps its type (the state of UploadObject and its pools).
THEOREM TypeCorrect == Spec => []TypeOK
<1>1. UploadInv => TypeOK
  BY DEF UploadInv
<1> QED
  BY <1>1, UploadInvCorrect, PTL

\* What is reported as uploaded is in the bucket, in whatever order the workers
\* finish (uploadArchiveTasksConcurrently, uploadFileTasksConcurrently).
THEOREM SuccessCorrect == Spec => []SuccessMeansStored
<1>1. UploadInv => SuccessMeansStored
  BY DEF UploadInv, Stored, SuccessMeansStored
<1> QED
  BY <1>1, UploadInvCorrect, PTL

-----------------------------------------------------------------------------
(* The counters of the session.                                            *)

EntryResults == {n \in 1..Len(results) : results[n].item[2] > 0}
Successes == {n \in 1..Len(results) : OfArchives(results[n].item) /\ results[n].ok}
Failures == {n \in 1..Len(results) : OfArchives(results[n].item) /\ ~results[n].ok}

\* Accepted entries that are not reported yet.
ToReport == IF OfFiles THEN 0 ELSE Len(tasks) - collected

Counted ==
  /\ session.extracted = Cardinality(EntryResults) + ToReport
  /\ session.uploaded = Cardinality(Successes)
  /\ session.failed = Cardinality(Failures)

LEMMA Intervals ==
  ASSUME NEW n \in Nat, NEW S \in SUBSET (1..n)
  PROVE  /\ IsFiniteSet(S) /\ Cardinality(S) \in Nat
         /\ Cardinality(S \cup {n + 1}) = Cardinality(S) + 1
<1>1. IsFiniteSet(1..n)
  BY FS_Interval
<1>2. IsFiniteSet(S) /\ Cardinality(S) \in Nat
  BY <1>1, FS_Subset, FS_CardinalityType
<1>3. n + 1 \notin S
  OBVIOUS
<1> QED
  BY <1>2, <1>3, FS_AddElement

LEMMA CountersAreNat ==
  ASSUME TypeOK
  PROVE  /\ Cardinality(EntryResults) \in Nat
         /\ Cardinality(Successes) \in Nat
         /\ Cardinality(Failures) \in Nat
<1>1. Len(results) \in Nat
  BY DEF TypeOK
<1>2. /\ EntryResults \in SUBSET (1..Len(results))
      /\ Successes \in SUBSET (1..Len(results))
      /\ Failures \in SUBSET (1..Len(results))
  BY DEF EntryResults, Successes, Failures
<1> QED
  BY <1>1, <1>2, Intervals

LEMMA ReportCounts ==
  ASSUME TypeOK, NEW i \in Items, NEW key, NEW ok \in BOOLEAN,
         results' = Append(results, [item |-> i, key |-> key, ok |-> ok])
  PROVE  /\ Cardinality(EntryResults') =
              IF i[2] > 0 THEN Cardinality(EntryResults) + 1 ELSE Cardinality(EntryResults)
         /\ Cardinality(Successes') =
              IF OfArchives(i) /\ ok THEN Cardinality(Successes) + 1 ELSE Cardinality(Successes)
         /\ Cardinality(Failures') =
              IF OfArchives(i) /\ ~ok THEN Cardinality(Failures) + 1 ELSE Cardinality(Failures)
<1> DEFINE r == [item |-> i, key |-> key, ok |-> ok]
           N == Len(results)
<1>1. /\ results \in Seq([item : Items, key : Keys \cup {None}, ok : BOOLEAN])
      /\ results' = Append(results, r)
  BY DEF TypeOK
<1>2. /\ N \in Nat /\ Len(results') = N + 1 /\ results'[N + 1] = r
      /\ \A n \in 1..N : results'[n] = results[n]
      /\ 1..(N + 1) = (1..N) \cup {N + 1}
  BY <1>1
<1>3. r.item = i /\ r.ok = ok
  OBVIOUS
<1>4. EntryResults' = IF i[2] > 0 THEN EntryResults \cup {N + 1} ELSE EntryResults
  BY <1>2, <1>3 DEF EntryResults
<1>5. Successes' = IF OfArchives(i) /\ ok THEN Successes \cup {N + 1} ELSE Successes
  BY <1>2, <1>3 DEF Successes, OfArchives
<1>6. Failures' = IF OfArchives(i) /\ ~ok THEN Failures \cup {N + 1} ELSE Failures
  BY <1>2, <1>3 DEF Failures, OfArchives
<1>7. /\ EntryResults \in SUBSET (1..N)
      /\ Successes \in SUBSET (1..N)
      /\ Failures \in SUBSET (1..N)
  BY DEF EntryResults, Successes, Failures
<1> QED
  BY <1>2, <1>4, <1>5, <1>6, <1>7, Intervals

\* One more failure: of a file, of an archive, or of one of its entries.
LEMMA FailureCounts ==
  ASSUME TypeOK, NEW p, NEW e \in Nat, <<p, e>> \in Items,
         results' = Append(results, [item |-> <<p, e>>, key |-> None, ok |-> FALSE])
  PROVE  /\ Cardinality(EntryResults') =
              IF e > 0 THEN Cardinality(EntryResults) + 1 ELSE Cardinality(EntryResults)
         /\ Cardinality(Successes') = Cardinality(Successes)
         /\ Cardinality(Failures') =
              IF Form[p].archive THEN Cardinality(Failures) + 1 ELSE Cardinality(Failures)
<1>1. <<p, e>>[1] = p /\ <<p, e>>[2] = e /\ (OfArchives(<<p, e>>) <=> Form[p].archive)
  BY DEF OfArchives
<1>2. /\ Cardinality(EntryResults') = IF <<p, e>>[2] > 0 THEN Cardinality(EntryResults) + 1
                                       ELSE Cardinality(EntryResults)
      /\ Cardinality(Successes') = IF OfArchives(<<p, e>>) /\ FALSE
           THEN Cardinality(Successes) + 1 ELSE Cardinality(Successes)
      /\ Cardinality(Failures') = IF OfArchives(<<p, e>>) /\ ~FALSE
           THEN Cardinality(Failures) + 1 ELSE Cardinality(Failures)
  BY ReportCounts
<1> QED
  BY <1>1, <1>2

LEMMA CountedInit == Init => Counted
<1> SUFFICES ASSUME Init PROVE Counted
  OBVIOUS
<1>1. EntryResults = {} /\ Successes = {} /\ Failures = {}
  BY DEF Init, EntryResults, Successes, Failures
<1>2. ToReport = 0
  BY DEF Init, ToReport
<1> QED
  BY <1>1, <1>2, FS_EmptySet DEF Init, Counted

LEMMA CountedKept == UploadInv /\ Counted /\ [Next]_vars => Counted'
<1> SUFFICES ASSUME UploadInv, Counted, [Next]_vars PROVE Counted'
  OBVIOUS
<1>0. TypeOK /\ Position /\ Waiting /\ Pool
  BY DEF UploadInv
<1>a. /\ Cardinality(EntryResults) \in Nat /\ Cardinality(Successes) \in Nat
      /\ Cardinality(Failures) \in Nat /\ Len(tasks) \in Nat /\ collected \in Nat
      /\ part \in Nat
  BY <1>0, CountersAreNat DEF TypeOK
<1>b. session \in Counters
  BY <1>0 DEF TypeOK, Counters
<1>c. ASSUME UNCHANGED <<results, session>>, ToReport' = ToReport PROVE Counted'
  BY <1>c DEF Counted, EntryResults, Successes, Failures
<1>d. stage \in {"reading", "responded"} => ToReport = 0
  BY <1>0, <1>a DEF Waiting, Pool, ToReport
<1>1. CASE RefuseFile
  <2>1. /\ part \in Parts /\ ~Form[part].archive
        /\ results' = Append(results, [item |-> <<part, 0>>, key |-> None, ok |-> FALSE])
    BY <1>0, <1>1, PartType DEF RefuseFile, File, Reading, Report
  <2>2. <<part, 0>> \in Items
    BY <2>1, ItemShape
  <2>3. UNCHANGED <<session, tasks, collected>> /\ tasks = <<>> /\ collected = 0
    BY <1>0, <1>1 DEF RefuseFile, File, Reading, Waiting, Pool, poolVars
  <2>4. ToReport' = 0 /\ ToReport = 0
    BY <2>3 DEF ToReport
  <2>5. /\ Cardinality(EntryResults') = Cardinality(EntryResults)
        /\ Cardinality(Successes') = Cardinality(Successes)
        /\ Cardinality(Failures') = Cardinality(Failures)
    BY <1>0, <2>1, <2>2, FailureCounts
  <2> QED
    BY <2>3, <2>4, <2>5 DEF Counted
<1>2. CASE DeferFile \/ SkipEntry \/ OpenArchive
  <2>1. /\ results' = results /\ tasks' = tasks /\ collected' = collected
        /\ session'.extracted = session.extracted
        /\ session'.uploaded = session.uploaded
        /\ session'.failed = session.failed
    BY <1>b, <1>2 DEF DeferFile, SkipEntry, OpenArchive, poolVars, Counters
  <2>2. ToReport' = ToReport
    <3>1. CASE DeferFile
      <4>1. tasks = <<>> /\ collected = 0
        BY <1>0, <3>1 DEF DeferFile, File, Reading, Waiting, Pool
      <4> QED
        BY <2>1, <4>1 DEF ToReport
    <3>2. CASE part' = part
      BY <2>1, <3>2 DEF ToReport, OfFiles
    <3> QED
      BY <1>2, <3>1, <3>2 DEF SkipEntry, OpenArchive
  <2> QED
    BY <2>1, <2>2 DEF Counted, EntryResults, Successes, Failures
<1>3. CASE RefuseArchive
  <2>1. /\ part \in Parts /\ Form[part].archive
        /\ results' = Append(results, [item |-> <<part, 0>>, key |-> None, ok |-> FALSE])
    BY <1>0, <1>3, PartType DEF RefuseArchive, Archive, Reading, Report
  <2>2. <<part, 0>> \in Items
    BY <2>1, ItemShape
  <2>3. UNCHANGED <<tasks, collected>> /\ tasks = <<>> /\ collected = 0
    BY <1>0, <1>3 DEF RefuseArchive, Archive, Reading, Waiting, Pool, poolVars
  <2>4. ToReport' = 0 /\ ToReport = 0
    BY <2>3 DEF ToReport
  <2>5. /\ session'.extracted = session.extracted /\ session'.uploaded = session.uploaded
        /\ session'.failed = session.failed + 1
    BY <1>b, <1>3 DEF RefuseArchive, Counters
  <2>6. /\ Cardinality(EntryResults') = Cardinality(EntryResults)
        /\ Cardinality(Successes') = Cardinality(Successes)
        /\ Cardinality(Failures') = Cardinality(Failures) + 1
    BY <1>0, <2>1, <2>2, FailureCounts
  <2> QED
    BY <1>a, <2>4, <2>5, <2>6 DEF Counted
<1>4. CASE RefuseEntry
  <2>1. /\ <<part, entry>> \in Items /\ Form[part].archive /\ entry \in Nat /\ entry > 0
        /\ results' = Append(results, [item |-> <<part, entry>>, key |-> None, ok |-> FALSE])
    <3>1. /\ Unpacking
          /\ results' = Append(results, [item |-> <<part, entry>>, key |-> None, ok |-> FALSE])
      BY <1>4 DEF RefuseEntry, Report
    <3>2. part \in Parts /\ Form[part].archive /\ entry \in 1..Len(Form[part].entries)
      BY <3>1, EntryType
    <3>3. Len(Form[part].entries) \in Nat
      BY <3>2, FormType
    <3> QED
      BY <3>1, <3>2, <3>3, EntryType
  <2>2. /\ session'.extracted = session.extracted + 1 /\ session'.uploaded = session.uploaded
        /\ session'.failed = session.failed + 1
    BY <1>b, <1>4 DEF RefuseEntry, Counters
  <2>3. ToReport' = ToReport /\ ToReport \in Int
    BY <1>a, <1>4 DEF ToReport, OfFiles, RefuseEntry, poolVars
  <2>4. /\ Cardinality(EntryResults') = Cardinality(EntryResults) + 1
        /\ Cardinality(Successes') = Cardinality(Successes)
        /\ Cardinality(Failures') = Cardinality(Failures) + 1
    BY <1>0, <2>1, FailureCounts
  <2> QED
    BY <1>a, <2>2, <2>3, <2>4 DEF Counted
<1>5. CASE AcceptEntry
  <2>1. /\ results' = results /\ Len(tasks') = Len(tasks) + 1
        /\ UNCHANGED <<part, collected>> /\ part <= Len(Form)
    BY <1>0, <1>5, <1>a, EntryType DEF AcceptEntry, TypeOK, Parts
  <2>2. /\ session'.extracted = session.extracted + 1 /\ session'.uploaded = session.uploaded
        /\ session'.failed = session.failed
    BY <1>b, <1>5 DEF AcceptEntry, Counters
  <2>3. ToReport' = ToReport + 1 /\ ToReport \in Int
    BY <1>a, <2>1 DEF ToReport, OfFiles
  <2> QED
    BY <1>a, <2>1, <2>2, <2>3 DEF Counted, EntryResults, Successes, Failures
<1>6. CASE EndArchive
  <2>1. part \in Parts /\ Form[part].archive /\ <<part, 0>> \in Items
    BY <1>0, <1>6, ItemShape DEF EndArchive, Position
  <2>2. ToReport' = ToReport /\ ToReport \in Int
    BY <1>6, <1>a DEF EndArchive, ToReport, OfFiles, poolVars
  <2>3. CASE Form[part].truncated
    <3>1. /\ session'.extracted = session.extracted /\ session'.uploaded = session.uploaded
          /\ session'.failed = session.failed + 1
          /\ results' = Append(results, [item |-> <<part, 0>>, key |-> None, ok |-> FALSE])
      BY <1>b, <1>6, <2>3 DEF EndArchive, Counters, Report
    <3>2. /\ Cardinality(EntryResults') = Cardinality(EntryResults)
          /\ Cardinality(Successes') = Cardinality(Successes)
          /\ Cardinality(Failures') = Cardinality(Failures) + 1
      BY <1>0, <2>1, <3>1, FailureCounts
    <3> QED
      BY <1>a, <2>2, <3>1, <3>2 DEF Counted
  <2>4. CASE ~Form[part].truncated
    BY <1>6, <1>c, <2>2, <2>4 DEF EndArchive
  <2> QED
    BY <2>3, <2>4
<1>7. CASE StartFiles
  BY <1>7, <1>c DEF StartFiles, ToReport, OfFiles
<1>8. CASE Collect
  <2> DEFINE item == tasks[NextReply.task]
  <2>1. NextReply.task \in 1..Len(tasks) /\ NextReply.ok \in BOOLEAN
    BY <1>8, NextReplyIsReply DEF Collect, Outcomes
  <2>2. item \in Items
    BY <1>0, <2>1 DEF TypeOK
  <2>3. /\ results' = Append(results, [item |-> item, key |-> KeyOf(item), ok |-> NextReply.ok])
        /\ UNCHANGED <<part, tasks>> /\ collected' = collected + 1
    BY <1>8 DEF Collect, Report
  <2> HIDE DEF item
  <2>4. CASE OfFiles
    <3>1. item[2] = 0 /\ ~OfArchives(item) /\ session' = session
      BY <1>0, <1>8, <2>1, <2>4 DEF Waiting, OfArchives, Collect, item
    <3>2. ToReport' = ToReport
      BY <2>3, <2>4 DEF ToReport, OfFiles
    <3> QED
      BY <1>0, <1>a, <2>1, <2>2, <2>3, <3>1, <3>2, ReportCounts DEF Counted
  <2>5. CASE ~OfFiles
    <3>1. item[2] > 0 /\ OfArchives(item)
      BY <1>0, <2>1, <2>2, <2>5, ItemShape DEF Waiting, OfArchives, item
    <3>2. ToReport' = ToReport - 1 /\ ToReport \in Int
      BY <1>a, <2>3, <2>5 DEF ToReport, OfFiles
    <3>3. /\ session'.extracted = session.extracted
          /\ NextReply.ok =>
               session'.uploaded = session.uploaded + 1 /\ session'.failed = session.failed
          /\ ~NextReply.ok =>
               session'.uploaded = session.uploaded /\ session'.failed = session.failed + 1
      BY <1>b, <1>8, <2>5 DEF Collect, Counters
    <3>4. /\ Cardinality(EntryResults') = Cardinality(EntryResults) + 1
          /\ Cardinality(Successes') =
               IF NextReply.ok THEN Cardinality(Successes) + 1 ELSE Cardinality(Successes)
          /\ Cardinality(Failures') =
               IF ~NextReply.ok THEN Cardinality(Failures) + 1 ELSE Cardinality(Failures)
      BY <1>0, <2>1, <2>2, <2>3, <3>1, ReportCounts
    <3>5. CASE NextReply.ok
      BY <1>a, <3>2, <3>3, <3>4, <3>5 DEF Counted
    <3>6. CASE ~NextReply.ok
      BY <1>a, <3>2, <3>3, <3>4, <3>6 DEF Counted
    <3> QED
      BY <3>5, <3>6
  <2> QED
    BY <2>4, <2>5
<1>9. CASE EndPool
  <2>1. collected = Len(tasks) /\ tasks' = <<>> /\ collected' = 0
    BY <1>9 DEF EndPool
  <2>2. ToReport = 0 /\ ToReport' = 0
    BY <1>a, <2>1 DEF ToReport
  <2> QED
    BY <1>9, <1>c, <2>2 DEF EndPool
<1>10. CASE /\ UNCHANGED <<part, tasks, collected, results, session>>
  BY <1>10, <1>c DEF ToReport, OfFiles
<1> QED
  BY <1>1, <1>2, <1>3, <1>4, <1>5, <1>6, <1>7, <1>8, <1>9, <1>10
     DEF Next, HandlerStep, WorkerStep, Dispatch, Resolve, Upload, Reply, Respond, EndContext,
         vars, poolVars

\* The counters of an archive session agree with its results between two parts
\* (uploadArchiveSummary in UploadObject, uploadZipEntries, uploadTarEntries).
THEOREM CountersCorrect == Spec => []SessionAdds
<1>1. UploadInv /\ Counted => SessionAdds
  <2> SUFFICES ASSUME UploadInv, Counted, stage \in {"reading", "responded"}
               PROVE  SessionAdds
    BY DEF SessionAdds
  <2>1. TypeOK /\ Waiting /\ Pool
    BY DEF UploadInv
  <2>2. ToReport = 0
    BY <2>1 DEF Waiting, Pool, ToReport
  <2>3. Cardinality(EntryResults) \in Nat
    BY <2>1, CountersAreNat
  <2> QED
    BY <2>2, <2>3 DEF Counted, SessionAdds, Reported, EntryResults, Successes, Failures
<1>2. Init => Counted
  BY CountedInit
<1> QED
  BY <1>1, <1>2, CountedKept, UploadInvCorrect, PTL DEF Spec

-----------------------------------------------------------------------------
(* Every part is answered once.                                            *)

\* The handler is past an item, and does not have it on a list.
Seen(i) ==
  \/ i[1] < part
  \/ i[1] = part /\ stage = "unpacking" /\ i[2] > 0 /\ i[2] < entry
  \/ i[1] = part /\ stage = "uploading"

Taken(n) == IF OfFiles THEN n <= collected ELSE \E m \in 1..collected : replies[m].task = n

Listed(i) ==
  \/ \E n \in 1..Len(deferred) : deferred[n] = i
  \/ \E n \in 1..Len(tasks) : tasks[n] = i /\ ~Taken(n)

Open(i) == ~Seen(i) \/ Listed(i)

Distinct ==
  /\ \A m, n \in 1..Len(deferred) : deferred[m] = deferred[n] => m = n
  /\ \A m, n \in 1..Len(tasks) : tasks[m] = tasks[n] => m = n

\* Whatever is not open has one verdict.
Judged ==
  \A i \in Answerable :
    /\ Open(i) => Verdicts(i) = {}
    /\ ~Open(i) => Verdicts(i) \in {{TRUE}, {FALSE}}

\* A step answers nothing, or one item that was open.
Quiet ==
  /\ results' = results
  /\ \A i \in Answerable : Open(i)' <=> Open(i)
Answers(i) ==
  /\ \E key : \E ok \in BOOLEAN :
       results' = Append(results, [item |-> i, key |-> key, ok |-> ok])
  /\ stage' # "responded" /\ stage # "responded"
  /\ Open(i) /\ ~Open(i)'
  /\ \A j \in Answerable \ {i} : Open(j)' <=> Open(j)

LEMMA AnswerableType ==
  \A i \in Answerable :
    /\ i \in Items /\ i = <<i[1], i[2]>> /\ i[1] \in Nat /\ i[2] \in Nat /\ i[1] \in Parts
    /\ i[2] > 0 => /\ Form[i[1]].archive /\ Form[i[1]].opens /\ Form[i[1]].readable
                   /\ i[2] \in 1..Len(Form[i[1]].entries)
                   /\ Entry(i[1], i[2]).regular
    /\ i[2] = 0 /\ Form[i[1]].archive =>
         ~Form[i[1]].opens \/ ~Form[i[1]].readable \/ Form[i[1]].truncated
<1> SUFFICES ASSUME NEW i \in Answerable
             PROVE  /\ i \in Items /\ i = <<i[1], i[2]>> /\ i[1] \in Nat /\ i[2] \in Nat
                    /\ i[1] \in Parts
                    /\ i[2] > 0 => /\ Form[i[1]].archive /\ Form[i[1]].opens
                                   /\ Form[i[1]].readable
                                   /\ i[2] \in 1..Len(Form[i[1]].entries)
                                   /\ Entry(i[1], i[2]).regular
                    /\ i[2] = 0 /\ Form[i[1]].archive =>
                         ~Form[i[1]].opens \/ ~Form[i[1]].readable \/ Form[i[1]].truncated
  OBVIOUS
<1>1. i \in Items
  BY DEF Answerable
<1>2. /\ i = <<i[1], i[2]>> /\ i[1] \in Parts /\ i[2] \in Nat
      /\ i[2] > 0 => Form[i[1]].archive /\ i[2] \in 1..Len(Form[i[1]].entries)
  BY <1>1, ItemShape
<1>3. IF i[2] > 0 THEN Form[i[1]].opens /\ Form[i[1]].readable /\ Entry(i[1], i[2]).regular
      ELSE Form[i[1]].archive =>
             ~Form[i[1]].opens \/ ~Form[i[1]].readable \/ Form[i[1]].truncated
  BY DEF Answerable
<1> QED
  BY <1>1, <1>2, <1>3 DEF Parts

LEMMA AppendDistinct ==
  ASSUME NEW S, NEW s \in Seq(S), NEW x \in S,
         \A m, n \in 1..Len(s) : s[m] = s[n] => m = n,
         \A n \in 1..Len(s) : s[n] # x
  PROVE  LET t == Append(s, x) IN \A m, n \in 1..Len(t) : t[m] = t[n] => m = n
<1> DEFINE t == Append(s, x)
<1>1. /\ Len(s) \in Nat /\ Len(t) = Len(s) + 1 /\ t[Len(s) + 1] = x
      /\ \A n \in 1..Len(s) : t[n] = s[n]
  OBVIOUS
<1>2. \A n \in 1..Len(t) : n \in 1..Len(s) \/ n = Len(s) + 1
  BY <1>1
<1> HIDE DEF t
<1>3. \A m, n \in 1..Len(t) : t[m] = t[n] => m = n
  BY <1>1, <1>2
<1> QED
  BY <1>3 DEF t

LEMMA DistinctKept == UploadInv /\ Distinct /\ [Next]_vars => Distinct'
<1> SUFFICES ASSUME UploadInv, Distinct, [Next]_vars PROVE Distinct'
  OBVIOUS
<1>0. TypeOK /\ Waiting
  BY DEF UploadInv
<1>a. /\ deferred \in Seq(Items) /\ tasks \in Seq(Items)
      /\ Len(deferred) \in Nat /\ Len(tasks) \in Nat /\ part \in Nat /\ entry \in Nat
  BY <1>0 DEF TypeOK
<1>b. /\ \A n \in 1..Len(deferred) : deferred[n] \in Items
      /\ \A n \in 1..Len(tasks) : tasks[n] \in Items
  BY <1>a
<1>c. \A i \in Items : i[1] \in Nat /\ i[2] \in Nat
  BY ItemShape DEF Parts
<1>1. CASE DeferFile
  <2>1. deferred' = Append(deferred, <<part, 0>>) /\ tasks' = tasks
    BY <1>1 DEF DeferFile, poolVars
  <2>2. \A n \in 1..Len(deferred) : deferred[n] # <<part, 0>>
    BY <1>0, <1>a, <1>b, <1>c DEF Waiting
  <2>3. <<part, 0>> \in Items
    BY <1>0, <1>1, PartType, ItemShape DEF DeferFile, File, Reading
  <2> QED
    BY SMTT(20), <1>a, <2>1, <2>2, <2>3, AppendDistinct DEF Distinct
<1>2. CASE AcceptEntry
  <2>1. tasks' = Append(tasks, <<part, entry>>) /\ deferred' = deferred /\ stage = "unpacking"
    BY <1>2 DEF AcceptEntry, Unpacking
  <2>2. \A n \in 1..Len(tasks) : tasks[n] # <<part, entry>>
    BY SMTT(20), <1>0, <1>a, <1>b, <1>c, <2>1 DEF Waiting
  <2>3. <<part, entry>> \in Items
    BY <1>2, EntryType DEF AcceptEntry
  <2> QED
    BY <1>a, <2>1, <2>2, <2>3, AppendDistinct DEF Distinct
<1>3. CASE StartFiles
  BY <1>3 DEF Distinct, StartFiles
<1>4. CASE EndPool
  BY <1>4 DEF Distinct, EndPool
<1>5. CASE UNCHANGED <<deferred, tasks>>
  BY <1>5 DEF Distinct
<1> QED
  BY <1>1, <1>2, <1>3, <1>4, <1>5
     DEF Next, HandlerStep, WorkerStep, RefuseFile, RefuseArchive, OpenArchive, SkipEntry,
         RefuseEntry, EndArchive, Dispatch, Resolve, Upload, Reply, Collect, Respond,
         EndContext, vars, poolVars

\* Nothing is taken before the last worker has left, and nothing is left to take
\* when all replies were read.
LEMMA TakenAtBounds ==
  ASSUME UploadInv
  PROVE  /\ collected = 0 => \A n \in 1..Len(tasks) : ~Taken(n)
         /\ Drained /\ collected = Len(tasks) => \A n \in 1..Len(tasks) : Taken(n)
<1>0. Pool /\ Len(tasks) \in Nat /\ collected \in Nat
  BY DEF UploadInv, TypeOK
<1>1. ASSUME collected = 0 PROVE \A n \in 1..Len(tasks) : ~Taken(n)
  BY <1>0, <1>1 DEF Taken
<1>2. ASSUME Drained, collected = Len(tasks), NEW n \in 1..Len(tasks) PROVE Taken(n)
  <2>1. CASE OfFiles
    BY <1>0, <1>2, <2>1 DEF Taken
  <2>2. CASE ~OfFiles
    <3>1. n \in 1..sent /\ working \cup resolved = {} /\ uploaded = {}
      BY <1>2 DEF Drained
    <3>2. \E m \in 1..Len(replies) : replies[m].task = n
      BY <1>0, <3>1 DEF Pool
    <3>3. Len(replies) = collected
      BY <1>2, AllReplied
    <3> QED
      BY <2>2, <3>2, <3>3 DEF Taken
  <2> QED
    BY <2>1, <2>2
<1> QED
  BY <1>1, <1>2

LEMMA OneAnswer ==
  ASSUME UploadInv, Distinct, [Next]_vars
  PROVE  Quiet \/ \E i \in Answerable : Answers(i)
<1>0. TypeOK /\ Position /\ Waiting /\ Pool
  BY DEF UploadInv
<1>a. /\ deferred \in Seq(Items) /\ tasks \in Seq(Items)
      /\ Len(deferred) \in Nat /\ Len(tasks) \in Nat /\ part \in Nat /\ entry \in Nat
      /\ collected \in Nat
  BY <1>0 DEF TypeOK
<1>b. /\ \A n \in 1..Len(deferred) : deferred[n] \in Items
      /\ \A n \in 1..Len(tasks) : tasks[n] \in Items
  BY <1>a
<1>c. \A i \in Items : i[1] \in Nat /\ i[2] \in Nat /\ i = <<i[1], i[2]>>
  BY ItemShape DEF Parts
\* The form is read from part to part.
<1>1. CASE RefuseFile \/ RefuseArchive
  <2> PICK i0 : i0 = <<part, 0>>
    OBVIOUS
  <2>1. /\ part \in Parts /\ part' = part + 1 /\ stage = "reading" /\ stage' = "reading"
        /\ Form[part].archive => ~Form[part].opens \/ ~Form[part].readable
        /\ results' = Append(results, [item |-> i0, key |-> None, ok |-> FALSE])
        /\ UNCHANGED <<deferred, tasks>> /\ tasks = <<>>
    BY <1>0, <1>1, PartType
       DEF RefuseFile, RefuseArchive, File, Archive, Reading, Report, poolVars, Waiting
  <2>2. i0 \in Answerable
    BY <2>1, ItemShape DEF Answerable
  <2>3. \A i : Listed(i) <=> \E n \in 1..Len(deferred) : deferred[n] = i
    BY <2>1 DEF Listed
  <2>4. \A i : Listed(i)' <=> Listed(i)
    BY <2>1, <2>3 DEF Listed
  <2>5. Open(i0) /\ ~Open(i0)'
    <3>1. i0[1] = part /\ ~Seen(i0) /\ Seen(i0)'
      BY <1>a, <2>1 DEF Seen
    <3>2. \A n \in 1..Len(deferred) : deferred[n] # i0
      BY <1>0, <1>a, <3>1 DEF Waiting
    <3> QED
      BY <2>3, <2>4, <3>1, <3>2 DEF Open
  <2>6. \A i \in Answerable \ {i0} : Open(i)' <=> Open(i)
    BY <1>a, <2>1, <2>4, AnswerableType DEF Open, Seen
  <2> QED
    BY <2>1, <2>2, <2>5, <2>6 DEF Answers
<1>2. CASE DeferFile
  <2>1. /\ part \in Parts /\ part' = part + 1 /\ stage = "reading" /\ stage' = "reading"
        /\ ~Form[part].archive
        /\ deferred' = Append(deferred, <<part, 0>>)
        /\ UNCHANGED <<results, tasks>> /\ tasks = <<>>
    BY <1>0, <1>2, PartType DEF DeferFile, File, Reading, poolVars, Waiting
  <2>2. /\ Len(deferred') = Len(deferred) + 1 /\ deferred'[Len(deferred) + 1] = <<part, 0>>
        /\ \A n \in 1..Len(deferred) : deferred'[n] = deferred[n] /\ n \in 1..Len(deferred')
        /\ Len(deferred) + 1 \in 1..Len(deferred')
        /\ \A n \in 1..Len(deferred') : n \in 1..Len(deferred) \/ n = Len(deferred) + 1
    BY <1>a, <2>1
  <2>3. \A i : Listed(i)' <=> Listed(i) \/ i = <<part, 0>>
    BY <2>1, <2>2 DEF Listed
  <2>4. \A i \in Answerable : i[1] = part => i = <<part, 0>>
    BY <2>1, AnswerableType
  <2>5. \A i \in Answerable : Open(i)' <=> Open(i)
    BY <1>a, <2>1, <2>3, <2>4, AnswerableType DEF Open, Seen
  <2> QED
    BY <2>1, <2>5 DEF Quiet
<1>3. CASE OpenArchive
  <2>1. /\ stage = "reading" /\ stage' = "unpacking" /\ entry' = 1
        /\ UNCHANGED <<part, deferred, tasks, results>> /\ tasks = <<>>
    BY <1>0, <1>3 DEF OpenArchive, Archive, Reading, poolVars, Waiting
  <2>2. \A i : Listed(i)' <=> Listed(i)
    BY <2>1 DEF Listed
  <2>3. \A i \in Answerable : Open(i)' <=> Open(i)
    BY <2>1, <2>2, AnswerableType DEF Open, Seen
  <2> QED
    BY <2>1, <2>3 DEF Quiet
\* An archive is read from entry to entry.
<1>4. CASE SkipEntry \/ RefuseEntry
  <2> PICK i0 : i0 = <<part, entry>>
    OBVIOUS
  <2>1. /\ Unpacking /\ stage = "unpacking" /\ entry' = entry + 1 /\ collected = 0
        /\ UNCHANGED <<stage, part, deferred, tasks, collected, replies>>
    BY <1>0, <1>4 DEF SkipEntry, RefuseEntry, Unpacking, poolVars, Pool
  <2>2. /\ part \in Parts /\ Form[part].archive /\ entry > 0
        /\ entry \in 1..Len(Form[part].entries) /\ i0 \in Items
    BY <1>a, <2>1, EntryType
  <2>3. \A i : Listed(i)' <=> Listed(i)
    BY <2>1 DEF Listed, Taken, OfFiles
  <2>4. \A i \in Answerable \ {i0} : Open(i)' <=> Open(i)
    BY <1>a, <2>1, <2>3, AnswerableType DEF Open, Seen
  <2>5. CASE SkipEntry
    <3>1. i0 \notin Answerable
      BY <2>2, <2>5, AnswerableType DEF SkipEntry
    <3> QED
      BY <2>4, <2>5, <3>1 DEF Quiet, SkipEntry
  <2>6. CASE RefuseEntry
    <3>1. /\ Entry(part, entry).regular
          /\ results' = Append(results, [item |-> i0, key |-> None, ok |-> FALSE])
      BY <2>6 DEF RefuseEntry, Report
    <3>2. i0 \in Answerable
      BY <1>0, <2>1, <2>2, <3>1 DEF Answerable, Position
    <3>3. ~Listed(i0)
      BY SMTT(20), <1>0, <1>a, <1>b, <1>c, <2>1, <2>2 DEF Listed, Waiting
    <3>4. ~Seen(i0) /\ Seen(i0)'
      BY <1>a, <2>1, <2>2 DEF Seen
    <3>5. Open(i0) /\ ~Open(i0)'
      BY <2>3, <3>3, <3>4 DEF Open
    <3> QED
      BY <2>1, <2>4, <3>1, <3>2, <3>5 DEF Answers
  <2> QED
    BY <1>4, <2>5, <2>6
<1>5. CASE AcceptEntry
  <2> PICK i0 : i0 = <<part, entry>>
    OBVIOUS
  <2>1. /\ Unpacking /\ stage = "unpacking" /\ entry' = entry + 1 /\ collected = 0
        /\ tasks' = Append(tasks, i0)
        /\ UNCHANGED <<stage, part, deferred, collected, replies, results>>
    BY <1>0, <1>5 DEF AcceptEntry, Unpacking, Pool
  <2>2. /\ Len(tasks') = Len(tasks) + 1 /\ tasks'[Len(tasks) + 1] = i0
        /\ \A n \in 1..Len(tasks) : tasks'[n] = tasks[n] /\ n \in 1..Len(tasks')
        /\ Len(tasks) + 1 \in 1..Len(tasks')
        /\ \A n \in 1..Len(tasks') : n \in 1..Len(tasks) \/ n = Len(tasks) + 1
    BY <1>a, <2>1
  <2>3. /\ \A n \in 1..Len(tasks) : ~Taken(n)
        /\ \A n \in 1..Len(tasks') : ~Taken(n)'
    BY <1>a, <2>1 DEF Taken, OfFiles
  <2>4. \A i : Listed(i)' <=> Listed(i) \/ i = i0
    BY <2>1, <2>2, <2>3 DEF Listed
  <2>5. entry > 0
    BY <1>a, <2>1, EntryType
  <2>6. \A i \in Answerable : Open(i)' <=> Open(i)
    BY <1>a, <2>1, <2>4, <2>5, AnswerableType DEF Open, Seen
  <2> QED
    BY <2>1, <2>6 DEF Quiet
<1>6. CASE EndArchive
  <2> PICK i0 : i0 = <<part, 0>>
    OBVIOUS
  <2>1. /\ stage = "unpacking" /\ stage' = "uploading" /\ entry > Len(Form[part].entries)
        /\ UNCHANGED <<part, deferred, tasks, collected, replies>>
    BY <1>6 DEF EndArchive, poolVars
  <2>2. /\ part \in Parts /\ Form[part].archive /\ Form[part].opens /\ Form[part].readable
        /\ i0 \in Items /\ Len(Form[part].entries) \in Nat
    BY <1>0, <2>1, ItemShape, FormType DEF Position
  <2>3. \A i : Listed(i)' <=> Listed(i)
    BY <2>1 DEF Listed, Taken, OfFiles
  <2>4. \A i \in Answerable \ {i0} : Open(i)' <=> Open(i)
    <3>1. \A i \in Answerable \ {i0} : i[1] = part => i[2] > 0 /\ i[2] < entry
      BY <1>a, <2>1, <2>2, AnswerableType
    <3> QED
      BY <2>1, <2>3, <3>1 DEF Open, Seen
  <2>5. CASE Form[part].truncated
    <3>1. results' = Append(results, [item |-> i0, key |-> None, ok |-> FALSE])
      BY <1>6, <2>5 DEF EndArchive, Report
    <3>2. i0 \in Answerable
      BY <2>2, <2>5 DEF Answerable
    <3>3. ~Listed(i0)
      <4>1. \A n \in 1..Len(deferred) : deferred[n] # i0
        BY <1>0, <1>a, <1>b, <1>c DEF Waiting
      <4>2. ~OfFiles
        BY <1>a, <2>2, FormType DEF OfFiles, Parts
      <4>3. \A n \in 1..Len(tasks) : tasks[n] # i0
        BY <1>0, <1>a, <1>b, <1>c, <4>2 DEF Waiting
      <4> QED
        BY <4>1, <4>3 DEF Listed
    <3>4. ~Seen(i0) /\ Seen(i0)'
      BY <1>a, <2>1 DEF Seen
    <3>5. Open(i0) /\ ~Open(i0)'
      BY <2>3, <3>3, <3>4 DEF Open
    <3> QED
      BY <2>1, <2>4, <3>1, <3>2, <3>5 DEF Answers
  <2>6. CASE ~Form[part].truncated
    <3>1. i0 \notin Answerable
      BY <2>2, <2>6, AnswerableType
    <3> QED
      BY <1>6, <2>4, <2>6, <3>1 DEF Quiet, EndArchive
  <2> QED
    BY <2>5, <2>6
\* The pools.
<1>7. CASE StartFiles
  <2>1. /\ stage = "reading" /\ stage' = "uploading" /\ part' = part /\ OfFiles
        /\ tasks = <<>> /\ tasks' = deferred /\ deferred' = <<>>
        /\ collected = 0 /\ UNCHANGED <<collected, results>>
    BY <1>0, <1>7 DEF StartFiles, Waiting, Pool
  <2>2. \A n \in 1..Len(tasks') : ~Taken(n)'
    BY <1>a, <2>1 DEF Taken, OfFiles
  <2>3. \A i : Listed(i)' <=> Listed(i)
    BY <2>1, <2>2 DEF Listed
  <2>4. \A i \in Answerable : i[1] # part
    BY <1>a, <2>1, AnswerableType, FormType DEF OfFiles, Parts
  <2>5. \A i \in Answerable : Open(i)' <=> Open(i)
    BY <2>1, <2>3, <2>4 DEF Open, Seen
  <2> QED
    BY <2>1, <2>5 DEF Quiet
<1>8. CASE \/ Dispatch \/ Respond \/ EndContext \/ UNCHANGED vars
           \/ \E t \in working : Resolve(t)
           \/ \E t \in resolved : Upload(t)
  <2>1. /\ UNCHANGED <<part, entry, deferred, tasks, collected, replies, results>>
        /\ stage' = stage \/ (stage = "reading" /\ stage' = "responded")
    <3>1. CASE Dispatch \/ Respond \/ EndContext \/ UNCHANGED vars
      BY <3>1 DEF Dispatch, Respond, EndContext, vars, poolVars
    <3>2. CASE \E t \in working : Resolve(t)
      BY <3>2 DEF Resolve
    <3>3. CASE \E t \in resolved : Upload(t)
      BY <3>3 DEF Upload
    <3> QED
      BY <1>8, <3>1, <3>2, <3>3
  <2>2. \A i : Listed(i)' <=> Listed(i)
    BY <2>1 DEF Listed, Taken, OfFiles
  <2>3. \A i \in Answerable : Open(i)' <=> Open(i)
    BY <2>1, <2>2 DEF Open, Seen
  <2> QED
    BY <2>1, <2>3 DEF Quiet
<1>9. CASE \E outcome \in uploaded : Reply(outcome)
  <2>1. UNCHANGED <<stage, part, entry, deferred, tasks, collected, results>> /\ uploaded # {}
    BY <1>9 DEF Reply
  <2>2. collected = 0
    BY <1>0, <1>a, <2>1 DEF Pool, Drained
  <2>3. \A n \in 1..Len(tasks) : Taken(n)' <=> Taken(n)
    BY <2>1, <2>2 DEF Taken, OfFiles
  <2>4. \A i : Listed(i)' <=> Listed(i)
    BY <2>1, <2>3 DEF Listed
  <2>5. \A i \in Answerable : Open(i)' <=> Open(i)
    BY <2>1, <2>4 DEF Open, Seen
  <2> QED
    BY <2>1, <2>5 DEF Quiet
<1>10. CASE Collect
  <2> PICK t0 : t0 = NextReply.task
    OBVIOUS
  <2> PICK i0 : i0 = tasks[t0]
    OBVIOUS
  <2>1. /\ Drained /\ stage = "uploading" /\ stage' = "uploading"
        /\ collected < Len(tasks) /\ collected' = collected + 1
        /\ UNCHANGED <<part, entry, deferred, tasks, replies>>
        /\ results' = Append(results, [item |-> i0, key |-> KeyOf(i0), ok |-> NextReply.ok])
    BY <1>10 DEF Collect, Drained, Report
  <2>2. t0 \in 1..Len(tasks) /\ NextReply.ok \in BOOLEAN /\ Len(replies) = Len(tasks)
    BY <2>1, NextReplyIsReply, AllReplied DEF Outcomes
  <2>3. ~Taken(t0) /\ \A n \in 1..Len(tasks) : Taken(n)' <=> Taken(n) \/ n = t0
    <3>1. CASE OfFiles
      <4>1. t0 = collected + 1
        BY <2>1, <3>1, NextReplyIsReply
      <4> QED
        BY <1>a, <2>1, <3>1, <4>1 DEF Taken, OfFiles
    <3>2. CASE ~OfFiles
      <4>1. t0 = replies[collected + 1].task /\ collected + 1 \in 1..Len(replies)
        BY <1>a, <2>1, <2>2, <3>2 DEF NextReply
      <4>2. \A m \in 1..collected : m \in 1..Len(replies) /\ m # collected + 1
        BY <1>a, <2>1, <2>2
      <4>3. \A m \in 1..collected : replies[m].task # t0
        BY <1>0, <4>1, <4>2 DEF Pool
      <4>4. \A m : m \in 1..collected' <=> m \in 1..collected \/ m = collected + 1
        BY <1>a, <2>1
      <4> QED
        BY <2>1, <3>2, <4>1, <4>3, <4>4 DEF Taken, OfFiles
    <3> QED
      BY <3>1, <3>2
  <2>4. i0 \in Items /\ i0[1] \in Parts /\ i0[1] \in Nat /\ i0[2] \in Nat
    BY <1>b, <2>2, ItemShape DEF Parts
  <2>5. i0 \in Answerable
    <3>1. CASE OfFiles
      BY <1>0, <2>2, <2>4, <3>1 DEF Waiting, Answerable
    <3>2. CASE ~OfFiles
      BY <1>0, <2>1, <2>2, <2>4, <3>2 DEF Waiting, Position, Answerable
    <3> QED
      BY <3>1, <3>2
  <2>6. Seen(i0) /\ Seen(i0)'
    <3>1. CASE OfFiles
      <4>1. i0[1] < part
        BY <1>a, <2>4, <3>1, FormType DEF OfFiles, Parts
      <4> QED
        BY <2>1, <4>1 DEF Seen
    <3>2. CASE ~OfFiles
      <4>1. i0[1] = part
        BY <1>0, <2>2, <3>2 DEF Waiting
      <4> QED
        BY <2>1, <4>1 DEF Seen
    <3> QED
      BY <3>1, <3>2
  <2>7. \A n \in 1..Len(deferred) : deferred[n] # i0
    <3>1. CASE OfFiles
      BY <1>0, <2>1, <3>1 DEF Position
    <3>2. CASE ~OfFiles
      BY <1>0, <1>b, <1>c, <2>2, <2>4, <3>2 DEF Waiting
    <3> QED
      BY <3>1, <3>2
  <2>8. Listed(i0) /\ ~Listed(i0)'
    <3>1. Listed(i0)
      BY <2>2, <2>3 DEF Listed
    <3>2. \A n \in 1..Len(tasks) : tasks[n] = i0 => n = t0
      BY <2>2 DEF Distinct
    <3>3. Taken(t0)'
      BY <2>2, <2>3
    <3> QED
      BY <2>1, <2>7, <3>1, <3>2, <3>3 DEF Listed
  <2>9. \A i \in Answerable \ {i0} : Listed(i)' <=> Listed(i)
    BY <2>1, <2>2, <2>3 DEF Listed
  <2>10. \A i \in Answerable \ {i0} : Open(i)' <=> Open(i)
    BY <2>1, <2>9 DEF Open, Seen
  <2>11. Open(i0) /\ ~Open(i0)'
    BY <2>6, <2>8 DEF Open
  <2> QED
    BY <2>1, <2>2, <2>5, <2>10, <2>11 DEF Answers
<1>11. CASE EndPool
  <2>1. /\ Drained /\ collected = Len(tasks) /\ stage = "uploading" /\ stage' = "reading"
        /\ part' = IF OfFiles THEN part ELSE part + 1
        /\ tasks' = <<>> /\ UNCHANGED <<entry, deferred, results>>
    BY <1>11 DEF EndPool, Drained
  <2>2. \A n \in 1..Len(tasks) : Taken(n)
    BY <2>1, TakenAtBounds
  <2>3. \A i : Listed(i)' <=> Listed(i)
    BY <2>1, <2>2 DEF Listed
  <2>4. \A i \in Answerable : Seen(i)' <=> Seen(i)
    <3>1. CASE OfFiles
      <4>1. \A i \in Answerable : i[1] # part
        BY <1>a, <3>1, AnswerableType, FormType DEF OfFiles, Parts
      <4> QED
        BY <2>1, <3>1, <4>1 DEF Seen
    <3>2. CASE ~OfFiles
      BY <1>a, <2>1, <3>2, AnswerableType DEF Seen
    <3> QED
      BY <3>1, <3>2
  <2>5. \A i \in Answerable : Open(i)' <=> Open(i)
    BY <2>3, <2>4 DEF Open
  <2> QED
    BY <2>1, <2>5 DEF Quiet
<1> QED
  BY <1>1, <1>2, <1>3, <1>4, <1>5, <1>6, <1>7, <1>8, <1>9, <1>10, <1>11
     DEF Next, HandlerStep, WorkerStep

LEMMA VerdictsAppend ==
  ASSUME TypeOK, NEW i0, NEW key, NEW ok \in BOOLEAN,
         results' = Append(results, [item |-> i0, key |-> key, ok |-> ok])
  PROVE  \A i : Verdicts(i)' = IF i = i0 THEN Verdicts(i) \cup {ok} ELSE Verdicts(i)
<1> DEFINE r == [item |-> i0, key |-> key, ok |-> ok]
           N == Len(results)
<1>1. results \in Seq([item : Items, key : Keys \cup {None}, ok : BOOLEAN])
  BY DEF TypeOK
<1>2. /\ N \in Nat /\ Len(results') = N + 1 /\ results'[N + 1] = r
      /\ \A n \in 1..N : results'[n] = results[n]
      /\ 1..(N + 1) = (1..N) \cup {N + 1}
  BY <1>1
<1>3. r.item = i0 /\ r.ok = ok
  OBVIOUS
<1> HIDE DEF r
<1> SUFFICES ASSUME NEW i
             PROVE  Verdicts(i)' = IF i = i0 THEN Verdicts(i) \cup {ok} ELSE Verdicts(i)
  OBVIOUS
<1> DEFINE Old == {m \in 1..N : results[m].item = i}
           New == {m \in 1..(N + 1) : results'[m].item = i}
<1>4. Verdicts(i) = {results[n].ok : n \in Old} /\ Verdicts(i)' = {results'[n].ok : n \in New}
  BY <1>2 DEF Verdicts
<1>5. \A n \in Old : results'[n] = results[n]
  BY <1>2
<1>6. CASE i = i0
  <2>1. New = Old \cup {N + 1}
    BY <1>2, <1>3, <1>6
  <2> QED
    BY <1>2, <1>3, <1>4, <1>5, <1>6, <2>1
<1>7. CASE i # i0
  <2>1. New = Old
    BY <1>2, <1>3, <1>7
  <2> QED
    BY <1>4, <1>5, <1>7, <2>1
<1> QED
  BY <1>6, <1>7

LEMMA JudgedInit == Init => Distinct /\ Judged
<1> SUFFICES ASSUME Init PROVE Distinct /\ Judged
  OBVIOUS
<1>1. Distinct
  BY DEF Init, Distinct
<1>2. \A i : Verdicts(i) = {}
  BY DEF Init, Verdicts
<1>3. \A i \in Answerable : ~Seen(i)
  BY AnswerableType DEF Init, Seen, Parts
<1> QED
  BY <1>1, <1>2, <1>3 DEF Judged, Open

LEMMA JudgedKept == UploadInv /\ Distinct /\ Judged /\ [Next]_vars => Judged'
<1> SUFFICES ASSUME UploadInv, Distinct, Judged, [Next]_vars PROVE Judged'
  OBVIOUS
<1>1. CASE Quiet
  <2>1. \A i : Verdicts(i)' = Verdicts(i)
    BY <1>1 DEF Quiet, Verdicts
  <2> QED
    BY <1>1, <2>1 DEF Quiet, Judged
<1>2. CASE \E i \in Answerable : Answers(i)
  <2> PICK i0 \in Answerable : Answers(i0)
    BY <1>2
  <2> PICK key : \E ok \in BOOLEAN :
                   results' = Append(results, [item |-> i0, key |-> key, ok |-> ok])
    BY DEF Answers
  <2> PICK ok \in BOOLEAN : results' = Append(results, [item |-> i0, key |-> key, ok |-> ok])
    OBVIOUS
  <2>1. \A i : Verdicts(i)' = IF i = i0 THEN Verdicts(i) \cup {ok} ELSE Verdicts(i)
    BY VerdictsAppend DEF UploadInv
  <2>2. Verdicts(i0) = {} /\ ~Open(i0)'
    BY DEF Judged, Answers
  <2>3. Verdicts(i0)' \in {{TRUE}, {FALSE}}
    BY <2>1, <2>2
  <2>4. \A i \in Answerable \ {i0} : Verdicts(i)' = Verdicts(i) /\ (Open(i)' <=> Open(i))
    BY <2>1 DEF Answers
  <2> QED
    BY <2>2, <2>3, <2>4 DEF Judged
<1> QED
  BY <1>1, <1>2, OneAnswer

LEMMA JudgedMeansDecided ==
  \A i \in Answerable :
    /\ Verdicts(i) = {} => decided[i] = "open"
    /\ Verdicts(i) = {TRUE} => decided[i] = "success"
    /\ Verdicts(i) = {FALSE} => decided[i] = "failure"
<1>1. {TRUE} # {} /\ {FALSE} # {} /\ {TRUE} # {FALSE}
  OBVIOUS
<1> QED
  BY <1>1 DEF decided

LEMMA StepMapped ==
  ASSUME UploadInv, Distinct, Judged, [Next]_vars
  PROVE  [ItemList!ItemsNext]_(ItemList!itemVars)
<1>0. TypeOK /\ Position /\ Waiting
  BY DEF UploadInv
<1>1. CASE \E i \in Answerable : Answers(i)
  <2> PICK i0 \in Answerable : Answers(i0)
    BY <1>1
  <2> PICK key : \E ok \in BOOLEAN :
                   results' = Append(results, [item |-> i0, key |-> key, ok |-> ok])
    BY DEF Answers
  <2> PICK ok \in BOOLEAN : results' = Append(results, [item |-> i0, key |-> key, ok |-> ok])
    OBVIOUS
  <2>1. \A i : Verdicts(i)' = IF i = i0 THEN Verdicts(i) \cup {ok} ELSE Verdicts(i)
    BY VerdictsAppend DEF UploadInv
  <2>2. Verdicts(i0) = {} /\ Verdicts(i0)' = {ok}
    BY <2>1 DEF Judged, Answers
  <2>3. (stage' = "responded") = (stage = "responded")
    BY DEF Answers
  <2> DEFINE verdict == IF ok THEN "success" ELSE "failure"
  <2>4. decided[i0] = "open" /\ decided'[i0] = verdict
    BY <2>2, JudgedMeansDecided DEF decided
  <2>5. decided' = [decided EXCEPT ![i0] = verdict]
    BY <2>1, <2>4 DEF decided
  <2>6. ItemList!Decide(i0, verdict)
    BY <2>3, <2>4, <2>5 DEF ItemList!Decide
  <2> QED
    BY <2>6 DEF ItemList!ItemsNext
<1>2. CASE Quiet
  <2>1. decided' = decided
    BY <1>2 DEF Quiet, decided, Verdicts
  <2>2. CASE Respond
    <3>1. stage = "reading" /\ stage' = "responded" /\ OfFiles /\ deferred = <<>> /\ tasks = <<>>
      BY <1>0, <2>2 DEF Respond, Waiting
    <3>2. \A i \in Answerable : ~Open(i)
      BY SMTT(20), <1>0, <3>1, AnswerableType, FormType DEF Open, Seen, Listed, OfFiles, Parts, TypeOK
    <3>3. \A i \in Answerable : decided[i] # "open"
      BY <3>2, JudgedMeansDecided DEF Judged
    <3>4. ItemList!Return
      BY <2>1, <3>1, <3>3 DEF ItemList!Return
    <3> QED
      BY <3>4 DEF ItemList!ItemsNext
  <2>3. CASE (stage' = "responded") = (stage = "responded")
    BY <2>1, <2>3 DEF ItemList!itemVars
  <2>4. Respond \/ (stage' = "responded") = (stage = "responded")
    BY DEF Next, HandlerStep, WorkerStep, RefuseFile, DeferFile, RefuseArchive, OpenArchive,
           File, Archive, Reading, SkipEntry, RefuseEntry, AcceptEntry, Unpacking, EndArchive,
           StartFiles, Dispatch, Resolve, Upload, Reply, Collect, EndPool, Drained, EndContext,
           vars, poolVars
  <2> QED
    BY <2>2, <2>3, <2>4
<1> QED
  BY <1>1, <1>2, OneAnswer

\* Every file, every regular entry and every defect of an archive gets one result,
\* which stays, and the request is answered after the last of them
\* (appendUploadResult in UploadObject and its pools).
THEOREM AnswersOnce == Spec => ItemList!ItemsSafeSpec
<1>1. Init => ItemList!ItemsInit
  <2> SUFFICES ASSUME Init PROVE ItemList!ItemsInit
    OBVIOUS
  <2>1. \A i : Verdicts(i) = {}
    BY DEF Init, Verdicts
  <2> QED
    BY <2>1 DEF Init, decided, ItemList!ItemsInit
<1>2. Init => Distinct /\ Judged
  BY JudgedInit
<1>3. UploadInv /\ Distinct /\ Judged /\ [Next]_vars => Distinct' /\ Judged'
  BY DistinctKept, JudgedKept
<1>4. UploadInv /\ Distinct /\ Judged /\ [Next]_vars =>
        [ItemList!ItemsNext]_(ItemList!itemVars)
  BY StepMapped
<1> QED
  BY <1>1, <1>2, <1>3, <1>4, UploadInvCorrect, PTL DEF Spec, ItemList!ItemsSafeSpec
=============================================================================
