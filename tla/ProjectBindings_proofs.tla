----------------------- MODULE ProjectBindings_proofs -----------------------
(***************************************************************************)
(* ProjectBindings for any number of overlapping edits and any lists they  *)
(* submit: types, the well-formedness of the bucket rows with their        *)
(* credentials, their replacement as a whole, the CDNs of one edit staying *)
(* together, and referential integrity.                                    *)
(*                                                                         *)
(* The argument is the lock on the project's row.  Whoever has written     *)
(* that row is the only transaction that can change the buckets until it   *)
(* ends, so what it listed is everything there is when it deletes.         *)
(***************************************************************************)
EXTENDS ProjectBindings, TLAPS

\* Rows as creation and edits leave them: a valid list, each with a credential
\* that was supplied for its provider, but for those created as KEEP.
Credentialed(rows) ==
  \A row \in rows :
    \/ row.ciphertext \in Secrets /\ row.ciphertext[2] = row.provider
    \/ row.by = Origin /\ row.ciphertext = NoCiphertext
Proper(rows) == Valid(rows) /\ Credentialed(rows)

\* Every edit begins by reading a project that is there.
NothingYet == pc[Origin] = "ready" => ~exists /\ \A e \in Calls : pc[e] = "ready"
LockHeld == \A e \in Calls : pc[e] \in InTransaction <=> lock = e
ListComplete == \A e \in Calls : pc[e] = "listed" => bucketRows \subseteq listed[e].buckets
CopiesProper == \A e \in Calls : Proper(snap[e]) /\ Proper(plan[e].buckets)

BucketInv == NothingYet /\ Proper(bucketRows) /\ LockHeld /\ ListComplete /\ CopiesProper

-----------------------------------------------------------------------------
(* Resolution of the submitted bindings.                                   *)

UniqueNames(rows) == \A a, b \in rows : a.name = b.name => a = b

LEMMA ValidUnique == ASSUME NEW rows, Valid(rows) PROVE UniqueNames(rows)
  BY DEF Valid, UniqueNames

\* Rows written one for each binding, under its name, are valid like the bindings.
LEMMA ImageValid ==
  ASSUME NEW bindings, Valid(bindings), NEW rowOf,
         \A b \in bindings : rowOf[b].name = b.name /\ rowOf[b].primary = b.primary
  PROVE  Valid({rowOf[b] : b \in bindings})
<1> DEFINE new == {rowOf[b] : b \in bindings}
<1>1. \A x \in new : \E b \in bindings : x = rowOf[b]
  OBVIOUS
<1>2. ASSUME NEW x \in new, NEW y \in new, NEW z \in new PROVE x = y \/ y = z \/ x = z
  <2>1. PICK a \in bindings, b \in bindings, c \in bindings :
          x = rowOf[a] /\ y = rowOf[b] /\ z = rowOf[c]
    BY <1>1
  <2> QED
    BY <2>1 DEF Valid
<1>3. ASSUME NEW x \in new, NEW y \in new, x.name = y.name PROVE x = y
  BY <1>1, <1>3 DEF Valid
<1>4. ASSUME new # {}
      PROVE  \E x \in new : \A y \in new : y.primary <=> y = x
  <2>1. PICK a \in bindings : \A b \in bindings : b.primary <=> b = a
    BY <1>1, <1>4 DEF Valid
  <2>2. ASSUME NEW y \in new PROVE y.primary <=> y = rowOf[a]
    <3>1. PICK b \in bindings : y = rowOf[b]
      BY <1>1
    <3>2. /\ y.primary = b.primary /\ rowOf[a].primary = a.primary
          /\ b.primary <=> b = a
          /\ a.primary <=> a = a
      BY <2>1, <3>1
    <3> QED
      BY <3>1, <3>2
  <2> QED
    BY <2>2
<1> HIDE DEF new
<1> QED
  <2>1. Valid(new)
    BY <1>2, <1>3, <1>4 DEF Valid
  <2> QED
    BY <2>1 DEF new

LEMMA ProperEmpty == Proper({})
  BY DEF Proper, Valid, Credentialed

LEMMA CiphertextConstants ==
  /\ NoCiphertext \in Ciphertexts /\ EmptyText \in Ciphertexts
  /\ \A e \in Writers, p \in Providers : <<e, p>> \in Ciphertexts /\ <<e, p>> \in Secrets
  BY DEF Ciphertexts, Secrets

\* An acceptable binding resolves to exactly one row, of its name.
LEMMA OneRow ==
  ASSUME NEW e \in Calls, NEW b, NEW snapshot, UniqueNames(snapshot), Acceptable(b, snapshot)
  PROVE  /\ ResolvedRows(e, b, snapshot) # {}
         /\ \A x, y \in ResolvedRows(e, b, snapshot) : x = y
         /\ \A x \in ResolvedRows(e, b, snapshot) : x.name = b.name /\ x.primary = b.primary
<1>1. CASE Operation(b, snapshot) = "KEEP"
  <2>1. PICK row \in snapshot : row.name = b.from
    BY <1>1 DEF Acceptable, Existing
  <2>2. \A x \in snapshot : x.name = b.from => x = row
    BY <2>1 DEF UniqueNames
  <2>3. Existing(b, snapshot) = {row}
    BY <2>1, <2>2 DEF Existing
  <2>4. {x.ciphertext : x \in Existing(b, snapshot)} = {row.ciphertext}
    BY <2>3
  <2>5. ResolvedRows(e, b, snapshot) =
          {[by |-> e, name |-> b.name, provider |-> b.provider, primary |-> b.primary,
            ciphertext |-> row.ciphertext]}
    BY <1>1, <2>4 DEF ResolvedRows
  <2>6. \A x \in ResolvedRows(e, b, snapshot) : x.name = b.name /\ x.primary = b.primary
    BY <2>5
  <2> QED
    BY <2>5, <2>6
<1>2. CASE Operation(b, snapshot) # "KEEP"
  <2>1. ResolvedRows(e, b, snapshot) =
          {[by |-> e, name |-> b.name, provider |-> b.provider, primary |-> b.primary,
            ciphertext |-> <<e, b.provider>>]}
    BY <1>2 DEF ResolvedRows
  <2>2. \A x \in ResolvedRows(e, b, snapshot) : x.name = b.name /\ x.primary = b.primary
    BY <2>1
  <2> QED
    BY <2>1, <2>2
<1> QED
  BY <1>1, <1>2

LEMMA ResolvedType ==
  ASSUME NEW names, NEW e \in Calls, NEW snapshot, snapshot \subseteq Rows(names),
         NEW bindings, bindings \in SUBSET Inputs(names)
  PROVE  Resolved(e, bindings, snapshot) \subseteq Rows(names)
<1> SUFFICES ASSUME NEW b \in bindings, NEW row \in ResolvedRows(e, b, snapshot)
             PROVE  row \in Rows(names)
  BY DEF Resolved
<1>1. b \in Inputs(names)
  OBVIOUS
<1>2. PICK c \in Ciphertexts :
        row = [by |-> e, name |-> b.name, provider |-> b.provider, primary |-> b.primary,
               ciphertext |-> c]
  BY <1>1, CiphertextConstants DEF ResolvedRows, Existing, Rows, Inputs, Writers
<1> QED
  BY <1>1, <1>2 DEF Rows, Inputs, Writers

LEMMA ResolvedValid ==
  ASSUME NEW e \in Calls, NEW snapshot, UniqueNames(snapshot),
         NEW bindings, Valid(bindings), \A b \in bindings : Acceptable(b, snapshot)
  PROVE  Valid(Resolved(e, bindings, snapshot))
<1> DEFINE rowOf == [b \in bindings |-> CHOOSE x : x \in ResolvedRows(e, b, snapshot)]
<1>1. \A b \in bindings :
        /\ ResolvedRows(e, b, snapshot) # {}
        /\ \A x, y \in ResolvedRows(e, b, snapshot) : x = y
        /\ \A x \in ResolvedRows(e, b, snapshot) : x.name = b.name /\ x.primary = b.primary
  BY OneRow
<1>2. \A b \in bindings : rowOf[b] \in ResolvedRows(e, b, snapshot)
  BY <1>1
<1> HIDE DEF rowOf
<1>3. \A b \in bindings : ResolvedRows(e, b, snapshot) = {rowOf[b]}
  BY <1>1, <1>2
<1>4. Resolved(e, bindings, snapshot) = {rowOf[b] : b \in bindings}
  BY <1>3 DEF Resolved
<1>5. Valid({rowOf[b] : b \in bindings})
  BY <1>1, <1>2, ImageValid
<1> QED
  BY <1>4, <1>5

LEMMA ResolvedProper ==
  ASSUME NEW e \in Calls, NEW snapshot, Proper(snapshot),
         NEW bindings \in BucketInputs, Valid(bindings),
         \A b \in bindings : Acceptable(b, snapshot)
  PROVE  Proper(Resolved(e, bindings, snapshot))
<1> DEFINE new == Resolved(e, bindings, snapshot)
<1>1. Valid(snapshot) /\ Credentialed(snapshot)
  BY DEF Proper
<1>2. \A row \in new : \E b \in bindings : row \in ResolvedRows(e, b, snapshot)
  BY DEF Resolved
<1>4. Valid(new)
  BY <1>1, ValidUnique, ResolvedValid
<1>5. Credentialed(new)
  <2> SUFFICES ASSUME NEW b \in bindings, NEW row \in ResolvedRows(e, b, snapshot)
               PROVE  row.ciphertext \in Secrets /\ row.ciphertext[2] = row.provider
    BY <1>2 DEF Credentialed
  <2>1. CASE Operation(b, snapshot) = "KEEP"
    <3>1. PICK old \in Existing(b, snapshot) :
            old.provider = b.provider /\ old.ciphertext # NoCiphertext
      BY <2>1 DEF Acceptable
    <3>2. Existing(b, snapshot) = {old}
      BY <1>1, <3>1 DEF Existing, Valid
    <3>3. row.ciphertext = old.ciphertext /\ row.provider = b.provider
      BY <2>1, <3>2 DEF ResolvedRows
    <3> QED
      BY <1>1, <3>1, <3>3 DEF Credentialed, Existing
  <2>2. CASE Operation(b, snapshot) # "KEEP"
    <3>1. row.ciphertext = <<e, b.provider>> /\ row.provider = b.provider
      BY <2>2 DEF ResolvedRows
    <3>2. b.provider \in Providers
      BY InputsAssumption DEF Inputs
    <3> QED
      BY <3>1, <3>2, CiphertextConstants DEF Writers
  <2> QED
    BY <2>1, <2>2
<1> QED
  BY <1>4, <1>5 DEF Proper

-----------------------------------------------------------------------------
(* The type invariant.                                                     *)

LEMMA UnresolvedType ==
  ASSUME NEW names, NEW e \in Writers, NEW b \in Inputs(names)
  PROVE  UnresolvedRow(e, b) \in Rows(names)
  BY CiphertextConstants DEF UnresolvedRow, Rows, Inputs

LEMMA NoRowsType == NoRows \in [buckets : SUBSET BucketRows, cdns : SUBSET CDNRows]
  BY DEF NoRows

LEMMA CreatedType ==
  /\ \A bs \in BucketCreations : Created(bs) \subseteq BucketRows
  /\ \A cs \in CDNCreations : Created(cs) \subseteq CDNRows
<1>1. \A bs \in BucketCreations : Created(bs) \subseteq BucketRows
  BY InputsAssumption, UnresolvedType DEF Created, BucketRows, Writers
<1>2. \A cs \in CDNCreations : Created(cs) \subseteq CDNRows
  BY InputsAssumption, UnresolvedType DEF Created, CDNRows, Writers
<1> QED
  BY <1>1, <1>2

LEMMA TypeInit == Init => TypeOK
  BY NoRowsType DEF Init, TypeOK

LEMMA FinishType ==
  ASSUME TypeOK, NEW e \in Calls, NEW step \in {"done", "failed"}, Finish(e, step)
  PROVE  /\ lock' \in Calls \cup {None}
         /\ pc' \in [Writers -> Running \cup {"ready", "done", "failed"}]
         /\ snap' \in [Calls -> SUBSET BucketRows]
         /\ loaded' \in [Calls -> BOOLEAN]
         /\ plan' \in [Calls -> [buckets : SUBSET BucketRows, cdns : SUBSET CDNRows]]
         /\ listed' \in [Calls -> [buckets : SUBSET BucketRows, cdns : SUBSET CDNRows]]
  BY NoRowsType DEF Finish, Goto, TypeOK, Writers

LEMMA TypeStep == TypeOK /\ [Next]_vars => TypeOK'
<1> SUFFICES ASSUME TypeOK, [Next]_vars PROVE TypeOK'
  OBVIOUS
<1> USE DEF TypeOK, tableVars, Goto, Running, InTransaction, Writers
<1>1. ASSUME NEW e \in Calls, LoadBuckets(e) PROVE TypeOK'
  BY <1>1 DEF LoadBuckets
<1>2. ASSUME NEW e \in Calls, NEW bs \in BucketInputs, NEW cs \in CDNInputs,
             ResolveBindings(e, bs, cs)
      PROVE  TypeOK'
  <2>1. /\ Resolved(e, bs, snap[e]) \subseteq BucketRows
        /\ Resolved(e, cs, cdnRows) \subseteq CDNRows
    BY InputsAssumption, ResolvedType DEF BucketRows, CDNRows
  <2> QED
    BY <1>2, <2>1 DEF ResolveBindings
<1>3. ASSUME NEW e \in Calls, SaveProject(e) PROVE TypeOK'
  BY <1>3 DEF SaveProject
<1>4. ASSUME NEW e \in Calls, ListBindings(e) PROVE TypeOK'
  BY <1>4 DEF ListBindings
<1>5. ASSUME NEW e \in Calls, ReplaceBindings(e) PROVE TypeOK'
  BY <1>5, FinishType DEF ReplaceBindings
<1>6. ASSUME NEW e \in Calls, NEW cs \in CDNInputs, SubmitCDNs(e, cs) PROVE TypeOK'
  <2>1. {UnresolvedRow(e, c) : c \in cs} \subseteq CDNRows
    BY InputsAssumption, UnresolvedType DEF CDNRows, Writers
  <2> QED
    BY <1>6, <2>1 DEF SubmitCDNs
<1>7. ASSUME NEW e \in Calls, ListCDNs(e) PROVE TypeOK'
  BY <1>7 DEF ListCDNs
<1>8. ASSUME NEW e \in Calls, ReplaceCDNs(e) PROVE TypeOK'
  BY <1>8, FinishType DEF ReplaceCDNs
<1>9. ASSUME NEW e \in Calls, Fail(e) PROVE TypeOK'
  BY <1>9, FinishType DEF Fail
<1>10. CASE DeleteProject
  BY <1>10 DEF DeleteProject
<1>11. ASSUME NEW bs \in BucketCreations, NEW cs \in CDNCreations, Create(bs, cs)
       PROVE  TypeOK'
  BY <1>11, CreatedType DEF Create
<1>12. CASE UNCHANGED vars
  BY <1>12 DEF vars
<1> QED
  BY <1>1, <1>2, <1>3, <1>4, <1>5, <1>6, <1>7, <1>8, <1>9, <1>10, <1>11, <1>12
  DEF Next, UpdateStep, UpdateCDNsStep

\* Every variable keeps its type, for every instance.
THEOREM TypeCorrect == Spec => []TypeOK
  BY TypeInit, TypeStep, PTL DEF Spec

-----------------------------------------------------------------------------
(* The inductive invariant of the buckets.                                 *)

\* UpdateCDNs and Create write one row for each binding.
LEMMA UnresolvedValid ==
  ASSUME NEW e, NEW bindings, Valid(bindings)
  PROVE  Valid({UnresolvedRow(e, b) : b \in bindings})
<1> DEFINE rowOf == [b \in bindings |-> UnresolvedRow(e, b)]
<1>1. \A b \in bindings : rowOf[b].name = b.name /\ rowOf[b].primary = b.primary
  BY DEF UnresolvedRow
<1>2. {rowOf[b] : b \in bindings} = {UnresolvedRow(e, b) : b \in bindings}
  OBVIOUS
<1> HIDE DEF rowOf
<1>3. Valid({rowOf[b] : b \in bindings})
  BY <1>1, ImageValid
<1> QED
  BY <1>2, <1>3

\* The credential of a created bucket is stored, unless it is marked KEEP.
LEMMA CreatedProper ==
  ASSUME NEW bs \in BucketCreations, Valid(bs), \A b \in bs : b.secret
  PROVE  Proper(Created(bs))
<1>1. ASSUME NEW b \in bs
      PROVE  /\ UnresolvedRow(Origin, b).by = Origin
             /\ UnresolvedRow(Origin, b).provider = b.provider
             /\ UnresolvedRow(Origin, b).ciphertext \in {NoCiphertext, <<Origin, b.provider>>}
  BY DEF UnresolvedRow
<1>2. \A b \in bs : <<Origin, b.provider>> \in Secrets
  BY InputsAssumption, CiphertextConstants DEF Inputs, Writers
<1>3. Credentialed(Created(bs))
  BY <1>1, <1>2 DEF Credentialed, Created
<1>4. Valid(Created(bs))
  BY UnresolvedValid DEF Created
<1> QED
  BY <1>3, <1>4 DEF Proper

LEMMA BucketInit == Init => BucketInv
<1> SUFFICES ASSUME Init PROVE BucketInv
  OBVIOUS
<1>1. Proper(bucketRows) /\ NothingYet
  BY ProperEmpty DEF Init, NothingYet, Writers
<1>2. LockHeld
  BY NoneAssumption DEF Init, LockHeld, InTransaction, Writers
<1>3. ListComplete
  BY DEF Init, ListComplete, Writers
<1>4. CopiesProper
  BY ProperEmpty DEF Init, CopiesProper, NoRows
<1> QED
  BY <1>1, <1>2, <1>3, <1>4 DEF BucketInv

LEMMA FinishInv ==
  ASSUME TypeOK, BucketInv, NEW e \in Calls, NEW step \in {"done", "failed"}, Finish(e, step)
  PROVE  /\ LockHeld' /\ CopiesProper' /\ pc'[Origin] = pc[Origin]
         /\ \A f \in Calls : pc'[f] = "listed" => pc[f] = "listed" /\ listed'[f] = listed[f]
<1> USE OriginAssumption DEF Finish, Goto, TypeOK, BucketInv, Writers
<1>1. LockHeld'
  BY NoneAssumption DEF LockHeld, InTransaction
<1>2. CopiesProper'
  BY ProperEmpty DEF CopiesProper, NoRows
<1> QED
  BY <1>1, <1>2

LEMMA BucketStep == TypeOK /\ BucketInv /\ [Next]_vars => BucketInv'
<1> SUFFICES ASSUME TypeOK, BucketInv, [Next]_vars PROVE BucketInv'
  OBVIOUS
<1> USE OriginAssumption DEF TypeOK, BucketInv, tableVars, Goto, Writers
<1>0. ASSUME NEW bs \in BucketCreations, NEW cs \in CDNCreations, Create(bs, cs)
      PROVE  BucketInv'
  <2>1. Proper(bucketRows')
    BY <1>0, CreatedProper DEF Create
  <2>2. \A e \in Calls : pc'[e] = pc[e]
    BY <1>0 DEF Create
  <2>3. NothingYet' /\ ListComplete'
    BY <1>0, <2>2 DEF Create, NothingYet, ListComplete
  <2>4. LockHeld' /\ CopiesProper'
    BY <1>0, <2>2 DEF Create, LockHeld, CopiesProper
  <2> QED
    BY <2>1, <2>3, <2>4
<1>1. ASSUME NEW e \in Calls, LoadBuckets(e) PROVE BucketInv'
  BY <1>1 DEF LoadBuckets, NothingYet, LockHeld, ListComplete, CopiesProper, InTransaction
<1>2. ASSUME NEW e \in Calls, NEW bs \in BucketInputs, NEW cs \in CDNInputs,
             ResolveBindings(e, bs, cs)
      PROVE  BucketInv'
  <2>1. Proper(Resolved(e, bs, snap[e]))
    BY <1>2, ResolvedProper DEF ResolveBindings, CopiesProper
  <2>2. CopiesProper'
    BY <1>2, <2>1, ProperEmpty DEF ResolveBindings, CopiesProper
  <2> QED
    BY <1>2, <2>2 DEF ResolveBindings, NothingYet, LockHeld, ListComplete, InTransaction
<1>3. ASSUME NEW e \in Calls, SaveProject(e) PROVE BucketInv'
  <2>1. LockHeld'
    BY <1>3, NoneAssumption DEF SaveProject, LockHeld, InTransaction
  <2> QED
    BY <1>3, <2>1 DEF SaveProject, NothingYet, ListComplete, CopiesProper
<1>4. ASSUME NEW e \in Calls, ListBindings(e) PROVE BucketInv'
  BY <1>4 DEF ListBindings, NothingYet, LockHeld, ListComplete, CopiesProper, InTransaction
<1>5. ASSUME NEW e \in Calls, ReplaceBindings(e) PROVE BucketInv'
  <2>1. bucketRows' = plan[e].buckets
    BY <1>5 DEF ReplaceBindings, ListComplete
  <2>2. LockHeld' /\ CopiesProper'
    BY <1>5, FinishInv DEF ReplaceBindings
  <2>3. ListComplete'
    <3>1. \A f \in Calls \ {e} : pc[f] # "listed"
      BY <1>5, NoneAssumption DEF ReplaceBindings, LockHeld, InTransaction
    <3> QED
      BY <1>5, <3>1 DEF ReplaceBindings, Finish, ListComplete
  <2> QED
    BY <1>5, <2>1, <2>2, <2>3, FinishInv DEF ReplaceBindings, NothingYet, CopiesProper
<1>6. ASSUME NEW e \in Calls, NEW cs \in CDNInputs, SubmitCDNs(e, cs) PROVE BucketInv'
  BY <1>6 DEF SubmitCDNs, NothingYet, LockHeld, ListComplete, CopiesProper, InTransaction
<1>7. ASSUME NEW e \in Calls, ListCDNs(e) PROVE BucketInv'
  BY <1>7 DEF ListCDNs, NothingYet, LockHeld, ListComplete, CopiesProper, InTransaction
<1>8. ASSUME NEW e \in Calls, ReplaceCDNs(e) PROVE BucketInv'
  BY <1>8, FinishInv DEF ReplaceCDNs, NothingYet, ListComplete
<1>9. ASSUME NEW e \in Calls, Fail(e) PROVE BucketInv'
  BY <1>9, FinishInv DEF Fail, NothingYet, ListComplete, Running, InTransaction
<1>10. CASE DeleteProject
  BY <1>10, ProperEmpty DEF DeleteProject, NothingYet, LockHeld, ListComplete, CopiesProper
<1>11. CASE UNCHANGED vars
  BY <1>11 DEF vars, NothingYet, LockHeld, ListComplete, CopiesProper
<1> QED
  BY <1>0, <1>1, <1>2, <1>3, <1>4, <1>5, <1>6, <1>7, <1>8, <1>9, <1>10, <1>11
  DEF Next, UpdateStep, UpdateCDNsStep

LEMMA BucketInvariance == Spec => []BucketInv
<1>1. Init => BucketInv
  BY BucketInit
<1> QED
  BY <1>1, BucketStep, TypeCorrect, PTL DEF Spec

\* At most two buckets, of different names, one primary, however many edits
\* overlap.
THEOREM BucketsCorrect == Spec => []BucketsWellFormed
<1>1. BucketInv => BucketsWellFormed
  BY DEF BucketInv, Proper, BucketsWellFormed
<1> QED
  BY <1>1, BucketInvariance, PTL

\* Every bucket has a credential that was supplied for its provider, or is one
\* that was created as KEEP.
THEOREM CredentialsCorrect == Spec => []BucketCredentials
<1>1. BucketInv => BucketCredentials
  BY DEF BucketInv, Proper, Credentialed, BucketCredentials
<1> QED
  BY <1>1, BucketInvariance, PTL

\* The buckets change only to those of the creation or to the list of one edit,
\* or go with the project.
THEOREM ReplacedWhole == Spec => BucketsReplacedWhole
<1> DEFINE Whole ==
      \/ bucketRows' \in {bucketRows, {}}
      \/ pc[Origin] = "ready" /\ \E bs \in BucketCreations : bucketRows' = Created(bs)
      \/ \E e \in Calls : pc[e] = "listed" /\ bucketRows' = plan[e].buckets
<1>1. BucketInv /\ [Next]_vars => [Whole]_vars
  <2> SUFFICES ASSUME BucketInv, Next PROVE Whole
    OBVIOUS
  <2> USE DEF tableVars
  <2>1. ASSUME NEW e \in Calls, ReplaceBindings(e) PROVE Whole
    BY <2>1 DEF ReplaceBindings, BucketInv, ListComplete
  <2>2. CASE DeleteProject
    BY <2>2 DEF DeleteProject
  <2>3. ASSUME NEW e \in Calls, (UpdateStep(e) /\ ~ReplaceBindings(e)) \/ UpdateCDNsStep(e) \/ Fail(e)
        PROVE  Whole
    BY <2>3 DEF UpdateStep, UpdateCDNsStep, LoadBuckets, ResolveBindings, SaveProject,
                ListBindings, SubmitCDNs, ListCDNs, ReplaceCDNs, Fail
  <2>4. ASSUME NEW bs \in BucketCreations, NEW cs \in CDNCreations, Create(bs, cs)
        PROVE  Whole
    BY <2>4 DEF Create
  <2> QED
    BY <2>1, <2>2, <2>3, <2>4 DEF Next
<1> QED
  BY <1>1, BucketInvariance, PTL DEF Spec, BucketsReplacedWhole

\* No binding outlives its project.
THEOREM ProjectReferenced == Spec => []RowsReferenceProject
<1>1. Init => RowsReferenceProject
  BY DEF Init, RowsReferenceProject
<1>2. RowsReferenceProject /\ [Next]_vars => RowsReferenceProject'
  <2> SUFFICES ASSUME RowsReferenceProject, [Next]_vars PROVE RowsReferenceProject'
    OBVIOUS
  <2> USE DEF RowsReferenceProject, tableVars
  <2>1. ASSUME NEW e \in Calls, ReplaceBindings(e) PROVE RowsReferenceProject'
    BY <2>1 DEF ReplaceBindings
  <2>2. ASSUME NEW e \in Calls, ReplaceCDNs(e) PROVE RowsReferenceProject'
    BY <2>2 DEF ReplaceCDNs
  <2>3. CASE DeleteProject
    BY <2>3 DEF DeleteProject
  <2>4. CASE UNCHANGED vars
    BY <2>4 DEF vars
  <2>5. ASSUME NEW e \in Calls, UpdateStep(e) \/ UpdateCDNsStep(e) \/ Fail(e),
               ~ReplaceBindings(e), ~ReplaceCDNs(e)
        PROVE  RowsReferenceProject'
    BY <2>5 DEF UpdateStep, UpdateCDNsStep, LoadBuckets, ResolveBindings, SaveProject,
                ListBindings, SubmitCDNs, ListCDNs, Fail
  <2>6. ASSUME NEW bs \in BucketCreations, NEW cs \in CDNCreations, Create(bs, cs)
        PROVE  RowsReferenceProject'
    BY <2>6 DEF Create
  <2> QED
    BY <2>1, <2>2, <2>3, <2>4, <2>5, <2>6 DEF Next
<1> QED
  BY <1>1, <1>2, PTL DEF Spec

-----------------------------------------------------------------------------
(* The CDNs.  UpdateCDNs lists without the lock, so an edit may delete what *)
(* is no longer all there is.  But a listing never cuts through the rows   *)
(* of one edit: they came in one step, after it or before.                 *)

By(w, rows) == {row \in rows : row.by = w}

CdnPlans == \A e \in Calls : Valid(plan[e].cdns) /\ \A row \in plan[e].cdns : row.by = e
NotYetWritten ==
  \A e \in Writers : pc[e] # "done" =>
    By(e, cdnRows) = {} /\ \A f \in Calls : By(e, listed[f].cdns) = {}
ListedWhole ==
  \A f \in Calls, w \in Writers :
    By(w, cdnRows) \subseteq listed[f].cdns \/ By(w, cdnRows) \cap listed[f].cdns = {}
GroupsValid == \A w \in Writers : Valid(By(w, cdnRows))

CdnInv == UniqueNames(cdnRows) /\ CdnPlans /\ NotYetWritten /\ ListedWhole /\ GroupsValid

LEMMA ValidEmpty == Valid({})
  BY DEF Valid

LEMMA CdnInit == Init => CdnInv
<1> SUFFICES ASSUME Init PROVE CdnInv
  OBVIOUS
<1>1. UniqueNames(cdnRows) /\ CdnPlans
  BY ValidEmpty DEF Init, CdnPlans, NoRows, UniqueNames
<1>2. \A w \in Writers : By(w, cdnRows) = {}
  BY DEF Init, By
<1>3. NotYetWritten /\ ListedWhole /\ GroupsValid
  BY <1>2, ValidEmpty DEF Init, NotYetWritten, ListedWhole, GroupsValid, By, NoRows
<1> QED
  BY <1>1, <1>3 DEF CdnInv

\* The creation writes all its rows at once, and nobody has listed any of them.
LEMMA CdnCreate ==
  ASSUME TypeOK, CdnInv, NEW bs \in BucketCreations, NEW cs \in CDNCreations, Create(bs, cs)
  PROVE  CdnInv'
<1>1. Valid(cdnRows') /\ \A row \in cdnRows' : row.by = Origin
  <2>1. Valid(cs) /\ cdnRows' = {UnresolvedRow(Origin, b) : b \in cs}
    BY DEF Create, Created
  <2>2. Valid({UnresolvedRow(Origin, b) : b \in cs})
    BY <2>1, UnresolvedValid
  <2> QED
    BY <2>1, <2>2 DEF UnresolvedRow
<1> USE OriginAssumption DEF TypeOK, CdnInv, Create, Goto, Writers
<1>2. By(Origin, cdnRows') = cdnRows' /\ \A w \in Calls : By(w, cdnRows') = {}
  BY <1>1 DEF By
<1>3. UniqueNames(cdnRows')
  BY <1>1, ValidUnique
<1>4. GroupsValid'
  BY <1>1, <1>2, ValidEmpty DEF GroupsValid
<1>5. \A f \in Calls : By(Origin, listed[f].cdns) = {}
  BY DEF NotYetWritten
<1>6. ListedWhole'
  BY <1>1, <1>2, <1>5 DEF ListedWhole, By
<1>7. NotYetWritten'
  BY <1>2 DEF NotYetWritten
<1> QED
  BY <1>3, <1>4, <1>6, <1>7 DEF CdnPlans

\* Both edits end like this: what was listed goes and what was planned comes.
LEMMA CdnReplace ==
  ASSUME TypeOK, CdnInv, NEW e \in Calls, pc[e] # "done", Finish(e, "done"),
         NoDuplicateCDNs(cdnRows \ listed[e].cdns, plan[e].cdns),
         cdnRows' = (cdnRows \ listed[e].cdns) \cup plan[e].cdns
  PROVE  CdnInv'
<1> USE DEF TypeOK, CdnInv, Finish, Goto, Writers
<1>1. UniqueNames(cdnRows')
  <2>1. UniqueNames(plan[e].cdns)
    BY ValidUnique DEF CdnPlans
  <2> QED
    BY <2>1 DEF UniqueNames, NoDuplicateCDNs
<1>2. CdnPlans'
  BY ValidEmpty DEF CdnPlans, NoRows
<1>3. \A f \in Calls : listed'[f].cdns \in {{}, listed[f].cdns}
  BY DEF NoRows
<1>4. ASSUME NEW w \in Writers, w # e
      PROVE  By(w, cdnRows') = By(w, cdnRows) \ listed[e].cdns
  BY <1>4 DEF By, CdnPlans
<1>5. By(e, cdnRows') = plan[e].cdns
  BY DEF By, CdnPlans, NotYetWritten
<1>6. NotYetWritten'
  <2> SUFFICES ASSUME NEW d \in Writers, pc'[d] # "done"
               PROVE  By(d, cdnRows') = {} /\ \A f \in Calls : By(d, listed'[f].cdns) = {}
    BY DEF NotYetWritten
  <2>1. d # e /\ pc[d] # "done"
    OBVIOUS
  <2>2. By(d, cdnRows) = {} /\ \A f \in Calls : By(d, listed[f].cdns) = {}
    BY <2>1 DEF NotYetWritten
  <2>3. By(d, cdnRows') = {}
    BY <1>4, <2>1, <2>2 DEF Writers
  <2> QED
    BY <1>3, <2>2, <2>3 DEF By
<1>7. ListedWhole'
  <2> SUFFICES ASSUME NEW f \in Calls, NEW w \in Writers
               PROVE  \/ By(w, cdnRows') \subseteq listed'[f].cdns
                      \/ By(w, cdnRows') \cap listed'[f].cdns = {}
    BY DEF ListedWhole
  <2>1. CASE w = e
    <3>1. By(e, listed[f].cdns) = {}
      BY DEF NotYetWritten
    <3>2. \A row \in plan[e].cdns : row \notin listed[f].cdns
      BY <3>1 DEF By, CdnPlans
    <3> QED
      BY <1>3, <1>5, <2>1, <3>2
  <2>2. CASE w # e
    <3>1. By(w, cdnRows') \subseteq By(w, cdnRows)
      BY <1>4, <2>2
    <3>2. \/ By(w, cdnRows) \subseteq listed[f].cdns
          \/ By(w, cdnRows) \cap listed[f].cdns = {}
      BY DEF ListedWhole
    <3> QED
      BY <1>3, <3>1, <3>2
  <2> QED
    BY <2>1, <2>2
<1>8. GroupsValid'
  <2> SUFFICES ASSUME NEW w \in Writers PROVE Valid(By(w, cdnRows'))
    BY DEF GroupsValid
  <2>1. CASE w = e
    BY <1>5, <2>1 DEF CdnPlans
  <2>2. CASE w # e
    <3>1. By(w, cdnRows) \ listed[e].cdns \in {{}, By(w, cdnRows)}
      BY DEF ListedWhole
    <3> QED
      BY <1>4, <2>2, <3>1, ValidEmpty DEF GroupsValid
  <2> QED
    BY <2>1, <2>2
<1> QED
  BY <1>1, <1>2, <1>6, <1>7, <1>8

LEMMA CdnStep == TypeOK /\ CdnInv /\ [Next]_vars => CdnInv'
<1> SUFFICES ASSUME TypeOK, CdnInv, [Next]_vars PROVE CdnInv'
  OBVIOUS
<1> USE DEF TypeOK, CdnInv, tableVars, Goto, Writers
<1>0. ASSUME NEW bs \in BucketCreations, NEW cs \in CDNCreations, Create(bs, cs)
      PROVE  CdnInv'
  BY <1>0, CdnCreate
<1>1. ASSUME NEW e \in Calls, LoadBuckets(e) \/ SaveProject(e) PROVE CdnInv'
  BY <1>1 DEF LoadBuckets, SaveProject, CdnPlans, NotYetWritten, ListedWhole, GroupsValid
<1>2. ASSUME NEW e \in Calls, NEW bs \in BucketInputs, NEW cs \in CDNInputs,
             ResolveBindings(e, bs, cs)
      PROVE  CdnInv'
  <2>1. Valid(Resolved(e, cs, cdnRows))
    BY <1>2, ResolvedValid DEF ResolveBindings
  <2>2. \A row \in Resolved(e, cs, cdnRows) : row.by = e
    BY DEF Resolved, ResolvedRows
  <2>3. plan' = [plan EXCEPT ![e] = [buckets |-> Resolved(e, bs, snap[e]),
                                     cdns |-> Resolved(e, cs, cdnRows)]]
    BY <1>2 DEF ResolveBindings
  <2>4. CdnPlans'
    BY <2>1, <2>2, <2>3 DEF CdnPlans
  <2> QED
    BY <1>2, <2>4 DEF ResolveBindings, NotYetWritten, ListedWhole, GroupsValid
<1>3. ASSUME NEW e \in Calls, ListBindings(e) \/ ListCDNs(e) PROVE CdnInv'
  <2>1. /\ \A f \in Calls : listed'[f].cdns \in {listed[f].cdns, cdnRows}
        /\ UNCHANGED <<cdnRows, plan>>
        /\ \A w \in Writers : pc'[w] # "done" => pc[w] # "done"
    <3>1. CASE ListBindings(e)
      BY <3>1 DEF ListBindings
    <3>2. CASE ListCDNs(e)
      BY <3>2 DEF ListCDNs
    <3> QED
      BY <1>3, <3>1, <3>2
  <2>2. CdnPlans' /\ GroupsValid'
    BY <2>1 DEF CdnPlans, GroupsValid
  <2>3. NotYetWritten'
    BY <2>1 DEF NotYetWritten
  <2>4. ListedWhole'
    BY <2>1 DEF ListedWhole, By
  <2> QED
    BY <2>1, <2>2, <2>3, <2>4
<1>4. ASSUME NEW e \in Calls, ReplaceBindings(e) PROVE CdnInv'
  BY <1>4, CdnReplace DEF ReplaceBindings
<1>5. ASSUME NEW e \in Calls, ReplaceCDNs(e) PROVE CdnInv'
  BY <1>5, CdnReplace DEF ReplaceCDNs
<1>6. ASSUME NEW e \in Calls, NEW cs \in CDNInputs, SubmitCDNs(e, cs) PROVE CdnInv'
  <2>1. /\ Valid({UnresolvedRow(e, c) : c \in cs})
        /\ \A row \in {UnresolvedRow(e, c) : c \in cs} : row.by = e
    <3>1. Valid({UnresolvedRow(e, c) : c \in cs})
      BY <1>6, UnresolvedValid DEF SubmitCDNs
    <3> QED
      BY <3>1 DEF UnresolvedRow
  <2>2. /\ plan'[e].cdns = {UnresolvedRow(e, c) : c \in cs}
        /\ \A f \in Calls \ {e} : plan'[f] = plan[f]
    BY <1>6 DEF SubmitCDNs
  <2>3. CdnPlans'
    BY <2>1, <2>2 DEF CdnPlans
  <2> QED
    BY <1>6, <2>3 DEF SubmitCDNs, NotYetWritten, ListedWhole, GroupsValid
<1>7. ASSUME NEW e \in Calls, Fail(e) PROVE CdnInv'
  <2>1. /\ UNCHANGED cdnRows
        /\ \A f \in Calls : /\ listed'[f].cdns \in {{}, listed[f].cdns}
                            /\ plan'[f].cdns \in {{}, plan[f].cdns}
        /\ \A w \in Writers : pc'[w] # "done" => pc[w] # "done"
    BY <1>7 DEF Fail, Finish, NoRows, Running, InTransaction
  <2>2. CdnPlans'
    BY <2>1, ValidEmpty DEF CdnPlans
  <2>3. NotYetWritten' /\ ListedWhole'
    BY <2>1 DEF NotYetWritten, ListedWhole, By
  <2> QED
    BY <2>1, <2>2, <2>3 DEF GroupsValid
<1>8. CASE DeleteProject
  <2>1. cdnRows' = {} /\ \A w : By(w, cdnRows') = {}
    BY <1>8 DEF DeleteProject, By
  <2>2. UniqueNames(cdnRows') /\ GroupsValid' /\ ListedWhole'
    BY <2>1, ValidEmpty DEF UniqueNames, GroupsValid, ListedWhole
  <2> QED
    BY <1>8, <2>1, <2>2 DEF DeleteProject, CdnPlans, NotYetWritten
<1>9. CASE UNCHANGED vars
  BY <1>9 DEF vars, CdnPlans, NotYetWritten, ListedWhole, GroupsValid
<1> QED
  BY <1>0, <1>1, <1>2, <1>3, <1>4, <1>5, <1>6, <1>7, <1>8, <1>9
  DEF Next, UpdateStep, UpdateCDNsStep

\* The CDNs that one edit wrote are there together or not at all, and a project
\* with CDNs has a primary one, however many edits overlap.
THEOREM CDNsTogether == Spec => []CDNsOfOneEditTogether
<1>1. Init => CdnInv
  BY CdnInit
<1>2. TypeOK /\ CdnInv => CDNsOfOneEditTogether
  <2> SUFFICES ASSUME TypeOK, CdnInv PROVE CDNsOfOneEditTogether
    OBVIOUS
  <2>1. \A w \in Writers : Valid({row \in cdnRows : row.by = w})
    BY DEF CdnInv, GroupsValid, By
  <2>2. ASSUME NEW x \in cdnRows PROVE \E row \in cdnRows : row.primary
    <3>1. x.by \in Writers
      BY DEF TypeOK, CDNRows, Rows
    <3>2. PICK row \in {y \in cdnRows : y.by = x.by} :
            \A y \in {z \in cdnRows : z.by = x.by} : y.primary <=> y = row
      BY <2>1, <3>1 DEF Valid
    <3> QED
      BY <3>2
  <2> QED
    BY <2>1, <2>2 DEF CDNsOfOneEditTogether
<1> QED
  BY <1>1, <1>2, CdnStep, TypeCorrect, PTL DEF Spec
=============================================================================
