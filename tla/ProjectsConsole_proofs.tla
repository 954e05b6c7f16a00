------------------------ MODULE ProjectsConsole_proofs ------------------------
(***************************************************************************)
(* The page of projects for any projects, providers, number of writes and  *)
(* of calls under way: types, that the checks of the page and those of the *)
(* server agree on a form that is current, and that no spinner stays.      *)
(***************************************************************************)
EXTENDS ProjectsConsole, SequenceTheorems, TLAPS

-----------------------------------------------------------------------------
(* Rows of bindings and of forms.                                          *)

RowLists == SeqOf(BindingRows, MaxRows)

LEMMA FilledRow ==
  ASSUME NEW bindings, NEW k \in DOMAIN Filled(bindings)
  PROVE  k \in DOMAIN bindings /\ Filled(bindings)[k].original = bindings[k].provider
BY DEF Filled

\* A row of an edited form that keeps its place has the provider it was filled with.
LEMMA EditedRows ==
  ASSUME NEW bindings \in RowLists, NEW edited \in Edited(Filled(bindings))
  PROVE  \E m \in 0..MaxRows :
           /\ DOMAIN edited = 1..m
           /\ \A k \in 1..m :
                /\ edited[k].provider \in Providers
                /\ edited[k].from # 0 =>
                     /\ edited[k].from \in DOMAIN bindings
                     /\ edited[k].original = bindings[edited[k].from].provider
<1> DEFINE rows == Filled(bindings)
           kept == {[from |-> k, original |-> rows[k].original, provider |-> r, replace |-> replace] :
                      k \in DOMAIN rows, r \in Providers, replace \in BOOLEAN}
           new == {[from |-> 0, original |-> r, provider |-> r, replace |-> TRUE] : r \in Providers}
<1>1. edited \in SeqOf(kept \cup new, MaxRows)
  BY DEF Edited
<1>2. PICK m \in 0..MaxRows : edited \in [1..m -> kept \cup new]
  BY <1>1 DEF SeqOf
<1>3. ASSUME NEW row \in kept
      PROVE  /\ row.provider \in Providers /\ row.from \in DOMAIN bindings
             /\ row.original = bindings[row.from].provider
  BY <1>3, FilledRow
<1>4. ASSUME NEW row \in new PROVE row.provider \in Providers /\ row.from = 0
  OBVIOUS
<1> HIDE DEF kept, new
<1>5. DOMAIN edited = 1..m /\ \A k \in 1..m : edited[k] \in kept \cup new
  BY <1>2
<1> QED
  BY <1>3, <1>4, <1>5

\* Buckets come before CDNs, and rows in their order.
LEMMA FirstPlaceType ==
  ASSUME NEW places \in SUBSET (Kinds \X (1..MaxRows)), places # {}
  PROVE  FirstPlace(places) \in places
<1> DEFINE First(p) == \A q \in places : IF p[1] = q[1] THEN p[2] <= q[2] ELSE p[1] = "buckets"
<1>1. \A q \in places : q = <<q[1], q[2]>> /\ q[1] \in {"buckets", "cdns"} /\ q[2] \in {1, 2}
  <2>1. ASSUME NEW q \in places PROVE q = <<q[1], q[2]>> /\ q[1] \in Kinds /\ q[2] \in 1..2
    <3>1. q \in Kinds \X (1..2)
      BY DEF MaxRows
    <3> QED
      BY <3>1
  <2>2. 1..2 = {1, 2}
    OBVIOUS
  <2> QED
    BY <2>1, <2>2, KindsAssumption
<1>2. \E p \in places : First(p)
  <2>1. CASE <<"buckets", 1>> \in places
    <3>1. First(<<"buckets", 1>>)
      BY <1>1
    <3> QED
      BY <2>1, <3>1
  <2>2. CASE <<"buckets", 1>> \notin places /\ <<"buckets", 2>> \in places
    <3>1. First(<<"buckets", 2>>)
      BY <1>1, <2>2
    <3> QED
      BY <2>2, <3>1
  <2>3. CASE <<"buckets", 1>> \notin places /\ <<"buckets", 2>> \notin places /\ <<"cdns", 1>> \in places
    <3>1. First(<<"cdns", 1>>)
      BY <1>1, <2>3
    <3> QED
      BY <2>3, <3>1
  <2>4. CASE <<"buckets", 1>> \notin places /\ <<"buckets", 2>> \notin places /\ <<"cdns", 1>> \notin places
    <3>1. <<"cdns", 2>> \in places
      BY <1>1, <2>4
    <3>2. First(<<"cdns", 2>>)
      BY <1>1, <2>4
    <3> QED
      BY <3>1, <3>2
  <2> QED
    BY <2>1, <2>2, <2>3, <2>4
<1> QED
  BY <1>2 DEF FirstPlace

-----------------------------------------------------------------------------
(* The invariant.                                                          *)

\* What a call asks for or has written is a project, and only a list has none.
ProjectCallFits(call) ==
  /\ call.op = "list" => call.stage = "list"
  /\ call.op # "list" => call.of \in Projects

ProjectCallsFit == \A c \in CallIds : projectCalls[c] # Idle => ProjectCallFits(projectCalls[c])

\* The refusal that a current form may meet is for a binding without a credential.
VerdictFits(call) ==
  call.form.current /\ call.verdict = "credential" =>
    ~call.form.complete /\ call.error.field = "replaceCredential"

\* No project bears a number that has not been given yet.
NumbersGiven ==
  \A p \in Projects : stored[p] # None => \A kind \in Kinds : stored[p].written[kind] <= writes

\* Of something read from the server: of a kind with the number it has in a stored
\* project it has the rows of that project.
AsStored(of, written, rows) ==
  /\ of \in Projects /\ written \in [Kinds -> 0..writes] /\ rows \in Bindings
  /\ \A kind \in Kinds :
       stored[of] # None /\ stored[of].written[kind] = written[kind] =>
         stored[of].rows[kind] = rows[kind]

DetailsAsStored ==
  selectedProject # None => AsStored(selectedProject.of, selectedProject.written, selectedProject.rows)

\* A form to edit was filled with such rows, any other is empty.
FormAsStored ==
  IF projectModal = "edit"
    THEN /\ projectForm.mode = "edit"
         /\ \E rows \in Bindings :
              /\ projectForm = [mode |-> "edit", of |-> projectForm.of, written |-> projectForm.written,
                                rows |-> [kind \in Kinds |-> Filled(rows[kind])]]
              /\ AsStored(projectForm.of, projectForm.written, rows)
    ELSE projectForm = NoForm

ProjectsInv ==
  /\ ProjectsTypeOK /\ ProjectCallsFit /\ NumbersGiven /\ DetailsAsStored /\ FormAsStored
  /\ CurrentFormAccepted /\ ProjectsNeverStuck

-----------------------------------------------------------------------------
(* What is sent, and what the server makes of it.                          *)

FormOf(mode, of, written, rows) ==
  [mode |-> mode, of |-> of, written |-> written, rows |-> [kind \in Kinds |-> Filled(rows[kind])]]

NoRows == [kind \in Kinds |-> <<>>]

LEMMA NoRowsType == NoRows \in Bindings /\ NoForm = FormOf("create", None, Numbered(0), NoRows)
<1>1. <<>> \in [1..0 -> BindingRows]
  OBVIOUS
<1>2. <<>> \in SeqOf(BindingRows, MaxRows)
  BY <1>1 DEF SeqOf, MaxRows
<1>3. Filled(<<>>) = <<>>
  BY DEF Filled
<1> QED
  BY <1>2, <1>3 DEF NoRows, Bindings, NoForm, FormOf

LEMMA SubmittedForm ==
  ASSUME NEW mode, NEW of, NEW written, NEW rows \in Bindings,
         NEW form \in Submittable(FormOf(mode, of, written, rows))
  PROVE  /\ form.mode = mode /\ form.of = of /\ form.written = written
         /\ \A kind \in Kinds :
              /\ form.rows[kind] \in Edited(Filled(rows[kind]))
              /\ \A k \in DOMAIN form.rows[kind] : ~ProviderChanged(mode, form.rows[kind][k])
<1> DEFINE f == FormOf(mode, of, written, rows)
           edits == [kind \in Kinds |-> Edited(f.rows[kind])]
<1>1. PICK edited \in [Kinds -> UNION {edits[kind] : kind \in Kinds}] : form = [f EXCEPT !.rows = edited]
  BY DEF Submittable
<1>2. form.mode = mode /\ form.of = of /\ form.written = written /\ form.rows = edited
  BY <1>1 DEF FormOf
<1>3. \A kind \in Kinds :
        /\ form.rows[kind] \in edits[kind]
        /\ \A k \in DOMAIN form.rows[kind] : ~ProviderChanged(f.mode, form.rows[kind][k])
  BY DEF Submittable
<1>4. f.mode = mode /\ \A kind \in Kinds : edits[kind] = Edited(Filled(rows[kind]))
  BY DEF FormOf
<1> QED
  BY <1>2, <1>3, <1>4

LEMMA RowsOfBindings ==
  ASSUME NEW rows \in Bindings, NEW kind \in Kinds PROVE rows[kind] \in RowLists
BY DEF Bindings, RowLists

\* The rows of a form that is written are bindings.
LEMMA WrittenType ==
  ASSUME NEW rows \in Bindings, NEW form,
         \A kind \in Kinds : form.rows[kind] \in Edited(Filled(rows[kind]))
  PROVE  Written(form) \in Bindings
<1>1. ASSUME NEW kind \in Kinds
      PROVE  [k \in DOMAIN form.rows[kind] |->
                [provider |-> form.rows[kind][k].provider, credential |-> TRUE]] \in SeqOf(BindingRows, MaxRows)
  <2>1. PICK m \in 0..MaxRows :
          DOMAIN form.rows[kind] = 1..m /\ \A k \in 1..m : form.rows[kind][k].provider \in Providers
    BY RowsOfBindings, EditedRows
  <2>2. [k \in DOMAIN form.rows[kind] |->
           [provider |-> form.rows[kind][k].provider, credential |-> TRUE]] \in [1..m -> BindingRows]
    BY <2>1 DEF BindingRows
  <2> QED
    BY <2>2 DEF SeqOf
<1> QED
  BY <1>1 DEF Written, Bindings

Outcomes ==
  [verdict : Verdicts,
   error : [kind : Kinds, index : 1..MaxRows,
            field : {"providerType", "accessKeyId", "replaceCredential"}] \cup {None},
   rows : Bindings \cup {None}]

\* A refusal for credentials is that of a row of the form; what is written are bindings.
LEMMA HandleType ==
  ASSUME NEW rows \in Bindings, NEW form,
         \A kind \in Kinds : form.rows[kind] \in Edited(Filled(rows[kind])),
         NEW target, NEW outcome \in Handle(target, form)
  PROVE  /\ outcome \in Outcomes
         /\ outcome.verdict = "written" => outcome.rows \in Bindings
         /\ outcome.verdict = "credential" =>
              \E place \in RefusedFor(form, target, stored[target]) :
                outcome.error.field = FieldOf(Refusal(form, target, stored[target], place[1], place[2]))
<1> DEFINE refused == RefusedFor(form, target, stored[target])
           place == FirstPlace(refused)
           code == Refusal(form, target, stored[target], place[1], place[2])
           Errors == [kind : Kinds, index : 1..MaxRows,
                      field : {"providerType", "accessKeyId", "replaceCredential"}]
<1>1. CASE refused = {} /\ outcome = Outcome("written", None, Written(form))
  BY <1>1, WrittenType DEF Outcome, Outcomes, Verdicts
<1>2. CASE refused # {} /\ outcome = Outcome("credential", FieldError(code, place), None)
  <2>1. refused \in SUBSET (Kinds \X (1..MaxRows))
    BY DEF RefusedFor
  <2>2. place \in refused
    BY <1>2, <2>1, FirstPlaceType
  <2>3. code # None
    BY <2>2 DEF RefusedFor
  <2>4. FieldOf(code) \in {"providerType", "accessKeyId", "replaceCredential"}
    BY <2>3 DEF Refusal, FieldOf
  <2> HIDE DEF code, place, refused
  <2>5. place[1] \in Kinds /\ place[2] \in 1..MaxRows
    BY <2>1, <2>2
  <2>6. FieldError(code, place) \in Errors /\ FieldError(code, place).field = FieldOf(code)
    BY <2>4, <2>5 DEF FieldError
  <2>7. /\ outcome \in Outcomes /\ outcome.verdict = "credential"
        /\ outcome.error.field = FieldOf(code)
    BY <1>2, <2>6 DEF Outcome, Outcomes, Verdicts
  <2> QED
    BY <2>2, <2>7 DEF code, refused
<1>3. CASE outcome = Outcome("other", None, None)
  BY <1>3 DEF Outcome, Outcomes, Verdicts
<1>4. ASSUME NEW kind \in Kinds,
             outcome = Outcome("other", FieldError("provider_not_registered", <<kind, 1>>), None)
      PROVE  outcome \in Outcomes /\ outcome.verdict = "other"
  <2>1. FieldError("provider_not_registered", <<kind, 1>>) \in Errors
    BY DEF FieldError, FieldOf, MaxRows
  <2> QED
    BY <1>4, <2>1 DEF Outcome, Outcomes, Verdicts
<1> QED
  BY <1>1, <1>2, <1>3, <1>4 DEF Handle

\* An edit of what is stored, which the page does not refuse, has no row that the
\* server refuses, unless it keeps a binding without a credential.
LEMMA CurrentRefusals ==
  ASSUME NEW rows \in Bindings, NEW form, form.mode = "edit",
         \A kind \in Kinds :
           /\ form.rows[kind] \in Edited(Filled(rows[kind]))
           /\ \A k \in DOMAIN form.rows[kind] : ~ProviderChanged("edit", form.rows[kind][k]),
         NEW target, form.of = target, NEW project, project.rows = rows,
         form.written = project.written,
         NEW kind \in Kinds, NEW k \in DOMAIN form.rows[kind],
         Refusal(form, target, project, kind, k) # None
  PROVE  /\ Refusal(form, target, project, kind, k) = "credential_not_found_for_keep"
         /\ ~AllCredentials(rows)
<1> DEFINE row == form.rows[kind][k]
<1>1. ~ShouldReplaceCredential("edit", row)
  BY DEF Refusal
<1>2. row.from # 0 /\ row.original = row.provider
  BY <1>1 DEF ShouldReplaceCredential, ProviderChanged
<1>3. row.from \in DOMAIN rows[kind] /\ row.original = rows[kind][row.from].provider
  BY <1>2, RowsOfBindings, EditedRows
<1>4. /\ Refusal(form, target, project, kind, k) = "credential_not_found_for_keep"
      /\ ~rows[kind][row.from].credential
  BY <1>1, <1>2, <1>3 DEF Refusal
<1> QED
  BY <1>3, <1>4 DEF AllCredentials
-----------------------------------------------------------------------------
(* What a step does to the calls under way.                                *)

CallsGood(calls) ==
  /\ calls \in [CallIds -> ProjectCalls \cup {Idle}]
  /\ \A c \in CallIds : calls[c] # Idle =>
       ProjectCallFits(calls[c]) /\ VerdictFits(calls[c])

WaitsAt(calls, stage) == \E c \in CallIds : calls[c] # Idle /\ calls[c].stage = stage
Submits(calls) == \E c \in CallIds : calls[c] # Idle /\ calls[c].op \in {"create", "edit"}

LEMMA GoodStarted ==
  ASSUME NEW calls, CallsGood(calls), NEW c \in CallIds, NEW call \in ProjectCalls,
         ProjectCallFits(call), VerdictFits(call)
  PROVE  /\ CallsGood(Started(calls, c, call))
         /\ call # Idle /\ Started(calls, c, call)[c] = call
         /\ \A x \in CallIds \ {c} : Started(calls, c, call)[x] = calls[x]
<1>1. \A x \in CallIds : Started(calls, c, call)[x] = IF x = c THEN call ELSE calls[x]
  BY DEF CallsGood, Started
<1>2. Started(calls, c, call) \in [CallIds -> ProjectCalls \cup {Idle}]
  BY DEF CallsGood, Started
<1> QED
  BY <1>1, <1>2, ProjectCallsAssumption DEF CallsGood

LEMMA GoodEnded ==
  ASSUME NEW calls, CallsGood(calls), NEW c \in CallIds
  PROVE  /\ CallsGood(Ended(calls, c))
         /\ \A x \in CallIds : Ended(calls, c)[x] = IF x = c THEN Idle ELSE calls[x]
<1>1. \A x \in CallIds : Ended(calls, c)[x] = IF x = c THEN Idle ELSE calls[x]
  BY DEF CallsGood, Ended
<1>2. Ended(calls, c) \in [CallIds -> ProjectCalls \cup {Idle}]
  BY DEF CallsGood, Ended
<1> QED
  BY <1>1, <1>2 DEF CallsGood

LEMMA GoodGoesOn ==
  ASSUME NEW calls, CallsGood(calls), NEW c \in CallIds, calls[c] # Idle, calls[c].op # "list",
         NEW stage \in {"list", "detail"}, NEW next, next = [calls EXCEPT ![c].stage = stage]
  PROVE  /\ CallsGood(next)
         /\ next[c] # Idle /\ next[c].stage = stage /\ next[c].op = calls[c].op
         /\ \A x \in CallIds \ {c} : next[x] = calls[x]
<1> DEFINE call == [calls[c] EXCEPT !.stage = stage]
<1>1. /\ call \in ProjectCalls /\ call.stage = stage /\ call.op = calls[c].op /\ call.of = calls[c].of
      /\ call.form = calls[c].form /\ call.verdict = calls[c].verdict
      /\ call.error = calls[c].error
  BY DEF CallsGood, ProjectCalls
<1>2. ProjectCallFits(call) /\ VerdictFits(call)
  BY <1>1 DEF CallsGood, ProjectCallFits, VerdictFits
<1>3. next = Started(calls, c, call)
  BY DEF Started
<1> HIDE DEF call
<1>4. /\ CallsGood(Started(calls, c, call)) /\ Started(calls, c, call)[c] = call /\ call # Idle
      /\ \A x \in CallIds \ {c} : Started(calls, c, call)[x] = calls[x]
  BY <1>1, <1>2, GoodStarted
<1> QED
  BY <1>1, <1>3, <1>4

LEMMA ReadingCalls ==
  ASSUME ProjectsTypeOK
  PROVE  /\ ListCall \in ProjectCalls /\ ProjectCallFits(ListCall) /\ VerdictFits(ListCall)
         /\ ListCall.op = "list" /\ ListCall.stage = "list"
         /\ \A p \in Projects : /\ DetailCall(p) \in ProjectCalls /\ ProjectCallFits(DetailCall(p))
                                /\ VerdictFits(DetailCall(p)) /\ DetailCall(p).stage = "detail"
BY DEF ProjectsTypeOK, ListCall, DetailCall, ProjectCalls, ProjectCallFits, VerdictFits, NothingSent,
       Verdicts

\* Selecting keeps the calls there are, and asks for details whenever it says so.
SelectedFrom(calls, loading) ==
  /\ CallsGood(projectCalls')
  /\ \A x \in CallIds : calls[x] # Idle => projectCalls'[x] = calls[x]
  /\ loadingDetail' = loading \/ (loadingDetail' = TRUE /\ WaitsAt(projectCalls', "detail"))

LEMMA Selecting ==
  ASSUME ProjectsTypeOK, NEW calls, CallsGood(calls), NEW loading,
         NEW p \in Projects \cup {None}, SelectId(p, calls, loading)
  PROVE  selectedProjectId' = p /\ SelectedFrom(calls, loading)
<1>1. CASE p = None \/ p = selectedProjectId
  BY <1>1 DEF SelectId, SelectedFrom
<1>2. CASE ~(p = None \/ p = selectedProjectId)
  <2>1. PICK c \in CallIds : calls[c] = Idle /\ projectCalls' = Started(calls, c, DetailCall(p))
    BY <1>2 DEF SelectId
  <2>2. p \in Projects /\ loadingDetail' = TRUE /\ selectedProjectId' = p
    BY <1>2 DEF SelectId
  <2> DEFINE call == DetailCall(p)
  <2>3. /\ call \in ProjectCalls /\ ProjectCallFits(call) /\ VerdictFits(call)
        /\ call.stage = "detail"
    BY <2>2, ReadingCalls
  <2> HIDE DEF call
  <2>4. /\ CallsGood(projectCalls') /\ call # Idle /\ projectCalls'[c] = call
        /\ \A x \in CallIds \ {c} : projectCalls'[x] = calls[x]
    BY <2>1, <2>3, GoodStarted DEF call
  <2>5. WaitsAt(projectCalls', "detail")
    BY <2>3, <2>4 DEF WaitsAt
  <2> QED
    BY <2>1, <2>2, <2>4, <2>5 DEF SelectedFrom
<1> QED
  BY <1>1, <1>2

LEMMA TakingList ==
  ASSUME ProjectsTypeOK, NEW call, NEW rest, CallsGood(rest), NEW loading,
         TakeList(call, rest, loading)
  PROVE  /\ SelectedFrom(rest, loading)
         /\ projectRows' \in SUBSET Projects /\ projectsError' \in BOOLEAN
         /\ selectedProjectId' \in Projects \cup {None}
         /\ selectedProject' \in {selectedProject, None}
<1>1. ASSUME NEW items \in Lists, projectRows' = items, UNCHANGED projectsError,
             IF items = {}
               THEN SelectId(None, rest, loading) /\ selectedProject' = None
               ELSE /\ \E p \in IF call.selected \in items THEN {selectedProjectId} ELSE items :
                         SelectId(p, rest, loading)
                    /\ UNCHANGED selectedProject
      PROVE  /\ SelectedFrom(rest, loading)
             /\ projectRows' \in SUBSET Projects /\ projectsError' \in BOOLEAN
             /\ selectedProjectId' \in Projects \cup {None}
             /\ selectedProject' \in {selectedProject, None}
  <2>1. items \in SUBSET Projects
    BY DEF Lists
  <2>2. \E p \in Projects \cup {None} : SelectId(p, rest, loading)
    BY <1>1, <2>1 DEF ProjectsTypeOK
  <2>3. SelectedFrom(rest, loading) /\ selectedProjectId' \in Projects \cup {None}
    BY <2>2, Selecting
  <2> QED
    BY <1>1, <2>1, <2>3 DEF ProjectsTypeOK
<1>2. CASE /\ projectsError' = TRUE /\ projectCalls' = rest /\ loadingDetail' = loading
           /\ UNCHANGED <<projectRows, selectedProjectId, selectedProject>>
  BY <1>2 DEF SelectedFrom, ProjectsTypeOK
<1> QED
  BY <1>1, <1>2 DEF TakeList
-----------------------------------------------------------------------------
(* The parts of the invariant that are about the page and the server.      *)

StoredPart == stored \in [Projects -> Stored \cup {None}] /\ writes \in 0..MaxWrites /\ NumbersGiven

ListPart ==
  /\ projectRows \in SUBSET Projects
  /\ {isAdmin, projectsError, loadingList, loadingDetail, submitting} \subseteq BOOLEAN
  /\ selectedProjectId \in Projects \cup {None}

DetailsPart == selectedProject \in Details \cup {None} /\ DetailsAsStored

FormPart ==
  projectModal \in {"none", "create", "edit"} /\ projectForm.of \in Projects \cup {None} /\ FormAsStored

Spinners ==
  /\ loadingList => WaitsAt(projectCalls, "list")
  /\ loadingDetail => WaitsAt(projectCalls, "detail")
  /\ submitting => Submits(projectCalls)

LEMMA ProjectsInvDef ==
  ProjectsInv <=> /\ StoredPart /\ ListPart /\ DetailsPart /\ FormPart
                  /\ CallsGood(projectCalls) /\ Spinners
BY DEF ProjectsInv, ProjectsTypeOK, StoredPart, ListPart, DetailsPart, FormPart, CallsGood, Spinners,
       ProjectCallsFit, CurrentFormAccepted, VerdictFits, ProjectsNeverStuck, WaitsAt, Submits, ProjectsAt

LEMMA ProjectsInitInv == ProjectsInit => ProjectsInv
<1> SUFFICES ASSUME ProjectsInit PROVE ProjectsInv
  OBVIOUS
<1> DEFINE One(given) == [provider |-> CHOOSE r \in Providers : TRUE, credential |-> given]
           Ones(given) == [written |-> Numbered(0), rows |-> [kind \in Kinds |-> <<One(given)>>]]
<1>1. ASSUME NEW given \in BOOLEAN PROVE Ones(given) \in Stored
  <2>1. One(given) \in BindingRows
    BY ProvidersAssumption DEF BindingRows
  <2> HIDE DEF One
  <2>2. <<One(given)>> \in [1..1 -> BindingRows]
    BY <2>1
  <2>3. <<One(given)>> \in SeqOf(BindingRows, MaxRows)
    BY <2>2 DEF SeqOf, MaxRows
  <2>4. Ones(given).rows \in Bindings
    BY <2>3 DEF Bindings
  <2>5. Numbered(0) \in WriteNumbers
    BY WritesAssumption DEF Numbered, WriteNumbers
  <2> QED
    BY <2>4, <2>5 DEF Stored
<1>2. stored \in [Projects -> {Ones(given) : given \in BOOLEAN} \cup {None}]
  BY DEF ProjectsInit
<1>3. \A given \in BOOLEAN : Ones(given).written = Numbered(0)
  OBVIOUS
<1> HIDE DEF Ones
<1>4. \A p \in Projects :
        (\E given \in BOOLEAN : stored[p] = Ones(given)) \/ stored[p] = None
  BY <1>2
<1>5. StoredPart
  <2>1. stored \in [Projects -> Stored \cup {None}]
    BY <1>1, <1>2
  <2>2. writes = 0 /\ NumbersGiven
    BY <1>3, <1>4 DEF ProjectsInit, NumbersGiven, Numbered
  <2> QED
    BY <2>1, <2>2, WritesAssumption DEF StoredPart
<1>6. ListPart /\ DetailsPart
  BY DEF ProjectsInit, ListPart, DetailsPart, DetailsAsStored
<1>7. FormPart
  BY DEF ProjectsInit, FormPart, FormAsStored, NoForm
<1>8. CallsGood(projectCalls) /\ Spinners
  <2> DEFINE call == [op |-> "list", stage |-> "list", of |-> None, selected |-> None,
                      verdict |-> None, error |-> None, form |-> NothingSent]
  <2>1. PICK c \in CallIds : projectCalls = Started(NoCalls, c, call)
    BY DEF ProjectsInit, ListCall
  <2>2. call \in ProjectCalls /\ ProjectCallFits(call) /\ VerdictFits(call) /\ call.stage = "list"
    BY DEF ProjectCalls, ProjectCallFits, VerdictFits, NothingSent, Verdicts
  <2> HIDE DEF call
  <2>3. CallsGood(NoCalls)
    BY DEF CallsGood, NoCalls
  <2>4. CallsGood(projectCalls) /\ call # Idle /\ projectCalls[c] = call
    BY <2>1, <2>2, <2>3, GoodStarted
  <2> QED
    BY <2>2, <2>4 DEF Spinners, WaitsAt, ProjectsInit
<1> QED
  BY <1>5, <1>6, <1>7, <1>8, ProjectsInvDef

\* A write to a project gives rows of a kind the number of the write or leaves them.
WrittenFrom(before, after) ==
  /\ after \in Stored
  /\ \A kind \in Kinds :
       \/ after.written[kind] = writes'
       \/ before # None /\ after.written[kind] = before.written[kind] /\ after.rows[kind] = before.rows[kind]

\* What has been read from the server stays as it is stored, whatever is written
\* later: a number is given once.
LEMMA WritingKeepsRead ==
  ASSUME StoredPart, DetailsPart, FormPart, writes < MaxWrites, writes' = writes + 1,
         NEW p \in Projects, NEW after, WrittenFrom(stored[p], after),
         stored' = [stored EXCEPT ![p] = after],
         UNCHANGED <<selectedProject, projectModal, projectForm>>
  PROVE  StoredPart' /\ DetailsPart' /\ FormPart'
<1>1. writes \in Nat /\ writes' \in 0..MaxWrites /\ writes' = writes + 1
  BY WritesAssumption DEF StoredPart
<1>2. /\ stored' \in [Projects -> Stored \cup {None}]
      /\ \A q \in Projects : stored'[q] = IF q = p THEN after ELSE stored[q]
  BY DEF StoredPart, WrittenFrom
<1>3. ASSUME NEW q \in Projects, stored[q] # None, NEW kind \in Kinds
      PROVE  stored[q].written[kind] \in 0..writes
  <2>1. stored[q] \in Stored
    BY <1>3 DEF StoredPart
  <2>2. stored[q].written[kind] \in 0..MaxWrites
    BY <2>1 DEF Stored, WriteNumbers
  <2>3. stored[q].written[kind] <= writes
    BY <1>3 DEF StoredPart, NumbersGiven
  <2> QED
    BY <1>1, <2>2, <2>3, WritesAssumption
<1>4. ASSUME NEW q \in Projects, stored'[q] # None, NEW kind \in Kinds
      PROVE  stored'[q].written[kind] <= writes'
  <2>1. CASE q = p /\ after.written[kind] = writes'
    BY <1>1, <1>2, <2>1
  <2>2. CASE stored[q] # None /\ stored'[q].written[kind] = stored[q].written[kind]
    BY <1>1, <1>3, <2>2
  <2> QED
    BY <1>2, <1>4, <2>1, <2>2 DEF WrittenFrom
<1>5. StoredPart'
  BY <1>1, <1>2, <1>4 DEF StoredPart, NumbersGiven
<1>6. ASSUME NEW of, NEW written, NEW read, AsStored(of, written, read)
      PROVE  AsStored(of, written, read)'
  <2>1. of \in Projects /\ written \in [Kinds -> 0..writes] /\ read \in Bindings
    BY <1>6 DEF AsStored
  <2>2. written \in [Kinds -> 0..writes'] /\ \A kind \in Kinds : written[kind] # writes'
    <3>1. 0..writes \subseteq 0..writes'
      BY <1>1
    <3>2. \A n \in 0..writes : n # writes'
      BY <1>1
    <3>3. \A kind \in Kinds : written[kind] \in 0..writes
      BY <2>1
    <3> QED
      BY <2>1, <3>1, <3>2, <3>3
  <2>3. ASSUME NEW kind \in Kinds, stored'[of] # None, stored'[of].written[kind] = written[kind]
        PROVE  stored'[of].rows[kind] = read[kind]
    <3>1. /\ stored[of] # None /\ stored[of].written[kind] = stored'[of].written[kind]
          /\ stored[of].rows[kind] = stored'[of].rows[kind]
      BY <1>2, <2>1, <2>2, <2>3 DEF WrittenFrom
    <3> QED
      BY <1>6, <2>3, <3>1 DEF AsStored
  <2> QED
    BY <2>1, <2>2, <2>3 DEF AsStored
<1>7. DetailsPart'
  BY <1>6 DEF DetailsPart, DetailsAsStored
<1>8. FormPart'
  BY <1>6 DEF FormPart, FormAsStored
<1> QED
  BY <1>5, <1>7, <1>8

\* A form that is accepted replaces the rows of both kinds.
LEMMA WrittenAnew ==
  ASSUME StoredPart, writes < MaxWrites, writes' = writes + 1, NEW rows \in Bindings, NEW before
  PROVE  WrittenFrom(before, [written |-> Numbered(writes'), rows |-> rows])
<1>1. writes' \in 0..MaxWrites
  BY WritesAssumption DEF StoredPart
<1>2. Numbered(writes') \in WriteNumbers /\ \A kind \in Kinds : Numbered(writes')[kind] = writes'
  BY <1>1 DEF Numbered, WriteNumbers
<1> QED
  BY <1>2 DEF WrittenFrom, Stored

LEMMA NothingWritten ==
  ASSUME StoredPart, UNCHANGED <<stored, writes>>
  PROVE  /\ StoredPart'
         /\ DetailsPart /\ UNCHANGED selectedProject => DetailsPart'
         /\ FormPart /\ UNCHANGED <<projectModal, projectForm>> => FormPart'
BY DEF StoredPart, NumbersGiven, DetailsPart, DetailsAsStored, FormPart, FormAsStored, AsStored

\* What is sent: an outcome of a form made of bindings, which is not refused for its
\* credentials when it shows the target as it is stored and all of those are there.
LEMMA SentCall ==
  ASSUME StoredPart, ListPart, FormPart, projectModal # "none",
         NEW target \in Projects, projectModal = "create" => stored[target] = None,
         NEW form \in Submittable(projectForm), NEW outcome \in Handle(target, form)
  PROVE  /\ WriteCall(target, outcome) \in ProjectCalls
         /\ WriteCall(target, outcome).op \in {"create", "edit"}
         /\ ProjectCallFits(WriteCall(target, outcome))
         /\ VerdictFits(WriteCall(target, outcome))
         /\ outcome.verdict = "written" => outcome.rows \in Bindings
<1>1. \E mode \in {"create", "edit"}, of \in Projects \cup {None}, written \in [Kinds -> Nat], rows \in Bindings :
        /\ projectForm = FormOf(mode, of, written, rows)
        /\ mode = "edit" <=> projectModal = "edit"
        /\ projectModal = "edit" => AsStored(of, written, rows)
  <2>1. CASE projectModal = "edit"
    <3>1. PICK rows \in Bindings :
            /\ projectForm = FormOf("edit", projectForm.of, projectForm.written, rows)
            /\ AsStored(projectForm.of, projectForm.written, rows)
      BY <2>1 DEF FormPart, FormAsStored, FormOf
    <3>2. projectForm.of \in Projects /\ projectForm.written \in [Kinds -> 0..writes]
      BY <3>1 DEF AsStored
    <3>3. 0..writes \subseteq Nat
      BY WritesAssumption DEF StoredPart
    <3>4. projectForm.written \in [Kinds -> Nat]
      BY <3>2, <3>3
    <3> QED
      BY <2>1, <3>1, <3>2, <3>4
  <2>2. CASE projectModal # "edit"
    <3>1. projectForm = FormOf("create", None, Numbered(0), NoRows) /\ NoRows \in Bindings
      BY <2>2, NoRowsType DEF FormPart, FormAsStored
    <3>2. Numbered(0) \in [Kinds -> Nat]
      BY DEF Numbered
    <3> QED
      BY <2>2, <3>1, <3>2
  <2> QED
    BY <2>1, <2>2
<1>2. PICK mode \in {"create", "edit"}, of \in Projects \cup {None}, written \in [Kinds -> Nat], rows \in Bindings :
        /\ projectForm = FormOf(mode, of, written, rows)
        /\ mode = "edit" <=> projectModal = "edit"
        /\ projectModal = "edit" => AsStored(of, written, rows)
  BY <1>1
<1>3. projectForm.mode = mode /\ projectForm.of = of /\ projectForm.written = written
  BY <1>2 DEF FormOf
<1>4. /\ form.mode = mode /\ form.of = of /\ form.written = written
      /\ \A kind \in Kinds :
           /\ form.rows[kind] \in Edited(Filled(rows[kind]))
           /\ \A k \in DOMAIN form.rows[kind] : ~ProviderChanged(mode, form.rows[kind][k])
  BY <1>2, SubmittedForm
<1>5. /\ outcome \in Outcomes
      /\ outcome.verdict = "written" => outcome.rows \in Bindings
      /\ outcome.verdict = "credential" =>
           \E place \in RefusedFor(form, target, stored[target]) :
             outcome.error.field = FieldOf(Refusal(form, target, stored[target], place[1], place[2]))
  BY <1>4, HandleType
<1> DEFINE current == ShowsStored(target)
           complete == current /\ AllCredentials(stored[target].rows)
<1>6. ASSUME current, outcome.verdict = "credential"
      PROVE  ~complete /\ outcome.error.field = "replaceCredential"
  <2>1. projectForm.of = target /\ stored[target] # None /\ stored[target].written = projectForm.written
    BY <1>6 DEF ShowsStored
  <2>2. projectModal = "edit"
    BY <2>1 DEF FormPart
  <2>3. mode = "edit" /\ of = target /\ written = stored[target].written
    BY <1>2, <1>3, <2>1, <2>2
  <2>4. stored[target].rows \in Bindings /\ \A kind \in Kinds : stored[target].rows[kind] = rows[kind]
    BY <1>2, <2>1, <2>2, <2>3 DEF AsStored, StoredPart, Stored
  <2>5. stored[target].rows = rows
    BY <2>4 DEF Bindings
  <2>6. PICK place \in RefusedFor(form, target, stored[target]) :
          outcome.error.field = FieldOf(Refusal(form, target, stored[target], place[1], place[2]))
    BY <1>5, <1>6
  <2>7. /\ place[1] \in Kinds /\ place[2] \in DOMAIN form.rows[place[1]]
        /\ Refusal(form, target, stored[target], place[1], place[2]) # None
    BY <2>6 DEF RefusedFor
  <2>8. /\ Refusal(form, target, stored[target], place[1], place[2]) = "credential_not_found_for_keep"
        /\ ~AllCredentials(rows)
    BY <1>4, <2>3, <2>5, <2>7, CurrentRefusals
  <2> QED
    BY <2>5, <2>6, <2>8 DEF FieldOf
<1> DEFINE call == WriteCall(target, outcome)
<1>7. /\ call = [op |-> mode, stage |-> "sent", of |-> target, selected |-> selectedProjectId,
                 verdict |-> outcome.verdict, error |-> outcome.error,
                 form |-> [of |-> of, current |-> current, complete |-> complete]]
      /\ current \in BOOLEAN /\ complete \in BOOLEAN
  BY <1>3 DEF WriteCall, ShowsStored
<1> HIDE DEF call, current, complete
<1>8. call \in ProjectCalls
  <2>1. selectedProjectId \in Projects \cup {None} /\ outcome.verdict \in Verdicts
    BY <1>5 DEF ListPart, Outcomes
  <2>2. outcome.error \in [kind : Kinds, index : 1..MaxRows,
                           field : {"providerType", "accessKeyId", "replaceCredential"}] \cup {None}
    BY <1>5 DEF Outcomes
  <2>3. [of |-> of, current |-> current, complete |-> complete]
          \in [of : Projects \cup {None}, current : BOOLEAN, complete : BOOLEAN]
    BY <1>7
  <2> QED
    BY <1>7, <2>1, <2>2, <2>3 DEF ProjectCalls
<1>9. /\ call.op = mode /\ call.of = target /\ call.verdict = outcome.verdict
      /\ call.error = outcome.error /\ call.form.current = current /\ call.form.complete = complete
  BY <1>7
<1> QED
  BY <1>5, <1>6, <1>8, <1>9 DEF ProjectCallFits, VerdictFits, call

LEMMA ProjectsStepInv == ProjectsInv /\ [ProjectsNext]_projectsVars => ProjectsInv'
<1> SUFFICES ASSUME ProjectsInv, [ProjectsNext]_projectsVars
             PROVE  /\ StoredPart' /\ ListPart' /\ DetailsPart' /\ FormPart'
                    /\ CallsGood(projectCalls') /\ Spinners'
  BY DEF ProjectsInv, ProjectsTypeOK, StoredPart, ListPart, DetailsPart, FormPart, CallsGood, Spinners,
         ProjectCallsFit, CurrentFormAccepted, VerdictFits, ProjectsNeverStuck, WaitsAt, Submits, ProjectsAt
<1>1. /\ StoredPart /\ ListPart /\ DetailsPart /\ FormPart /\ CallsGood(projectCalls) /\ Spinners
      /\ ProjectsTypeOK
  BY ProjectsInvDef DEF ProjectsInv
<1>2. CASE UNCHANGED projectsVars
  BY <1>1, <1>2, NothingWritten DEF projectsVars, ListPart, Spinners
<1>3. CASE OpenEditModal
  <2>1. UNCHANGED <<stored, writes, isAdmin, projectRows, projectsError, loadingList,
                    selectedProjectId, selectedProject, loadingDetail, submitting, projectCalls>>
    BY <1>3 DEF OpenEditModal, ProjectPageUnchanged
  <2>2. AsStored(selectedProject.of, selectedProject.written, selectedProject.rows)
    BY <1>1, <1>3 DEF OpenEditModal, DetailsPart, DetailsAsStored
  <2>3. /\ projectModal' = "edit"
        /\ projectForm' = [mode |-> "edit", of |-> selectedProject.of,
                           written |-> selectedProject.written,
                           rows |-> [kind \in Kinds |-> Filled(selectedProject.rows[kind])]]
    BY <1>3 DEF OpenEditModal
  <2>4. selectedProject.of \in Projects /\ selectedProject.rows \in Bindings
    BY <2>2 DEF AsStored
  <2>5. FormPart'
    BY <2>1, <2>2, <2>3, <2>4 DEF FormPart, FormAsStored, AsStored
  <2> QED
    BY <1>1, <2>1, <2>5, NothingWritten DEF ListPart, Spinners
<1>4. CASE OpenCreateModal \/ CancelModal
  <2>1. UNCHANGED <<stored, writes, isAdmin, projectRows, projectsError, loadingList,
                    selectedProjectId, selectedProject, loadingDetail, submitting, projectCalls>>
    BY <1>4 DEF OpenCreateModal, CancelModal, ProjectPageUnchanged
  <2>2. FormPart'
    BY <1>4 DEF OpenCreateModal, CancelModal, FormPart, FormAsStored, NoForm
  <2> QED
    BY <1>1, <2>1, <2>2, NothingWritten DEF ListPart, Spinners
<1>5. CASE OtherUpdate \/ OtherUpdateCDNs
  <2>1. UNCHANGED <<isAdmin, projectRows, projectsError, loadingList, selectedProjectId, selectedProject,
                    loadingDetail, projectModal, projectForm, submitting, projectCalls>>
        /\ writes < MaxWrites /\ writes' = writes + 1
    BY <1>5 DEF OtherUpdate, OtherUpdateCDNs, OtherWrite, ProjectPageUnchanged, ProjectDialogUnchanged
  <2>2. \E p \in Projects : \E after :
          WrittenFrom(stored[p], after) /\ stored' = [stored EXCEPT ![p] = after]
    <3>1. CASE OtherUpdate
      <4>1. PICK p \in Projects, rows \in OtherBindings :
              stored' = [stored EXCEPT ![p] = [written |-> Numbered(writes'), rows |-> rows]]
        BY <3>1 DEF OtherUpdate
      <4>2. WrittenFrom(stored[p], [written |-> Numbered(writes'), rows |-> rows])
        BY <1>1, <2>1, WrittenAnew, OtherBindingsAssumption
      <4> QED
        BY <4>1, <4>2
    <3>2. CASE OtherUpdateCDNs
      <4>1. PICK p \in Projects, rows \in OtherBindings :
              /\ stored[p] # None
              /\ stored' = [stored EXCEPT ![p] = [written |-> [@.written EXCEPT !["cdns"] = writes'],
                                                  rows |-> [@.rows EXCEPT !["cdns"] = rows["cdns"]]]]
        BY <3>2 DEF OtherUpdateCDNs
      <4> DEFINE before == stored[p]
                 after == [written |-> [before.written EXCEPT !["cdns"] = writes'],
                           rows |-> [before.rows EXCEPT !["cdns"] = rows["cdns"]]]
      <4>2. before \in Stored /\ before # None /\ stored \in [Projects -> Stored \cup {None}]
        BY <1>1, <4>1 DEF StoredPart
      <4>3. stored' = [stored EXCEPT ![p] = after]
        BY <4>1, <4>2
      <4>4. writes' \in 0..MaxWrites
        BY <1>1, <2>1, WritesAssumption DEF StoredPart
      <4>5. after.written \in WriteNumbers
        BY <4>2, <4>4 DEF Stored, WriteNumbers
      <4>6. after.rows \in Bindings
        BY <4>2, OtherBindingsAssumption DEF Stored, Bindings
      <4>7. WrittenFrom(before, after)
        BY <4>2, <4>5, <4>6 DEF WrittenFrom, Stored, WriteNumbers, Bindings
      <4> QED
        BY <4>3, <4>7
    <3> QED
      BY <1>5, <3>1, <3>2
  <2>3. StoredPart' /\ DetailsPart' /\ FormPart'
    BY <1>1, <2>1, <2>2, WritingKeepsRead
  <2> QED
    BY <1>1, <2>1, <2>3 DEF ListPart, Spinners
<1>6. CASE ChooseProject
  <2>1. PICK p \in projectRows : SelectId(p, projectCalls, loadingDetail)
    BY <1>6 DEF ChooseProject
  <2>2. selectedProjectId' = p /\ p \in Projects /\ SelectedFrom(projectCalls, loadingDetail)
    BY <1>1, <2>1, Selecting DEF ListPart
  <2>3. UNCHANGED <<stored, writes, isAdmin, projectRows, projectsError, loadingList, selectedProject,
                    projectModal, projectForm, submitting>>
    BY <1>6 DEF ChooseProject, ProjectDialogUnchanged
  <2>4. ListPart'
    BY <1>1, <2>2, <2>3 DEF ListPart, SelectedFrom
  <2>5. Spinners'
    BY <1>1, <2>2, <2>3 DEF Spinners, SelectedFrom, WaitsAt, Submits
  <2> QED
    BY <1>1, <2>2, <2>3, <2>4, <2>5, NothingWritten DEF SelectedFrom
<1>7. ASSUME NEW c \in CallIds, RefreshProjects(c)
      PROVE  /\ StoredPart' /\ ListPart' /\ DetailsPart' /\ FormPart'
             /\ CallsGood(projectCalls') /\ Spinners'
  <2>1. UNCHANGED <<stored, writes, isAdmin, projectRows, selectedProjectId, selectedProject,
                    loadingDetail, projectModal, projectForm, submitting>>
        /\ projectsError' = FALSE /\ loadingList' = TRUE
    BY <1>7 DEF RefreshProjects, ProjectDialogUnchanged
  <2> DEFINE call == ListCall
  <2>2. /\ call \in ProjectCalls /\ ProjectCallFits(call) /\ VerdictFits(call) /\ call.stage = "list"
        /\ projectCalls[c] = Idle /\ projectCalls' = Started(projectCalls, c, call)
    BY <1>1, <1>7, ReadingCalls DEF RefreshProjects
  <2> HIDE DEF call
  <2>3. /\ CallsGood(projectCalls') /\ call # Idle /\ projectCalls'[c] = call
        /\ \A x \in CallIds \ {c} : projectCalls'[x] = projectCalls[x]
    BY <1>1, <2>2, GoodStarted
  <2>4. Spinners'
    BY <1>1, <2>1, <2>2, <2>3 DEF Spinners, WaitsAt, Submits
  <2> QED
    BY <1>1, <2>1, <2>3, <2>4, NothingWritten DEF ListPart
<1>8. ASSUME NEW c \in CallIds, SubmitProject(c)
      PROVE  /\ StoredPart' /\ ListPart' /\ DetailsPart' /\ FormPart'
             /\ CallsGood(projectCalls') /\ Spinners'
  <2>1. /\ projectModal # "none" /\ projectCalls[c] = Idle /\ submitting' = TRUE
        /\ UNCHANGED <<isAdmin, projectRows, projectsError, loadingList, selectedProjectId,
                       selectedProject, loadingDetail, projectModal, projectForm>>
    BY <1>8 DEF SubmitProject, ProjectPageUnchanged
  <2>2. PICK target \in IF projectModal = "create" THEN {p \in Projects : stored[p] = None}
                                                   ELSE {selectedProjectId} :
        \E outcome \in UNION {Handle(target, form) : form \in Submittable(projectForm)} :
          /\ projectCalls' = Started(projectCalls, c, WriteCall(target, outcome))
          /\ IF outcome.verdict = "written"
               THEN /\ writes < MaxWrites /\ writes' = writes + 1
                    /\ stored' = [stored EXCEPT ![target] =
                                  [written |-> Numbered(writes'), rows |-> outcome.rows]]
               ELSE UNCHANGED <<stored, writes>>
    BY <1>8 DEF SubmitProject
  <2>3. PICK form \in Submittable(projectForm) : \E outcome \in Handle(target, form) :
          /\ projectCalls' = Started(projectCalls, c, WriteCall(target, outcome))
          /\ IF outcome.verdict = "written"
               THEN /\ writes < MaxWrites /\ writes' = writes + 1
                    /\ stored' = [stored EXCEPT ![target] =
                                  [written |-> Numbered(writes'), rows |-> outcome.rows]]
               ELSE UNCHANGED <<stored, writes>>
    BY <2>2
  <2>4. PICK outcome \in Handle(target, form) :
           /\ projectCalls' = Started(projectCalls, c, WriteCall(target, outcome))
           /\ IF outcome.verdict = "written"
                THEN /\ writes < MaxWrites /\ writes' = writes + 1
                     /\ stored' = [stored EXCEPT ![target] =
                                  [written |-> Numbered(writes'), rows |-> outcome.rows]]
                ELSE UNCHANGED <<stored, writes>>
    BY <2>3
  <2>5. target \in Projects /\ (projectModal = "create" => stored[target] = None)
    <3>1. projectModal \in {"create", "edit"}
      BY <1>1, <2>1 DEF FormPart
    <3>2. projectModal = "edit" => selectedProjectId \in Projects
      BY <1>1, <1>8 DEF SubmitProject, ListPart
    <3> QED
      BY <2>2, <3>1, <3>2
  <2> DEFINE call == WriteCall(target, outcome)
  <2>6. /\ call \in ProjectCalls /\ call.op \in {"create", "edit"} /\ ProjectCallFits(call)
        /\ VerdictFits(call)
        /\ outcome.verdict = "written" => outcome.rows \in Bindings
    BY <1>1, <2>1, <2>5, SentCall
  <2>7. projectCalls' = Started(projectCalls, c, call)
    BY <2>4
  <2> HIDE DEF call
  <2>8. /\ CallsGood(projectCalls') /\ call # Idle /\ projectCalls'[c] = call
        /\ \A x \in CallIds \ {c} : projectCalls'[x] = projectCalls[x]
    BY <1>1, <2>6, <2>7, GoodStarted
  <2>9. Spinners'
    BY <1>1, <2>1, <2>6, <2>8 DEF Spinners, WaitsAt, Submits
  <2>10. StoredPart' /\ DetailsPart' /\ FormPart'
    <3>1. CASE outcome.verdict = "written"
      <4>1. /\ writes < MaxWrites /\ writes' = writes + 1
            /\ stored' = [stored EXCEPT ![target] = [written |-> Numbered(writes'), rows |-> outcome.rows]]
        BY <2>4, <3>1
      <4>2. WrittenFrom(stored[target], [written |-> Numbered(writes'), rows |-> outcome.rows])
        BY <1>1, <2>6, <3>1, <4>1, WrittenAnew
      <4> QED
        BY <1>1, <2>1, <2>5, <4>1, <4>2, WritingKeepsRead
    <3>2. CASE outcome.verdict # "written"
      BY <1>1, <2>1, <2>4, <3>2, NothingWritten
    <3> QED
      BY <3>1, <3>2
  <2> QED
    BY <1>1, <2>1, <2>8, <2>9, <2>10 DEF ListPart
<1>9. ASSUME NEW c \in CallIds, ProjectListAnswer(c)
      PROVE  /\ StoredPart' /\ ListPart' /\ DetailsPart' /\ FormPart'
             /\ CallsGood(projectCalls') /\ Spinners'
  <2> DEFINE rest == Ended(projectCalls, c)
  <2>1. /\ projectCalls[c] # Idle /\ projectCalls[c].stage = "list" /\ projectCalls[c].op = "list"
        /\ TakeList(projectCalls[c], rest, loadingDetail)
        /\ loadingList' = FALSE
        /\ UNCHANGED <<stored, writes, isAdmin, projectModal, projectForm, submitting>>
    BY <1>9 DEF ProjectListAnswer, ProjectsAt, ProjectDialogUnchanged
  <2>2. CallsGood(rest) /\ \A x \in CallIds : rest[x] = IF x = c THEN Idle ELSE projectCalls[x]
    BY <1>1, GoodEnded
  <2> HIDE DEF rest
  <2>3. /\ SelectedFrom(rest, loadingDetail)
        /\ projectRows' \in SUBSET Projects /\ projectsError' \in BOOLEAN
        /\ selectedProjectId' \in Projects \cup {None}
        /\ selectedProject' \in {selectedProject, None}
    BY <1>1, <2>1, <2>2, TakingList
  <2>4. ListPart'
    BY <1>1, <2>1, <2>3 DEF ListPart, SelectedFrom
  <2>5. DetailsPart'
    BY <1>1, <2>1, <2>3 DEF DetailsPart, DetailsAsStored, AsStored
  <2>6. Spinners'
    BY <1>1, <2>1, <2>2, <2>3 DEF Spinners, SelectedFrom, WaitsAt, Submits
  <2> QED
    BY <1>1, <2>1, <2>3, <2>4, <2>5, <2>6, NothingWritten DEF SelectedFrom
<1>10. ASSUME NEW c \in CallIds, ProjectDetailAnswer(c)
       PROVE  /\ StoredPart' /\ ListPart' /\ DetailsPart' /\ FormPart'
              /\ CallsGood(projectCalls') /\ Spinners'
  <2> DEFINE p == projectCalls[c].of
  <2>1. /\ projectCalls[c] # Idle /\ projectCalls[c].stage = "detail"
        /\ UNCHANGED <<stored, writes, isAdmin, projectRows, projectsError, loadingList,
                       selectedProjectId, projectModal, projectForm>>
        /\ loadingDetail' = FALSE /\ projectCalls' = Ended(projectCalls, c)
        /\ submitting' = IF projectCalls[c].op = "detail" THEN submitting ELSE FALSE
    BY <1>10 DEF ProjectDetailAnswer, ProjectsAt
  <2>2. p \in Projects
    BY <1>1, <2>1 DEF CallsGood, ProjectCallFits
  <2>3. ASSUME selectedProject' = None PROVE DetailsPart'
    BY <2>3 DEF DetailsPart, DetailsAsStored
  <2>4. ASSUME stored[p] # None,
               selectedProject' = [of |-> p, written |-> stored[p].written, rows |-> stored[p].rows]
        PROVE  DetailsPart'
    <3>1. /\ stored[p] \in Stored /\ writes \in 0..MaxWrites
          /\ \A kind \in Kinds : stored[p].written[kind] <= writes
      BY <1>1, <2>2, <2>4 DEF StoredPart, NumbersGiven
    <3>2. stored[p].written \in [Kinds -> 0..writes] /\ stored[p].rows \in Bindings
      <4>1. \A kind \in Kinds : stored[p].written[kind] \in 0..MaxWrites
        BY <3>1 DEF Stored, WriteNumbers
      <4>2. \A kind \in Kinds : stored[p].written[kind] \in 0..writes
        BY <3>1, <4>1, WritesAssumption
      <4> QED
        BY <3>1, <4>2 DEF Stored, WriteNumbers
    <3>3. selectedProject' \in Details
      BY <2>2, <2>4, <3>1 DEF Details, Stored
    <3>4. selectedProject'.of = p /\ selectedProject'.written = stored[p].written
          /\ selectedProject'.rows = stored[p].rows
      BY <2>4
    <3> QED
      BY <2>1, <2>2, <3>2, <3>3, <3>4 DEF DetailsPart, DetailsAsStored, AsStored
  <2>5. DetailsPart'
    BY <1>10, <2>3, <2>4 DEF ProjectDetailAnswer
  <2>6. /\ CallsGood(projectCalls')
        /\ \A x \in CallIds : projectCalls'[x] = IF x = c THEN Idle ELSE projectCalls[x]
    BY <1>1, <2>1, GoodEnded
  <2>7. Spinners'
    BY <1>1, <2>1, <2>6 DEF Spinners, WaitsAt, Submits
  <2> QED
    BY <1>1, <2>1, <2>5, <2>6, <2>7, NothingWritten DEF ListPart
<1>11. ASSUME NEW c \in CallIds, ProjectAnswer(c)
       PROVE  /\ StoredPart' /\ ListPart' /\ DetailsPart' /\ FormPart'
              /\ CallsGood(projectCalls') /\ Spinners'
  <2>1. /\ projectCalls[c] # Idle /\ projectCalls[c].stage = "sent"
        /\ UNCHANGED <<stored, writes, isAdmin, projectRows, selectedProjectId, selectedProject,
                       loadingDetail>>
    BY <1>11 DEF ProjectAnswer, ProjectsAt
  <2>2. CASE /\ projectCalls[c].verdict = "written"
             /\ projectModal' = "none" /\ projectForm' = NoForm
             /\ loadingList' = TRUE /\ projectsError' = FALSE
             /\ projectCalls' = [projectCalls EXCEPT ![c].stage = "list"]
             /\ UNCHANGED submitting
    <3>1. projectCalls[c].op # "list"
      BY <1>1, <2>1 DEF CallsGood, ProjectCallFits
    <3> DEFINE next == [projectCalls EXCEPT ![c].stage = "list"]
    <3>2. /\ CallsGood(next)
          /\ next[c] # Idle /\ next[c].stage = "list" /\ next[c].op = projectCalls[c].op
          /\ \A x \in CallIds \ {c} : next[x] = projectCalls[x]
      BY <1>1, <2>1, <3>1, GoodGoesOn
    <3>3. projectCalls' = next
      BY <2>2
    <3> HIDE DEF next
    <3>4. /\ CallsGood(projectCalls')
          /\ projectCalls'[c] # Idle /\ projectCalls'[c].stage = "list"
          /\ projectCalls'[c].op = projectCalls[c].op
          /\ \A x \in CallIds \ {c} : projectCalls'[x] = projectCalls[x]
      BY <3>2, <3>3
    <3>5. Spinners'
      BY <1>1, <2>1, <2>2, <3>4 DEF Spinners, WaitsAt, Submits
    <3>6. FormPart'
      BY <2>2 DEF FormPart, FormAsStored, NoForm
    <3> QED
      BY <1>1, <2>1, <2>2, <3>4, <3>5, <3>6, NothingWritten DEF ListPart
  <2>3. CASE /\ submitting' = FALSE /\ projectCalls' = Ended(projectCalls, c)
             /\ UNCHANGED <<projectModal, projectForm, loadingList, projectsError>>
    <3>1. /\ CallsGood(projectCalls')
          /\ \A x \in CallIds : projectCalls'[x] = IF x = c THEN Idle ELSE projectCalls[x]
      BY <1>1, <2>3, GoodEnded
    <3>2. Spinners'
      BY <1>1, <2>1, <2>3, <3>1 DEF Spinners, WaitsAt, Submits
    <3> QED
      BY <1>1, <2>1, <2>3, <3>1, <3>2, NothingWritten DEF ListPart
  <2> QED
    BY <1>11, <2>2, <2>3 DEF ProjectAnswer
<1>12. ASSUME NEW c \in CallIds, ListAfterSubmission(c)
       PROVE  /\ StoredPart' /\ ListPart' /\ DetailsPart' /\ FormPart'
              /\ CallsGood(projectCalls') /\ Spinners'
  <2> DEFINE next == [projectCalls EXCEPT ![c].stage = "detail"]
  <2>1. /\ projectCalls[c] # Idle /\ projectCalls[c].stage = "list"
        /\ projectCalls[c].op \in {"create", "edit"} /\ projectCalls[c].of \in Projects
        /\ loadingList' = FALSE
        /\ UNCHANGED <<stored, writes, isAdmin, projectModal, projectForm, submitting>>
    BY <1>1, <1>12 DEF ListAfterSubmission, ProjectsAt, ProjectDialogUnchanged, CallsGood, ProjectCallFits
  <2>2. /\ CallsGood(next) /\ next[c] # Idle /\ next[c].stage = "detail"
        /\ next[c].op = projectCalls[c].op
        /\ \A x \in CallIds \ {c} : next[x] = projectCalls[x]
    BY <1>1, <2>1, GoodGoesOn
  <2>3. IF projectCalls[c].op = "create"
          THEN /\ SelectId(projectCalls[c].of, next, TRUE)
               /\ \/ \E items \in Lists :
                       /\ projectRows' = items /\ UNCHANGED projectsError
                       /\ selectedProject' = IF items = {} THEN None ELSE selectedProject
                  \/ projectsError' = TRUE /\ UNCHANGED <<projectRows, selectedProject>>
          ELSE TakeList(projectCalls[c], next, TRUE)
    BY <1>12 DEF ListAfterSubmission
  <2> HIDE DEF next
  <2>4. /\ SelectedFrom(next, TRUE)
        /\ projectRows' \in SUBSET Projects /\ projectsError' \in BOOLEAN
        /\ selectedProjectId' \in Projects \cup {None}
        /\ selectedProject' \in {selectedProject, None}
    <3>1. CASE projectCalls[c].op = "create"
      <4>1. selectedProjectId' = projectCalls[c].of /\ SelectedFrom(next, TRUE)
        BY <1>1, <2>1, <2>2, <2>3, <3>1, Selecting
      <4>2. projectRows' \in SUBSET Projects /\ projectsError' \in BOOLEAN
            /\ selectedProject' \in {selectedProject, None}
        BY <1>1, <2>3, <3>1 DEF ListPart, Lists
      <4> QED
        BY <2>1, <4>1, <4>2
    <3>2. CASE projectCalls[c].op # "create"
      BY <1>1, <2>2, <2>3, <3>2, TakingList
    <3> QED
      BY <3>1, <3>2
  <2>5. ListPart'
    BY <1>1, <2>1, <2>4 DEF ListPart, SelectedFrom
  <2>6. DetailsPart'
    BY <1>1, <2>1, <2>4 DEF DetailsPart, DetailsAsStored, AsStored
  <2>7. Spinners'
    BY <1>1, <2>1, <2>2, <2>4 DEF Spinners, SelectedFrom, WaitsAt, Submits
  <2> QED
    BY <1>1, <2>1, <2>4, <2>5, <2>6, <2>7, NothingWritten DEF SelectedFrom
<1> QED
  BY <1>2, <1>3, <1>4, <1>5, <1>6, <1>7, <1>8, <1>9, <1>10, <1>11, <1>12 DEF ProjectsNext

-----------------------------------------------------------------------------
(* The theorems.                                                           *)

\* The page of projects never holds a value outside its types.
THEOREM ProjectsTypes == ProjectsSpec => []ProjectsTypeOK
<1>1. ProjectsInv => ProjectsTypeOK
  BY DEF ProjectsInv
<1> QED
  BY <1>1, ProjectsInitInv, ProjectsStepInv, PTL DEF ProjectsSpec

\* The page (submitProject) and the server (prepareUpdateBindings) agree: a form that
\* shows the project as it is stored when it arrives is not refused for its
\* credentials, whatever was edited, kept or added, as long as all those bindings have
\* one; otherwise a refusal is placed at the switch that keeps a credential.
THEOREM CurrentFormsAccepted == ProjectsSpec => []CurrentFormAccepted
<1>1. ProjectsInv => CurrentFormAccepted
  BY DEF ProjectsInv
<1> QED
  BY <1>1, ProjectsInitInv, ProjectsStepInv, PTL DEF ProjectsSpec

\* The list, the details and the dialog never wait without a call under way that
\* ends the wait.
THEOREM ProjectsNotStuck == ProjectsSpec => []ProjectsNeverStuck
<1>1. ProjectsInv => ProjectsNeverStuck
  BY DEF ProjectsInv
<1> QED
  BY <1>1, ProjectsInitInv, ProjectsStepInv, PTL DEF ProjectsSpec
=============================================================================
