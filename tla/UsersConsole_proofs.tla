------------------------- MODULE UsersConsole_proofs -------------------------
(***************************************************************************)
(* The page of users for any users, projects, bindings and number of calls *)
(* under way: types, that no save crosses from one user to another, and    *)
(* that no dialog stays covered.                                           *)
(***************************************************************************)
EXTENDS UsersConsole, SequenceTheorems, TLAPS

-----------------------------------------------------------------------------
(* Lists of bindings.                                                      *)

LEMMA BindingListsDef == BindingLists = {s \in Seq(Bindable) : Len(s) <= MaxBindings}
<1>1. ASSUME NEW s \in BindingLists PROVE s \in Seq(Bindable) /\ Len(s) <= MaxBindings
  <2>1. PICK m \in 0..MaxBindings : s \in [1..m -> Bindable]
    BY <1>1 DEF BindingLists, SeqOf
  <2> QED
    BY <2>1, BindingsAssumption
<1>2. ASSUME NEW s \in Seq(Bindable), Len(s) <= MaxBindings PROVE s \in BindingLists
  <2>1. s \in [1..Len(s) -> Bindable] /\ Len(s) \in 0..MaxBindings
    BY <1>2, BindingsAssumption, LenProperties
  <2> QED
    BY <2>1 DEF BindingLists, SeqOf
<1> QED
  BY <1>1, <1>2

LEMMA NoBindingsType == <<>> \in BindingLists
  BY BindingListsDef, BindingsAssumption, EmptySeq

LEMMA AppendType ==
  ASSUME NEW s \in BindingLists, Len(s) < MaxBindings, NEW p \in Bindable
  PROVE  Append(s, p) \in BindingLists
  BY BindingListsDef, AppendProperties, BindingsAssumption

LEMMA RemoveAtType ==
  ASSUME NEW s \in BindingLists, NEW k \in DOMAIN s
  PROVE  RemoveAt(s, k) \in BindingLists
<1>1. s \in Seq(Bindable) /\ Len(s) <= MaxBindings /\ k \in 1..Len(s)
  BY BindingListsDef, LenProperties
<1>2. SubSeq(s, 1, k - 1) \in Seq(Bindable) /\ Len(SubSeq(s, 1, k - 1)) = k - 1
  BY <1>1, SubSeqProperties
<1>3. SubSeq(s, k + 1, Len(s)) \in Seq(Bindable) /\ Len(SubSeq(s, k + 1, Len(s))) = Len(s) - k
  BY <1>1, SubSeqProperties
<1>4. RemoveAt(s, k) \in Seq(Bindable) /\ Len(RemoveAt(s, k)) = Len(s) - 1
  <2> DEFINE a == SubSeq(s, 1, k - 1)
             b == SubSeq(s, k + 1, Len(s))
  <2>1. Len(s) \in Nat
    BY <1>1, LenProperties
  <2> HIDE DEF a, b
  <2>2. a \o b \in Seq(Bindable) /\ Len(a \o b) = Len(a) + Len(b)
    BY <1>2, <1>3, ConcatProperties DEF a, b
  <2>3. Len(a) + Len(b) = Len(s) - 1
    BY SMTT(20), <1>1, <1>2, <1>3, <2>1 DEF a, b
  <2> QED
    BY <2>2, <2>3 DEF RemoveAt, a, b
<1> QED
  BY <1>1, <1>4, LenProperties, BindingListsDef, BindingsAssumption

-----------------------------------------------------------------------------
(* The invariant.                                                          *)

Forms == [of : Users, rows : BindingLists]
Actives == [user : Users, cached : BindingLists]

Submission(call) == call.op \notin {"list", "snapshot"}

\* Where a handler is, and what it took with it.
UserCallFits(call) ==
  /\ call.op = "list" => call.stage = "list"
  /\ call.op = "snapshot" => call.stage = "snapshot" /\ call.user \in Users
  /\ call.op = "bindings" =>
       /\ call.stage \in {"sent", "snapshot"} /\ call.user \in Users
       /\ call.sent \in Forms
  /\ call.op \in {"create", "edit", "password", "disable"} => call.stage \in {"sent", "list"}

UserCallsFit == \A c \in CallIds : userCalls[c] # Idle => UserCallFits(userCalls[c])

\* The buttons allow one submission at a time.
OneSubmission ==
  \A c \in CallIds :
    userCalls[c] # Idle /\ Submission(userCalls[c]) =>
      /\ usersSubmitting
      /\ \A d \in CallIds : userCalls[d] # Idle /\ Submission(userCalls[d]) => d = c

DialogFilled ==
  /\ userDialog \in {"edit", "password", "bindings"} => activeUser \in Actives
  /\ userDialog = "bindings" => bindingForm \in Forms

\* A save that waits for its snapshot has taken the target over; as long as there
\* is none, form and target are those of the user of the dialog.
SaveWaits == \E c \in CallIds :
  userCalls[c] # Idle /\ userCalls[c].op = "bindings" /\ userCalls[c].stage = "snapshot"
FormOfItsUser ==
  userDialog = "bindings" /\ ~SaveWaits =>
    bindingForm.of = activeUser.user /\ snapshotTarget = activeUser.user

UsersInv ==
  /\ UsersTypeOK /\ UserCallsFit /\ OneSubmission /\ DialogFilled /\ FormOfItsUser
  /\ NoCrossUserSave /\ UsersNeverStuck

-----------------------------------------------------------------------------
(* What a step does to the calls under way.                                *)

SubmissionPending ==
  usersSubmitting => \E c \in CallIds : userCalls[c] # Idle /\ Submission(userCalls[c])

CallsPart ==
  /\ userCalls \in [CallIds -> UserCalls \cup {Idle}] /\ usersSubmitting \in BOOLEAN
  /\ UserCallsFit /\ OneSubmission /\ NoCrossUserSave /\ SubmissionPending

UserOps == {"list", "create", "edit", "password", "disable", "bindings", "snapshot"}

LEMMA UserCallType ==
  ASSUME NEW op \in UserOps, NEW user \in Users \cup {None}, NEW cached \in BindingLists,
         NEW sent \in Forms \cup {None}
  PROVE  UserCall(op, user, cached, sent) \in UserCalls
  BY DEF UserCall, UserCalls, UserOps, Forms

LEMMA PartOfInv == UsersInv => CallsPart
  BY DEF UsersInv, UsersTypeOK, CallsPart, SubmissionPending, UsersNeverStuck, Submission

LEMMA SameCalls ==
  ASSUME CallsPart, UNCHANGED <<userCalls, usersSubmitting>>
  PROVE  CallsPart' /\ (SaveWaits' <=> SaveWaits)
  BY DEF CallsPart, UserCallsFit, OneSubmission, NoCrossUserSave, SubmissionPending, SaveWaits

LEMMA CallStarts ==
  ASSUME CallsPart, NEW c \in CallIds, userCalls[c] = Idle,
         NEW call \in UserCalls, UserCallFits(call), userCalls' = Started(userCalls, c, call),
         call.op = "bindings" => call.stage = "sent" /\ call.sent.of = call.user,
         IF Submission(call) THEN ~usersSubmitting /\ usersSubmitting' = TRUE
                             ELSE UNCHANGED usersSubmitting
  PROVE  /\ CallsPart' /\ (SaveWaits' <=> SaveWaits)
         /\ userCalls'[c] = call /\ \A x \in CallIds \ {c} : userCalls'[x] = userCalls[x]
<1>1. /\ \A x \in CallIds : userCalls'[x] = IF x = c THEN call ELSE userCalls[x]
      /\ userCalls' \in [CallIds -> UserCalls \cup {Idle}]
  BY DEF CallsPart, Started
<1>2. UserCallsFit' /\ NoCrossUserSave'
  BY <1>1 DEF CallsPart, UserCallsFit, NoCrossUserSave
<1>3. OneSubmission'
  BY <1>1 DEF CallsPart, OneSubmission
<1>4. SubmissionPending'
  BY <1>1, UserCallsAssumption DEF CallsPart, SubmissionPending
<1>5. SaveWaits' <=> SaveWaits
  BY <1>1 DEF SaveWaits
<1> QED
  BY <1>1, <1>2, <1>3, <1>4, <1>5 DEF CallsPart

LEMMA CallEnds ==
  ASSUME CallsPart, NEW c \in CallIds, userCalls[c] # Idle, userCalls' = Ended(userCalls, c),
         IF Submission(userCalls[c]) THEN usersSubmitting' = FALSE ELSE UNCHANGED usersSubmitting
  PROVE  /\ CallsPart'
         /\ ~(userCalls[c].op = "bindings" /\ userCalls[c].stage = "snapshot")
              => (SaveWaits' <=> SaveWaits)
         /\ \A x \in CallIds \ {c} : userCalls'[x] = userCalls[x]
<1>1. /\ \A x \in CallIds : userCalls'[x] = IF x = c THEN Idle ELSE userCalls[x]
      /\ userCalls' \in [CallIds -> UserCalls \cup {Idle}]
  BY DEF CallsPart, Ended
<1>2. UserCallsFit' /\ NoCrossUserSave'
  BY <1>1 DEF CallsPart, UserCallsFit, NoCrossUserSave
<1>3. OneSubmission'
  BY <1>1 DEF CallsPart, OneSubmission
<1>4. SubmissionPending'
  BY <1>1 DEF CallsPart, SubmissionPending
<1>5. ~(userCalls[c].op = "bindings" /\ userCalls[c].stage = "snapshot")
        => (SaveWaits' <=> SaveWaits)
  BY <1>1 DEF SaveWaits
<1> QED
  BY <1>1, <1>2, <1>3, <1>4, <1>5 DEF CallsPart

LEMMA CallGoesOn ==
  ASSUME CallsPart, NEW c \in CallIds, userCalls[c] # Idle,
         NEW stage \in {"list", "snapshot"},
         UserCallFits([userCalls[c] EXCEPT !.stage = stage]),
         userCalls' = [userCalls EXCEPT ![c].stage = stage], UNCHANGED usersSubmitting
  PROVE  /\ CallsPart'
         /\ userCalls'[c] = [userCalls[c] EXCEPT !.stage = stage] /\ userCalls'[c] # Idle
         /\ userCalls[c].op # "bindings" => (SaveWaits' <=> SaveWaits)
         /\ userCalls[c].op = "bindings" /\ stage = "snapshot" => SaveWaits'
         /\ \A x \in CallIds \ {c} : userCalls'[x] = userCalls[x]
<1> DEFINE call == [userCalls[c] EXCEPT !.stage = stage]
<1>1. /\ call \in UserCalls /\ call.op = userCalls[c].op /\ call.user = userCalls[c].user
      /\ call.sent = userCalls[c].sent /\ call.stage = stage
  BY DEF CallsPart, UserCalls
<1>2. call # Idle
  BY <1>1, UserCallsAssumption
<1>3. UserCallFits(call) /\ userCalls' = [userCalls EXCEPT ![c] = call]
  OBVIOUS
<1> HIDE DEF call
<1>4. /\ \A x \in CallIds : userCalls'[x] = IF x = c THEN call ELSE userCalls[x]
      /\ userCalls' \in [CallIds -> UserCalls \cup {Idle}]
  BY <1>1, <1>3 DEF CallsPart
<1>5. UserCallsFit'
  BY <1>3, <1>4 DEF CallsPart, UserCallsFit
<1>6. NoCrossUserSave'
  BY <1>1, <1>4 DEF CallsPart, NoCrossUserSave
<1>7. OneSubmission' /\ SubmissionPending'
  BY <1>1, <1>2, <1>4 DEF CallsPart, OneSubmission, SubmissionPending, Submission
<1>8. userCalls[c].op # "bindings" => (SaveWaits' <=> SaveWaits)
  BY <1>1, <1>4 DEF SaveWaits
<1>9. userCalls[c].op = "bindings" /\ stage = "snapshot" => SaveWaits'
  BY <1>1, <1>2, <1>4 DEF SaveWaits
<1>10. CallsPart'
  BY <1>4, <1>5, <1>6, <1>7 DEF CallsPart
<1> QED
  BY <1>2, <1>4, <1>8, <1>9, <1>10 DEF call

-----------------------------------------------------------------------------
(* The parts of the invariant that are about the page.                     *)

PageTypes ==
  /\ boundTo \in [Users -> BindingLists]
  /\ userRows \in [Users -> BindingLists] \cup {None}
  /\ {usersError, usersLoading, snapshotLoading} \subseteq BOOLEAN
  /\ userDialog \in UserDialogs
  /\ activeUser \in Actives \cup {None}
  /\ bindingForm \in Forms \cup {None}
  /\ snapshotTarget \in Users \cup {None}

CoveredOf(c) == userCalls[c] # Idle /\ userCalls[c].stage = "snapshot" /\ userCalls[c].user = snapshotTarget
Covered == userDialog = "bindings" /\ snapshotLoading => \E c \in CallIds : CoveredOf(c)
ListPending == usersLoading => \E c \in CallIds : userCalls[c] # Idle /\ userCalls[c].stage = "list"

LEMMA UsersInvDef ==
  UsersInv <=> /\ PageTypes /\ CallsPart /\ DialogFilled /\ FormOfItsUser /\ Covered /\ ListPending
  BY DEF UsersInv, UsersTypeOK, PageTypes, CallsPart, SubmissionPending, Covered, CoveredOf,
         ListPending, UsersNeverStuck, InStage, Submission, Forms, Actives

LEMMA UsersInitInv == UsersInit => UsersInv
<1> SUFFICES ASSUME UsersInit PROVE UsersInv
  OBVIOUS
<1> DEFINE call == UserCall("list", None, <<>>, None)
<1>1. call \in UserCalls /\ call # Idle /\ call.op = "list" /\ call.stage = "list"
  <2>1. call \in UserCalls
    BY UserCallType, NoBindingsType DEF UserOps
  <2> QED
    BY <2>1, UserCallsAssumption DEF UserCall
<1>2. PICK c \in CallIds : userCalls = Started(NoCalls, c, call)
  BY DEF UsersInit
<1> HIDE DEF call
<1>3. userCalls \in [CallIds -> UserCalls \cup {Idle}]
      /\ \A x \in CallIds : userCalls[x] = IF x = c THEN call ELSE Idle
  BY <1>1, <1>2 DEF Started, NoCalls
<1>4. CallsPart
  BY <1>1, <1>3 DEF UsersInit, CallsPart, UserCallsFit, UserCallFits, OneSubmission, Submission,
                    NoCrossUserSave, SubmissionPending
<1>5. ListPending
  BY <1>1, <1>3 DEF ListPending
<1> QED
  BY <1>4, <1>5, UsersInvDef
  DEF UsersInit, PageTypes, UserDialogs, DialogFilled, FormOfItsUser, Covered

LEMMA UsersStepInv == UsersInv /\ [UsersNext]_usersVars => UsersInv'
<1> SUFFICES ASSUME PageTypes, CallsPart, DialogFilled, FormOfItsUser, Covered, ListPending,
                    [UsersNext]_usersVars
             PROVE  PageTypes' /\ CallsPart' /\ DialogFilled' /\ FormOfItsUser' /\ Covered' /\ ListPending'
  BY UsersInvDef
  DEF UsersInv, UsersTypeOK, PageTypes, CallsPart, SubmissionPending, Covered, CoveredOf,
      ListPending, UsersNeverStuck, InStage, Submission, Forms, Actives
<1>2. CASE UNCHANGED usersVars
  BY <1>2, SameCalls DEF usersVars, PageTypes, DialogFilled, FormOfItsUser, Covered, CoveredOf,
                         ListPending
<1>3. CASE OpenCreateUser \/ OpenUser \/ CancelUserDialog
  <2>1. UNCHANGED <<userCalls, usersSubmitting, boundTo, userRows, usersError, usersLoading,
                    bindingForm, snapshotLoading>>
        /\ userDialog' \in {"none", "create", "edit", "password"}
    BY <1>3 DEF OpenCreateUser, OpenUser, CancelUserDialog, BindingUnchanged
  <2>2. activeUser' \in Actives \/ (UNCHANGED activeUser /\ userDialog' \in {"none", "create"})
    BY <1>3 DEF OpenCreateUser, OpenUser, CancelUserDialog, UserRowsShown, PageTypes, Actives
  <2>3. snapshotTarget' \in Users \cup {None}
    BY <1>3 DEF OpenCreateUser, OpenUser, CancelUserDialog, BindingUnchanged, PageTypes
  <2> QED
    BY <2>1, <2>2, <2>3, SameCalls
    DEF PageTypes, UserDialogs, DialogFilled, FormOfItsUser, Covered, ListPending
<1>4. CASE EditBindings
  <2>1. bindingForm' \in Forms /\ bindingForm'.of = bindingForm.of
    <3>1. bindingForm \in Forms /\ userDialog = "bindings"
      BY <1>4 DEF EditBindings, DialogFilled
    <3>2. ASSUME NEW p \in Bindable, Len(bindingForm.rows) < MaxBindings,
                 bindingForm' = [bindingForm EXCEPT !.rows = Append(@, p)]
          PROVE  bindingForm' \in Forms /\ bindingForm'.of = bindingForm.of
      BY <3>1, <3>2, AppendType DEF Forms
    <3>3. ASSUME NEW k \in DOMAIN bindingForm.rows,
                 bindingForm' = [bindingForm EXCEPT !.rows = RemoveAt(@, k)]
          PROVE  bindingForm' \in Forms /\ bindingForm'.of = bindingForm.of
      BY <3>1, <3>3, RemoveAtType DEF Forms
    <3> QED
      BY <1>4, <3>2, <3>3 DEF EditBindings
  <2>2. CallsPart' /\ (SaveWaits' <=> SaveWaits)
    BY <1>4, SameCalls DEF EditBindings
  <2> QED
    BY <1>4, <2>1, <2>2
    DEF EditBindings, PageTypes, DialogFilled, FormOfItsUser, Covered, CoveredOf, ListPending
<1>5. ASSUME NEW c \in CallIds, RefreshUsers(c)
      PROVE  PageTypes' /\ CallsPart' /\ DialogFilled' /\ FormOfItsUser' /\ Covered' /\ ListPending'
  <2> DEFINE call == UserCall("list", None, <<>>, None)
  <2>1. call \in UserCalls /\ call.op = "list" /\ call.stage = "list"
    BY UserCallType, NoBindingsType DEF UserOps, UserCall
  <2>2. call # Idle
    BY <2>1, UserCallsAssumption
  <2>3. userCalls[c] = Idle /\ userCalls' = Started(userCalls, c, call) /\ UNCHANGED usersSubmitting
    BY <1>5 DEF RefreshUsers
  <2> HIDE DEF call
  <2>4. CallsPart' /\ (SaveWaits' <=> SaveWaits)
        /\ userCalls'[c] = call /\ \A x \in CallIds \ {c} : userCalls'[x] = userCalls[x]
    BY <2>1, <2>3, CallStarts DEF UserCallFits, Submission
  <2> QED
    BY <1>5, <2>1, <2>2, <2>4
    DEF RefreshUsers, BindingUnchanged, PageTypes, DialogFilled, FormOfItsUser, Covered, ListPending
<1>6. ASSUME NEW c \in CallIds, SubmitUser(c) \/ DisableUser(c)
      PROVE  PageTypes' /\ CallsPart' /\ DialogFilled' /\ FormOfItsUser' /\ Covered' /\ ListPending'
  <2>1. PICK op \in {"create", "edit", "password", "disable"}, u \in Users \cup {None} :
          userCalls' = Started(userCalls, c, UserCall(op, u, <<>>, None))
    BY <1>6 DEF SubmitUser, DisableUser, UserRowsShown, DialogFilled, Actives
  <2> DEFINE call == UserCall(op, u, <<>>, None)
  <2>2. call \in UserCalls /\ call.op = op /\ call.stage = "sent"
    BY UserCallType, NoBindingsType DEF UserOps, UserCall
  <2>3. userCalls[c] = Idle /\ userCalls' = Started(userCalls, c, call)
        /\ ~usersSubmitting /\ usersSubmitting' = TRUE
    BY <1>6, <2>1 DEF SubmitUser, DisableUser
  <2> HIDE DEF call
  <2>4. CallsPart' /\ (SaveWaits' <=> SaveWaits) /\ \A x \in CallIds \ {c} : userCalls'[x] = userCalls[x]
    BY <2>2, <2>3, CallStarts DEF UserCallFits, Submission
  <2>5. UNCHANGED <<boundTo, userRows, usersError, usersLoading, userDialog, activeUser,
                    bindingForm, snapshotTarget, snapshotLoading>>
    BY <1>6 DEF SubmitUser, DisableUser, BindingUnchanged
  <2> QED
    BY <2>3, <2>4, <2>5
    DEF PageTypes, DialogFilled, FormOfItsUser, Covered, CoveredOf, ListPending
<1>7. ASSUME NEW c \in CallIds, OpenBindings(c)
      PROVE  PageTypes' /\ CallsPart' /\ DialogFilled' /\ FormOfItsUser' /\ Covered' /\ ListPending'
  <2>1. PICK u \in UserRowsShown :
          /\ activeUser' = [user |-> u, cached |-> userRows[u]]
          /\ bindingForm' = [of |-> u, rows |-> userRows[u]]
          /\ snapshotTarget' = u
          /\ userCalls' = Started(userCalls, c, UserCall("snapshot", u, userRows[u], None))
    BY <1>7 DEF OpenBindings
  <2>2. u \in Users /\ userRows[u] \in BindingLists
    BY <2>1 DEF UserRowsShown, PageTypes
  <2> DEFINE call == UserCall("snapshot", u, userRows[u], None)
  <2>3. /\ call \in UserCalls /\ call.op = "snapshot" /\ call.stage = "snapshot" /\ call.user = u
    BY <2>2, UserCallType DEF UserOps, UserCall
  <2>4. call # Idle
    BY <2>3, UserCallsAssumption
  <2>5. userCalls[c] = Idle /\ userCalls' = Started(userCalls, c, call) /\ UNCHANGED usersSubmitting
    BY <1>7, <2>1 DEF OpenBindings
  <2> HIDE DEF call
  <2>6. CallsPart' /\ (SaveWaits' <=> SaveWaits)
        /\ userCalls'[c] = call /\ \A x \in CallIds \ {c} : userCalls'[x] = userCalls[x]
    BY <2>2, <2>3, <2>5, CallStarts DEF UserCallFits, Submission
  <2>7. PageTypes' /\ DialogFilled' /\ FormOfItsUser'
    BY <1>7, <2>1, <2>2
    DEF OpenBindings, PageTypes, DialogFilled, FormOfItsUser, Forms, Actives, UserDialogs
  <2>8. Covered'
    BY <2>1, <2>3, <2>4, <2>6 DEF Covered, CoveredOf
  <2>9. ListPending'
    BY <1>7, <2>5, <2>6 DEF OpenBindings, ListPending
  <2> QED
    BY <2>6, <2>7, <2>8, <2>9
<1>8. ASSUME NEW c \in CallIds, SubmitBindings(c)
      PROVE  PageTypes' /\ CallsPart' /\ DialogFilled' /\ FormOfItsUser' /\ Covered' /\ ListPending'
  <2>1. /\ userDialog = "bindings" /\ activeUser \in Actives /\ bindingForm \in Forms
        /\ ~usersSubmitting /\ userCalls[c] = Idle
    BY <1>8 DEF SubmitBindings, DialogFilled
  <2>2. bindingForm.of = activeUser.user
    <3>1. ~SaveWaits
      BY <2>1 DEF CallsPart, OneSubmission, SaveWaits, Submission
    <3> QED
      BY <2>1, <3>1 DEF FormOfItsUser
  <2> DEFINE call == UserCall("bindings", activeUser.user, activeUser.cached, bindingForm)
  <2>3. call \in UserCalls /\ call.op = "bindings" /\ call.stage = "sent"
        /\ call.user = activeUser.user /\ call.sent = bindingForm
    BY <2>1, UserCallType DEF UserOps, UserCall, Actives
  <2>4. userCalls' = Started(userCalls, c, call) /\ usersSubmitting' = TRUE
    BY <1>8 DEF SubmitBindings
  <2> HIDE DEF call
  <2>5. CallsPart' /\ (SaveWaits' <=> SaveWaits) /\ \A x \in CallIds \ {c} : userCalls'[x] = userCalls[x]
    <3>1. UserCallFits(call)
      BY <2>1, <2>3 DEF UserCallFits, Actives
    <3> QED
      BY <2>1, <2>2, <2>3, <2>4, <3>1, CallStarts DEF Submission
  <2>6. UNCHANGED <<boundTo, userRows, usersError, usersLoading, userDialog, activeUser,
                    bindingForm, snapshotTarget, snapshotLoading>>
    BY <1>8 DEF SubmitBindings, BindingUnchanged
  <2> QED
    BY <2>1, <2>5, <2>6
    DEF PageTypes, DialogFilled, FormOfItsUser, Covered, CoveredOf, ListPending
<1>9. ASSUME NEW c \in CallIds, UserListAnswer(c)
      PROVE  PageTypes' /\ CallsPart' /\ DialogFilled' /\ FormOfItsUser' /\ Covered' /\ ListPending'
  <2>1. userCalls[c] # Idle /\ userCalls[c].stage = "list" /\ userCalls' = Ended(userCalls, c)
    BY <1>9 DEF UserListAnswer, InStage
  <2>2. userCalls[c] \in UserCalls /\ userCalls[c].op \notin {"snapshot", "bindings"}
    BY <2>1 DEF CallsPart, UserCallsFit, UserCallFits
  <2>3. IF Submission(userCalls[c]) THEN usersSubmitting' = FALSE ELSE UNCHANGED usersSubmitting
    BY <1>9, <2>2 DEF UserListAnswer, Submission
  <2>4. CallsPart' /\ (SaveWaits' <=> SaveWaits) /\ \A x \in CallIds \ {c} : userCalls'[x] = userCalls[x]
    BY <2>1, <2>2, <2>3, CallEnds
  <2> QED
    BY <1>9, <2>1, <2>4
    DEF UserListAnswer, BindingUnchanged, PageTypes, DialogFilled, FormOfItsUser, Covered, CoveredOf,
        ListPending
<1>10. ASSUME NEW c \in CallIds, UserWritten(c)
       PROVE  PageTypes' /\ CallsPart' /\ DialogFilled' /\ FormOfItsUser' /\ Covered' /\ ListPending'
  <2>1. /\ userCalls[c] # Idle /\ userCalls[c].stage = "sent" /\ userCalls[c] \in UserCalls
        /\ userCalls[c].op \in {"create", "edit", "password", "disable"}
    BY <1>10 DEF UserWritten, InStage, CallsPart, UserCallsFit, UserCallFits, UserCalls
  <2>2. userDialog' \in {userDialog, "none"}
        /\ UNCHANGED <<boundTo, userRows, activeUser, bindingForm, snapshotTarget, snapshotLoading>>
    BY <1>10 DEF UserWritten, BindingUnchanged
  <2>3. CASE userCalls' = Ended(userCalls, c) /\ usersSubmitting' = FALSE
             /\ UNCHANGED <<usersLoading, usersError>>
    <3>1. CallsPart' /\ (SaveWaits' <=> SaveWaits) /\ \A x \in CallIds \ {c} : userCalls'[x] = userCalls[x]
      BY <2>1, <2>3, CallEnds DEF Submission
    <3> QED
      BY <2>1, <2>2, <2>3, <3>1
      DEF PageTypes, UserDialogs, DialogFilled, FormOfItsUser, Covered, CoveredOf, ListPending
  <2>4. CASE userCalls' = [userCalls EXCEPT ![c].stage = "list"] /\ UNCHANGED usersSubmitting
             /\ usersLoading' = TRUE /\ usersError' = FALSE
    <3>1. UserCallFits([userCalls[c] EXCEPT !.stage = "list"])
      BY <2>1 DEF UserCallFits, UserCalls
    <3>2. CallsPart' /\ (SaveWaits' <=> SaveWaits)
          /\ userCalls'[c] = [userCalls[c] EXCEPT !.stage = "list"] /\ userCalls'[c] # Idle
          /\ \A x \in CallIds \ {c} : userCalls'[x] = userCalls[x]
      BY <2>1, <2>4, <3>1, CallGoesOn
    <3>3. ListPending'
      BY <2>1, <3>2 DEF ListPending, UserCalls
    <3> QED
      BY <2>1, <2>2, <2>4, <3>2, <3>3
      DEF PageTypes, UserDialogs, DialogFilled, FormOfItsUser, Covered, CoveredOf
  <2> QED
    BY <1>10, <2>3, <2>4 DEF UserWritten
<1>11. ASSUME NEW c \in CallIds, BindingsWritten(c)
       PROVE  PageTypes' /\ CallsPart' /\ DialogFilled' /\ FormOfItsUser' /\ Covered' /\ ListPending'
  <2>1. /\ userCalls[c] # Idle /\ userCalls[c].stage = "sent" /\ userCalls[c] \in UserCalls
        /\ userCalls[c].op = "bindings" /\ userCalls[c].user \in Users /\ userCalls[c].sent \in Forms
    BY <1>11 DEF BindingsWritten, InStage, CallsPart, UserCallsFit, UserCallFits
  <2>2. boundTo' \in [Users -> BindingLists]
        /\ UNCHANGED <<userRows, usersError, usersLoading, userDialog, activeUser, bindingForm>>
    BY <1>11, <2>1 DEF BindingsWritten, PageTypes, Forms
  <2>3. CASE userCalls' = Ended(userCalls, c) /\ usersSubmitting' = FALSE
             /\ UNCHANGED <<snapshotTarget, snapshotLoading>>
    <3>1. CallsPart' /\ (SaveWaits' <=> SaveWaits) /\ \A x \in CallIds \ {c} : userCalls'[x] = userCalls[x]
      BY <2>1, <2>3, CallEnds DEF Submission
    <3> QED
      BY <2>1, <2>2, <2>3, <3>1
      DEF PageTypes, DialogFilled, FormOfItsUser, Covered, CoveredOf, ListPending
  <2>4. CASE userCalls' = [userCalls EXCEPT ![c].stage = "snapshot"] /\ UNCHANGED usersSubmitting
             /\ snapshotTarget' = userCalls[c].user /\ snapshotLoading' = TRUE
    <3>1. UserCallFits([userCalls[c] EXCEPT !.stage = "snapshot"])
      BY <2>1 DEF UserCallFits, UserCalls
    <3>2. CallsPart' /\ SaveWaits'
          /\ userCalls'[c] = [userCalls[c] EXCEPT !.stage = "snapshot"] /\ userCalls'[c] # Idle
          /\ \A x \in CallIds \ {c} : userCalls'[x] = userCalls[x]
      BY <2>1, <2>4, <3>1, CallGoesOn
    <3>3. Covered' /\ FormOfItsUser'
      BY <2>1, <2>4, <3>2 DEF Covered, CoveredOf, FormOfItsUser, UserCalls
    <3> QED
      BY <2>1, <2>2, <2>4, <3>2, <3>3 DEF PageTypes, DialogFilled, ListPending
  <2> QED
    BY <1>11, <2>3, <2>4 DEF BindingsWritten
<1>12. \A u \in Users, rows \in BindingLists : RowWith(u, rows) \in [Users -> BindingLists] \cup {None}
  BY DEF RowWith, PageTypes
<1>13. ASSUME NEW c \in CallIds, SnapshotAnswer(c)
       PROVE  PageTypes' /\ CallsPart' /\ DialogFilled' /\ FormOfItsUser' /\ Covered' /\ ListPending'
  <2>1. /\ userCalls[c] # Idle /\ userCalls[c].stage = "snapshot" /\ userCalls[c].op = "snapshot"
        /\ userCalls[c].user \in Users
    BY <1>13 DEF SnapshotAnswer, InStage, CallsPart, UserCallsFit, UserCallFits
  <2>2. userCalls' = Ended(userCalls, c)
        /\ UNCHANGED <<boundTo, usersError, usersLoading, usersSubmitting, userDialog, activeUser,
                       snapshotTarget>>
    BY <1>13 DEF SnapshotAnswer
  <2>3. CallsPart' /\ (SaveWaits' <=> SaveWaits) /\ \A x \in CallIds \ {c} : userCalls'[x] = userCalls[x]
    BY <2>1, <2>2, CallEnds DEF Submission
  <2>4. ListPending'
    BY <2>1, <2>2, <2>3 DEF ListPending
  <2>5. CASE UNCHANGED <<bindingForm, userRows>>
             /\ snapshotLoading' = IF MayTake(userCalls[c].user) THEN FALSE ELSE snapshotLoading
    BY <2>1, <2>2, <2>3, <2>4, <2>5
    DEF MayTake, PageTypes, DialogFilled, FormOfItsUser, Covered, CoveredOf
  <2>6. CASE /\ MayTake(userCalls[c].user) /\ snapshotLoading' = FALSE
             /\ bindingForm' = [of |-> userCalls[c].user, rows |-> boundTo[userCalls[c].user]]
             /\ userRows' = RowWith(userCalls[c].user, boundTo[userCalls[c].user])
    <3>1. boundTo[userCalls[c].user] \in BindingLists
      BY <2>1 DEF PageTypes
    <3>2. bindingForm' \in Forms /\ userRows' \in [Users -> BindingLists] \cup {None}
      BY <1>12, <2>1, <2>6, <3>1 DEF Forms
    <3>3. bindingForm'.of = snapshotTarget
      BY <2>6 DEF MayTake
    <3> QED
      BY <2>2, <2>3, <2>4, <2>6, <3>2, <3>3 DEF PageTypes, DialogFilled, FormOfItsUser, Covered
  <2> QED
    BY <1>13, <2>5, <2>6 DEF SnapshotAnswer
<1>14. ASSUME NEW c \in CallIds, SavedSnapshotAnswer(c)
       PROVE  PageTypes' /\ CallsPart' /\ DialogFilled' /\ FormOfItsUser' /\ Covered' /\ ListPending'
  <2>1. /\ userCalls[c] # Idle /\ userCalls[c].stage = "snapshot" /\ userCalls[c].op = "bindings"
        /\ userCalls[c].user \in Users /\ userCalls[c].sent \in Forms /\ userCalls[c] \in UserCalls
    BY <1>14 DEF SavedSnapshotAnswer, InStage, CallsPart, UserCallsFit, UserCallFits
  <2>2. userCalls' = Ended(userCalls, c) /\ usersSubmitting' = FALSE
        /\ UNCHANGED <<boundTo, usersError, usersLoading, activeUser, snapshotTarget>>
        /\ snapshotLoading' \in {FALSE, snapshotLoading}
        /\ userDialog' = IF userDialog = "bindings" THEN "none" ELSE userDialog
    BY <1>14 DEF SavedSnapshotAnswer
  <2>3. CallsPart' /\ \A x \in CallIds \ {c} : userCalls'[x] = userCalls[x]
    BY <2>1, <2>2, CallEnds DEF Submission
  <2>4. PICK latest \in BindingLists :
          /\ bindingForm' = [of |-> userCalls[c].user, rows |-> latest]
          /\ userRows' = RowWith(userCalls[c].user, latest)
    <3>1. boundTo[userCalls[c].user] \in BindingLists /\ userCalls[c].cached \in BindingLists
          /\ userCalls[c].sent.rows \in BindingLists
      BY <2>1 DEF PageTypes, UserCalls, Forms
    <3> QED
      BY <1>14, <3>1 DEF SavedSnapshotAnswer
  <2>5. bindingForm' \in Forms /\ userRows' \in [Users -> BindingLists] \cup {None}
    BY <1>12, <2>1, <2>4 DEF Forms
  <2> QED
    BY <2>1, <2>2, <2>3, <2>5
    DEF PageTypes, UserDialogs, DialogFilled, FormOfItsUser, Covered, ListPending
<1> QED
  BY <1>2, <1>3, <1>4, <1>5, <1>6, <1>7, <1>8, <1>9, <1>10, <1>11, <1>13, <1>14 DEF UsersNext

-----------------------------------------------------------------------------
(* The theorems.                                                           *)

\* The page of users never holds a value outside its types.
THEOREM UsersTypes == UsersSpec => []UsersTypeOK
<1>1. UsersInv => UsersTypeOK
  BY DEF UsersInv
<1> QED
  BY <1>1, UsersInitInv, UsersStepInv, PTL DEF UsersSpec

\* A save of bindings sends the rows that were made for the user it is sent for,
\* though dialogs are closed and opened again while saves and snapshots are under
\* way (submitBindings, fetchUserBindingSnapshot).
THEOREM NoCrossUserSaves == UsersSpec => []NoCrossUserSave
<1>1. UsersInv => NoCrossUserSave
  BY DEF UsersInv
<1> QED
  BY <1>1, UsersInitInv, UsersStepInv, PTL DEF UsersSpec

\* No dialog stays covered, no list loading and no button disabled without a call
\* under way that ends it.
THEOREM UsersNotStuck == UsersSpec => []UsersNeverStuck
<1>1. UsersInv => UsersNeverStuck
  BY DEF UsersInv
<1> QED
  BY <1>1, UsersInitInv, UsersStepInv, PTL DEF UsersSpec
=============================================================================
