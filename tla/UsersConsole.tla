----------------------------- MODULE UsersConsole -----------------------------
(***************************************************************************)
(* The page of users (UsersPage): the list, and the dialogs that create,   *)
(* edit and disable a user, reset a password and replace the project       *)
(* bindings of a user.                                                     *)
(*                                                                         *)
(* A dialog covers the page, but may be canceled while what it sent is     *)
(* under way; then another one can be open when the answer arrives.        *)
(***************************************************************************)
EXTENDS ConsolePage

CONSTANTS
  Users,
  Bindable,       \* the projects one may bind a user to
  MaxBindings     \* rows of the binding form

ASSUME BindingsAssumption == Bindable \subseteq Projects /\ MaxBindings \in Nat
ASSUME UsersAssumption == None \notin Users

\* The rows of a binding form, by the project chosen in each.
BindingLists == SeqOf(Bindable, MaxBindings)

\* hasDuplicateProjectBindings
HasDuplicates(bindings) == Cardinality(ToSet(bindings)) # Len(bindings)

VARIABLES
  boundTo,            \* the server: the bindings of each user
  userRows,           \* users: the bindings cached with each row, None for no rows
  usersError, usersLoading, usersSubmitting,
  userDialog,         \* the dialog that is open, or "none"
  activeUser,
  bindingForm,        \* the bindings in the form, and whose they are
  snapshotTarget,     \* bindingSnapshotTargetRef
  snapshotLoading,
  userCalls

usersVars == <<boundTo, userRows, usersError, usersLoading, usersSubmitting, userDialog,
               activeUser, bindingForm, snapshotTarget, snapshotLoading, userCalls>>

UserDialogs == {"none", "create", "edit", "password", "bindings"}

UserCalls ==
  [op : {"list", "create", "edit", "password", "disable", "bindings", "snapshot"},
   stage : {"sent", "list", "snapshot"},
   user : Users \cup {None},          \* the activeUser or the row of its rendering
   cached : BindingLists,             \* the bindings of that user then
   sent : [of : Users, rows : BindingLists] \cup {None}]
ASSUME UserCallsAssumption == Idle \notin UserCalls

UsersTypeOK ==
  /\ boundTo \in [Users -> BindingLists]
  /\ userRows \in [Users -> BindingLists] \cup {None}
  /\ {usersError, usersLoading, usersSubmitting, snapshotLoading} \subseteq BOOLEAN
  /\ userDialog \in UserDialogs
  /\ activeUser \in [user : Users, cached : BindingLists] \cup {None}
  /\ bindingForm \in [of : Users, rows : BindingLists] \cup {None}
  /\ snapshotTarget \in Users \cup {None}
  /\ userCalls \in [CallIds -> UserCalls \cup {Idle}]

UserCall(op, user, cached, sent) ==
  [op |-> op, stage |-> IF op \in {"list", "snapshot"} THEN op ELSE "sent",
   user |-> user, cached |-> cached, sent |-> sent]

\* The page asks for the users when it is first shown.
UsersInit ==
  /\ boundTo \in [Users -> BindingLists]
  /\ userRows = None
  /\ usersError = FALSE /\ usersLoading = TRUE /\ usersSubmitting = FALSE
  /\ userDialog = "none" /\ activeUser = None /\ bindingForm = None
  /\ snapshotTarget = None /\ snapshotLoading = FALSE
  /\ \E c \in CallIds : userCalls = Started(NoCalls, c, UserCall("list", None, <<>>, None))

InStage(stage) == {c \in CallIds : userCalls[c] # Idle /\ userCalls[c].stage = stage}

BindingUnchanged == UNCHANGED <<bindingForm, snapshotTarget, snapshotLoading>>

-----------------------------------------------------------------------------
(* The list.                                                               *)

\* fetchUsers up to its request.
RefreshUsers(c) ==
  /\ userDialog = "none" /\ userCalls[c] = Idle
  /\ userCalls' = Started(userCalls, c, UserCall("list", None, <<>>, None))
  /\ usersLoading' = TRUE /\ usersError' = FALSE
  /\ BindingUnchanged /\ UNCHANGED <<boundTo, userRows, usersSubmitting, userDialog, activeUser>>

\* Its answer, on its own or at the end of a handler that wrote.
UserListAnswer(c) ==
  /\ c \in InStage("list")
  /\ \/ userRows' = boundTo /\ UNCHANGED usersError
     \/ usersError' = TRUE /\ UNCHANGED userRows
  /\ usersLoading' = FALSE
  /\ usersSubmitting' = IF userCalls[c].op = "list" THEN usersSubmitting ELSE FALSE
  /\ userCalls' = Ended(userCalls, c)
  /\ BindingUnchanged /\ UNCHANGED <<boundTo, userDialog, activeUser>>

-----------------------------------------------------------------------------
(* The dialogs and what they send.                                         *)

UserRowsShown == IF userDialog = "none" /\ ~usersError /\ ~usersLoading /\ userRows # None
                   THEN Users ELSE {}

OpenCreateUser ==
  /\ userDialog = "none" /\ userDialog' = "create"
  /\ BindingUnchanged
  /\ UNCHANGED <<boundTo, userRows, usersError, usersLoading, usersSubmitting, activeUser, userCalls>>

\* openEdit, openResetPassword
OpenUser ==
  /\ \E u \in UserRowsShown, dialog \in {"edit", "password"} :
       activeUser' = [user |-> u, cached |-> userRows[u]] /\ userDialog' = dialog
  /\ BindingUnchanged
  /\ UNCHANGED <<boundTo, userRows, usersError, usersLoading, usersSubmitting, userCalls>>

\* submitCreate, submitEdit and submitResetPassword up to their requests.
SubmitUser(c) ==
  /\ userDialog \in {"create", "edit", "password"} /\ ~usersSubmitting /\ userCalls[c] = Idle
  /\ userCalls' = Started(userCalls, c,
       UserCall(userDialog, IF userDialog = "create" THEN None ELSE activeUser.user, <<>>, None))
  /\ usersSubmitting' = TRUE
  /\ BindingUnchanged
  /\ UNCHANGED <<boundTo, userRows, usersError, usersLoading, userDialog, activeUser>>

\* disableUser: the confirmation is part of its row.
DisableUser(c) ==
  /\ userCalls[c] = Idle /\ ~usersSubmitting
  /\ \E u \in UserRowsShown : userCalls' = Started(userCalls, c, UserCall("disable", u, <<>>, None))
  /\ usersSubmitting' = TRUE
  /\ BindingUnchanged
  /\ UNCHANGED <<boundTo, userRows, usersError, usersLoading, userDialog, activeUser>>

\* The answer to one of them closes the dialog of its kind and, but for a
\* password, lists the users again.
UserWritten(c) ==
  /\ c \in InStage("sent") /\ userCalls[c].op # "bindings"
  /\ \/ /\ userDialog' = IF userDialog = userCalls[c].op THEN "none" ELSE userDialog
        /\ IF userCalls[c].op = "password"
             THEN /\ userCalls' = Ended(userCalls, c) /\ usersSubmitting' = FALSE
                  /\ UNCHANGED <<usersLoading, usersError>>
             ELSE /\ userCalls' = [userCalls EXCEPT ![c].stage = "list"]
                  /\ usersLoading' = TRUE /\ usersError' = FALSE
                  /\ UNCHANGED usersSubmitting
     \/ /\ userCalls' = Ended(userCalls, c) /\ usersSubmitting' = FALSE
        /\ UNCHANGED <<userDialog, usersLoading, usersError>>
  /\ BindingUnchanged /\ UNCHANGED <<boundTo, userRows, activeUser>>

\* The cancel button of a dialog; that of the bindings drops the snapshot target.
CancelUserDialog ==
  /\ userDialog # "none" /\ userDialog' = "none"
  /\ snapshotTarget' = IF userDialog = "bindings" THEN None ELSE snapshotTarget
  /\ UNCHANGED <<boundTo, userRows, usersError, usersLoading, usersSubmitting, activeUser,
                 bindingForm, snapshotLoading, userCalls>>

-----------------------------------------------------------------------------
(* Project bindings.                                                       *)

\* openBindings: the cached bindings are shown until the snapshot arrives.
OpenBindings(c) ==
  /\ userCalls[c] = Idle
  /\ \E u \in UserRowsShown :
       /\ activeUser' = [user |-> u, cached |-> userRows[u]]
       /\ bindingForm' = [of |-> u, rows |-> userRows[u]]
       /\ snapshotTarget' = u
       /\ userCalls' = Started(userCalls, c, UserCall("snapshot", u, userRows[u], None))
  /\ userDialog' = "bindings" /\ snapshotLoading' = TRUE
  /\ UNCHANGED <<boundTo, userRows, usersError, usersLoading, usersSubmitting>>

\* The spinner covers the form while a snapshot is loaded.
EditBindings ==
  /\ userDialog = "bindings" /\ ~snapshotLoading
  /\ \/ \E p \in Bindable : /\ Len(bindingForm.rows) < MaxBindings
                            /\ bindingForm' = [bindingForm EXCEPT !.rows = Append(@, p)]
     \/ \E k \in DOMAIN bindingForm.rows : bindingForm' = [bindingForm EXCEPT !.rows = RemoveAt(@, k)]
  /\ UNCHANGED <<boundTo, userRows, usersError, usersLoading, usersSubmitting, userDialog,
                 activeUser, snapshotTarget, snapshotLoading, userCalls>>

\* submitBindings up to its request.
SubmitBindings(c) ==
  /\ userDialog = "bindings" /\ userCalls[c] = Idle
  /\ ~usersSubmitting /\ ~snapshotLoading
  /\ ~HasDuplicates(bindingForm.rows)
  /\ userCalls' = Started(userCalls, c,
       UserCall("bindings", activeUser.user, activeUser.cached, bindingForm))
  /\ usersSubmitting' = TRUE
  /\ BindingUnchanged
  /\ UNCHANGED <<boundTo, userRows, usersError, usersLoading, userDialog, activeUser>>

\* The bindings are replaced, and the handler asks for a snapshot of its user,
\* whoever the dialog shows by then; or it fails, perhaps after the server wrote.
BindingsWritten(c) ==
  /\ c \in InStage("sent") /\ userCalls[c].op = "bindings"
  /\ LET u == userCalls[c].user
         written == [boundTo EXCEPT ![u] = userCalls[c].sent.rows]
     IN \/ /\ boundTo' = written
           /\ userCalls' = [userCalls EXCEPT ![c].stage = "snapshot"]
           /\ snapshotTarget' = u /\ snapshotLoading' = TRUE
           /\ UNCHANGED usersSubmitting
        \/ /\ boundTo' \in {boundTo, written}
           /\ userCalls' = Ended(userCalls, c) /\ usersSubmitting' = FALSE
           /\ UNCHANGED <<snapshotTarget, snapshotLoading>>
  /\ UNCHANGED <<userRows, usersError, usersLoading, userDialog, activeUser, bindingForm>>

RowWith(u, bindings) == IF userRows = None THEN None ELSE [userRows EXCEPT ![u] = bindings]

\* Mutant of MayTake: any dialog takes a snapshot that arrives.
AnyMayTake(u) == TRUE

\* A snapshot is taken as long as the page waits for that user's.
MayTake(u) == snapshotTarget = u

\* fetchUserBindingSnapshot after its request, for a dialog that was opened.
SnapshotAnswer(c) ==
  /\ c \in InStage("snapshot") /\ userCalls[c].op = "snapshot"
  /\ LET u == userCalls[c].user
     IN IF MayTake(u)
          THEN /\ snapshotLoading' = FALSE
               /\ \/ bindingForm' = [of |-> u, rows |-> boundTo[u]] /\ userRows' = RowWith(u, boundTo[u])
                  \/ UNCHANGED <<bindingForm, userRows>>
          ELSE UNCHANGED <<snapshotLoading, bindingForm, userRows>>
  /\ userCalls' = Ended(userCalls, c)
  /\ UNCHANGED <<boundTo, usersError, usersLoading, usersSubmitting, userDialog, activeUser,
                 snapshotTarget>>

\* The same after a save, and the rest of submitBindings: bindings that arrive are
\* taken for the latest, also those cached before the save when the request failed.
SavedSnapshotAnswer(c) ==
  /\ c \in InStage("snapshot") /\ userCalls[c].op = "bindings"
  /\ LET u == userCalls[c].user
         saved == userCalls[c].sent.rows
     IN \E refreshed \in {boundTo[u], userCalls[c].cached} :
          LET latest == IF refreshed # <<>> \/ saved = <<>> THEN refreshed ELSE saved
          IN /\ bindingForm' = [of |-> u, rows |-> latest]
             /\ userRows' = RowWith(u, latest)
  /\ snapshotLoading' = IF MayTake(userCalls[c].user) THEN FALSE ELSE snapshotLoading
  /\ userDialog' = IF userDialog = "bindings" THEN "none" ELSE userDialog
  /\ usersSubmitting' = FALSE
  /\ userCalls' = Ended(userCalls, c)
  /\ UNCHANGED <<boundTo, usersError, usersLoading, activeUser, snapshotTarget>>

-----------------------------------------------------------------------------
UsersNext ==
  \/ OpenCreateUser \/ OpenUser \/ CancelUserDialog \/ EditBindings
  \/ \E c \in CallIds :
       \/ RefreshUsers(c) \/ SubmitUser(c) \/ DisableUser(c) \/ OpenBindings(c) \/ SubmitBindings(c)
       \/ UserListAnswer(c) \/ UserWritten(c) \/ BindingsWritten(c)
       \/ SnapshotAnswer(c) \/ SavedSnapshotAnswer(c)

UsersSpec == UsersInit /\ [][UsersNext]_usersVars

-----------------------------------------------------------------------------
(* Properties.                                                             *)

\* Bindings are replaced by bindings that were made for the same user, although
\* one form and one target serve all dialogs and a save goes on behind the dialog
\* of another user (bindingSnapshotTargetRef).  The form may even hold the
\* bindings of another user for a moment, but cannot be sent then.
NoCrossUserSave ==
  \A c \in CallIds :
    userCalls[c] # Idle /\ userCalls[c].op = "bindings" => userCalls[c].sent.of = userCalls[c].user

\* A dialog whose form is covered has a snapshot under way that uncovers it, also
\* when the dialog was closed and opened again or a save took the target over.
UsersNeverStuck ==
  /\ userDialog = "bindings" /\ snapshotLoading =>
       \E c \in InStage("snapshot") : userCalls[c].user = snapshotTarget
  /\ usersLoading => InStage("list") # {}
  /\ usersSubmitting => \E c \in CallIds : userCalls[c] # Idle /\ userCalls[c].op \notin {"list", "snapshot"}
=============================================================================
