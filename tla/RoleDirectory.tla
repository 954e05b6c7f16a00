---------------------------- MODULE RoleDirectory ----------------------------
(***************************************************************************)
(* What project authorization promises, whatever caches and snapshots lie  *)
(* between the user_project_roles table and a request.                     *)
(*                                                                         *)
(* For every user and project there is a set of roles that are still       *)
(* visible somewhere.  A role enters that set only when an administrator   *)
(* asks for it; from then on the set may only lose members (a pair without *)
(* a row reads as NoRole, which anybody may hold).  A request is answered  *)
(* from a role that is visible for its own user in its own project.        *)
(***************************************************************************)
EXTENDS ProjectRoles

CONSTANTS Users, Projects, Requests, Admins, Platforms, None

Questions == [user : Users, platform : Platforms, project : Projects, level : Levels]
Wishes == [user : Users, roles : [Projects -> RoleNames]]

VARIABLES
  visible,   \* visible[u][p]: the roles of u in p that something still holds
  wish,      \* wish[a]: the roles administrator a is giving to a user, or None
  asked,     \* asked[r]: the question of request r
  answer     \* answer[r]: "none" while r is in flight

dirVars == <<visible, wish, asked, answer>>

DirInit ==
  /\ visible \in [Users -> [Projects -> SUBSET RoleNames]]
  /\ wish = [a \in Admins |-> None]
  /\ asked \in [Requests -> Questions]
  /\ answer = [r \in Requests |-> "none"]

\* Rows, cache entries and copies go away, for any users and projects at once.
OnlyForgets ==
  /\ visible' \in [Users -> [Projects -> SUBSET RoleNames]]
  /\ \A u \in Users, p \in Projects : visible'[u][p] \subseteq visible[u][p] \cup {NoRole}

Forget == OnlyForgets /\ UNCHANGED <<wish, asked, answer>>

\* An administrator asks that a user's roles become those of w: the one way
\* a role becomes visible.
Plan(a, w) ==
  /\ wish[a] = None
  /\ wish' = [wish EXCEPT ![a] = w]
  /\ visible' = [visible EXCEPT ![w.user] = [p \in Projects |-> @[p] \cup {w.roles[p]}]]
  /\ UNCHANGED <<asked, answer>>

\* The change is made, or refused.
Settle(a) ==
  /\ wish[a] # None
  /\ wish' = [wish EXCEPT ![a] = None]
  /\ OnlyForgets
  /\ UNCHANGED <<asked, answer>>

Ask(r, q) ==
  /\ asked' = [asked EXCEPT ![r] = q]
  /\ answer' = [answer EXCEPT ![r] = "none"]
  /\ UNCHANGED <<visible, wish>>

\* A request is answered by a role visible for its user in its project, or
\* the infrastructure fails it; what it held of the roles goes with it.
Answer(r) ==
  /\ answer[r] = "none"
  /\ \/ \E role \in visible[asked[r].user][asked[r].project] \cup {NoRole} :
          answer' = [answer EXCEPT
                       ![r] = ScopeAnswer(asked[r].platform, role, asked[r].level)]
     \/ answer' = [answer EXCEPT ![r] = "failed"]
  /\ OnlyForgets
  /\ UNCHANGED <<wish, asked>>

DirNext ==
  \/ Forget
  \/ \E a \in Admins, w \in Wishes : Plan(a, w)
  \/ \E a \in Admins : Settle(a)
  \/ \E r \in Requests, q \in Questions : Ask(r, q)
  \/ \E r \in Requests : Answer(r)

DirSpec == DirInit /\ [][DirNext]_dirVars
=============================================================================
