---------------------------- MODULE ConsoleSession ----------------------------
(***************************************************************************)
(* Signing in and out of the console, and the routes: each tab of the      *)
(* browser keeps its session in memory and writes it to the storage they   *)
(* share, which a tab reads only when it is loaded.                        *)
(*                                                                         *)
(* /projects stands for the pages of administrators, /overview and         *)
(* /storage for those of all accounts, and /setup for the pages that       *)
(* anyone may open, which lead to the login or to the first page.          *)
(***************************************************************************)
EXTENDS ConsolePage

CONSTANTS
  Tabs,
  PlatformRoleOf   \* the platform role of each account

ASSUME RolesAssumption ==
  \A a \in DOMAIN PlatformRoleOf :
    PlatformRoleOf[a] \in {"super_admin", "platform_admin", "standard_user"}

Accounts == DOMAIN PlatformRoleOf

\* The state of the store that is persisted.
SignedOut == [token |-> None, user |-> None, isLoggedIn |-> FALSE]
SessionOf(a) == [token |-> a, user |-> a, isLoggedIn |-> TRUE]
StoredStates == {SignedOut} \cup {SessionOf(a) : a \in Accounts}

ShellPaths == {"/overview", "/projects", "/storage"}
Paths == ShellPaths \cup {"/login", "/setup"}

\* isPlatformAdminRole of the user of a session
IsAdmin(session) ==
  session.user # None /\ PlatformRoleOf[session.user] \in {"super_admin", "platform_admin"}

\* navigationItems: the pages in the menu of an account.
MenuOf(session) == IF IsAdmin(session) THEN ShellPaths ELSE ShellPaths \ {"/projects"}

\* Where the guards of a route let a session end up: signed out at the login, signed
\* in at the first page of the menu instead of the login or of a page it lacks.
Settled(path, session) ==
  CASE path = "/setup" -> path
    [] path # "/setup" /\ ~session.isLoggedIn -> "/login"
    [] path # "/setup" /\ session.isLoggedIn -> IF path \in MenuOf(session) THEN path ELSE "/overview"

-----------------------------------------------------------------------------
VARIABLES
  tabs,        \* of each tab: its path, the account its page was loaded for, its
               \* session and its logins under way
  storedSession

sessionVars == <<tabs, storedSession>>

\* A login under way, and whether the form that sent it is still shown.
Logins == [account : Accounts, shown : BOOLEAN]

SessionTypeOK ==
  /\ storedSession \in StoredStates
  /\ \A t \in Tabs :
       /\ tabs[t].path \in Paths
       /\ tabs[t].session \in StoredStates
       /\ tabs[t].page \in Accounts \cup {None}
       /\ tabs[t].logins \subseteq Logins

\* A tab that goes to a path: its page stays only where it is, and a login that is
\* under way goes on without its form.
Went(tab, path, session) ==
  LET at == Settled(path, session)
  IN [path |-> at,
      page |-> IF at \notin ShellPaths THEN None
               ELSE IF at = path /\ path = tab.path THEN tab.page ELSE session.token,
      session |-> session,
      logins |-> IF at = tab.path THEN tab.logins ELSE {[l EXCEPT !.shown = FALSE] : l \in tab.logins}]

NewTab(path, session) ==
  Went([path |-> "", page |-> None, logins |-> {}], path, session)

Goes(t, path) ==
  /\ tabs' = [tabs EXCEPT ![t] = Went(tabs[t], path, tabs[t].session)]
  /\ UNCHANGED storedSession

SessionInit ==
  /\ storedSession \in StoredStates
  /\ tabs = [t \in Tabs |-> NewTab("/", storedSession)]

\* A tab is opened at a path or loaded again: the store is rehydrated.
LoadTab(t) ==
  /\ \E path \in Paths : tabs' = [tabs EXCEPT ![t] = NewTab(path, storedSession)]
  /\ UNCHANGED storedSession

\* The menu, the buttons of the pages for anyone, and the history of the tab, which
\* may hold any path: also those of an account that was signed in before.
Navigate(t) == \E path \in Paths \cup {"/"} : Goes(t, path)

\* handleSubmit up to its request; the button shows that it is under way.
SubmitLogin(t) ==
  /\ tabs[t].path = "/login" /\ ~ \E l \in tabs[t].logins : l.shown
  /\ \E a \in Accounts : tabs' = [tabs EXCEPT ![t].logins = @ \cup {[account |-> a, shown |-> TRUE]}]
  /\ UNCHANGED storedSession

\* Mutant of SignedIn: only the store changes.
SignedInInPlace(tab, session) == Went(tab, tab.path, session)

\* The store changes and the tab goes home, which loads its page.
SignedIn(tab, session) == Went(tab, "/", session)

\* The answer, also to a form that is no longer shown.
LoginAnswer(t) ==
  \E l \in tabs[t].logins :
    LET rest == [tabs[t] EXCEPT !.logins = @ \ {l}]
    IN \/ /\ tabs' = [tabs EXCEPT ![t] = SignedIn(rest, SessionOf(l.account))]
          /\ storedSession' = SessionOf(l.account)
       \/ tabs' = [tabs EXCEPT ![t] = rest] /\ UNCHANGED storedSession

\* handleLogout
Logout(t) ==
  /\ tabs[t].path \in ShellPaths
  /\ tabs' = [tabs EXCEPT ![t] = Went(tabs[t], "/login", SignedOut)]
  /\ storedSession' = SignedOut

SessionNext ==
  \E t \in Tabs : LoadTab(t) \/ Navigate(t) \/ SubmitLogin(t) \/ LoginAnswer(t) \/ Logout(t)

SessionSpec == SessionInit /\ [][SessionNext]_sessionVars

\* A page shows what it loaded with the token its tab sends now, although a login
\* sent from a form that was left may be answered after another account has signed
\* in, and tabs sign in and out beside each other.
PageOfItsSession ==
  \A t \in Tabs : tabs[t].page # None =>
    /\ tabs[t].page = tabs[t].session.token
    /\ tabs[t].path \in MenuOf(tabs[t].session)
=============================================================================
