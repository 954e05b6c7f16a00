----------------------------- MODULE RoleScope ------------------------------
(***************************************************************************)
(* Project authorization: the user_project_roles table, the Redis snapshot *)
(* of each user's roles (read-through, five minutes to live, dropped after *)
(* a replacement), the requests that go through the project scope          *)
(* middleware, and the writers of the table: the replacement of a user's   *)
(* bindings and the deletion of a user (service/users), the deletion and   *)
(* the edit of a project (service/projects).                               *)
(*                                                                         *)
(* A MySQL transaction is one step; everything between a read of the table *)
(* and the use of what was read is a step of its own.                      *)
(***************************************************************************)
EXTENDS ProjectRoles

CONSTANTS
  Users,      \* user ids
  Projects,   \* project ids
  Requests,   \* connections that carry project-scoped requests
  Admins,     \* goroutines that run user administration calls
  Editors,    \* goroutines that run project edits
  Platforms,  \* platform roles of the users that send requests
  None        \* a key Redis does not hold, a goroutine without a call

RoleMaps == [Projects -> RoleNames]
Questions == [user : Users, platform : Platforms, project : Projects, level : Levels]
\* A user administration call: what it still has to do, and the roles asked for.
Calls == [op : {"replace", "delete", "invalidate"}, user : Users, roles : RoleMaps]
\* What a replacement asks for.
Wishes == [user : Users, roles : RoleMaps]
\* A project edit: the project and the role rows preloaded with it.
Edits == [project : Projects, rows : [Users -> RoleNames]]

ASSUME PlatformsAssumption == Platforms \subseteq PlatformRoles
ASSUME NoneAssumption == None \notin RoleMaps \cup Calls \cup Wishes \cup Edits

VARIABLES
  userRows, projectRows,   \* ids present in users and in projects
  bindings,                \* user_project_roles: bindings[u][p]
  cache,                   \* Redis: cache[u] is a RoleMap or None
  pc, ask, seen,           \* per request: where it is, what it asks, roles it read
  call,                    \* call[a]: the call of a, or None
  edit                     \* edit[e]: the edit of e, or None

dbVars == <<userRows, projectRows, bindings>>
requestVars == <<pc, ask, seen>>
vars == <<dbVars, cache, requestVars, call, edit>>

InFlight == {"lookup", "query", "fill", "authorize"}
\* The requests that hold a copy of their user's roles.
Informed == {"fill", "authorize"}
NoRoles == [p \in Projects |-> NoRole]

TypeOK ==
  /\ userRows \subseteq Users
  /\ projectRows \subseteq Projects
  /\ bindings \in [Users -> RoleMaps]
  /\ cache \in [Users -> RoleMaps \cup {None}]
  /\ pc \in [Requests -> {"idle"} \cup InFlight \cup Answers]
  /\ ask \in [Requests -> Questions]
  /\ seen \in [Requests -> RoleMaps]
  /\ call \in [Admins -> Calls \cup {None}]
  /\ edit \in [Editors -> Edits \cup {None}]

Init ==
  /\ userRows = Users
  /\ projectRows = Projects
  /\ bindings \in [Users -> RoleMaps]
  /\ cache = [u \in Users |-> None]
  /\ pc = [r \in Requests |-> "idle"]
  /\ ask \in [Requests -> Questions]
  /\ seen = [r \in Requests |-> NoRoles]
  /\ call = [a \in Admins |-> None]
  /\ edit = [e \in Editors |-> None]

-----------------------------------------------------------------------------
(* A request: authentication, scope middleware, permission middleware.     *)

\* Authenticate re-reads the user's row; the platform role is that row's.
StartRequest(r, q) ==
  /\ pc[r] \notin InFlight
  /\ q.user \in userRows
  /\ ask' = [ask EXCEPT ![r] = q]
  /\ pc' = [pc EXCEPT ![r] = "lookup"]
  /\ UNCHANGED <<dbVars, cache, seen, call, edit>>

\* The request ends with answer ans and drops the roles it read.
Respond(r, ans) ==
  /\ pc' = [pc EXCEPT ![r] = ans]
  /\ seen' = [seen EXCEPT ![r] = NoRoles]
  /\ UNCHANGED <<dbVars, ask, call, edit>>

\* Platform administrators pass before the cache is looked at.
BypassScope(r) ==
  /\ pc[r] = "lookup"
  /\ IsPlatformAdminRole(ask[r].platform)
  /\ Respond(r, ScopeAnswer(ask[r].platform, NoRole, ask[r].level))
  /\ UNCHANGED cache

\* Mutant of CacheHit: the cache key leaves the user out.
CacheHitOfAnyUser(r) ==
  /\ pc[r] = "lookup"
  /\ ~IsPlatformAdminRole(ask[r].platform)
  /\ \E u \in Users :
       /\ cache[u] # None
       /\ seen' = [seen EXCEPT ![r] = cache[u]]
  /\ pc' = [pc EXCEPT ![r] = "authorize"]
  /\ UNCHANGED <<dbVars, cache, ask, call, edit>>

CacheHit(r) ==
  /\ pc[r] = "lookup"
  /\ ~IsPlatformAdminRole(ask[r].platform)
  /\ cache[ask[r].user] # None
  /\ seen' = [seen EXCEPT ![r] = cache[ask[r].user]]
  /\ pc' = [pc EXCEPT ![r] = "authorize"]
  /\ UNCHANGED <<dbVars, cache, ask, call, edit>>

\* Without an entry, and whenever Redis does not answer the read.
CacheMiss(r) ==
  /\ pc[r] = "lookup"
  /\ ~IsPlatformAdminRole(ask[r].platform)
  /\ pc' = [pc EXCEPT ![r] = "query"]
  /\ UNCHANGED <<dbVars, cache, ask, seen, call, edit>>

QueryRoles(r) ==
  /\ pc[r] = "query"
  /\ seen' = [seen EXCEPT ![r] = bindings[ask[r].user]]
  /\ pc' = [pc EXCEPT ![r] = "fill"]
  /\ UNCHANGED <<dbVars, cache, ask, call, edit>>

\* Mutant of FillCache: the platform role is stored for every project.
FillCacheWithPlatformRole(r) ==
  /\ pc[r] = "fill"
  /\ cache' = [cache EXCEPT ![ask[r].user] = [p \in Projects |-> ask[r].platform]]
  /\ pc' = [pc EXCEPT ![r] = "authorize"]
  /\ UNCHANGED <<dbVars, ask, seen, call, edit>>

FillCache(r) ==
  /\ pc[r] = "fill"
  /\ cache' = [cache EXCEPT ![ask[r].user] = seen[r]]
  /\ pc' = [pc EXCEPT ![r] = "authorize"]
  /\ UNCHANGED <<dbVars, ask, seen, call, edit>>

\* MySQL fails the query, or Redis fails the write, which it may still have
\* carried out; the client sees an internal error.
FailRequest(r) ==
  /\ pc[r] \in {"query", "fill"}
  /\ \/ UNCHANGED cache
     \/ pc[r] = "fill" /\ cache' = [cache EXCEPT ![ask[r].user] = seen[r]]
  /\ Respond(r, "failed")

Authorize(r) ==
  /\ pc[r] = "authorize"
  /\ Respond(r, ScopeAnswer(ask[r].platform, seen[r][ask[r].project], ask[r].level))
  /\ UNCHANGED cache

RequestStep(r) ==
  \/ BypassScope(r) \/ CacheHit(r) \/ CacheMiss(r) \/ QueryRoles(r)
  \/ FillCache(r) \/ FailRequest(r) \/ Authorize(r)

\* Mutant of Expire: a time to live of zero, with which Redis keeps a key.
ExpireNever(u) == FALSE

\* The five minutes of an entry are over.
Expire(u) ==
  /\ cache[u] # None
  /\ cache' = [cache EXCEPT ![u] = None]
  /\ UNCHANGED <<dbVars, requestVars, call, edit>>

-----------------------------------------------------------------------------
(* service/users: ReplaceProjectBindings and Delete.                       *)

\* The user and every project named are looked up before the transaction.
RequestReplace(a, u, m) ==
  /\ call[a] = None
  /\ u \in userRows
  /\ \A p \in Projects : m[p] # NoRole => p \in projectRows
  /\ call' = [call EXCEPT ![a] = [op |-> "replace", user |-> u, roles |-> m]]
  /\ UNCHANGED <<dbVars, cache, requestVars, edit>>

RequestDeleteUser(a, u) ==
  /\ call[a] = None
  /\ u \in userRows
  /\ call' = [call EXCEPT ![a] = [op |-> "delete", user |-> u, roles |-> NoRoles]]
  /\ UNCHANGED <<dbVars, cache, requestVars, edit>>

Pending(a, op) == call[a] # None /\ call[a].op = op

\* After its commit a call only has the user's cache entry to drop.
Invalidation(u) == [op |-> "invalidate", user |-> u, roles |-> NoRoles]

\* Mutant of CommitReplace: a table without its foreign keys.
CommitReplaceUnchecked(a) ==
  /\ Pending(a, "replace")
  /\ bindings' = [bindings EXCEPT ![call[a].user] = call[a].roles]
  /\ call' = [call EXCEPT ![a] = Invalidation(call[a].user)]
  /\ UNCHANGED <<userRows, projectRows, cache, requestVars, edit>>

\* Rows are deleted and created again; the foreign keys refuse a row whose
\* user or project went away after the look-up.
CommitReplace(a) ==
  LET u == call[a].user
      m == call[a].roles
  IN /\ Pending(a, "replace")
     /\ \A p \in Projects : m[p] # NoRole => u \in userRows /\ p \in projectRows
     /\ bindings' = [bindings EXCEPT ![u] = m]
     /\ call' = [call EXCEPT ![a] = Invalidation(u)]
     /\ UNCHANGED <<userRows, projectRows, cache, requestVars, edit>>

CommitDeleteUser(a) ==
  LET u == call[a].user
  IN /\ Pending(a, "delete")
     /\ bindings' = [bindings EXCEPT ![u] = NoRoles]
     /\ userRows' = userRows \ {u}
     /\ call' = [call EXCEPT ![a] = Invalidation(u)]
     /\ UNCHANGED <<projectRows, cache, requestVars, edit>>

\* A constraint (audit logs restrict the deletion of their user), a deadlock
\* or a lost connection rolls the transaction back.
RollbackAdmin(a) ==
  /\ Pending(a, "replace") \/ Pending(a, "delete")
  /\ call' = [call EXCEPT ![a] = None]
  /\ UNCHANGED <<dbVars, cache, requestVars, edit>>

InvalidateUser(a) ==
  /\ Pending(a, "invalidate")
  /\ cache' = [cache EXCEPT ![call[a].user] = None]
  /\ call' = [call EXCEPT ![a] = None]
  /\ UNCHANGED <<dbVars, requestVars, edit>>

\* Redis refuses the delete, or the process dies after the commit.
LoseInvalidation(a) ==
  /\ Pending(a, "invalidate")
  /\ call' = [call EXCEPT ![a] = None]
  /\ UNCHANGED <<dbVars, cache, requestVars, edit>>

\* An account edit or a password change that loaded the user before its
\* deletion saves it afterwards: a save that updates no row inserts one.
RestoreUser(u) ==
  /\ u \notin userRows
  /\ userRows' = userRows \cup {u}
  /\ UNCHANGED <<projectRows, bindings, cache, requestVars, call, edit>>

-----------------------------------------------------------------------------
(* service/projects: Delete and Update, as far as they touch the roles.    *)

\* Role rows and project go in one transaction; no cache entry is dropped.
DeleteProject(p) ==
  /\ p \in projectRows
  /\ projectRows' = projectRows \ {p}
  /\ bindings' = [u \in Users |-> [bindings[u] EXCEPT ![p] = NoRole]]
  /\ UNCHANGED <<userRows, cache, requestVars, call, edit>>

\* Update loads the project with its role rows before its transaction.
LoadProject(e, p) ==
  /\ edit[e] = None
  /\ p \in projectRows
  /\ edit' = [edit EXCEPT
       ![e] = [project |-> p, rows |-> [u \in Users |-> bindings[u][p]]]]
  /\ UNCHANGED <<dbVars, cache, requestVars, call>>

\* Save writes the project and inserts the role rows it was loaded with that
\* the table no longer has; a project without such rows that is gone is
\* itself inserted again.  The foreign keys refuse rows of a missing user or
\* project.
SaveProject(e) ==
  LET p == edit[e].project
      loaded == edit[e].rows
      holders == {u \in Users : loaded[u] # NoRole}
  IN /\ edit[e] # None
     /\ holders \subseteq userRows
     /\ p \in projectRows \/ holders = {}
     /\ projectRows' = projectRows \cup {p}
     /\ bindings' = [u \in Users |->
          IF u \in holders /\ bindings[u][p] = NoRole
          THEN [bindings[u] EXCEPT ![p] = loaded[u]] ELSE bindings[u]]
     /\ edit' = [edit EXCEPT ![e] = None]
     /\ UNCHANGED <<userRows, cache, requestVars, call>>

\* Validation of the input or the transaction fails.
AbandonEdit(e) ==
  /\ edit[e] # None
  /\ edit' = [edit EXCEPT ![e] = None]
  /\ UNCHANGED <<dbVars, cache, requestVars, call>>

-----------------------------------------------------------------------------
AdminStep(a) ==
  \/ \E u \in Users, m \in RoleMaps : RequestReplace(a, u, m)
  \/ \E u \in Users : RequestDeleteUser(a, u)
  \/ CommitReplace(a) \/ CommitDeleteUser(a) \/ RollbackAdmin(a)
  \/ InvalidateUser(a) \/ LoseInvalidation(a)

EditStep(e) ==
  \/ \E p \in Projects : LoadProject(e, p)
  \/ SaveProject(e) \/ AbandonEdit(e)

Next ==
  \/ \E r \in Requests, q \in Questions : StartRequest(r, q)
  \/ \E r \in Requests : RequestStep(r)
  \/ \E u \in Users : Expire(u)
  \/ \E a \in Admins : AdminStep(a)
  \/ \E u \in Users : RestoreUser(u)
  \/ \E p \in Projects : DeleteProject(p)
  \/ \E e \in Editors : EditStep(e)

\* An entry that is not written again runs out.
ExpireOrRefill(u) == Expire(u) \/ \E r \in Requests : ask[r].user = u /\ FillCache(r)

\* A request that was accepted comes to an answer: its handler runs and the
\* two stores answer or fail each call.
Fairness ==
  /\ \A r \in Requests : WF_vars(RequestStep(r))
  /\ \A u \in Users : WF_vars(ExpireOrRefill(u))

Spec == Init /\ [][Next]_vars
FairSpec == Spec /\ Fairness

-----------------------------------------------------------------------------
(* Properties.                                                             *)

\* Every role row names a user and a project that exist, in whatever order
\* replacements, deletions and project edits overtake each other.
RowsReferenceRows ==
  \A u \in Users, p \in Projects :
    bindings[u][p] # NoRole => u \in userRows /\ p \in projectRows

\* Something in the system still holds the role of u in p: the table, the
\* cache, a request past its read, a pending replacement, a loaded project.
Holds(u, p, role) ==
  \/ bindings[u][p] = role
  \/ cache[u] # None /\ cache[u][p] = role
  \/ \E r \in Requests : pc[r] \in Informed /\ ask[r].user = u /\ seen[r][p] = role
  \/ \E a \in Admins : Pending(a, "replace") /\ call[a].user = u /\ call[a].roles[p] = role
  \/ \E e \in Editors : edit[e] # None /\ edit[e].project = p /\ edit[e].rows[u] = role

heldRoles == [u \in Users |-> [p \in Projects |-> {role \in RoleNames : Holds(u, p, role)}]]
wishes == [a \in Admins |->
  IF Pending(a, "replace") THEN [user |-> call[a].user, roles |-> call[a].roles] ELSE None]
answers == [r \in Requests |-> IF pc[r] \in Answers THEN pc[r] ELSE "none"]

Directory == INSTANCE RoleDirectory WITH
  visible <- heldRoles, wish <- wishes, asked <- ask, answer <- answers

\* The cache, the copies in requests and the preloaded rows never bring back
\* a role that nothing holds any more, never hand a role to another user or another
\* project, and every answer follows from a role visible for its own pair.
RefinesDirectory == Directory!DirSpec

\* Once the table stops changing, every cache entry comes to agree with it:
\* a lost invalidation, an invalidation overtaken by a fill, or a deleted
\* project is outlived by the entry's time to live.
StaleRolesExpire ==
  <>[][UNCHANGED bindings]_vars
    => <>[](\A u \in Users : cache[u] \in {None, bindings[u]})

\* A row appears in the table only by the replacement that grants it
\* (design.md: a save of the bindings replaces all of them).
OnlyReplacementGrants ==
  [][\A u \in Users, p \in Projects :
       bindings'[u][p] \notin {bindings[u][p], NoRole}
         => \E a \in Admins : Pending(a, "replace") /\ call[a].user = u
                             /\ call[a].roles[p] = bindings'[u][p]]_vars
=============================================================================
