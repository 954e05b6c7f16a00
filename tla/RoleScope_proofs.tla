-------------------------- MODULE RoleScope_proofs --------------------------
(***************************************************************************)
(* RoleScope for any number of users, projects, requests, administrators   *)
(* and editors: the type invariant, the referential integrity of the role  *)
(* table, and the refinement of RoleDirectory.                             *)
(***************************************************************************)
EXTENDS RoleScope, TLAPS

LEMMA NoRolesType == NoRoles \in RoleMaps
  BY DEF NoRoles, RoleMaps, RoleNames

LEMMA ScopeAnswerType ==
  \A platform, role, level : ScopeAnswer(platform, role, level) \in Answers
  BY DEF ScopeAnswer, PermissionAnswer, Answers

LEMMA InvalidationType ==
  ASSUME NEW u \in Users
  PROVE  /\ Invalidation(u) \in Calls
         /\ Invalidation(u) # None
         /\ Invalidation(u).op = "invalidate"
  BY NoRolesType, NoneAssumption DEF Invalidation, Calls

-----------------------------------------------------------------------------
(* The type invariant.                                                     *)

LEMMA TypeInit == Init => TypeOK
  BY NoRolesType DEF Init, TypeOK

LEMMA TypeStep == TypeOK /\ [Next]_vars => TypeOK'
<1> SUFFICES ASSUME TypeOK, [Next]_vars PROVE TypeOK'
  OBVIOUS
<1> USE DEF dbVars, requestVars
<1>1. ASSUME NEW r \in Requests, NEW q \in Questions, StartRequest(r, q) PROVE TypeOK'
  BY <1>1 DEF StartRequest, TypeOK, InFlight
<1>2. ASSUME NEW r \in Requests, RequestStep(r) PROVE TypeOK'
  <2> USE DEF TypeOK, InFlight
  <2>1. ask[r].user \in Users /\ ask[r].project \in Projects
    BY DEF Questions
  <2>2. CASE BypassScope(r)
    BY <2>2, NoRolesType, ScopeAnswerType DEF BypassScope, Respond
  <2>3. CASE CacheHit(r)
    BY <2>1, <2>3, NoneAssumption DEF CacheHit
  <2>4. CASE CacheMiss(r)
    BY <2>4 DEF CacheMiss
  <2>5. CASE QueryRoles(r)
    BY <2>1, <2>5 DEF QueryRoles
  <2>6. CASE FillCache(r)
    BY <2>1, <2>6 DEF FillCache
  <2>7. CASE FailRequest(r)
    BY <2>1, <2>7, NoRolesType DEF FailRequest, Respond, Answers
  <2>8. CASE Authorize(r)
    BY <2>8, NoRolesType, ScopeAnswerType DEF Authorize, Respond
  <2> QED
    BY <1>2, <2>2, <2>3, <2>4, <2>5, <2>6, <2>7, <2>8 DEF RequestStep
<1>3. ASSUME NEW u \in Users, Expire(u) PROVE TypeOK'
  BY <1>3 DEF Expire, TypeOK
<1>4. ASSUME NEW a \in Admins, AdminStep(a) PROVE TypeOK'
  <2> USE DEF TypeOK
  <2>1. ASSUME NEW u \in Users, NEW m \in RoleMaps, RequestReplace(a, u, m) PROVE TypeOK'
    BY <2>1 DEF RequestReplace, Calls
  <2>2. ASSUME NEW u \in Users, RequestDeleteUser(a, u) PROVE TypeOK'
    BY <2>2, NoRolesType DEF RequestDeleteUser, Calls
  <2>3. ASSUME call[a] # None
        PROVE  call[a].user \in Users /\ call[a].roles \in RoleMaps
    BY <2>3 DEF Calls
  <2>4. CASE CommitReplace(a)
    BY <2>3, <2>4, InvalidationType DEF CommitReplace, Pending
  <2>5. CASE CommitDeleteUser(a)
    BY <2>3, <2>5, InvalidationType, NoRolesType DEF CommitDeleteUser, Pending
  <2>6. CASE RollbackAdmin(a)
    BY <2>6 DEF RollbackAdmin
  <2>7. CASE InvalidateUser(a)
    BY <2>3, <2>7 DEF InvalidateUser, Pending
  <2>8. CASE LoseInvalidation(a)
    BY <2>8 DEF LoseInvalidation
  <2> QED
    BY <1>4, <2>1, <2>2, <2>4, <2>5, <2>6, <2>7, <2>8 DEF AdminStep
<1>5. ASSUME NEW p \in Projects, DeleteProject(p) PROVE TypeOK'
  BY <1>5 DEF DeleteProject, TypeOK, RoleMaps, RoleNames
<1>6. ASSUME NEW e \in Editors, EditStep(e) PROVE TypeOK'
  <2> USE DEF TypeOK
  <2>1. ASSUME NEW p \in Projects, LoadProject(e, p) PROVE TypeOK'
    BY <2>1 DEF LoadProject, Edits, RoleMaps
  <2>2. CASE SaveProject(e)
    <3>1. edit[e].project \in Projects /\ edit[e].rows \in [Users -> RoleNames]
      BY <2>2 DEF SaveProject, Edits
    <3>2. bindings' \in [Users -> RoleMaps]
      BY <2>2, <3>1 DEF SaveProject, RoleMaps
    <3>3. projectRows' \subseteq Projects
      BY <2>2, <3>1 DEF SaveProject
    <3>4. edit' \in [Editors -> Edits \cup {None}]
      BY <2>2 DEF SaveProject
    <3> QED
      BY <2>2, <3>2, <3>3, <3>4 DEF SaveProject
  <2>3. CASE AbandonEdit(e)
    BY <2>3 DEF AbandonEdit
  <2> QED
    BY <1>6, <2>1, <2>2, <2>3 DEF EditStep
<1>7. CASE UNCHANGED vars
  BY <1>7 DEF vars, TypeOK
<1>8. ASSUME NEW u \in Users, RestoreUser(u) PROVE TypeOK'
  BY <1>8 DEF RestoreUser, TypeOK
<1> QED
  BY <1>1, <1>2, <1>3, <1>4, <1>5, <1>6, <1>7, <1>8 DEF Next

\* Every variable keeps its type, for every instance of the system.
THEOREM TypeCorrect == Spec => []TypeOK
  BY TypeInit, TypeStep, PTL DEF Spec

-----------------------------------------------------------------------------
(* Referential integrity of the role table.                                *)

LEMMA ReferenceStep == TypeOK /\ RowsReferenceRows /\ [Next]_vars => RowsReferenceRows'
<1> SUFFICES ASSUME TypeOK, RowsReferenceRows, [Next]_vars PROVE RowsReferenceRows'
  OBVIOUS
<1> USE DEF RowsReferenceRows
<1>1. CASE UNCHANGED dbVars
  BY <1>1 DEF dbVars
<1>2. ASSUME NEW a \in Admins, CommitReplace(a) PROVE RowsReferenceRows'
  <2>1. call[a].user \in Users /\ call[a].roles \in RoleMaps
    BY <1>2 DEF CommitReplace, Pending, TypeOK, Calls
  <2> QED
    BY <1>2, <2>1 DEF CommitReplace, TypeOK
<1>3. ASSUME NEW a \in Admins, CommitDeleteUser(a) PROVE RowsReferenceRows'
  <2>1. call[a].user \in Users
    BY <1>3 DEF CommitDeleteUser, Pending, TypeOK, Calls
  <2> QED
    BY <1>3, <2>1 DEF CommitDeleteUser, NoRoles, TypeOK
<1>4. ASSUME NEW p \in Projects, DeleteProject(p) PROVE RowsReferenceRows'
  BY <1>4 DEF DeleteProject, TypeOK, RoleMaps
<1>5. ASSUME NEW e \in Editors, SaveProject(e) PROVE RowsReferenceRows'
  <2>1. edit[e].project \in Projects
    BY <1>5 DEF SaveProject, TypeOK, Edits
  <2> QED
    BY <1>5, <2>1 DEF SaveProject, TypeOK, RoleMaps
<1>6. CASE UNCHANGED vars
  BY <1>6, <1>1 DEF vars
<1>7. ASSUME NEW r \in Requests, RequestStep(r) PROVE UNCHANGED dbVars
  BY <1>7 DEF RequestStep, BypassScope, CacheHit, CacheMiss, QueryRoles, FillCache,
              FailRequest, Authorize, Respond
<1>8. ASSUME NEW a \in Admins, AdminStep(a), ~CommitReplace(a), ~CommitDeleteUser(a)
      PROVE  UNCHANGED dbVars
  BY <1>8 DEF AdminStep, RequestReplace, RequestDeleteUser, RollbackAdmin,
              InvalidateUser, LoseInvalidation
<1>9. ASSUME NEW e \in Editors, EditStep(e), ~SaveProject(e) PROVE UNCHANGED dbVars
  BY <1>9 DEF EditStep, LoadProject, AbandonEdit
<1>10. ASSUME NEW u \in Users, RestoreUser(u) PROVE RowsReferenceRows'
  BY <1>10 DEF RestoreUser
<1> QED
  BY <1>1, <1>2, <1>3, <1>4, <1>5, <1>6, <1>7, <1>8, <1>9, <1>10
  DEF Next, StartRequest, Expire

\* Every role row names a user and a project that exist, for every instance.
THEOREM ReferencesCorrect == Spec => []RowsReferenceRows
<1>1. Init => RowsReferenceRows
  BY DEF Init, RowsReferenceRows
<1> QED
  BY <1>1, TypeCorrect, ReferenceStep, PTL DEF Spec

-----------------------------------------------------------------------------
(* Refinement of RoleDirectory.                                            *)

\* RoleDirectory reads the same roles and rules.
LEMMA SameRoles ==
  /\ Directory!NoRole = NoRole
  /\ Directory!RoleNames = RoleNames
  /\ Directory!Questions = Questions
  /\ \A platform, role, level :
       Directory!ScopeAnswer(platform, role, level) = ScopeAnswer(platform, role, level)
<1> USE DEF Directory!NoRole, NoRole
<1>1. Directory!RoleNames = RoleNames
  BY DEF Directory!RoleNames, RoleNames, Directory!ProjectRoleNames, ProjectRoleNames,
         Directory!ProjectRoleAdmin, ProjectRoleAdmin, Directory!ProjectRoleReadOnly,
         ProjectRoleReadOnly
<1>2. Directory!Questions = Questions
  BY DEF Directory!Questions, Questions, Directory!Levels, Levels, Directory!ReadPermission,
         ReadPermission, Directory!WritePermission, WritePermission
<1>3. ASSUME NEW platform, NEW role, NEW level
      PROVE  Directory!ScopeAnswer(platform, role, level) = ScopeAnswer(platform, role, level)
  <2> USE DEF Directory!ProjectRoleAdmin, ProjectRoleAdmin, Directory!ProjectRoleReadOnly,
         ProjectRoleReadOnly, Directory!ProjectRoleNames, ProjectRoleNames,
         Directory!ReadPermission, ReadPermission, Directory!WritePermission, WritePermission
  <2>1. Directory!IsPlatformAdminRole(platform) = IsPlatformAdminRole(platform)
    BY DEF Directory!IsPlatformAdminRole, IsPlatformAdminRole,
           Directory!PlatformRoleSuperAdmin, PlatformRoleSuperAdmin,
           Directory!PlatformRoleAdmin, PlatformRoleAdmin
  <2>2. \A q : Directory!PermissionAnswer(platform, q, level) = PermissionAnswer(platform, q, level)
    BY <2>1 DEF Directory!PermissionAnswer, PermissionAnswer, Directory!CanReadProject,
           CanReadProject, Directory!CanWriteProject, CanWriteProject
  <2> QED
    BY <2>1, <2>2 DEF Directory!ScopeAnswer, ScopeAnswer
<1> QED
  BY <1>1, <1>2, <1>3

\* A step that makes no role visible forgets.
LEMMA Forgetting ==
  ASSUME \A u \in Users, p \in Projects, role \in RoleNames :
           Holds(u, p, role)' => Holds(u, p, role) \/ role = NoRole
  PROVE  Directory!OnlyForgets
  BY SameRoles DEF Directory!OnlyForgets, heldRoles

\* A step that touches neither copies nor table leaves what is visible alone.
LEMMA SameVisible ==
  ASSUME \A u \in Users, p \in Projects, role \in RoleNames :
           Holds(u, p, role)' <=> Holds(u, p, role)
  PROVE  UNCHANGED heldRoles
  BY DEF heldRoles

LEMMA DirectoryInit == Init => Directory!DirInit
<1> SUFFICES ASSUME Init PROVE Directory!DirInit
  OBVIOUS
<1>1. heldRoles \in [Users -> [Projects -> SUBSET RoleNames]]
  BY DEF heldRoles
<1>2. wishes = [a \in Admins |-> None]
  BY DEF Init, wishes, Pending
<1>3. answers = [r \in Requests |-> "none"]
  BY DEF Init, answers, Answers
<1> QED
  BY <1>1, <1>2, <1>3, SameRoles DEF Directory!DirInit, Init

LEMMA RequestRefines ==
  ASSUME TypeOK, NEW r \in Requests, RequestStep(r)
  PROVE  Directory!Forget \/ Directory!Answer(r)
<1>1. UNCHANGED <<dbVars, ask, call, edit>>
  BY DEF RequestStep, BypassScope, CacheHit, CacheMiss, QueryRoles, FillCache, FailRequest,
         Authorize, Respond
<1>2. UNCHANGED wishes
  BY <1>1 DEF wishes, Pending
<1>3. \A s \in Requests \ {r} : pc'[s] = pc[s] /\ seen'[s] = seen[s]
  BY DEF RequestStep, BypassScope, CacheHit, CacheMiss, QueryRoles, FillCache, FailRequest,
         Authorize, Respond, TypeOK
<1>4. ASSUME \/ pc'[r] \notin Informed
             \/ pc[r] \in Informed /\ seen'[r] = seen[r]
             \/ seen'[r] = bindings[ask[r].user]
             \/ cache[ask[r].user] # None /\ seen'[r] = cache[ask[r].user],
             \/ UNCHANGED cache
             \/ /\ pc[r] \in Informed
                /\ cache' = [cache EXCEPT ![ask[r].user] = seen[r]]
      PROVE  Directory!OnlyForgets
  <2> SUFFICES ASSUME NEW u \in Users, NEW p \in Projects, NEW role \in RoleNames,
                      Holds(u, p, role)'
               PROVE  Holds(u, p, role)
    BY Forgetting
  <2>1. CASE bindings'[u][p] = role
    BY <1>1, <2>1 DEF Holds, dbVars
  <2>2. CASE cache'[u] # None /\ cache'[u][p] = role
    BY <1>4, <2>2 DEF Holds, TypeOK
  <2>3. CASE \E s \in Requests : pc'[s] \in Informed /\ ask'[s].user = u /\ seen'[s][p] = role
    BY <1>1, <1>3, <1>4, <2>3 DEF Holds
  <2>4. CASE \E a \in Admins :
               Pending(a, "replace")' /\ call'[a].user = u /\ call'[a].roles[p] = role
    BY <1>1, <2>4 DEF Holds, Pending
  <2>5. CASE \E e \in Editors :
               edit'[e] # None /\ edit'[e].project = p /\ edit'[e].rows[u] = role
    BY <1>1, <2>5 DEF Holds
  <2> QED
    BY <2>1, <2>2, <2>3, <2>4, <2>5 DEF Holds
<1>5. ASSUME pc[r] \notin Answers, pc'[r] \notin Answers, Directory!OnlyForgets
      PROVE  Directory!Forget
  <2>1. UNCHANGED answers
    BY <1>3, <1>5 DEF answers
  <2> QED
    BY <1>1, <1>2, <1>5, <2>1 DEF Directory!Forget
<1>6. ASSUME NEW ans \in Answers, pc[r] \notin Answers, pc' = [pc EXCEPT ![r] = ans]
      PROVE  answers[r] = "none" /\ answers' = [answers EXCEPT ![r] = ans]
  BY <1>6 DEF answers, TypeOK
<1>7. ASSUME NEW role \in RoleNames, pc[r] \notin Answers,
             role = NoRole \/ Holds(ask[r].user, ask[r].project, role),
             pc' = [pc EXCEPT ![r] = ScopeAnswer(ask[r].platform, role, ask[r].level)],
             Directory!OnlyForgets
      PROVE  Directory!Answer(r)
  <2>1. ask[r].user \in Users /\ ask[r].project \in Projects
    BY DEF TypeOK, Questions
  <2>2. role \in heldRoles[ask[r].user][ask[r].project] \cup {NoRole}
    BY <1>7, <2>1 DEF heldRoles
  <2> QED
    BY ZenonT(30), <1>1, <1>2, <1>6, <1>7, <2>2, SameRoles, ScopeAnswerType DEF Directory!Answer
<1>8. CASE BypassScope(r)
  <2>1. pc[r] = "lookup" /\ pc'[r] \notin Informed /\ UNCHANGED cache
    BY <1>8, ScopeAnswerType DEF BypassScope, Respond, TypeOK, Informed, Answers
  <2>2. Directory!OnlyForgets
    BY <1>4, <2>1
  <2> QED
    BY <1>7, <1>8, <2>1, <2>2 DEF BypassScope, Respond, Answers, RoleNames
<1>9. CASE CacheHit(r) \/ CacheMiss(r) \/ QueryRoles(r)
  <2>1. /\ pc[r] \notin Answers
        /\ pc'[r] \notin Answers
        /\ UNCHANGED cache
    BY <1>9 DEF CacheHit, CacheMiss, QueryRoles, TypeOK, Answers
  <2>2. \/ pc'[r] \notin Informed
        \/ seen'[r] = bindings[ask[r].user]
        \/ cache[ask[r].user] # None /\ seen'[r] = cache[ask[r].user]
    BY <1>9 DEF CacheHit, CacheMiss, QueryRoles, TypeOK, Informed
  <2> QED
    BY <1>4, <1>5, <2>1, <2>2
<1>10. CASE FillCache(r)
  <2>1. /\ pc[r] \notin Answers
        /\ pc'[r] \notin Answers
        /\ pc[r] \in Informed /\ seen'[r] = seen[r]
        /\ cache' = [cache EXCEPT ![ask[r].user] = seen[r]]
    BY <1>10 DEF FillCache, TypeOK, Answers, Informed
  <2> QED
    BY <1>4, <1>5, <2>1
<1>11. CASE FailRequest(r)
  <2>1. /\ pc[r] \notin Answers
        /\ pc' = [pc EXCEPT ![r] = "failed"]
        /\ pc'[r] \notin Informed
        /\ \/ UNCHANGED cache
           \/ pc[r] \in Informed /\ cache' = [cache EXCEPT ![ask[r].user] = seen[r]]
    BY <1>11 DEF FailRequest, Respond, TypeOK, Answers, Informed
  <2>2. Directory!OnlyForgets
    BY <1>4, <2>1
  <2>3. answers[r] = "none" /\ answers' = [answers EXCEPT ![r] = "failed"]
    BY <1>6, <2>1 DEF Answers
  <2> QED
    BY <1>1, <1>2, <2>2, <2>3 DEF Directory!Answer
<1>12. CASE Authorize(r)
  <2>1. ask[r].project \in Projects /\ seen[r][ask[r].project] \in RoleNames
    BY DEF TypeOK, Questions, RoleMaps
  <2>2. /\ pc[r] \notin Answers
        /\ pc[r] \in Informed
        /\ pc'[r] \notin Informed
        /\ UNCHANGED cache
    BY <1>12, ScopeAnswerType DEF Authorize, Respond, TypeOK, Informed, Answers
  <2>3. Holds(ask[r].user, ask[r].project, seen[r][ask[r].project])
    BY <2>2 DEF Holds
  <2> QED
    BY <1>4, <1>7, <1>12, <2>1, <2>2, <2>3 DEF Authorize, Respond
<1> QED
  BY <1>8, <1>9, <1>10, <1>11, <1>12 DEF RequestStep

LEMMA StartRefines ==
  ASSUME TypeOK, NEW r \in Requests, NEW q \in Questions, StartRequest(r, q)
  PROVE  Directory!Ask(r, q)
<1> USE DEF StartRequest, dbVars
<1>1. UNCHANGED wishes
  BY DEF wishes, Pending
<1>2. answers' = [answers EXCEPT ![r] = "none"]
  BY DEF answers, Answers, TypeOK
<1>3. UNCHANGED heldRoles
  <2>1. pc[r] \notin Informed /\ pc'[r] \notin Informed
    BY DEF TypeOK, InFlight, Informed
  <2>2. \A s \in Requests \ {r} : pc'[s] = pc[s] /\ ask'[s] = ask[s]
    BY DEF TypeOK
  <2>3. ASSUME NEW u \in Users, NEW p \in Projects, NEW role \in RoleNames
        PROVE  Holds(u, p, role)' <=> Holds(u, p, role)
    BY <2>1, <2>2 DEF Holds, Pending
  <2> QED
    BY <2>3, SameVisible
<1> QED
  BY <1>1, <1>2, <1>3 DEF Directory!Ask

\* The steps that leave the requests alone.
LEMMA AnswersKept ==
  ASSUME UNCHANGED requestVars
  PROVE  UNCHANGED answers /\ UNCHANGED ask
  BY DEF requestVars, answers

LEMMA ExpireRefines ==
  ASSUME TypeOK, NEW u \in Users, Expire(u) \/ RestoreUser(u)
  PROVE  Directory!Forget
<1> USE DEF Expire, RestoreUser, dbVars, requestVars
<1>1. UNCHANGED wishes
  BY DEF wishes, Pending
<1>2. ASSUME NEW v \in Users, NEW p \in Projects, NEW role \in RoleNames, Holds(v, p, role)'
      PROVE  Holds(v, p, role)
  BY <1>2 DEF Holds, Pending, TypeOK
<1> QED
  BY <1>1, <1>2, Forgetting, AnswersKept DEF Directory!Forget

\* Project deletion and project edits: rows go, or come back from a copy.
LEMMA ProjectRefines ==
  ASSUME TypeOK,
         \/ \E p \in Projects : DeleteProject(p)
         \/ \E e \in Editors : EditStep(e)
  PROVE  Directory!Forget
<1> USE DEF requestVars
<1>1. UNCHANGED requestVars /\ UNCHANGED call /\ UNCHANGED cache
  BY DEF DeleteProject, EditStep, LoadProject, SaveProject, AbandonEdit
<1>2. UNCHANGED wishes
  BY <1>1 DEF wishes, Pending
<1>3. SUFFICES ASSUME NEW u \in Users, NEW p \in Projects, NEW role \in RoleNames,
                      Holds(u, p, role)'
               PROVE  Holds(u, p, role) \/ role = NoRole
  BY <1>1, <1>2, Forgetting, AnswersKept DEF Directory!Forget
<1>4. CASE bindings'[u][p] = role
  <2>1. ASSUME NEW q \in Projects, DeleteProject(q)
        PROVE  bindings'[u][p] \in {bindings[u][p], NoRole}
    BY <2>1 DEF DeleteProject, TypeOK, RoleMaps
  <2>2. ASSUME NEW e \in Editors, SaveProject(e)
        PROVE  \/ bindings'[u][p] = bindings[u][p]
               \/ /\ edit[e] # None /\ edit[e].project = p
                  /\ bindings'[u][p] = edit[e].rows[u]
    BY <2>2 DEF SaveProject, TypeOK, RoleMaps
  <2>3. ASSUME NEW e \in Editors, EditStep(e), ~SaveProject(e)
        PROVE  bindings' = bindings
    BY <2>3 DEF EditStep, LoadProject, AbandonEdit, dbVars
  <2> QED
    BY <1>4, <2>1, <2>2, <2>3 DEF Holds
<1>5. CASE \E e \in Editors :
             edit'[e] # None /\ edit'[e].project = p /\ edit'[e].rows[u] = role
  <2>1. PICK e \in Editors :
          edit'[e] # None /\ edit'[e].project = p /\ edit'[e].rows[u] = role
    BY <1>5
  <2>2. CASE edit'[e] = edit[e]
    BY <2>1, <2>2 DEF Holds
  <2>3. CASE edit'[e] # edit[e]
    <3>1. PICK q \in Projects : LoadProject(e, q)
      BY <2>1, <2>3 DEF DeleteProject, EditStep, LoadProject, SaveProject, AbandonEdit, TypeOK
    <3>2. q = p /\ edit'[e].rows[u] = bindings[u][p]
      BY <2>1, <3>1 DEF LoadProject, TypeOK
    <3> QED
      BY <2>1, <3>2 DEF Holds
  <2> QED
    BY <2>2, <2>3
<1> QED
  BY <1>1, <1>3, <1>4, <1>5 DEF Holds, Pending

LEMMA AdminRefines ==
  ASSUME TypeOK, NEW a \in Admins, AdminStep(a)
  PROVE  Directory!Forget \/ Directory!Settle(a) \/ \E w \in Directory!Wishes : Directory!Plan(a, w)
<1> USE DEF dbVars, requestVars
<1>1. UNCHANGED requestVars /\ UNCHANGED edit
  BY DEF AdminStep, RequestReplace, RequestDeleteUser, CommitReplace, CommitDeleteUser,
         RollbackAdmin, InvalidateUser, LoseInvalidation
<1>2. \A b \in Admins \ {a} : call'[b] = call[b]
  BY DEF AdminStep, RequestReplace, RequestDeleteUser, CommitReplace, CommitDeleteUser,
         RollbackAdmin, InvalidateUser, LoseInvalidation, TypeOK
<1>3. ASSUME NEW u \in Users, NEW m \in RoleMaps, RequestReplace(a, u, m)
      PROVE  \E w \in Directory!Wishes : Directory!Plan(a, w)
  <2> DEFINE w == [user |-> u, roles |-> m]
  <2>1. w \in Directory!Wishes
    BY SameRoles DEF Directory!Wishes, RoleMaps
  <2>2. call'[a] = [op |-> "replace", user |-> u, roles |-> m] /\ call'[a] \in Calls
    BY <1>3 DEF RequestReplace, TypeOK, Calls
  <2>3. ~Pending(a, "replace") /\ Pending(a, "replace")'
    BY <1>3, <2>2, NoneAssumption DEF RequestReplace, Pending
  <2>4. wishes[a] = None /\ wishes' = [wishes EXCEPT ![a] = w]
    <3>1. wishes[a] = None /\ wishes'[a] = w
      BY <2>2, <2>3 DEF wishes
    <3>2. \A b \in Admins \ {a} : wishes'[b] = wishes[b]
      BY <1>2 DEF wishes, Pending
    <3> HIDE DEF w
    <3> QED
      BY <3>1, <3>2 DEF wishes
  <2>5. ASSUME NEW v \in Users, NEW p \in Projects, NEW role \in RoleNames
        PROVE  Holds(v, p, role)' <=> Holds(v, p, role) \/ (v = u /\ role = m[p])
    <3>1. UNCHANGED <<bindings, cache>>
      BY <1>3 DEF RequestReplace
    <3>2. (\E b \in Admins :
             Pending(b, "replace")' /\ call'[b].user = v /\ call'[b].roles[p] = role)
            <=> \/ v = u /\ role = m[p]
                \/ \E b \in Admins :
                     Pending(b, "replace") /\ call[b].user = v /\ call[b].roles[p] = role
      BY <1>2, <2>2, <2>3 DEF Pending
    <3> QED
      BY <1>1, <3>1, <3>2 DEF Holds
  <2>6. heldRoles' = [heldRoles EXCEPT ![u] = [p \in Projects |-> @[p] \cup {m[p]}]]
    <3>1. \A p \in Projects : m[p] \in RoleNames
      BY DEF RoleMaps
    <3>2. \A p \in Projects : heldRoles'[u][p] = heldRoles[u][p] \cup {m[p]}
      BY <2>5, <3>1 DEF heldRoles
    <3>3. \A v \in Users \ {u}, p \in Projects : heldRoles'[v][p] = heldRoles[v][p]
      BY <2>5 DEF heldRoles
    <3>4. /\ heldRoles = [v \in Users |-> [p \in Projects |-> heldRoles[v][p]]]
          /\ heldRoles' = [v \in Users |-> [p \in Projects |-> heldRoles'[v][p]]]
      BY DEF heldRoles
    <3>5. heldRoles'[u] = [p \in Projects |-> heldRoles[u][p] \cup {m[p]}]
      BY <3>2, <3>4
    <3>6. \A v \in Users \ {u} : heldRoles'[v] = heldRoles[v]
      BY <3>3, <3>4
    <3> QED
      BY <3>4, <3>5, <3>6
  <2> QED
    BY <1>1, <2>1, <2>4, <2>6, AnswersKept DEF Directory!Plan
<1>4. ASSUME ~Pending(a, "replace")',
             \A u \in Users, p \in Projects :
               \/ bindings'[u][p] \in {bindings[u][p], NoRole}
               \/ Pending(a, "replace") /\ call[a].user = u /\ bindings'[u][p] = call[a].roles[p],
             \A u \in Users : cache'[u] \in {cache[u], None}
      PROVE  Directory!Forget \/ Directory!Settle(a)
  <2>1. ASSUME NEW u \in Users, NEW p \in Projects, NEW role \in RoleNames,
               Holds(u, p, role)'
        PROVE  Holds(u, p, role) \/ role = NoRole
    <3>1. CASE bindings'[u][p] = role
      BY <1>4, <3>1 DEF Holds
    <3>2. CASE \E b \in Admins :
                 Pending(b, "replace")' /\ call'[b].user = u /\ call'[b].roles[p] = role
      BY <1>2, <1>4, <3>2 DEF Holds, Pending
    <3> QED
      BY <1>1, <1>4, <2>1, <3>1, <3>2 DEF Holds
  <2>2. Directory!OnlyForgets
    BY <2>1, Forgetting
  <2>3. wishes' = [wishes EXCEPT ![a] = None]
    BY ZenonT(30), <1>2, <1>4 DEF wishes, Pending
  <2>4. CASE Pending(a, "replace")
    <3>1. wishes[a] # None
      BY <2>4, NoneAssumption DEF wishes, Pending, TypeOK, Calls, Wishes
    <3> QED
      BY <1>1, <2>2, <2>3, <3>1, AnswersKept DEF Directory!Settle
  <2>5. CASE ~Pending(a, "replace")
    <3>1. UNCHANGED wishes
      BY <2>3, <2>5 DEF wishes
    <3> QED
      BY <1>1, <2>2, <3>1, AnswersKept DEF Directory!Forget
  <2> QED
    BY <2>4, <2>5
<1>5. ASSUME call[a] # None
      PROVE  call[a].user \in Users /\ call[a].roles \in RoleMaps
  BY <1>5 DEF TypeOK, Calls
<1>6. CASE CommitReplace(a)
  <2>1. ~Pending(a, "replace")'
    BY <1>5, <1>6, InvalidationType DEF CommitReplace, Pending, TypeOK
  <2> QED
    BY <1>4, <1>5, <1>6, <2>1 DEF CommitReplace, Pending, TypeOK
<1>7. CASE CommitDeleteUser(a)
  <2>1. ~Pending(a, "replace")'
    BY <1>5, <1>7, InvalidationType DEF CommitDeleteUser, Pending, TypeOK
  <2> QED
    BY <1>4, <1>5, <1>7, <2>1 DEF CommitDeleteUser, Pending, NoRoles, TypeOK
<1>8. ASSUME NEW u \in Users, RequestDeleteUser(a, u) PROVE Directory!Forget \/ Directory!Settle(a)
  <2>1. ~Pending(a, "replace")'
    BY <1>8 DEF RequestDeleteUser, Pending, TypeOK
  <2> QED
    BY <1>4, <1>8, <2>1 DEF RequestDeleteUser
<1>9. CASE RollbackAdmin(a) \/ InvalidateUser(a) \/ LoseInvalidation(a)
  <2>1. ~Pending(a, "replace")'
    BY <1>9 DEF RollbackAdmin, InvalidateUser, LoseInvalidation, Pending, TypeOK
  <2>2. bindings' = bindings /\ \A u \in Users : cache'[u] \in {cache[u], None}
    BY <1>5, <1>9 DEF RollbackAdmin, InvalidateUser, LoseInvalidation, Pending, TypeOK
  <2> QED
    BY <1>4, <2>1, <2>2
<1> QED
  BY <1>3, <1>6, <1>7, <1>8, <1>9 DEF AdminStep

LEMMA StutterRefines == UNCHANGED vars => UNCHANGED <<heldRoles, wishes, ask, answers>>
  BY DEF vars, dbVars, requestVars, heldRoles, Holds, wishes, Pending, answers

LEMMA DirectoryStep ==
  TypeOK /\ [Next]_vars => [Directory!DirNext]_<<heldRoles, wishes, ask, answers>>
<1> SUFFICES ASSUME TypeOK, [Next]_vars
             PROVE  Directory!DirNext \/ UNCHANGED <<heldRoles, wishes, ask, answers>>
  OBVIOUS
<1>1. CASE UNCHANGED vars
  BY <1>1, StutterRefines
<1>2. CASE Next
  BY <1>2, StartRefines, RequestRefines, ExpireRefines, ProjectRefines, AdminRefines, SameRoles
  DEF Next, Directory!DirNext
<1> QED
  BY <1>1, <1>2

\* Whatever the cache, the requests and the preloaded rows do, the system
\* keeps the promise of RoleDirectory, for every instance.
THEOREM DirectoryRefined == Spec => RefinesDirectory
<1>1. Init => Directory!DirInit
  BY DirectoryInit
<1> QED
  BY <1>1, TypeCorrect, DirectoryStep, PTL
  DEF Spec, RefinesDirectory, Directory!DirSpec, Directory!dirVars
=============================================================================
