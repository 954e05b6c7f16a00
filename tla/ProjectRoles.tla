---------------------------- MODULE ProjectRoles ----------------------------
(***************************************************************************)
(* Roles and the permission rules of internal/model/constants.go, with the *)
(* answers the authorization middleware draws from them.                   *)
(***************************************************************************)

PlatformRoleSuperAdmin == "super_admin"
PlatformRoleAdmin == "platform_admin"
PlatformRoleStandard == "standard_user"
PlatformRoles == {PlatformRoleSuperAdmin, PlatformRoleAdmin, PlatformRoleStandard}

ProjectRoleAdmin == "project_admin"
ProjectRoleReadOnly == "project_read_only"
ProjectRoleNames == {ProjectRoleAdmin, ProjectRoleReadOnly}
\* A pair without a row in user_project_roles.
NoRole == "no_role"
RoleNames == ProjectRoleNames \cup {NoRole}

ReadPermission == "read"
WritePermission == "write"
Levels == {ReadPermission, WritePermission}

IsPlatformAdminRole(role) == role \in {PlatformRoleSuperAdmin, PlatformRoleAdmin}

CanReadProject(platformRole, projectRole) ==
  IsPlatformAdminRole(platformRole) \/ projectRole \in ProjectRoleNames

CanWriteProject(platformRole, projectRole) ==
  IsPlatformAdminRole(platformRole) \/ projectRole = ProjectRoleAdmin

Answers == {"granted", "permission_denied", "project_scope_denied", "failed"}

\* RequireProjectPermission: read and write routes ask different questions.
PermissionAnswer(platformRole, projectRole, level) ==
  IF \/ level = ReadPermission /\ CanReadProject(platformRole, projectRole)
     \/ level = WritePermission /\ CanWriteProject(platformRole, projectRole)
  THEN "granted" ELSE "permission_denied"

\* The scope middleware in front of it: a platform administrator enters as
\* project_admin, everybody else needs a role in the project.
ScopeAnswer(platformRole, projectRole, level) ==
  IF IsPlatformAdminRole(platformRole)
  THEN PermissionAnswer(platformRole, ProjectRoleAdmin, level)
  ELSE IF projectRole = NoRole THEN "project_scope_denied"
  ELSE PermissionAnswer(platformRole, projectRole, level)
=============================================================================
