\* One user of one project; two requests race to fill the same cache entry
\* while a replacement or a project edit changes the row under it.
CONSTANTS
  Users = {u1}
  Projects = {p1}
  Requests = {r1, r2}
  Admins = {a1}
  Editors = {e1}
  Platforms = {"standard_user", "platform_admin"}
  None = None
SPECIFICATION FairSpec
PROPERTIES
  StaleRolesExpire
