\* One user and one project: a project edit saves the role rows it was
\* loaded with after they were replaced.
CONSTANTS
  Users = {u1}
  Projects = {p1}
  Requests = {}
  Admins = {a1}
  Editors = {e1}
  Platforms = {"standard_user"}
  None = None
SPECIFICATION FairSpec
PROPERTIES
  OnlyReplacementGrants
