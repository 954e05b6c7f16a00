\* Two users of one project, without platform administrators: one request,
\* one administrator, one editor.
CONSTANTS
  Users = {u1, u2}
  Projects = {p1}
  Requests = {r1}
  Admins = {a1}
  Editors = {e1}
  Platforms = {"standard_user"}
  None = None
SYMMETRY UserSymmetry
SPECIFICATION Spec
INVARIANTS
  TypeOK
  RowsReferenceRows
PROPERTIES
  RefinesDirectory
