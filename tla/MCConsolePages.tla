---------------------------- MODULE MCConsolePages ----------------------------
(***************************************************************************)
(* Two projects, two users and two calls at a time on each page.           *)
(***************************************************************************)
EXTENDS ConsolePages, TLC

CONSTANTS p1, p2, c1, c2, r1, r2

MCProjects == {p1, p2}
MCCallIds == {c1, c2}
MCProviders == {r1, r2}

Symmetry == Permutations(MCCallIds)

\* Sessions: one with more failures than a summary or a request takes and more
\* records than its details ask for, one with a failure that says nothing, and one
\* of the other project without a failure.
Record(result, text, name) == [result |-> result, texts |-> <<"", text>>, names |-> <<name>>]
MCSessionsOf == [p \in MCProjects |-> IF p = p1 THEN {"many", "one"} ELSE {"none"}]
MCSessionLogs ==
  [many |-> <<Record("success", "", ""), Record("failure", "", "a"), Record("failure", "denied", "b"),
              Record("failure", "", "c"), Record("failure", "", "d"), Record("failure", "", "e"),
              Record("failure", "", "f")>>,
   one |-> <<Record("failure", "", "z")>>,
   none |-> <<Record("success", "", "")>>]
MCFailedEntries == [many |-> 6, one |-> 1, none |-> 0]

\* What others write: nothing, another provider, two bindings of which one has no
\* credential.
Binding(provider, credential) == [provider |-> provider, credential |-> credential]
MCOtherBindings ==
  {[kind \in Kinds |-> rows] :
     rows \in { <<>>, <<Binding(r2, TRUE)>>, <<Binding(r1, FALSE), Binding(r2, TRUE)>> }}

\* A project to administer with its bindings, and one to read without any.
Resource(name, primary) == [name |-> name, primary |-> primary]
MCContextOf ==
  [p \in MCProjects |->
     IF p = p1
       THEN [role |-> "project_admin", cdns |-> <<Resource("x1", TRUE)>>,
             buckets |-> <<Resource("b1", TRUE)>>]
       ELSE [role |-> "project_read_only", cdns |-> <<>>, buckets |-> <<>>]]

\* A link of the overview, a link to the platform, and none.
MCActionsOf == [p \in MCProjects |-> IF p = p1 THEN {"upload"} ELSE {}]
MCAuditLinks == {NoLink, TraceLink(p1, "upload")}

\* Logs in and before the last day.
MCWindows == [w \in {"24h", "7d"} |-> IF w = "24h" THEN 3 ELSE 0]
Log(action, result, at) == [action |-> action, result |-> result, at |-> at]
MCOverviewProjects ==
  [p \in MCProjects |->
     IF p = p1
       THEN [role |-> "project_admin", buckets |-> <<Resource("b1", FALSE), Resource("b2", TRUE)>>,
             logs |-> <<Log("upload", "failure", 5), Log("cdn", "failure", 2)>>]
       ELSE [role |-> "project_read_only", buckets |-> <<>>,
             logs |-> <<Log("upload", "failure", 4), Log("upload", "success", 1)>>]]

MCPlatformRoleOf ==
  [a \in {"admin", "user"} |-> IF a = "admin" THEN "platform_admin" ELSE "standard_user"]
=============================================================================
