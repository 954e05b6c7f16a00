-------------------------- MODULE ConsolePages_proofs --------------------------
(***************************************************************************)
(* The pages of the console and its sessions for any accounts, projects,   *)
(* links, logs and calls under way: an inductive invariant of each page,   *)
(* and with those of the pages of users and projects that of the console:  *)
(* a step of the console is a step of the page that is mounted.            *)
(***************************************************************************)
EXTENDS ConsolePages, UsersConsole_proofs, ProjectsConsole_proofs, FiniteSetTheorems

-----------------------------------------------------------------------------
(* Sessions and routes.                                                    *)

TabStates ==
  [path : Paths, page : Accounts \cup {None}, session : StoredStates, logins : SUBSET Logins]

OfItsSession(tab) ==
  tab.page # None => tab.page = tab.session.token /\ tab.path \in MenuOf(tab.session)

SessionInv ==
  /\ storedSession \in StoredStates /\ tabs \in [Tabs -> TabStates]
  /\ \A t \in Tabs : OfItsSession(tabs[t])

\* The guards lead to a path there is, and to a page only with a session whose menu
\* has it.
LEMMA SettledPath ==
  ASSUME NEW path \in Paths \cup {"/"}, NEW session \in StoredStates
  PROVE  /\ Settled(path, session) \in Paths
         /\ Settled(path, session) \in ShellPaths =>
              session.token \in Accounts /\ Settled(path, session) \in MenuOf(session)
<1>1. session = SignedOut \/ \E a \in Accounts : session = SessionOf(a)
  BY DEF StoredStates
<1>2. /\ session.isLoggedIn \in BOOLEAN
      /\ session.isLoggedIn => session.token \in Accounts
  <2>1. CASE session = SignedOut
    BY <2>1 DEF SignedOut
  <2>2. ASSUME NEW a \in Accounts, session = SessionOf(a)
        PROVE  session.isLoggedIn = TRUE /\ session.token = a
    BY <2>2 DEF SessionOf
  <2> QED
    BY <1>1, <2>1, <2>2
<1>3. MenuOf(session) \subseteq ShellPaths /\ "/overview" \in MenuOf(session)
  BY DEF MenuOf, ShellPaths
<1>4. CASE path = "/setup"
  <2>1. Settled(path, session) = "/setup"
    BY <1>4 DEF Settled
  <2> QED
    BY <2>1 DEF Paths, ShellPaths
<1>5. CASE path # "/setup" /\ ~session.isLoggedIn
  <2>1. Settled(path, session) = "/login"
    BY <1>5 DEF Settled
  <2> QED
    BY <2>1 DEF Paths, ShellPaths
<1>6. CASE path # "/setup" /\ session.isLoggedIn
  <2>1. Settled(path, session) = IF path \in MenuOf(session) THEN path ELSE "/overview"
    BY <1>6 DEF Settled
  <2>2. Settled(path, session) \in MenuOf(session)
    BY <1>3, <2>1
  <2> QED
    BY <1>2, <1>3, <1>6, <2>2 DEF Paths
<1> QED
  BY <1>2, <1>4, <1>5, <1>6

\* A tab that goes somewhere keeps its page only where it stays, with its session.
LEMMA WentFits ==
  ASSUME NEW tab, tab.page \in Accounts \cup {None}, tab.logins \in SUBSET Logins,
         NEW path \in Paths \cup {"/"}, NEW session \in StoredStates,
         path = tab.path /\ path \in ShellPaths /\ tab.page # None => tab.page = session.token
  PROVE  Went(tab, path, session) \in TabStates /\ OfItsSession(Went(tab, path, session))
<1> DEFINE at == Settled(path, session)
           page == IF at \notin ShellPaths THEN None
                   ELSE IF at = path /\ path = tab.path THEN tab.page ELSE session.token
           logins == IF at = tab.path THEN tab.logins ELSE {[l EXCEPT !.shown = FALSE] : l \in tab.logins}
<1>1. Went(tab, path, session) = [path |-> at, page |-> page, session |-> session, logins |-> logins]
  BY DEF Went
<1>2. at \in Paths /\ (at \in ShellPaths => session.token \in Accounts /\ at \in MenuOf(session))
  BY SettledPath
<1>3. logins \in SUBSET Logins
  <2>1. \A l \in Logins : [l EXCEPT !.shown = FALSE] \in Logins
    BY DEF Logins
  <2> QED
    BY <2>1
<1> HIDE DEF at, logins
<1>4. page \in Accounts \cup {None} /\ (page # None => page = session.token /\ at \in ShellPaths)
  BY <1>2
<1> HIDE DEF page
<1> QED
  BY <1>1, <1>2, <1>3, <1>4 DEF TabStates, OfItsSession

LEMMA NewTabFits ==
  ASSUME NEW path \in Paths \cup {"/"}, NEW session \in StoredStates
  PROVE  NewTab(path, session) \in TabStates /\ OfItsSession(NewTab(path, session))
<1> DEFINE tab == [path |-> "", page |-> None, logins |-> {}]
<1>1. tab.page = None /\ tab.logins = {}
  OBVIOUS
<1> HIDE DEF tab
<1>2. Went(tab, path, session) \in TabStates /\ OfItsSession(Went(tab, path, session))
  BY <1>1, WentFits
<1> QED
  BY <1>2 DEF NewTab, tab

LEMMA SessionInitInv == SessionInit => SessionInv
<1> SUFFICES ASSUME SessionInit PROVE SessionInv
  OBVIOUS
<1>1. storedSession \in StoredStates /\ tabs = [t \in Tabs |-> NewTab("/", storedSession)]
  BY DEF SessionInit
<1>2. NewTab("/", storedSession) \in TabStates /\ OfItsSession(NewTab("/", storedSession))
  BY <1>1, NewTabFits
<1> QED
  BY <1>1, <1>2 DEF SessionInv

LEMMA SessionStepInv == SessionInv /\ [SessionNext]_sessionVars => SessionInv'
<1> SUFFICES ASSUME SessionInv, [SessionNext]_sessionVars PROVE SessionInv'
  OBVIOUS
<1>1. CASE UNCHANGED sessionVars
  BY <1>1 DEF SessionInv, sessionVars
<1>2. ASSUME NEW t \in Tabs, NEW tab \in TabStates, OfItsSession(tab),
             tabs' = [tabs EXCEPT ![t] = tab], storedSession' \in StoredStates
      PROVE  SessionInv'
  BY <1>2 DEF SessionInv
<1>3. ASSUME NEW t \in Tabs
      PROVE  /\ tabs[t] \in TabStates /\ OfItsSession(tabs[t])
             /\ tabs[t].path \in Paths /\ tabs[t].page \in Accounts \cup {None}
             /\ tabs[t].session \in StoredStates /\ tabs[t].logins \in SUBSET Logins
  BY <1>3 DEF SessionInv, TabStates
<1>4. ASSUME NEW t \in Tabs, LoadTab(t) PROVE SessionInv'
  <2>1. PICK path \in Paths : tabs' = [tabs EXCEPT ![t] = NewTab(path, storedSession)]
    BY <1>4 DEF LoadTab
  <2>2. NewTab(path, storedSession) \in TabStates /\ OfItsSession(NewTab(path, storedSession))
    BY NewTabFits DEF SessionInv
  <2>3. storedSession' \in StoredStates
    BY <1>4 DEF LoadTab, SessionInv
  <2> QED
    BY <1>2, <2>1, <2>2, <2>3
<1>5. ASSUME NEW t \in Tabs, Navigate(t) PROVE SessionInv'
  <2>1. PICK path \in Paths \cup {"/"} : tabs' = [tabs EXCEPT ![t] = Went(tabs[t], path, tabs[t].session)]
    BY <1>5 DEF Navigate, Goes
  <2> DEFINE tab == Went(tabs[t], path, tabs[t].session)
  <2>2. tab \in TabStates /\ OfItsSession(tab)
    <3>1. tabs[t].page # None => tabs[t].page = tabs[t].session.token
      BY <1>3 DEF OfItsSession
    <3> QED
      BY <1>3, <3>1, WentFits
  <2>3. storedSession' \in StoredStates
    BY <1>5 DEF Navigate, Goes, SessionInv
  <2> QED
    BY <1>2, <2>1, <2>2, <2>3
<1>6. ASSUME NEW t \in Tabs, SubmitLogin(t) PROVE SessionInv'
  <2>1. PICK a \in Accounts :
          tabs' = [tabs EXCEPT ![t].logins = @ \cup {[account |-> a, shown |-> TRUE]}]
    BY <1>6 DEF SubmitLogin
  <2> DEFINE logins == tabs[t].logins \cup {[account |-> a, shown |-> TRUE]}
             tab == [tabs[t] EXCEPT !.logins = logins]
  <2>2. tab \in TabStates /\ tab.page = tabs[t].page /\ tab.path = tabs[t].path
        /\ tab.session = tabs[t].session
    <3>1. logins \in SUBSET Logins
      <4>1. [account |-> a, shown |-> TRUE] \in Logins
        BY DEF Logins
      <4> QED
        BY <1>3, <4>1
    <3> HIDE DEF logins
    <3> QED
      BY <1>3, <3>1 DEF TabStates
  <2>3. tabs' = [tabs EXCEPT ![t] = tab]
    BY <2>1
  <2> HIDE DEF tab
  <2>4. OfItsSession(tab)
    BY <1>3, <2>2 DEF OfItsSession
  <2>5. storedSession' \in StoredStates
    BY <1>6 DEF SubmitLogin, SessionInv
  <2> QED
    BY <1>2, <2>2, <2>3, <2>4, <2>5
<1>7. ASSUME NEW t \in Tabs, LoginAnswer(t) PROVE SessionInv'
  <2>1. PICK l \in tabs[t].logins :
          LET rest == [tabs[t] EXCEPT !.logins = @ \ {l}]
          IN \/ /\ tabs' = [tabs EXCEPT ![t] = SignedIn(rest, SessionOf(l.account))]
                /\ storedSession' = SessionOf(l.account)
             \/ tabs' = [tabs EXCEPT ![t] = rest] /\ UNCHANGED storedSession
    BY <1>7 DEF LoginAnswer
  <2> DEFINE rest == [tabs[t] EXCEPT !.logins = @ \ {l}]
  <2>2. rest \in TabStates /\ rest.page = tabs[t].page /\ rest.path = tabs[t].path
        /\ rest.session = tabs[t].session /\ rest.logins \in SUBSET Logins
    BY <1>3 DEF TabStates
  <2>3. SessionOf(l.account) \in StoredStates
    BY <1>3 DEF Logins, StoredStates
  <2>4. \/ /\ tabs' = [tabs EXCEPT ![t] = SignedIn(rest, SessionOf(l.account))]
           /\ storedSession' = SessionOf(l.account)
        \/ tabs' = [tabs EXCEPT ![t] = rest] /\ UNCHANGED storedSession
    BY <2>1
  <2> HIDE DEF rest
  <2>5. OfItsSession(rest)
    BY <1>3, <2>2 DEF OfItsSession
  <2>6. SignedIn(rest, SessionOf(l.account)) \in TabStates
        /\ OfItsSession(SignedIn(rest, SessionOf(l.account)))
    <3>1. "/" \notin ShellPaths
      BY DEF ShellPaths
    <3> QED
      BY <1>3, <2>2, <2>3, <3>1, WentFits DEF SignedIn
  <2> QED
    BY <1>2, <2>2, <2>3, <2>4, <2>5, <2>6 DEF SessionInv
<1>8. ASSUME NEW t \in Tabs, Logout(t) PROVE SessionInv'
  <2>1. tabs' = [tabs EXCEPT ![t] = Went(tabs[t], "/login", SignedOut)] /\ storedSession' = SignedOut
    BY <1>8 DEF Logout
  <2>2. SignedOut \in StoredStates /\ "/login" \in Paths /\ "/login" \notin ShellPaths
    BY DEF StoredStates, Paths, ShellPaths
  <2>3. Went(tabs[t], "/login", SignedOut) \in TabStates
        /\ OfItsSession(Went(tabs[t], "/login", SignedOut))
    BY <1>3, <2>2, WentFits
  <2> QED
    BY <1>2, <2>1, <2>2, <2>3
<1> QED
  BY <1>1, <1>4, <1>5, <1>6, <1>7, <1>8 DEF SessionNext
-----------------------------------------------------------------------------
(* Calls under way, of any kind.                                           *)

LEMMA SomeCallStarted ==
  ASSUME NEW Calls, Idle \notin Calls, NEW calls \in [CallIds -> Calls \cup {Idle}],
         NEW c \in CallIds, NEW call \in Calls
  PROVE  /\ Started(calls, c, call) \in [CallIds -> Calls \cup {Idle}]
         /\ call # Idle /\ Started(calls, c, call)[c] = call
         /\ \A x \in CallIds \ {c} : Started(calls, c, call)[x] = calls[x]
BY DEF Started

LEMMA SomeCallEnded ==
  ASSUME NEW Calls, NEW calls \in [CallIds -> Calls \cup {Idle}], NEW c \in CallIds
  PROVE  /\ Ended(calls, c) \in [CallIds -> Calls \cup {Idle}]
         /\ Ended(calls, c)[c] = Idle
         /\ \A x \in CallIds \ {c} : Ended(calls, c)[x] = calls[x]
BY DEF Ended

-----------------------------------------------------------------------------
(* The page of CDN operations.                                             *)

\* What the text area and the chosen directory can make of an input.
InputOf(op) ==
  IF op = "directory"
    THEN {{}, {LineFor["directory"]}, {Candidate}, {LineFor["directory"], Candidate}}
    ELSE {{}, {LineFor[op]}}

InputsOfTheirOperation == \A op \in Operations : operationInputs[op] \in InputOf(op)

CDNInv == CDNTypeOK /\ InputsOfTheirOperation /\ OperationsKeptApart /\ CDNNeverStuck

FormOfCdn ==
  /\ DOMAIN cdnForm = {"cdn", "bucket"} /\ activeOperation \in Operations
  /\ operationInputs \in [Operations -> Texts] /\ formInput \in Texts
  /\ InputsOfTheirOperation /\ OperationsKeptApart

SelectionOfCdn ==
  /\ queried \in Projects \cup {None} /\ cdnAdmin \in BOOLEAN
  /\ cdnProjects \in SUBSET Projects
  /\ {cdnSelected, contextOf} \subseteq Projects \cup {None}
  /\ {directoryOptions, selectedDirectory, optionsLoading, bindingsLoading, operationSubmitting, directoryLoading}
       \subseteq BOOLEAN
  /\ cdnCalls \in [CallIds -> CdnCalls \cup {Idle}]

CdnWaits(ops) == \E c \in CallIds : cdnCalls[c] # Idle /\ cdnCalls[c].op \in ops

CdnSpinners ==
  /\ optionsLoading => CdnWaits({"options", "bootstrap"})
  /\ bindingsLoading => CdnWaits({"context"})
  /\ operationSubmitting => CdnWaits(Operations)
  /\ directoryLoading => CdnWaits({"directories"})

LEMMA CDNInvDef == CDNInv <=> FormOfCdn /\ SelectionOfCdn /\ CdnSpinners
BY DEF CDNInv, CDNTypeOK, FormOfCdn, SelectionOfCdn, CdnSpinners, CdnWaits, CDNNeverStuck, CdnAsked

LEMMA InputsAreTexts ==
  ASSUME NEW op \in Operations, NEW input \in InputOf(op) PROVE input \in Texts
<1>1. ASSUME NEW some \in Operations PROVE {} \in Texts /\ {LineFor[some]} \in Texts
  BY <1>1 DEF Texts
<1>2. {Candidate} \in Texts /\ {LineFor["directory"], Candidate} \in Texts
  BY DEF Texts
<1>3. "directory" \in Operations
  BY DEF Operations
<1> QED
  BY <1>1, <1>2, <1>3 DEF InputOf

LEMMA CDNInitInv == CDNInit => CDNInv
<1> SUFFICES ASSUME CDNInit PROVE FormOfCdn /\ SelectionOfCdn /\ CdnSpinners
  BY CDNInvDef
<1>1. FormOfCdn
  <2>1. {} \in Texts /\ \A op \in Operations : {} \in InputOf(op)
    BY DEF Texts, InputOf
  <2> QED
    BY <2>1 DEF CDNInit, FormOfCdn, NoBindings, Operations, InputsOfTheirOperation, OperationsKeptApart
<1>2. PICK c \in CallIds, d \in CallIds :
        /\ c # d
        /\ LET first == Started(NoCalls, c, CdnCall("options", None))
           IN cdnCalls = IF queried = None THEN first
                         ELSE Started(first, d, CdnCall("bootstrap", queried))
  BY DEF CDNInit
<1> DEFINE first == Started(NoCalls, c, CdnCall("options", None))
<1>3. cdnCalls = IF queried = None THEN first ELSE Started(first, d, CdnCall("bootstrap", queried))
  BY <1>2
<1>4. queried \in Projects \cup {None}
  BY VisitAssumption DEF CDNInit
<1>5. /\ CdnCall("options", None) \in CdnCalls /\ CdnCall("options", None).op = "options"
      /\ CdnCall("bootstrap", queried) \in CdnCalls
  BY <1>4 DEF CdnCall, CdnCalls
<1>6. NoCalls \in [CallIds -> CdnCalls \cup {Idle}]
  BY DEF NoCalls
<1>7. /\ first \in [CallIds -> CdnCalls \cup {Idle}]
      /\ first[c] = CdnCall("options", None) /\ first[c] # Idle
  BY <1>5, <1>6, SomeCallStarted, CdnCallsAssumption
<1> HIDE DEF first
<1>8. /\ cdnCalls \in [CallIds -> CdnCalls \cup {Idle}]
      /\ cdnCalls[c] # Idle /\ cdnCalls[c].op = "options"
  <2>1. CASE queried = None
    BY <1>3, <1>5, <1>7, <2>1
  <2>2. CASE queried # None
    <3>1. /\ Started(first, d, CdnCall("bootstrap", queried)) \in [CallIds -> CdnCalls \cup {Idle}]
          /\ \A x \in CallIds \ {d} : Started(first, d, CdnCall("bootstrap", queried))[x] = first[x]
      BY <1>5, <1>7, SomeCallStarted, CdnCallsAssumption
    <3> QED
      BY <1>2, <1>3, <1>5, <1>7, <2>2, <3>1
  <2> QED
    BY <2>1, <2>2
<1>9. SelectionOfCdn
  BY <1>4, <1>8, VisitAssumption DEF CDNInit, SelectionOfCdn
<1> QED
  BY <1>1, <1>8, <1>9 DEF CdnSpinners, CdnWaits, CDNInit

\* Without a change of its fields the form keeps them.
LEMMA CdnFormKept ==
  ASSUME FormOfCdn, UNCHANGED <<activeOperation, operationInputs, formInput>>,
         DOMAIN cdnForm' = {"cdn", "bucket"}
  PROVE  FormOfCdn'
BY DEF FormOfCdn, InputsOfTheirOperation, OperationsKeptApart

LEMMA CDNStepInv == CDNInv /\ [CDNNext]_cdnVars => CDNInv'
<1> SUFFICES ASSUME FormOfCdn, SelectionOfCdn, CdnSpinners, [CDNNext]_cdnVars
             PROVE  FormOfCdn' /\ SelectionOfCdn' /\ CdnSpinners'
  BY CDNInvDef
  DEF CDNInv, CDNTypeOK, FormOfCdn, SelectionOfCdn, CdnSpinners, CdnWaits, CDNNeverStuck, CdnAsked
<1>1. CASE UNCHANGED cdnVars
  BY <1>1, CdnFormKept DEF cdnVars, FormOfCdn, SelectionOfCdn, CdnSpinners, CdnWaits
<1>2. DOMAIN cdnForm = {"cdn", "bucket"}
  BY DEF FormOfCdn
<1>3. CASE SelectBinding
  <2>1. DOMAIN cdnForm' = {"cdn", "bucket"}
    BY <1>2, <1>3 DEF SelectBinding
  <2> QED
    BY <1>3, <2>1, CdnFormKept
    DEF SelectBinding, SelectionOfCdn, CdnSpinners, CdnWaits, CdnFixed, InputsUnchanged, TasksUnchanged,
        CandidatesUnchanged
<1>4. CASE SwitchOperation
  <2>1. activeOperation' \in Operations /\ formInput' = operationInputs[activeOperation']
        /\ UNCHANGED <<operationInputs, cdnForm>>
    BY <1>4 DEF SwitchOperation, ShowInput, SelectionUnchanged
  <2>2. FormOfCdn'
    BY <2>1 DEF FormOfCdn, InputsOfTheirOperation, OperationsKeptApart
  <2> QED
    BY <1>4, <2>2
    DEF SwitchOperation, SelectionOfCdn, CdnSpinners, CdnWaits, CdnFixed, SelectionUnchanged,
        TasksUnchanged, CandidatesUnchanged
<1>5. ASSUME NEW op \in Operations, op = activeOperation, NEW input \in InputOf(op),
             operationInputs' = [operationInputs EXCEPT ![op] = input],
             formInput' = input, UNCHANGED <<activeOperation, cdnForm>>
      PROVE  FormOfCdn'
  <2>1. input \in Texts
    BY InputsAreTexts
  <2>2. operationInputs' \in [Operations -> Texts]
        /\ \A x \in Operations : operationInputs'[x] = IF x = op THEN input ELSE operationInputs[x]
    BY <1>5, <2>1 DEF FormOfCdn
  <2> QED
    BY <1>5, <2>1, <2>2 DEF FormOfCdn, InputsOfTheirOperation, OperationsKeptApart
<1>6. CASE TypeInput
  <2>1. PICK typed \in {{}, {LineFor[activeOperation]}} :
          formInput' = typed /\ operationInputs' = [operationInputs EXCEPT ![activeOperation] = typed]
    BY <1>6 DEF TypeInput
  <2>2. activeOperation \in Operations /\ typed \in InputOf(activeOperation)
    BY DEF FormOfCdn, InputOf
  <2>3. FormOfCdn'
    BY <1>5, <1>6, <2>1, <2>2 DEF TypeInput, SelectionUnchanged
  <2> QED
    BY <1>6, <2>3
    DEF TypeInput, SelectionOfCdn, CdnSpinners, CdnWaits, CdnFixed, SelectionUnchanged,
        TasksUnchanged, CandidatesUnchanged
<1>7. CASE AppendSelectedDirectory
  <2> DEFINE next == operationInputs["directory"] \cup {Candidate}
  <2>1. next \in InputOf("directory")
    <3>1. operationInputs["directory"] \in InputOf("directory")
      BY DEF FormOfCdn, InputsOfTheirOperation, Operations
    <3> QED
      BY <3>1 DEF InputOf
  <2>2. activeOperation = "directory" /\ "directory" \in Operations
        /\ operationInputs' = [operationInputs EXCEPT !["directory"] = next] /\ formInput' = next
    BY <1>7 DEF AppendSelectedDirectory, Operations
  <2> HIDE DEF next
  <2>3. FormOfCdn'
    BY <1>5, <1>7, <2>1, <2>2 DEF AppendSelectedDirectory, SelectionUnchanged
  <2> QED
    BY <1>7, <2>3
    DEF AppendSelectedDirectory, SelectionOfCdn, CdnSpinners, CdnWaits, CdnFixed, SelectionUnchanged,
        TasksUnchanged, CandidatesUnchanged
<1>8. CASE ChooseDirectory
  BY <1>2, <1>8, CdnFormKept
  DEF ChooseDirectory, SelectionOfCdn, CdnSpinners, CdnWaits, CdnFixed, SelectionUnchanged,
      InputsUnchanged, TasksUnchanged
<1>9. ASSUME NEW c \in CallIds, NEW call \in CdnCalls, cdnCalls' = Started(cdnCalls, c, call)
      PROVE  /\ cdnCalls' \in [CallIds -> CdnCalls \cup {Idle}]
             /\ cdnCalls'[c] = call /\ call # Idle
             /\ \A x \in CallIds \ {c} : cdnCalls'[x] = cdnCalls[x]
  BY <1>9, SomeCallStarted, CdnCallsAssumption DEF SelectionOfCdn
<1>10. ASSUME NEW c \in CallIds, cdnCalls' = Ended(cdnCalls, c)
       PROVE  /\ cdnCalls' \in [CallIds -> CdnCalls \cup {Idle}]
              /\ cdnCalls'[c] = Idle /\ \A x \in CallIds \ {c} : cdnCalls'[x] = cdnCalls[x]
  BY <1>10, SomeCallEnded DEF SelectionOfCdn
<1>11. ASSUME NEW c \in CallIds, NEW p \in Projects, LoadBindings(c, p, cdnCalls)
       PROVE  /\ cdnSelected' \in Projects /\ bindingsLoading' = TRUE /\ UNCHANGED <<contextOf, cdnForm>>
              /\ cdnCalls' \in [CallIds -> CdnCalls \cup {Idle}]
              /\ cdnCalls'[c] # Idle /\ cdnCalls'[c].op = "context"
              /\ \A x \in CallIds \ {c} : cdnCalls'[x] = cdnCalls[x]
  <2>1. CdnCall("context", p) \in CdnCalls /\ CdnCall("context", p).op = "context"
    BY DEF CdnCall, CdnCalls
  <2> QED
    BY <1>9, <1>11, <2>1 DEF LoadBindings
<1>12. ASSUME NEW c \in CallIds, OptionsAnswer(c) PROVE FormOfCdn' /\ SelectionOfCdn' /\ CdnSpinners'
  <2>1. /\ cdnCalls[c] # Idle /\ cdnCalls[c].op \in {"options", "bootstrap"}
        /\ optionsLoading' = FALSE
        /\ UNCHANGED <<queried, cdnAdmin, activeOperation, operationInputs, formInput,
                       operationSubmitting, directoryOptions, selectedDirectory, directoryLoading>>
    BY <1>12 DEF OptionsAnswer, CdnAsked, CdnFixed, InputsUnchanged, TasksUnchanged, CandidatesUnchanged
  <2>2. PICK items \in {{}, DOMAIN ContextOf} :
          /\ cdnProjects' = items
          /\ IF cdnCalls[c].op = "bootstrap" /\ cdnCalls[c].of \in items
               THEN LoadBindings(c, cdnCalls[c].of, cdnCalls)
               ELSE /\ cdnCalls' = Ended(cdnCalls, c)
                    /\ UNCHANGED <<cdnSelected, contextOf, cdnForm, bindingsLoading>>
    BY <1>12 DEF OptionsAnswer
  <2>3. items \subseteq Projects
    BY ContextAssumption
  <2>4. CASE cdnCalls[c].op = "bootstrap" /\ cdnCalls[c].of \in items
    <3>1. cdnCalls[c].of \in Projects /\ LoadBindings(c, cdnCalls[c].of, cdnCalls)
      BY <2>2, <2>3, <2>4
    <3>2. /\ cdnSelected' \in Projects /\ bindingsLoading' = TRUE /\ UNCHANGED <<contextOf, cdnForm>>
          /\ cdnCalls' \in [CallIds -> CdnCalls \cup {Idle}]
          /\ cdnCalls'[c] # Idle /\ cdnCalls'[c].op = "context"
          /\ \A x \in CallIds \ {c} : cdnCalls'[x] = cdnCalls[x]
      BY <1>11, <3>1
    <3>3. CdnSpinners'
      BY <2>1, <3>2 DEF CdnSpinners, CdnWaits, Operations
    <3> QED
      BY <1>2, <2>1, <2>2, <2>3, <3>2, <3>3, CdnFormKept DEF SelectionOfCdn
  <2>5. CASE ~(cdnCalls[c].op = "bootstrap" /\ cdnCalls[c].of \in items)
    <3>1. CdnSpinners'
      BY <1>10, <2>1, <2>2, <2>5 DEF CdnSpinners, CdnWaits, Operations
    <3> QED
      BY <1>2, <1>10, <2>1, <2>2, <2>3, <2>5, <3>1, CdnFormKept DEF SelectionOfCdn
  <2> QED
    BY <2>4, <2>5
<1>13. ASSUME NEW c \in CallIds, SelectCdnProject(c) PROVE FormOfCdn' /\ SelectionOfCdn' /\ CdnSpinners'
  <2>1. PICK p \in cdnProjects : LoadBindings(c, p, cdnCalls)
    BY <1>13 DEF SelectCdnProject
  <2>2. /\ cdnSelected' \in Projects /\ bindingsLoading' = TRUE /\ UNCHANGED <<contextOf, cdnForm>>
        /\ cdnCalls' \in [CallIds -> CdnCalls \cup {Idle}]
        /\ cdnCalls'[c] # Idle /\ cdnCalls'[c].op = "context"
        /\ \A x \in CallIds \ {c} : cdnCalls'[x] = cdnCalls[x]
    BY <1>11, <2>1 DEF SelectionOfCdn
  <2>3. /\ cdnCalls[c] = Idle
        /\ UNCHANGED <<queried, cdnAdmin, activeOperation, operationInputs, formInput, cdnProjects,
                       optionsLoading, operationSubmitting, directoryOptions, selectedDirectory,
                       directoryLoading>>
    BY <1>13 DEF SelectCdnProject, CdnFixed, InputsUnchanged, TasksUnchanged, CandidatesUnchanged
  <2>4. CdnSpinners'
    BY <2>2, <2>3 DEF CdnSpinners, CdnWaits
  <2> QED
    BY <1>2, <2>2, <2>3, <2>4, CdnFormKept DEF SelectionOfCdn
<1>14. ASSUME NEW c \in CallIds, CdnContextAnswer(c) PROVE FormOfCdn' /\ SelectionOfCdn' /\ CdnSpinners'
  <2>1. /\ cdnCalls[c] # Idle /\ cdnCalls[c].op = "context" /\ cdnCalls' = Ended(cdnCalls, c)
        /\ directoryOptions' = FALSE /\ selectedDirectory' = FALSE /\ bindingsLoading' = FALSE
        /\ UNCHANGED <<queried, cdnAdmin, activeOperation, operationInputs, formInput, cdnProjects,
                       cdnSelected, optionsLoading, operationSubmitting, directoryLoading>>
    BY <1>14 DEF CdnContextAnswer, CdnAsked, CdnFixed, InputsUnchanged, TasksUnchanged
  <2>2. cdnCalls[c].of \in Projects \cup {None}
    BY <2>1 DEF SelectionOfCdn, CdnCalls
  <2>3. contextOf' \in Projects \cup {None} /\ DOMAIN cdnForm' = {"cdn", "bucket"}
    BY <1>14, <2>2 DEF CdnContextAnswer, NoBindings
  <2>4. CdnSpinners'
    BY <1>10, <2>1 DEF CdnSpinners, CdnWaits, Operations
  <2> QED
    BY <1>10, <2>1, <2>3, <2>4, CdnFormKept DEF SelectionOfCdn
<1>15. ASSUME NEW c \in CallIds, SubmitOperation(c) PROVE FormOfCdn' /\ SelectionOfCdn' /\ CdnSpinners'
  <2>1. /\ cdnCalls[c] = Idle /\ cdnCalls' = Started(cdnCalls, c, CdnCall(activeOperation, cdnSelected))
        /\ operationSubmitting' = TRUE
        /\ UNCHANGED <<queried, cdnAdmin, cdnProjects, cdnSelected, contextOf, cdnForm, optionsLoading,
                       bindingsLoading, activeOperation, operationInputs, formInput, directoryOptions,
                       selectedDirectory, directoryLoading>>
    BY <1>15 DEF SubmitOperation, CdnFixed, SelectionUnchanged, InputsUnchanged, CandidatesUnchanged
  <2>2. CdnCall(activeOperation, cdnSelected) \in CdnCalls
        /\ CdnCall(activeOperation, cdnSelected).op \in Operations
    BY DEF CdnCall, CdnCalls, SelectionOfCdn, FormOfCdn
  <2>3. CdnSpinners'
    BY <1>9, <2>1, <2>2 DEF CdnSpinners, CdnWaits
  <2> QED
    BY <1>2, <1>9, <2>1, <2>2, <2>3, CdnFormKept DEF SelectionOfCdn
<1>16. ASSUME NEW c \in CallIds, OperationAnswer(c) PROVE FormOfCdn' /\ SelectionOfCdn' /\ CdnSpinners'
  <2>1. /\ cdnCalls[c] # Idle /\ cdnCalls[c].op \in Operations /\ cdnCalls' = Ended(cdnCalls, c)
        /\ operationSubmitting' = FALSE
        /\ UNCHANGED <<queried, cdnAdmin, cdnProjects, cdnSelected, contextOf, cdnForm, optionsLoading,
                       bindingsLoading, activeOperation, operationInputs, formInput, directoryOptions,
                       selectedDirectory, directoryLoading>>
    BY <1>16 DEF OperationAnswer, CdnAsked, CdnFixed, SelectionUnchanged, InputsUnchanged,
                 CandidatesUnchanged
  <2>2. CdnSpinners'
    BY <1>10, <2>1 DEF CdnSpinners, CdnWaits, Operations
  <2> QED
    BY <1>2, <1>10, <2>1, <2>2, CdnFormKept DEF SelectionOfCdn
<1>17. ASSUME NEW c \in CallIds, QueryDirectories(c) PROVE FormOfCdn' /\ SelectionOfCdn' /\ CdnSpinners'
  <2>1. /\ cdnCalls[c] = Idle /\ cdnCalls' = Started(cdnCalls, c, CdnCall("directories", cdnSelected))
        /\ directoryLoading' = TRUE
        /\ UNCHANGED <<queried, cdnAdmin, cdnProjects, cdnSelected, contextOf, cdnForm, optionsLoading,
                       bindingsLoading, activeOperation, operationInputs, formInput, directoryOptions,
                       selectedDirectory, operationSubmitting>>
    BY <1>17 DEF QueryDirectories, CdnFixed, SelectionUnchanged, InputsUnchanged, TasksUnchanged
  <2>2. CdnCall("directories", cdnSelected) \in CdnCalls
        /\ CdnCall("directories", cdnSelected).op = "directories"
    BY DEF CdnCall, CdnCalls, SelectionOfCdn
  <2>3. CdnSpinners'
    BY <1>9, <2>1, <2>2 DEF CdnSpinners, CdnWaits
  <2> QED
    BY <1>2, <1>9, <2>1, <2>2, <2>3, CdnFormKept DEF SelectionOfCdn
<1>18. ASSUME NEW c \in CallIds, DirectoriesAnswer(c) PROVE FormOfCdn' /\ SelectionOfCdn' /\ CdnSpinners'
  <2>1. /\ cdnCalls[c] # Idle /\ cdnCalls[c].op = "directories" /\ cdnCalls' = Ended(cdnCalls, c)
        /\ directoryOptions' \in BOOLEAN /\ selectedDirectory' = FALSE /\ directoryLoading' = FALSE
        /\ UNCHANGED <<queried, cdnAdmin, cdnProjects, cdnSelected, contextOf, cdnForm, optionsLoading,
                       bindingsLoading, activeOperation, operationInputs, formInput,
                       operationSubmitting>>
    BY <1>18 DEF DirectoriesAnswer, CdnAsked, CdnFixed, SelectionUnchanged, InputsUnchanged,
                 TasksUnchanged
  <2>2. CdnSpinners'
    BY <1>10, <2>1 DEF CdnSpinners, CdnWaits, Operations
  <2> QED
    BY <1>2, <1>10, <2>1, <2>2, CdnFormKept DEF SelectionOfCdn
<1> QED
  BY <1>1, <1>3, <1>4, <1>6, <1>7, <1>8, <1>12, <1>13, <1>14, <1>15, <1>16, <1>17, <1>18 DEF CDNNext
-----------------------------------------------------------------------------
(* The page of audit queries.                                              *)

\* Options are asked for of a project.
AuditCallsFit(calls) ==
  calls \subseteq AuditCalls /\ \A call \in calls : call.op = "options" => call.project \in Projects

OptionSpinners(calls, ofPlatform, ofProject) ==
  /\ ofPlatform => \E call \in calls : call.op = "platform"
  /\ ofProject => \E call \in calls : call.op = "options"

\* While a query is under way the page knows, so that there is one at most.
QuerySpinner(calls, loading, pending) ==
  /\ loading \/ pending => \E call \in calls : call.op = "query"
  /\ ~loading => \A call \in calls : call.op # "query"
  /\ \A x, y \in calls : x.op = "query" /\ y.op = "query" => x = y

QueryPage ==
  /\ auditAdmin \in BOOLEAN /\ auditLink \in AuditLinks /\ queryForm \in QueryForms
  /\ platformActions \subseteq AuditActions /\ projectActions \subseteq AuditActions
  /\ auditProjects \subseteq Projects
  /\ {platformOptionsLoading, projectOptionsLoading, queryLoading, pendingAutoQuery, auditLogs} \subseteq BOOLEAN

AuditsInv ==
  /\ QueryPage /\ AuditCallsFit(auditCalls)
  /\ OptionSpinners(auditCalls, platformOptionsLoading, projectOptionsLoading)
  /\ QuerySpinner(auditCalls, queryLoading, pendingAutoQuery)

LEMMA AuditsInvImplies == AuditsInv => AuditsTypeOK /\ QueriesInTurn /\ AuditsNeverStuck
<1> SUFFICES ASSUME AuditsInv PROVE AuditsTypeOK /\ QueriesInTurn /\ AuditsNeverStuck
  OBVIOUS
<1>1. AuditsTypeOK
  BY DEF AuditsInv, QueryPage, AuditCallsFit, AuditsTypeOK
<1>2. AuditsNeverStuck
  BY DEF AuditsInv, OptionSpinners, QuerySpinner, AuditsNeverStuck, UnderWay
<1>3. QueriesInTurn
  <2>1. CASE UnderWay("query") = {}
    BY <2>1, FS_EmptySet DEF QueriesInTurn
  <2>2. CASE UnderWay("query") # {}
    <3>1. PICK x \in UnderWay("query") : TRUE
      BY <2>2
    <3>2. UnderWay("query") = {x}
      BY <3>1 DEF UnderWay, AuditsInv, QuerySpinner
    <3> QED
      BY <3>2, FS_Singleton DEF QueriesInTurn
  <2> QED
    BY <2>1, <2>2
<1> QED
  BY <1>1, <1>2, <1>3

LEMMA OptionCallsFit ==
  ASSUME NEW from, NEW to \in QueryForms
  PROVE  /\ AuditCallsFit(OptionCalls(from, to))
         /\ \A call \in OptionCalls(from, to) : call.op # "query"
<1> DEFINE entered == {scope \in Scopes : to.scope = scope /\ from.scope # scope}
<1>1. ASSUME NEW call \in OptionCalls(from, to)
      PROVE  \/ call \in {AuditCall("platform", None), AuditCall("list", None)}
             \/ \E p \in Projects : call = AuditCall("options", p)
  BY <1>1 DEF OptionCalls
<1>2. ASSUME NEW op \in {"platform", "list", "options"}, NEW p \in Projects \cup {None}
      PROVE  AuditCall(op, p) \in AuditCalls /\ AuditCall(op, p).op = op
             /\ AuditCall(op, p).project = p
  BY <1>2 DEF AuditCall, AuditCalls, Scopes
<1>3. ASSUME NEW call \in OptionCalls(from, to)
      PROVE  call \in AuditCalls /\ call.op # "query"
             /\ (call.op = "options" => call.project \in Projects)
  <2>1. CASE call \in {AuditCall("platform", None), AuditCall("list", None)}
    BY <1>2, <2>1
  <2>2. ASSUME NEW p \in Projects, call = AuditCall("options", p)
        PROVE  call \in AuditCalls /\ call.op = "options" /\ call.project = p
    BY <1>2, <2>2
  <2> QED
    BY <1>1, <1>3, <2>1, <2>2
<1> QED
  BY <1>3 DEF AuditCallsFit

\* The form changes with what it has to load.
LEMMA Changing ==
  ASSUME QueryPage, OptionSpinners(auditCalls, platformOptionsLoading, projectOptionsLoading),
         NEW form \in QueryForms, Changed(form),
         NEW calls, auditCalls \cup OptionCalls(queryForm, form) \subseteq calls
  PROVE  /\ queryForm' = form /\ {platformOptionsLoading', projectOptionsLoading'} \subseteq BOOLEAN
         /\ OptionSpinners(calls, platformOptionsLoading', projectOptionsLoading')
<1>1. /\ queryForm' = form
      /\ platformOptionsLoading' =
           (platformOptionsLoading \/ AuditCall("platform", None) \in OptionCalls(queryForm, form))
      /\ projectOptionsLoading' =
           (projectOptionsLoading \/ \E call \in OptionCalls(queryForm, form) : call.op = "options")
  BY DEF Changed
<1>2. AuditCall("platform", None).op = "platform"
  BY DEF AuditCall
<1>3. {platformOptionsLoading', projectOptionsLoading'} \subseteq BOOLEAN
  BY <1>1 DEF QueryPage
<1>4. OptionSpinners(calls, platformOptionsLoading', projectOptionsLoading')
  BY <1>1, <1>2 DEF OptionSpinners
<1> QED
  BY <1>1, <1>3, <1>4

\* A query that starts when none is under way is the only one.
LEMMA Querying ==
  ASSUME projectActions \subseteq AuditActions, platformActions \subseteq AuditActions,
         NEW calls, AuditCallsFit(calls), \A call \in calls : call.op # "query",
         NEW form \in QueryForms, Queried(form, calls)
  PROVE  /\ AuditCallsFit(auditCalls') /\ calls \subseteq auditCalls' /\ queryLoading' \in BOOLEAN
         /\ QuerySpinner(auditCalls', queryLoading', FALSE)
<1> DEFINE query == Query(form, IF form.scope = "project" THEN projectActions ELSE platformActions)
           valid == form.scope = "project" => form.project # None
<1>1. query \in AuditCalls /\ query.op = "query"
  <2>1. NormalizeSelect(form.action, IF form.scope = "project" THEN projectActions ELSE platformActions)
          \in AuditActions \cup {None}
    BY DEF NormalizeSelect, QueryForms
  <2> QED
    BY <2>1 DEF Query, QueryForms, AuditCalls
<1>2. queryLoading' = valid /\ auditCalls' = IF valid THEN calls \cup {query} ELSE calls
  BY DEF Queried
<1>3. valid \in BOOLEAN
  OBVIOUS
<1> HIDE DEF query, valid
<1> QED
  BY <1>1, <1>2, <1>3 DEF AuditCallsFit, QuerySpinner

LEMMA LinkedForm ==
  ASSUME auditAdmin \in BOOLEAN, NEW form \in QueryForms, NEW link \in AuditLinks
  PROVE  ApplyLink(form, link) \in QueryForms /\ AutoQuery(link) \in BOOLEAN
<1>1. /\ link.scope \in Scopes \cup {""} /\ link.project \in Projects \cup {None}
      /\ link.action \in AuditActions \cup {None} /\ link.auto \in BOOLEAN
  BY LinksAssumption DEF SearchParams
<1>2. ParsedScope(link, auditAdmin) \in Scopes
  BY <1>1 DEF ParsedScope, Scopes
<1> QED
  BY <1>1, <1>2 DEF ApplyLink, QueryForms, AutoQuery

LEMMA AuditsInitInv == AuditsInit => AuditsInv
<1> SUFFICES ASSUME AuditsInit PROVE AuditsInv
  OBVIOUS
<1> DEFINE empty == [scope |-> IF auditAdmin THEN "platform" ELSE "project", project |-> None,
                     action |-> None]
           form == ApplyLink(empty, auditLink)
           opened == OptionCalls(NoOne, empty) \cup OptionCalls(empty, form)
           query == Query(form, {})
           auto == AutoQuery(auditLink)
<1>1. /\ queryForm = form
      /\ platformOptionsLoading = (AuditCall("platform", None) \in opened)
      /\ projectOptionsLoading = (\E call \in opened : call.op = "options")
      /\ queryLoading = auto
      /\ auditCalls = IF auto THEN opened \cup {query} ELSE opened
  BY DEF AuditsInit
<1>2. /\ auditAdmin \in BOOLEAN /\ auditLink \in AuditLinks
      /\ pendingAutoQuery = FALSE /\ auditLogs = FALSE
      /\ platformActions = {} /\ projectActions = {} /\ auditProjects = {}
  BY DEF AuditsInit
<1>3. empty \in QueryForms
  BY DEF QueryForms, Scopes
<1> HIDE DEF empty
<1>4. form \in QueryForms /\ auto \in BOOLEAN
  BY <1>2, <1>3, LinkedForm
<1> HIDE DEF form, auto
<1>5. AuditCallsFit(opened) /\ \A call \in opened : call.op # "query"
  BY <1>3, <1>4, OptionCallsFit DEF AuditCallsFit
<1>6. query \in AuditCalls /\ query.op = "query"
  <2>1. NormalizeSelect(form.action, {}) \in AuditActions \cup {None}
    BY <1>4 DEF NormalizeSelect, QueryForms
  <2> QED
    BY <1>4, <2>1 DEF Query, QueryForms, AuditCalls
<1>7. AuditCall("platform", None).op = "platform"
  BY DEF AuditCall
<1> HIDE DEF opened, query
<1>8. AuditCallsFit(auditCalls)
  BY <1>1, <1>5, <1>6 DEF AuditCallsFit
<1>9. OptionSpinners(auditCalls, platformOptionsLoading, projectOptionsLoading)
  BY <1>1, <1>7 DEF OptionSpinners
<1>10. QuerySpinner(auditCalls, queryLoading, pendingAutoQuery)
  BY <1>1, <1>2, <1>4, <1>5, <1>6 DEF QuerySpinner
<1>11. QueryPage
  <2>1. /\ platformOptionsLoading \in BOOLEAN /\ projectOptionsLoading \in BOOLEAN
        /\ queryLoading \in BOOLEAN
    BY <1>1, <1>4
  <2> QED
    BY <1>1, <1>2, <1>4, <2>1 DEF QueryPage
<1> QED
  BY <1>8, <1>9, <1>10, <1>11 DEF AuditsInv

LEMMA AuditsStepInv == AuditsInv /\ [AuditsNext]_auditsVars => AuditsInv'
<1> SUFFICES ASSUME AuditsInv, [AuditsNext]_auditsVars
             PROVE  /\ QueryPage' /\ AuditCallsFit(auditCalls')
                    /\ OptionSpinners(auditCalls', platformOptionsLoading', projectOptionsLoading')
                    /\ QuerySpinner(auditCalls', queryLoading', pendingAutoQuery')
  BY DEF AuditsInv, AuditCallsFit, OptionSpinners, QuerySpinner
<1>1. /\ QueryPage /\ AuditCallsFit(auditCalls)
      /\ OptionSpinners(auditCalls, platformOptionsLoading, projectOptionsLoading)
      /\ QuerySpinner(auditCalls, queryLoading, pendingAutoQuery)
  BY DEF AuditsInv
<1>2. CASE UNCHANGED auditsVars
  BY <1>1, <1>2 DEF auditsVars, QueryPage
<1>3. CASE FollowLink
  <2> DEFINE form == ApplyLink(queryForm, auditLink')
             calls == auditCalls \cup OptionCalls(queryForm, form)
             asks == pendingAutoQuery \/ AutoQuery(auditLink')
  <2>1. /\ auditLink' \in AuditLinks /\ Changed(form)
        /\ IF asks /\ MayQuery(queryLoading)
             THEN Queried(form, calls) /\ pendingAutoQuery' = FALSE
             ELSE auditCalls' = calls /\ pendingAutoQuery' = asks /\ UNCHANGED queryLoading
        /\ UNCHANGED <<auditAdmin, platformActions, projectActions, auditProjects, auditLogs>>
    BY <1>3 DEF FollowLink
  <2>2. form \in QueryForms /\ asks \in BOOLEAN
    BY <1>1, <2>1, LinkedForm DEF QueryPage
  <2> HIDE DEF form, asks
  <2>3. /\ AuditCallsFit(calls)
        /\ \A call \in calls : call.op = "query" => call \in auditCalls
    BY <1>1, <2>2, OptionCallsFit DEF AuditCallsFit
  <2>4. auditCalls \cup OptionCalls(queryForm, form) \subseteq calls
    OBVIOUS
  <2> HIDE DEF calls
  <2>5. CASE asks /\ MayQuery(queryLoading)
    <3>1. \A call \in calls : call.op # "query"
      BY <1>1, <2>3, <2>5 DEF MayQuery, QuerySpinner
    <3>2. /\ AuditCallsFit(auditCalls') /\ calls \subseteq auditCalls' /\ queryLoading' \in BOOLEAN
          /\ QuerySpinner(auditCalls', queryLoading', FALSE)
      BY <1>1, <2>1, <2>2, <2>3, <2>5, <3>1, Querying DEF QueryPage
    <3>3. /\ queryForm' = form /\ {platformOptionsLoading', projectOptionsLoading'} \subseteq BOOLEAN
          /\ OptionSpinners(auditCalls', platformOptionsLoading', projectOptionsLoading')
      BY <1>1, <2>1, <2>2, <2>4, <3>2, Changing
    <3> QED
      BY <1>1, <2>1, <2>2, <2>5, <3>2, <3>3 DEF QueryPage
  <2>6. CASE ~(asks /\ MayQuery(queryLoading))
    <3>1. auditCalls' = calls /\ pendingAutoQuery' = asks /\ queryLoading' = queryLoading
      BY <2>1, <2>6
    <3>2. /\ queryForm' = form /\ {platformOptionsLoading', projectOptionsLoading'} \subseteq BOOLEAN
          /\ OptionSpinners(auditCalls', platformOptionsLoading', projectOptionsLoading')
      BY <1>1, <2>1, <2>2, <2>4, <3>1, Changing
    <3>3. QuerySpinner(auditCalls', queryLoading', pendingAutoQuery')
      <4>1. asks => queryLoading
        BY <2>6 DEF MayQuery
      <4>2. auditCalls \subseteq calls
        BY <2>4
      <4> QED
        BY <1>1, <2>3, <3>1, <4>1, <4>2 DEF QuerySpinner
    <3> QED
      BY <1>1, <2>1, <2>2, <2>3, <3>1, <3>2, <3>3 DEF QueryPage
  <2> QED
    BY <2>5, <2>6
<1>4. CASE EditQuery
  <2>1. \E form \in QueryForms : Changed(form) /\ projectActions' \in {projectActions, {}}
    <3>1. ASSUME NEW scope \in Scopes, Changed([queryForm EXCEPT !.scope = scope])
          PROVE  [queryForm EXCEPT !.scope = scope] \in QueryForms
      BY <1>1 DEF QueryPage, QueryForms
    <3>2. ASSUME NEW p \in auditProjects \cup {None}
          PROVE  [queryForm EXCEPT !.project = p, !.action = None] \in QueryForms
      BY <1>1, <3>2 DEF QueryPage, QueryForms
    <3>3. ASSUME NEW action \in (IF queryForm.scope = "project" THEN projectActions ELSE platformActions) \cup {None}
          PROVE  [queryForm EXCEPT !.action = action] \in QueryForms
      BY <1>1, <3>3 DEF QueryPage, QueryForms
    <3> QED
      BY <1>4, <3>1, <3>2, <3>3 DEF EditQuery
  <2>2. PICK form \in QueryForms : Changed(form) /\ projectActions' \in {projectActions, {}}
    BY <2>1
  <2>3. /\ auditCalls' = auditCalls \cup OptionCalls(queryForm, form)
        /\ UNCHANGED <<queryLoading, pendingAutoQuery, auditLogs, auditAdmin, auditLink,
                       platformActions, auditProjects>>
    BY <1>4, <2>2 DEF EditQuery, QueryUnchanged, Changed
  <2>4. /\ AuditCallsFit(auditCalls')
        /\ \A call \in auditCalls' : call.op = "query" => call \in auditCalls
    BY <1>1, <2>3, OptionCallsFit DEF AuditCallsFit
  <2>5. /\ queryForm' = form /\ {platformOptionsLoading', projectOptionsLoading'} \subseteq BOOLEAN
        /\ OptionSpinners(auditCalls', platformOptionsLoading', projectOptionsLoading')
    BY <1>1, <2>2, <2>3, Changing
  <2>6. QuerySpinner(auditCalls', queryLoading', pendingAutoQuery')
    BY <1>1, <2>3, <2>4 DEF QuerySpinner
  <2> QED
    BY <1>1, <2>2, <2>3, <2>4, <2>5, <2>6 DEF QueryPage
<1>5. CASE OpenProjectList
  <2>1. /\ auditCalls' = auditCalls \cup {AuditCall("list", None)}
        /\ UNCHANGED <<platformActions, projectActions, auditProjects, platformOptionsLoading,
                       projectOptionsLoading, queryLoading, pendingAutoQuery, auditLogs, auditAdmin,
                       auditLink, queryForm>>
    BY <1>5 DEF OpenProjectList, OptionsUnchanged, QueryUnchanged
  <2>2. AuditCall("list", None) \in AuditCalls /\ AuditCall("list", None).op = "list"
    BY DEF AuditCall, AuditCalls, Scopes
  <2> QED
    BY <1>1, <2>1, <2>2 DEF QueryPage, AuditCallsFit, OptionSpinners, QuerySpinner
<1>6. CASE SubmitQuery
  <2>1. /\ ~queryLoading /\ Queried(queryForm, auditCalls)
        /\ UNCHANGED <<platformActions, projectActions, auditProjects, platformOptionsLoading,
                       projectOptionsLoading, auditAdmin, auditLink, queryForm, pendingAutoQuery,
                       auditLogs>>
    BY <1>6 DEF SubmitQuery, OptionsUnchanged, MayQuery
  <2>2. ~pendingAutoQuery /\ \A call \in auditCalls : call.op # "query"
    BY <1>1, <2>1 DEF QuerySpinner
  <2>3. /\ AuditCallsFit(auditCalls') /\ auditCalls \subseteq auditCalls' /\ queryLoading' \in BOOLEAN
        /\ QuerySpinner(auditCalls', queryLoading', FALSE)
    BY <1>1, <2>1, <2>2, Querying DEF QueryPage
  <2> QED
    BY <1>1, <2>1, <2>2, <2>3 DEF QueryPage, OptionSpinners, QuerySpinner
<1>7. CASE QueryAnswer
  <2>1. PICK call \in UnderWay("query") :
          /\ auditLogs' \in BOOLEAN
          /\ IF pendingAutoQuery
               THEN Queried(queryForm, auditCalls \ {call})
               ELSE auditCalls' = auditCalls \ {call} /\ queryLoading' = FALSE
    BY <1>7 DEF QueryAnswer
  <2>2. /\ pendingAutoQuery' = FALSE
        /\ UNCHANGED <<platformActions, projectActions, auditProjects, platformOptionsLoading,
                       projectOptionsLoading, auditAdmin, auditLink, queryForm>>
    BY <1>7 DEF QueryAnswer, OptionsUnchanged
  <2> DEFINE rest == auditCalls \ {call}
  <2>3. AuditCallsFit(rest) /\ \A x \in rest : x.op # "query"
    BY <1>1 DEF AuditCallsFit, QuerySpinner, UnderWay
  <2>4. OptionSpinners(rest, platformOptionsLoading', projectOptionsLoading')
    BY <1>1, <2>2 DEF OptionSpinners, UnderWay
  <2>5. IF pendingAutoQuery THEN Queried(queryForm, rest) ELSE auditCalls' = rest /\ queryLoading' = FALSE
    BY <2>1
  <2> HIDE DEF rest
  <2>6. CASE pendingAutoQuery
    <3>1. /\ AuditCallsFit(auditCalls') /\ rest \subseteq auditCalls' /\ queryLoading' \in BOOLEAN
          /\ QuerySpinner(auditCalls', queryLoading', FALSE)
      BY <1>1, <2>3, <2>5, <2>6, Querying DEF QueryPage
    <3> QED
      BY <1>1, <2>1, <2>2, <2>4, <3>1 DEF QueryPage, OptionSpinners
  <2>7. CASE ~pendingAutoQuery
    BY <1>1, <2>1, <2>2, <2>3, <2>4, <2>5, <2>7 DEF QueryPage, QuerySpinner
  <2> QED
    BY <2>6, <2>7
<1>8. ASSUME NEW call, call.op # "query", auditCalls' = auditCalls \ {call},
             UNCHANGED <<queryLoading, pendingAutoQuery>>
      PROVE  AuditCallsFit(auditCalls') /\ QuerySpinner(auditCalls', queryLoading', pendingAutoQuery')
  BY <1>1, <1>8 DEF AuditCallsFit, QuerySpinner
<1>9. CASE PlatformOptionsAnswer
  <2>1. /\ platformActions' \in {AuditActions, {}} /\ platformOptionsLoading' = FALSE
        /\ auditCalls' = auditCalls \ {AuditCall("platform", None)}
        /\ UNCHANGED <<queryLoading, pendingAutoQuery, auditLogs, auditAdmin, auditLink, queryForm,
                       projectActions, auditProjects, projectOptionsLoading>>
    BY <1>9 DEF PlatformOptionsAnswer, QueryUnchanged
  <2>2. AuditCall("platform", None).op = "platform"
    BY DEF AuditCall
  <2>3. AuditCallsFit(auditCalls') /\ QuerySpinner(auditCalls', queryLoading', pendingAutoQuery')
    BY <1>8, <2>1, <2>2
  <2> QED
    BY <1>1, <2>1, <2>2, <2>3 DEF QueryPage, OptionSpinners
<1>10. CASE ProjectListLoaded
  <2>1. /\ auditCalls' = auditCalls \ {AuditCall("list", None)}
        /\ UNCHANGED <<queryLoading, pendingAutoQuery, auditLogs, auditAdmin, auditLink,
                       platformActions, platformOptionsLoading, projectOptionsLoading>>
    BY <1>10 DEF ProjectListLoaded, QueryUnchanged
  <2>2. auditProjects' \subseteq Projects /\ projectActions' \in {projectActions, {}}
        /\ queryForm' \in {queryForm, [queryForm EXCEPT !.project = None, !.action = None]}
    BY <1>1, <1>10 DEF ProjectListLoaded, QueryPage
  <2>3. queryForm' \in QueryForms
    BY <1>1, <2>2 DEF QueryPage, QueryForms
  <2>4. AuditCall("list", None).op = "list"
    BY DEF AuditCall
  <2>5. AuditCallsFit(auditCalls') /\ QuerySpinner(auditCalls', queryLoading', pendingAutoQuery')
    BY <1>8, <2>1, <2>4
  <2> QED
    BY <1>1, <2>1, <2>2, <2>3, <2>4, <2>5 DEF QueryPage, OptionSpinners
<1>11. CASE ProjectOptionsAnswer
  <2>1. PICK call \in UnderWay("options") :
          /\ \/ /\ projectActions' = ActionsOf[call.project]
                /\ auditProjects' \in {auditProjects, {call.project}}
                /\ queryForm' = [queryForm EXCEPT !.action = IF @ \in projectActions' THEN @ ELSE None]
             \/ projectActions' = {} /\ UNCHANGED <<auditProjects, queryForm>>
          /\ auditCalls' = auditCalls \ {call}
    BY <1>11 DEF ProjectOptionsAnswer
  <2>2. /\ projectOptionsLoading' = FALSE
        /\ UNCHANGED <<queryLoading, pendingAutoQuery, auditLogs, auditAdmin, auditLink,
                       platformActions, platformOptionsLoading>>
    BY <1>11 DEF ProjectOptionsAnswer, QueryUnchanged
  <2>3. call.op = "options" /\ call.project \in Projects
    BY <1>1 DEF UnderWay, AuditCallsFit
  <2>4. ActionsOf[call.project] \subseteq AuditActions
    BY <2>3 DEF AuditActions
  <2>5. projectActions' \subseteq AuditActions /\ auditProjects' \subseteq Projects
    BY <1>1, <2>1, <2>3, <2>4 DEF QueryPage
  <2>6. queryForm' \in QueryForms
    BY <1>1, <2>1 DEF QueryPage, QueryForms
  <2>7. AuditCallsFit(auditCalls') /\ QuerySpinner(auditCalls', queryLoading', pendingAutoQuery')
    BY <1>8, <2>1, <2>2, <2>3
  <2> QED
    BY <1>1, <2>1, <2>2, <2>3, <2>5, <2>6, <2>7 DEF QueryPage, OptionSpinners
<1> QED
  BY <1>2, <1>3, <1>4, <1>5, <1>6, <1>7, <1>9, <1>10, <1>11 DEF AuditsNext
-----------------------------------------------------------------------------
(* The overview.                                                           *)

\* The latest load, while it is under way, is that of the window selected, and the
\* page shows no error; the page loads exactly while it is.
LatestLoad ==
  LET load == overviewCalls[overviewSequence]
  IN /\ load # Idle => ~overviewError /\ load.window = range
     /\ overviewLoading <=> load # Idle

\* What the workbench was computed from, when there is one.
WorkbenchComputed ==
  workbench # None =>
    \E loaded, logged \in SUBSET Shown : \E w \in DOMAIN Windows :
      workbench = Workbench(loaded, logged, w)

OverviewInv ==
  /\ overviewAdmin \in BOOLEAN /\ range \in DOMAIN Windows
  /\ overviewSequence \in Numbers
  /\ overviewCalls \in [Numbers -> OverviewCalls \cup {Idle}]
  /\ overviewLoading \in BOOLEAN /\ overviewError \in BOOLEAN
  /\ hasWritableProjectAccess \in BOOLEAN
  /\ metrics \in DOMAIN Windows \cup {None}
  /\ LatestLoad /\ WorkbenchOfSelectedWindow /\ WorkbenchComputed

\* However many logs there are, the risks and the activity are cut at their limits.
LEMMA LatestWithinLimit ==
  ASSUME NEW limit \in Nat, NEW logs, IsFiniteSet(logs)
  PROVE  Len(Latest(limit, logs)) <= limit
<1> DEFINE found == Cardinality(logs)
           n == IF found < limit THEN found ELSE limit
           sorted == SetToSortSeq(logs, LAMBDA x, y : x.log.at > y.log.at)
<1>1. found \in Nat
  BY FS_CardinalityType
<1>2. n \in Nat /\ n <= limit
  BY <1>1
<1>3. Latest(limit, logs) = [k \in 1..n |-> sorted[k]]
  BY DEF Latest
<1> HIDE DEF n, sorted
<1>4. Len(Latest(limit, logs)) = n
  BY <1>2, <1>3
<1> QED
  BY <1>2, <1>4

\* The logs of the projects shown, with their projects, are finitely many.
LEMMA FiniteLogs ==
  ASSUME NEW own,
         \A x \in own : \E p \in Shown : \E log \in UNION {ToSet(OverviewProjects[q].logs) : q \in Shown} :
           x = [project |-> p, log |-> log]
  PROVE  IsFiniteSet(own)
<1> DEFINE LogsOf(q) == ToSet(OverviewProjects[q].logs)
           each == {LogsOf(q) : q \in Shown}
           places == Shown \X UNION each
           place == [x \in own |-> <<x.project, x.log>>]
<1>1. IsFiniteSet(Shown)
  BY OverviewAssumption DEF Shown
<1>2. \A q \in Shown : IsFiniteSet(LogsOf(q))
  <2> SUFFICES ASSUME NEW q \in Shown PROVE IsFiniteSet(LogsOf(q))
    OBVIOUS
  <2> DEFINE logs == OverviewProjects[q].logs
             read == [k \in DOMAIN logs |-> logs[k]]
  <2>1. IsFiniteSet(DOMAIN logs)
    BY OverviewAssumption DEF Shown
  <2>2. read \in Surjection(DOMAIN logs, LogsOf(q))
    BY DEF Surjection, ToSet
  <2> HIDE DEF logs, read, LogsOf
  <2> QED
    BY <2>1, <2>2, FS_Surjection
<1>3. IsFiniteSet(each)
  <2> DEFINE read == [q \in Shown |-> LogsOf(q)]
  <2> HIDE DEF LogsOf
  <2>1. read \in Surjection(Shown, each)
    BY DEF Surjection
  <2> HIDE DEF read, each
  <2> QED
    BY <1>1, <2>1, FS_Surjection
<1>4. IsFiniteSet(places)
  <2>1. IsFiniteSet(UNION each)
    <3>1. \A T \in each : IsFiniteSet(T)
      BY <1>2
    <3> HIDE DEF each
    <3> QED
      BY <1>3, <3>1, FS_UNION
  <2> HIDE DEF each
  <2> QED
    BY <1>1, <2>1, FS_Product
<1>5. place \in Injection(own, places)
  <2>1. \A x \in own : \E p \in Shown : \E log \in UNION each : x = [project |-> p, log |-> log]
    OBVIOUS
  <2> HIDE DEF each
  <2>2. place \in [own -> places]
    BY <2>1
  <2>3. ASSUME NEW x \in own, NEW y \in own, place[x] = place[y] PROVE x = y
    <3>1. x.project = y.project /\ x.log = y.log
      BY <2>3
    <3> QED
      BY <2>1, <3>1
  <2> HIDE DEF places, place
  <2>4. DOMAIN place = own
    BY <2>2
  <2> QED
    BY <2>2, <2>3, <2>4 DEF Injection, IsInjective
<1> HIDE DEF places, place
<1> QED
  BY <1>4, <1>5, FS_Injection

\* A workbench has a row of each project, and its lists are within their limits.
LEMMA WorkbenchFits ==
  ASSUME NEW loaded, NEW logged, NEW w
  PROVE  LET shown == Workbench(loaded, logged, w)
         IN /\ DOMAIN shown.rows = Shown
            /\ Len(shown.uploads) <= RiskLimit /\ Len(shown.cdns) <= RiskLimit
            /\ Len(shown.activity) <= ActivityLimit
<1> DEFINE logs == [p \in Shown |-> IF p \in logged THEN LogsSince(p, w) ELSE <<>>]
           all == {[project |-> p, log |-> log] :
                     p \in Shown, log \in UNION {ToSet(OverviewProjects[q].logs) : q \in Shown}}
           own == {x \in all : x.log \in ToSet(logs[x.project])}
           uploads == {x \in own : x.log.action = "upload" /\ Failed(x.log)}
           cdns == {x \in own : x.log.action = "cdn" /\ Failed(x.log)}
           rows == [p \in Shown |-> WorkbenchRow(p, loaded, logs[p])]
<1>1. Workbench(loaded, logged, w)
        = [rows |-> rows, uploads |-> Latest(RiskLimit, uploads), cdns |-> Latest(RiskLimit, cdns),
           activity |-> Latest(ActivityLimit, own)]
  BY DEF Workbench
<1>2. IsFiniteSet(own)
  <2>1. \A x \in own : \E p \in Shown : \E log \in UNION {ToSet(OverviewProjects[q].logs) : q \in Shown} :
          x = [project |-> p, log |-> log]
    OBVIOUS
  <2> HIDE DEF own
  <2> QED
    BY <2>1, FiniteLogs
<1>3. uploads \in SUBSET own /\ cdns \in SUBSET own
  OBVIOUS
<1>4. DOMAIN rows = Shown
  OBVIOUS
<1> HIDE DEF own, uploads, cdns, rows
<1>5. IsFiniteSet(uploads) /\ IsFiniteSet(cdns)
  BY <1>2, <1>3, FS_Subset
<1>6. RiskLimit \in Nat /\ ActivityLimit \in Nat
  BY OverviewAssumption
<1>7. /\ Len(Latest(RiskLimit, uploads)) <= RiskLimit /\ Len(Latest(RiskLimit, cdns)) <= RiskLimit
      /\ Len(Latest(ActivityLimit, own)) <= ActivityLimit
  BY <1>2, <1>5, <1>6, LatestWithinLimit
<1> QED
  BY <1>1, <1>4, <1>7

LEMMA OverviewInvImplies ==
  OverviewInv => OverviewTypeOK /\ WorkbenchOfSelectedWindow /\ OverviewNeverStuck
<1> SUFFICES ASSUME OverviewInv PROVE OverviewTypeOK /\ OverviewNeverStuck
  BY DEF OverviewInv
<1>1. ASSUME workbench # None
      PROVE  /\ DOMAIN workbench.rows = Shown
             /\ Len(workbench.uploads) <= RiskLimit /\ Len(workbench.cdns) <= RiskLimit
             /\ Len(workbench.activity) <= ActivityLimit
  <2>1. PICK loaded, logged \in SUBSET Shown : \E w \in DOMAIN Windows :
          workbench = Workbench(loaded, logged, w)
    BY <1>1 DEF OverviewInv, WorkbenchComputed
  <2>2. PICK w \in DOMAIN Windows : workbench = Workbench(loaded, logged, w)
    BY <2>1
  <2> QED
    BY <2>2, WorkbenchFits
<1> QED
  BY <1>1 DEF OverviewInv, OverviewTypeOK, OverviewNeverStuck, LatestLoad

LEMMA NewLoadType ==
  ASSUME NEW w \in DOMAIN Windows
  PROVE  NewLoad(w) \in OverviewCalls /\ NewLoad(w) # Idle /\ NewLoad(w).window = w
<1>1. NewLoad(w) \in OverviewCalls
  BY DEF NewLoad, OverviewCalls
<1> QED
  BY <1>1, OverviewCallsAssumption DEF NewLoad

LEMMA OverviewInitInv == OverviewInit => OverviewInv
<1> SUFFICES ASSUME OverviewInit PROVE OverviewInv
  OBVIOUS
<1>1. 1 \in Numbers /\ "24h" \in DOMAIN Windows
  BY OverviewAssumption DEF Numbers
<1>2. /\ overviewCalls \in [Numbers -> OverviewCalls \cup {Idle}]
      /\ overviewCalls[1] = NewLoad("24h")
  BY <1>1, NewLoadType DEF OverviewInit
<1>3. LatestLoad
  BY <1>1, <1>2, NewLoadType DEF OverviewInit, LatestLoad
<1> QED
  BY <1>1, <1>2, <1>3 DEF OverviewInit, OverviewInv, WorkbenchOfSelectedWindow, WorkbenchComputed

\* A load that starts is the latest, and the page says that it loads.
LEMMA LoadStarted ==
  ASSUME OverviewInv, LoadCoreMetrics(range'), range' \in DOMAIN Windows
  PROVE  OverviewInv'
<1> DEFINE n == overviewSequence + 1
           next == [overviewCalls EXCEPT ![n] = NewLoad(range')]
<1>1. /\ overviewSequence < MaxRequests /\ overviewSequence' = n /\ overviewCalls' = next
      /\ overviewLoading' = TRUE /\ overviewError' = FALSE
      /\ UNCHANGED <<overviewAdmin, metrics, workbench, hasWritableProjectAccess>>
  BY DEF LoadCoreMetrics
<1>2. n \in Numbers
  BY <1>1, OverviewAssumption DEF OverviewInv, Numbers
<1> HIDE DEF n
<1>3. next \in [Numbers -> OverviewCalls \cup {Idle}] /\ next[n] = NewLoad(range')
  BY <1>2, NewLoadType DEF OverviewInv
<1> HIDE DEF next
<1>4. LatestLoad'
  BY <1>1, <1>3, NewLoadType DEF LatestLoad
<1> QED
  BY <1>1, <1>2, <1>3, <1>4 DEF OverviewInv, WorkbenchOfSelectedWindow, WorkbenchComputed

\* An answer that the load goes on after: it keeps its window.
LEMMA LoadGoesOn ==
  ASSUME OverviewInv, NEW n \in Numbers, overviewCalls[n] # Idle,
         NEW load \in OverviewCalls, load.window = overviewCalls[n].window,
         overviewCalls' = [overviewCalls EXCEPT ![n] = load],
         metrics' \in DOMAIN Windows \cup {None}, hasWritableProjectAccess' \in BOOLEAN,
         UNCHANGED <<overviewAdmin, range, overviewSequence, overviewLoading, overviewError, workbench>>
  PROVE  OverviewInv'
<1>1. overviewCalls' \in [Numbers -> OverviewCalls \cup {Idle}]
  BY DEF OverviewInv
<1>2. LatestLoad'
  <2>1. load # Idle
    BY OverviewCallsAssumption
  <2>2. overviewCalls'[overviewSequence]
          = IF n = overviewSequence THEN load ELSE overviewCalls[overviewSequence]
    BY DEF OverviewInv
  <2> QED
    BY <2>1, <2>2 DEF OverviewInv, LatestLoad
<1> QED
  BY <1>1, <1>2 DEF OverviewInv, WorkbenchOfSelectedWindow, WorkbenchComputed

LEMMA OverviewStepInv == OverviewInv /\ [OverviewNext]_overviewVars => OverviewInv'
<1> SUFFICES ASSUME OverviewInv, [OverviewNext]_overviewVars PROVE OverviewInv'
  OBVIOUS
<1>1. CASE UNCHANGED overviewVars
  BY <1>1 DEF overviewVars, OverviewInv, LatestLoad, WorkbenchOfSelectedWindow, WorkbenchComputed
<1>2. CASE ChooseRange
  BY <1>2, LoadStarted DEF ChooseRange
<1>3. CASE RefreshOverview
  BY <1>3, LoadStarted DEF RefreshOverview, OverviewInv
<1>4. CASE ChangeLanguage
  BY <1>4, LoadStarted DEF ChangeLanguage, OverviewInv
<1>5. ASSUME NEW n \in Numbers, overviewCalls[n] # Idle
      PROVE  overviewCalls[n] \in OverviewCalls
  BY <1>5 DEF OverviewInv
<1>6. ASSUME NEW n \in Numbers, MetricsAnswer(n) PROVE OverviewInv'
  <2> DEFINE load == [overviewCalls[n] EXCEPT !.stage = "accessible"]
  <2>1. overviewCalls[n] # Idle /\ overviewCalls[n] \in OverviewCalls
    BY <1>5, <1>6 DEF MetricsAnswer, Waiting
  <2>2. load \in OverviewCalls /\ load.window = overviewCalls[n].window
    BY <2>1 DEF OverviewCalls
  <2>3. metrics' \in DOMAIN Windows \cup {None}
    BY <1>6, <2>1 DEF MetricsAnswer, OverviewCalls
  <2>4. /\ overviewCalls' = [overviewCalls EXCEPT ![n] = load]
        /\ UNCHANGED <<overviewAdmin, range, overviewSequence, overviewLoading, overviewError, workbench,
                       hasWritableProjectAccess>>
    BY <1>6 DEF MetricsAnswer
  <2> HIDE DEF load
  <2> QED
    BY <2>1, <2>2, <2>3, <2>4, LoadGoesOn DEF OverviewInv
<1>7. ASSUME NEW n \in Numbers, AccessibleAnswer(n) PROVE OverviewInv'
  <2> DEFINE load == [overviewCalls[n] EXCEPT !.stage = "contexts"]
  <2>1. overviewCalls[n] # Idle /\ overviewCalls[n] \in OverviewCalls
    BY <1>5, <1>7 DEF AccessibleAnswer, Waiting
  <2>2. load \in OverviewCalls /\ load.window = overviewCalls[n].window
    BY <2>1 DEF OverviewCalls
  <2>3. /\ overviewCalls' = [overviewCalls EXCEPT ![n] = load]
        /\ UNCHANGED <<overviewAdmin, range, overviewSequence, overviewLoading, overviewError, metrics,
                       workbench, hasWritableProjectAccess>>
    BY <1>7 DEF AccessibleAnswer
  <2> HIDE DEF load
  <2> QED
    BY <2>1, <2>2, <2>3, LoadGoesOn DEF OverviewInv
<1>8. ASSUME NEW n \in Numbers, ContextsAnswer(n) PROVE OverviewInv'
  <2>1. PICK loaded \in SUBSET Shown :
          /\ hasWritableProjectAccess' = (overviewAdmin \/ Writable(loaded) # {})
          /\ overviewCalls' = [overviewCalls EXCEPT ![n].stage = "audits", ![n].loaded = loaded]
    BY <1>8 DEF ContextsAnswer
  <2> DEFINE load == [overviewCalls[n] EXCEPT !.stage = "audits", !.loaded = loaded]
  <2>2. overviewCalls[n] # Idle /\ overviewCalls[n] \in OverviewCalls
    BY <1>5, <1>8 DEF ContextsAnswer, Waiting
  <2>3. load \in OverviewCalls /\ load.window = overviewCalls[n].window
    BY <2>2 DEF OverviewCalls
  <2>4. overviewCalls' = [overviewCalls EXCEPT ![n] = load]
    BY <2>1 DEF OverviewInv
  <2>5. hasWritableProjectAccess' \in BOOLEAN
    BY <2>1 DEF OverviewInv
  <2>6. UNCHANGED <<overviewAdmin, range, overviewSequence, overviewLoading, overviewError, metrics,
                    workbench>>
    BY <1>8 DEF ContextsAnswer
  <2> HIDE DEF load
  <2> QED
    BY <2>2, <2>3, <2>4, <2>5, <2>6, LoadGoesOn DEF OverviewInv
<1>9. ASSUME NEW n \in Numbers, AuditsAnswer(n) PROVE OverviewInv'
  <2> DEFINE load == overviewCalls[n]
  <2>1. PICK logged \in SUBSET Writable(load.loaded) :
          workbench' = IF IsLatest(n) THEN Workbench(load.loaded, logged, load.window) ELSE workbench
    BY <1>9 DEF AuditsAnswer
  <2>2. /\ load # Idle /\ overviewCalls' = [overviewCalls EXCEPT ![n] = Idle]
        /\ overviewLoading' = (overviewLoading /\ ~IsLatest(n))
        /\ UNCHANGED <<overviewAdmin, range, overviewSequence, overviewError, metrics,
                       hasWritableProjectAccess>>
    BY <1>9 DEF AuditsAnswer, Waiting, LoadEnds
  <2>3. load \in OverviewCalls
    BY <1>5, <2>2
  <2>4. load.loaded \in SUBSET Shown /\ load.window \in DOMAIN Windows /\ logged \in SUBSET Shown
    BY <2>3 DEF OverviewCalls, Writable
  <2>5. /\ overviewCalls' \in [Numbers -> OverviewCalls \cup {Idle}]
        /\ overviewCalls'[overviewSequence]
             = IF n = overviewSequence THEN Idle ELSE overviewCalls[overviewSequence]
    BY <2>2 DEF OverviewInv
  <2>6. n = overviewSequence => ~overviewError /\ load.window = range
    BY <2>2 DEF OverviewInv, LatestLoad
  <2> HIDE DEF load
  <2>7. LatestLoad'
    BY <2>2, <2>5 DEF OverviewInv, LatestLoad, IsLatest
  <2>8. WorkbenchOfSelectedWindow' /\ WorkbenchComputed'
    <3>1. CASE n = overviewSequence
      BY <2>1, <2>2, <2>4, <2>6, <3>1
         DEF WorkbenchOfSelectedWindow, WorkbenchComputed, IsLatest
    <3>2. CASE n # overviewSequence
      <4>1. UNCHANGED <<workbench, overviewLoading>>
        BY <2>1, <2>2, <3>2 DEF IsLatest, OverviewInv
      <4> QED
        BY <2>2, <4>1 DEF OverviewInv, WorkbenchOfSelectedWindow, WorkbenchComputed
    <3> QED
      BY <3>1, <3>2
  <2> QED
    BY <2>2, <2>5, <2>7, <2>8 DEF OverviewInv
<1>10. ASSUME NEW n \in Numbers, LoadFails(n) PROVE OverviewInv'
  <2>1. /\ overviewCalls' = [overviewCalls EXCEPT ![n] = Idle]
        /\ IF IsLatest(n)
             THEN /\ overviewError' = TRUE /\ overviewLoading' = FALSE
                  /\ metrics' = None /\ workbench' = None
                  /\ hasWritableProjectAccess' = (overviewAdmin /\ hasWritableProjectAccess)
             ELSE UNCHANGED <<overviewError, overviewLoading, metrics, workbench, hasWritableProjectAccess>>
        /\ UNCHANGED <<overviewAdmin, range, overviewSequence>>
    BY <1>10 DEF LoadFails, LoadEnds
  <2>2. /\ overviewCalls' \in [Numbers -> OverviewCalls \cup {Idle}]
        /\ overviewCalls'[overviewSequence]
             = IF n = overviewSequence THEN Idle ELSE overviewCalls[overviewSequence]
    BY <2>1 DEF OverviewInv
  <2>3. CASE n = overviewSequence
    BY <2>1, <2>2, <2>3
       DEF OverviewInv, LatestLoad, WorkbenchOfSelectedWindow, WorkbenchComputed, IsLatest
  <2>4. CASE n # overviewSequence
    <3>1. UNCHANGED <<overviewError, overviewLoading, metrics, workbench, hasWritableProjectAccess>>
      BY <2>1, <2>4 DEF IsLatest
    <3> QED
      BY <2>1, <2>2, <2>4, <3>1
         DEF OverviewInv, LatestLoad, WorkbenchOfSelectedWindow, WorkbenchComputed
  <2> QED
    BY <2>3, <2>4
<1> QED
  BY <1>1, <1>2, <1>3, <1>4, <1>6, <1>7, <1>8, <1>9, <1>10 DEF OverviewNext
-----------------------------------------------------------------------------
(* The reasons of failures: what filters leave of logs.                    *)

\* Each rank is that of one place.
LEMMA PlaceOfRank ==
  ASSUME NEW size \in Nat, NEW places \in SUBSET (1..size)
  PROVE  /\ IsFiniteSet(places) /\ Cardinality(places) \in 0..size
         /\ \A n \in 1..Cardinality(places) : \E k \in places : RankIn(places, k) = n
         /\ \A k, l \in places : RankIn(places, k) = RankIn(places, l) => k = l
<1> DEFINE count == Cardinality(places)
           rank == [k \in places |-> RankIn(places, k)]
           UpTo(k) == {j \in places : j <= k}
<1>1. IsFiniteSet(1..size) /\ Cardinality(1..size) = size
  BY FS_Interval
<1>2. IsFiniteSet(places) /\ count <= size
  BY <1>1, FS_Subset
<1>3. count \in Nat
  BY <1>2, FS_CardinalityType
<1>4. ASSUME NEW k \in places
      PROVE  RankIn(places, k) \in 1..count
  <2>1. UpTo(k) \in SUBSET places /\ k \in UpTo(k)
    OBVIOUS
  <2> HIDE DEF UpTo
  <2>2. IsFiniteSet(UpTo(k)) /\ Cardinality(UpTo(k)) <= count
    BY <1>2, <2>1, FS_Subset
  <2>3. Cardinality(UpTo(k)) \in Nat
    BY <2>2, FS_CardinalityType
  <2>4. Cardinality(UpTo(k)) # 0
    BY <2>1, <2>2, FS_EmptySet
  <2>5. Cardinality(UpTo(k)) \in 1..count
    BY <1>3, <2>2, <2>3, <2>4
  <2> QED
    BY <2>5 DEF UpTo, RankIn
<1>5. ASSUME NEW k \in places, NEW l \in places, k < l
      PROVE  RankIn(places, k) # RankIn(places, l)
  <2>1. UpTo(k) \in SUBSET UpTo(l) /\ l \in UpTo(l) /\ l \notin UpTo(k) /\ UpTo(l) \in SUBSET places
    <3>1. k \in Int /\ l \in Int /\ \A j \in places : j \in Int
      OBVIOUS
    <3>2. ASSUME NEW j \in UpTo(k) PROVE j \in places /\ j <= l
      <4>1. j \in Int /\ j <= k
        BY <3>1
      <4> QED
        BY <1>5, <3>1, <4>1
    <3>3. l \in UpTo(l) /\ l \notin UpTo(k)
      BY <1>5, <3>1
    <3>4. UpTo(l) \in SUBSET places /\ UpTo(k) \in SUBSET UpTo(l)
      BY <3>2
    <3> QED
      BY <3>3, <3>4
  <2> HIDE DEF UpTo
  <2>2. IsFiniteSet(UpTo(l))
    BY <1>2, <2>1, FS_Subset
  <2>3. Cardinality(UpTo(l)) # Cardinality(UpTo(k))
    BY <2>1, <2>2, FS_Subset
  <2> QED
    BY <2>3 DEF UpTo, RankIn
<1>6. rank \in Injection(places, 1..count) /\ \A k, l \in places : rank[k] = rank[l] => k = l
  <2>1. rank \in [places -> 1..count]
    BY <1>4
  <2>2. \A k, l \in places : rank[k] = rank[l] => k = l
    BY <1>5
  <2> HIDE DEF rank, count
  <2> QED
    BY <2>1, <2>2 DEF Injection, IsInjective
<1>7. rank \in Surjection(places, 1..count)
  <2>1. IsFiniteSet(1..count) /\ Cardinality(1..count) = count
    BY <1>3, FS_Interval
  <2> HIDE DEF rank
  <2> QED
    BY <1>6, <2>1, FS_Injection
<1>8. \A n \in 1..count : \E k \in places : rank[k] = n
  <2> HIDE DEF rank, count
  <2> QED
    BY <1>7 DEF Surjection
<1>9. \A k, l \in places : RankIn(places, k) = RankIn(places, l) => k = l
  BY <1>6
<1> QED
  BY <1>2, <1>3, <1>8, <1>9

\* What is picked are the elements at those places, no more than there are.
LEMMA PickedElements ==
  ASSUME NEW S, NEW seq \in Seq(S), NEW places \in SUBSET (DOMAIN seq)
  PROVE  /\ Picked(seq, places) \in Seq(S) /\ Len(Picked(seq, places)) = Cardinality(places)
         /\ \A n \in DOMAIN Picked(seq, places) : \E k \in places : Picked(seq, places)[n] = seq[k]
<1> DEFINE Place(n) == CHOOSE k \in places : RankIn(places, k) = n
           count == Cardinality(places)
<1>1. Len(seq) \in Nat /\ DOMAIN seq = 1..Len(seq) /\ seq \in [1..Len(seq) -> S]
  BY LenProperties
<1>2. count \in Nat /\ \A n \in 1..count : Place(n) \in places
  BY <1>1, PlaceOfRank
<1>3. Picked(seq, places) = [n \in 1..count |-> seq[Place(n)]]
  BY DEF Picked
<1> HIDE DEF Place, count
<1>4. Picked(seq, places) \in [1..count -> S]
  BY <1>1, <1>2, <1>3
<1>5. Picked(seq, places) \in Seq(S)
  BY <1>2, <1>4, SeqDef
<1>6. DOMAIN Picked(seq, places) = 1..count
  BY <1>3
<1>7. Len(Picked(seq, places)) = count
  BY <1>2, <1>5, <1>6, LenProperties
<1> QED
  BY <1>2, <1>3, <1>5, <1>6, <1>7 DEF count

\* All that there is, when it is picked at every place.
LEMMA PickedAll ==
  ASSUME NEW S, NEW seq \in Seq(S)
  PROVE  Picked(seq, DOMAIN seq) = seq
<1> DEFINE places == DOMAIN seq
           size == Len(seq)
<1>1. size \in Nat /\ places = 1..size
  BY LenProperties
<1>2. Cardinality(places) = size
  BY <1>1, FS_Interval
<1>3. ASSUME NEW k \in 1..size PROVE RankIn(places, k) = k
  <2>1. {j \in places : j <= k} = 1..k
    BY <1>1
  <2>2. Cardinality(1..k) = k
    BY FS_Interval
  <2> QED
    BY <2>1, <2>2 DEF RankIn
<1>4. ASSUME NEW n \in 1..size
      PROVE  (CHOOSE k \in places : RankIn(places, k) = n) = n
  BY <1>1, <1>3
<1>5. Picked(seq, places) = [n \in 1..size |-> seq[CHOOSE k \in places : RankIn(places, k) = n]]
  BY <1>2 DEF Picked
<1>6. Picked(seq, places) = [n \in 1..size |-> seq[n]]
  BY <1>4, <1>5
<1>7. seq = [n \in 1..size |-> seq[n]]
  BY LenProperties
<1> QED
  BY <1>6, <1>7

\* Failures alone pass the filter of failures.
LEMMA FailuresFail ==
  ASSUME NEW S, NEW seq \in Seq(S)
  PROVE  /\ Failures(seq) \in Seq(S)
         /\ \A n \in DOMAIN Failures(seq) : Failures(seq)[n].result = "failure"
<1> DEFINE places == {k \in DOMAIN seq : seq[k].result = "failure"}
<1>1. Failures(seq) = Picked(seq, places)
  BY DEF Failures
<1>2. places \in SUBSET (DOMAIN seq) /\ \A k \in places : seq[k].result = "failure"
  OBVIOUS
<1> HIDE DEF places
<1> QED
  BY <1>1, <1>2, PickedElements

\* The filter of what did not succeed leaves failures as they are.
LEMMA FailuresPass ==
  ASSUME NEW S, NEW seq \in Seq(S), \A n \in DOMAIN seq : seq[n].result = "failure"
  PROVE  NotSucceeded(seq) = seq
<1> DEFINE places == {k \in DOMAIN seq : seq[k].result # "success"}
<1>1. NotSucceeded(seq) = Picked(seq, places)
  BY DEF NotSucceeded
<1>2. places = DOMAIN seq
  OBVIOUS
<1> QED
  BY <1>1, <1>2, PickedAll

LEMMA AtMostElements ==
  ASSUME NEW S, NEW seq \in Seq(S), NEW limit \in Nat
  PROVE  /\ AtMost(limit, seq) \in Seq(S)
         /\ Len(AtMost(limit, seq)) = IF Len(seq) < limit THEN Len(seq) ELSE limit
         /\ \A n \in 1..Len(AtMost(limit, seq)) : AtMost(limit, seq)[n] = seq[n]
<1> DEFINE size == IF Len(seq) < limit THEN Len(seq) ELSE limit
<1>1. Len(seq) \in Nat /\ seq \in [1..Len(seq) -> S]
  BY LenProperties
<1>2. size \in Nat /\ size <= Len(seq) /\ AtMost(limit, seq) = SubSeq(seq, 1, size)
  BY <1>1 DEF AtMost
<1> HIDE DEF size
<1>3. \A n \in 1..size : seq[n] \in S
  BY <1>1, <1>2
<1>4. /\ SubSeq(seq, 1, size) \in Seq(S) /\ Len(SubSeq(seq, 1, size)) = size
      /\ \A n \in 1..size : SubSeq(seq, 1, size)[n] = seq[n]
  BY <1>2, <1>3, SubSeqProperties
<1> QED
  BY <1>2, <1>4 DEF size

\* The first ones of the first ones are the first ones.
LEMMA FirstOfFirst ==
  ASSUME NEW S, NEW seq \in Seq(S), NEW a \in Nat, NEW b \in Nat, a <= b
  PROVE  AtMost(a, AtMost(b, seq)) = AtMost(a, seq)
<1> DEFINE first == AtMost(b, seq)
<1>1. Len(seq) \in Nat
  BY LenProperties
<1>2. /\ first \in Seq(S) /\ Len(first) = IF Len(seq) < b THEN Len(seq) ELSE b
      /\ \A n \in 1..Len(first) : first[n] = seq[n]
  BY AtMostElements
<1> HIDE DEF first
<1>3. /\ AtMost(a, first) \in Seq(S) /\ Len(AtMost(a, first)) = IF Len(first) < a THEN Len(first) ELSE a
      /\ \A n \in 1..Len(AtMost(a, first)) : AtMost(a, first)[n] = first[n]
  BY <1>2, AtMostElements
<1>4. /\ AtMost(a, seq) \in Seq(S) /\ Len(AtMost(a, seq)) = IF Len(seq) < a THEN Len(seq) ELSE a
      /\ \A n \in 1..Len(AtMost(a, seq)) : AtMost(a, seq)[n] = seq[n]
  BY AtMostElements
<1>5. Len(AtMost(a, first)) = Len(AtMost(a, seq))
  BY <1>1, <1>2, <1>3, <1>4
<1>6. \A n \in 1..Len(AtMost(a, first)) : AtMost(a, first)[n] = AtMost(a, seq)[n]
  BY <1>1, <1>2, <1>3, <1>4, <1>5
<1>7. AtMost(a, first) = AtMost(a, seq)
  BY <1>3, <1>4, <1>5, <1>6, SeqEqual
<1> QED
  BY <1>7 DEF first

\* Of the first records, a filter leaves the first of what it leaves of all.
LEMMA FailuresOfFirst ==
  ASSUME NEW S, NEW seq \in Seq(S), NEW limit \in Nat
  PROVE  LET some == Failures(AtMost(limit, seq))
             all == Failures(seq)
         IN Len(some) <= Len(all) /\ \A n \in 1..Len(some) : some[n] = all[n]
<1> DEFINE first == AtMost(limit, seq)
           places == {k \in DOMAIN seq : seq[k].result = "failure"}
           early == {k \in DOMAIN first : first[k].result = "failure"}
<1>1. Len(seq) \in Nat /\ DOMAIN seq = 1..Len(seq)
  BY LenProperties
<1>2. /\ first \in Seq(S) /\ Len(first) = IF Len(seq) < limit THEN Len(seq) ELSE limit
      /\ \A n \in 1..Len(first) : first[n] = seq[n]
  BY AtMostElements
<1> HIDE DEF first
<1>3. Len(first) \in Nat /\ Len(first) <= Len(seq) /\ DOMAIN first = 1..Len(first)
  BY <1>1, <1>2, LenProperties
<1>4. early = {k \in places : k <= Len(first)} /\ \A k \in early : first[k] = seq[k]
  BY <1>1, <1>2, <1>3
<1>5. places \in SUBSET (1..Len(seq)) /\ early \in SUBSET places /\ early \in SUBSET (1..Len(seq))
  BY <1>1, <1>4
<1>6. ASSUME NEW k \in early PROVE RankIn(early, k) = RankIn(places, k)
  <2>1. ASSUME NEW j \in places, j <= k PROVE j \in early
    <3>1. j \in Int /\ k \in Int /\ k <= Len(first)
      BY <1>4, <1>5
    <3> QED
      BY <1>3, <1>4, <2>1, <3>1
  <2>2. {j \in early : j <= k} = {j \in places : j <= k}
    BY <1>5, <2>1
  <2> QED
    BY <2>2 DEF RankIn
<1>7. Failures(first) = Picked(first, early) /\ Failures(seq) = Picked(seq, places)
  BY DEF Failures
<1>8. early \in SUBSET (DOMAIN first) /\ places \in SUBSET (DOMAIN seq)
  OBVIOUS
<1> HIDE DEF early, places
<1>9. /\ IsFiniteSet(places)
      /\ Cardinality(early) \in Nat /\ Cardinality(places) \in Nat
      /\ Cardinality(early) <= Cardinality(places)
  <2>1. IsFiniteSet(places) /\ Cardinality(early) \in 0..Len(seq) /\ Cardinality(places) \in 0..Len(seq)
    BY <1>1, <1>5, PlaceOfRank
  <2>2. Cardinality(early) <= Cardinality(places)
    BY <1>5, <2>1, FS_Subset
  <2>3. Cardinality(early) \in Nat /\ Cardinality(places) \in Nat
    BY <1>1, <2>1
  <2> QED
    BY <2>1, <2>2, <2>3
<1>10. Len(Failures(first)) = Cardinality(early) /\ Len(Failures(seq)) = Cardinality(places)
  BY <1>2, <1>7, <1>8, PickedElements
<1>11. ASSUME NEW n \in 1..Cardinality(early) PROVE Failures(first)[n] = Failures(seq)[n]
  <2> DEFINE k == CHOOSE x \in early : RankIn(early, x) = n
             l == CHOOSE x \in places : RankIn(places, x) = n
  <2>1. k \in early /\ RankIn(early, k) = n
    BY <1>1, <1>5, PlaceOfRank
  <2>2. n \in 1..Cardinality(places)
    BY <1>9
  <2>3. l \in places /\ RankIn(places, l) = n
    BY <1>1, <1>5, <2>2, PlaceOfRank
  <2>4. Failures(first)[n] = first[k] /\ Failures(seq)[n] = seq[l]
    BY <1>7, <2>2 DEF Picked
  <2> HIDE DEF k, l
  <2>5. k \in places /\ RankIn(places, k) = RankIn(places, l)
    BY <1>5, <1>6, <2>1, <2>3
  <2>6. k = l
    BY <1>1, <1>5, <2>3, <2>5, PlaceOfRank
  <2> QED
    BY <1>4, <2>1, <2>4, <2>6
<1> QED
  BY <1>9, <1>10, <1>11 DEF first

\* The reasons of the first failures are the first reasons.
LEMMA SummaryOfFirst ==
  ASSUME NEW S, NEW some \in Seq(S), NEW all \in Seq(S),
         \A n \in DOMAIN all : all[n].result = "failure",
         Len(some) <= Len(all), \A n \in 1..Len(some) : some[n] = all[n]
  PROVE  IsPrefix(FailureSummary(some), FailureSummary(all))
<1> DEFINE T == {FailureReason(log) : log \in S}
           a == AtMost(3, some)
           b == AtMost(3, all)
           sa == [k \in DOMAIN a |-> FailureReason(a[k])]
           sb == [k \in DOMAIN b |-> FailureReason(b[k])]
<1>1. /\ Len(some) \in Nat /\ DOMAIN some = 1..Len(some)
      /\ Len(all) \in Nat /\ DOMAIN all = 1..Len(all)
  BY LenProperties
<1>2. NotSucceeded(some) = some /\ NotSucceeded(all) = all
  <2>1. \A n \in DOMAIN some : some[n].result = "failure"
    BY <1>1
  <2> QED
    BY <2>1, FailuresPass
<1>3. FailureSummary(some) = sa /\ FailureSummary(all) = sb
  BY <1>2 DEF FailureSummary
<1>4. /\ a \in Seq(S) /\ Len(a) = IF Len(some) < 3 THEN Len(some) ELSE 3
      /\ \A n \in 1..Len(a) : a[n] = some[n]
      /\ b \in Seq(S) /\ Len(b) = IF Len(all) < 3 THEN Len(all) ELSE 3
      /\ \A n \in 1..Len(b) : b[n] = all[n]
  <2>1. ASSUME NEW seq \in Seq(S)
        PROVE  /\ AtMost(3, seq) \in Seq(S)
               /\ Len(AtMost(3, seq)) = IF Len(seq) < 3 THEN Len(seq) ELSE 3
               /\ \A n \in 1..Len(AtMost(3, seq)) : AtMost(3, seq)[n] = seq[n]
    BY AtMostElements
  <2> QED
    BY <2>1
<1> HIDE DEF a, b
<1>5. /\ Len(a) \in Nat /\ DOMAIN a = 1..Len(a) /\ a \in [1..Len(a) -> S]
      /\ Len(b) \in Nat /\ DOMAIN b = 1..Len(b) /\ b \in [1..Len(b) -> S]
  BY <1>4, LenProperties
<1>6. sa \in [1..Len(a) -> T] /\ sb \in [1..Len(b) -> T]
  BY <1>5
<1>7. Len(a) <= Len(b) /\ \A n \in 1..Len(a) : a[n] = b[n]
  BY <1>1, <1>4
<1>8. \A n \in 1..Len(a) : sa[n] = sb[n]
  BY <1>5, <1>7
<1> HIDE DEF sa, sb, T
<1>9. sa \in Seq(T) /\ Len(sa) = Len(a) /\ sb \in Seq(T) /\ Len(sb) = Len(b)
  <2>1. /\ \E n \in Nat : sa \in [1..n -> T]
        /\ \E n \in Nat : sb \in [1..n -> T]
    BY <1>5, <1>6
  <2>2. sa \in Seq(T)
    BY <2>1, SeqDef
  <2>3. sb \in Seq(T)
    BY <2>1, SeqDef
  <2>4. DOMAIN sa = 1..Len(a) /\ DOMAIN sb = 1..Len(b)
    BY <1>6
  <2> QED
    BY <1>5, <2>2, <2>3, <2>4, LenProperties
<1>10. IsPrefix(sa, sb)
  BY <1>5, <1>7, <1>8, <1>9 DEF IsPrefix
<1> QED
  BY <1>3, <1>10

\* Of its five latest failures a session has the reasons of the first three of all.
LEMMA LatestSummary ==
  ASSUME NEW s \in Sessions
  PROVE  /\ FailureSummary(Failures(SessionLogs[s])) = AskedSummary(s)
         /\ IsPrefix(AskedSummary(s), AskedSummary(s))
<1> DEFINE logs == SessionLogs[s]
           S == ToSet(logs)
           failures == Failures(logs)
           latest == AtMost(5, failures)
<1>1. logs \in Seq(S)
  BY SessionsAssumption
<1> HIDE DEF S
<1>2. failures \in Seq(S) /\ \A n \in DOMAIN failures : failures[n].result = "failure"
  BY <1>1, FailuresFail
<1> HIDE DEF logs, failures
<1>3. Len(failures) \in Nat /\ DOMAIN failures = 1..Len(failures)
  BY <1>2, LenProperties
<1>4. /\ latest \in Seq(S) /\ Len(latest) <= Len(failures)
      /\ \A n \in 1..Len(latest) : latest[n] = failures[n]
  BY <1>2, <1>3, AtMostElements
<1>5. AtMost(3, latest) = AtMost(3, failures)
  BY <1>2, FirstOfFirst
<1> HIDE DEF latest
<1>6. Len(latest) \in Nat /\ DOMAIN latest = 1..Len(latest)
  BY <1>4, LenProperties
<1>7. \A n \in DOMAIN latest : latest[n].result = "failure"
  BY <1>2, <1>3, <1>4, <1>6
<1>8. NotSucceeded(failures) = failures /\ NotSucceeded(latest) = latest
  BY <1>2, <1>4, <1>7, FailuresPass
<1>9. FailureSummary(failures) = FailureSummary(latest)
  BY <1>5, <1>8 DEF FailureSummary
<1>10. IsPrefix(FailureSummary(latest), FailureSummary(latest))
  BY <1>4, <1>6, <1>7, SummaryOfFirst
<1> QED
  BY <1>9, <1>10 DEF AskedSummary, failures, latest, logs

\* The details of a session and the request made with the list give it the same
\* reasons, whatever was recorded of its files, if it has no more records than its
\* details ask for: the first three of all failures are those of the five that the
\* request asks for.  Of a session with more records the details give the first of
\* those reasons, as many as there are failures among the records asked for
\* (buildFailureSummaryFromAuditLogs, openSessionDetail).
THEOREM SameReasons ==
  ASSUME NEW s \in Sessions
  PROVE  /\ IsPrefix(DetailSummary(DetailLogs(s)), AskedSummary(s))
         /\ Len(SessionLogs[s]) <= DetailLimit => DetailSummary(DetailLogs(s)) = AskedSummary(s)
<1> DEFINE logs == SessionLogs[s]
           S == ToSet(logs)
           shown == AtMost(DetailLimit, logs)
           some == Failures(shown)
           all == Failures(logs)
<1>1. logs \in Seq(S) /\ DetailLimit \in Nat
  BY SessionsAssumption, DetailAssumption
<1> HIDE DEF S
<1>2. /\ shown \in Seq(S) /\ Len(shown) = IF Len(logs) < DetailLimit THEN Len(logs) ELSE DetailLimit
      /\ \A n \in 1..Len(shown) : shown[n] = logs[n]
  BY <1>1, AtMostElements
<1>3. Len(some) <= Len(all) /\ \A n \in 1..Len(some) : some[n] = all[n]
  BY <1>1, FailuresOfFirst
<1>4. DetailSummary(DetailLogs(s)) = FailureSummary(some)
  BY DEF DetailSummary, DetailLogs
<1>5. FailureSummary(all) = AskedSummary(s)
  BY LatestSummary
<1> HIDE DEF logs, shown
<1>6. /\ some \in Seq(S) /\ all \in Seq(S)
      /\ \A n \in DOMAIN all : all[n].result = "failure"
  BY <1>1, <1>2, FailuresFail
<1> HIDE DEF some, all
<1>7. IsPrefix(FailureSummary(some), FailureSummary(all))
  BY <1>3, <1>6, SummaryOfFirst
<1>8. ASSUME Len(logs) <= DetailLimit PROVE some = all
  <2>1. Len(logs) \in Nat /\ Len(shown) = Len(logs)
    BY <1>1, <1>2, <1>8, LenProperties
  <2>2. shown = logs
    BY <1>1, <1>2, <2>1, SeqEqual
  <2> QED
    BY <2>2 DEF some, all
<1> QED
  BY <1>4, <1>5, <1>7, <1>8 DEF logs

\* No records, no reasons.
LEMMA NoReasons == DetailSummary(<<>>) = <<>>
<1>1. Failures(<<>>) = <<>>
  <2>1. {k \in DOMAIN <<>> : <<>>[k].result = "failure"} = {}
    OBVIOUS
  <2>2. Cardinality({}) = 0
    BY FS_EmptySet
  <2> QED
    BY <2>1, <2>2 DEF Failures, Picked
<1>2. NotSucceeded(<<>>) = <<>>
  <2>1. {k \in DOMAIN <<>> : <<>>[k].result # "success"} = {}
    OBVIOUS
  <2>2. Cardinality({}) = 0
    BY FS_EmptySet
  <2> QED
    BY <2>1, <2>2 DEF NotSucceeded, Picked
<1>3. AtMost(3, <<>>) = <<>>
  BY SubSeqEmpty DEF AtMost
<1> QED
  BY <1>1, <1>2, <1>3 DEF DetailSummary, FailureSummary
-----------------------------------------------------------------------------
(* The records of uploads.                                                 *)

\* The records are of a session, or of an object, and asked for in a project.
RecordCallsFit(calls) ==
  /\ calls \in [CallIds -> RecordCalls \cup {Idle}]
  /\ \A c \in CallIds : calls[c] # Idle =>
       /\ calls[c].op = "detail" => calls[c].of \in Sessions
       /\ calls[c].op = "audit" => calls[c].of \in Objects

RecordWaits(calls, ops) == \E c \in CallIds : calls[c] # Idle /\ calls[c].op \in ops

RecordSpinners(calls, list, details, audit) ==
  /\ list \in BOOLEAN /\ details \in BOOLEAN /\ audit \in BOOLEAN
  /\ list => RecordWaits(calls, {"sessions", "reasons"})
  /\ details => RecordWaits(calls, {"detail"})
  /\ audit => RecordWaits(calls, {"audit"})

RecordLists ==
  /\ recordsProject \in Projects \cup {None}
  /\ sessionSummaries \in SUBSET Sessions
  /\ DOMAIN failureSummaries \in SUBSET Sessions /\ ReasonsOfTheirSession

RecordDrawers ==
  /\ sessionDetail \in [open : BOOLEAN, session : Sessions \cup {None}, logs : Sessions \cup {None}]
  /\ auditDrawer \in [open : BOOLEAN, logs : Objects \cup {None}]

RecordsInv ==
  /\ RecordLists /\ RecordDrawers /\ RecordCallsFit(recordCalls)
  /\ RecordSpinners(recordCalls, sessionsLoading, detailLoading, auditLoading)

LEMMA RecordsInvImplies == RecordsInv => RecordsTypeOK /\ RecordsNeverStuck /\ ReasonsOfTheirSession
<1> SUFFICES ASSUME RecordsInv PROVE RecordsTypeOK /\ RecordsNeverStuck
  BY DEF RecordsInv, RecordLists
<1>1. RecordsTypeOK
  BY DEF RecordsInv, RecordLists, RecordDrawers, RecordCallsFit, RecordSpinners, RecordsTypeOK
<1>2. \A ops : RecordWaits(recordCalls, ops) => \E c \in CallIds : \E op \in ops : c \in Asked(op)
  BY DEF RecordWaits, Asked
<1>3. RecordsNeverStuck
  BY <1>2 DEF RecordsInv, RecordSpinners, RecordsNeverStuck
<1> QED
  BY <1>1, <1>3

\* A call that starts leaves the others under way.
LEMMA RecordAsked ==
  ASSUME RecordCallsFit(recordCalls), NEW c \in CallIds,
         NEW op \in {"sessions", "reasons", "detail", "audit"}, NEW p \in Projects,
         NEW of \in Sessions \cup Objects \cup {None},
         op = "detail" => of \in Sessions, op = "audit" => of \in Objects, Ask(c, op, p, of)
  PROVE  /\ RecordCallsFit(recordCalls') /\ RecordWaits(recordCalls', {op})
         /\ \A ops : RecordWaits(recordCalls, ops) => RecordWaits(recordCalls', ops)
<1> DEFINE call == [op |-> op, project |-> p, of |-> of]
           next == Started(recordCalls, c, call)
<1>1. recordCalls[c] = Idle /\ recordCalls' = next
  BY DEF Ask
<1>2. call \in RecordCalls /\ call.op = op /\ call.of = of
  BY DEF RecordCalls
<1> HIDE DEF call
<1>3. /\ next \in [CallIds -> RecordCalls \cup {Idle}] /\ call # Idle /\ next[c] = call
      /\ \A x \in CallIds \ {c} : next[x] = recordCalls[x]
  BY <1>2, SomeCallStarted, RecordCallsAssumption DEF RecordCallsFit
<1> HIDE DEF next
<1> QED
  BY <1>1, <1>2, <1>3 DEF RecordCallsFit, RecordWaits

\* So does a call that ends.
LEMMA RecordEnded ==
  ASSUME RecordCallsFit(recordCalls), NEW c \in CallIds, recordCalls' = Ended(recordCalls, c)
  PROVE  /\ RecordCallsFit(recordCalls')
         /\ \A ops : recordCalls[c].op \notin ops /\ RecordWaits(recordCalls, ops)
              => RecordWaits(recordCalls', ops)
<1> DEFINE next == Ended(recordCalls, c)
<1>1. /\ next \in [CallIds -> RecordCalls \cup {Idle}] /\ next[c] = Idle
      /\ \A x \in CallIds \ {c} : next[x] = recordCalls[x]
  <2>1. recordCalls \in [CallIds -> RecordCalls \cup {Idle}]
    BY DEF RecordCallsFit
  <2> QED
    BY SMTT(20), <2>1, SomeCallEnded
<1>2. recordCalls' = next
  OBVIOUS
<1> HIDE DEF next
<1> QED
  BY <1>1, <1>2 DEF RecordCallsFit, RecordWaits

LEMMA SessionsOfProject == \A p \in Projects : SessionsOf[p] \in SUBSET Sessions
  BY DEF Sessions

LEMMA LoadingSessions ==
  ASSUME RecordsInv, NEW c \in CallIds, NEW p \in Projects \cup {None}, LoadSessions(c, p),
         recordsProject' \in Projects \cup {None}, RecordDrawers',
         UNCHANGED <<detailLoading, auditLoading>>
  PROVE  RecordsInv'
<1>1. CASE p = None
  <2>1. /\ sessionSummaries' = {} /\ failureSummaries' = NoSummaries
        /\ UNCHANGED <<sessionsLoading, recordCalls>>
    BY <1>1 DEF LoadSessions
  <2>2. DOMAIN failureSummaries' = {}
    BY <2>1 DEF NoSummaries
  <2>3. RecordLists'
    BY <2>1, <2>2 DEF RecordLists, ReasonsOfTheirSession
  <2> QED
    BY <2>1, <2>3 DEF RecordsInv
<1>2. CASE p # None
  <2>1. /\ Ask(c, "sessions", p, None) /\ sessionsLoading' = TRUE /\ p \in Projects
        /\ UNCHANGED <<sessionSummaries, failureSummaries>>
    BY <1>2 DEF LoadSessions
  <2>2. /\ RecordCallsFit(recordCalls') /\ RecordWaits(recordCalls', {"sessions"})
        /\ \A ops : RecordWaits(recordCalls, ops) => RecordWaits(recordCalls', ops)
    BY <2>1, RecordAsked DEF RecordsInv
  <2>3. RecordWaits(recordCalls', {"sessions", "reasons"})
    BY <2>2 DEF RecordWaits
  <2>4. RecordSpinners(recordCalls', sessionsLoading', detailLoading', auditLoading')
    BY <2>1, <2>2, <2>3 DEF RecordsInv, RecordSpinners
  <2>5. RecordLists'
    BY <2>1 DEF RecordsInv, RecordLists, ReasonsOfTheirSession
  <2> QED
    BY <2>2, <2>4, <2>5 DEF RecordsInv
<1> QED
  BY <1>1, <1>2

\* The list has no summaries of a session, or those it asked for.
LEMMA ListWithout ==
  ASSUME failureSummaries' = NoSummaries, sessionSummaries' \in SUBSET Sessions,
         recordsProject' \in Projects \cup {None}
  PROVE  RecordLists'
<1>1. DOMAIN failureSummaries' = {}
  BY DEF NoSummaries
<1> QED
  BY <1>1 DEF RecordLists, ReasonsOfTheirSession

LEMMA RecordsInitInv == RecordsInit => RecordsInv
<1> SUFFICES ASSUME RecordsInit PROVE RecordsInv
  OBVIOUS
<1>1. DOMAIN failureSummaries = {}
  BY DEF RecordsInit, NoSummaries
<1>2. RecordLists
  BY <1>1 DEF RecordsInit, RecordLists, ReasonsOfTheirSession
<1>3. RecordDrawers
  BY DEF RecordsInit, RecordDrawers
<1>4. RecordCallsFit(recordCalls)
  BY DEF RecordsInit, RecordCallsFit, NoCalls
<1>5. RecordSpinners(recordCalls, sessionsLoading, detailLoading, auditLoading)
  BY DEF RecordsInit, RecordSpinners
<1> QED
  BY <1>2, <1>3, <1>4, <1>5 DEF RecordsInv

LEMMA RecordsStepInv == RecordsInv /\ [RecordsNext]_recordsVars => RecordsInv'
<1> SUFFICES ASSUME RecordsInv, [RecordsNext]_recordsVars PROVE RecordsInv'
  OBVIOUS
<1>1. CASE UNCHANGED recordsVars
  BY <1>1 DEF recordsVars, RecordsInv, RecordLists, RecordDrawers, ReasonsOfTheirSession
<1>2. /\ RecordLists /\ RecordDrawers /\ RecordCallsFit(recordCalls)
      /\ RecordSpinners(recordCalls, sessionsLoading, detailLoading, auditLoading)
  BY DEF RecordsInv
<1>3. ASSUME UNCHANGED <<recordsProject, sessionSummaries, failureSummaries>>
      PROVE  RecordLists'
  BY <1>2, <1>3 DEF RecordLists, ReasonsOfTheirSession
<1>4. CASE CloseDrawer
  <2>1. RecordDrawers'
    BY <1>2, <1>4 DEF CloseDrawer, RecordDrawers
  <2>2. UNCHANGED <<recordsProject, sessionSummaries, sessionsLoading, failureSummaries,
                    detailLoading, auditLoading, recordCalls>>
    BY <1>4 DEF CloseDrawer, ListUnchanged
  <2> QED
    BY <1>2, <1>3, <2>1, <2>2 DEF RecordsInv
<1>5. ASSUME NEW c \in CallIds, SelectRecordsOf(c) PROVE RecordsInv'
  <2>1. PICK p \in Projects : recordsProject' = p /\ LoadSessions(c, p)
    BY <1>5 DEF SelectRecordsOf
  <2>2. /\ sessionDetail' = [sessionDetail EXCEPT !.session = None, !.logs = None]
        /\ UNCHANGED <<detailLoading, auditDrawer, auditLoading>>
    BY <1>5 DEF SelectRecordsOf
  <2>3. RecordDrawers'
    BY <1>2, <2>2 DEF RecordDrawers
  <2> QED
    BY <2>1, <2>2, <2>3, LoadingSessions
<1>6. ASSUME NEW c \in CallIds, RefreshSessions(c) PROVE RecordsInv'
  <2>1. /\ LoadSessions(c, recordsProject)
        /\ UNCHANGED <<sessionDetail, detailLoading, auditDrawer, auditLoading, recordsProject>>
    BY <1>6 DEF RefreshSessions, DrawersUnchanged
  <2>2. RecordDrawers' /\ recordsProject \in Projects \cup {None}
    BY <1>2, <2>1 DEF RecordDrawers, RecordLists
  <2> QED
    BY <2>1, <2>2, LoadingSessions
<1>7. ASSUME NEW c \in CallIds, UploadEnds(c) PROVE RecordsInv'
  <2>1. PICK p \in Projects : LoadSessions(c, p)
    BY <1>7 DEF UploadEnds
  <2>2. UNCHANGED <<sessionDetail, detailLoading, auditDrawer, auditLoading, recordsProject>>
    BY <1>7 DEF UploadEnds, DrawersUnchanged
  <2>3. RecordDrawers' /\ recordsProject' \in Projects \cup {None}
    BY <1>2, <2>2 DEF RecordDrawers, RecordLists
  <2> QED
    BY <2>1, <2>2, <2>3, LoadingSessions
<1>8. ASSUME NEW c \in CallIds, OpenSessionDetail(c) PROVE RecordsInv'
  <2>1. PICK s \in Sessions :
          /\ Ask(c, "detail", recordsProject, s)
          /\ sessionDetail' = [sessionDetail EXCEPT !.open = TRUE, !.session = s]
    BY <1>8 DEF OpenSessionDetail
  <2>2. /\ recordsProject \in Projects /\ detailLoading' = TRUE
        /\ UNCHANGED <<recordsProject, sessionSummaries, sessionsLoading, failureSummaries, auditDrawer, auditLoading>>
    BY <1>2, <1>8 DEF OpenSessionDetail, ListUnchanged, RecordLists
  <2>3. /\ RecordCallsFit(recordCalls') /\ RecordWaits(recordCalls', {"detail"})
        /\ \A ops : RecordWaits(recordCalls, ops) => RecordWaits(recordCalls', ops)
    BY <1>2, <2>1, <2>2, RecordAsked
  <2>4. RecordDrawers'
    BY <1>2, <2>1, <2>2 DEF RecordDrawers
  <2>5. RecordSpinners(recordCalls', sessionsLoading', detailLoading', auditLoading')
    BY <1>2, <2>2, <2>3 DEF RecordSpinners
  <2> QED
    BY <1>3, <2>2, <2>3, <2>4, <2>5 DEF RecordsInv
<1>9. ASSUME NEW c \in CallIds, OpenAudit(c) PROVE RecordsInv'
  <2>1. PICK o \in Objects : Ask(c, "audit", recordsProject, o)
    BY <1>9 DEF OpenAudit
  <2>2. /\ recordsProject \in Projects /\ auditLoading' = TRUE
        /\ auditDrawer' = [auditDrawer EXCEPT !.open = TRUE]
        /\ UNCHANGED <<recordsProject, sessionSummaries, sessionsLoading, failureSummaries, sessionDetail, detailLoading>>
    BY <1>2, <1>9 DEF OpenAudit, ListUnchanged, RecordLists
  <2>3. /\ RecordCallsFit(recordCalls') /\ RecordWaits(recordCalls', {"audit"})
        /\ \A ops : RecordWaits(recordCalls, ops) => RecordWaits(recordCalls', ops)
    BY <1>2, <2>1, <2>2, RecordAsked
  <2>4. RecordDrawers'
    BY <1>2, <2>2 DEF RecordDrawers
  <2>5. RecordSpinners(recordCalls', sessionsLoading', detailLoading', auditLoading')
    BY <1>2, <2>2, <2>3 DEF RecordSpinners
  <2> QED
    BY <1>3, <2>2, <2>3, <2>4, <2>5 DEF RecordsInv
<1>10. ASSUME NEW c \in CallIds, recordCalls[c] # Idle
       PROVE  /\ recordCalls[c] \in RecordCalls /\ recordCalls[c].project \in Projects
              /\ recordCalls[c].op = "detail" => recordCalls[c].of \in Sessions
              /\ recordCalls[c].op = "audit" => recordCalls[c].of \in Objects
  BY <1>2, <1>10 DEF RecordCallsFit, RecordCalls
<1>11. ASSUME NEW c \in CallIds, recordCalls' = Ended(recordCalls, c)
       PROVE  /\ RecordCallsFit(recordCalls')
              /\ \A ops : recordCalls[c].op \notin ops /\ RecordWaits(recordCalls, ops)
                   => RecordWaits(recordCalls', ops)
  BY <1>2, <1>11, RecordEnded
<1>12. ASSUME NEW c \in CallIds, SessionsAnswer(c) PROVE RecordsInv'
  <2> DEFINE p == recordCalls[c].project
  <2>1. /\ recordCalls[c] # Idle /\ recordCalls[c].op = "sessions"
        /\ failureSummaries' = NoSummaries /\ sessionSummaries' \in {SessionsOf[p], {}}
        /\ \/ recordCalls' = [recordCalls EXCEPT ![c].op = "reasons"] /\ UNCHANGED sessionsLoading
           \/ recordCalls' = Ended(recordCalls, c) /\ sessionsLoading' = FALSE
        /\ UNCHANGED <<sessionDetail, detailLoading, auditDrawer, auditLoading, recordsProject>>
    BY <1>12 DEF SessionsAnswer, Asked, DrawersUnchanged
  <2>2. p \in Projects
    BY <1>10, <2>1
  <2>3. sessionSummaries' \in SUBSET Sessions
    BY <2>1, <2>2, SessionsOfProject
  <2>4. RecordLists' /\ RecordDrawers'
    BY <1>2, <2>1, <2>3, ListWithout DEF RecordLists, RecordDrawers
  <2>5. CASE recordCalls' = [recordCalls EXCEPT ![c].op = "reasons"] /\ UNCHANGED sessionsLoading
    <3> DEFINE call == [recordCalls[c] EXCEPT !.op = "reasons"]
    <3>1. call \in RecordCalls /\ call.op = "reasons" /\ call # Idle
      BY <1>10, <2>1, RecordCallsAssumption DEF RecordCalls
    <3>2. recordCalls' = [recordCalls EXCEPT ![c] = call]
      BY <2>5
    <3> HIDE DEF call
    <3>3. /\ recordCalls' \in [CallIds -> RecordCalls \cup {Idle}] /\ recordCalls'[c] = call
          /\ \A x \in CallIds \ {c} : recordCalls'[x] = recordCalls[x]
      BY <1>2, <3>1, <3>2 DEF RecordCallsFit
    <3>4. RecordCallsFit(recordCalls')
      BY <1>2, <3>1, <3>3 DEF RecordCallsFit
    <3>5. RecordSpinners(recordCalls', sessionsLoading', detailLoading', auditLoading')
      <4>1. RecordWaits(recordCalls', {"sessions", "reasons"})
        BY <3>1, <3>3 DEF RecordWaits
      <4>2. /\ RecordWaits(recordCalls, {"detail"}) => RecordWaits(recordCalls', {"detail"})
            /\ RecordWaits(recordCalls, {"audit"}) => RecordWaits(recordCalls', {"audit"})
        BY <2>1, <3>3 DEF RecordWaits
      <4> QED
        BY <1>2, <2>1, <2>5, <4>1, <4>2 DEF RecordSpinners
    <3> QED
      BY <2>4, <3>4, <3>5 DEF RecordsInv
  <2>6. CASE recordCalls' = Ended(recordCalls, c) /\ sessionsLoading' = FALSE
    <3>1. RecordSpinners(recordCalls', sessionsLoading', detailLoading', auditLoading')
      BY <1>2, <1>11, <2>1, <2>6 DEF RecordSpinners
    <3> QED
      BY <1>11, <2>4, <2>6, <3>1 DEF RecordsInv
  <2> QED
    BY <2>1, <2>5, <2>6
<1>13. ASSUME NEW c \in CallIds, ReasonsAnswer(c) PROVE RecordsInv'
  <2>1. PICK arrived \in SUBSET {s \in SessionsOf[recordCalls[c].project] :
                                     HasFailed(s) /\ AskedSummary(s) # <<>>} :
          failureSummaries' = [s \in arrived |-> AskedSummary(s)]
    BY <1>13 DEF ReasonsAnswer
  <2>2. /\ recordCalls[c] # Idle /\ recordCalls[c].op = "reasons"
        /\ recordCalls' = Ended(recordCalls, c) /\ sessionsLoading' = FALSE
        /\ UNCHANGED <<sessionDetail, detailLoading, auditDrawer, auditLoading, recordsProject, sessionSummaries>>
    BY <1>13 DEF ReasonsAnswer, Asked, DrawersUnchanged
  <2>3. arrived \in SUBSET Sessions
    BY <1>10, <2>2, SessionsOfProject
  <2>4. DOMAIN failureSummaries' = arrived /\ ReasonsOfTheirSession'
    BY <2>1, <2>3, LatestSummary DEF ReasonsOfTheirSession
  <2>5. RecordLists' /\ RecordDrawers'
    BY <1>2, <2>2, <2>3, <2>4 DEF RecordLists, RecordDrawers
  <2>6. RecordSpinners(recordCalls', sessionsLoading', detailLoading', auditLoading')
    BY <1>2, <1>11, <2>2 DEF RecordSpinners
  <2> QED
    BY <1>11, <2>2, <2>5, <2>6 DEF RecordsInv
<1>14. ASSUME NEW c \in CallIds, DetailAnswer(c) PROVE RecordsInv'
  <2> DEFINE s == recordCalls[c].of
             logs == IF s \in SessionsOf[recordCalls[c].project] THEN DetailLogs(s) ELSE <<>>
             reasons == IF HasFailed(s) THEN DetailSummary(logs) ELSE <<>>
  <2>1. /\ \/ /\ sessionDetail' = [sessionDetail EXCEPT !.logs = s]
              /\ failureSummaries' = WithReasons(s, reasons)
           \/ sessionDetail' = [sessionDetail EXCEPT !.logs = None] /\ UNCHANGED failureSummaries
        /\ recordCalls[c] # Idle /\ recordCalls[c].op = "detail"
        /\ recordCalls' = Ended(recordCalls, c) /\ detailLoading' = FALSE
        /\ UNCHANGED <<recordsProject, sessionSummaries, sessionsLoading, auditDrawer, auditLoading>>
    BY <1>14 DEF DetailAnswer, Asked
  <2>2. s \in Sessions
    BY <1>10, <2>1
  <2>3. reasons \in {DetailSummary(DetailLogs(s)), <<>>}
    BY NoReasons
  <2> HIDE DEF s, reasons
  <2>4. ASSUME failureSummaries' = WithReasons(s, reasons)
        PROVE  DOMAIN failureSummaries' \in SUBSET Sessions /\ ReasonsOfTheirSession'
    <3>1. CASE reasons = <<>>
      <4>1. UNCHANGED failureSummaries
        BY <2>4, <3>1 DEF WithReasons
      <4> QED
        BY <1>2, <4>1 DEF RecordLists, ReasonsOfTheirSession
    <3>2. CASE reasons # <<>>
      <4>1. /\ failureSummaries' = Put(failureSummaries, s, reasons)
            /\ IsPrefix(reasons, AskedSummary(s))
            /\ Len(SessionLogs[s]) <= DetailLimit => reasons = AskedSummary(s)
        BY <2>2, <2>3, <2>4, <3>2, SameReasons DEF WithReasons
      <4>2. /\ DOMAIN failureSummaries' = DOMAIN failureSummaries \cup {s}
            /\ \A x \in DOMAIN failureSummaries \cup {s} :
                 failureSummaries'[x] = IF x = s THEN reasons ELSE failureSummaries[x]
        BY <4>1 DEF Put
      <4> QED
        BY <1>2, <2>2, <3>2, <4>1, <4>2 DEF RecordLists, ReasonsOfTheirSession
    <3> QED
      BY <3>1, <3>2
  <2>5. RecordLists'
    BY <1>2, <1>3, <2>1, <2>4 DEF RecordLists
  <2>6. RecordDrawers'
    BY <1>2, <2>1, <2>2 DEF RecordDrawers
  <2>7. RecordSpinners(recordCalls', sessionsLoading', detailLoading', auditLoading')
    BY <1>2, <1>11, <2>1 DEF RecordSpinners
  <2> QED
    BY <1>11, <2>1, <2>5, <2>6, <2>7 DEF RecordsInv
<1>15. ASSUME NEW c \in CallIds, AuditAnswer(c) PROVE RecordsInv'
  <2>1. PICK logs \in {recordCalls[c].of, None} : auditDrawer' = [auditDrawer EXCEPT !.logs = logs]
    BY <1>15 DEF AuditAnswer
  <2>2. /\ recordCalls[c] # Idle /\ recordCalls[c].op = "audit"
        /\ recordCalls' = Ended(recordCalls, c) /\ auditLoading' = FALSE
        /\ UNCHANGED <<recordsProject, sessionSummaries, sessionsLoading, failureSummaries, sessionDetail, detailLoading>>
    BY <1>15 DEF AuditAnswer, Asked, ListUnchanged
  <2>3. logs \in Objects \cup {None}
    BY <1>10, <2>1, <2>2
  <2>4. RecordDrawers'
    BY <1>2, <2>1, <2>2, <2>3 DEF RecordDrawers
  <2>5. RecordSpinners(recordCalls', sessionsLoading', detailLoading', auditLoading')
    BY <1>2, <1>11, <2>2 DEF RecordSpinners
  <2> QED
    BY <1>3, <1>11, <2>2, <2>4, <2>5 DEF RecordsInv
<1> QED
  BY <1>1, <1>4, <1>5, <1>6, <1>7, <1>8, <1>9, <1>12, <1>13, <1>14, <1>15 DEF RecordsNext
-----------------------------------------------------------------------------
(* The console: the page that is mounted has its invariant, the others     *)
(* hold nothing.                                                           *)

PagesInv ==
  /\ mounted \in Pages
  /\ IF mounted = "records" THEN RecordsInv ELSE RecordsAbsent
  /\ IF mounted = "users" THEN UsersInv ELSE UsersAbsent
  /\ IF mounted = "projects" THEN ProjectsInv ELSE ProjectsAbsent
  /\ IF mounted = "cdn" THEN CDNInv ELSE CDNAbsent
  /\ IF mounted = "audits" THEN AuditsInv ELSE AuditsAbsent
  /\ IF mounted = "overview" THEN OverviewInv ELSE OverviewAbsent
  /\ IF mounted = "session" THEN SessionInv ELSE SessionAbsent

LEMMA PagesInitInv == PagesInit => PagesInv
BY RecordsInitInv, UsersInitInv, ProjectsInitInv, CDNInitInv, AuditsInitInv, OverviewInitInv,
   SessionInitInv
DEF PagesInit, PagesInv

\* A step of the console is one of the page that is mounted, which stays.
LEMMA OnePageSteps ==
  ASSUME [PagesNext]_pagesVars
  PROVE  /\ mounted' = mounted
         /\ IF mounted = "records" THEN [RecordsNext]_recordsVars ELSE UNCHANGED recordsVars
         /\ IF mounted = "users" THEN [UsersNext]_usersVars ELSE UNCHANGED usersVars
         /\ IF mounted = "projects" THEN [ProjectsNext]_projectsVars ELSE UNCHANGED projectsVars
         /\ IF mounted = "cdn" THEN [CDNNext]_cdnVars ELSE UNCHANGED cdnVars
         /\ IF mounted = "audits" THEN [AuditsNext]_auditsVars ELSE UNCHANGED auditsVars
         /\ IF mounted = "overview" THEN [OverviewNext]_overviewVars ELSE UNCHANGED overviewVars
         /\ IF mounted = "session" THEN [SessionNext]_sessionVars ELSE UNCHANGED sessionVars
BY DEF PagesNext, pagesVars, OnRecords, OnUsers, OnProjects, OnCDN, OnAudits, OnOverview, OnSession

LEMMA PagesStepInv == PagesInv /\ [PagesNext]_pagesVars => PagesInv'
<1> SUFFICES ASSUME PagesInv, [PagesNext]_pagesVars PROVE PagesInv'
  OBVIOUS
<1>1. mounted' = mounted /\ mounted \in Pages
  BY OnePageSteps DEF PagesInv
<1>2. IF mounted = "records" THEN RecordsInv' ELSE RecordsAbsent'
  <2>1. CASE mounted = "records"
    BY <2>1, OnePageSteps, RecordsStepInv DEF PagesInv
  <2>2. CASE mounted # "records"
    <3>1. UNCHANGED recordsVars /\ RecordsAbsent
      BY <2>2, OnePageSteps DEF PagesInv
    <3> QED
      BY <2>2, <3>1 DEF RecordsAbsent, recordsVars
  <2> QED
    BY <2>1, <2>2
<1>3. IF mounted = "users" THEN UsersInv' ELSE UsersAbsent'
  <2>1. CASE mounted = "users"
    BY <2>1, OnePageSteps, UsersStepInv DEF PagesInv
  <2>2. CASE mounted # "users"
    <3>1. UNCHANGED usersVars /\ UsersAbsent
      BY <2>2, OnePageSteps DEF PagesInv
    <3> QED
      BY <2>2, <3>1 DEF UsersAbsent, usersVars
  <2> QED
    BY <2>1, <2>2
<1>4. IF mounted = "projects" THEN ProjectsInv' ELSE ProjectsAbsent'
  <2>1. CASE mounted = "projects"
    BY <2>1, OnePageSteps, ProjectsStepInv DEF PagesInv
  <2>2. CASE mounted # "projects"
    <3>1. UNCHANGED projectsVars /\ ProjectsAbsent
      BY <2>2, OnePageSteps DEF PagesInv
    <3> QED
      BY <2>2, <3>1 DEF ProjectsAbsent, projectsVars
  <2> QED
    BY <2>1, <2>2
<1>5. IF mounted = "cdn" THEN CDNInv' ELSE CDNAbsent'
  <2>1. CASE mounted = "cdn"
    BY <2>1, OnePageSteps, CDNStepInv DEF PagesInv
  <2>2. CASE mounted # "cdn"
    <3>1. UNCHANGED cdnVars /\ CDNAbsent
      BY <2>2, OnePageSteps DEF PagesInv
    <3> QED
      BY <2>2, <3>1 DEF CDNAbsent, cdnVars
  <2> QED
    BY <2>1, <2>2
<1>6. IF mounted = "audits" THEN AuditsInv' ELSE AuditsAbsent'
  <2>1. CASE mounted = "audits"
    BY <2>1, OnePageSteps, AuditsStepInv DEF PagesInv
  <2>2. CASE mounted # "audits"
    <3>1. UNCHANGED auditsVars /\ AuditsAbsent
      BY <2>2, OnePageSteps DEF PagesInv
    <3> QED
      BY <2>2, <3>1 DEF AuditsAbsent, auditsVars
  <2> QED
    BY <2>1, <2>2
<1>7. IF mounted = "overview" THEN OverviewInv' ELSE OverviewAbsent'
  <2>1. CASE mounted = "overview"
    BY <2>1, OnePageSteps, OverviewStepInv DEF PagesInv
  <2>2. CASE mounted # "overview"
    <3>1. UNCHANGED overviewVars /\ OverviewAbsent
      BY <2>2, OnePageSteps DEF PagesInv
    <3> QED
      BY <2>2, <3>1 DEF OverviewAbsent, overviewVars
  <2> QED
    BY <2>1, <2>2
<1>8. IF mounted = "session" THEN SessionInv' ELSE SessionAbsent'
  <2>1. CASE mounted = "session"
    BY <2>1, OnePageSteps, SessionStepInv DEF PagesInv
  <2>2. CASE mounted # "session"
    <3>1. UNCHANGED sessionVars /\ SessionAbsent
      BY <2>2, OnePageSteps DEF PagesInv
    <3> QED
      BY <2>2, <3>1 DEF SessionAbsent, sessionVars
  <2> QED
    BY <2>1, <2>2
<1> QED
  BY <1>1, <1>2, <1>3, <1>4, <1>5, <1>6, <1>7, <1>8 DEF PagesInv

LEMMA PagesAlways == PagesSpec => []PagesInv
  BY PagesInitInv, PagesStepInv, PTL DEF PagesSpec

\* The state of the page that is mounted has its type, for any accounts, projects,
\* bindings, links, logs and calls under way at a time.
THEOREM PagesTypes == PagesSpec => []PagesTypeOK
<1>1. PagesInv => PagesTypeOK
  BY RecordsInvImplies, AuditsInvImplies, OverviewInvImplies
  DEF PagesInv, PagesTypeOK, UsersInv, ProjectsInv, CDNInv, SessionInv, SessionTypeOK, TabStates
<1> QED
  BY <1>1, PagesAlways, PTL

\* No page shows that it loads, or is disabled while something is sent, without a
\* call under way that ends it, however many calls overlap (the loading flags of the
\* pages).
THEOREM PagesNotStuck == PagesSpec => []PagesNeverStuck
<1>1. PagesInv => PagesNeverStuck
  BY RecordsInvImplies, AuditsInvImplies, OverviewInvImplies
  DEF PagesInv, PagesNeverStuck, UsersInv, ProjectsInv, CDNInv
<1> QED
  BY <1>1, PagesAlways, PTL

\* The bindings that replace those of a user were made for it, whichever dialogs are
\* opened while snapshots and saves are under way (bindingSnapshotTargetRef).
THEOREM PagesNoCrossUserSaves == PagesSpec => []NoCrossUserSave
<1>1. PagesInv => NoCrossUserSave
  <2> SUFFICES ASSUME PagesInv PROVE NoCrossUserSave
    OBVIOUS
  <2>1. CASE mounted = "users"
    BY <2>1 DEF PagesInv, UsersInv
  <2>2. CASE mounted # "users"
    BY <2>2 DEF PagesInv, UsersAbsent, NoCrossUserSave, NoCalls
  <2> QED
    BY <2>1, <2>2
<1> QED
  BY <1>1, PagesAlways, PTL

\* The checks of the project page (submitProject) and those of the server
\* (prepareUpdateBindings) agree, for any kinds of bindings, providers and number of
\* writes: a form that shows the project as it is stored is not refused for its
\* credentials as long as all those bindings have one; otherwise a refusal is placed
\* at the switch that keeps a credential.
THEOREM PagesCurrentFormsAccepted == PagesSpec => []CurrentFormAccepted
<1>1. PagesInv => CurrentFormAccepted
  <2> SUFFICES ASSUME PagesInv PROVE CurrentFormAccepted
    OBVIOUS
  <2>1. CASE mounted = "projects"
    BY <2>1 DEF PagesInv, ProjectsInv
  <2>2. CASE mounted # "projects"
    BY <2>2 DEF PagesInv, ProjectsAbsent, CurrentFormAccepted, NoCalls
  <2> QED
    BY <2>1, <2>2
<1> QED
  BY <1>1, PagesAlways, PTL

\* What is sent for an operation of the CDN page is what its own tab holds, for any
\* projects, bindings and links (the effect on operationInput).
THEOREM OperationsApart == PagesSpec => []OperationsKeptApart
<1>1. PagesInv => OperationsKeptApart
  <2> SUFFICES ASSUME PagesInv PROVE OperationsKeptApart
    OBVIOUS
  <2>1. CASE mounted = "cdn"
    BY <2>1 DEF PagesInv, CDNInv
  <2>2. CASE mounted # "cdn"
    <3>1. activeOperation = "url" /\ operationInputs = [op \in Operations |-> {}] /\ formInput = {}
      BY <2>2 DEF PagesInv, CDNAbsent
    <3> QED
      BY <3>1 DEF OperationsKeptApart, Operations
  <2> QED
    BY <2>1, <2>2
<1> QED
  BY <1>1, PagesAlways, PTL

\* At most one query of the audit page is under way, for any links and options, so
\* that no answer of an earlier one replaces that of the latest (loading,
\* pendingAutoQuery).
THEOREM QueriesTakeTurns == PagesSpec => []QueriesInTurn
<1>1. PagesInv => QueriesInTurn
  <2> SUFFICES ASSUME PagesInv PROVE QueriesInTurn
    OBVIOUS
  <2>1. CASE mounted = "audits"
    BY <2>1, AuditsInvImplies DEF PagesInv
  <2>2. CASE mounted # "audits"
    <3>1. UnderWay("query") = {}
      BY <2>2 DEF PagesInv, AuditsAbsent, UnderWay
    <3>2. Cardinality({}) = 0
      BY FS_EmptySet
    <3> QED
      BY <3>1, <3>2 DEF QueriesInTurn
  <2> QED
    BY <2>1, <2>2
<1> QED
  BY <1>1, PagesAlways, PTL

\* Once the overview does not load, its workbench is that of the window selected,
\* whichever load of another window ends when, or it shows an error and none
\* (requestSequenceRef), for any logs, windows and number of loads.
THEOREM SelectedWindowShown == PagesSpec => []WorkbenchOfSelectedWindow
<1>1. PagesInv => WorkbenchOfSelectedWindow
  <2> SUFFICES ASSUME PagesInv PROVE WorkbenchOfSelectedWindow
    OBVIOUS
  <2>1. CASE mounted = "overview"
    BY <2>1, OverviewInvImplies DEF PagesInv
  <2>2. CASE mounted # "overview"
    BY <2>2 DEF PagesInv, OverviewAbsent, WorkbenchOfSelectedWindow
  <2> QED
    BY <2>1, <2>2
<1> QED
  BY <1>1, PagesAlways, PTL

\* While the overview does not load, its workbench and its error stay: a load that was
\* overtaken, also one of the same window, sets neither when it ends
\* (requestSequenceRef); the metrics and the access to write, which it does set, are
\* not meant.
THEOREM LateLoadsChangeNothing == PagesSpec => LateLoadsIgnored
<1>1. ASSUME PagesInv, [PagesNext]_pagesVars, overviewVars' # overviewVars,
             ~overviewLoading, ~overviewLoading'
      PROVE  UNCHANGED <<workbench, overviewError>>
  <2>1. mounted = "overview"
    BY <1>1, OnePageSteps
  <2>2. OverviewInv /\ OverviewNext
    BY <1>1, <2>1, OnePageSteps DEF PagesInv
  <2>3. overviewCalls[overviewSequence] = Idle
    BY <1>1, <2>2 DEF OverviewInv, LatestLoad
  <2>4. ~LoadCoreMetrics(range) /\ ~LoadCoreMetrics(range')
    BY <1>1 DEF LoadCoreMetrics
  <2>5. ~ChooseRange /\ ~RefreshOverview /\ ~ChangeLanguage
    BY <2>4 DEF ChooseRange, RefreshOverview, ChangeLanguage
  <2>6. PICK n \in Numbers : \/ MetricsAnswer(n) \/ AccessibleAnswer(n) \/ ContextsAnswer(n)
                             \/ AuditsAnswer(n) \/ LoadFails(n)
    BY <2>2, <2>5 DEF OverviewNext
  <2>7. CASE MetricsAnswer(n) \/ AccessibleAnswer(n) \/ ContextsAnswer(n)
    BY <2>7 DEF MetricsAnswer, AccessibleAnswer, ContextsAnswer
  <2>8. CASE AuditsAnswer(n)
    <3>1. ~IsLatest(n)
      BY <2>3, <2>8 DEF AuditsAnswer, Waiting, IsLatest
    <3>2. workbench' = workbench
      BY <2>8, <3>1 DEF AuditsAnswer
    <3> QED
      BY <2>8, <3>2 DEF AuditsAnswer
  <2>9. CASE LoadFails(n)
    <3>1. ~IsLatest(n)
      BY <2>3, <2>9 DEF LoadFails, Waiting, IsLatest
    <3> QED
      BY <2>9, <3>1 DEF LoadFails
  <2> QED
    BY <2>6, <2>7, <2>8, <2>9
<1>2. PagesInv /\ [PagesNext]_pagesVars
        => [~overviewLoading /\ ~overviewLoading' => UNCHANGED <<workbench, overviewError>>]_overviewVars
  BY <1>1
<1> QED
  BY <1>2, PagesAlways, PTL DEF PagesSpec, LateLoadsIgnored

\* The reasons in the row of a session are its own, the first of those asked for with
\* the list, and all of those if its details ask for all its records, whatever was
\* recorded of it and in whatever order the answers arrive (sessionFailureSummaryMap,
\* openSessionDetail).
THEOREM OwnReasons == PagesSpec => []ReasonsOfTheirSession
<1>1. PagesInv => ReasonsOfTheirSession
  <2> SUFFICES ASSUME PagesInv PROVE ReasonsOfTheirSession
    OBVIOUS
  <2>1. CASE mounted = "records"
    BY <2>1, RecordsInvImplies DEF PagesInv
  <2>2. CASE mounted # "records"
    BY <2>2 DEF PagesInv, RecordsAbsent, ReasonsOfTheirSession, NoSummaries
  <2> QED
    BY <2>1, <2>2
<1> QED
  BY <1>1, PagesAlways, PTL

\* A page shows what it loaded with the token its tab sends now, at a path of the
\* menu of that session, for any number of tabs and accounts (the route guards, the
\* answer of a login).
THEOREM PagesOfTheirSession == PagesSpec => []PageOfItsSession
<1>1. PagesInv => PageOfItsSession
  <2> SUFFICES ASSUME PagesInv PROVE PageOfItsSession
    OBVIOUS
  <2>1. CASE mounted = "session"
    BY <2>1 DEF PagesInv, SessionInv, OfItsSession, PageOfItsSession
  <2>2. CASE mounted # "session"
    BY <2>2 DEF PagesInv, SessionAbsent, PageOfItsSession
  <2> QED
    BY <2>1, <2>2
<1> QED
  BY <1>1, PagesAlways, PTL
=============================================================================
